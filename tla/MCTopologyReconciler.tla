------------------------- MODULE MCTopologyReconciler -------------------------
(***************************************************************************)
(* Small instances of TopologyReconciler.                                  *)
(***************************************************************************)
EXTENDS TopologyReconciler

ByName == [connectionSecret |-> FALSE, namespace |-> "rabbit"]
BySecret == [connectionSecret |-> TRUE, namespace |-> "rabbit"]

CONSTANT Remote   \* the objects that go through a connectionSecret
RemoteBySecret == [o \in Objects |-> IF o \in Remote THEN BySecret ELSE ByName]

Up == [read |-> "found", allowed |-> {"app"}, replicas |-> 1, serviceReference |-> TRUE,
       vault |-> FALSE, binding |-> TRUE, uri |-> "missing", additionalConfig |-> TRUE,
       tls |-> FALSE, disableNonTLSListeners |-> FALSE]
AtZero == [Up EXCEPT !.replicas = 0]
Denying == [Up EXCEPT !.allowed = {}]
Gone == [Up EXCEPT !.read = "notFound"]

Serving == [connection |-> [read |-> "found", allowed |-> {"*"}, uri |-> "http"],
            store |-> "found", userSecret |-> "found",
            service |-> [read |-> "found", ports |-> {"management"}]]
NoConnection == [Serving EXCEPT !.connection.read = "notFound"]
DeniedConnection == [Serving EXCEPT !.connection.allowed = {}]

Answering == {Up, AtZero, Denying, Gone}
ConnectionTrouble == {Serving, NoConnection, DeniedConnection}
OnlyServing == {Serving}
================================================================================
