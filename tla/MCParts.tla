-------------------------------- MODULE MCParts --------------------------------
(***************************************************************************)
(* Small instances of the components of Parts.                             *)
(***************************************************************************)
EXTENDS Parts

\* Specs that differ in what the webhooks of Queue compare.
QueueSpec(type, durable, autoDelete, arguments) ==
  [type |-> type, durable |-> durable, autoDelete |-> autoDelete, arguments |-> arguments,
   retain |-> FALSE]

SmallQueueSpecs ==
  {QueueSpec("classic", Nil, FALSE, Nil), QueueSpec("classic", FALSE, TRUE, "{}"),
   [QueueSpec("classic", TRUE, FALSE, Nil) EXCEPT !.retain = TRUE],
   QueueSpec("quorum", Nil, FALSE, Nil), QueueSpec("quorum", FALSE, FALSE, Nil),
   QueueSpec("classic", TRUE, FALSE, "nested")}

\* The environment of config/manager, and others that differ from it in one or two values.
Shipped ==
  [operatorNamespace |-> "set", scope |-> <<>>, domain |-> "", plainHTTP |-> "unset",
   syncPeriod |-> "unset", numbers |-> "good", maxConcurrentReconciles |-> 0,
   leaseDuration |-> 0, renewDeadline |-> 0, retryPeriod |-> 0, enableWebhooks |-> "",
   leaderElect |-> TRUE]

FewEnvironments ==
  {Shipped,
   [Shipped EXCEPT !.operatorNamespace = "bad"],
   [Shipped EXCEPT !.numbers = "bad"],
   [Shipped EXCEPT !.enableWebhooks = "false", !.scope = <<"a", "">>],
   [Shipped EXCEPT !.leaderElect = FALSE, !.domain = "example.org"],
   [Shipped EXCEPT !.leaseDuration = 8],
   [Shipped EXCEPT !.leaseDuration = 7, !.renewDeadline = 4],
   [Shipped EXCEPT !.leaseDuration = 5, !.renewDeadline = 4, !.retryPeriod = 3]}

\* The bounds.
Edits == [declaration |-> 3, limits |-> 1]
Faults == [declaration |-> 1, deletion |-> 2, unbinding |-> 1, limits |-> 1, granting |-> 1,
           upstream |-> 1, process |-> 1]
Outsides == [declaration |-> 1, deletion |-> 4, unbinding |-> 1, limits |-> 1, granting |-> 3,
             upstream |-> 2]
================================================================================
