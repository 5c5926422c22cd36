-------------------------------- MODULE Limits --------------------------------
(***************************************************************************)
(* The limits of a vhost (max-connections, max-queues) and of a user       *)
(* (max-connections, max-channels).  VhostReconciler.DeclareFunc and       *)
(* UserReconciler.reconcileUserLimits bring them to what the spec says in  *)
(* the same way: read what is set, delete what the spec no longer has, put *)
(* what it has.  People may set limits too, and any of the calls may fail. *)
(***************************************************************************)
EXTENDS Naturals

CONSTANTS
  Keys,       \* the two limits of the kind at hand
  Values,     \* values of a limit
  Unset,      \* no limit
  MaxEdits,   \* bound: changes of the spec
  MaxFaults,  \* bound: calls that fail
  MaxOutside  \* bound: limits set or cleared by others

LimitValues == [Keys -> Values \cup {Unset}]

VARIABLES
  spec,       \* the limits in the spec
  limits,     \* the limits on the server
  pc,         \* the next call, or what DeclareFunc returned
  new,        \* what the worker read of the spec
  existing,   \* what it read from the server
  touched,    \* history: limits that others changed since it read them
  spent       \* how much of each bound is used up

vars == <<spec, limits, pc, new, existing, touched, spent>>

NoLimits == [k \in Keys |-> Unset]

Init ==
  /\ spec \in LimitValues
  /\ limits \in LimitValues
  /\ pc = "idle"
  /\ new = NoLimits
  /\ existing = NoLimits
  /\ touched = {}
  /\ spent = [edits |-> 0, faults |-> 0, outside |-> 0]

Call(c) ==
  /\ c = "ok" \/ spent.faults < MaxFaults
  /\ spent' = IF c = "ok" THEN spent ELSE [spent EXCEPT !.faults = @ + 1]

Given(l) == {k \in Keys : l[k] # Unset}
--------------------------------------------------------------------------------
\* Reconcile, and the PUT of the vhost or user itself.
Start ==
  /\ pc \in {"idle", "failed"}
  /\ new' = spec
  /\ \E c \in {"ok", "error"} : Call(c) /\ pc' = (IF c = "ok" THEN "getLimits" ELSE "failed")
  /\ UNCHANGED <<spec, limits, existing, touched>>

\* getVhostLimits, getUserLimits: 404 and an empty list mean no limits.
GetLimits ==
  /\ pc = "getLimits"
  /\ \E c \in {"ok", "error"} :
       /\ Call(c)
       /\ IF c = "ok"
          THEN existing' = limits /\ touched' = {} /\ pc' = "deleteLimits"
          ELSE pc' = "failed" /\ UNCHANGED <<existing, touched>>
  /\ UNCHANGED <<spec, limits, new>>

\* Mutant of LimitsToDelete: nothing is deleted.
LimitsToDeleteNone(old, wanted) == {}

\* vhostLimitsToDelete, userLimitsToDelete.
LimitsToDelete(old, wanted) == Given(old) \ Given(wanted)

\* The client library sends one request per limit, and the first that fails ends it:
\* a failed call may have been applied to any of them.  No limits, no call.
Request(K, value, then) ==
  \/ /\ K = {}
     /\ pc' = then
     /\ UNCHANGED <<limits, spent>>
  \/ /\ K # {}
     /\ \E c \in {"ok", "error"}, applied \in SUBSET K :
          /\ Call(c)
          /\ c = "ok" => applied = K
          /\ limits' = [k \in Keys |-> IF k \in applied THEN value[k] ELSE limits[k]]
          /\ pc' = IF c = "ok" THEN then ELSE "failed"

\* DeleteVhostLimits, DeleteUserLimits: 404 is no error.
DeleteLimits ==
  /\ pc = "deleteLimits"
  /\ Request(LimitsToDelete(existing, new), NoLimits, "putLimits")
  /\ UNCHANGED <<spec, new, existing, touched>>

\* PutVhostLimits, PutUserLimits.
PutLimits ==
  /\ pc = "putLimits"
  /\ Request(Given(new), new, "done")
  /\ UNCHANGED <<spec, new, existing, touched>>

\* The next event of the object starts all over.
Wake ==
  /\ pc = "done"
  /\ pc' = "idle"
  /\ UNCHANGED <<spec, limits, new, existing, touched, spent>>

EditSpec(l) ==
  /\ spent.edits < MaxEdits
  /\ spent' = [spent EXCEPT !.edits = @ + 1]
  /\ spec' = l
  /\ UNCHANGED <<limits, pc, new, existing, touched>>

SetOutside(k, v) ==
  /\ spent.outside < MaxOutside
  /\ spent' = [spent EXCEPT !.outside = @ + 1]
  /\ limits[k] # v
  /\ limits' = [limits EXCEPT ![k] = v]
  /\ touched' = touched \cup {k}
  /\ UNCHANGED <<spec, pc, new, existing>>

\* VhostReconciler.DeclareFunc; UserReconciler.reconcileUserLimits.
DeclareFunc == Start \/ GetLimits \/ DeleteLimits \/ PutLimits

Next ==
  \/ DeclareFunc \/ Wake
  \/ \E l \in LimitValues : EditSpec(l)
  \/ \E k \in Keys, v \in Values \cup {Unset} : SetOutside(k, v)

Spec == Init /\ [][Next]_vars
--------------------------------------------------------------------------------
\* When DeclareFunc returns nil, the limits are those of the spec it read, none
\* more and none less, except where others set one after it looked; what an earlier
\* attempt got done half way makes no difference.
LimitsAreSpec ==
  pc # "done" /\ pc' = "done" =>
    \A k \in Keys \ touched : limits'[k] = new[k]

\* A limit that is set and stays in the spec is never lifted on the way.
LimitsNeverLifted ==
  DeclareFunc => \A k \in Given(new) : limits[k] # Unset => limits'[k] # Unset
--------------------------------------------------------------------------------
(***************************************************************************)
(* The inductive invariant behind LimitsAreSpec and LimitsNeverLifted.     *)
(***************************************************************************)

\* Where nobody interfered, the server has what the worker takes it to have.
LimitsInv ==
  /\ DOMAIN limits = Keys
  /\ pc = "deleteLimits" => \A k \in Keys \ touched : limits[k] = existing[k]
  /\ pc = "putLimits" => \A k \in Keys \ touched : k \notin Given(new) => limits[k] = Unset
================================================================================
