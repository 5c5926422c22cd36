---------------------------- MODULE ObjectLifecycle ----------------------------
(***************************************************************************)
(* What the operator promises about each topology object, without caches,  *)
(* queues, versions or failures.  An object is held (its deletion waits    *)
(* for the operator) before anything is declared for it on the server;     *)
(* while it is held and nobody asked for its deletion the operator takes   *)
(* nothing away; and it is let go only after the server was cleaned up, or *)
(* in the cases in which the operator gives up on purpose.                 *)
(***************************************************************************)
CONSTANTS Objects, Specs, None

VARIABLES
  stage,      \* "absent", "fresh" (no finalizer), "held", or "leaving"
  server,     \* what the RabbitMQ server holds
  abandoned,  \* let go without cleaning up
  lost        \* the server lost it by itself

vars == <<stage, server, abandoned, lost>>

\* Objects may be older than the operator.
Init ==
  /\ stage \in [Objects -> {"absent", "fresh"}]
  /\ server = [o \in Objects |-> None]
  /\ abandoned = [o \in Objects |-> FALSE]
  /\ lost = [o \in Objects |-> FALSE]

Move(o, from, to) ==
  /\ stage[o] = from
  /\ stage' = [stage EXCEPT ![o] = to]

Create(o) == Move(o, "absent", "fresh") /\ UNCHANGED <<server, abandoned, lost>>
Drop(o) == Move(o, "fresh", "absent") /\ UNCHANGED <<server, abandoned, lost>>
Hold(o) == Move(o, "fresh", "held") /\ UNCHANGED <<server, abandoned, lost>>
Mark(o) == Move(o, "held", "leaving") /\ UNCHANGED <<server, abandoned, lost>>

\* A worker may not know yet that the object is leaving.
Declare(o, s) ==
  /\ stage[o] \in {"held", "leaving"}
  /\ server' = [server EXCEPT ![o] = s]
  /\ abandoned' = [abandoned EXCEPT ![o] = FALSE]
  /\ lost' = [lost EXCEPT ![o] = FALSE]
  /\ UNCHANGED stage

Withdraw(o) ==
  /\ stage[o] # "held"
  /\ server' = [server EXCEPT ![o] = None]
  /\ UNCHANGED <<stage, abandoned, lost>>

\* Only with nothing left on the server, or given up.
Release(o) ==
  /\ Move(o, "leaving", "absent")
  /\ \/ server[o] = None /\ abandoned' = [abandoned EXCEPT ![o] = FALSE]
     \/ abandoned' = [abandoned EXCEPT ![o] = TRUE]
  /\ UNCHANGED <<server, lost>>

Lose(S) ==
  /\ server' = [o \in Objects |-> IF o \in S THEN None ELSE server[o]]
  /\ lost' = [o \in Objects |-> lost[o] \/ (o \in S /\ server[o] # None)]
  /\ UNCHANGED <<stage, abandoned>>

Next ==
  \/ \E o \in Objects :
       \/ Create(o) \/ Drop(o) \/ Hold(o) \/ Mark(o) \/ Withdraw(o) \/ Release(o)
       \/ \E s \in Specs : Declare(o, s)
  \/ \E S \in SUBSET Objects : Lose(S)

Spec == Init /\ [][Next]_vars
================================================================================
