----------------------------- MODULE QueueDeletion -----------------------------
(***************************************************************************)
(* Deletion of a queue by QueueReconciler.DeleteFunc, while clients of the *)
(* server publish, consume, subscribe and delete.  The reconcile loop      *)
(* calls DeleteFunc again until it returns nil.                            *)
(*                                                                         *)
(* For a classic queue the server itself checks if-empty and if-unused; a  *)
(* quorum queue has no such options, and DeleteFunc looks before it        *)
(* deletes.                                                                *)
(***************************************************************************)
EXTENDS Naturals

CONSTANTS
  Types,         \* the queue types of the instance
  MaxMessages,   \* bound: messages in the queue
  MaxConsumers,  \* bound: consumers of the queue
  MaxFaults,     \* bound: calls that fail
  MaxOutside     \* bound: steps of the server's other clients

VARIABLES
  spec,       \* type, deletionPolicy, deleteIfEmpty, deleteIfUnused
  queue,      \* the queue on the server
  pc,         \* the next call of DeleteFunc, or what it returned
  destroyed,  \* what went with the queue when the operator deleted it
  late,       \* history: what clients added since GetQueue looked
  faults,     \* failed calls so far
  outside     \* steps of other clients so far

vars == <<spec, queue, pc, destroyed, late, faults, outside>>

Queues == [exists : BOOLEAN, messages : 0..MaxMessages, consumers : 0..MaxConsumers]
Settings == [type : Types, retain : BOOLEAN, deleteIfEmpty : BOOLEAN, deleteIfUnused : BOOLEAN]
NoQueue == [exists |-> FALSE, messages |-> 0, consumers |-> 0]

Init ==
  /\ spec \in Settings
  /\ queue \in {q \in Queues : q.exists}
  /\ pc = "start"
  /\ destroyed = NoQueue
  /\ late = {}
  /\ faults = 0
  /\ outside = 0

\* A call is answered, fails before it took effect, or its answer is lost.
Call(c) ==
  /\ c = "ok" \/ faults < MaxFaults
  /\ faults' = IF c = "ok" THEN faults ELSE faults + 1
--------------------------------------------------------------------------------
(***************************************************************************)
(* DeleteFunc.                                                             *)
(***************************************************************************)

LooksFirst == spec.type = "quorum" /\ (spec.deleteIfEmpty \/ spec.deleteIfUnused)

\* Nothing is done under deletionPolicy retain.
Start ==
  /\ pc = "start"
  /\ pc' = IF spec.retain THEN "done" ELSE IF LooksFirst THEN "get" ELSE "delete"
  /\ UNCHANGED <<spec, queue, destroyed, late, faults, outside>>

\* Mutant of MayDelete: consumers are not looked at.
MayDeleteUsed(q) == ~(q.messages > 0 /\ spec.deleteIfEmpty)

\* The two checks on what GetQueue returned.
MayDelete(q) ==
  /\ ~(q.messages > 0 /\ spec.deleteIfEmpty)
  /\ ~(q.consumers > 0 /\ spec.deleteIfUnused)

\* GetQueue; every error ends DeleteFunc, that of a missing queue too.
GetQueue ==
  /\ pc = "get"
  /\ \E c \in {"ok", "error"} :
       /\ Call(c)
       /\ pc' = IF c = "ok" /\ queue.exists /\ MayDelete(queue) THEN "delete" ELSE "failed"
  /\ late' = IF queue.exists THEN {} ELSE late
  /\ UNCHANGED <<spec, queue, destroyed, outside>>

\* GenerateQueueDeleteOptions.
DeleteOptions == [ifEmpty  |-> spec.type # "quorum" /\ spec.deleteIfEmpty,
                  ifUnused |-> spec.type # "quorum" /\ spec.deleteIfUnused]

\* The server refuses a DELETE whose condition does not hold.
Refused == \/ DeleteOptions.ifEmpty /\ queue.messages > 0
           \/ DeleteOptions.ifUnused /\ queue.consumers > 0

\* validateResponseForDeletion: 404 counts as deleted.
Deleted(c) == c = "ok" /\ ~(queue.exists /\ Refused)

DeleteQueue ==
  /\ pc = "delete"
  /\ \E c \in {"ok", "error", "lost"} :
       /\ Call(c)
       /\ IF c # "error" /\ queue.exists /\ ~Refused
          THEN queue' = NoQueue /\ destroyed' = queue
          ELSE UNCHANGED <<queue, destroyed>>
       /\ pc' = IF Deleted(c) THEN "done" ELSE "failed"
  /\ UNCHANGED <<spec, late, outside>>

\* The reconcile loop comes back.
Retry ==
  /\ pc = "failed"
  /\ pc' = "start"
  /\ UNCHANGED <<spec, queue, destroyed, late, faults, outside>>

DeleteFunc == Start \/ GetQueue \/ DeleteQueue \/ Retry
--------------------------------------------------------------------------------
(***************************************************************************)
(* The other clients of the server.                                        *)
(***************************************************************************)

Outside(q) ==
  /\ queue.exists
  /\ outside < MaxOutside
  /\ outside' = outside + 1
  /\ queue' = q
  /\ late' = late \cup {n \in {"messages", "consumers"} : q[n] > queue[n]}
  /\ UNCHANGED <<spec, pc, destroyed, faults>>

Publish == queue.messages < MaxMessages /\ Outside([queue EXCEPT !.messages = @ + 1])
Consume == queue.messages > 0 /\ Outside([queue EXCEPT !.messages = @ - 1])
Subscribe == queue.consumers < MaxConsumers /\ Outside([queue EXCEPT !.consumers = @ + 1])
Unsubscribe == queue.consumers > 0 /\ Outside([queue EXCEPT !.consumers = @ - 1])

\* Deleted by hand, or gone because of AutoDelete.
Vanish == Outside(NoQueue)

Next == DeleteFunc \/ Publish \/ Consume \/ Subscribe \/ Unsubscribe \/ Vanish

Spec == Init /\ [][Next]_vars

\* The reconcile loop keeps calling; clients and faults are finitely many.
FairSpec == Spec /\ WF_vars(DeleteFunc)
--------------------------------------------------------------------------------
(***************************************************************************)
(* Properties.                                                             *)
(***************************************************************************)

\* "when set to true, queues are deleted only if empty" and "... only if they have
\* no consumer": at the moment the operator's DELETE takes the queue away.
DeletesOnlyIfAllowed ==
  /\ spec.deleteIfEmpty => destroyed.messages = 0
  /\ spec.deleteIfUnused => destroyed.consumers = 0

\* What DeleteFunc guarantees: nothing is deleted under deletionPolicy retain; a
\* classic queue is deleted only if it is as empty and unused as the spec demands;
\* and a quorum queue, at which DeleteFunc looks first, may then have messages (or
\* consumers) only if some came after the look.
DestroysOnlyLatecomers ==
  /\ spec.retain => ~destroyed.exists
  /\ spec.deleteIfEmpty /\ destroyed.messages > 0 => LooksFirst /\ "messages" \in late
  /\ spec.deleteIfUnused /\ destroyed.consumers > 0 => LooksFirst /\ "consumers" \in late

\* "if server responds with '404' Not Found, it logs and does not requeue on error":
\* DeleteFunc does not fail because the queue is gone.
GoneIsDeleted ==
  [][pc' = "failed" /\ ~queue.exists => faults' > faults]_vars

\* Deletion ends once clients leave the queue to it: it is gone or may be deleted.
\* Lost answers do not matter, except that nothing is said of a queue that is gone
\* and at which DeleteFunc wants to look.
NotDeleting ==
  \/ pc = "done"
  \/ queue.exists /\ ~MayDelete(queue)
  \/ LooksFirst /\ ~queue.exists
--------------------------------------------------------------------------------
(***************************************************************************)
(* The inductive invariant.                                                *)
(***************************************************************************)

Labels == {"start", "get", "delete", "done", "failed"}
Counts == [exists : BOOLEAN, messages : Nat, consumers : Nat]

TypeOK ==
  /\ spec \in Settings
  /\ queue \in Counts
  /\ destroyed \in Counts
  /\ pc \in Labels

\* What DeleteFunc saw of the queue it is about to delete may have changed only by what
\* came since.
Looked ==
  pc = "delete" /\ LooksFirst =>
    /\ spec.deleteIfEmpty /\ queue.messages > 0 => "messages" \in late
    /\ spec.deleteIfUnused /\ queue.consumers > 0 => "consumers" \in late

\* The operator deletes the queue once, and nobody brings it back.
Once == IF destroyed.exists THEN ~queue.exists ELSE destroyed = NoQueue

DeletionInv ==
  /\ TypeOK
  /\ Looked
  /\ Once
  /\ spec.retain => pc \notin {"get", "delete"}
  /\ DestroysOnlyLatecomers
================================================================================
