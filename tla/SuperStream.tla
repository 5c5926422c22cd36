------------------------------ MODULE SuperStream ------------------------------
(***************************************************************************)
(* SuperStreamReconciler and the webhook of SuperStream.  A SuperStream of *)
(* n partitions is 2n + 1 objects of other kinds: an exchange, and a queue *)
(* and a binding for each routing key.  The controller creates them and    *)
(* brings them up to date; from there they are the business of the other   *)
(* controllers (TopologyReconciler).                                       *)
(*                                                                         *)
(* One SuperStream, which may be deleted and made again under its name.    *)
(* SuperStream and children are read from informer caches that lag.        *)
(***************************************************************************)
EXTENDS Integers, Sequences, TLC

CONSTANTS
  Keys,           \* routing keys in specs
  PartKinds,      \* what each partition consists of: <<"partition", "binding">>
  ClusterStates,  \* of "found", "missing" and "denied"
  Sizes,          \* spec.partitions, which nothing keeps from being zero or negative
  MaxPartitions,  \* bound: the largest of them
  MaxEdits,       \* bound: writes by people
  MaxFaults,      \* bound: calls that fail, or whose answer is lost
  MaxShifts       \* bound: changes of the RabbitmqCluster

ASSUME BoundsAssumption ==
  /\ MaxPartitions \in Nat \ {0}
  /\ Sizes \subseteq Int /\ \A n \in Sizes : n <= MaxPartitions
  /\ PartKinds \in Seq(STRING) /\ PartKinds # <<>>

VARIABLES
  stream, streamCache,    \* the SuperStream in the API and in the cache
  latest,                 \* which of "cache" and "worker" have its latest version
  children, childCache,   \* the objects it consists of
  behind,                 \* those whose latest version the cache does not have yet
  cluster,                \* the RabbitmqCluster, as getRabbitmqClusterReference finds it
  queued,                 \* does the SuperStream wait in the work queue?
  pc, obj, next,          \* the worker: next call, its copy, the next child
  dropped,                \* history: the report of the last Reconcile, if it was lost
  spent                   \* how much of each bound is used up

streamVars == <<stream, streamCache, latest>>
childVars == <<children, childCache, behind>>
worker == <<pc, obj, next>>
vars == <<streamVars, childVars, cluster, queued, worker, dropped, spent>>

\* spec.routingKeys: as many as one likes, or none.
KeyLists == UNION {[1..n -> Keys] : n \in 0..MaxPartitions}

ChildNames == {<<"exchange">>} \cup 
              {<<PartKinds[j], i>> : j \in 1..Len(PartKinds), i \in 1..MaxPartitions}

NoStream(uid) ==
  [exists |-> FALSE, uid |-> uid, gen |-> 0, partitions |-> 0,
   routingKeys |-> <<>>, ready |-> "none", observed |-> 0, statusPartitions |-> <<>>]

NoKey == "none"

\* key stands for the parts of a child's spec that depend on the routing key: its
\* name, destination and routingKey, none of which its webhook lets change.
NoChild == [exists |-> FALSE, owner |-> 0, key |-> NoKey]

Init ==
  /\ stream = NoStream(0)
  /\ streamCache = stream
  /\ latest = {"cache"}
  /\ children = [c \in ChildNames |-> NoChild]
  /\ childCache = children
  /\ behind = {}
  /\ cluster \in ClusterStates
  /\ queued = FALSE
  /\ pc = "idle"
  /\ obj = stream
  /\ next = 1
  /\ dropped = "none"
  /\ spent = [edits |-> 0, faults |-> 0, shifts |-> 0]

\* Does the resourceVersion that the worker read still hold?  Only that matters of
\* versions: whoever has the latest one, and that every write makes a new one.
Current == stream.exists /\ "worker" \in latest

\* Mutant of Return: the error is not returned.
ReturnNil(failed) ==
  pc' = "idle" /\ obj' = NoStream(0) /\ next' = 1 /\ UNCHANGED queued

\* Reconcile returns; after an error the name goes back to the queue.
Return(failed) ==
  pc' = "idle" /\ obj' = NoStream(0) /\ next' = 1 /\ queued' = (queued \/ failed)
--------------------------------------------------------------------------------
(***************************************************************************)
(* What a SuperStream consists of.                                         *)
(***************************************************************************)

\* generateRoutingKeys: the partitions' numbers.
GenerateRoutingKeys(s) ==
  IF s.partitions <= 0 THEN <<>> ELSE [i \in 1..s.partitions |-> ToString(i - 1)]

RoutingKeysOf(s) ==
  IF s.routingKeys = <<>> THEN GenerateRoutingKeys(s) ELSE s.routingKeys

\* A list of keys has to have one for each partition.
KeysMatch(s) == s.routingKeys = <<>> \/ Len(s.routingKeys) = s.partitions

\* The builders, in the order in which they are applied: the exchange, then queue
\* and binding of each partition.
Builders(s) ==
  LET parts == Len(PartKinds) IN
  [n \in 1..(1 + parts * Len(RoutingKeysOf(s))) |->
     IF n = 1 THEN [name |-> <<"exchange">>, key |-> NoKey]
     ELSE LET i == (n - 2) \div parts + 1 IN
          [name |-> <<PartKinds[((n - 2) % parts) + 1], i>>, key |-> RoutingKeysOf(s)[i]]]
--------------------------------------------------------------------------------
(***************************************************************************)
(* Reconcile.                                                              *)
(***************************************************************************)

Get ==
  /\ queued
  /\ pc = "idle"
  /\ queued' = FALSE
  /\ IF streamCache.exists
     THEN /\ pc' = "parse"
          /\ obj' = streamCache
          /\ latest' = {h \in {"cache", "worker"} : "cache" \in latest}
     ELSE UNCHANGED <<pc, obj, latest>>
  /\ dropped' = "none"
  /\ UNCHANGED <<stream, streamCache, childVars, cluster, next, spent>>

\* getRabbitmqClusterReference and handleRMQReferenceParseError, then the checks on
\* the number of partitions: neither less than there are (or than none), nor other than
\* there are routing keys.
Parse ==
  /\ pc = "parse"
  /\ \/ cluster = "missing" /\ Return(TRUE)
     \/ cluster = "denied" /\ pc' = "reportDenied" /\ UNCHANGED <<queued, obj, next>>
     \/ /\ cluster = "found"
        /\ pc' = IF obj.partitions < Len(obj.statusPartitions) THEN "reportDone"
                 ELSE IF ~KeysMatch(obj) THEN "reportFailed"
                 ELSE "children"
        /\ UNCHANGED <<queued, obj, next>>
  /\ UNCHANGED <<streamVars, childVars, cluster, dropped, spent>>

\* What CreateOrUpdate makes of a child, whatever it was.
Wanted(key) == [exists |-> TRUE, owner |-> obj.uid, key |-> key]

\* Would the write of child c go through?  Created it must not exist; updated it
\* must be the version in the cache, and the webhook of its kind refuses another key.
ChildWritten(c, key) ==
  IF childCache[c].exists
  THEN c \notin behind /\ children[c].key = key
  ELSE ~children[c].exists

CallFails == spent.faults < MaxFaults /\ spent' = [spent EXCEPT !.faults = @ + 1]

\* One turn of the loop over the builders: CreateOrUpdate, from the cache; retries on
\* conflict read the same cache.  Of a write that fails otherwise, or whose answer is lost,
\* the next Reconcile learns from the cache.
CreateOrUpdateChild ==
  LET builder == Builders(obj)[next]
      c == builder.name
      wanted == Wanted(builder.key)
      step(ok) == IF ~ok THEN pc' = "reportFailed" /\ UNCHANGED next
                  ELSE /\ next' = next + 1
                       /\ pc' = IF next = Len(Builders(obj)) THEN "statusPartitions"
                                ELSE "children"
      written == children' = [children EXCEPT ![c] = wanted] /\ behind' = behind \cup {c}
  IN
  /\ pc = "children"
  /\ \/ /\ childCache[c] = wanted
        /\ step(TRUE)
        /\ UNCHANGED <<children, behind, spent>>
     \/ /\ childCache[c] # wanted /\ ChildWritten(c, builder.key)
        /\ written
        /\ (step(TRUE) /\ UNCHANGED spent) \/ (step(FALSE) /\ CallFails)
     \/ /\ childCache[c] # wanted
        /\ step(FALSE)
        /\ (~ChildWritten(c, builder.key) /\ UNCHANGED spent) \/ CallFails
        /\ UNCHANGED <<children, behind>>
  /\ UNCHANGED <<streamVars, childCache, cluster, queued, obj, dropped>>

\* Status().Update with retries on conflict, which all have the worker's version: an error
\* is logged and no more.  A write that changes nothing makes no new version; the worker
\* has the new one unless the answer is lost.
WriteStatus(written, answer) ==
  /\ IF answer = "ok" THEN UNCHANGED spent ELSE CallFails
  /\ IF answer # "error" /\ Current /\ written # stream
     THEN stream' = written /\ latest' = {h \in {"worker"} : answer = "ok"}
     ELSE UNCHANGED <<stream, latest>>

Answers == {"ok", "error", "lost"}

\* status.partitions gets the names of the partitions' queues.
UpdateStatusPartitions ==
  LET written == [obj EXCEPT !.statusPartitions = RoutingKeysOf(obj)] IN
  /\ pc = "statusPartitions"
  /\ \E answer \in Answers : WriteStatus(written, answer)
  /\ obj' = written
  /\ pc' = "reportReady"
  /\ UNCHANGED <<streamCache, childVars, cluster, queued, next, dropped>>

\* SetReconcileSuccess, on success and on failure; without permission only the
\* condition changes.  Reconcile returns the error that it reports, not the one of the
\* report.
Reported ==
  [obj EXCEPT !.ready = CASE pc = "reportReady"  -> "True"
                          [] pc = "reportDenied" -> "NotAllowed"
                          [] OTHER               -> "False",
              !.observed = IF pc = "reportDenied" THEN @ ELSE obj.gen]

SetReconcileSuccess ==
  /\ pc \in {"reportReady", "reportDone", "reportFailed", "reportDenied"}
  /\ \E answer \in Answers :
       /\ WriteStatus(Reported, answer)
       /\ dropped' = IF answer = "error" THEN pc ELSE "none"
  /\ Return(pc = "reportFailed")
  /\ UNCHANGED <<streamCache, childVars, cluster>>

Reconcile == Parse \/ CreateOrUpdateChild \/ UpdateStatusPartitions \/ SetReconcileSuccess
--------------------------------------------------------------------------------
(***************************************************************************)
(* Watches: the SuperStream, and the objects it owns.                      *)
(***************************************************************************)

DeliverStream ==
  /\ "cache" \notin latest
  /\ streamCache' = stream
  /\ latest' = latest \cup {"cache"}
  /\ queued' = TRUE
  /\ UNCHANGED <<stream, childVars, cluster, worker, dropped, spent>>

\* Mutant of Owns: only the SuperStream is watched.
OwnsNothing(c) == FALSE

\* Every child names the SuperStream as its controller.
Owns(c) == TRUE

DeliverChild(c) ==
  /\ c \in behind
  /\ behind' = behind \ {c}
  /\ childCache' = [childCache EXCEPT ![c] = children[c]]
  /\ queued' = (queued \/ Owns(c))
  /\ UNCHANGED <<streamVars, children, cluster, worker, dropped, spent>>
--------------------------------------------------------------------------------
(***************************************************************************)
(* People, the webhook, the garbage collector and the cluster.             *)
(***************************************************************************)

Edit(new) ==
  /\ spent.edits < MaxEdits
  /\ spent' = [spent EXCEPT !.edits = @ + 1]
  /\ stream' = new
  /\ latest' = {}
  /\ UNCHANGED <<streamCache, childVars, cluster, queued, worker, dropped>>

\* ValidateCreate looks at the cluster reference only: any number of partitions will do.
Create(partitions, routingKeys) ==
  /\ ~stream.exists
  /\ Edit([NoStream(stream.uid + 1) EXCEPT
             !.exists = TRUE, !.gen = 1, !.partitions = partitions,
             !.routingKeys = routingKeys])

\* Mutant of RoutingKeyUpdatePermitted: the list must only not get shorter.
RoutingKeyUpdateLonger(old, new) == Len(new) >= Len(old)

\* routingKeyUpdatePermitted.  A shorter list makes it index past the end; the panic
\* ends the request, which is not admitted.
RoutingKeyUpdatePermitted(old, new) ==
  /\ Len(old) = 0 => Len(new) = 0
  /\ Len(new) >= Len(old)
  /\ \A i \in 1..Len(old) : old[i] = new[i]

\* ValidateUpdate.
Update(partitions, routingKeys) ==
  /\ stream.exists
  /\ RoutingKeyUpdatePermitted(stream.routingKeys, routingKeys)
  /\ partitions >= stream.partitions
  /\ <<partitions, routingKeys>> # <<stream.partitions, stream.routingKeys>>
  /\ Edit([stream EXCEPT !.gen = @ + 1, !.partitions = partitions,
                         !.routingKeys = routingKeys])

\* A SuperStream has no finalizer of the operator's.
Delete == stream.exists /\ Edit(NoStream(stream.uid))

RemoveChild(c) ==
  /\ children[c].exists
  /\ children' = [children EXCEPT ![c] = NoChild]
  /\ behind' = behind \cup {c}
  /\ UNCHANGED <<streamVars, childCache, cluster, queued, worker, dropped>>

DeleteChild(c) ==
  /\ spent.edits < MaxEdits
  /\ spent' = [spent EXCEPT !.edits = @ + 1]
  /\ RemoveChild(c)

\* Children go after their SuperStream, some time.
CollectGarbage(c) ==
  /\ ~(stream.exists /\ stream.uid = children[c].owner)
  /\ RemoveChild(c)
  /\ UNCHANGED spent

ClusterChanges(state) ==
  /\ spent.shifts < MaxShifts
  /\ spent' = [spent EXCEPT !.shifts = @ + 1]
  /\ state # cluster
  /\ cluster' = state
  /\ UNCHANGED <<streamVars, childVars, queued, worker, dropped>>

Next ==
  \/ Get \/ Reconcile \/ DeliverStream \/ Delete
  \/ \E p \in Sizes, k \in KeyLists : Create(p, k) \/ Update(p, k)
  \/ \E c \in ChildNames : DeliverChild(c) \/ DeleteChild(c) \/ CollectGarbage(c)
  \/ \E state \in ClusterStates : ClusterChanges(state)

Spec == Init /\ [][Next]_vars

\* Workers go on, the queue is served, watches deliver, and so does the garbage
\* collector.
FairSpec ==
  /\ Spec
  /\ WF_vars(Get)
  /\ WF_vars(Reconcile)
  /\ WF_vars(DeliverStream)
  /\ \A c \in ChildNames : WF_vars(DeliverChild(c)) /\ WF_vars(CollectGarbage(c))
--------------------------------------------------------------------------------
(***************************************************************************)
(* Properties.                                                             *)
(***************************************************************************)

Complete ==
  \A n \in DOMAIN Builders(stream) :
    LET builder == Builders(stream)[n] IN
    /\ children[builder.name].exists
    /\ children[builder.name].owner = stream.uid
    /\ children[builder.name].key = builder.key

\* The webhook of SuperStream and those of its children fit together: as keys are
\* only added at the end, no child that the controller made from an older spec, or
\* from a stale copy, has to change its key, which its webhook would refuse.
ChildrenKeepTheirKeys ==
  \A n \in DOMAIN Builders(stream) :
    LET builder == Builders(stream)[n] IN
    KeysMatch(stream) /\ children[builder.name].exists
      /\ children[builder.name].owner = stream.uid
    => children[builder.name].key = builder.key

Quiet == /\ pc = "idle"
         /\ ~queued
         /\ "cache" \in latest
         /\ behind = {}

\* The last Reconcile was not allowed to use the cluster, of whose changes it hears
\* nothing; the status says so unless it could not be written.
Denied == stream.ready = "NotAllowed" \/ dropped = "reportDenied"

\* A child that is deleted by hand, or by the garbage collector of an earlier
\* SuperStream of the name, comes back: when nothing is left to do, all 2n + 1
\* objects are there, unless the controller was not allowed to use the cluster.  For a
\* negative number of partitions there is nothing at all, for none the exchange.
QuietIsComplete ==
  Quiet /\ stream.exists /\ stream.partitions >= 0 => Complete \/ Denied

\* Reconcile has a branch for a SuperStream with fewer partitions than its status lists.
\* The webhook, which lets partitions only be added, keeps every copy that has any out of
\* it: a stale one, one with the status of an earlier version, one of a SuperStream created
\* anew.  Only a SuperStream created with a negative number of partitions gets there.
NeverTakenForShrunk ==
  pc = "reportDone" => obj.partitions < 0 /\ obj.statusPartitions = <<>>

\* Failed writes, stale caches, the objects of an earlier SuperStream of the name and a
\* cluster that is missing for a while only delay: a SuperStream whose keys match its
\* partitions, of which there may be none, is completed, and says so, unless the very last
\* report could not be written.  (Status writes that fail are not tried again.)
EventuallyComplete ==
  <>[](/\ stream.exists
       /\ KeysMatch(stream) /\ stream.partitions >= 0
       /\ cluster = "found"
       /\ ~Denied
       => /\ Complete
          /\ \/ stream.ready = "True" /\ stream.observed = stream.gen
             \/ dropped = "reportReady")

\* "observedGeneration is the most recent successful generation observed for this
\* SuperStream": it moves only together with condition Ready.
ObservedIsSuccessful ==
  [][stream.exists /\ stream'.exists /\ stream'.observed # stream.observed
       => stream'.ready = "True"]_vars
--------------------------------------------------------------------------------
(***************************************************************************)
(* What is invariant.                                                      *)
(***************************************************************************)

AnyKeys == Keys \cup {ToString(i - 1) : i \in 1..MaxPartitions}

Streams ==
  [exists : BOOLEAN, uid : Nat, gen : Nat, partitions : Sizes \cup {0}, routingKeys : KeyLists,
   ready : {"none", "True", "False", "NotAllowed"}, observed : Nat,
   statusPartitions : Seq(AnyKeys)]

Labels == {"idle", "parse", "children", "statusPartitions", "reportReady", "reportDone",
           "reportFailed", "reportDenied"}

TypeOK ==
  /\ stream \in Streams /\ streamCache \in Streams /\ obj \in Streams
  /\ latest \subseteq {"cache", "worker"}
  /\ DOMAIN children = ChildNames /\ DOMAIN childCache = ChildNames
  /\ behind \subseteq ChildNames
  /\ queued \in BOOLEAN
  /\ pc \in Labels /\ dropped \in Labels \cup {"none"}
  /\ next \in Nat \ {0}

\* What the worker has made sure of by the time it has got so far.
WorkerInv ==
  /\ pc # "idle" => obj.exists
  /\ pc \in {"idle", "parse"} => next = 1
  /\ pc = "children" => next \in DOMAIN Builders(obj)
  /\ pc \in {"children", "statusPartitions", "reportReady"}
       => KeysMatch(obj) /\ obj.partitions >= 0
  /\ pc = "reportDone" => obj.partitions < 0

\* The worker's copy has the status that UpdateStatusPartitions tried to write.
SameObject(s, t) ==
  IF pc = "reportReady" THEN s = [t EXCEPT !.statusPartitions = s.statusPartitions]
  ELSE s = t

\* Copies that are said to be the latest are; older ones are of a SuperStream that was
\* deleted, or that has had keys added since.
Follows(s) ==
  s.exists =>
    /\ s.uid <= stream.uid
    /\ stream.exists /\ s.uid = stream.uid
       => RoutingKeyUpdatePermitted(s.routingKeys, stream.routingKeys)

CopiesInv ==
  /\ "cache" \in latest => streamCache = stream
  /\ "worker" \in latest /\ pc # "idle" => SameObject(obj, stream)
  /\ \A c \in ChildNames \ behind : childCache[c] = children[c]
  /\ Follows(streamCache) /\ Follows(obj)

\* Key is the one that partition i of s has.
Fits(s, i, key) ==
  IF s.routingKeys = <<>> THEN key = ToString(i - 1)
  ELSE i <= Len(s.routingKeys) /\ key = s.routingKeys[i]

\* The children of the SuperStream have the keys of its partitions, also while there are
\* more partitions than keys; a SuperStream that is gone has none.
KeysInv ==
  /\ ~stream.exists => stream.partitions = 0 /\ stream.routingKeys = <<>>
  /\ \A c \in ChildNames : children[c].exists => children[c].owner \in 0..stream.uid
  /\ children[<<"exchange">>].exists => children[<<"exchange">>].key = NoKey
  /\ stream.exists =>
       \A j \in 1..Len(PartKinds), i \in 1..MaxPartitions :
         LET child == children[<<PartKinds[j], i>>] IN
         child.exists /\ child.owner = stream.uid => Fits(stream, i, child.key)

\* There are never fewer partitions than the status lists, if it lists any, so that
\* Reconcile never takes a SuperStream that has partitions for one that shrank.
Counted(s) == s.statusPartitions = <<>> \/ Len(s.statusPartitions) <= s.partitions

CountInv == Counted(stream) /\ Counted(streamCache) /\ Counted(obj)

\* Something is going to make Reconcile run again.
Pending == queued \/ "cache" \notin latest \/ behind # {}

Built(n) ==
  LET builder == Builders(obj)[n] IN
  /\ children[builder.name].exists
  /\ children[builder.name].owner = obj.uid
  /\ children[builder.name].key = builder.key

\* Unless Reconcile runs again, it works on the latest version, and the children that
\* it is done with stay as it made them.
ProgressInv ==
  ~Pending =>
    /\ pc # "idle" => "worker" \in latest
    /\ pc = "idle" /\ stream.exists /\ stream.partitions >= 0 => Complete \/ Denied
    /\ pc = "children" => \A n \in 1..(next - 1) : Built(n)
    /\ pc \in {"statusPartitions", "reportReady"} => \A n \in DOMAIN Builders(obj) : Built(n)

StreamInv == TypeOK /\ WorkerInv /\ CopiesInv /\ KeysInv /\ CountInv /\ ProgressInv
================================================================================
