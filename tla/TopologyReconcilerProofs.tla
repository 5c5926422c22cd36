----------------------- MODULE TopologyReconcilerProofs -----------------------
(***************************************************************************)
(* Proofs about TopologyReconciler, for any objects, specs, references,    *)
(* cluster states and bounds.                                              *)
(***************************************************************************)
EXTENDS TopologyReconciler, TLAPS

\* Absent and every record update of the actions make a resource again.
LEMMA AbsentType == \A n \in Nat : Absent(n) \in Resource
  BY Zenon DEF Absent, Resource, Conditions

LEMMA FieldTypes ==
  ASSUME NEW r \in Resource
  PROVE  /\ r.exists \in BOOLEAN /\ r.rv \in Nat /\ r.gen \in Nat
         /\ r.spec \in Specs \cup {None} /\ r.finalizer \in BOOLEAN
         /\ r.deleting \in BOOLEAN /\ r.cond \in Conditions /\ r.observed \in Nat
  BY Zenon DEF Resource

LEMMA CondType ==
  ASSUME NEW r \in Resource, NEW c \in Conditions
  PROVE  [r EXCEPT !.cond = c] \in Resource
  BY Zenon DEF Resource

LEMMA SuccTypes ==
  ASSUME NEW r \in Resource
  PROVE  r.rv + 1 \in Nat /\ r.gen + 1 \in Nat
  BY FieldTypes

LEMMA StatusType ==
  ASSUME NEW r \in Resource, NEW c \in Conditions, NEW n \in Nat
  PROVE  [r EXCEPT !.cond = c, !.observed = n] \in Resource
  BY Zenon DEF Resource

LEMMA VersionType ==
  ASSUME NEW r \in Resource
  PROVE  [r EXCEPT !.rv = @ + 1] \in Resource
  BY SuccTypes, Zenon DEF Resource

LEMMA FinalizerType ==
  ASSUME NEW r \in Resource
  PROVE  [r EXCEPT !.finalizer = TRUE, !.rv = @ + 1] \in Resource
  BY SuccTypes, Zenon DEF Resource

LEMMA CreateType ==
  ASSUME NEW n \in Nat, NEW s \in Specs
  PROVE  [Absent(n) EXCEPT !.exists = TRUE, !.gen = 1, !.spec = s] \in Resource
  BY Zenon DEF Resource, Absent, Conditions

LEMMA UpdateType ==
  ASSUME NEW r \in Resource, NEW s \in Specs
  PROVE  [r EXCEPT !.spec = s, !.gen = @ + 1, !.rv = @ + 1] \in Resource
  BY SuccTypes, Zenon DEF Resource

LEMMA MarkType ==
  ASSUME NEW r \in Resource
  PROVE  [r EXCEPT !.deleting = TRUE, !.gen = @ + 1, !.rv = @ + 1] \in Resource
  BY SuccTypes, Zenon DEF Resource

\* The worker's copy after a return of Reconcile.
LEMMA ReturnTypes ==
  ASSUME NEW o \in Objects, TypeOK, Finish(o)
  PROVE  pc' \in [Objects -> Steps] /\ obj' \in [Objects -> Resource]
  BY AbsentType, Zenon DEF TypeOK, Finish, Steps

LEMMA GotoTypes ==
  ASSUME NEW o \in Objects, TypeOK, NEW step \in Steps, Goto(o, step)
  PROVE  pc' \in [Objects -> Steps]
  BY Zenon DEF TypeOK, Goto

LEMMA CallTypes ==
  ASSUME TypeOK, NEW c, Call(c)
  PROVE  spent' \in [edits : Nat, faults : Nat, shifts : Nat]
  BY DEF TypeOK, Call

LEMMA InitTypes ==
  ASSUME Init PROVE TypeOK
<1>1. Absent(0) \in Resource
  BY AbsentType, Zenon
<1>2. pc \in [Objects -> Steps]
  BY Zenon DEF Init, Steps
<1>3. spent \in [edits : Nat, faults : Nat, shifts : Nat]
  BY Zenon DEF Init
<1> QED
  BY <1>1, <1>2, <1>3, Zenon DEF Init, TypeOK

LEMMA StepTypes ==
  ASSUME TypeOK, [Next]_vars PROVE TypeOK'
<1> USE DEF TypeOK, kubeVars, workerVars, clusterVars, history
<1>1. ASSUME NEW o \in Objects, Get(o) PROVE TypeOK'
  BY <1>1, GotoTypes DEF Get, Steps
<1>2. ASSUME NEW o \in Objects, Parse(o) PROVE TypeOK'
  <2>1. spent' \in [edits : Nat, faults : Nat, shifts : Nat]
    BY <1>2, CallTypes, Zenon DEF Parse
  <2>2. ASSUME NEW cond \in Conditions, NEW next \in Steps,
               ReportNotReady(o, cond, next)
        PROVE  queue' \subseteq Objects /\ pc' \in [Objects -> Steps]
               /\ obj' \in [Objects -> Resource]
    BY <2>2, GotoTypes, CondType, Zenon DEF ReportNotReady
  <2>3. Retry(o) => queue' \subseteq Objects /\ pc' \in [Objects -> Steps]
                    /\ obj' \in [Objects -> Resource]
    BY ReturnTypes, Zenon DEF Retry
  <2>4. ASSUME NEW err, HandleParseError(o, err)
        PROVE  queue' \subseteq Objects /\ pc' \in [Objects -> Steps]
               /\ obj' \in [Objects -> Resource]
    BY <2>2, <2>3, <2>4, GotoTypes, Zenon DEF HandleParseError, Conditions, Steps
  <2> QED
    BY <1>2, <2>1, <2>3, <2>4, GotoTypes, Zenon DEF Parse, Steps
<1>3. ASSUME NEW o \in Objects, Delete(o) PROVE TypeOK'
  <2>1. Retry(o) => queue' \subseteq Objects /\ pc' \in [Objects -> Steps]
                    /\ obj' \in [Objects -> Resource]
    BY ReturnTypes, Zenon DEF Retry
  <2> QED
    BY <1>3, <2>1, GotoTypes, CallTypes DEF Delete, AfterDelete, Steps
<1>4. ASSUME NEW o \in Objects, RemoveFinalizer(o) PROVE TypeOK'
  <2>1. Absent(api[o].rv + 1) \in Resource
    BY AbsentType, SuccTypes, Zenon
  <2>2. api' \in [Objects -> Resource]
    BY <1>4, <2>1 DEF RemoveFinalizer
  <2>3. abandoned' \in [Objects -> BOOLEAN]
    BY <1>4, Zenon DEF RemoveFinalizer
  <2>4. spent' \in [edits : Nat, faults : Nat, shifts : Nat]
    BY <1>4, CallTypes, Zenon DEF RemoveFinalizer
  <2> QED
    BY <1>4, <2>2, <2>3, <2>4, ReturnTypes DEF RemoveFinalizer, Retry
<1>5. ASSUME NEW o \in Objects, AddFinalizer(o) PROVE TypeOK'
  <2>1. [api[o] EXCEPT !.finalizer = TRUE, !.rv = @ + 1] \in Resource
    BY FinalizerType, Zenon
  <2> QED
    BY <1>5, <2>1, ReturnTypes, CallTypes, GotoTypes DEF AddFinalizer, Retry, Steps
<1>6. ASSUME NEW o \in Objects, Declare(o) PROVE TypeOK'
  <2>1. ASSUME NEW ok, AfterDeclare(o, ok)
        PROVE  pc' \in [Objects -> Steps] /\ obj' \in [Objects -> Resource]
    <3>1. obj[o].gen \in Nat
      BY FieldTypes, Zenon
    <3>2. obj' \in [Objects -> Resource]
      <4>0. "Ready" \in Conditions /\ "DeclareFailed" \in Conditions
        BY Zenon DEF Conditions
      <4>1. CASE ok
        <5>1. [obj[o] EXCEPT !.cond = "Ready", !.observed = obj[o].gen] \in Resource
          BY <3>1, <4>0, StatusType, Zenon
        <5>2. obj' = [obj EXCEPT ![o] = [obj[o] EXCEPT !.cond = "Ready", !.observed = obj[o].gen]]
          BY <2>1, <4>1, Zenon DEF AfterDeclare
        <5> QED
          BY <5>1, <5>2, Zenon
      <4>2. CASE ~ok
        <5>1. [obj[o] EXCEPT !.cond = "DeclareFailed"] \in Resource
          BY <4>0, CondType, Zenon
        <5>2. obj' = [obj EXCEPT ![o] = [obj[o] EXCEPT !.cond = "DeclareFailed"]]
          BY <2>1, <4>2, Zenon DEF AfterDeclare
        <5> QED
          BY <5>1, <5>2, Zenon
      <4> QED
        BY <4>1, <4>2, Zenon
    <3>3. pc' \in [Objects -> Steps]
      BY <2>1, Zenon DEF AfterDeclare, Goto, Steps
    <3> QED
      BY <3>2, <3>3, Zenon
  <2> QED
    BY <1>6, <2>1, CallTypes, FieldTypes DEF Declare
<1>7. ASSUME NEW o \in Objects, UpdateStatus(o) PROVE TypeOK'
  <2>1. [[api[o] EXCEPT !.cond = obj[o].cond, !.observed = obj[o].observed]
           EXCEPT !.rv = @ + 1] \in Resource
    BY StatusType, FieldTypes, VersionType, Zenon
  <2>2. api' \in [Objects -> Resource]
    BY <1>7, <2>1 DEF UpdateStatus
  <2>3. dropped' \in [Objects -> BOOLEAN]
    BY <1>7, Zenon DEF UpdateStatus
  <2>4. spent' \in [edits : Nat, faults : Nat, shifts : Nat]
    BY <1>7, CallTypes, Zenon DEF UpdateStatus
  <2> QED
    BY <1>7, <2>2, <2>3, <2>4, ReturnTypes DEF UpdateStatus, Retry
<1>8. ASSUME NEW o \in Objects, DeliverEvent(o) PROVE TypeOK'
  BY <1>8, Zenon DEF DeliverEvent
<1>9. CASE DeliverClusterEvent
  BY <1>9, Zenon DEF DeliverClusterEvent, ClusterToRequests
<1>10. CASE Restart
  <2>1. Absent(0) \in Resource
    BY AbsentType, Zenon
  <2> QED
    <3>1. pc' \in [Objects -> Steps]
      BY <1>10, Zenon DEF Restart, Steps
    <3>2. obj' \in [Objects -> Resource]
      BY <1>10, <2>1, Zenon DEF Restart
    <3>3. spent' \in [edits : Nat, faults : Nat, shifts : Nat]
      BY <1>10 DEF Restart
    <3> QED
      BY <1>10, <3>1, <3>2, <3>3, Zenon DEF Restart
<1>11. ASSUME NEW o \in Objects, NEW s \in Specs, UserCreate(o, s) PROVE TypeOK'
  <2>1. [Absent(api[o].rv + 1) EXCEPT !.exists = TRUE, !.gen = 1, !.spec = s] \in Resource
    BY CreateType, SuccTypes, Zenon
  <2> QED
    BY <1>11, <2>1 DEF UserCreate, Edit
<1>12. ASSUME NEW o \in Objects, NEW s \in Specs, UserUpdate(o, s) PROVE TypeOK'
  <2>1. [api[o] EXCEPT !.spec = s, !.gen = @ + 1, !.rv = @ + 1] \in Resource
    BY UpdateType, Zenon
  <2> QED
    BY <1>12, <2>1 DEF UserUpdate, Edit
<1>13. ASSUME NEW o \in Objects, UserDelete(o) PROVE TypeOK'
  <2>1. [api[o] EXCEPT !.deleting = TRUE, !.gen = @ + 1, !.rv = @ + 1] \in Resource
    BY MarkType, Zenon
  <2>2. Absent(api[o].rv + 1) \in Resource
    BY AbsentType, SuccTypes, Zenon
  <2> QED
    BY <1>13, <2>1, <2>2 DEF UserDelete, Edit
<1>14. ASSUME NEW c \in Clusters, ClusterChanges(c) PROVE TypeOK'
  BY <1>14 DEF ClusterChanges
<1>15. ASSUME NEW b \in Backends, BackendChanges(b) PROVE TypeOK'
  BY <1>15 DEF BackendChanges
<1>16. ASSUME NEW o \in Objects, ServerLoses(o) PROVE TypeOK'
  BY <1>16 DEF ServerLoses, Call
<1>17. CASE UNCHANGED vars
  BY <1>17, Zenon DEF vars
<1> QED
  BY <1>1, <1>2, <1>3, <1>4, <1>5, <1>6, <1>7, <1>8, <1>9, <1>10, <1>11, <1>12,
     <1>13, <1>14, <1>15, <1>16, <1>17, Zenon DEF Next, Reconcile

\* The values the variables take are preserved by every step of the reconciler.
THEOREM TypeCorrect == Spec => []TypeOK
<1>1. Init => TypeOK
  BY InitTypes, Zenon
<1>2. TypeOK /\ [Next]_vars => TypeOK'
  BY StepTypes, Zenon
<1> QED
  BY <1>1, <1>2, PTL DEF Spec

(***************************************************************************)
(* The lifecycle invariant, object by object.                              *)
(***************************************************************************)
ObjectInv(o) ==
  /\ CopiesOrdered(o)
  /\ WorkerInformed(o)
  /\ broker[o] # None => Held(o) \/ abandoned[o]

\* Steps that leave the object and its copy in the cache alone, and in which the worker
\* goes by a copy from the cache; what is on the server is accounted for.
WorkerGoesOn(o) ==
  /\ api'[o] = api[o] /\ cache'[o] = cache[o]
  /\ pc'[o] \in ReadSteps => \/ pc[o] \in ReadSteps /\ obj'[o] = obj[o]
                             \/ cache[o].exists /\ obj'[o] = cache[o]
  /\ pc'[o] \in {"delete", "removeFinalizer", "release"} => obj'[o].deleting
  /\ pc'[o] = "addFinalizer" => ~obj'[o].deleting
  /\ pc'[o] = "declare" => Held(o) /\ obj'[o].spec \in Specs
  /\ pc'[o] = "removeFinalizer" => broker'[o] = None
  /\ broker'[o] # None => Held(o) \/ abandoned'[o]

LEMMA SameObject ==
  ASSUME TypeOK, NEW o \in Objects, ObjectInv(o), WorkerGoesOn(o)
  PROVE  ObjectInv(o)'
<1> USE DEF WorkerGoesOn
<1>1. Held(o)' <=> Held(o)
  BY Zenon DEF Held
<1>2. Truthful(cache[o], o) /\ Truthful(cache[o], o)'
  BY Zenon DEF ObjectInv, WorkerInformed, Truthful, Held
<1>3. cache[o].rv \in Nat
  BY FieldTypes, Zenon DEF TypeOK
<1>4. pc'[o] \in ReadSteps => /\ obj'[o].exists /\ WellFormed(obj'[o])
                             /\ NotNewer(obj'[o], cache[o]) /\ Truthful(obj'[o], o)
  <2>1. CASE pc[o] \in ReadSteps /\ obj'[o] = obj[o]
    BY <2>1, Zenon DEF ObjectInv, CopiesOrdered, WorkerInformed
  <2>2. CASE cache[o].exists /\ obj'[o] = cache[o]
    <3>1. WellFormed(cache[o])
      BY Zenon DEF ObjectInv, CopiesOrdered
    <3>2. NotNewer(cache[o], cache[o])
      BY <1>3 DEF NotNewer
    <3> QED
      BY <1>2, <2>2, <3>1, <3>2, Zenon
  <2> QED
    BY <2>1, <2>2, Zenon
<1>5. CopiesOrdered(o)'
  BY <1>4, Zenon DEF ObjectInv, CopiesOrdered
<1>6. WorkerInformed(o)'
  <2>1. pc'[o] \in ReadSteps => Truthful(obj[o], o)'
    BY <1>4, Zenon DEF Truthful, Held
  <2> QED
    BY <1>1, <1>2, <2>1, Zenon DEF WorkerInformed
<1> QED
  BY <1>1, <1>5, <1>6, Zenon DEF ObjectInv

\* The invariant of an object depends on that object's part of the state only.
LEMMA Frame ==
  ASSUME TypeOK, NEW o \in Objects, ObjectInv(o),
         api'[o] = api[o], cache'[o] = cache[o], pc'[o] = pc[o], obj'[o] = obj[o],
         broker'[o] = broker[o], abandoned'[o] = abandoned[o]
  PROVE  ObjectInv(o)'
<1>1. WorkerGoesOn(o)
  BY Zenon DEF WorkerGoesOn, ObjectInv, WorkerInformed
<1> QED
  BY <1>1, SameObject, Zenon

\* Steps that make a new version of the object, by a worker that is done with its copy.
WorkerWrote(o) ==
  /\ cache'[o] = cache[o] /\ api'[o].rv = api[o].rv + 1
  /\ WellFormed(api'[o]) /\ Truthful(cache[o], o)'
  /\ pc'[o] \in {"idle", "declare"}
  /\ pc'[o] = "declare" => Held(o)' /\ obj'[o].spec \in Specs
  /\ broker'[o] # None => Held(o)' \/ abandoned'[o]

LEMMA NewObject ==
  ASSUME TypeOK, NEW o \in Objects, ObjectInv(o), WorkerWrote(o)
  PROVE  ObjectInv(o)'
<1> USE DEF WorkerWrote
<1>1. api[o].rv \in Nat /\ cache[o].rv \in Nat
  BY FieldTypes, Zenon DEF TypeOK
<1>2. WellFormed(cache[o]) /\ cache[o].rv <= api[o].rv
  BY Zenon DEF ObjectInv, CopiesOrdered, NotNewer
<1>3. NotNewer(cache[o], api'[o])
  BY <1>1, <1>2 DEF NotNewer
<1>4. pc'[o] \notin ReadSteps
  BY Zenon DEF ReadSteps
<1>5. CopiesOrdered(o)'
  BY <1>2, <1>3, <1>4, Zenon DEF CopiesOrdered
<1>6. WorkerInformed(o)'
  BY <1>4, Zenon DEF WorkerInformed
<1> QED
  BY <1>5, <1>6, Zenon DEF ObjectInv

\* The object itself does not mislead about it.
LEMMA ObjectIsTruthful ==
  ASSUME NEW o \in Objects, ObjectInv(o)
  PROVE  Truthful(api[o], o)
<1>1. api[o].finalizer => api[o].exists
  BY Zenon DEF ObjectInv, CopiesOrdered, WellFormed
<1> QED
  BY <1>1, Zenon DEF Truthful, Held

LEMMA GetStep ==
  ASSUME TypeOK, NEW o \in Objects, ObjectInv(o), Get(o)
  PROVE  ObjectInv(o)'
<1>1. /\ api' = api /\ cache' = cache /\ broker' = broker /\ abandoned' = abandoned
      /\ \/ pc' = pc /\ obj' = obj
         \/ pc'[o] = "parse" /\ obj'[o] = cache[o] /\ cache[o].exists
  BY Zenon DEF TypeOK, Get, Goto, kubeVars, history
<1>2. CASE pc' = pc /\ obj' = obj
  BY <1>1, <1>2, Frame, Zenon
<1>3. CASE pc'[o] = "parse" /\ obj'[o] = cache[o] /\ cache[o].exists
  <2>1. WorkerGoesOn(o)
    BY <1>1, <1>3, Zenon DEF WorkerGoesOn, ObjectInv
  <2> QED
    BY <2>1, SameObject, Zenon
<1> QED
  BY <1>1, <1>2, <1>3, Zenon

\* Returning from Reconcile makes the worker idle.
LEMMA ReturnStep ==
  ASSUME TypeOK, NEW o \in Objects, Finish(o)
  PROVE  pc'[o] = "idle"
  BY Zenon DEF TypeOK, Finish

\* Steps that only move the worker on: to another step with the same copy, to a
\* status write, or out of Reconcile.
LEMMA ParseStep ==
  ASSUME TypeOK, NEW o \in Objects, ObjectInv(o), Parse(o)
  PROVE  ObjectInv(o)'
<1>1. /\ pc[o] = "parse" /\ api' = api /\ cache' = cache
      /\ broker' = broker /\ abandoned' = abandoned
  BY Zenon DEF Parse, kubeVars, history
<1>2. \/ pc'[o] = "idle"
      \/ /\ pc'[o] \in {"delete", "release"} /\ obj[o].deleting
         /\ obj' = obj
      \/ /\ pc'[o] = "addFinalizer" /\ ~obj[o].deleting
         /\ obj' = obj
      \/ pc'[o] \in {"statusDone", "statusRetry"}
  <2>1. ASSUME NEW cond, NEW next \in {"statusDone", "statusRetry"},
               ReportNotReady(o, cond, next)
        PROVE  pc'[o] \in {"statusDone", "statusRetry"}
    BY <2>1, Zenon DEF ReportNotReady, Goto, TypeOK
  <2>2. ASSUME NEW err, HandleParseError(o, err) PROVE <1>2!1 \/ <1>2!2 \/ <1>2!4
    BY <2>1, <2>2, ReturnStep, Zenon DEF HandleParseError, Retry, Goto, TypeOK
  <2> QED
    BY <2>2, ReturnStep, Zenon DEF Parse, Retry, Goto, TypeOK
<1>3. WorkerGoesOn(o)
  BY <1>1, <1>2, Zenon DEF WorkerGoesOn, ObjectInv, ReadSteps
<1> QED
  BY <1>3, SameObject, Zenon

LEMMA DeleteStep ==
  ASSUME TypeOK, NEW o \in Objects, ObjectInv(o), Delete(o)
  PROVE  ObjectInv(o)'
<1>1. /\ pc[o] = "delete" /\ api' = api /\ cache' = cache /\ abandoned' = abandoned
  BY Zenon DEF Delete, kubeVars, history
<1>2. \/ pc'[o] = "release" /\ obj' = obj /\ broker' = broker
      \/ /\ broker'[o] \in {broker[o], None}
         /\ \/ pc'[o] = "idle"
            \/ pc'[o] = "removeFinalizer" /\ obj' = obj /\ broker'[o] = None
  BY ReturnStep, SMTT(60) DEF Delete, AfterDelete, DeleteAnswer, Retry, Goto, TypeOK
<1>3. obj[o].deleting /\ (broker[o] # None => Held(o) \/ abandoned[o])
  BY <1>1, Zenon DEF ObjectInv, WorkerInformed
<1>4. WorkerGoesOn(o)
  BY <1>1, <1>2, <1>3, Zenon DEF WorkerGoesOn, ReadSteps
<1> QED
  BY <1>4, SameObject, Zenon

\* A write with the version that the cache gave the worker goes through only while
\* the three copies are one.
LEMMA CurrentCopy ==
  ASSUME TypeOK, NEW o \in Objects, ObjectInv(o), pc[o] \in ReadSteps, Current(o)
  PROVE  obj[o] = api[o] /\ cache[o] = api[o]
<1>1. api[o].rv \in Nat /\ cache[o].rv \in Nat /\ obj[o].rv \in Nat
  BY FieldTypes, Zenon DEF TypeOK
<1>2. NotNewer(obj[o], cache[o]) /\ NotNewer(cache[o], api[o]) /\ api[o].rv = obj[o].rv
  BY Zenon DEF ObjectInv, CopiesOrdered, Current
<1>3. cache[o].rv = api[o].rv /\ obj[o].rv = cache[o].rv
  BY <1>1, <1>2 DEF NotNewer
<1> QED
  BY <1>2, <1>3, Zenon DEF NotNewer

\* removeFinalizer gets through only when the copy it holds is the object itself,
\* which then was under deletion.
LEMMA RemoveFinalizerStep ==
  ASSUME TypeOK, NEW o \in Objects, ObjectInv(o), RemoveFinalizer(o)
  PROVE  ObjectInv(o)'
<1>1. /\ pc[o] \in {"removeFinalizer", "release"} /\ pc'[o] = "idle"
      /\ cache' = cache /\ broker' = broker
      /\ \/ api' = api /\ abandoned' = abandoned
         \/ /\ Current(o)
            /\ api'[o] = Absent(api[o].rv + 1)
            /\ abandoned'[o] = (pc[o] = "release")
  BY ReturnStep, Zenon DEF RemoveFinalizer, Retry, TypeOK
<1>2. Current(o) => cache[o] = api[o] /\ api[o].deleting /\ Held(o)
  BY <1>1, CurrentCopy, Zenon
     DEF ObjectInv, CopiesOrdered, WorkerInformed, WellFormed, Held, ReadSteps
<1>3. CASE api' = api /\ abandoned' = abandoned
  <2>1. WorkerGoesOn(o)
    BY <1>1, <1>3, Zenon DEF WorkerGoesOn, ObjectInv, ReadSteps
  <2> QED
    BY <2>1, SameObject, Zenon
<1>4. CASE Current(o) /\ api'[o] = Absent(api[o].rv + 1) /\ abandoned'[o] = (pc[o] = "release")
  <2>1. /\ ~api'[o].exists /\ ~api'[o].finalizer /\ ~api'[o].deleting
        /\ api'[o].rv = api[o].rv + 1
    BY <1>4 DEF Absent
  <2>2. ~Held(o)' /\ WellFormed(api'[o])
    BY <2>1, Zenon DEF Held, WellFormed
  <2>3. Truthful(cache[o], o)'
    BY <1>1, <1>2, <1>4, <2>2, Zenon DEF Truthful
  <2>4. broker'[o] # None => abandoned'[o]
    BY <1>1, <1>4, Zenon DEF ObjectInv, WorkerInformed
  <2>5. WorkerWrote(o)
    BY <1>1, <2>1, <2>2, <2>3, <2>4, Zenon DEF WorkerWrote
  <2> QED
    BY <2>5, NewObject, Zenon
<1> QED
  BY <1>1, <1>3, <1>4, Zenon

\* addFinalizerIfNeeded gets through only when the copy it holds is the object
\* itself, which then was not under deletion.
LEMMA AddFinalizerStep ==
  ASSUME TypeOK, NEW o \in Objects, ObjectInv(o), AddFinalizer(o)
  PROVE  ObjectInv(o)'
<1> DEFINE updated == [api[o] EXCEPT !.finalizer = TRUE, !.rv = @ + 1]
<1>1. /\ pc[o] = "addFinalizer" /\ cache' = cache
      /\ broker' = broker /\ abandoned' = abandoned
      /\ \/ api' = api /\ obj' = obj /\ obj[o].finalizer /\ pc'[o] = "declare"
         \/ api' = api /\ pc'[o] = "idle"
         \/ Current(o) /\ api'[o] = updated /\ pc'[o] = "idle"
         \/ Current(o) /\ api'[o] = updated /\ obj'[o] = updated /\ pc'[o] = "declare"
  BY ReturnStep, Zenon DEF AddFinalizer, Retry, Goto, TypeOK, history
<1>2. Current(o) => cache[o] = api[o] /\ ~api[o].deleting /\ api[o].exists
  BY <1>1, CurrentCopy, Zenon DEF ObjectInv, CopiesOrdered, WorkerInformed, ReadSteps
<1>3. CASE /\ api' = api
           /\ pc'[o] = "idle" \/ (obj' = obj /\ obj[o].finalizer /\ pc'[o] = "declare")
  <2>1. /\ obj[o].exists /\ WellFormed(obj[o]) /\ ~obj[o].deleting /\ Truthful(obj[o], o)
        /\ broker[o] # None => Held(o) \/ abandoned[o]
    BY <1>1, Zenon DEF ObjectInv, CopiesOrdered, WorkerInformed, ReadSteps
  <2>2. obj[o].finalizer => Held(o) /\ obj[o].spec \in Specs
    BY <2>1, Zenon DEF WellFormed, Truthful
  <2>3. WorkerGoesOn(o)
    BY <1>1, <1>3, <2>1, <2>2, Zenon DEF WorkerGoesOn, ReadSteps
  <2> QED
    BY <2>3, SameObject, Zenon
<1>4. CASE Current(o) /\ api'[o] = updated
  <2>1. /\ updated.exists = api[o].exists /\ updated.spec = api[o].spec
        /\ updated.finalizer = TRUE /\ updated.deleting = api[o].deleting
        /\ updated.rv = api[o].rv + 1
    BY DEF TypeOK, Resource
  <2> HIDE DEF updated
  <2>2. Held(o)'
    BY <1>2, <1>4, <2>1, Zenon DEF Held
  <2>3. api[o].spec \in Specs
    BY <1>2, <1>4, Zenon DEF ObjectInv, CopiesOrdered, WellFormed
  <2>4. WellFormed(api'[o])
    BY <1>2, <1>4, <2>1, <2>3, Zenon DEF WellFormed
  <2>5. Truthful(cache[o], o)'
    BY <1>1, <1>2, <1>4, <2>2, Zenon DEF Truthful
  <2>6. api' # api
    BY <1>4, <2>1, FieldTypes DEF TypeOK
  <2>7. pc'[o] \in {"idle", "declare"} /\ (pc'[o] = "declare" => obj'[o] = updated)
    BY <1>1, <2>6, Zenon
  <2>8. WorkerWrote(o)
    BY <1>1, <1>4, <2>1, <2>2, <2>3, <2>4, <2>5, <2>7, Zenon DEF WorkerWrote
  <2> QED
    BY <2>8, NewObject, Zenon
<1> QED
  BY <1>1, <1>3, <1>4, Zenon

LEMMA DeclareStep ==
  ASSUME TypeOK, NEW o \in Objects, ObjectInv(o), Declare(o)
  PROVE  ObjectInv(o)'
<1>1. /\ pc[o] = "declare" /\ api' = api /\ cache' = cache
      /\ pc'[o] \in {"statusDone", "statusRetry"}
      /\ \/ broker' = broker /\ abandoned'[o] = abandoned[o]
         \/ broker'[o] = obj[o].spec
  BY SMTT(60) DEF Declare, AfterDeclare, Goto, kubeVars, TypeOK
<1>2. Held(o) /\ (broker[o] # None => Held(o) \/ abandoned[o])
  BY <1>1, Zenon DEF ObjectInv, WorkerInformed
<1>3. WorkerGoesOn(o)
  BY <1>1, <1>2, Zenon DEF WorkerGoesOn, ReadSteps
<1> QED
  BY <1>3, SameObject, Zenon

LEMMA UpdateStatusStep ==
  ASSUME TypeOK, NEW o \in Objects, ObjectInv(o), UpdateStatus(o)
  PROVE  ObjectInv(o)'
<1> DEFINE written == [api[o] EXCEPT !.cond = obj[o].cond, !.observed = obj[o].observed]
           stored == [written EXCEPT !.rv = @ + 1]
<1>1. /\ cache' = cache /\ broker' = broker /\ abandoned' = abandoned /\ pc'[o] = "idle"
      /\ api' = api \/ api'[o] = stored
  BY ReturnStep DEF UpdateStatus, Retry, TypeOK
<1>2. /\ stored.exists = api[o].exists /\ stored.spec = api[o].spec
      /\ stored.finalizer = api[o].finalizer /\ stored.deleting = api[o].deleting
      /\ stored.rv = api[o].rv + 1
  BY SMTT(60) DEF TypeOK, Resource
<1> HIDE DEF stored
<1>3. CASE api' = api
  <2>1. WorkerGoesOn(o)
    BY <1>1, <1>3, Zenon DEF WorkerGoesOn, ObjectInv, ReadSteps
  <2> QED
    BY <2>1, SameObject, Zenon
<1>4. CASE api'[o] = stored
  <2>1. /\ Truthful(cache[o], o) /\ WellFormed(api[o])
        /\ broker[o] # None => Held(o) \/ abandoned[o]
    BY Zenon DEF ObjectInv, WorkerInformed, CopiesOrdered
  <2>2. Held(o)' <=> Held(o)
    BY <1>2, <1>4, Zenon DEF Held
  <2>3. Truthful(cache[o], o)' /\ WellFormed(api'[o])
    BY <1>1, <1>2, <1>4, <2>1, Zenon DEF Truthful, Held, WellFormed
  <2>4. WorkerWrote(o)
    BY <1>1, <1>2, <1>4, <2>1, <2>2, <2>3, Zenon DEF WorkerWrote
  <2> QED
    BY <2>4, NewObject, Zenon
<1> QED
  BY <1>1, <1>3, <1>4, Zenon

\* The cache takes over the object itself, about which nothing can mislead.
LEMMA DeliverEventStep ==
  ASSUME TypeOK, NEW o \in Objects, ObjectInv(o), DeliverEvent(o)
  PROVE  ObjectInv(o)'
<1>1. /\ api' = api /\ pc' = pc /\ obj' = obj /\ broker' = broker /\ abandoned' = abandoned
      /\ cache'[o] = api[o]
  BY Zenon DEF DeliverEvent, history, TypeOK
<1>2. api[o] \in Resource /\ cache[o] \in Resource /\ obj[o] \in Resource
  BY Zenon DEF TypeOK
<1>3. CopiesOrdered(o)'
  <2>1. NotNewer(api[o], api[o])
    BY <1>2, FieldTypes DEF NotNewer
  <2>2. pc[o] \in ReadSteps => NotNewer(obj[o], api[o])
    <3>1. pc[o] \in ReadSteps => NotNewer(obj[o], cache[o]) /\ NotNewer(cache[o], api[o])
      BY Zenon DEF ObjectInv, CopiesOrdered
    <3>2. obj[o].rv \in Nat /\ cache[o].rv \in Nat /\ api[o].rv \in Nat
      BY <1>2, FieldTypes, Zenon
    <3> QED
      BY <3>1, <3>2 DEF NotNewer
  <2> QED
    BY <1>1, <2>1, <2>2, Zenon DEF ObjectInv, CopiesOrdered, WellFormed, NotNewer
<1>4. WorkerInformed(o)'
  <2>1. Truthful(api[o], o)
    BY ObjectIsTruthful, Zenon
  <2>2. Truthful(cache[o], o)' /\ (Truthful(obj[o], o) => Truthful(obj[o], o)')
    BY <1>1, <2>1, Zenon DEF Truthful, Held
  <2>3. Held(o)' <=> Held(o)
    BY <1>1, Zenon DEF Held
  <2> QED
    BY <1>1, <2>2, <2>3, Zenon DEF ObjectInv, WorkerInformed
<1> QED
  BY <1>1, <1>3, <1>4, Zenon DEF ObjectInv, Held

LEMMA RestartStep ==
  ASSUME TypeOK, NEW o \in Objects, ObjectInv(o), Restart
  PROVE  ObjectInv(o)'
<1>1. /\ api' = api /\ broker' = broker /\ abandoned' = abandoned
      /\ cache' = api /\ pc'[o] = "idle"
  BY Zenon DEF Restart, history
<1>2. pc'[o] \notin ReadSteps
  BY <1>1, Zenon DEF ReadSteps
<1>3. CopiesOrdered(o)'
  <2>1. api[o].rv \in Nat
    BY FieldTypes, Zenon DEF TypeOK
  <2>2. NotNewer(api[o], api[o])
    BY <2>1 DEF NotNewer
  <2> QED
    BY <1>1, <1>2, <2>2, Zenon DEF ObjectInv, CopiesOrdered
<1>4. WorkerInformed(o)'
  <2>1. Truthful(api[o], o)
    BY ObjectIsTruthful, Zenon
  <2>2. Truthful(cache[o], o)'
    BY <1>1, <2>1, Zenon DEF Truthful, Held
  <2> QED
    BY <1>1, <1>2, <2>2, Zenon DEF WorkerInformed
<1> QED
  BY <1>1, <1>3, <1>4, Zenon DEF ObjectInv, Held

\* A user's write makes a newer version, which keeps the object held if it was
\* and leaves the copies of cache and worker where they are.
LEMMA NewVersion ==
  ASSUME TypeOK, NEW o \in Objects, ObjectInv(o),
         cache' = cache, pc' = pc, obj' = obj, broker' = broker, abandoned' = abandoned,
         api'[o] \in Resource, WellFormed(api'[o]), api'[o].rv = api[o].rv + 1,
         api'[o].finalizer = api[o].finalizer,
         api[o].deleting => api'[o].deleting
  PROVE  ObjectInv(o)'
<1>1. api[o] \in Resource /\ cache[o] \in Resource /\ api[o].rv \in Nat /\ cache[o].rv \in Nat
  BY FieldTypes, Zenon DEF TypeOK
<1>2. NotNewer(cache[o], api'[o])
  BY <1>1, SMTT(60) DEF ObjectInv, CopiesOrdered, NotNewer
<1>3. Held(o)' <=> Held(o)
  BY Zenon DEF Held, ObjectInv, CopiesOrdered, WellFormed
<1>4. CopiesOrdered(o)'
  BY <1>2, Zenon DEF ObjectInv, CopiesOrdered
<1>5. WorkerInformed(o)'
  <2>1. Truthful(cache[o], o) => Truthful(cache[o], o)'
    BY <1>3, Zenon DEF Truthful
  <2>2. Truthful(obj[o], o) => Truthful(obj[o], o)'
    BY <1>3, Zenon DEF Truthful
  <2> QED
    BY <1>3, <2>1, <2>2, Zenon DEF ObjectInv, WorkerInformed
<1> QED
  BY <1>3, <1>4, <1>5, Zenon DEF ObjectInv

LEMMA UserStep ==
  ASSUME TypeOK, NEW o \in Objects, ObjectInv(o),
         \/ UserDelete(o)
         \/ \E s \in Specs : UserCreate(o, s) \/ UserUpdate(o, s)
  PROVE  ObjectInv(o)'
<1>1. /\ cache' = cache /\ pc' = pc /\ obj' = obj /\ broker' = broker
      /\ abandoned' = abandoned
  BY Zenon DEF UserDelete, UserCreate, UserUpdate, Edit, workerVars, history
<1>2. api[o] \in Resource
  BY Zenon DEF TypeOK
<1>3. WellFormed(api[o])
  BY Zenon DEF ObjectInv, CopiesOrdered
<1>4. CASE UserDelete(o)
  <2>1. CASE api[o].finalizer
    <3>1. api'[o] = [api[o] EXCEPT !.deleting = TRUE, !.gen = @ + 1, !.rv = @ + 1]
      BY <1>4, <2>1, Zenon DEF UserDelete, Edit, TypeOK
    <3>2. /\ api'[o] \in Resource /\ WellFormed(api'[o]) /\ api'[o].rv = api[o].rv + 1
          /\ api'[o].finalizer = api[o].finalizer /\ api'[o].deleting
      <4>1. api'[o] \in Resource
        BY <1>2, <3>1, MarkType, Zenon
      <4> QED
        BY <1>2, <1>3, <2>1, <3>1, <4>1, ZenonT(60) DEF WellFormed, Resource
    <3> QED
      BY <1>1, <3>2, NewVersion, Zenon
  <2>2. CASE ~api[o].finalizer
    <3>1. api'[o] = Absent(api[o].rv + 1) /\ ~api[o].deleting
      BY <1>4, <2>2, Zenon DEF UserDelete, Edit, TypeOK
    <3>2. /\ api'[o] \in Resource /\ WellFormed(api'[o]) /\ api'[o].rv = api[o].rv + 1
          /\ api'[o].finalizer = FALSE
      <4>1. api'[o] \in Resource
        BY <1>2, <3>1, AbsentType, SuccTypes, Zenon
      <4> QED
        BY <3>1, <4>1 DEF WellFormed, Absent
    <3>3. api[o].finalizer = FALSE
      BY <1>2, <2>2, FieldTypes, Zenon
    <3> QED
      BY <1>1, <3>1, <3>2, <3>3, NewVersion, Zenon
  <2> QED
    BY <2>1, <2>2, Zenon
<1>5. ASSUME NEW s \in Specs, UserCreate(o, s) PROVE ObjectInv(o)'
  <2>1. /\ api'[o] = [Absent(api[o].rv + 1) EXCEPT !.exists = TRUE, !.gen = 1, !.spec = s]
        /\ ~api[o].exists
    BY <1>5, Zenon DEF UserCreate, Edit, TypeOK
  <2>2. api'[o] \in Resource
    <3>1. api[o].rv + 1 \in Nat
      BY <1>2, SuccTypes, Zenon
    <3> QED
      BY <2>1, <3>1, CreateType, Zenon
  <2>3. /\ WellFormed(api'[o]) /\ api'[o].rv = api[o].rv + 1
        /\ api'[o].finalizer = FALSE
    BY <2>1, Zenon DEF WellFormed, Absent
  <2>4. api[o].finalizer = FALSE /\ ~api[o].deleting
    BY <1>2, <1>3, <2>1, FieldTypes, Zenon DEF WellFormed
  <2> QED
    BY <1>1, <2>2, <2>3, <2>4, NewVersion, Zenon
<1>6. ASSUME NEW s \in Specs, UserUpdate(o, s) PROVE ObjectInv(o)'
  <2>1. api'[o] = [api[o] EXCEPT !.spec = s, !.gen = @ + 1, !.rv = @ + 1]
    BY <1>6, Zenon DEF UserUpdate, Edit, TypeOK
  <2>2. api'[o] \in Resource
    BY <1>2, <2>1, UpdateType, ZenonT(60)
  <2>3. /\ WellFormed(api'[o]) /\ api'[o].rv = api[o].rv + 1
        /\ api'[o].finalizer = api[o].finalizer /\ api'[o].deleting = api[o].deleting
    BY <1>2, <1>3, <2>1 DEF WellFormed, Resource
  <2> QED
    BY <1>1, <2>2, <2>3, NewVersion, Zenon
<1> QED
  BY <1>4, <1>5, <1>6, Zenon

\* The server can lose things, never gain them by itself.
LEMMA ServerStep ==
  ASSUME TypeOK, NEW o \in Objects, ObjectInv(o),
         \/ ServerLoses(o)
         \/ \E c \in Clusters : ClusterChanges(c)
  PROVE  ObjectInv(o)'
<1>1. /\ api' = api /\ cache' = cache /\ pc' = pc /\ obj' = obj
      /\ abandoned' = abandoned /\ broker'[o] \in {broker[o], None}
  BY DEF ServerLoses, ClusterChanges, kubeVars, workerVars, TypeOK
<1>2. WorkerGoesOn(o)
  BY <1>1, Zenon DEF WorkerGoesOn, ObjectInv, WorkerInformed
<1> QED
  BY <1>2, SameObject, Zenon

\* A step of one object's actions leaves the other objects alone.
LEMMA OtherObjects ==
  ASSUME TypeOK, NEW o \in Objects, NEW p \in Objects, p # o,
         \/ Get(o) \/ Reconcile(o) \/ DeliverEvent(o) \/ UserDelete(o) \/ ServerLoses(o)
         \/ \E s \in Specs : UserCreate(o, s) \/ UserUpdate(o, s)
  PROVE  /\ api'[p] = api[p] /\ cache'[p] = cache[p] /\ pc'[p] = pc[p] /\ obj'[p] = obj[p]
         /\ broker'[p] = broker[p] /\ abandoned'[p] = abandoned[p]
<1> USE DEF TypeOK, Goto, Finish, Retry, kubeVars, workerVars, history
<1>1. CASE Get(o)
  BY <1>1, Zenon DEF Get
<1>2. CASE Parse(o)
  BY <1>2 DEF Parse, HandleParseError, ReportNotReady
<1>3. CASE Delete(o)
  BY <1>3, Zenon DEF Delete, AfterDelete
<1>4. CASE RemoveFinalizer(o)
  BY <1>4, Zenon DEF RemoveFinalizer
<1>5. CASE AddFinalizer(o)
  BY <1>5 DEF AddFinalizer
<1>6. CASE Declare(o)
  BY <1>6 DEF Declare, AfterDeclare
<1>7. CASE UpdateStatus(o)
  BY <1>7 DEF UpdateStatus
<1>8. CASE DeliverEvent(o)
  BY <1>8, Zenon DEF DeliverEvent
<1>9. CASE UserDelete(o) \/ \E s \in Specs : UserCreate(o, s) \/ UserUpdate(o, s)
  BY <1>9, Zenon DEF UserDelete, UserCreate, UserUpdate, Edit
<1>10. CASE ServerLoses(o)
  BY <1>10, Zenon DEF ServerLoses
<1> QED
  BY <1>1, <1>2, <1>3, <1>4, <1>5, <1>6, <1>7, <1>8, <1>9, <1>10, Zenon DEF Reconcile

LEMMA ObjectStep ==
  ASSUME TypeOK, [Next]_vars, NEW p \in Objects, ObjectInv(p)
  PROVE  ObjectInv(p)'
<1>1. ASSUME NEW o \in Objects,
             \/ Get(o) \/ Reconcile(o) \/ DeliverEvent(o) \/ UserDelete(o) \/ ServerLoses(o)
             \/ \E s \in Specs : UserCreate(o, s) \/ UserUpdate(o, s)
      PROVE  ObjectInv(p)'
  <2>1. CASE p = o
    BY <1>1, <2>1, GetStep, ParseStep, DeleteStep, RemoveFinalizerStep, AddFinalizerStep,
       DeclareStep, UpdateStatusStep, DeliverEventStep, UserStep, ServerStep, Zenon
       DEF Reconcile
  <2>2. CASE p # o
    <3>1. /\ api'[p] = api[p] /\ cache'[p] = cache[p] /\ pc'[p] = pc[p] /\ obj'[p] = obj[p]
          /\ broker'[p] = broker[p] /\ abandoned'[p] = abandoned[p]
      BY <1>1, <2>2, OtherObjects, Zenon
    <3> QED
      BY <3>1, Frame, Zenon
  <2> QED
    BY <2>1, <2>2, Zenon
<1>2. CASE DeliverClusterEvent \/ (\E b \in Backends : BackendChanges(b)) \/ UNCHANGED vars
  BY <1>2, Frame, Zenon DEF DeliverClusterEvent, BackendChanges, vars, kubeVars, workerVars, history
<1> QED
  BY <1>1, <1>2, RestartStep, ServerStep, Zenon DEF Next

\* The inductive invariant: versions order the copies of each object in the API, in
\* the cache and in the worker's hands, and a worker that is about to declare, to
\* delete or to give up the finalizer is not misled by its copy (optimistic locking
\* and the order of the calls in Reconcile).
THEOREM LifecycleInvariant == Spec => []LifecycleInv
<1>1. Init => LifecycleInv
  <2> SUFFICES ASSUME Init PROVE LifecycleInv
    OBVIOUS
  <2>1. TypeOK
    BY InitTypes, Zenon
  <2>2. ASSUME NEW o \in Objects PROVE ObjectInv(o)
    BY SMTT(60) DEF Init, Absent, ObjectInv, CopiesOrdered, WorkerInformed, WellFormed, NotNewer,
           Truthful, Held, ReadSteps
  <2> QED
    BY <2>1, <2>2, Zenon DEF LifecycleInv, ObjectInv, NoOrphan
<1>2. LifecycleInv /\ [Next]_vars => LifecycleInv'
  <2> SUFFICES ASSUME LifecycleInv, [Next]_vars PROVE LifecycleInv'
    OBVIOUS
  <2>1. TypeOK'
    BY StepTypes, Zenon DEF LifecycleInv
  <2>2. ASSUME NEW o \in Objects PROVE ObjectInv(o)'
    BY <2>2, ObjectStep, Zenon DEF LifecycleInv, ObjectInv, NoOrphan
  <2> QED
    BY <2>1, <2>2, Zenon DEF LifecycleInv, ObjectInv, NoOrphan
<1> QED
  BY <1>1, <1>2, PTL DEF Spec

\* Nothing that the operator declared outlives its object behind the operator's
\* back: the finalizer is there before the PUT and goes after the DELETE, whatever
\* fails, crashes or is stale in between.
THEOREM NoOrphans == Spec => []NoOrphan
<1>1. LifecycleInv => NoOrphan
  BY Zenon DEF LifecycleInv
<1> QED
  BY <1>1, LifecycleInvariant, PTL
--------------------------------------------------------------------------------
(***************************************************************************)
(* What a step leaves alone.                                               *)
(***************************************************************************)

OfObject(o) ==
  \/ Get(o) \/ Reconcile(o) \/ DeliverEvent(o) \/ UserDelete(o) \/ ServerLoses(o)
  \/ \E s \in Specs : UserCreate(o, s) \/ UserUpdate(o, s)

\* A step of one object's actions leaves the history and the place in the queue of the
\* other objects alone.
LEMMA OtherHistory ==
  ASSUME TypeOK, NEW o \in Objects, NEW p \in Objects, p # o, OfObject(o)
  PROVE  /\ lost'[p] = lost[p] /\ expired'[p] = expired[p]
         /\ p \in queue' <=> p \in queue
<1> USE DEF TypeOK, Finish, Retry, kubeVars, workerVars, history
<1>1. CASE Get(o)
  BY <1>1, Zenon DEF Get
<1>2. CASE Parse(o)
  BY <1>2, Zenon DEF Parse, HandleParseError, ReportNotReady
<1>3. CASE Delete(o)
  BY <1>3 DEF Delete, AfterDelete
<1>4. CASE RemoveFinalizer(o)
  BY <1>4 DEF RemoveFinalizer
<1>5. CASE AddFinalizer(o)
  BY <1>5 DEF AddFinalizer
<1>6. CASE Declare(o)
  BY <1>6 DEF Declare
<1>7. CASE UpdateStatus(o)
  BY <1>7 DEF UpdateStatus
<1>8. CASE DeliverEvent(o)
  BY <1>8, Zenon DEF DeliverEvent
<1>9. CASE UserDelete(o) \/ \E s \in Specs : UserCreate(o, s) \/ UserUpdate(o, s)
  BY <1>9, Zenon DEF UserDelete, UserCreate, UserUpdate, Edit
<1>10. CASE ServerLoses(o)
  BY <1>10, Zenon DEF ServerLoses
<1> QED
  BY <1>1, <1>2, <1>3, <1>4, <1>5, <1>6, <1>7, <1>8, <1>9, <1>10, Zenon DEF OfObject, Reconcile

LEMMA OtherCluster ==
  ASSUME NEW o \in Objects, OfObject(o)
  PROVE  UNCHANGED clusterVars
  BY Zenon DEF OfObject, Get, Reconcile, Parse, Delete, RemoveFinalizer, AddFinalizer, Declare,
     UpdateStatus,
     DeliverEvent, UserDelete, UserCreate, UserUpdate, Edit, ServerLoses
--------------------------------------------------------------------------------
(***************************************************************************)
(* What each step of the worker does to its object.                        *)
(***************************************************************************)

LEMMA GetEffect ==
  ASSUME TypeOK, NEW o \in Objects, Get(o)
  PROVE  /\ pc[o] = "idle" /\ api' = api /\ cache' = cache /\ broker' = broker
         /\ lost' = lost /\ expired' = expired
         /\ \/ pc' = pc /\ obj' = obj /\ ~cache[o].exists
            \/ pc'[o] = "parse" /\ obj'[o] = cache[o] /\ cache[o].exists
  BY DEF Get, Goto, kubeVars, history, TypeOK

\* The error decides on the condition, and on whether the worker comes back.
LEMMA ParseEffect ==
  ASSUME TypeOK, NEW o \in Objects, Parse(o)
  PROVE  /\ pc[o] = "parse" /\ api' = api /\ cache' = cache /\ broker' = broker
         /\ lost' = lost /\ expired' = expired
         /\ \/ pc'[o] = "idle" /\ o \in queue'
            \/ /\ pc'[o] \in ReadSteps /\ obj' = obj /\ queue' = queue
            \/ \E c \in Conditions \ {"Ready"} :
                 /\ pc'[o] \in {"statusDone", "statusRetry"} /\ queue' = queue
                 /\ obj'[o] = [obj[o] EXCEPT !.cond = c]
                 /\ pc'[o] = "statusDone" =>
                      \/ Outcome(o, clusterCache) = "ResourceNotAllowed"
                      \/ ~obj[o].deleting /\ Outcome(o, clusterCache) = "ClusterScaledToZero"
<1>1. /\ pc[o] = "parse" /\ api' = api /\ cache' = cache /\ broker' = broker
      /\ lost' = lost /\ expired' = expired
  BY Zenon DEF Parse, kubeVars, history
<1> DEFINE err == Outcome(o, clusterCache)
           Reports(c, next) == /\ pc'[o] = next /\ queue' = queue
                               /\ obj'[o] = [obj[o] EXCEPT !.cond = c]
<1>2. ASSUME Retry(o) PROVE pc'[o] = "idle" /\ o \in queue'
  BY <1>2, Zenon DEF Retry, Finish, TypeOK
<1>3. ASSUME NEW next \in ReadSteps, Goto(o, next), UNCHANGED <<queue, obj>>
      PROVE  pc'[o] \in ReadSteps /\ obj' = obj /\ queue' = queue
  BY <1>3, Zenon DEF Goto, TypeOK
<1>4. ASSUME NEW c, NEW next, ReportNotReady(o, c, next) PROVE Reports(c, next)
  BY <1>4, Zenon DEF ReportNotReady, Goto, TypeOK
<1>5. \/ Retry(o)
      \/ \E next \in ReadSteps : Goto(o, next) /\ UNCHANGED <<queue, obj>>
      \/ err = "ClusterScaledToZero" /\ ~obj[o].deleting
           /\ ReportNotReady(o, "ClusterScaledToZero", "statusDone")
      \/ err = "ResourceNotAllowed" /\ ReportNotReady(o, "ResourceNotAllowed", "statusDone")
      \/ ReportNotReady(o, "ParseFailed", "statusRetry")
  BY Zenon DEF Parse, HandleParseError, ReadSteps
<1> HIDE DEF err, Reports
<1>6. \/ pc'[o] = "idle" /\ o \in queue'
      \/ pc'[o] \in ReadSteps /\ obj' = obj /\ queue' = queue
      \/ err = "ClusterScaledToZero" /\ ~obj[o].deleting /\ Reports("ClusterScaledToZero", "statusDone")
      \/ err = "ResourceNotAllowed" /\ Reports("ResourceNotAllowed", "statusDone")
      \/ Reports("ParseFailed", "statusRetry")
  BY <1>2, <1>3, <1>4, <1>5, Zenon
<1> QED
  BY <1>1, <1>6, Zenon DEF err, Reports, Conditions

LEMMA DeleteEffect ==
  ASSUME TypeOK, NEW o \in Objects, Delete(o)
  PROVE  /\ pc[o] = "delete" /\ api' = api /\ cache' = cache
         /\ lost' = lost /\ expired' = expired
         /\ \/ pc'[o] = "idle" /\ o \in queue'
            \/ pc'[o] \in ReadSteps /\ obj' = obj /\ queue' = queue
  BY Zenon DEF Delete, AfterDelete, Retry, Finish, Goto, kubeVars, history, TypeOK, ReadSteps

LEMMA RemoveFinalizerEffect ==
  ASSUME TypeOK, NEW o \in Objects, RemoveFinalizer(o)
  PROVE  /\ pc[o] \in {"removeFinalizer", "release"} /\ pc'[o] = "idle" /\ cache' = cache
         /\ broker' = broker /\ lost' = lost /\ expired' = expired
         /\ \/ api' = api /\ o \in queue'
            \/ Current(o) /\ api'[o] = Absent(api[o].rv + 1)
  BY SMTT(60) DEF RemoveFinalizer, Retry, Finish, TypeOK

LEMMA AddFinalizerEffect ==
  ASSUME TypeOK, NEW o \in Objects, AddFinalizer(o)
  PROVE  LET updated == [api[o] EXCEPT !.finalizer = TRUE, !.rv = @ + 1] IN
         /\ pc[o] = "addFinalizer" /\ cache' = cache
         /\ broker' = broker /\ lost' = lost /\ expired' = expired
         /\ \/ api' = api /\ pc'[o] = "idle" /\ o \in queue'
            \/ api' = api /\ pc'[o] = "declare" /\ obj' = obj /\ obj[o].finalizer
               /\ queue' = queue
            \/ Current(o) /\ api'[o] = updated /\ pc'[o] = "idle" /\ o \in queue'
            \/ Current(o) /\ api'[o] = updated /\ pc'[o] = "declare" /\ obj'[o] = updated
               /\ queue' = queue
  BY SMTT(60) DEF AddFinalizer, Retry, Finish, Goto, TypeOK, history

LEMMA DeclareEffect ==
  ASSUME TypeOK, NEW o \in Objects, Declare(o)
  PROVE  /\ pc[o] = "declare" /\ api' = api /\ cache' = cache /\ queue' = queue
         /\ \/ broker'[o] = broker[o] /\ lost'[o] = lost[o] /\ expired'[o] = expired[o]
            \/ broker'[o] = obj[o].spec
         /\ \/ /\ pc'[o] = "statusDone" /\ broker'[o] = obj[o].spec
               /\ obj'[o] = [obj[o] EXCEPT !.cond = "Ready", !.observed = obj[o].gen]
            \/ /\ pc'[o] = "statusRetry"
               /\ obj'[o] = [obj[o] EXCEPT !.cond = "DeclareFailed"]
<1>1. PICK c, done \in BOOLEAN, ok \in BOOLEAN :
        /\ broker' = IF done THEN [broker EXCEPT ![o] = obj[o].spec] ELSE broker
        /\ lost' = [lost EXCEPT ![o] = @ /\ ~done]
        /\ expired' = [expired EXCEPT ![o] = @ /\ ~done]
        /\ AfterDeclare(o, ok)
        /\ ok => done
  BY Zenon DEF Declare
<1>2. CASE done
  <2>1. broker'[o] = obj[o].spec
    BY <1>1, <1>2, Zenon DEF TypeOK
  <2> QED
    BY <1>1, <1>2, <2>1 DEF Declare, AfterDeclare, Goto, kubeVars, TypeOK
<1>3. CASE ~done
  <2>1. broker' = broker /\ lost'[o] = lost[o] /\ expired'[o] = expired[o] /\ ~ok
    BY <1>1, <1>3, Zenon DEF TypeOK
  <2> QED
    BY <1>1, <2>1 DEF Declare, AfterDeclare, Goto, kubeVars, TypeOK
<1> QED
  BY <1>2, <1>3, Zenon

\* A status write either changes nothing or makes a new version.
LEMMA UpdateStatusEffect ==
  ASSUME TypeOK, NEW o \in Objects, UpdateStatus(o)
  PROVE  /\ pc[o] \in {"statusDone", "statusRetry"} /\ pc'[o] = "idle" /\ cache' = cache
         /\ broker' = broker /\ lost' = lost /\ expired' = expired
         /\ o \in queue => o \in queue'
         /\ pc[o] = "statusRetry" => o \in queue'
         /\ \/ api' = api
            \/ /\ Current(o)
               /\ api'[o].exists = api[o].exists /\ api'[o].spec = api[o].spec
               /\ api'[o].gen = api[o].gen /\ api'[o].finalizer = api[o].finalizer
               /\ api'[o].deleting = api[o].deleting /\ api'[o].rv = api[o].rv + 1
               /\ api'[o].cond = obj[o].cond /\ api'[o].observed = obj[o].observed
<1> DEFINE written == [api[o] EXCEPT !.cond = obj[o].cond, !.observed = obj[o].observed]
           stored == [written EXCEPT !.rv = @ + 1]
<1>1. /\ pc[o] \in {"statusDone", "statusRetry"} /\ pc'[o] = "idle" /\ cache' = cache
      /\ broker' = broker /\ lost' = lost /\ expired' = expired
      /\ o \in queue => o \in queue'
      /\ pc[o] = "statusRetry" => o \in queue'
  BY DEF UpdateStatus, Retry, Finish, TypeOK
<1>2. api' = api \/ (Current(o) /\ api'[o] = stored)
  BY DEF UpdateStatus, TypeOK
<1>3. /\ stored.exists = api[o].exists /\ stored.spec = api[o].spec
      /\ stored.gen = api[o].gen /\ stored.finalizer = api[o].finalizer
      /\ stored.deleting = api[o].deleting /\ stored.rv = api[o].rv + 1
      /\ stored.cond = obj[o].cond /\ stored.observed = obj[o].observed
  BY SMTT(60) DEF TypeOK, Resource
<1> HIDE DEF stored
<1> QED
  BY <1>1, <1>2, <1>3, Zenon

\* A user's write makes a new version, with another generation if it goes on existing.
LEMMA UserEffect ==
  ASSUME TypeOK, NEW o \in Objects,
         \/ UserDelete(o)
         \/ \E s \in Specs : UserCreate(o, s) \/ UserUpdate(o, s)
  PROVE  /\ pc' = pc /\ obj' = obj /\ cache' = cache /\ queue' = queue
         /\ broker' = broker /\ lost' = lost /\ expired' = expired
         /\ api'[o].rv = api[o].rv + 1
         /\ \/ ~api'[o].exists /\ ~api'[o].deleting /\ api'[o].observed = 0 /\ api'[o].gen = 0
            \/ api'[o].exists /\ ~api'[o].deleting /\ api'[o].observed = 0 /\ api'[o].gen = 1
               /\ ~api[o].exists
            \/ api'[o].observed = api[o].observed /\ api'[o].gen = api[o].gen + 1
<1>1. /\ pc' = pc /\ obj' = obj /\ cache' = cache /\ queue' = queue
      /\ broker' = broker /\ lost' = lost /\ expired' = expired
  BY Zenon DEF UserDelete, UserCreate, UserUpdate, Edit, workerVars, history
<1>2. api[o] \in Resource
  BY Zenon DEF TypeOK
<1>3. \/ api'[o] = Absent(api[o].rv + 1)
      \/ api'[o] = [api[o] EXCEPT !.deleting = TRUE, !.gen = @ + 1, !.rv = @ + 1]
      \/ \E s \in Specs :
           api'[o] = [api[o] EXCEPT !.spec = s, !.gen = @ + 1, !.rv = @ + 1]
      \/ ~api[o].exists /\ \E s \in Specs :
           api'[o] = [Absent(api[o].rv + 1) EXCEPT !.exists = TRUE, !.gen = 1, !.spec = s]
  BY ZenonT(30) DEF UserDelete, UserCreate, UserUpdate, Edit, TypeOK
<1>4. CASE api'[o] = Absent(api[o].rv + 1)
  BY <1>1, <1>4 DEF Absent
<1>5. CASE api'[o] = [api[o] EXCEPT !.deleting = TRUE, !.gen = @ + 1, !.rv = @ + 1]
  BY <1>1, <1>2, <1>5, Zenon DEF Resource
<1>6. CASE \E s \in Specs : api'[o] = [api[o] EXCEPT !.spec = s, !.gen = @ + 1, !.rv = @ + 1]
  BY <1>1, <1>2, <1>6, Zenon DEF Resource
<1>7. CASE ~api[o].exists /\ \E s \in Specs :
           api'[o] = [Absent(api[o].rv + 1) EXCEPT !.exists = TRUE, !.gen = 1, !.spec = s]
  BY <1>1, <1>7, Zenon DEF Absent
<1> QED
  BY <1>3, <1>4, <1>5, <1>6, <1>7, Zenon

LEMMA DeliverEventEffect ==
  ASSUME TypeOK, NEW o \in Objects, DeliverEvent(o)
  PROVE  /\ api' = api /\ cache'[o] = api[o] /\ o \in queue' /\ pc' = pc /\ obj' = obj
         /\ broker' = broker /\ lost' = lost /\ expired' = expired
  BY Zenon DEF DeliverEvent, history, TypeOK

\* What the server loses, it loses on record.
LEMMA ServerEffect ==
  ASSUME TypeOK, NEW o \in Objects,
         \/ ServerLoses(o)
         \/ \E c \in Clusters : ClusterChanges(c)
  PROVE  /\ api' = api /\ cache' = cache /\ pc' = pc /\ obj' = obj /\ queue' = queue
         /\ \/ broker'[o] = broker[o] /\ lost'[o] = lost[o]
            \/ lost'[o]
<1>1. CASE ServerLoses(o)
  BY <1>1, Zenon DEF ServerLoses, kubeVars, workerVars, TypeOK
<1>2. ASSUME NEW c \in Clusters, ClusterChanges(c)
      PROVE  /\ api' = api /\ cache' = cache /\ pc' = pc /\ obj' = obj /\ queue' = queue
             /\ \/ broker'[o] = broker[o] /\ lost'[o] = lost[o]
                \/ lost'[o]
  <2>1. broker'[o] = broker[o] \/ broker'[o] = None
    BY <1>2, Zenon DEF ClusterChanges
  <2>2. lost'[o] = lost[o] \/ lost'[o] = TRUE
    BY <1>2, Zenon DEF ClusterChanges, TypeOK
  <2>3. broker'[o] = broker[o] \/ lost'[o] = TRUE
    BY <1>2, Zenon DEF ClusterChanges, TypeOK
  <2> QED
    BY <1>2, <2>2, <2>3, Zenon DEF ClusterChanges, kubeVars, workerVars
<1> QED
  BY <1>1, <1>2, Zenon
================================================================================
