----------------------------- MODULE StatusProofs -----------------------------
(***************************************************************************)
(* What users may read from the status of a topology object: proofs about  *)
(* TopologyReconciler, for any objects, specs, references, cluster states, *)
(* bounds.                                                                 *)
(***************************************************************************)
EXTENDS TopologyReconcilerProofs

\* The API server counts the specs; an object marked for deletion is in a generation
\* that no reconcile reports, since none declares it any more.
Counted(o) ==
  /\ api[o].observed <= api[o].gen
  /\ api[o].deleting => api[o].observed < api[o].gen

\* The worker of o is about to report success.
Done(o) == pc[o] = "statusDone" /\ obj[o].cond = "Ready"

\* A worker's copy whose version is current, so that its status write would go
\* through, agrees with the object on what the status is about.
Match(o) ==
  pc[o] # "idle" =>
    /\ obj[o].rv <= api[o].rv
    /\ Current(o) =>
         /\ obj[o].spec = api[o].spec /\ obj[o].gen = api[o].gen /\ cache[o].spec = api[o].spec
         /\ pc[o] = "declare" \/ Done(o) => Held(o) /\ ~api[o].deleting
         /\ ~Done(o) => obj[o].observed = api[o].observed

\* The report of success is true of the copy it is written from.
Report(o) ==
  /\ pc[o] = "statusRetry" => obj[o].cond # "Ready"
  /\ Done(o) => obj[o].observed = obj[o].gen /\ (broker[o] = obj[o].spec \/ lost[o])

\* A status that is up to date holds what it says, and no worker is under way that
\* would declare another spec.
Claim(o) ==
  UpToDate(o) => /\ Held(o)
                 /\ cache[o].spec = api[o].spec
                 /\ pc[o] # "idle" => obj[o].spec = api[o].spec
                 /\ broker[o] = api[o].spec \/ lost[o]

StatusOf(o) == Counted(o) /\ Match(o) /\ Report(o) /\ Claim(o)

StatusInv == \A o \in Objects : StatusOf(o)

\* Nothing that StatusOf mentions changes.
LEMMA StatusFrame ==
  ASSUME NEW o \in Objects, StatusOf(o),
         api'[o] = api[o], cache'[o] = cache[o], pc'[o] = pc[o], obj'[o] = obj[o],
         broker'[o] = broker[o], lost'[o] = lost[o]
  PROVE  StatusOf(o)'
  BY DEF StatusOf, Counted, Done, Match, Report, Claim, Current, Held, UpToDate

\* A worker that lets go of its object without writing it.
LEMMA StatusLetGo ==
  ASSUME NEW o \in Objects, StatusOf(o),
         api'[o] = api[o], cache'[o] = cache[o], pc'[o] = "idle",
         broker'[o] = broker[o], lost'[o] = lost[o]
  PROVE  StatusOf(o)'
  BY Zenon DEF StatusOf, Counted, Done, Match, Report, Claim, Current, Held, UpToDate

LEMMA GetStatus ==
  ASSUME TypeOK, NEW o \in Objects, ObjectInv(o), StatusOf(o), Get(o)
  PROVE  StatusOf(o)'
<1>1. CASE pc' = pc /\ obj' = obj
  BY <1>1, GetEffect, StatusFrame, Zenon
<1>2. CASE pc'[o] = "parse" /\ obj'[o] = cache[o]
  <2>1. /\ api'[o] = api[o] /\ cache'[o] = cache[o] /\ broker'[o] = broker[o]
        /\ lost'[o] = lost[o]
    BY GetEffect, Zenon
  <2>2. NotNewer(cache[o], api[o])
    BY Zenon DEF ObjectInv, CopiesOrdered
  <2>3. Match(o)'
    BY <1>2, <2>1, <2>2, Zenon DEF Match, Done, Current, NotNewer
  <2> QED
    BY <1>2, <2>1, <2>3, Zenon DEF StatusOf, Counted, Done, Report, Claim, Held, UpToDate
<1> QED
  BY <1>1, <1>2, GetEffect, Zenon

\* A worker that goes on with the copy it read, or reports why it does not.
GoesOn(o) ==
  /\ pc[o] \in ReadSteps /\ pc'[o] \in ReadSteps \cup {"statusDone", "statusRetry"}
  /\ obj'[o].spec = obj[o].spec /\ obj'[o].gen = obj[o].gen /\ obj'[o].rv = obj[o].rv
  /\ obj'[o].observed = obj[o].observed
  /\ pc'[o] \in {"statusDone", "statusRetry"} => obj'[o].cond # "Ready"

LEMMA StatusGoesOn ==
  ASSUME NEW o \in Objects, StatusOf(o), GoesOn(o), api'[o] = api[o], cache'[o] = cache[o],
         UpToDate(o) => broker'[o] = broker[o], lost'[o] = lost[o]
  PROVE  StatusOf(o)'
<1>1. /\ pc[o] # "idle" /\ pc'[o] # "idle" /\ pc[o] # "declare" /\ pc'[o] # "declare"
      /\ ~Done(o) /\ ~Done(o)'
      /\ pc'[o] = "statusRetry" => obj'[o].cond # "Ready"
  BY Zenon DEF GoesOn, ReadSteps, Done
<1>2. Match(o)'
  BY <1>1, Zenon DEF GoesOn, StatusOf, Match, Current, Held
<1>3. Claim(o)'
  BY <1>1, Zenon DEF GoesOn, StatusOf, Claim, Held, UpToDate
<1> QED
  BY <1>1, <1>2, <1>3, Zenon DEF StatusOf, Counted, Report

LEMMA ParseStatus ==
  ASSUME TypeOK, NEW o \in Objects, ObjectInv(o), StatusOf(o), Parse(o)
  PROVE  StatusOf(o)'
<1>1. CASE pc'[o] = "idle"
  BY <1>1, ParseEffect, StatusLetGo, Zenon
<1>2. CASE pc'[o] \in ReadSteps /\ obj' = obj
  <2>1. GoesOn(o)
    BY <1>2, ParseEffect, Zenon DEF GoesOn, ReadSteps
  <2> QED
    BY <2>1, ParseEffect, StatusGoesOn, Zenon
<1>3. ASSUME NEW c \in Conditions \ {"Ready"},
             pc'[o] \in {"statusDone", "statusRetry"},
             obj'[o] = [obj[o] EXCEPT !.cond = c]
      PROVE  StatusOf(o)'
  <2>1. obj[o] \in Resource /\ pc[o] = "parse"
    BY ParseEffect, Zenon DEF TypeOK
  <2>2. GoesOn(o)
    BY <1>3, <2>1, Zenon DEF GoesOn, ReadSteps, Resource
  <2> QED
    BY <2>2, ParseEffect, StatusGoesOn, Zenon
<1> QED
  BY <1>1, <1>2, <1>3, ParseEffect, Zenon

LEMMA DeleteStatus ==
  ASSUME TypeOK, NEW o \in Objects, ObjectInv(o), StatusOf(o), Delete(o)
  PROVE  StatusOf(o)'
<1>1. ~UpToDate(o)
  <2>1. obj[o].deleting /\ Truthful(obj[o], o)
    BY DeleteEffect, Zenon DEF ObjectInv, WorkerInformed, ReadSteps
  <2>2. UpToDate(o) => Held(o) /\ api[o].observed = api[o].gen
    BY Zenon DEF StatusOf, Claim, UpToDate
  <2>3. api[o].observed \in Nat /\ api[o].gen \in Nat
    BY Zenon DEF TypeOK, Resource
  <2> QED
    BY <2>1, <2>2, <2>3 DEF Truthful, StatusOf, Counted
<1>2. CASE pc'[o] = "idle"
  BY <1>1, <1>2, DeleteEffect, Zenon
     DEF StatusOf, Counted, Done, Match, Report, Claim, Current, Held, UpToDate
<1>3. CASE pc'[o] \in ReadSteps /\ obj' = obj
  <2>1. GoesOn(o)
    BY <1>3, DeleteEffect, Zenon DEF GoesOn, ReadSteps
  <2> QED
    BY <1>1, <2>1, DeleteEffect, StatusGoesOn, Zenon
<1> QED
  BY <1>2, <1>3, DeleteEffect, Zenon

LEMMA RemoveFinalizerStatus ==
  ASSUME TypeOK, NEW o \in Objects, ObjectInv(o), StatusOf(o), RemoveFinalizer(o)
  PROVE  StatusOf(o)'
<1>1. CASE api' = api
  BY <1>1, RemoveFinalizerEffect, StatusLetGo, ZenonT(30)
<1>2. CASE api'[o] = Absent(api[o].rv + 1)
  BY <1>2, RemoveFinalizerEffect
     DEF StatusOf, Counted, Done, Match, Report, Claim, UpToDate, Absent
<1> QED
  BY <1>1, <1>2, RemoveFinalizerEffect, Zenon

LEMMA AddFinalizerStatus ==
  ASSUME TypeOK, NEW o \in Objects, ObjectInv(o), StatusOf(o), AddFinalizer(o)
  PROVE  StatusOf(o)'
<1> DEFINE updated == [api[o] EXCEPT !.finalizer = TRUE, !.rv = @ + 1]
<1>1. /\ pc[o] = "addFinalizer" /\ pc[o] \in ReadSteps /\ cache'[o] = cache[o]
      /\ broker'[o] = broker[o] /\ lost'[o] = lost[o]
      /\ \/ api' = api /\ pc'[o] = "idle"
         \/ api' = api /\ pc'[o] = "declare" /\ obj' = obj /\ obj[o].finalizer
         \/ Current(o) /\ api'[o] = updated /\ pc'[o] = "idle"
         \/ Current(o) /\ api'[o] = updated /\ pc'[o] = "declare" /\ obj'[o] = updated
  BY AddFinalizerEffect, Zenon DEF ReadSteps
<1>2. ~obj[o].deleting
  BY <1>1, Zenon DEF ObjectInv, WorkerInformed
<1>3. /\ updated.exists = api[o].exists /\ updated.spec = api[o].spec
      /\ updated.gen = api[o].gen /\ updated.finalizer = TRUE
      /\ updated.deleting = api[o].deleting /\ updated.rv = api[o].rv + 1
      /\ updated.cond = api[o].cond /\ updated.observed = api[o].observed
  BY DEF TypeOK, Resource
<1> HIDE DEF updated
<1>4. api[o].rv \in Nat /\ obj[o].rv \in Nat
  BY Zenon DEF TypeOK, Resource
<1>5. Current(o) => obj[o] = api[o] /\ cache[o] = api[o]
  BY <1>1, CurrentCopy, Zenon
<1>6. CASE api' = api /\ pc'[o] = "idle"
  BY <1>1, <1>6, StatusLetGo, Zenon
<1>7. CASE api' = api /\ pc'[o] = "declare" /\ obj' = obj /\ obj[o].finalizer
  <2>1. ~Done(o) /\ ~Done(o)'
    BY <1>1, <1>7, Zenon DEF Done
  <2>2. Match(o)'
    BY <1>1, <1>2, <1>5, <1>7, <2>1, Zenon DEF StatusOf, Match, Current, Held
  <2>3. Claim(o)'
    BY <1>1, <1>7, Zenon DEF StatusOf, Claim, Held, UpToDate
  <2> QED
    BY <1>7, <2>1, <2>2, <2>3, Zenon DEF StatusOf, Counted, Report
<1>8. ASSUME Current(o), api'[o] = updated,
             pc'[o] = "idle" \/ (pc'[o] = "declare" /\ obj'[o] = updated)
      PROVE  StatusOf(o)'
  <2>1. obj[o] = api[o] /\ cache[o] = api[o] /\ api[o].exists
    BY <1>5, <1>8, Zenon DEF Current
  <2>2. ~Done(o)'
    BY <1>8, Zenon DEF Done
  <2>3. Counted(o)'
    BY <1>3, <1>8, Zenon DEF StatusOf, Counted
  <2>4. Match(o)'
    <3>1. api'[o].finalizer /\ ~api'[o].deleting /\ api'[o].exists
      BY <1>2, <1>3, <1>8, <2>1, Zenon
    <3>2. pc'[o] # "idle" => obj'[o] = api'[o] /\ cache'[o].spec = api'[o].spec /\ api'[o].rv \in Nat
      BY <1>1, <1>3, <1>4, <1>8, <2>1
    <3> QED
      BY <2>2, <3>1, <3>2 DEF Match, Held
  <2>5. Claim(o)'
    BY <1>1, <1>3, <1>8, <2>1, ZenonT(30) DEF StatusOf, Claim, Held, UpToDate
  <2> QED
    BY <1>8, <2>2, <2>3, <2>4, <2>5, Zenon DEF StatusOf, Report
<1> QED
  BY <1>1, <1>6, <1>7, <1>8, Zenon

LEMMA DeclareStatus ==
  ASSUME TypeOK, NEW o \in Objects, ObjectInv(o), StatusOf(o), Declare(o)
  PROVE  StatusOf(o)'
<1>1. /\ pc[o] = "declare" /\ api'[o] = api[o] /\ cache'[o] = cache[o]
      /\ (broker'[o] = broker[o] /\ lost'[o] = lost[o]) \/ broker'[o] = obj[o].spec
      /\ \/ /\ pc'[o] = "statusDone" /\ broker'[o] = obj[o].spec
            /\ obj'[o] = [obj[o] EXCEPT !.cond = "Ready", !.observed = obj[o].gen]
         \/ /\ pc'[o] = "statusRetry"
            /\ obj'[o] = [obj[o] EXCEPT !.cond = "DeclareFailed"]
  BY DeclareEffect, Zenon
<1>2. obj[o] \in Resource
  BY Zenon DEF TypeOK
<1>3. /\ obj'[o].spec = obj[o].spec /\ obj'[o].gen = obj[o].gen /\ obj'[o].rv = obj[o].rv
      /\ \/ /\ pc'[o] = "statusDone" /\ broker'[o] = obj[o].spec
            /\ obj'[o].cond = "Ready" /\ obj'[o].observed = obj[o].gen
         \/ /\ pc'[o] = "statusRetry"
            /\ obj'[o].cond = "DeclareFailed" /\ obj'[o].observed = obj[o].observed
  BY <1>1, <1>2, ZenonT(30) DEF Resource
<1>4. ~Done(o)
  BY <1>1, Zenon DEF Done
<1>5. Match(o)'
  BY <1>1, <1>3, <1>4, ZenonT(30) DEF StatusOf, Match, Done, Current, Held
<1>6. Report(o)'
  BY <1>3, Zenon DEF Report, Done
<1>7. Claim(o)'
  BY <1>1, <1>3, Zenon DEF StatusOf, Claim, Held, UpToDate
<1> QED
  BY <1>1, <1>5, <1>6, <1>7, Zenon DEF StatusOf, Counted
\* statusUpdate gets through only from a current copy, and then a report of success
\* is about the spec of the object as it is.
LEMMA UpdateStatusStatus ==
  ASSUME TypeOK, NEW o \in Objects, ObjectInv(o), StatusOf(o), UpdateStatus(o)
  PROVE  StatusOf(o)'
<1>1. CASE api' = api
  BY <1>1, UpdateStatusEffect, StatusLetGo, Zenon
<1>2. ASSUME api' # api PROVE StatusOf(o)'
  <2>1. /\ pc[o] # "idle" /\ pc[o] \in {"statusDone", "statusRetry"} /\ pc'[o] = "idle"
        /\ cache'[o] = cache[o] /\ broker'[o] = broker[o] /\ lost'[o] = lost[o]
        /\ Current(o)
        /\ api'[o].exists = api[o].exists /\ api'[o].spec = api[o].spec
        /\ api'[o].gen = api[o].gen /\ api'[o].finalizer = api[o].finalizer
        /\ api'[o].deleting = api[o].deleting
        /\ api'[o].cond = obj[o].cond /\ api'[o].observed = obj[o].observed
    BY <1>2, UpdateStatusEffect, Zenon
  <2>2. api[o].gen \in Nat /\ api[o].observed \in Nat
    BY Zenon DEF TypeOK, Resource
  <2>3. /\ obj[o].spec = api[o].spec /\ obj[o].gen = api[o].gen /\ cache[o].spec = api[o].spec
        /\ Done(o) => Held(o) /\ ~api[o].deleting
        /\ ~Done(o) => obj[o].observed = api[o].observed
    BY <2>1, Zenon DEF StatusOf, Match
  <2>4. Counted(o)'
    BY <2>1, <2>2, <2>3, SMTT(30) DEF StatusOf, Counted, Report
  <2>5. Claim(o)'
    <3> SUFFICES ASSUME UpToDate(o)' PROVE Held(o)' /\ cache'[o].spec = api'[o].spec
                                           /\ (broker'[o] = api'[o].spec \/ lost'[o])
      BY <2>1, Zenon DEF Claim
    <3>1. Done(o)
      BY <2>1, Zenon DEF StatusOf, Report, Done, UpToDate
    <3> QED
      BY <2>1, <2>3, <3>1, Zenon DEF StatusOf, Report, Held
  <2> QED
    BY <2>1, <2>4, <2>5, Zenon DEF StatusOf, Match, Report, Done
<1> QED
  BY <1>1, <1>2, Zenon

LEMMA DeliverEventStatus ==
  ASSUME TypeOK, NEW o \in Objects, ObjectInv(o), StatusOf(o), DeliverEvent(o)
  PROVE  StatusOf(o)'
  BY DeliverEventEffect, ZenonT(30)
     DEF StatusOf, Counted, Done, Match, Report, Claim, Current, Held, UpToDate

LEMMA UserStatus ==
  ASSUME TypeOK, NEW o \in Objects, ObjectInv(o), StatusOf(o),
         \/ UserDelete(o)
         \/ \E s \in Specs : UserCreate(o, s) \/ UserUpdate(o, s)
  PROVE  StatusOf(o)'
<1>1. /\ pc'[o] = pc[o] /\ obj'[o] = obj[o] /\ cache'[o] = cache[o]
      /\ broker'[o] = broker[o] /\ lost'[o] = lost[o]
      /\ api'[o].rv = api[o].rv + 1
      /\ \/ ~api'[o].exists /\ ~api'[o].deleting /\ api'[o].observed = 0 /\ api'[o].gen = 0
         \/ api'[o].exists /\ ~api'[o].deleting /\ api'[o].observed = 0 /\ api'[o].gen = 1
         \/ api'[o].observed = api[o].observed /\ api'[o].gen = api[o].gen + 1
  BY UserEffect, Zenon
<1>2. api[o].rv \in Nat /\ obj[o].rv \in Nat /\ api[o].gen \in Nat /\ api[o].observed \in Nat
  <2>1. api[o] \in Resource /\ obj[o] \in Resource
    BY Zenon DEF TypeOK
  <2> QED
    BY <2>1, Zenon DEF Resource
<1>3. Counted(o) /\ Match(o)
  BY Zenon DEF StatusOf
<1>4. Counted(o)' /\ ~UpToDate(o)'
  <2>1. api'[o].observed <= api'[o].gen
    BY <1>1, <1>2, <1>3, SMTT(30) DEF Counted
  <2>2. api'[o].deleting => api'[o].observed < api'[o].gen
    BY <1>1, <1>2, <1>3, SMTT(30) DEF Counted
  <2>3. api'[o].exists => ~(api'[o].observed = api'[o].gen)
    BY <1>1, <1>2, <1>3, SMTT(30) DEF Counted
  <2> QED
    BY <2>1, <2>2, <2>3, ZenonT(30) DEF Counted, UpToDate
<1>5. Match(o)'
  <2>1. pc[o] # "idle" => obj'[o].rv <= api'[o].rv /\ ~(api'[o].rv = obj'[o].rv)
    BY <1>1, <1>2, <1>3, SMTT(30) DEF Match
  <2> QED
    BY <1>1, <2>1, ZenonT(30) DEF Match, Current
<1> QED
  BY <1>1, <1>4, <1>5, Zenon DEF StatusOf, Report, Done, Claim

LEMMA ServerStatus ==
  ASSUME TypeOK, NEW o \in Objects, StatusOf(o),
         \/ ServerLoses(o)
         \/ \E c \in Clusters : ClusterChanges(c)
  PROVE  StatusOf(o)'
  BY ServerEffect, ZenonT(30) DEF StatusOf, Counted, Done, Match, Report, Claim, Current, Held, UpToDate

LEMMA RestartStatus ==
  ASSUME TypeOK, NEW o \in Objects, StatusOf(o), Restart
  PROVE  StatusOf(o)'
  BY Zenon DEF Restart, history, StatusOf, Counted, Done, Match, Report, Claim, Held, UpToDate

LEMMA StatusStep ==
  ASSUME LifecycleInv, StatusInv, [Next]_vars
  PROVE  StatusInv'
<1> SUFFICES ASSUME NEW p \in Objects PROVE StatusOf(p)'
  BY Zenon DEF StatusInv
<1>1. TypeOK /\ ObjectInv(p) /\ StatusOf(p)
  BY Zenon DEF LifecycleInv, ObjectInv, NoOrphan, StatusInv
<1>2. ASSUME NEW o \in Objects, OfObject(o)
      PROVE  StatusOf(p)'
  <2>1. CASE p = o
    BY <1>1, <1>2, <2>1, GetStatus, ParseStatus, DeleteStatus, RemoveFinalizerStatus,
       AddFinalizerStatus, DeclareStatus, UpdateStatusStatus, DeliverEventStatus, UserStatus,
       ServerStatus, Zenon, ZenonT(30)
       DEF OfObject, Reconcile
  <2>2. CASE p # o
    <3>1. /\ api'[p] = api[p] /\ cache'[p] = cache[p] /\ pc'[p] = pc[p] /\ obj'[p] = obj[p]
          /\ broker'[p] = broker[p]
      BY <1>1, <1>2, <2>2, OtherObjects, Zenon DEF OfObject
    <3>2. lost'[p] = lost[p]
      BY <1>1, <1>2, <2>2, OtherHistory, Zenon
    <3> QED
      BY <1>1, <3>1, <3>2, StatusFrame, Zenon
  <2> QED
    BY <2>1, <2>2, Zenon
<1>3. CASE DeliverClusterEvent \/ (\E b \in Backends : BackendChanges(b)) \/ UNCHANGED vars
  BY <1>1, <1>3, StatusFrame, Zenon
     DEF DeliverClusterEvent, BackendChanges, vars, kubeVars, workerVars, history
<1> QED
  BY <1>1, <1>2, <1>3, RestartStatus, ServerStatus, Zenon DEF Next, OfObject

\* What statusUpdate writes is about the version that it is written to: optimistic
\* locking makes the copy the worker declared from agree with the object whose
\* status it changes.
THEOREM StatusInvariant == Spec => []StatusInv
<1>1. Init => StatusInv
  BY SMTT(60)
     DEF Init, Absent, StatusInv, StatusOf, Counted, Done, Match, Report, Claim, UpToDate
<1>2. LifecycleInv /\ StatusInv /\ [Next]_vars => StatusInv'
  BY StatusStep, Zenon
<1> QED
  BY <1>1, <1>2, LifecycleInvariant, PTL DEF Spec

\* A user who reads Ready with observedGeneration = generation may rely on it,
\* whatever was stale, failed or crashed before the status was written.
THEOREM ReadyMeansDeclared == Spec => []ReadyIsDeclared
<1>1. StatusInv => ReadyIsDeclared
  BY Zenon DEF StatusInv, StatusOf, Claim, ReadyIsDeclared
<1> QED
  BY <1>1, StatusInvariant, PTL

\* observedGeneration moves forward only, and only to a generation whose spec the
\* writer of the status put on the server.
THEOREM ObservedMeansDeclared == Spec => ObservedIsDeclared
<1> DEFINE Moves(o) ==
      api[o].exists /\ api'[o].exists /\ api'[o].observed # api[o].observed =>
         /\ api'[o].observed > api[o].observed
         /\ api'[o].observed = api'[o].gen
         /\ broker[o] = api'[o].spec \/ lost[o]
<1>1. ASSUME LifecycleInv, StatusInv, [Next]_vars
      PROVE  \A o \in Objects : Moves(o)
  <2> SUFFICES ASSUME NEW p \in Objects PROVE Moves(p)
    OBVIOUS
  <2>1. TypeOK /\ StatusOf(p)
    BY <1>1, Zenon DEF LifecycleInv, StatusInv
  <2>2. ASSUME UpdateStatus(p) PROVE Moves(p)
    <3> SUFFICES ASSUME api'[p].observed # api[p].observed PROVE Moves(p)
      OBVIOUS
    <3>1. /\ pc[p] # "idle" /\ Current(p) /\ api'[p].observed = obj[p].observed
          /\ api'[p].gen = api[p].gen /\ api'[p].spec = api[p].spec
      BY <2>1, <2>2, UpdateStatusEffect, Zenon
    <3>2. Done(p) /\ obj[p].spec = api[p].spec /\ obj[p].gen = api[p].gen
      BY <2>1, <3>1, Zenon DEF StatusOf, Match
    <3>3. api[p].observed \in Nat /\ api[p].gen \in Nat
      BY <2>1, Zenon DEF TypeOK, Resource
    <3> QED
      BY <2>1, <3>1, <3>2, <3>3 DEF StatusOf, Report, Counted
  <2>3. ASSUME UserDelete(p) \/ \E s \in Specs : UserCreate(p, s) \/ UserUpdate(p, s)
        PROVE  Moves(p)
    BY <2>1, <2>3, UserEffect, Zenon
  <2>4. ASSUME api'[p] = api[p] \/ ~api'[p].exists PROVE Moves(p)
    BY <2>4, Zenon
  <2>5. ASSUME AddFinalizer(p) PROVE Moves(p)
    <3>1. api[p] \in Resource
      BY <2>1, Zenon DEF TypeOK
    <3>2. api' = api \/ api'[p] = [api[p] EXCEPT !.finalizer = TRUE, !.rv = @ + 1]
      BY <2>1, <2>5, AddFinalizerEffect, Zenon
    <3> QED
      BY <3>1, <3>2, Zenon DEF Resource
  <2>6. ASSUME RemoveFinalizer(p) PROVE api'[p] = api[p] \/ ~api'[p].exists
    <3>1. api' = api \/ api'[p] = Absent(api[p].rv + 1)
      BY <2>1, <2>6, RemoveFinalizerEffect, Zenon
    <3> QED
      BY <3>1 DEF Absent
  <2>7. ASSUME \/ Get(p) \/ Parse(p) \/ Delete(p) \/ Declare(p) \/ DeliverEvent(p) \/ ServerLoses(p)
               \/ DeliverClusterEvent \/ Restart \/ UNCHANGED vars
               \/ (\E c \in Clusters : ClusterChanges(c)) \/ \E b \in Backends : BackendChanges(b)
        PROVE  api'[p] = api[p]
    BY <2>7, Zenon DEF Get, Parse, Delete, Declare, DeliverEvent, ServerLoses, DeliverClusterEvent,
       Restart, ClusterChanges, BackendChanges, kubeVars, vars
  <2>8. ASSUME NEW o \in Objects, OfObject(o), o # p PROVE api'[p] = api[p]
    BY <2>1, <2>8, OtherObjects, Zenon DEF OfObject
  <2> HIDE DEF Moves
  <2>9. OfObject(p) => Moves(p)
    BY <2>2, <2>3, <2>4, <2>5, <2>6, <2>7, ZenonT(30) DEF OfObject, Reconcile
  <2> QED
    BY <1>1, <2>4, <2>7, <2>8, <2>9, ZenonT(30) DEF Next, OfObject
<1>2. LifecycleInv /\ StatusInv /\ [Next]_vars
        => [\A o \in Objects : Moves(o)]_vars
  BY <1>1, Zenon
<1> QED
  BY <1>2, LifecycleInvariant, StatusInvariant, PTL DEF Spec, ObservedIsDeclared
================================================================================
