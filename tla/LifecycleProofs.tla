---------------------------- MODULE LifecycleProofs ----------------------------
(***************************************************************************)
(* TopologyReconciler implements ObjectLifecycle: under the mapping        *)
(* Lifecycle, every step of the reconcile loop is a step of the abstract   *)
(* lifecycle of one object, a loss on the server, or a stutter.  And no    *)
(* object is forgotten on the way: what still has work to do is woken up.  *)
(***************************************************************************)
EXTENDS TopologyReconcilerProofs

\* The abstract variables, seen from the concrete ones.
abstract == <<stages, broker, abandoned, lost>>

LEMMA StageKept ==
  ASSUME api' = api PROVE stages' = stages
  BY Zenon DEF stages, Stage, Held

\* A change of one object in the API moves that object's stage only.
LEMMA StageMoves ==
  ASSUME NEW o \in Objects, \A p \in Objects \ {o} : api'[p] = api[p]
  PROVE  stages' = [stages EXCEPT ![o] = Stage(o)']
<1>1. ASSUME NEW p \in Objects \ {o} PROVE Stage(p)' = Stage(p)
  BY <1>1, Zenon DEF Stage, Held
<1>2. stages' = [p \in Objects |-> Stage(p)']
  BY Zenon DEF stages
<1> QED
  BY <1>1, <1>2, Zenon DEF stages

\* The stage, read off the fields of the object.
LEMMA StageCases ==
  ASSUME TypeOK, NEW o \in Objects
  PROVE  /\ stages[o] = Stage(o)
         /\ Stage(o) = "absent" <=> ~api[o].exists
         /\ Stage(o) = "fresh" <=> api[o].exists /\ ~api[o].finalizer
         /\ Stage(o) = "held" <=> Held(o) /\ ~api[o].deleting
         /\ Stage(o) = "leaving" <=> Held(o) /\ api[o].deleting
  BY FieldTypes, Zenon DEF stages, Stage, Held, TypeOK

LEMMA StageSame ==
  ASSUME TypeOK, TypeOK', NEW o \in Objects, \A p \in Objects \ {o} : api'[p] = api[p],
         api'[o].exists = api[o].exists, api'[o].finalizer = api[o].finalizer,
         api'[o].deleting = api[o].deleting
  PROVE  stages' = stages
<1>1. Stage(o)' = Stage(o)
  BY Zenon DEF Stage, Held
<1> QED
  BY <1>1, StageMoves, Zenon DEF stages

\* What each action that touches the abstract variables does to them.  Get, Parse,
\* the informers, a restart and the other reads touch none.
LEMMA QuietSteps ==
  ASSUME api' = api, broker' = broker, UNCHANGED history
  PROVE  UNCHANGED abstract
  BY StageKept, Zenon DEF abstract, history

LEMMA WorkerQuiet ==
  ASSUME NEW o \in Objects, Get(o) \/ Parse(o) \/ DeliverEvent(o)
  PROVE  UNCHANGED abstract
<1>1. api' = api /\ broker' = broker /\ UNCHANGED history
  BY Zenon DEF Get, Parse, DeliverEvent, kubeVars
<1> QED
  BY <1>1, QuietSteps, Zenon

LEMMA DeleteRefines ==
  ASSUME TypeOK, NEW o \in Objects, ObjectInv(o), Delete(o)
  PROVE  Lifecycle!Withdraw(o) \/ UNCHANGED abstract
<1>1. /\ api' = api /\ UNCHANGED history
      /\ broker' = broker \/ broker' = [broker EXCEPT ![o] = None]
  BY Zenon DEF Delete, kubeVars
<1>2. stages[o] # "held"
  BY StageCases, Zenon DEF Delete, ObjectInv, WorkerInformed, Truthful, ReadSteps
<1> QED
  BY <1>1, <1>2, StageKept, Zenon DEF Lifecycle!Withdraw, abstract, history

LEMMA RemoveFinalizerRefines ==
  ASSUME TypeOK, TypeOK', NEW o \in Objects, ObjectInv(o), RemoveFinalizer(o)
  PROVE  Lifecycle!Release(o) \/ UNCHANGED abstract
<1>1. /\ pc[o] \in {"removeFinalizer", "release"} /\ broker' = broker /\ lost' = lost
      /\ \/ api' = api /\ abandoned' = abandoned
         \/ /\ Current(o)
            /\ api' = [api EXCEPT ![o] = Absent(api[o].rv + 1)]
            /\ abandoned' = [abandoned EXCEPT ![o] = (pc[o] = "release")]
  BY Zenon DEF RemoveFinalizer
<1>2. CASE api' = api /\ abandoned' = abandoned
  BY <1>1, <1>2, StageKept, Zenon DEF abstract
<1>3. CASE /\ Current(o)
           /\ api' = [api EXCEPT ![o] = Absent(api[o].rv + 1)]
           /\ abandoned' = [abandoned EXCEPT ![o] = (pc[o] = "release")]
  <2>1. stages[o] = "leaving"
    <3>1. api[o] = obj[o]
      BY <1>1, <1>3, CurrentCopy, Zenon DEF ReadSteps
    <3>2. obj[o].deleting /\ WellFormed(obj[o])
      BY <1>1, Zenon DEF ObjectInv, CopiesOrdered, WorkerInformed, ReadSteps
    <3> QED
      BY <3>1, <3>2, StageCases, Zenon DEF WellFormed, Held
  <2>2. stages' = [stages EXCEPT ![o] = "absent"]
    <3>1. ~api'[o].exists
      BY <1>3, Zenon DEF Absent, TypeOK
    <3>2. Stage(o)' = "absent"
      BY <3>1, Zenon DEF Stage, Held
    <3> QED
      BY <1>3, <3>2, StageMoves, Zenon DEF TypeOK
  <2>3. \/ broker[o] = None /\ abandoned' = [abandoned EXCEPT ![o] = FALSE]
        \/ abandoned' = [abandoned EXCEPT ![o] = TRUE]
    <3>1. CASE pc[o] = "release"
      BY <1>3, <3>1, Zenon
    <3>2. CASE pc[o] = "removeFinalizer"
      BY <1>3, <3>2, Zenon DEF ObjectInv, WorkerInformed
    <3> QED
      BY <1>1, <3>1, <3>2, Zenon
  <2> QED
    BY <1>1, <2>1, <2>2, <2>3, Zenon DEF Lifecycle!Release, Lifecycle!Move
<1> QED
  BY <1>1, <1>2, <1>3, Zenon

LEMMA AddFinalizerRefines ==
  ASSUME TypeOK, TypeOK', NEW o \in Objects, ObjectInv(o), AddFinalizer(o)
  PROVE  Lifecycle!Hold(o) \/ UNCHANGED abstract
<1> DEFINE updated == [api[o] EXCEPT !.finalizer = TRUE, !.rv = @ + 1]
<1>1. /\ pc[o] = "addFinalizer" /\ broker' = broker /\ UNCHANGED history
      /\ \/ api' = api
         \/ Current(o) /\ ~obj[o].finalizer /\ api' = [api EXCEPT ![o] = updated]
  BY Zenon DEF AddFinalizer
<1>2. CASE api' = api
  BY <1>1, <1>2, QuietSteps, Zenon
<1>3. CASE Current(o) /\ ~obj[o].finalizer /\ api' = [api EXCEPT ![o] = updated]
  <2>1. api[o] = obj[o] /\ ~obj[o].deleting /\ api[o].exists
    BY <1>1, <1>3, CurrentCopy, Zenon DEF Current, ReadSteps, ObjectInv, WorkerInformed
  <2>2. stages[o] = "fresh"
    BY <1>3, <2>1, StageCases, Zenon
  <2>3. /\ updated.exists = api[o].exists /\ updated.finalizer = TRUE
        /\ updated.deleting = api[o].deleting
    BY DEF TypeOK, Resource
  <2>4. api'[o] = updated /\ \A p \in Objects \ {o} : api'[p] = api[p]
    BY <1>3, Zenon DEF TypeOK
  <2>5. Stage(o)' = "held"
    <3> HIDE DEF updated
    <3> QED
      BY <2>1, <2>3, <2>4, Zenon DEF Stage, Held
  <2>6. stages' = [stages EXCEPT ![o] = "held"]
    BY <2>4, <2>5, StageMoves, Zenon
  <2> QED
    BY <1>1, <2>2, <2>6, Zenon DEF Lifecycle!Hold, Lifecycle!Move, history
<1> QED
  BY <1>1, <1>2, <1>3, Zenon

LEMMA DeclareRefines ==
  ASSUME TypeOK, NEW o \in Objects, ObjectInv(o), Declare(o)
  PROVE  (\E s \in Specs : Lifecycle!Declare(o, s)) \/ UNCHANGED abstract
<1>1. /\ pc[o] = "declare" /\ api' = api
      /\ \/ broker' = broker /\ lost' = lost /\ abandoned' = abandoned
         \/ /\ broker' = [broker EXCEPT ![o] = obj[o].spec]
            /\ lost' = [lost EXCEPT ![o] = FALSE]
            /\ abandoned' = [abandoned EXCEPT ![o] = FALSE]
  <2>1. PICK done \in BOOLEAN :
          /\ broker' = IF done THEN [broker EXCEPT ![o] = obj[o].spec] ELSE broker
          /\ lost' = [lost EXCEPT ![o] = @ /\ ~done]
          /\ abandoned' = [abandoned EXCEPT ![o] = @ /\ ~done]
    BY Zenon DEF Declare
  <2>2. CASE done
    BY <2>1, <2>2, Zenon DEF Declare, kubeVars
  <2>3. CASE ~done
    BY <2>1, <2>3 DEF Declare, kubeVars, TypeOK
  <2> QED
    BY <2>2, <2>3, Zenon
<1>2. stages[o] \in {"held", "leaving"} /\ obj[o].spec \in Specs
  BY <1>1, StageCases, Zenon DEF ObjectInv, WorkerInformed
<1> QED
  BY <1>1, <1>2, StageKept, Zenon DEF Lifecycle!Declare, abstract

\* A status write is invisible to the lifecycle.
LEMMA UpdateStatusRefines ==
  ASSUME TypeOK, TypeOK', NEW o \in Objects, UpdateStatus(o)
  PROVE  UNCHANGED abstract
<1> DEFINE written == [api[o] EXCEPT !.cond = obj[o].cond, !.observed = obj[o].observed]
           stored == [written EXCEPT !.rv = @ + 1]
<1>1. /\ broker' = broker /\ abandoned' = abandoned /\ lost' = lost
      /\ api' = api \/ api' = [api EXCEPT ![o] = stored]
  BY Zenon DEF UpdateStatus
<1>2. CASE api' = api
  BY <1>1, <1>2, StageKept, Zenon DEF abstract
<1>3. CASE api' = [api EXCEPT ![o] = stored]
  <2>1. /\ stored.exists = api[o].exists /\ stored.finalizer = api[o].finalizer
        /\ stored.deleting = api[o].deleting
    BY DEF TypeOK, Resource
  <2>2. api'[o] = stored /\ \A p \in Objects \ {o} : api'[p] = api[p]
    BY <1>3, Zenon DEF TypeOK
  <2> HIDE DEF stored
  <2>3. stages' = stages
    BY <2>1, <2>2, StageSame, Zenon
  <2> QED
    BY <1>1, <2>3, Zenon DEF abstract
<1> QED
  BY <1>1, <1>2, <1>3, Zenon

LEMMA UserRefines ==
  ASSUME TypeOK, TypeOK', NEW o \in Objects, ObjectInv(o),
         \/ UserDelete(o)
         \/ \E s \in Specs : UserCreate(o, s) \/ UserUpdate(o, s)
  PROVE  \/ Lifecycle!Create(o) \/ Lifecycle!Drop(o) \/ Lifecycle!Mark(o)
         \/ UNCHANGED abstract
<1>1. broker' = broker /\ UNCHANGED history /\ \A p \in Objects \ {o} : api'[p] = api[p]
  BY Zenon DEF UserDelete, UserCreate, UserUpdate, Edit, TypeOK
<1>2. api[o] \in Resource /\ WellFormed(api[o])
  BY Zenon DEF TypeOK, ObjectInv, CopiesOrdered
<1>3. CASE UserDelete(o) /\ api[o].finalizer
  <2>1. /\ api'[o] = [api[o] EXCEPT !.deleting = TRUE, !.gen = @ + 1, !.rv = @ + 1]
        /\ api[o].exists /\ ~api[o].deleting
    BY <1>3, Zenon DEF UserDelete, Edit, TypeOK
  <2>2. api'[o].exists /\ api'[o].finalizer /\ api'[o].deleting
    BY <1>2, <1>3, <2>1 DEF Resource
  <2>3. stages[o] = "held" /\ stages' = [stages EXCEPT ![o] = "leaving"]
    <3>1. Stage(o)' = "leaving"
      BY <2>2, Zenon DEF Stage, Held
    <3> QED
      BY <1>1, <1>3, <2>1, <3>1, StageMoves, StageCases DEF Held
  <2> QED
    BY <1>1, <2>3, Zenon DEF Lifecycle!Mark, Lifecycle!Move, history
<1>4. CASE UserDelete(o) /\ ~api[o].finalizer
  <2>1. api'[o] = Absent(api[o].rv + 1) /\ api[o].exists
    BY <1>4, Zenon DEF UserDelete, Edit, TypeOK
  <2>2. ~api'[o].exists
    BY <2>1 DEF Absent
  <2>3. stages[o] = "fresh" /\ stages' = [stages EXCEPT ![o] = "absent"]
    <3>1. Stage(o)' = "absent"
      BY <2>2, Zenon DEF Stage, Held
    <3> QED
      BY <1>1, <1>4, <2>1, <3>1, StageMoves, StageCases
  <2> QED
    BY <1>1, <2>3, Zenon DEF Lifecycle!Drop, Lifecycle!Move, history
<1>5. ASSUME NEW s \in Specs, UserCreate(o, s) PROVE Lifecycle!Create(o)
  <2>1. /\ api'[o] = [Absent(api[o].rv + 1) EXCEPT !.exists = TRUE, !.gen = 1, !.spec = s]
        /\ ~api[o].exists
    BY <1>5, Zenon DEF UserCreate, Edit, TypeOK
  <2>2. api'[o].exists /\ ~api'[o].finalizer
    BY <2>1, Zenon DEF Absent
  <2>3. stages[o] = "absent" /\ stages' = [stages EXCEPT ![o] = "fresh"]
    <3>1. Stage(o)' = "fresh"
      BY <2>2, Zenon DEF Stage, Held
    <3> QED
      BY <1>1, <2>1, <3>1, StageMoves, StageCases, Zenon
  <2> QED
    BY <1>1, <2>3, Zenon DEF Lifecycle!Create, Lifecycle!Move, history
<1>6. ASSUME NEW s \in Specs, UserUpdate(o, s) PROVE UNCHANGED abstract
  <2>1. api'[o] = [api[o] EXCEPT !.spec = s, !.gen = @ + 1, !.rv = @ + 1]
    BY <1>6, Zenon DEF UserUpdate, Edit, TypeOK
  <2>2. /\ api'[o].exists = api[o].exists /\ api'[o].finalizer = api[o].finalizer
        /\ api'[o].deleting = api[o].deleting
    BY <1>2, <2>1, Zenon DEF Resource
  <2>3. stages' = stages
    BY <1>1, <2>2, StageSame, Zenon
  <2> QED
    BY <1>1, <2>3, Zenon DEF abstract, history
<1> QED
  BY <1>3, <1>4, <1>5, <1>6, Zenon

\* What the server loses by itself, or with its cluster.
LEMMA ServerRefines ==
  ASSUME TypeOK,
         \/ \E o \in Objects : ServerLoses(o)
         \/ \E c \in Clusters : ClusterChanges(c)
  PROVE  \E S \in SUBSET Objects : Lifecycle!Lose(S)
<1>1. ASSUME NEW o \in Objects, ServerLoses(o) PROVE Lifecycle!Lose({o})
  <2>1. /\ broker' = [p \in Objects |-> IF p \in {o} THEN None ELSE broker[p]]
        /\ lost' = [p \in Objects |-> lost[p] \/ (p \in {o} /\ broker[p] # None)]
    BY <1>1, Zenon DEF ServerLoses, TypeOK
  <2>2. api' = api /\ abandoned' = abandoned
    BY <1>1, Zenon DEF ServerLoses, kubeVars
  <2> QED
    BY <2>1, <2>2, StageKept, Zenon DEF Lifecycle!Lose
<1>2. ASSUME NEW c \in Clusters, ClusterChanges(c)
      PROVE  \E S \in SUBSET Objects : Lifecycle!Lose(S)
  <2> DEFINE S == {o \in Objects : c.read # "found" /\ ~Reference[o].connectionSecret}
  <2>1. /\ broker' = [p \in Objects |-> IF p \in S THEN None ELSE broker[p]]
        /\ lost' = [p \in Objects |-> lost[p] \/ (p \in S /\ broker[p] # None)]
    BY <1>2, Zenon DEF ClusterChanges
  <2>2. api' = api /\ abandoned' = abandoned /\ S \in SUBSET Objects
    BY <1>2, Zenon DEF ClusterChanges, kubeVars
  <2>3. Lifecycle!Lose(S)
    BY <2>1, <2>2, StageKept, Zenon DEF Lifecycle!Lose
  <2> QED
    BY <2>2, <2>3, Zenon
<1> QED
  BY <1>1, <1>2, Zenon

\* The reconcile loop implements the abstract lifecycle: it declares only under a
\* finalizer, takes nothing away from an object that is not being deleted, and lets
\* go only of what it cleaned up or gave up on purpose.
THEOREM RefinesLifecycle == Spec => KeepsLifecycle
<1>1. Init => Lifecycle!Init
  BY DEF Init, Lifecycle!Init, stages, Stage, Held, Absent
<1>2. LifecycleInv /\ LifecycleInv' /\ [Next]_vars => [Lifecycle!Next]_(Lifecycle!vars)
  <2> SUFFICES ASSUME LifecycleInv, LifecycleInv', [Next]_vars
               PROVE  Lifecycle!Next \/ UNCHANGED abstract
    BY Zenon DEF abstract, Lifecycle!vars
  <2>1. TypeOK /\ TypeOK'
    BY Zenon DEF LifecycleInv
  <2>2. ASSUME NEW o \in Objects PROVE ObjectInv(o)
    BY <2>2, Zenon DEF LifecycleInv, ObjectInv, NoOrphan
  <2>3. ASSUME NEW o \in Objects,
               \/ Get(o) \/ Reconcile(o) \/ DeliverEvent(o) \/ UserDelete(o)
               \/ \E s \in Specs : UserCreate(o, s) \/ UserUpdate(o, s)
        PROVE  Lifecycle!Next \/ UNCHANGED abstract
    BY <2>1, <2>2, <2>3, WorkerQuiet, DeleteRefines, RemoveFinalizerRefines, AddFinalizerRefines,
       DeclareRefines, UpdateStatusRefines, UserRefines, Zenon
       DEF Reconcile, Lifecycle!Next
  <2>4. CASE DeliverClusterEvent \/ Restart \/ \E b \in Backends : BackendChanges(b)
    BY <2>4, QuietSteps, Zenon DEF DeliverClusterEvent, Restart, BackendChanges, kubeVars
  <2>5. CASE UNCHANGED vars
    BY <2>5, QuietSteps, Zenon DEF vars, kubeVars
  <2> QED
    BY <2>1, <2>3, <2>4, <2>5, ServerRefines, Zenon DEF Next, Lifecycle!Next
<1> QED
  BY <1>1, <1>2, LifecycleInvariant, PTL DEF Spec, KeepsLifecycle, Lifecycle!Spec
--------------------------------------------------------------------------------
(***************************************************************************)
(* The wake-ups.                                                           *)
(***************************************************************************)

\* Version r of o needs no work: it is declared (or expired on the server), or it
\* waits for an event of the cluster.
Waits(o, r) ==
  \/ Outcome(o, cluster) = "ResourceNotAllowed"
  \/ ~r.deleting /\ Outcome(o, cluster) = "ClusterScaledToZero"
  \/ ~r.deleting /\ (broker[o] = r.spec \/ expired[o])

\* The worker's copy says what the cache says, or the name is back in the queue.
CopyIsCached(o) ==
  pc[o] # "idle" => \/ o \in queue
                    \/ /\ cache[o].exists /\ obj[o].spec = cache[o].spec
                       /\ obj[o].deleting <=> cache[o].deleting

\* A worker ends without an error only if there is nothing left to do, or something
\* that will start it again.
EndIsJustified(o) ==
  /\ pc[o] = "declare" => ~obj[o].deleting
  /\ pc[o] = "statusDone" => o \in queue \/ clusterEvent \/ Waits(o, obj[o])

\* And so it stays while nobody works on o.
RestIsJustified(o) ==
  pc[o] = "idle" /\ api[o].exists =>
    o \in queue \/ cache[o] # api[o] \/ clusterEvent \/ Waits(o, api[o])

WakeOf(o) == CopyIsCached(o) /\ EndIsJustified(o) /\ RestIsJustified(o)

WakeInv ==
  /\ ~clusterEvent => clusterCache = cluster
  /\ \A o \in Objects : ~Reference[o].connectionSecret => WakeOf(o)

\* A version made now is not in the cache.
LEMMA NewVersionIsUncached ==
  ASSUME TypeOK, NEW o \in Objects, ObjectInv(o), cache' = cache, api'[o].rv = api[o].rv + 1
  PROVE  cache'[o] # api'[o]
<1>1. api[o].rv \in Nat /\ cache[o].rv \in Nat
  BY Zenon DEF TypeOK, Resource
<1>2. cache[o].rv <= api[o].rv
  BY Zenon DEF ObjectInv, CopiesOrdered, NotNewer
<1> QED
  BY <1>1, <1>2

\* The cluster alone decides on the two errors that a worker waits for it to lift.
RefusedBy(o, c, err) ==
  /\ c.read = "found"
  /\ IF AllowedNamespace(Reference[o], RequestNamespace, c.allowed)
     THEN err = "ClusterScaledToZero" /\ c.replicas = 0
     ELSE err = "ResourceNotAllowed"

WatchedOnly ==
  \A o \in Objects, err \in {"ResourceNotAllowed", "ClusterScaledToZero"} :
    ~Reference[o].connectionSecret /\ backend \in Backends =>
      (Outcome(o, cluster) = err <=> RefusedBy(o, cluster, err))

LEMMA WaitIsWatched ==
  ASSUME NEW o \in Objects, ~Reference[o].connectionSecret, NEW c, backend \in Backends,
         NEW err \in {"ResourceNotAllowed", "ClusterScaledToZero"}
  PROVE  Outcome(o, c) = err <=> RefusedBy(o, c, err)
<1> DEFINE view == [connection |-> backend.connection, cluster |-> c, store |-> backend.store,
                    userSecret |-> backend.userSecret, service |-> backend.service]
           result == ParseReference(Reference[o], RequestNamespace, FALSE, view)
<1>1. /\ view.cluster = c /\ view.userSecret = backend.userSecret
      /\ view.service = backend.service
  OBVIOUS
<1>2. /\ view.userSecret \in {"found", "notFound", "failed"}
      /\ view.service.read \in {"found", "notFound", "failed"}
  BY <1>1, BackendsAssumption, Zenon
<1> HIDE DEF view
<1>3. \A e \in ParseErrors : Fail(e).err = e
  BY Zenon DEF Fail
<1>4. \A tls : Connect(tls).err = "none"
  BY Zenon DEF Connect
<1>5. DefaultUserError(view) \in {"none", "Other", "NoSuchRabbitmqCluster"}
  BY <1>2, Zenon DEF DefaultUserError
<1>6. Endpoint(view, FALSE).err \in {"none", "Other", "NoSuchRabbitmqCluster"}
  BY <1>2, <1>3, <1>4, Zenon DEF Endpoint, ExtractURIandScheme, ManagementURI, ParseErrors
<1>7. result = IF c.read # "found" THEN Fail("NoSuchRabbitmqCluster")
               ELSE IF ~AllowedNamespace(Reference[o], RequestNamespace, c.allowed)
                    THEN Fail("ResourceNotAllowed")
               ELSE IF c.replicas = 0 THEN Fail("ClusterScaledToZero")
               ELSE IF ~c.serviceReference THEN Fail("Other")
               ELSE IF DefaultUserError(view) # "none" THEN Fail(DefaultUserError(view))
               ELSE Endpoint(view, FALSE)
  BY <1>1, Zenon DEF ParseReference
<1>8. Outcome(o, c) = result.err
  BY Zenon DEF Outcome, view
<1> HIDE DEF result
<1> QED
  BY <1>3, <1>5, <1>6, <1>7, <1>8, Zenon DEF ParseErrors, RefusedBy

\* The reads that are not watched have no say in it.
LEMMA WaitsAreWatched == WatchedOnly
  BY WaitIsWatched, Zenon DEF WatchedOnly
LEMMA OutcomeKept ==
  ASSUME NEW o \in Objects, UNCHANGED clusterVars
  PROVE  /\ Outcome(o, cluster)' = Outcome(o, cluster)
         /\ clusterEvent' = clusterEvent
  BY Zenon DEF Outcome, clusterVars

\* A name in the queue, and a worker that is not about to declare, owe nothing.
LEMMA WakeQueued ==
  ASSUME NEW o \in Objects, o \in queue', pc'[o] # "declare"
  PROVE  WakeOf(o)'
  BY Zenon DEF WakeOf, CopyIsCached, EndIsJustified, RestIsJustified

\* Nothing that WakeOf mentions changes.
LEMMA WakeFrame ==
  ASSUME NEW o \in Objects, WakeOf(o), UNCHANGED clusterVars,
         api'[o] = api[o], cache'[o] = cache[o], pc'[o] = pc[o], obj'[o] = obj[o],
         broker'[o] = broker[o], expired'[o] = expired[o], o \in queue' <=> o \in queue
  PROVE  WakeOf(o)'
<1>1. Outcome(o, cluster)' = Outcome(o, cluster) /\ clusterEvent' = clusterEvent
  BY OutcomeKept, Zenon
<1> QED
  BY <1>1, Zenon DEF WakeOf, CopyIsCached, EndIsJustified, RestIsJustified, Waits

LEMMA GetWake ==
  ASSUME TypeOK, NEW o \in Objects, ObjectInv(o), WakeOf(o), Get(o)
  PROVE  WakeOf(o)'
<1>1. /\ pc[o] = "idle" /\ api'[o] = api[o] /\ cache'[o] = cache[o]
      /\ \/ pc'[o] = "idle" /\ ~cache[o].exists
         \/ pc'[o] = "parse" /\ obj'[o] = cache[o] /\ cache[o].exists
  BY GetEffect, Zenon
<1> QED
  BY <1>1, Zenon DEF WakeOf, CopyIsCached, EndIsJustified, RestIsJustified

LEMMA ParseWake ==
  ASSUME TypeOK, NEW o \in Objects, ObjectInv(o), WakeOf(o), Parse(o),
         ~clusterEvent => clusterCache = cluster
  PROVE  WakeOf(o)'
<1>1. UNCHANGED clusterVars /\ pc[o] = "parse" /\ cache'[o] = cache[o]
  BY ParseEffect, Zenon DEF Parse
<1>2. Outcome(o, cluster)' = Outcome(o, cluster) /\ clusterEvent' = clusterEvent
  BY <1>1, OutcomeKept, Zenon
<1>3. CASE pc'[o] = "idle" /\ o \in queue'
  BY <1>3, WakeQueued, Zenon
<1>4. CASE pc'[o] \in ReadSteps /\ obj' = obj /\ queue' = queue
  BY <1>1, <1>4, Zenon DEF WakeOf, CopyIsCached, EndIsJustified, RestIsJustified, ReadSteps
<1>5. ASSUME NEW c \in Conditions \ {"Ready"},
             pc'[o] \in {"statusDone", "statusRetry"}, queue' = queue,
             obj'[o] = [obj[o] EXCEPT !.cond = c],
             pc'[o] = "statusDone" =>
               \/ Outcome(o, clusterCache) = "ResourceNotAllowed"
               \/ ~obj[o].deleting /\ Outcome(o, clusterCache) = "ClusterScaledToZero"
      PROVE  WakeOf(o)'
  <2>1. obj'[o].spec = obj[o].spec /\ obj'[o].deleting = obj[o].deleting
    BY <1>5 DEF TypeOK, Resource
  <2>2. CopyIsCached(o)'
    BY <1>1, <1>5, <2>1, Zenon DEF WakeOf, CopyIsCached
  <2>3. pc'[o] = "statusDone" =>
          \/ clusterEvent
          \/ Outcome(o, cluster) = "ResourceNotAllowed"
          \/ ~obj[o].deleting /\ Outcome(o, cluster) = "ClusterScaledToZero"
    BY <1>5, Zenon
  <2>4. EndIsJustified(o)'
    BY <1>2, <1>5, <2>1, <2>3, Zenon DEF EndIsJustified, Waits
  <2> QED
    BY <1>5, <2>2, <2>4, Zenon DEF WakeOf, RestIsJustified
<1> QED
  BY <1>3, <1>4, <1>5, ParseEffect, Zenon

LEMMA DeleteWake ==
  ASSUME TypeOK, NEW o \in Objects, ObjectInv(o), WakeOf(o), Delete(o)
  PROVE  WakeOf(o)'
<1>1. CASE pc'[o] = "idle" /\ o \in queue'
  BY <1>1, WakeQueued, Zenon
<1>2. CASE pc'[o] \in ReadSteps /\ obj' = obj /\ queue' = queue
  BY <1>2, DeleteEffect, Zenon DEF WakeOf, CopyIsCached, EndIsJustified, RestIsJustified, ReadSteps
<1> QED
  BY <1>1, <1>2, DeleteEffect, Zenon

LEMMA RemoveFinalizerWake ==
  ASSUME TypeOK, NEW o \in Objects, ObjectInv(o), WakeOf(o), RemoveFinalizer(o)
  PROVE  WakeOf(o)'
<1>1. CASE o \in queue'
  BY <1>1, RemoveFinalizerEffect, WakeQueued, Zenon
<1>2. CASE api'[o] = Absent(api[o].rv + 1)
  <2>1. ~api'[o].exists
    BY <1>2 DEF Absent
  <2> QED
    BY <2>1, RemoveFinalizerEffect, Zenon DEF WakeOf, CopyIsCached, EndIsJustified, RestIsJustified
<1> QED
  BY <1>1, <1>2, RemoveFinalizerEffect, Zenon

LEMMA AddFinalizerWake ==
  ASSUME TypeOK, NEW o \in Objects, ObjectInv(o), WakeOf(o), AddFinalizer(o)
  PROVE  WakeOf(o)'
<1> DEFINE updated == [api[o] EXCEPT !.finalizer = TRUE, !.rv = @ + 1]
<1>1. /\ pc[o] = "addFinalizer" /\ pc[o] \in ReadSteps /\ cache'[o] = cache[o]
      /\ \/ pc'[o] = "idle" /\ o \in queue'
         \/ pc'[o] = "declare" /\ obj' = obj /\ queue' = queue
         \/ Current(o) /\ pc'[o] = "declare" /\ obj'[o] = updated /\ queue' = queue
  BY AddFinalizerEffect, Zenon DEF ReadSteps
<1>2. ~obj[o].deleting
  BY <1>1, Zenon DEF ObjectInv, WorkerInformed
<1>3. updated.spec = api[o].spec /\ updated.deleting = api[o].deleting
  BY SMTT(30) DEF TypeOK, Resource
<1> HIDE DEF updated
<1>4. CASE pc'[o] = "idle" /\ o \in queue'
  BY <1>4, WakeQueued, Zenon
<1>5. CASE pc'[o] = "declare" /\ obj' = obj /\ queue' = queue
  BY <1>1, <1>2, <1>5, Zenon DEF WakeOf, CopyIsCached, EndIsJustified, RestIsJustified
<1>6. CASE Current(o) /\ pc'[o] = "declare" /\ obj'[o] = updated /\ queue' = queue
  <2>1. obj[o] = api[o] /\ cache[o] = api[o] /\ api[o].exists
    BY <1>1, <1>6, CurrentCopy, Zenon DEF Current
  <2>2. ~obj'[o].deleting /\ ~cache'[o].deleting /\ obj'[o].spec = cache'[o].spec
    BY <1>1, <1>2, <1>3, <1>6, <2>1, Zenon
  <2> QED
    BY <1>1, <1>6, <2>1, <2>2, Zenon DEF WakeOf, CopyIsCached, EndIsJustified, RestIsJustified
<1> QED
  BY <1>1, <1>4, <1>5, <1>6, Zenon

LEMMA DeclareWake ==
  ASSUME TypeOK, NEW o \in Objects, ObjectInv(o), WakeOf(o), Declare(o)
  PROVE  WakeOf(o)'
<1>1. /\ pc[o] = "declare" /\ cache'[o] = cache[o] /\ queue' = queue
      /\ \/ /\ pc'[o] = "statusDone" /\ broker'[o] = obj[o].spec
            /\ obj'[o] = [obj[o] EXCEPT !.cond = "Ready", !.observed = obj[o].gen]
         \/ /\ pc'[o] = "statusRetry"
            /\ obj'[o] = [obj[o] EXCEPT !.cond = "DeclareFailed"]
  BY DeclareEffect, Zenon
<1>2. obj[o] \in Resource /\ ~obj[o].deleting
  BY <1>1, Zenon DEF TypeOK, WakeOf, EndIsJustified
<1>3. obj'[o].spec = obj[o].spec /\ obj'[o].deleting = obj[o].deleting
  BY <1>1, <1>2, Zenon DEF Resource
<1>4. /\ pc'[o] \in {"statusDone", "statusRetry"}
      /\ pc'[o] = "statusDone" => broker'[o] = obj[o].spec
  BY <1>1, Zenon
<1>5. CopyIsCached(o)'
  BY <1>1, <1>3, <1>4, Zenon DEF WakeOf, CopyIsCached
<1>6. EndIsJustified(o)'
  BY <1>2, <1>3, <1>4, Zenon DEF EndIsJustified, Waits
<1> QED
  BY <1>4, <1>5, <1>6, Zenon DEF WakeOf, RestIsJustified

\* statusUpdate ends the reconcile: either its write makes an event, or what the
\* worker found out still holds of the object.
LEMMA UpdateStatusWake ==
  ASSUME TypeOK, NEW o \in Objects, ObjectInv(o), WakeOf(o), UpdateStatus(o)
  PROVE  WakeOf(o)'
<1>1. /\ pc[o] \in {"statusDone", "statusRetry"} /\ pc'[o] = "idle" /\ cache' = cache
      /\ broker' = broker /\ expired' = expired
      /\ o \in queue \/ pc[o] = "statusRetry" => o \in queue'
      /\ api' = api \/ api'[o].rv = api[o].rv + 1
  BY UpdateStatusEffect, Zenon
<1>2. CASE o \in queue'
  BY <1>1, <1>2, WakeQueued, Zenon
<1>3. CASE api'[o].rv = api[o].rv + 1
  <2>1. cache'[o] # api'[o]
    BY <1>1, <1>3, NewVersionIsUncached, Zenon
  <2> QED
    BY <1>1, <2>1, ZenonT(30) DEF WakeOf, CopyIsCached, EndIsJustified, RestIsJustified
<1>4. CASE api' = api /\ o \notin queue'
  <2>1. UNCHANGED clusterVars
    BY Zenon DEF UpdateStatus
  <2>2. Outcome(o, cluster)' = Outcome(o, cluster) /\ clusterEvent' = clusterEvent
    BY <2>1, OutcomeKept, Zenon
  <2>3. o \notin queue /\ pc[o] = "statusDone" /\ pc[o] # "idle"
    BY <1>1, <1>4, Zenon
  <2>4. /\ obj[o].spec = cache[o].spec /\ (obj[o].deleting <=> cache[o].deleting)
        /\ clusterEvent \/ Waits(o, obj[o])
    BY <2>3, Zenon DEF WakeOf, CopyIsCached, EndIsJustified
  <2>5. RestIsJustified(o)'
    <3> SUFFICES ASSUME cache[o] = api[o], ~clusterEvent PROVE Waits(o, api[o])'
      BY <1>1, <1>4, <2>2, Zenon DEF RestIsJustified
    <3>1. Waits(o, obj[o]) /\ obj[o].spec = api[o].spec /\ (obj[o].deleting <=> api[o].deleting)
      BY <2>4, Zenon
    <3> QED
      BY <1>1, <1>4, <2>2, <3>1, Zenon DEF Waits
  <2> QED
    BY <1>1, <2>5, Zenon DEF WakeOf, CopyIsCached, EndIsJustified
<1> QED
  BY <1>1, <1>2, <1>3, <1>4, Zenon
LEMMA DeliverEventWake ==
  ASSUME TypeOK, NEW o \in Objects, ObjectInv(o), WakeOf(o), DeliverEvent(o)
  PROVE  WakeOf(o)'
  BY DeliverEventEffect, Zenon DEF WakeOf, CopyIsCached, EndIsJustified, RestIsJustified

LEMMA UserWake ==
  ASSUME TypeOK, NEW o \in Objects, ObjectInv(o), WakeOf(o), UNCHANGED clusterVars,
         \/ UserDelete(o)
         \/ \E s \in Specs : UserCreate(o, s) \/ UserUpdate(o, s)
  PROVE  WakeOf(o)'
<1>1. /\ pc'[o] = pc[o] /\ obj'[o] = obj[o] /\ cache' = cache /\ queue' = queue
      /\ broker'[o] = broker[o] /\ expired'[o] = expired[o] /\ api'[o].rv = api[o].rv + 1
  BY UserEffect, Zenon
<1>2. cache'[o] # api'[o]
  BY <1>1, NewVersionIsUncached, Zenon
<1>3. Outcome(o, cluster)' = Outcome(o, cluster) /\ clusterEvent' = clusterEvent
  BY OutcomeKept, Zenon
<1> QED
  BY <1>1, <1>2, <1>3, ZenonT(30) DEF WakeOf, CopyIsCached, EndIsJustified, RestIsJustified, Waits

\* What the server loses by itself is on record; nobody is told.
LEMMA ServerLosesWake ==
  ASSUME TypeOK, NEW o \in Objects, WakeOf(o), ServerLoses(o)
  PROVE  WakeOf(o)'
<1>1. /\ pc'[o] = pc[o] /\ obj'[o] = obj[o] /\ cache'[o] = cache[o] /\ queue' = queue
      /\ api'[o] = api[o] /\ expired'[o] /\ UNCHANGED clusterVars
  BY Zenon DEF ServerLoses, kubeVars, workerVars, TypeOK
<1>2. Outcome(o, cluster)' = Outcome(o, cluster) /\ clusterEvent' = clusterEvent
  BY <1>1, OutcomeKept, Zenon
<1> QED
  BY <1>1, <1>2, Zenon DEF WakeOf, CopyIsCached, EndIsJustified, RestIsJustified, Waits

\* Whatever the cluster does to its objects, its event is under way.
LEMMA ClusterChangesWake ==
  ASSUME NEW o \in Objects, WakeOf(o), NEW c \in Clusters, ClusterChanges(c)
  PROVE  WakeOf(o)'
<1>1. /\ pc'[o] = pc[o] /\ obj'[o] = obj[o] /\ cache'[o] = cache[o] /\ queue' = queue
      /\ api'[o] = api[o] /\ clusterEvent'
  BY Zenon DEF ClusterChanges, kubeVars, workerVars
<1> QED
  BY <1>1, Zenon DEF WakeOf, CopyIsCached, EndIsJustified, RestIsJustified

\* The event of the cluster wakes every object that the cache knows.
LEMMA ClusterEventWake ==
  ASSUME TypeOK, NEW o \in Objects, ~Reference[o].connectionSecret, WakeOf(o), DeliverClusterEvent
  PROVE  WakeOf(o)'
<1>1. /\ pc'[o] = pc[o] /\ obj'[o] = obj[o] /\ cache'[o] = cache[o] /\ api'[o] = api[o]
      /\ o \in queue \/ cache[o].exists => o \in queue'
  BY Zenon DEF DeliverClusterEvent, ClusterToRequests, kubeVars
<1> QED
  BY <1>1, Zenon DEF WakeOf, CopyIsCached, EndIsJustified, RestIsJustified

LEMMA RestartWake ==
  ASSUME TypeOK, NEW o \in Objects, WakeOf(o), Restart
  PROVE  WakeOf(o)'
  BY Zenon DEF Restart, WakeOf, CopyIsCached, EndIsJustified, RestIsJustified

LEMMA BackendChangesWake ==
  ASSUME TypeOK, TypeOK', NEW o \in Objects, ~Reference[o].connectionSecret, WakeOf(o),
         NEW b \in Backends, BackendChanges(b)
  PROVE  WakeOf(o)'
<1>1. /\ pc'[o] = pc[o] /\ obj'[o] = obj[o] /\ cache'[o] = cache[o] /\ api'[o] = api[o]
      /\ queue' = queue /\ broker'[o] = broker[o] /\ expired'[o] = expired[o]
      /\ clusterEvent' = clusterEvent /\ cluster' = cluster
  BY Zenon DEF BackendChanges, kubeVars, workerVars, history
<1>2. ASSUME NEW err \in {"ResourceNotAllowed", "ClusterScaledToZero"}
      PROVE  (Outcome(o, cluster) = err)' <=> Outcome(o, cluster) = err
  <2>1. WatchedOnly /\ WatchedOnly'
    BY WaitsAreWatched, PTL
  <2>2. backend \in Backends /\ backend' \in Backends
    BY Zenon DEF TypeOK
  <2>3. Outcome(o, cluster) = err <=> RefusedBy(o, cluster, err)
    BY <2>1, <2>2, Zenon DEF WatchedOnly
  <2>4. (Outcome(o, cluster) = err)' <=> RefusedBy(o, cluster', err)
    BY <2>1, <2>2, Zenon DEF WatchedOnly
  <2> QED
    BY <1>1, <2>3, <2>4, Zenon
<1> QED
  BY <1>1, <1>2, Zenon DEF WakeOf, CopyIsCached, EndIsJustified, RestIsJustified, Waits
LEMMA WakeStep ==
  ASSUME LifecycleInv, TypeOK', WakeInv, [Next]_vars
  PROVE  WakeInv'
<1>1. TypeOK /\ (~clusterEvent => clusterCache = cluster)
  BY Zenon DEF LifecycleInv, WakeInv
<1>2. ~clusterEvent' => clusterCache' = cluster'
  <2>1. CASE UNCHANGED clusterVars
    BY <1>1, <2>1, Zenon DEF clusterVars
  <2>2. CASE DeliverClusterEvent \/ Restart \/ \E b \in Backends : BackendChanges(b)
    BY <1>1, <2>2, Zenon DEF DeliverClusterEvent, Restart, BackendChanges
  <2>3. CASE \E c \in Clusters : ClusterChanges(c)
    BY <2>3, Zenon DEF ClusterChanges
  <2>4. CASE UNCHANGED vars
    BY <2>1, <2>4, Zenon DEF vars
  <2>5. CASE \E o \in Objects : OfObject(o)
    BY <2>1, <2>5, OtherCluster, Zenon
  <2> QED
    BY <2>2, <2>3, <2>4, <2>5, Zenon DEF Next, OfObject
<1>3. ASSUME NEW p \in Objects, ~Reference[p].connectionSecret PROVE WakeOf(p)'
  <2>1. ObjectInv(p) /\ WakeOf(p)
    BY <1>3, Zenon DEF LifecycleInv, ObjectInv, NoOrphan, WakeInv
  <2>2. ASSUME NEW o \in Objects, OfObject(o)
        PROVE  WakeOf(p)'
    <3>1. UNCHANGED clusterVars
      BY <2>2, OtherCluster, Zenon
    <3>2. CASE p = o
      BY <1>1, <2>1, <2>2, <3>1, <3>2, GetWake, ParseWake, DeleteWake, RemoveFinalizerWake,
         AddFinalizerWake, DeclareWake, UpdateStatusWake, DeliverEventWake, UserWake,
         ServerLosesWake, Zenon, ZenonT(30)
         DEF OfObject, Reconcile
    <3>3. CASE p # o
      <4>1. /\ api'[p] = api[p] /\ cache'[p] = cache[p] /\ pc'[p] = pc[p] /\ obj'[p] = obj[p]
            /\ broker'[p] = broker[p]
        BY <1>1, <2>2, <3>3, OtherObjects, ZenonT(30) DEF OfObject
      <4>2. expired'[p] = expired[p] /\ (p \in queue' <=> p \in queue)
        BY <1>1, <2>2, <3>3, OtherHistory, Zenon
      <4> QED
        BY <2>1, <3>1, <4>1, <4>2, WakeFrame, ZenonT(30)
    <3> QED
      BY <3>2, <3>3, Zenon
  <2>3. CASE UNCHANGED vars
    BY <2>1, <2>3, WakeFrame, Zenon DEF vars, kubeVars, workerVars, history
  <2> QED
    BY <1>1, <1>3, <2>1, <2>2, <2>3, ClusterChangesWake, ClusterEventWake, RestartWake,
       BackendChangesWake, Zenon
       DEF Next, OfObject
<1> QED
  BY <1>2, <1>3, Zenon DEF WakeInv

\* While nobody works on an object and nothing is under way for it, there is nothing
\* to do for it but wait for the cluster; while somebody does, the name comes back
\* if the work fails or the object changes meanwhile.
THEOREM WakeInvariant == Spec => []WakeInv
<1>1. Init => WakeInv
  <2> SUFFICES ASSUME Init PROVE WakeInv
    OBVIOUS
  <2>1. ASSUME NEW o \in Objects PROVE pc[o] = "idle" /\ ~api[o].exists
    BY Zenon DEF Init, Absent
  <2>2. clusterCache = cluster
    BY Zenon DEF Init
  <2> QED
    BY <2>1, <2>2, Zenon DEF WakeInv, WakeOf, CopyIsCached, EndIsJustified, RestIsJustified
<1>2. LifecycleInv /\ LifecycleInv' /\ WakeInv /\ [Next]_vars => WakeInv'
  BY WakeStep, Zenon DEF LifecycleInv
<1> QED
  BY <1>1, <1>2, LifecycleInvariant, PTL DEF Spec

\* No wake-up is lost: an object that names the cluster and that nothing will
\* reconcile again is declared as its spec says, or waits for the cluster.
THEOREM QuietMeansSettled == Spec => []QuietIsSettled
<1>1. WakeInv => QuietIsSettled
  BY Zenon DEF WakeInv, WakeOf, RestIsJustified, QuietIsSettled, Quiet, Waits
<1> QED
  BY <1>1, WakeInvariant, PTL
================================================================================
