-------------------------- MODULE TopologyReconciler --------------------------
(***************************************************************************)
(* The reconcile loop shared by the twelve kinds of topology object        *)
(* (internal/controller/topology_controller.go and utils.go), with what it *)
(* runs against: the Kubernetes API and its optimistic locking, an informer*)
(* cache that lags behind it, the work queue of controller-runtime, the    *)
(* RabbitmqCluster and its watch, and the RabbitMQ server, one call of     *)
(* which declares or deletes the object.                                   *)
(*                                                                         *)
(* A worker takes one step per call that leaves the process; between two   *)
(* steps everything else may move.  A call may fail before it took effect  *)
(* or after (its answer is lost), and the operator may crash anywhere.     *)
(***************************************************************************)
EXTENDS ClusterReference, FiniteSets

CONSTANTS
  Objects,       \* names of topology objects of one kind
  Specs,         \* contents of spec
  Retained,      \* those with deletionPolicy: retain
  Rejected,      \* those DeclareFunc cannot declare (invalid, or refused by the server)
  None,          \* no spec
  Reference,     \* each object's rabbitmqClusterReference
  RequestNamespace,
  Clusters,      \* states the RabbitmqCluster can be in
  Backends,      \* answers to the other reads of ParseReference
  MaxConcurrentReconciles,
  MaxEdits,      \* bound: writes by the user
  MaxFaults,     \* bound: failed calls, crashes, losses on the server
  MaxShifts      \* bound: changes of the cluster and of the other reads

ASSUME ConstantsAssumption ==
  /\ None \notin Specs
  /\ Retained \subseteq Specs
  /\ Rejected \subseteq Specs
  /\ MaxConcurrentReconciles \in Nat \ {0}

\* The reads of the default-user Secret and of the Service are reads.
ASSUME BackendsAssumption ==
  \A b \in Backends : {b.userSecret, b.service.read} \subseteq {"found", "notFound", "failed"}

VARIABLES
  api,           \* the objects in the Kubernetes API
  cache,         \* the informer cache
  queue,         \* names waiting in the work queue
  pc,            \* the next call of the worker that holds a name
  obj,           \* that worker's copy of the object
  broker,        \* the objects on the RabbitMQ server
  cluster,       \* the RabbitmqCluster in the API
  clusterCache,  \* and in the informer cache
  clusterEvent,  \* is an event of the cluster under way to the cache?
  backend,       \* what the other reads of ParseReference answer
  spent,         \* how much of each bound is used up
  abandoned,     \* history: finalizer removed without a delete on the server
  lost,          \* history: the server lost what was declared
  expired,       \* history: and not together with its cluster
  dropped        \* history: the last status write failed for good

kubeVars == <<api, cache>>
workerVars == <<queue, pc, obj>>
clusterVars == <<cluster, clusterCache, clusterEvent, backend>>
history == <<abandoned, lost, expired, dropped>>
vars == <<kubeVars, workerVars, broker, clusterVars, spent, history>>

Conditions == {"none", "Ready", "ClusterScaledToZero", "ResourceNotAllowed",
               "ParseFailed", "DeclareFailed"}

Steps == {"idle", "parse", "delete", "removeFinalizer", "release", "addFinalizer",
          "declare", "statusDone", "statusRetry"}

Resource == [exists : BOOLEAN, rv : Nat, gen : Nat, spec : Specs \cup {None},
             finalizer : BOOLEAN, deleting : BOOLEAN,
             cond : Conditions, observed : Nat]

\* A name without an object; the API server never reuses a resourceVersion.
Absent(rv) == [exists |-> FALSE, rv |-> rv, gen |-> 0, spec |-> None,
               finalizer |-> FALSE, deleting |-> FALSE,
               cond |-> "none", observed |-> 0]

Init ==
  /\ api = [o \in Objects |-> Absent(0)]
  /\ cache = api
  /\ queue = {}
  /\ pc = [o \in Objects |-> "idle"]
  /\ obj = [o \in Objects |-> Absent(0)]
  /\ broker = [o \in Objects |-> None]
  /\ cluster \in Clusters
  /\ clusterCache = cluster
  /\ clusterEvent = FALSE
  /\ backend \in Backends
  /\ spent = [edits |-> 0, faults |-> 0, shifts |-> 0]
  /\ abandoned = [o \in Objects |-> FALSE]
  /\ lost = [o \in Objects |-> FALSE]
  /\ expired = [o \in Objects |-> FALSE]
  /\ dropped = [o \in Objects |-> FALSE]
--------------------------------------------------------------------------------
(***************************************************************************)
(* Calls.                                                                  *)
(***************************************************************************)

\* How a call goes: answered; failed without effect; done, its answer lost.
Call(c) ==
  /\ c = "ok" \/ spent.faults < MaxFaults
  /\ spent' = IF c = "ok" THEN spent ELSE [spent EXCEPT !.faults = @ + 1]

\* Update and Status().Update carry the resourceVersion the worker read.
Current(o) == api[o].exists /\ api[o].rv = obj[o].rv

\* Does the management API of o's server answer?
Reachable(o) ==
  Reference[o].connectionSecret \/ (cluster.read = "found" /\ cluster.replicas # 0)

\* ParseReference reads the RabbitmqCluster from the cache, the rest live.
Outcome(o, c) ==
  ParseReference(Reference[o], RequestNamespace, FALSE,
    [connection |-> backend.connection, cluster |-> c, store |-> backend.store,
     userSecret |-> backend.userSecret, service |-> backend.service]).err

\* Reconcile returns nil: the name is forgotten until its next event.
Finish(o) ==
  /\ pc' = [pc EXCEPT ![o] = "idle"]
  /\ obj' = [obj EXCEPT ![o] = Absent(0)]

\* Mutant of Retry: the error is not returned.
RetryNever(o) == Finish(o) /\ UNCHANGED queue

\* Reconcile returns an error: the name goes back to the queue, rate limited.
Retry(o) == Finish(o) /\ queue' = queue \cup {o}

Goto(o, step) == pc' = [pc EXCEPT ![o] = step]
--------------------------------------------------------------------------------
(***************************************************************************)
(* Reconcile, one action per call.                                         *)
(***************************************************************************)

\* A worker takes a name nobody works on and reads the object from the cache.
Get(o) ==
  /\ o \in queue
  /\ pc[o] = "idle"
  /\ Cardinality({p \in Objects : pc[p] # "idle"}) < MaxConcurrentReconciles
  /\ queue' = queue \ {o}
  /\ IF cache[o].exists
     THEN Goto(o, "parse") /\ obj' = [obj EXCEPT ![o] = cache[o]]
     ELSE UNCHANGED <<pc, obj>>
  /\ UNCHANGED <<kubeVars, broker, clusterVars, spent, history>>

\* handleRMQReferenceParseError sets NotReady for err and goes on to write it.
ReportNotReady(o, cond, next) ==
  /\ obj' = [obj EXCEPT ![o].cond = cond]
  /\ Goto(o, next)
  /\ UNCHANGED queue

\* The branches of handleRMQReferenceParseError, in the order of the code.
HandleParseError(o, err) ==
  \/ /\ err \in {"NoSuchRabbitmqCluster", "ClusterScaledToZero"}
     /\ obj[o].deleting
     /\ Goto(o, "release")
     /\ UNCHANGED <<queue, obj>>
  \/ /\ err = "NoSuchRabbitmqCluster"
     /\ ~obj[o].deleting
     /\ Retry(o)
  \/ /\ err = "ClusterScaledToZero"
     /\ ~obj[o].deleting
     /\ ReportNotReady(o, "ClusterScaledToZero", "statusDone")
  \/ /\ err = "ResourceNotAllowed"
     /\ ReportNotReady(o, "ResourceNotAllowed", "statusDone")
  \/ /\ err = "Other"
     /\ ReportNotReady(o, "ParseFailed", "statusRetry")

\* From the certificate pool to the RabbitMQ client; loading the pool or making
\* the client may fail.
Parse(o) ==
  /\ pc[o] = "parse"
  /\ \/ LET err == Outcome(o, clusterCache) IN
        /\ Call("ok")
        /\ \/ err # "none" /\ HandleParseError(o, err)
           \/ /\ err = "none"
              /\ Goto(o, IF obj[o].deleting THEN "delete" ELSE "addFinalizer")
              /\ UNCHANGED <<queue, obj>>
     \/ Call("error") /\ Retry(o)
  /\ UNCHANGED <<kubeVars, broker, clusterVars, history>>

\* Mutant of DeleteAnswer: 404 is an error like any other.
DeleteAnswerStrict(o, c) == Reachable(o) /\ c = "ok" /\ broker[o] # None

\* validateResponseForDeletion: 404 stands for ErrNotFound, which DeleteFunc takes
\* for success, so that what o holds on the server makes no difference.
DeleteAnswer(o, c) == Reachable(o) /\ c = "ok"

\* Mutant of AfterDelete: an error of DeleteFunc is only logged.
AfterDeleteUnchecked(o, ok) == Goto(o, "removeFinalizer") /\ UNCHANGED <<queue, obj>>

\* Only a successful DeleteFunc leads to removeFinalizer.
AfterDelete(o, ok) ==
  IF ok THEN Goto(o, "removeFinalizer") /\ UNCHANGED <<queue, obj>> ELSE Retry(o)

\* DeleteFunc: nothing for deletionPolicy retain, else one DELETE.
Delete(o) ==
  /\ pc[o] = "delete"
  /\ \/ /\ obj[o].spec \in Retained
        /\ Goto(o, "release")
        /\ UNCHANGED <<queue, obj, broker, spent>>
     \/ \E c \in {"ok", "error", "lost"} :
          /\ obj[o].spec \notin Retained
          /\ Call(c)
          /\ broker' = IF Reachable(o) /\ c # "error"
                       THEN [broker EXCEPT ![o] = None] ELSE broker
          /\ AfterDelete(o, DeleteAnswer(o, c))
  /\ UNCHANGED <<kubeVars, clusterVars, history>>

\* removeFinalizer, after a delete on the server or ("release") without one.  The
\* API server removes an object under deletion with its last finalizer.
RemoveFinalizer(o) ==
  /\ pc[o] \in {"removeFinalizer", "release"}
  /\ \E c \in {"ok", "error", "lost"} :
       /\ Call(c)
       /\ IF Current(o) /\ c # "error"
          THEN /\ api' = [api EXCEPT ![o] = Absent(@.rv + 1)]
               /\ abandoned' = [abandoned EXCEPT ![o] = pc[o] = "release"]
          ELSE UNCHANGED <<api, abandoned>>
       /\ IF Current(o) /\ c = "ok" THEN Finish(o) /\ UNCHANGED queue ELSE Retry(o)
  /\ UNCHANGED <<cache, broker, clusterVars, lost, expired, dropped>>

\* addFinalizerIfNeeded; a successful Update leaves the new version in obj.
AddFinalizer(o) ==
  LET updated == [api[o] EXCEPT !.finalizer = TRUE, !.rv = @ + 1] IN
  /\ pc[o] = "addFinalizer"
  /\ \/ /\ obj[o].finalizer
        /\ Goto(o, "declare")
        /\ UNCHANGED <<api, queue, obj, spent>>
     \/ \E c \in {"ok", "error", "lost"} :
          /\ ~obj[o].finalizer
          /\ Call(c)
          /\ api' = IF Current(o) /\ c # "error" THEN [api EXCEPT ![o] = updated] ELSE api
          /\ IF Current(o) /\ c = "ok"
             THEN /\ obj' = [obj EXCEPT ![o] = updated]
                  /\ Goto(o, "declare")
                  /\ UNCHANGED queue
             ELSE Retry(o)
  /\ UNCHANGED <<cache, broker, clusterVars, history>>

\* Mutants of AfterDeclare: an error of DeclareFunc is only logged; a failed
\* attempt counts as observed too.
AfterDeclareUnchecked(o, ok) ==
  /\ obj' = [obj EXCEPT ![o] = [@ EXCEPT !.cond = "Ready", !.observed = obj[o].gen]]
  /\ Goto(o, "statusDone")
AfterDeclareObserved(o, ok) ==
  /\ obj' = [obj EXCEPT ![o] = [@ EXCEPT !.cond = IF ok THEN "Ready" ELSE "DeclareFailed",
                                         !.observed = obj[o].gen]]
  /\ Goto(o, IF ok THEN "statusDone" ELSE "statusRetry")

\* The condition that DeclareFunc earned and, on success only,
\* status.observedGeneration, set in the worker's copy.
AfterDeclare(o, ok) ==
  IF ok
  THEN /\ obj' = [obj EXCEPT ![o] = [@ EXCEPT !.cond = "Ready", !.observed = obj[o].gen]]
       /\ Goto(o, "statusDone")
  ELSE /\ obj' = [obj EXCEPT ![o].cond = "DeclareFailed"]
       /\ Goto(o, "statusRetry")

\* DeclareFunc, one PUT.
Declare(o) ==
  /\ pc[o] = "declare"
  /\ \E c \in {"ok", "error", "lost"} :
       LET accepted == Reachable(o) /\ obj[o].spec \notin Rejected
           done == accepted /\ c # "error"
       IN
       /\ Call(c)
       /\ broker' = IF done THEN [broker EXCEPT ![o] = obj[o].spec] ELSE broker
       /\ lost' = [lost EXCEPT ![o] = @ /\ ~done]
       /\ expired' = [expired EXCEPT ![o] = @ /\ ~done]
       /\ abandoned' = [abandoned EXCEPT ![o] = @ /\ ~done]
       /\ AfterDeclare(o, accepted /\ c = "ok")
  /\ UNCHANGED <<kubeVars, queue, clusterVars, dropped>>

\* statusUpdate: every retry of RetryOnConflict sends the same resourceVersion, so
\* a conflict is final; whatever the error, it is logged and forgotten.  A write
\* that changes nothing leaves the version, and makes no event.
UpdateStatus(o) ==
  LET written == [api[o] EXCEPT !.cond = obj[o].cond, !.observed = obj[o].observed] IN
  /\ pc[o] \in {"statusDone", "statusRetry"}
  /\ \E c \in {"ok", "error"} :
       /\ Call(c)
       /\ api' = IF Current(o) /\ c = "ok" /\ written # api[o]
                 THEN [api EXCEPT ![o] = [written EXCEPT !.rv = @ + 1]] ELSE api
       /\ dropped' = [dropped EXCEPT ![o] = IF Current(o) THEN c = "error" ELSE @]
  /\ IF pc[o] = "statusDone" THEN Finish(o) /\ UNCHANGED queue ELSE Retry(o)
  /\ UNCHANGED <<cache, broker, clusterVars, abandoned, lost, expired>>

Reconcile(o) == \/ Parse(o) \/ Delete(o) \/ RemoveFinalizer(o)
                \/ AddFinalizer(o) \/ Declare(o) \/ UpdateStatus(o)
--------------------------------------------------------------------------------
(***************************************************************************)
(* Informers and the operator's process.                                   *)
(***************************************************************************)

\* The cache catches up with one object, and the event enqueues its name.
DeliverEvent(o) ==
  /\ cache[o] # api[o]
  /\ cache' = [cache EXCEPT ![o] = api[o]]
  /\ queue' = queue \cup {o}
  /\ UNCHANGED <<api, pc, obj, broker, clusterVars, spent, history>>

\* Mutant of ClusterToRequests: objects that are Ready are left alone.
ClusterToUnreadyRequests ==
  {o \in Objects : /\ cache[o].exists
                   /\ cache[o].cond # "Ready"
                   /\ ~Reference[o].connectionSecret}

\* rabbitmqClusterToRequests: the cached objects that name the cluster, not those
\* that go through a connectionSecret.
ClusterToRequests == {o \in Objects : cache[o].exists /\ ~Reference[o].connectionSecret}

\* The cache catches up with the cluster, and the event enqueues its objects.
DeliverClusterEvent ==
  /\ clusterEvent
  /\ clusterEvent' = FALSE
  /\ clusterCache' = cluster
  /\ queue' = queue \cup ClusterToRequests
  /\ UNCHANGED <<kubeVars, pc, obj, broker, cluster, backend, spent, history>>

\* The operator dies; its successor lists everything and enqueues what exists.
Restart ==
  /\ spent.faults < MaxFaults
  /\ spent' = [spent EXCEPT !.faults = @ + 1]
  /\ pc' = [o \in Objects |-> "idle"]
  /\ obj' = [o \in Objects |-> Absent(0)]
  /\ cache' = api
  /\ clusterCache' = cluster
  /\ clusterEvent' = FALSE
  /\ queue' = {o \in Objects : api[o].exists}
  /\ UNCHANGED <<api, broker, cluster, backend, history>>
--------------------------------------------------------------------------------
(***************************************************************************)
(* The environment: users, the cluster, and the server itself.             *)
(***************************************************************************)

Edit(o, new) ==
  /\ spent.edits < MaxEdits
  /\ spent' = [spent EXCEPT !.edits = @ + 1]
  /\ api' = [api EXCEPT ![o] = new]
  /\ UNCHANGED <<cache, workerVars, broker, clusterVars, history>>

UserCreate(o, s) ==
  /\ ~api[o].exists
  /\ Edit(o, [Absent(api[o].rv + 1) EXCEPT !.exists = TRUE, !.gen = 1, !.spec = s])

UserUpdate(o, s) ==
  /\ api[o].exists
  /\ s # api[o].spec
  /\ Edit(o, [api[o] EXCEPT !.spec = s, !.gen = @ + 1, !.rv = @ + 1])

\* With a finalizer the API server only marks the object, in a new generation.
UserDelete(o) ==
  /\ api[o].exists
  /\ ~api[o].deleting
  /\ Edit(o, IF api[o].finalizer
             THEN [api[o] EXCEPT !.deleting = TRUE, !.gen = @ + 1, !.rv = @ + 1]
             ELSE Absent(api[o].rv + 1))

\* Scaling, deletion, annotations of the RabbitmqCluster.  A deleted cluster
\* takes its data along; one at zero replicas keeps it.
ClusterChanges(c) ==
  LET wiped(o) == c.read # "found" /\ ~Reference[o].connectionSecret IN
  /\ spent.shifts < MaxShifts
  /\ spent' = [spent EXCEPT !.shifts = @ + 1]
  /\ c # cluster
  /\ cluster' = c
  /\ clusterEvent' = TRUE
  /\ broker' = [o \in Objects |-> IF wiped(o) THEN None ELSE broker[o]]
  /\ lost' = [o \in Objects |-> lost[o] \/ (wiped(o) /\ broker[o] # None)]
  /\ UNCHANGED <<kubeVars, workerVars, clusterCache, backend, abandoned, expired,
                 dropped>>

\* Secrets, Services and Vault change without an event for the objects.
BackendChanges(b) ==
  /\ spent.shifts < MaxShifts
  /\ spent' = [spent EXCEPT !.shifts = @ + 1]
  /\ b # backend
  /\ backend' = b
  /\ UNCHANGED <<kubeVars, workerVars, broker, cluster, clusterCache, clusterEvent, history>>

\* Someone deletes the object on the server, or it expires there.
ServerLoses(o) ==
  /\ Call("lost")
  /\ broker[o] # None
  /\ broker' = [broker EXCEPT ![o] = None]
  /\ lost' = [lost EXCEPT ![o] = TRUE]
  /\ expired' = [expired EXCEPT ![o] = TRUE]
  /\ UNCHANGED <<kubeVars, workerVars, clusterVars, abandoned, dropped>>

Next ==
  \/ \E o \in Objects :
       \/ Get(o) \/ Reconcile(o) \/ DeliverEvent(o)
       \/ UserDelete(o) \/ ServerLoses(o)
       \/ \E s \in Specs : UserCreate(o, s) \/ UserUpdate(o, s)
  \/ DeliverClusterEvent
  \/ Restart
  \/ \E c \in Clusters : ClusterChanges(c)
  \/ \E b \in Backends : BackendChanges(b)

Spec == Init /\ [][Next]_vars

\* Workers go on with what they started, the queue is first in first out (so no
\* name is passed over for ever), and watches deliver.  Nothing is assumed of
\* users, clusters or faults, which the bounds make finitely many.
Fairness ==
  /\ \A o \in Objects : /\ SF_vars(Get(o))
                        /\ WF_vars(Reconcile(o))
                        /\ WF_vars(DeliverEvent(o))
  /\ WF_vars(DeliverClusterEvent)

FairSpec == Spec /\ Fairness
--------------------------------------------------------------------------------
(***************************************************************************)
(* Properties.                                                             *)
(***************************************************************************)

\* The values the variables take.
TypeOK ==
  /\ api \in [Objects -> Resource]
  /\ cache \in [Objects -> Resource]
  /\ queue \subseteq Objects
  /\ pc \in [Objects -> Steps]
  /\ obj \in [Objects -> Resource]
  /\ broker \in [Objects -> Specs \cup {None}]
  /\ cluster \in Clusters
  /\ clusterCache \in Clusters
  /\ clusterEvent \in BOOLEAN
  /\ backend \in Backends
  /\ spent \in [edits : Nat, faults : Nat, shifts : Nat]
  /\ abandoned \in [Objects -> BOOLEAN]
  /\ lost \in [Objects -> BOOLEAN]
  /\ expired \in [Objects -> BOOLEAN]
  /\ dropped \in [Objects -> BOOLEAN]

\* Is the deletion of o held back until the operator has cleaned up?
Held(o) == api[o].exists /\ api[o].finalizer

\* What addFinalizerIfNeeded before DeclareFunc, and DeleteFunc before
\* removeFinalizer, are for: whatever the operator declared on the server belongs
\* to an object that Kubernetes will not drop behind the operator's back, unless
\* the finalizer was given up on purpose (retain, cluster gone or at zero).
NoOrphan ==
  \A o \in Objects : broker[o] # None => Held(o) \/ abandoned[o]

\* The stage of an object in the sense of ObjectLifecycle.
Stage(o) ==
  CASE ~api[o].exists                       -> "absent"
    [] api[o].exists /\ ~api[o].finalizer   -> "fresh"
    [] Held(o) /\ ~api[o].deleting          -> "held"
    [] Held(o) /\ api[o].deleting           -> "leaving"

stages == [o \in Objects |-> Stage(o)]

Lifecycle == INSTANCE ObjectLifecycle WITH stage <- stages, server <- broker

\* The reconcile loop keeps the promises of ObjectLifecycle: it declares only under
\* a finalizer, it takes away nothing from an object that is not being deleted,
\* and it lets go only of what it cleaned up or gave up.
KeepsLifecycle == Lifecycle!Spec

UpToDate(o) == /\ api[o].exists
               /\ api[o].cond = "Ready"
               /\ api[o].observed = api[o].gen

\* A user who reads Ready with observedGeneration = generation may rely on it: the
\* server holds the current spec, however stale the copy that the worker wrote the
\* status from may have been.
ReadyIsDeclared ==
  \A o \in Objects : UpToDate(o) => broker[o] = api[o].spec \/ lost[o]

\* No work, no event under way, for o.
Quiet(o) == /\ pc[o] = "idle"
            /\ o \notin queue
            /\ cache[o] = api[o]
            /\ ~clusterEvent

\* No wake-up is lost: an object that names the cluster and that nothing will
\* reconcile again is declared as its spec says (again, if the cluster was deleted
\* and made anew), or waits for an event of the cluster, which is at zero replicas
\* or does not allow the namespace.  An object under deletion can only wait for the
\* permission.
QuietIsSettled ==
  \A o \in Objects : Quiet(o) /\ api[o].exists /\ ~Reference[o].connectionSecret =>
     \/ Outcome(o, cluster) = "ResourceNotAllowed"
     \/ ~api[o].deleting /\ Outcome(o, cluster) = "ClusterScaledToZero"
     \/ ~api[o].deleting /\ (broker[o] = api[o].spec \/ expired[o])

\* status.observedGeneration is "the most recent successful generation observed":
\* it never falls behind during the life of an object, and moves only when the
\* server holds what the writer of the status declared.
ObservedIsDeclared ==
  [][\A o \in Objects :
       api[o].exists /\ api'[o].exists /\ api'[o].observed # api[o].observed =>
         /\ api'[o].observed > api[o].observed
         /\ api'[o].observed = api'[o].gen
         /\ broker[o] = api'[o].spec \/ lost[o]]_vars

Settled(o) ==
  /\ broker[o] = api[o].spec \/ expired[o]
  /\ UpToDate(o) \/ dropped[o]

\* A connectionSecret is not watched: the object that was told it is not allowed
\* to use one does not learn that now it is.
Unwatched(o) == /\ Reference[o].connectionSecret
                /\ api[o].cond = "ResourceNotAllowed" \/ dropped[o]

\* Once users, cluster and faults are done, every object whose reference resolves
\* and whose spec the server accepts is declared and says so, except where a
\* status write failed, which nothing repeats.
EventuallyDeclared ==
  \A o \in Objects :
    <>[](/\ api[o].exists
         /\ ~api[o].deleting
         /\ api[o].spec \notin Rejected
         /\ Outcome(o, cluster) = "none"
         /\ ~Unwatched(o)
         => Settled(o))

\* Every deletion ends, unless the reference is one the operator may not or
\* cannot resolve.
EventuallyDeleted ==
  \A o \in Objects :
    <>[](api[o].deleting /\ ~Unwatched(o)
           => Outcome(o, cluster) \in {"ResourceNotAllowed", "Other"})
--------------------------------------------------------------------------------
(***************************************************************************)
(* The inductive invariant behind the lifecycle: how the three copies of   *)
(* an object (API, cache, worker) are related by their resourceVersions.   *)
(***************************************************************************)

\* What the API server maintains, in every copy.
WellFormed(r) ==
  /\ r.exists => r.spec \in Specs
  /\ r.finalizer => r.exists
  /\ r.deleting => r.finalizer

\* Copy r is at most as new as copy q, and is q when it is as new.
NotNewer(r, q) == r.rv <= q.rv /\ (r.rv = q.rv => r = q)

\* The steps at which the worker's copy still is what the cache gave it.
ReadSteps == {"parse", "delete", "removeFinalizer", "release", "addFinalizer"}

CopiesOrdered(o) ==
  /\ WellFormed(api[o]) /\ WellFormed(cache[o])
  /\ NotNewer(cache[o], api[o])
  /\ pc[o] \in ReadSteps =>
       obj[o].exists /\ WellFormed(obj[o]) /\ NotNewer(obj[o], cache[o])

\* Copy r does not mislead about o: if it says "held", then o still is, and if it
\* says "under deletion", then no live object has been held since.
Truthful(r, o) ==
  /\ r.finalizer /\ ~r.deleting => Held(o)
  /\ r.deleting => ~Held(o) \/ api[o].deleting

WorkerInformed(o) ==
  /\ Truthful(cache[o], o)
  /\ pc[o] \in ReadSteps => Truthful(obj[o], o)
  /\ pc[o] \in {"delete", "removeFinalizer", "release"} => obj[o].deleting
  /\ pc[o] = "addFinalizer" => ~obj[o].deleting
  /\ pc[o] = "declare" => Held(o) /\ obj[o].spec \in Specs
  /\ pc[o] = "removeFinalizer" => broker[o] = None

\* Copies are ordered by version and no worker acts on a misleading one; with
\* NoOrphan and the types this is preserved by every step.
LifecycleInv ==
  /\ TypeOK
  /\ \A o \in Objects : CopiesOrdered(o) /\ WorkerInformed(o)
  /\ NoOrphan
================================================================================
