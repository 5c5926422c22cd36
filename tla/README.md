# TLA+ specifications of the messaging topology operator

The operator turns Kubernetes objects (queues, exchanges, bindings, users, ...)
into objects on a RabbitMQ server. These modules model how it does that: against
caches that lag, calls that fail or lose their answers, crashes, clusters that
come and go, and people and clients who change things at the same time. TLC
checks them on small instances; TLAPS proves the main results for every instance.

    tlc -config ReconcilerSafety.cfg MCTopologyReconciler
    tlapm TopologyReconcilerProofs.tla

`PROJECT.json` lists, per definition, the source lines it stands for; per hazard of
the code, the line where it bites and the properties that cover it; and per
property, a mutation of the model that breaks it.

## The system

| Part | State | Interacts with | What makes it hard | Modules |
|---|---|---|---|---|
| Reconcile loop (`topology_controller.go`, `utils.go`), shared by twelve kinds | object, finalizer, status in the API; work queue | all others | stale copies, conflicts, lost answers, crashes between two calls | TopologyReconciler, ObjectLifecycle |
| Cluster reference (`rabbitmqclient/`) | none | RabbitmqCluster, Secrets, Service, Vault | the kind of error decides between retry, waiting and giving up | ClusterReference |
| Webhooks (`internal/webhook`) | none | controllers, through the specs they admit and the writes they refuse | immutable fields have to cover the address used for deletion | Admission; also QueueDeclaration, Upstreams |
| Queue controller | queue on the server | webhooks, other clients | settings cannot change; look, then delete | QueueDeclaration, QueueDeletion |
| Binding controller | binding without a name | other clients | found again by its arguments | BindingDeletion |
| User and Vhost controllers | Secrets, status, limits | caches, server | the name to delete is in the status; several requests | UserCredentials, Limits |
| Permission controllers | grants | User objects, garbage collector | the User is cached and not watched | Permissions |
| Federation, shovel, schema replication controllers | parameters | Secrets, Vault | credentials are not watched; one parameter is shared | Upstreams |
| SuperStream (`super_stream_controller.go`, `managedresource/`) | 2n + 1 owned objects | the other controllers and webhooks | objects of an earlier SuperStream of the name, partial failure | SuperStream |
| Vault client (`vault_reader.go`) | client, token | Vault, all workers | made once, renewed by a goroutine | VaultClient |
| Start-up (`cmd/main.go`) | options, lease | a second process | thirty calls that may fail, leader election | StartUp |
| API types (`api/`) | | everything that holds a copy | what a DeepCopy shares | ApiTypes |
| Generated clients, informers, listers (`pkg/generated`) | indexes, factory | API server, the programs that use them | several goroutines start one factory | Clientset, SharedInformers |

## The modules

**TopologyReconciler** (with **ClusterReference**, instances in
**MCTopologyReconciler**) is the core. `api`, `cache` and `obj` are the three
copies of an object: in the API, in the informer cache, in the hands of a worker.
`queue` and `pc` are work queue and workers, `broker` is the server, `cluster`,
`clusterCache` and `backend` are what ParseReference reads. Each call that leaves
the process is an action: `Get`, `Parse`, `Delete`, `RemoveFinalizer`,
`AddFinalizer`, `Declare`, `UpdateStatus`. A call is answered, fails, or takes
effect and loses its answer. `Restart` is a crash; `DeliverEvent` and
`DeliverClusterEvent` are the watches; users create, change and delete. DeclareFunc
and DeleteFunc are one call each here, as for most kinds; the kinds for which that is
not so have modules of their own. `ParseReference` is an operator on a record of
what it reads, and returns the error on which the loop branches. History variables
record what the properties have to excuse: `abandoned` (finalizer given up without
a delete on the server, as the code intends), `lost` and `expired` (the server lost the
object), `dropped` (a status write failed for good).

**ObjectLifecycle** is the abstract specification of the same: an object is held by
a finalizer before anything is declared for it, nothing is taken from it while it
is held, and it is let go only when cleaned up or given up. `KeepsLifecycle` states
that TopologyReconciler implements it, and another one that Federations and Shovels do,
as Upstreams models them. SchemaReplications do not: each deletes the one parameter
that they share.

**Admission** has the create and update rules of the twelve webhooks, next to the
fields from which each controller makes the address on the server. Specs map fields
to values; an update changes at most two fields at once.

**QueueDeclaration** composes the three webhooks of Queue (`Default`,
`ValidateCreate`, `ValidateUpdate`) with its reconciler, whose own writes go through
them, and with a server that refuses to change a queue (`Accepts`).
`GenerateQueueSettings` is the conversion of the spec. With deletionPolicy retain,
`DeleteFunc` leaves the queue on the server; its `origin` is then "retained", and a later
Queue of the name takes it over if the settings agree and is refused if not. Everything is
also there with webhooks off.

**QueueDeletion** and **BindingDeletion** are DeleteFunc of these two kinds, call
by call, among other clients of the server. BindingDeletion has the routing keys that
the conversion to a properties key treats differently: empty, ordinary, `~`, and `%7E`,
which GeneratePropertiesKey does not escape and the server does. **Limits** is how limits of vhosts and
users are brought to the spec; a request for several limits may be applied in part.

**UserCredentials** is the User controller: the generated and the imported Secret,
each with a cache that shows only labelled Secrets, the status that names the
username, PutUser, and DeleteFunc, which goes by that status.

**Permissions** is DeclareFunc and DeleteFunc of Permission and TopicPermission, with
the User they refer to: in a cache, renamed, deleted and made again by people, and
the owner that takes the Permission with it.

**Upstreams** is the same for Federation, Shovel and SchemaReplication: the Secret or
Vault path is a `store` that people write, `definition` is what was made of it. The
fields that are converted (a delay that is a pointer, an `int` sent as `int32`, raw
JSON, endpoints from two places) keep their conversions; the others are dropped.

**SuperStream** (instances in **MCSuperStream**) is the SuperStream controller with
its webhook and the garbage collector. Instead of resourceVersions it records who
has the latest version (`latest`, `behind`), which is all that versions are compared
for. `Sizes` are the numbers of partitions in specs; no minimum is declared and the
webhook checks none, so zero and negative ones are among them. Writes of children fail, or
take effect and lose their answer. So do those of the status, whose errors Reconcile only
logs (`WriteStatus`); the history variable `dropped` has the report that the last Reconcile
could not write.

**VaultClient** has the `sync.Once` that all workers meet, the goroutine `renewToken`
with its channel, and the checks on what is read from Vault. Tokens are live or dead,
a secret is one of the shapes that the code tells apart.

**StartUp** reads the environment, makes the set-up calls of main one by one, each of
which may fail, and then takes part in leader election (external, client-go) with
clocks that tick together.

**ApiTypes** describes each type by the paths of its pointers, slices and maps, and
each generated DeepCopy by the paths at which it allocates. **Clientset** has the
requests of the generated clients, what each informer lists, watches and expects, and
what each lister asserts. **SharedInformers** puts both to use: programs share a
factory, read through listers, edit copies and write them back. What a copy shares
with the index is a path of the type at which its DeepCopy does not allocate; an edit
at such a path soils the index.

How they compose: TopologyReconciler calls DeclareFunc and DeleteFunc, whose inside
the modules of the kinds have; these repeat its calls until they succeed,
as TopologyReconciler does. Admission is what lets TopologyReconciler treat the
address of an object as fixed. Permissions takes from UserCredentials that a User gets
its name in its status some time; Upstreams takes from VaultClient that a read of Vault
succeeds, fails or is incomplete.

**Parts** (instances in **MCParts**) has seven modules that have no state in common, side
by side: QueueDeclaration, QueueDeletion, BindingDeletion, Limits, Permissions, Upstreams
and StartUp. A behaviour of Parts is one of the module that `part` names, whose
variables are renamed to a common set. Its properties are those of the modules.

## The runs

| Run | Shows | States |
|---|---|---|
| reconciler_safety | no orphans, truthful status, no lost wake-up, lifecycle: calls fail or lose their answers, the operator crashes, the cluster goes to zero, away, back, or forbids | 1.1 million |
| reconciler_live | every object gets declared, every deletion ends: two objects on one worker, one with a connectionSecret, clusters and Secrets that forbid, specs that are rejected | 548 thousand |
| admission | deleted is what was declared; rules of creation keep holding; finalizers can go | 122 thousand |
| user_credentials | users on the server can be deleted, rotations arrive, data is kept, credentials get to the server | 341 thousand |
| super_stream | children can always be brought up to date, with none to two partitions | 1.8 million |
| super_stream_live | no child stays missing, and SuperStreams get completed and say so: created with a negative number of partitions and updated, deleted and created anew, a cluster that is missing or forbids for a while, writes that fail | 832 thousand |
| vault_client | no worker reads through a client that is not there, renewal lives as long as the client, reads succeed again after outages and expired tokens | 436 thousand |
| shared_informers | for each kind: the index is what the API server had at one moment and has no caller's edits, one informer fills it and is waited for, every reader catches up | 568 thousand |
| parts | see below | 603 thousand |

What parts shows, by module:

| Module | Properties |
|---|---|
| QueueDeclaration | with webhooks, the server never refuses a declaration because of an earlier one of the operator, but for a queue that was retained (`NeverRefusesItself`); Queues get declared as the spec says (`EventuallyDeclared`) |
| QueueDeletion | classic queues go only if allowed, with quorum queues only latecomers are destroyed (`DestroysOnlyLatecomers`) |
| BindingDeletion | only the right binding is removed (`RemovesOnlyItsOwn`), and it is gone in the end (`UnboundWhenDone`) |
| Limits | limits become those of the spec (`LimitsAreSpec`) |
| Permissions | no grant outlives its object (`NoGrantSurvives`), grants arrive although nothing watches the User (`EventuallyGranted`), a granted object is owned by its User, and goes when that User is deleted (`FollowsOwner`) |
| Upstreams | no parameter outlives its objects (`NoParameterSurvives`); parameters follow specs and credentials (`EventuallyCurrent`) |
| StartUp | one process reconciles at a time (`OneActiveManager`), with everything set up (`ActiveIsComplete`), and there is one in the end (`EventuallyActive`) |
| all with deletions | they end (`DeletionEnds`) |

Three runs show where the code differs from what its documentation or comments say;
each is a finding in `PROJECT.json`:

* queue_quorum_window: a message published between GetQueue and DeleteQueue is
  destroyed with a quorum queue that has deleteIfEmpty;
* queue_quorum_gone: deletion of such a queue fails when the queue is gone, also when
  it is the operator's own DELETE, of which the answer was lost, that removed it;
* super_stream_observed: observedGeneration moves on failure too.

Some properties are restricted, because the code does not promise more:

* deletion of a binding with arguments fails as long as its vhost is gone:
  `DeletionEnds` is about a vhost that stays;
* a Secret that another User controls does not wake the User that imports it:
  `QuietIsSynced` is checked with `ImportOwners = {0}`, and does not hold with `Other`
  added;
* a queue that an earlier Queue of the name retained, with other settings, is not replaced,
  and the declaration fails until somebody deletes it, as for a queue of somebody else:
  `NeverRefusesItself` and `EventuallyDeclared` except both;
* a Binding without arguments and with routing key `%7E` removes the binding with routing
  key `~` and leaves its own: `RemovesOnlyItsOwn` says that it is this one that goes,
  `UnboundWhenDone` leaves such Bindings out;
* a status write of a SuperStream that fails is not tried again: `EventuallyComplete` excepts
  the case that it was the very last report (`dropped`), and `QuietIsComplete` counts a
  SuperStream as denied also if the report of it failed;
* updates of a Queue with nested arguments are refused, because `maps.Equal` panics on
  them; that includes the one that adds the finalizer: `EventuallyDeclared` of
  QueueDeclaration leaves them out;
* a Federation, Shovel or SchemaReplication whose Secret is gone cannot be updated, not
  even to remove the finalizer: `FinalizerCanGo` and `DeletionEnds` wait for the Secret;
* a User that gets another name leaves the old grant behind: `NoGrantSurvives` exempts
  the names it had;
* main does not check the durations of the election, and client-go lets some pass with
  which a leader stops too late: `OneActiveManager` is stated for retry period + renew
  deadline < lease duration;
* if the first login to Vault fails, the process has no client for the rest of its
  life: `EventuallyReads` is about processes that have one.

### Bounds

The constants `Max...` bound what comes from outside: edits by people, faults,
changes of clusters, steps of other clients. Nothing of the operator is bounded; only SharedInformers, where
the API's log of writes has a limit (`MaxWrites`), counts the programs' writes too. The hard
cases take few of them: an object deleted and made again while a worker holds
the old copy is three edits; a failed call, a lost answer or a crash is one fault; a
cluster that goes and comes back is two shifts; a User renamed, deleted and made again is
three steps of people; a token that expires during an outage is one of each.
(reconciler_safety passes with two faults and one shift as well.) One object is enough for
most properties, as objects meet only in the work queue and in the number of workers,
which reconciler_live has; Upstreams has two, as two are enough to share a parameter. Two
workers, programs or processes are enough for each race on a `sync.Once`, a factory or a
lease. `Width` stands for 32: what overflows in the model is the same value at another
power of two. A Secret is imported or generated, so UserCredentials needs two. A partition
of super_stream and super_stream_live is a queue only: queue and binding are treated alike,
and super_stream_observed has both. super_stream_live has three edits, enough for a
SuperStream that is deleted and created anew or updated, and either -1 or 1 partitions: with
more the children differ in their keys, which are the subject of super_stream. There the two
keys are symmetric, as keys are only compared with each other. Deadlock is not checked, since a system
that has nothing to do is at rest.

### Fairness

Weak fairness of a worker's next call (goroutines go on, and controller-runtime repeats
what returned an error), of the watches (informers deliver, reflectors list and watch
again), and of serving the queue; strong fairness of `Get` per object in
TopologyReconciler, because the work queue of controller-runtime is first in, first
out, so that no name is passed over for ever. Besides:

* QueueDeclaration, Permissions, Upstreams: `Resync`, or a worker that may always start
  again. The cache hands out all objects every SyncPeriod, ten hours unless set.
  TopologyReconciler, UserCredentials and SuperStream do without it;
* Permissions: the garbage collector and the User's own reconciler;
* VaultClient: the goroutine of the client (`Renewer`), and leases that run out in time
  (`LeaseRuns`);
* StartUp: time passes (`Tick`), and a process that exited is restarted (`Main`), as the
  Deployment does.

Nothing is assumed of people, clusters and faults; the bounds make them stop, and
liveness is stated for what holds from then on.

## The proofs

Every safety property that a passing run checks is also a theorem, for any sets of
objects, workers, processes or specs and any bounds. The inductive invariants were
checked by TLC first.

**TopologyReconcilerProofs**, from `ConstantsAssumption` (the constants have the types
that the code gives them):

* `TypeCorrect`: `Spec => []TypeOK`;
* `LifecycleInvariant`: `Spec => []LifecycleInv`, the inductive invariant;
* `NoOrphans`: `Spec => []NoOrphan`.

`NoOrphan` alone is not inductive: it has to be known that a worker about to declare
works for an object that is still held, and that one about to remove the finalizer
has cleaned the server. Both depend on what a stale copy still tells.
`CopiesOrdered` says that the cache is never newer than the API nor the worker's copy
newer than the cache, and that equal versions mean equal copies; this makes
optimistic locking work. `Truthful` says what an old copy is good for: if it says
"held", the object is still held, because only the operator removes the finalizer and
only from an object under deletion; if it says "under deletion", no live object has
been held since, because a worker that would hold a new one reads a newer copy.
The proof has one lemma per action.

Its last part says what each step does to its object and to the others, for the two
modules that extend it.

**LifecycleProofs** proves:

* `RefinesLifecycle`, `Spec => KeepsLifecycle`: with the invariant, each step of the loop
  is a step of ObjectLifecycle or a stutter.
* `QuietMeansSettled` (`[]QuietIsSettled`). `WakeInv` says that a worker ends without an
  error only if there is nothing left to do or something will start it again: its name
  in the queue, an event of the object or of the cluster under way. The two errors
  after which it waits for the cluster depend on what is watched only
  (`WaitIsWatched`), which is where `BackendsAssumption` enters (reads are found, not
  found or failed) and why objects with a connectionSecret are left out, as in the
  property.

**StatusProofs**: `ReadyMeansDeclared` (`[]ReadyIsDeclared`) and `ObservedMeansDeclared`
(`ObservedIsDeclared`). `StatusInv` says that a status that is up to date is true and
that no worker under way is about to make it false; for that, a worker's copy of the
current version has to agree with the object on everything the status speaks of
(`Match`), and only success may be reported as such (`Report`).

**PartsProofs** and **ReferencePartsProofs** prove the properties of each of the seven
modules, as Parts instantiates it, for the module's own specification; then those of the
composition, whose steps are steps of the part that `part` names (`PartStays` and a
lemma per part).

`UpstreamsKeepLifecycle` is a refinement like `RefinesLifecycle`, with a lemma per action:
AddFinalizer is Hold, Declare and Delete are Declare and Withdraw when the call reaches
the server, RemoveFinalizer is Release, a deletion by people is Mark or Drop, and the
rest is not seen.

| Module | Theorems, and those about Parts | Invariant |
|---|---|---|
| Limits | `LimitsAreDeclared`, `LimitsStay`; `DeclaredLimitsAreSpec` | `LimitsInv`: where nobody interfered, the server has what the worker read |
| StartUp | `OneActive`, `ActiveComplete`; `OneManagerActive`, `ActiveManagersComplete`; from `DeploymentAssumption` (durations are natural numbers, `Nobody` is no process) | `LeaseInv`: the active process holds the lease and believes it to be at least as old as it is. `SetUpInv`: what is registered is the part of the list that has been worked off |
| QueueDeclaration | `DeclarationsAgree`, `QueuesAreOwned`, `QueuesTakenWhenDeleted`; `QueuesNeverRefused` | `DeclarationInv`: `Lag` orders the copies as above; `Settled`: a copy with the finalizer that is not being deleted is of the Queue that exists now, and this Queue, the copies and the queue on the server have the same settings. `OwnedInv` says the same without webhooks, where settings may differ: what a copy tells the worker to do is right for a Queue that has the finalizer; `Spared`: a worker that removes the finalizer while the queue is there has a copy that says retain. `QueuesAreOwned` excepts the queue of a Queue whose last spec says retain |
| QueueDeletion | `OnlyLatecomers`; `QueuesKeepTheirMessages` | `DeletionInv`: what a queue holds after the worker looked came late, and the operator deletes it once |
| BindingDeletion | `OwnBindingOnly`, `UnboundAtEnd`; `BindingsAreTold`, `BindingsAreGone` | `UnbindingInv`: the properties key about to be deleted is that of the spec's binding, generated or found, or that of the binding it is mistaken for (`Addressed`) |
| Upstreams | `NothingLeft`, `DeletedForDeleted`, `UpstreamsKeepLifecycle`; `NoParametersLeft` | `UpstreamInv`: a parameter on the server has a keeper (`Kept`), an object of its own with the finalizer whose worker has yet to delete it; `Steady`: what a worker knows of its object from its copy still holds. `LifecycleInv` adds `Versions`: a copy is the object or older, and nothing is on the server before the finalizer is on the object |
| Permissions | `NoGrantLeft`; `NoGrantsLeft` | `PermissionsInv`: a granted name is one the User left, or the one in the cache and in the User (`Known`), so that DeleteFunc finds it |

**UserCredentialsProofs**, from `SourcesAssumption` and `OwnersAssumption` (the values are
those the module tells apart):

* `ServerUserIsNamed`: `Spec => []StatusNamesServerUser`. `NamesInv` follows the name
  from the Secret to the status and only then to the server, and says which names a
  copy may still have.
* `CredentialsKept`: `Spec => KeepsCredentials`.
* `QuietSynced`: `Spec => []QuietIsSynced` if no other User owns the import Secret.
  `SyncInv` adds that a worker whose User is not in the queue has what the caches have,
  and, when it is done, that the server has it too; a Secret that changes puts the User
  into the queue through its owner or as the import Secret.

**SharedInformersProofs**, for a finite set of callers: `RunsOnce` (`[]RunOnce`),
`ReadsAreListed` (`[]ReadsListed`), `IndexesAreServed` (`[]IndexIsServed`) and `NoUpdateIsLost` (`NoLostUpdate`). There is one informer, whoever
asks first; `Ahead` says what the factory has done by the time a caller has got so far.
`ServedInv` says that what is in an index was served for its resource and
namespace; `SnapshotInv` that the API server has what was written last, and an index
what had been written when its reflector got to where it is; `VersionInv` that the
version of an object is the number of the write it came from, so that an update that
the server takes is of the latest. They rest on lemmas about the thirteen given types:
each DeepCopy allocates at every path of its type (`CopiesAreDeep`), and the client,
informer and lister of a kind agree on its resource and its type (`ClientsMatch`, among
others).

**WebhookAndVaultProofs** is about three components without variables in common, hence the
names `AdmissionSpec` and `VaultSpec` next to the `Spec` of SuperStream.

* Admission: `DeletedAsDeclared` (`[]DeletesWhatItDeclared`), `DeclaredSpecsAreValid`
  (`[]DeclaresValidSpecs`), `FinalizersCanGo` (`[]FinalizerCanGo`). `OneAddress`: no update
  that is admitted moves the address, kind by kind. `Admitted`: no update breaks a rule
  of creation that it does not check again.
* SuperStream: `ChildrenKeepKeys` (`[]ChildrenKeepTheirKeys`), `QuietMeansComplete`
  (`[]QuietIsComplete`) and `ScaleDownNeverSeen` (`[]NeverTakenForShrunk`: the branch against
  scaling down is only for negative numbers of partitions), from `BoundsAssumption`
  (`MaxPartitions` bounds `Sizes`, which may be negative; there is a kind of part).
  `StreamInv`: a copy that is not the latest is of an earlier SuperStream or of one that
  has had keys added since (`Follows`), so that a child made from it has the key it
  should have (`Fits`); and unless something makes Reconcile run again (`Pending`), the
  children it has passed are as it made them (`Built`). After a status write that failed the
  worker's copy has a status that the SuperStream has not, so that copies of one version
  agree in all but that (`SameObject`).
* VaultClient: `ClientIsThere` (`[]NeverNilClient`) and `RenewalLives` (`[]RenewalGoesOn`).
  `Phases` lists the seven phases of the process: what the once, the client, the
  channel and the goroutine are together.

Only proved, in no run: `LimitsNeverLifted`, `DeletesOnDeletion`, `KeepsLifecycle` of
Upstreams, `QueueIsOwned`, `TakenWhenDeleted`, `NoLostUpdate` and `NeverTakenForShrunk`. Only model-checked:
liveness, since the prover has no ENABLED and no fairness, and the three runs that show a
difference.

## Not modelled

* The generated fakes of the clients: test doubles that only tests link.
* The translation of settings of exchanges, policies and operator policies, field by
  field without a choice; the contents of arguments, policies, URIs, certificates and
  regular expressions; tags.
* That ParseReference reads the cluster, its Secret and its Service at different
  moments: it is one step. Making the HTTP client from the result is a step that may fail.
* Options of main for TLS, metrics and profiling; logging and events.
* Timestamps of conditions.
* `DeleteCollection` of the generated clients, which nothing in the operator uses.
* Requests of a crashed process that reach the server after its successor started.
* Finalizers that people remove by hand.
* Two objects that describe the same thing on the server, but for SchemaReplications.
* Rate limits and the ten-second delay of a retry: a retry happens some time.
* Foreground deletion of a SuperStream.
* Clocks that run at different rates, in the leader election.
