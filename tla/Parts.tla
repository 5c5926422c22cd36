--------------------------------- MODULE Parts ---------------------------------
(***************************************************************************)
(* The components that have no state in common with any other, side by     *)
(* side: a behaviour of this module is a behaviour of the one component    *)
(* that "part" names.  They share the variables below, named for the role  *)
(* they have in most of them; a variable that a component does not have is *)
(* Off throughout.                                                         *)
(***************************************************************************)
EXTENDS Integers

CONSTANTS
  Nil,                         \* a field, a key or a limit that is not set
  DesiredQueues,               \* the specs of a Queue
  QueueTypes,                  \* the types of a queue
  MaxMessages, MaxConsumers,   \* bounds: what a queue holds, and who uses it
  NoArguments, Arguments,      \* arguments of a Binding
  LimitKeys, Amounts,          \* the limits of a User or Vhost
  Usernames,                   \* names of Users
  UpstreamObjects, Width,      \* Federations, Shovels or SchemaReplications; bits of an int32
  Processes, Environments,     \* processes of the operator, what their environment may be
  MaxEdits, MaxFaults, MaxOutside  \* bounds, of each component

VARIABLES
  part,              \* the component
  spec, object,      \* what people want, and the object that says so
  source, seen,      \* what else the component reads, and its cache of it
  server,            \* what the server has
  pc, copy, found,   \* the workers: next call, copy of the object, what they found
  queued,            \* the work queue
  history, extra,    \* what some component has besides
  faults, outside    \* the bounds

vars == <<part, spec, object, source, seen, server, pc, copy, found, queued, history, extra,
          faults, outside>>

Off == "off"
--------------------------------------------------------------------------------
(***************************************************************************)
(* The components.                                                         *)
(***************************************************************************)

Declaration == INSTANCE QueueDeclaration WITH
  Specs <- DesiredQueues, MaxEdits <- MaxEdits.declaration,
  MaxFaults <- MaxFaults.declaration, MaxOutside <- MaxOutside.declaration,
  webhooks <- spec, cache <- seen, queue <- server, read <- copy, edits <- extra

Deletion == INSTANCE QueueDeletion WITH
  Types <- QueueTypes, MaxFaults <- MaxFaults.deletion, MaxOutside <- MaxOutside.deletion,
  queue <- server, destroyed <- history, late <- extra

Unbinding == INSTANCE BindingDeletion WITH
  Empty <- NoArguments, MaxFaults <- MaxFaults.unbinding, MaxOutside <- MaxOutside.unbinding,
  vhost <- source, bindings <- server, key <- copy, removed <- history

SetLimits == INSTANCE Limits WITH
  Keys <- LimitKeys, Values <- Amounts, Unset <- Nil,
  MaxEdits <- MaxEdits.limits, MaxFaults <- MaxFaults.limits, MaxOutside <- MaxOutside.limits,
  limits <- server, new <- copy, existing <- found, touched <- history, spent <- extra

Granting == INSTANCE Permissions WITH
  Names <- Usernames, MaxFaults <- MaxFaults.granting, MaxOutside <- MaxOutside.granting,
  byReference <- spec, user <- source, userCache <- seen, permission <- object, read <- copy,
  username <- found, accounts <- extra, grants <- server, left <- history

Upstream == INSTANCE Upstreams WITH
  Objects <- UpstreamObjects, MaxFaults <- MaxFaults.upstream, MaxOutside <- MaxOutside.upstream,
  kind <- seen, webhooks <- spec, retain <- extra, store <- source, read <- copy,
  definition <- found, parameters <- server

Process == INSTANCE StartUp WITH
  MaxFaults <- MaxFaults.process,
  env <- spec, registered <- object, holder <- server, age <- source, since <- seen

\* What a Deployment can be: durations are whole seconds, no process is called nobody.
ASSUME DeploymentAssumption ==
  /\ Process!Nobody \notin Processes
  /\ \A e \in Environments :
       /\ e.leaderElect \in BOOLEAN
       /\ {e.leaseDuration, e.renewDeadline, e.retryPeriod} \subseteq Nat
--------------------------------------------------------------------------------
Init ==
  \/ /\ part = "declaration" /\ Declaration!Init
     /\ source = Off /\ found = Off /\ history = Off
  \/ /\ part = "deletion" /\ Deletion!Init
     /\ object = Off /\ source = Off /\ seen = Off /\ copy = Off /\ found = Off /\ queued = Off
  \/ /\ part = "unbinding" /\ Unbinding!Init
     /\ object = Off /\ seen = Off /\ found = Off /\ queued = Off /\ extra = Off
  \/ /\ part = "limits" /\ SetLimits!Init
     /\ object = Off /\ source = Off /\ seen = Off /\ queued = Off /\ faults = Off /\ outside = Off
  \/ /\ part = "granting" /\ Granting!Init
  \/ /\ part = "upstream" /\ Upstream!Init
     /\ queued = Off /\ history = Off
  \/ /\ part = "process" /\ Process!Init
     /\ copy = Off /\ found = Off /\ queued = Off /\ history = Off /\ extra = Off /\ outside = Off

\* A step of the component.
OfDeclaration(A) == part = "declaration" /\ A /\ UNCHANGED <<part, source, found, history>>
OfDeletion(A) ==
  part = "deletion" /\ A /\ UNCHANGED <<part, object, source, seen, copy, found, queued>>
OfUnbinding(A) == part = "unbinding" /\ A /\ UNCHANGED <<part, object, seen, found, queued, extra>>
OfLimits(A) ==
  part = "limits" /\ A /\ UNCHANGED <<part, object, source, seen, queued, faults, outside>>
OfGranting(A) == part = "granting" /\ A /\ UNCHANGED part
OfUpstream(A) == part = "upstream" /\ A /\ UNCHANGED <<part, queued, history>>
OfProcess(A) ==
  part = "process" /\ A /\ UNCHANGED <<part, copy, found, queued, history, extra, outside>>

Next ==
  \/ OfDeclaration(Declaration!Next)
  \/ OfDeletion(Deletion!Next)
  \/ OfUnbinding(Unbinding!Next)
  \/ OfLimits(SetLimits!Next)
  \/ OfGranting(Granting!Next)
  \/ OfUpstream(Upstream!Next)
  \/ OfProcess(Process!Next)

Spec == Init /\ [][Next]_vars

\* The fairness of each component, which its module explains.
FairSpec ==
  /\ Spec
  /\ WF_vars(OfDeclaration(Declaration!Sync))
  /\ WF_vars(OfDeclaration(Declaration!Reconcile))
  /\ WF_vars(OfDeclaration(Declaration!Resync))
  /\ WF_vars(OfDeletion(Deletion!DeleteFunc))
  /\ WF_vars(OfUnbinding(Unbinding!DeleteFunc))
  /\ WF_vars(OfGranting(Granting!Reconcile))
  /\ WF_vars(OfGranting(Granting!Resync))
  /\ WF_vars(OfGranting(Granting!SyncUser))
  /\ WF_vars(OfGranting(Granting!Collect))
  /\ WF_vars(OfGranting(Granting!UserReconciler))
  /\ \A o \in UpstreamObjects : WF_vars(OfUpstream(Upstream!Reconcile(o)))
  /\ WF_vars(OfProcess(Process!Tick))
  /\ \A p \in Processes : WF_vars(OfProcess(Process!Main(p)))
--------------------------------------------------------------------------------
(***************************************************************************)
(* The properties of the components; their modules say more about them.    *)
(***************************************************************************)

\* With webhooks, the server refuses a declaration of a queue only because of somebody
\* else's queue, or one that an earlier Queue retained: Default, ValidateCreate and
\* ValidateUpdate of Queue see to it.
NeverRefusesItself == part = "declaration" => Declaration!NeverRefusesItself

\* DeleteFunc of Queue respects deletionPolicy, deleteIfEmpty and deleteIfUnused, but for
\* what comes to a quorum queue between its look and its DELETE.
DestroysOnlyLatecomers == part = "deletion" => Deletion!DestroysOnlyLatecomers

\* DeleteFunc of Binding never removes a binding that is not its own, except that routing
\* key %7E is taken for ~.
RemovesOnlyItsOwn == part = "unbinding" => Unbinding!RemovesOnlyItsOwn

\* When DeleteFunc of Binding returns nil, the binding is not there, with the same
\* exception.
UnboundWhenDone == [][part = "unbinding" => Unbinding!DoneMeansGone]_vars

\* When the limits of a User or Vhost are declared, they are those of the spec.
LimitsAreSpec == [][part = "limits" => SetLimits!LimitsAreSpec]_vars

\* No grant outlives its Permission or TopicPermission, unless the User changed its name.
NoGrantSurvives == part = "granting" => Granting!NoGrantSurvives

\* Deleted Federations, Shovels and SchemaReplications leave no parameter behind.
NoParameterSurvives == part = "upstream" => Upstream!NoParameterSurvives

\* Two processes never reconcile at the same time, with durations that allow for it.
OneActiveManager == part = "process" => Process!OneActiveManager

\* A process that reconciles has set up everything.
ActiveIsComplete == part = "process" => Process!ActiveIsComplete

\* A deletion does not go on for ever: faults, objects that others removed first, Users
\* and Secrets that are gone included.  What it may wait for, its module says.
DeletionEnds ==
  []<>CASE part = "declaration" -> Declaration!NotDeleting
        [] part = "deletion"    -> Deletion!NotDeleting
        [] part = "unbinding"   -> Unbinding!NotDeleting
        [] part = "granting"    -> Granting!NotDeleting
        [] part = "upstream"    -> Upstream!NotDeleting
        [] OTHER                -> TRUE

\* With webhooks, a Queue is declared as its spec says in the end, unless the queue is
\* somebody else's, an earlier Queue retained it with other settings, or the arguments are
\* nested.
EventuallyDeclared == []<>(part = "declaration" => Declaration!Declared)

\* A Permission whose User is on the server is granted in the end, although nothing
\* watches the User.
EventuallyGranted == []<>(part = "granting" => Granting!Granted)

\* A Permission that was granted does not outlive the User that it refers to, whose deletion
\* the garbage collector hears of through the owner that DeclareFunc sets.
FollowsOwner == []<>(part = "granting" => Granting!FollowedOwner)

\* The parameters of federation upstreams, shovels and schema replication follow the
\* specs and the credentials, which nothing watches.
EventuallyCurrent == []<>(part = "upstream" => Upstream!Current)

\* Crashes, lost leases and failed set-ups end in a process that reconciles.
EventuallyActive == []<>(part = "process" => Process!SomeoneActive)
================================================================================
