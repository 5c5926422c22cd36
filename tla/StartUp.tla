-------------------------------- MODULE StartUp --------------------------------
(***************************************************************************)
(* main: a process of the operator reads its environment, sets up its      *)
(* controllers and webhooks one after the other, and exits at the first    *)
(* error; then it waits until it is the leader and reconciles until it     *)
(* loses the lease.  The Deployment has one replica, but a rollout, an     *)
(* eviction or a node that is cut off makes two processes run at a time.   *)
(*                                                                         *)
(* Leader election (client-go) is external: a lease is renewed every       *)
(* RetryPeriod; a leader that did not manage for RenewDeadline after that  *)
(* stops, others take the lease when it is LeaseDuration old.  Times are   *)
(* seconds; all clocks run at the same rate.                               *)
(***************************************************************************)
EXTENDS Integers, Sequences

CONSTANTS
  Processes,
  Environments,   \* what the environment of the Deployment may be
  MaxFaults       \* bound: set-up calls that fail, and crashes

VARIABLES
  env,            \* the environment, of all processes
  pc,             \* what a process does next
  registered,     \* the controllers and webhooks it has set up, in order
  holder, age,    \* the lease: whose, and how long ago renewed
  since,          \* how long ago a leader knows to have renewed it
  faults

lease == <<holder, age, since>>
vars == <<env, pc, registered, lease, faults>>

Nobody == "nobody"
--------------------------------------------------------------------------------
(***************************************************************************)
(* The environment.                                                        *)
(***************************************************************************)

Unset == "unset"
Bad == "bad"

\* getEnvInDuration: a variable that is not set counts as 0, and 0 leaves the default
\* of the library.
GetEnvInDuration(value, default) == IF value = 0 THEN default ELSE value

\* getOperatorNamespace: the variable, else the file of the service account.
GetOperatorNamespace(e) == e.operatorNamespace # Bad

\* DefaultNamespaces of the cache: the elements of OPERATOR_SCOPE_NAMESPACE; without
\* any, or with an empty one, all namespaces are watched.
WatchesAll(e) == e.scope = <<>> \/ \E i \in DOMAIN e.scope : e.scope[i] = ""

\* sanitizeClusterDomainInput: one leading dot; what is no domain name is dropped.
SanitizeClusterDomainInput(domain) ==
  CASE domain = "invalid" -> ""
    [] domain = "example.org" -> ".example.org"
    [] OTHER -> domain

\* What main makes of the environment.
ManagerOptions(e) ==
  [all           |-> WatchesAll(e),
   namespaces    |-> {e.scope[i] : i \in DOMAIN e.scope},
   clusterDomain |-> SanitizeClusterDomainInput(e.domain),
   usePlainHTTP  |-> e.plainHTTP = "true",
   syncPeriod    |-> e.syncPeriod,
   workers       |-> IF e.maxConcurrentReconciles > 0 THEN e.maxConcurrentReconciles ELSE 1,
   leaseDuration |-> GetEnvInDuration(e.leaseDuration, 15),
   renewDeadline |-> GetEnvInDuration(e.renewDeadline, 10),
   retryPeriod   |-> GetEnvInDuration(e.retryPeriod, 2)]

\* Values that main exits on; numbers stands for the ones that getEnvInDuration and
\* getIntEnv parse.  A bad ENABLE_DEBUG_PPROF is ignored.
Parses(e) ==
  /\ GetOperatorNamespace(e)
  /\ Bad \notin {e.plainHTTP, e.syncPeriod, e.numbers}

\* What client-go demands of the durations (JitterFactor is 1.2).
ElectionConfig(o) ==
  /\ o.leaseDuration > o.renewDeadline
  /\ 10 * o.renewDeadline > 12 * o.retryPeriod
  /\ o.retryPeriod > 0
--------------------------------------------------------------------------------
(***************************************************************************)
(* The set-up.                                                             *)
(***************************************************************************)

TopologyControllers ==
  <<"Queue", "Exchange", "Binding", "User", "Vhost", "Policy", "OperatorPolicy">>

AccessControllers ==
  <<"Permission", "SchemaReplication", "Federation", "Shovel", "TopicPermission",
    "SuperStream">>

Controllers == TopologyControllers \o AccessControllers

Webhooks ==
  <<"BindingWebhook", "ExchangeWebhook", "FederationWebhook", "PermissionWebhook",
    "PolicyWebhook", "QueueWebhook", "QueueDefaulter", "SchemaReplicationWebhook",
    "VhostWebhook", "SuperStreamWebhook", "ShovelWebhook", "UserWebhook",
    "TopicPermissionWebhook", "OperatorPolicyWebhook">>

\* All set-up calls of main in their order.
SetUps(e) ==
  Controllers \o (IF e.enableWebhooks = "false" THEN <<>> ELSE Webhooks) \o <<"healthz", "readyz">>

Init ==
  /\ env \in Environments
  /\ pc = [p \in Processes |-> "environment"]
  /\ registered = [p \in Processes |-> <<>>]
  /\ holder = Nobody
  /\ age = 0
  /\ since = [p \in Processes |-> 0]
  /\ faults = 0

Fault == faults < MaxFaults /\ faults' = faults + 1

\* os.Exit: what the process held is gone; its lease stays until it is old.
Exit(p) ==
  /\ pc' = [pc EXCEPT ![p] = "exited"]
  /\ registered' = [registered EXCEPT ![p] = <<>>]
  /\ since' = [since EXCEPT ![p] = 0]
  /\ holder' = IF holder = p THEN "former" ELSE holder
  /\ UNCHANGED age

\* Everything up to and including NewManager.
ReadEnvironment(p) ==
  /\ pc[p] = "environment"
  /\ \/ /\ Parses(env)
        /\ pc' = [pc EXCEPT ![p] = "setUp"]
        /\ UNCHANGED <<registered, lease, faults>>
     \/ /\ ~Parses(env)
        /\ Exit(p)
        /\ UNCHANGED faults
     \/ Fault /\ Exit(p)
  /\ UNCHANGED env

\* Mutant of OnSetUpError: the error is logged, and main goes on to the next call.
OnSetUpErrorLog(p) ==
  /\ registered' = [registered EXCEPT ![p] = Append(@, "failed")]
  /\ UNCHANGED <<pc, lease>>

\* A failed SetupWithManager is logged and ends the process.
OnSetUpError(p) == Exit(p)

\* The next SetupWithManager or AddCheck.
SetUp(p) ==
  LET step == Len(registered[p]) + 1 IN
  /\ pc[p] = "setUp"
  /\ step <= Len(SetUps(env))
  /\ \/ /\ registered' = [registered EXCEPT ![p] = Append(@, SetUps(env)[step])]
        /\ UNCHANGED <<pc, lease, faults>>
     \/ Fault /\ OnSetUpError(p)
  /\ UNCHANGED env

\* mgr.Start: the elector refuses bad durations; without election the process is active.
Start(p) ==
  /\ pc[p] = "setUp"
  /\ Len(registered[p]) >= Len(SetUps(env))
  /\ \/ /\ env.leaderElect
        /\ ElectionConfig(ManagerOptions(env))
        /\ pc' = [pc EXCEPT ![p] = "candidate"]
        /\ UNCHANGED <<registered, lease>>
     \/ /\ env.leaderElect
        /\ ~ElectionConfig(ManagerOptions(env))
        /\ Exit(p)
     \/ /\ ~env.leaderElect
        /\ pc' = [pc EXCEPT ![p] = "active"]
        /\ UNCHANGED <<registered, lease>>
  /\ UNCHANGED <<env, faults>>
--------------------------------------------------------------------------------
(***************************************************************************)
(* Leader election.                                                        *)
(***************************************************************************)

\* Mutant of MayTake: a lease of another one is respected for ever.
MayTakeFree == holder = Nobody

MayTake == holder = Nobody \/ age >= ManagerOptions(env).leaseDuration

Acquire(p) ==
  /\ pc[p] = "candidate"
  /\ MayTake
  /\ holder' = p
  /\ age' = 0
  /\ since' = [since EXCEPT ![p] = 0]
  /\ pc' = [pc EXCEPT ![p] = "active"]
  /\ UNCHANGED <<env, registered, faults>>

\* The update of the lease may succeed without the leader hearing of it.
Renew(p) ==
  /\ pc[p] = "active"
  /\ holder = p
  /\ since[p] >= ManagerOptions(env).retryPeriod
  /\ age' = 0
  /\ \/ since' = [since EXCEPT ![p] = 0]
     \/ UNCHANGED since
  /\ UNCHANGED <<env, pc, registered, holder, faults>>

Patience(o) == o.retryPeriod + o.renewDeadline

\* Mutant of GivesUp: the leader stays until the lease is taken from it.
GivesUpLate(p) == holder # p

GivesUp(p) == since[p] >= Patience(ManagerOptions(env))

\* mgr.Start returns an error when the lease is lost, and main exits.
LoseLease(p) ==
  /\ pc[p] = "active"
  /\ env.leaderElect
  /\ GivesUp(p)
  /\ Exit(p)
  /\ UNCHANGED <<env, faults>>

\* A second passes.  No leader lets its deadline pass.
Tick ==
  /\ env.leaderElect
  /\ holder # Nobody
  /\ \A p \in Processes : ~(pc[p] = "active" /\ GivesUp(p))
  /\ age' = IF age < ManagerOptions(env).leaseDuration THEN age + 1 ELSE age
  /\ since' = [p \in Processes |->
                 IF pc[p] = "active" /\ since[p] < Patience(ManagerOptions(env))
                 THEN since[p] + 1 ELSE since[p]]
  /\ UNCHANGED <<env, pc, registered, holder, faults>>

Crash(p) ==
  /\ pc[p] # "exited"
  /\ Fault
  /\ Exit(p)
  /\ UNCHANGED env

\* The kubelet starts the container again.
Restart(p) ==
  /\ pc[p] = "exited"
  /\ pc' = [pc EXCEPT ![p] = "environment"]
  /\ UNCHANGED <<env, registered, lease, faults>>

Main(p) ==
  ReadEnvironment(p) \/ SetUp(p) \/ Start(p) \/ Acquire(p) \/ LoseLease(p) \/ Restart(p)

Next ==
  \/ \E p \in Processes : Main(p) \/ Renew(p) \/ Crash(p)
  \/ Tick

Spec == Init /\ [][Next]_vars

\* Processes run and are restarted, and time passes.
FairSpec == Spec /\ WF_vars(Tick) /\ \A p \in Processes : WF_vars(Main(p))
--------------------------------------------------------------------------------
(***************************************************************************)
(* Properties.                                                             *)
(***************************************************************************)

InTime(o) == Patience(o) < o.leaseDuration

\* "Enabling this will ensure there is only one active controller manager": two
\* processes never reconcile at the same time.  main does not check the durations;
\* client-go lets some pass that leave a leader active after its lease is old
\* (InTime tells them).
OneActiveManager ==
  env.leaderElect /\ InTime(ManagerOptions(env)) =>
    \A p, q \in Processes : pc[p] = "active" /\ pc[q] = "active" => p = q

\* A process that reconciles has set up each controller and, unless they are switched
\* off, each webhook, once, and has read a sound environment: every error on the way
\* ended it.
ActiveIsComplete ==
  \A p \in Processes : pc[p] \in {"candidate", "active"} =>
    /\ registered[p] = SetUps(env)
    /\ Parses(env)

\* Crashes, lost leases and failed set-ups end, again and again, in a process that
\* reconciles, if the environment is sound.
SomeoneActive ==
  Parses(env) /\ (env.leaderElect => ElectionConfig(ManagerOptions(env)))
  => \E p \in Processes : pc[p] = "active"
--------------------------------------------------------------------------------
(***************************************************************************)
(* The inductive invariants behind OneActiveManager and ActiveIsComplete.  *)
(***************************************************************************)

\* With election, the active process holds the lease, believes it to be at least as old as
\* it is, and has not waited longer than it may.
Holds(p) ==
  /\ holder = p
  /\ age <= since[p]
  /\ since[p] <= Patience(ManagerOptions(env))

Labels == {"environment", "setUp", "candidate", "active", "exited"}

LeaseInv ==
  /\ env \in Environments
  /\ pc \in [Processes -> Labels]
  /\ since \in [Processes -> Nat]
  /\ age \in Nat
  /\ env.leaderElect /\ InTime(ManagerOptions(env)) =>
       \A p \in Processes : pc[p] = "active" => Holds(p)

\* The names of all calls.
Elements(list, n) == {list[i] : i \in 1..n}
Names ==
  Elements(TopologyControllers, 7) \cup Elements(AccessControllers, 6)
    \cup Elements(Webhooks, 14) \cup {"healthz", "readyz"}

\* What a process has set up so far is the beginning of what it has to.
SoFar(s) ==
  /\ Len(s) <= Len(SetUps(env))
  /\ \A i \in 1..Len(s) : s[i] = SetUps(env)[i]

SetUpInv ==
  /\ pc \in [Processes -> Labels]
  /\ registered \in [Processes -> Seq(Names)]
  /\ \A p \in Processes :
       /\ pc[p] \in {"environment", "exited"} => registered[p] = <<>>
       /\ pc[p] = "setUp" => Parses(env) /\ SoFar(registered[p])
       /\ pc[p] \in {"candidate", "active"} => Parses(env) /\ registered[p] = SetUps(env)
================================================================================
