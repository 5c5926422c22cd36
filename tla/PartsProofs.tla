------------------------------ MODULE PartsProofs ------------------------------
(***************************************************************************)
(* Limits, the processes of the operator, Queues and Bindings, for any     *)
(* specs, limits, processes, environments, arguments and bounds: what      *)
(* these components of Parts keep, and that a behaviour of Parts is one of *)
(* the component that "part" names.                                        *)
(***************************************************************************)
EXTENDS Parts, Sequences, TLAPS

--------------------------------------------------------------------------------
(***************************************************************************)
(* Limits: the limits of a User or a Vhost.                                *)
(***************************************************************************)

\* A call changes the limits in K at most, and if it succeeds all of them.
LEMMA RequestApplies ==
  ASSUME NEW K \in SUBSET LimitKeys, NEW value, NEW then, SetLimits!Request(K, value, then),
         SetLimits!LimitsInv
  PROVE  /\ DOMAIN server' = LimitKeys
         /\ \A k \in LimitKeys : server'[k] = server[k] \/ (k \in K /\ server'[k] = value[k])
         /\ pc' \in {then, "failed"}
         /\ pc' # "failed" => \A k \in K : server'[k] = value[k]
<1>1. CASE K = {}
  BY <1>1, Zenon DEF SetLimits!Request, SetLimits!LimitsInv
<1>2. CASE K # {}
  <2>1. PICK c \in {"ok", "error"}, applied \in SUBSET K :
          /\ c = "ok" => applied = K
          /\ server' = [k \in LimitKeys |-> IF k \in applied THEN value[k] ELSE server[k]]
          /\ pc' = IF c = "ok" THEN then ELSE "failed"
    BY <1>2, Zenon DEF SetLimits!Request
  <2> QED
    BY <2>1, Zenon
<1> QED
  BY <1>1, <1>2, Zenon

\* The limits are limits of Keys.
LEMMA LimitsInit ==
  ASSUME SetLimits!Init
  PROVE  SetLimits!LimitsInv
BY Zenon DEF SetLimits!Init, SetLimits!LimitsInv, SetLimits!LimitValues

\* The invariant is preserved by every step.
LEMMA LimitsNext ==
  ASSUME SetLimits!LimitsInv, [SetLimits!Next]_(SetLimits!vars)
  PROVE  SetLimits!LimitsInv'
<1>0. ASSUME NEW K \in SUBSET LimitKeys, SetLimits!Request(K, SetLimits!NoLimits, "putLimits")
      PROVE  /\ DOMAIN server' = LimitKeys
             /\ \A k \in LimitKeys :
                  server'[k] = server[k] \/ (k \in K /\ server'[k] = SetLimits!NoLimits[k])
             /\ pc' \in {"putLimits", "failed"}
             /\ pc' # "failed" => \A k \in K : server'[k] = SetLimits!NoLimits[k]
  BY <1>0, RequestApplies, Zenon
<1> USE DEF SetLimits!LimitsInv
<1>1. CASE SetLimits!Start
  BY <1>1, Zenon DEF SetLimits!Start
<1>2. CASE SetLimits!GetLimits
  BY <1>2, Zenon DEF SetLimits!GetLimits
<1>3. CASE SetLimits!DeleteLimits
  <2> DEFINE K == SetLimits!LimitsToDelete(found, copy)
  <2>1. K \in SUBSET LimitKeys /\ SetLimits!Request(K, SetLimits!NoLimits, "putLimits")
    BY <1>3, Zenon DEF SetLimits!DeleteLimits, SetLimits!LimitsToDelete, SetLimits!Given
  <2>2. UNCHANGED <<copy, found, history>> /\ pc = "deleteLimits"
    BY <1>3, Zenon DEF SetLimits!DeleteLimits
  <2> HIDE DEF K
  <2>3. /\ DOMAIN server' = LimitKeys
        /\ \A k \in LimitKeys :
             server'[k] = server[k] \/ (k \in K /\ server'[k] = SetLimits!NoLimits[k])
        /\ pc' \in {"putLimits", "failed"}
        /\ pc' # "failed" => \A k \in K : server'[k] = SetLimits!NoLimits[k]
    BY <2>1, <1>0, Zenon
  <2>4. ASSUME NEW k \in LimitKeys \ history, k \notin SetLimits!Given(copy), pc' = "putLimits"
        PROVE  server'[k] = Nil
    <3>1. CASE k \in K
      BY <2>3, <2>4, <3>1, Zenon DEF SetLimits!NoLimits
    <3>2. CASE k \notin K
      BY <2>2, <2>3, <2>4, <3>2, Zenon DEF K, SetLimits!LimitsToDelete, SetLimits!Given
    <3> QED
      BY <3>1, <3>2, Zenon
  <2> QED
    BY <2>2, <2>3, <2>4, Zenon DEF SetLimits!Given
<1>4. CASE SetLimits!PutLimits
  <2>1. SetLimits!Given(copy) \in SUBSET LimitKeys /\ SetLimits!Request(SetLimits!Given(copy),
  copy, "done")
    BY <1>4, Zenon DEF SetLimits!PutLimits, SetLimits!Given
  <2>2. DOMAIN server' = LimitKeys /\ pc' \in {"done", "failed"}
    BY <2>1, RequestApplies, Zenon
  <2> QED
    BY <2>2, Zenon
<1>5. CASE SetLimits!Wake \/ (\E l \in SetLimits!LimitValues : SetLimits!EditSpec(l))
           \/ UNCHANGED SetLimits!vars
  BY <1>5, Zenon DEF SetLimits!Wake, SetLimits!EditSpec, SetLimits!Given, SetLimits!vars
<1>6. ASSUME NEW k \in LimitKeys, NEW v, SetLimits!SetOutside(k, v) PROVE SetLimits!LimitsInv'
  BY <1>6, Zenon DEF SetLimits!SetOutside, SetLimits!Given
<1> QED
  BY <1>1, <1>2, <1>3, <1>4, <1>5, <1>6, ZenonT(30) DEF SetLimits!Next, SetLimits!DeclareFunc

\* DeclareFunc of Vhost and reconcileUserLimits of User end well only with the limits of
\* the spec they read, but for those that others set meanwhile.
THEOREM LimitsAreDeclared == SetLimits!Spec => [][SetLimits!LimitsAreSpec]_(SetLimits!vars)
<1>1. ASSUME SetLimits!LimitsInv, SetLimits!Next PROVE SetLimits!LimitsAreSpec
  <2> SUFFICES ASSUME pc # "done", pc' = "done", NEW k \in LimitKeys \ history
               PROVE  server'[k] = copy[k]
    BY Zenon DEF SetLimits!LimitsAreSpec
  <2>1. CASE SetLimits!PutLimits
    <3>1. SetLimits!Given(copy) \in SUBSET LimitKeys /\ SetLimits!Request(SetLimits!Given(copy),
    copy, "done") /\ pc = "putLimits"
      BY <2>1, Zenon DEF SetLimits!PutLimits, SetLimits!Given
    <3>0. /\ \A q \in LimitKeys :
               server'[q] = server[q] \/ (q \in SetLimits!Given(copy) /\ server'[q] = copy[q])
          /\ pc' # "failed" => \A q \in SetLimits!Given(copy) : server'[q] = copy[q]
      BY <1>1, <3>1, RequestApplies, ZenonT(30)
    <3>2. CASE k \in SetLimits!Given(copy)
      BY <3>0, <3>2, Zenon
    <3>3. CASE k \notin SetLimits!Given(copy)
      <4>1. server'[k] = server[k] /\ server[k] = Nil
        BY <1>1, <3>0, <3>1, <3>3, Zenon DEF SetLimits!LimitsInv
      <4> QED
        BY <3>3, <4>1, Zenon DEF SetLimits!Given
    <3> QED
      BY <3>2, <3>3, Zenon
  <2>2. CASE SetLimits!DeleteLimits
    <3> DEFINE K == SetLimits!LimitsToDelete(found, copy)
    <3>1. K \in SUBSET LimitKeys /\ SetLimits!Request(K, SetLimits!NoLimits, "putLimits")
      BY <2>2, Zenon DEF SetLimits!DeleteLimits, SetLimits!LimitsToDelete, SetLimits!Given
    <3> HIDE DEF K
    <3>2. pc' \in {"putLimits", "failed"}
      BY <1>1, <3>1, RequestApplies, Zenon
    <3> QED
      BY <3>2, Zenon
  <2> QED
    BY <1>1, <2>1, <2>2, Zenon
       DEF SetLimits!Next, SetLimits!DeclareFunc, SetLimits!Start, SetLimits!GetLimits,
           SetLimits!Wake, SetLimits!EditSpec, SetLimits!SetOutside
<1>2. SetLimits!LimitsInv /\ [SetLimits!Next]_(SetLimits!vars)
        => [SetLimits!LimitsAreSpec]_(SetLimits!vars)
  BY <1>1, Zenon
<1> QED
  BY <1>2, LimitsInit, LimitsNext, PTL DEF SetLimits!Spec

\* No call on the way lifts a limit that is set and that the spec has.
THEOREM LimitsStay == SetLimits!Spec => [][SetLimits!LimitsNeverLifted]_(SetLimits!vars)
<1>1. ASSUME SetLimits!LimitsInv PROVE SetLimits!LimitsNeverLifted
  <2> SUFFICES ASSUME SetLimits!DeclareFunc, NEW k \in SetLimits!Given(copy), server[k] # Nil
               PROVE  server'[k] # Nil
    BY Zenon DEF SetLimits!LimitsNeverLifted
  <2>1. k \in LimitKeys /\ copy[k] # Nil
    BY Zenon DEF SetLimits!Given
  <2>2. CASE SetLimits!DeleteLimits
    <3>1. SetLimits!LimitsToDelete(found,
    copy) \in SUBSET LimitKeys /\ k \notin SetLimits!LimitsToDelete(found, copy)
      BY Zenon DEF SetLimits!LimitsToDelete, SetLimits!Given
    <3> QED
      BY <1>1, <2>1, <2>2, <3>1, RequestApplies, Zenon DEF SetLimits!DeleteLimits
  <2>3. CASE SetLimits!PutLimits
    <3>1. SetLimits!Given(copy) \in SUBSET LimitKeys
      BY Zenon DEF SetLimits!Given
    <3> QED
      BY <1>1, <2>1, <2>3, <3>1, RequestApplies, ZenonT(30) DEF SetLimits!PutLimits
  <2> QED
    BY <2>2, <2>3, Zenon DEF SetLimits!DeclareFunc, SetLimits!Start, SetLimits!GetLimits
<1> QED
  BY <1>1, LimitsInit, LimitsNext, PTL DEF SetLimits!Spec
--------------------------------------------------------------------------------
(***************************************************************************)
(* StartUp: processes, their set-up and the lease.                         *)
(***************************************************************************)

(***************************************************************************)
(* The lease.                                                              *)
(***************************************************************************)

\* The options are durations, too.
LEMMA OptionsAreDurations ==
  ASSUME NEW e \in Environments
  PROVE  LET o == Process!ManagerOptions(e) IN
         /\ {o.leaseDuration, o.renewDeadline, o.retryPeriod} \subseteq Nat
         /\ Process!Patience(o) \in Nat
BY DeploymentAssumption DEF Process!ManagerOptions, Process!GetEnvInDuration, Process!Patience

\* At the start nobody is active.
LEMMA LeaseInit ==
  ASSUME Process!Init
  PROVE  Process!LeaseInv
<1>1. \A p \in Processes : pc[p] # "active"
  BY Zenon DEF Process!Init
<1>2. /\ spec \in Environments
      /\ pc \in [Processes -> Process!Labels]
      /\ seen \in [Processes -> Nat]
      /\ source \in Nat
  BY Zenon DEF Process!Init, Process!Labels
<1> QED
  BY <1>1, <1>2, Zenon DEF Process!LeaseInv

\* Steps that make nobody active and leave the lease alone.
LEMMA LeaseKept ==
  ASSUME Process!LeaseInv, NEW p \in Processes, NEW label \in Process!Labels, label # "active",
         pc' = [pc EXCEPT ![p] = label], UNCHANGED <<spec, Process!lease>>
  PROVE  Process!LeaseInv'
BY Zenon DEF Process!LeaseInv, Process!Holds, Process!lease

\* An exit: another process that is active keeps what it knows.
LEMMA LeaseExit ==
  ASSUME Process!LeaseInv, NEW p \in Processes, Process!Exit(p), spec' = spec
  PROVE  Process!LeaseInv'
BY Zenon DEF Process!LeaseInv, Process!Holds, Process!Exit, Process!Labels

\* While a process is active nobody takes the lease from it.
LEMMA LeaseIsRespected ==
  ASSUME Process!LeaseInv, spec.leaderElect, Process!InTime(Process!ManagerOptions(spec)),
         Process!MayTake,
         NEW q \in Processes, pc[q] = "active"
  PROVE  FALSE
<1> DEFINE o == Process!ManagerOptions(spec)
<1>1. /\ o.leaseDuration \in Nat /\ Process!Patience(o) \in Nat
      /\ seen[q] \in Nat /\ source \in Nat
  BY OptionsAreDurations, Zenon DEF Process!LeaseInv
<1>2. server = q /\ source <= seen[q] /\ seen[q] <= Process!Patience(o)
  BY Zenon DEF Process!LeaseInv, Process!Holds
<1>3. Process!Patience(o) < o.leaseDuration
  BY Zenon DEF Process!InTime
<1>4. source >= o.leaseDuration
  BY <1>2, DeploymentAssumption, Zenon DEF Process!MayTake
<1> QED
  BY <1>1, <1>2, <1>3, <1>4

\* The invariant is preserved by every step.
LEMMA LeaseNext ==
  ASSUME Process!LeaseInv, [Process!Next]_(Process!vars)
  PROVE  Process!LeaseInv'
<1> USE DEF Process!LeaseInv, Process!Holds, Process!Labels, Process!lease
<1>1. ASSUME NEW p \in Processes, Process!ReadEnvironment(p) PROVE Process!LeaseInv'
  BY <1>1, LeaseKept, LeaseExit, Zenon DEF Process!ReadEnvironment
<1>2. ASSUME NEW p \in Processes, Process!SetUp(p) PROVE Process!LeaseInv'
  BY <1>2, LeaseExit, Zenon DEF Process!SetUp, Process!OnSetUpError
<1>3. ASSUME NEW p \in Processes, Process!Start(p) PROVE Process!LeaseInv'
  BY <1>3, LeaseKept, LeaseExit, Zenon DEF Process!Start
<1>4. ASSUME NEW p \in Processes, Process!Acquire(p) PROVE Process!LeaseInv'
  <2>1. ASSUME spec.leaderElect, Process!InTime(Process!ManagerOptions(spec)),
               NEW q \in Processes, pc'[q] = "active"
        PROVE  Process!Holds(q)'
    <3>1. q = p
      BY <1>4, <2>1, LeaseIsRespected, ZenonT(30) DEF Process!Acquire
    <3> QED
      BY <1>4, <2>1, <3>1, OptionsAreDurations, SMTT(30) DEF Process!Acquire
  <2> QED
    BY <1>4, <2>1, ZenonT(30) DEF Process!Acquire
<1>5. ASSUME NEW p \in Processes, Process!Renew(p) PROVE Process!LeaseInv'
  BY <1>5, OptionsAreDurations DEF Process!Renew
<1>6. ASSUME NEW p \in Processes, Process!LoseLease(p) PROVE Process!LeaseInv'
  BY <1>6, LeaseExit, ZenonT(30) DEF Process!LoseLease
<1>7. CASE Process!Tick
  <2>1. ASSUME spec.leaderElect, Process!InTime(Process!ManagerOptions(spec)),
               NEW q \in Processes, pc'[q] = "active"
        PROVE  Process!Holds(q)'
    <3>1. /\ Process!Holds(q) /\ pc[q] = "active"
          /\ seen[q] < Process!Patience(Process!ManagerOptions(spec))
      BY <1>7, <2>1, OptionsAreDurations DEF Process!Tick, Process!GivesUp
    <3> QED
      BY <1>7, <2>1, <3>1, OptionsAreDurations, SMTT(30) DEF Process!Tick
  <2> QED
    BY <1>7, <2>1, SMTT(30) DEF Process!Tick
<1>8. ASSUME NEW p \in Processes, Process!Crash(p) PROVE Process!LeaseInv'
  BY <1>8, LeaseExit, Zenon DEF Process!Crash
<1>9. ASSUME NEW p \in Processes, Process!Restart(p) PROVE Process!LeaseInv'
  BY <1>9, LeaseKept, Zenon DEF Process!Restart
<1>10. CASE UNCHANGED Process!vars
  BY <1>10, Zenon DEF Process!vars
<1> HIDE DEF Process!LeaseInv, Process!Holds, Process!Labels, Process!lease
<1> QED
  BY <1>1, <1>2, <1>3, <1>4, <1>5, <1>6, <1>7, <1>8, <1>9, <1>10, ZenonT(30)
     DEF Process!Next, Process!Main

\* Two processes never reconcile at the same time: "Enabling this will ensure there is only
\* one active controller manager" (main), for durations that leave a leader time to stop.
THEOREM OneActive ==
  Process!Spec => []Process!OneActiveManager
<1>1. Process!LeaseInv => Process!OneActiveManager
  BY Zenon DEF Process!LeaseInv, Process!Holds, Process!OneActiveManager
<1> QED
  BY <1>1, LeaseInit, LeaseNext, PTL DEF Process!Spec
--------------------------------------------------------------------------------
(***************************************************************************)
(* StartUp: the set-up.                                                    *)
(***************************************************************************)


\* The calls of main are a list of names.
LEMMA SetUpsAreNames ==
  ASSUME NEW e
  PROVE  Process!SetUps(e) \in Seq(Process!Names)
<1>1. Process!TopologyControllers \in Seq(Process!Names)
  BY DEF Process!TopologyControllers, Process!Names, Process!Elements
<1>2. Process!AccessControllers \in Seq(Process!Names)
  BY DEF Process!AccessControllers, Process!Names, Process!Elements
<1>3. Process!Webhooks \in Seq(Process!Names)
  BY DEF Process!Webhooks, Process!Names, Process!Elements
<1>4. Process!Controllers \in Seq(Process!Names)
  BY <1>1, <1>2 DEF Process!Controllers
<1>5. (IF e.enableWebhooks = "false" THEN <<>> ELSE Process!Webhooks) \in Seq(Process!Names)
  BY <1>3
<1>6. <<"healthz", "readyz">> \in Seq(Process!Names)
  BY DEF Process!Names
<1> QED
  BY <1>4, <1>5, <1>6 DEF Process!SetUps

\* At the start nothing is set up.
LEMMA SetUpInit ==
  ASSUME Process!Init
  PROVE  Process!SetUpInv
BY DEF Process!Init, Process!SetUpInv, Process!Labels

\* An exit forgets everything.
LEMMA SetUpExit ==
  ASSUME Process!SetUpInv, NEW p \in Processes, Process!Exit(p), spec' = spec
  PROVE  Process!SetUpInv'
BY DEF Process!SetUpInv, Process!SoFar, Process!Exit, Process!Labels

\* Steps of a process that has set up everything, or nothing.
LEMMA SetUpKept ==
  ASSUME Process!SetUpInv, NEW p \in Processes, UNCHANGED <<spec, object>>,
         \/ pc[p] = "candidate" /\ pc' = [pc EXCEPT ![p] = "active"]
         \/ pc[p] = "exited" /\ pc' = [pc EXCEPT ![p] = "environment"]
         \/ pc' = pc
  PROVE  Process!SetUpInv'
BY SMTT(30) DEF Process!SetUpInv, Process!SoFar, Process!Labels

\* The invariant is preserved by every step.
LEMMA SetUpNext ==
  ASSUME Process!SetUpInv, [Process!Next]_(Process!vars)
  PROVE  Process!SetUpInv'
<1> USE DEF Process!SetUpInv
<1>1. ASSUME NEW p \in Processes, Process!ReadEnvironment(p) PROVE Process!SetUpInv'
  <2>1. CASE /\ Process!Parses(spec) /\ pc' = [pc EXCEPT ![p] = "setUp"]
             /\ UNCHANGED <<spec, object>>
    <3>1. Process!SoFar(<<>>) /\ object[p] = <<>>
      BY <1>1, SetUpsAreNames DEF Process!SoFar, Process!ReadEnvironment
    <3> QED
      BY <2>1, <3>1 DEF Process!Labels, Process!SoFar
  <2>2. CASE Process!Exit(p) /\ spec' = spec
    BY <2>2, SetUpExit, Zenon
  <2> QED
    BY <1>1, <2>1, <2>2, Zenon DEF Process!ReadEnvironment
<1>2. ASSUME NEW p \in Processes, Process!SetUp(p) PROVE Process!SetUpInv'
  <2> DEFINE step == Len(object[p]) + 1
             call == Process!SetUps(spec)[step]
  <2>1. CASE /\ object' = [object EXCEPT ![p] = Append(@, call)]
             /\ UNCHANGED <<spec, pc>>
    <3>1. /\ Process!SetUps(spec) \in Seq(Process!Names) /\ object[p] \in Seq(Process!Names)
          /\ step \in 1..Len(Process!SetUps(spec)) /\ Process!SoFar(object[p])
      BY <1>2, SetUpsAreNames DEF Process!SetUp
    <3>2. Append(object[p], call) \in Seq(Process!Names)
      BY <3>1
    <3>3. Process!SoFar(Append(object[p], call))
      BY <3>1, SMTT(30) DEF Process!SoFar
    <3> QED
      BY <1>2, <2>1, <3>2, <3>3, SMTT(30) DEF Process!SetUp, Process!SoFar, Process!Labels
  <2>2. CASE Process!Exit(p) /\ spec' = spec
    BY <2>2, SetUpExit, Zenon
  <2> QED
    BY <1>2, <2>1, <2>2, ZenonT(30) DEF Process!SetUp, Process!OnSetUpError
<1>3. ASSUME NEW p \in Processes, Process!Start(p) PROVE Process!SetUpInv'
  <2>1. CASE \E label \in {"candidate", "active"} :
               pc' = [pc EXCEPT ![p] = label] /\ UNCHANGED <<spec, object>>
    <3>1. object[p] = Process!SetUps(spec)
      BY <1>3, SetUpsAreNames, SMTT(30) DEF Process!Start, Process!SoFar
    <3> QED
      BY <1>3, <2>1, <3>1 DEF Process!Start, Process!SoFar, Process!Labels
  <2>2. CASE Process!Exit(p) /\ spec' = spec
    BY <2>2, SetUpExit, Zenon
  <2> QED
    BY <1>3, <2>1, <2>2, ZenonT(30) DEF Process!Start
<1>4. ASSUME NEW p \in Processes, Process!Acquire(p) PROVE Process!SetUpInv'
  BY <1>4, SetUpKept, Zenon DEF Process!Acquire
<1>5. ASSUME NEW p \in Processes, Process!Renew(p) PROVE Process!SetUpInv'
  BY <1>5, SetUpKept, Zenon DEF Process!Renew
<1>6. ASSUME NEW p \in Processes, Process!LoseLease(p) PROVE Process!SetUpInv'
  BY <1>6, SetUpExit, Zenon DEF Process!LoseLease
<1>7. CASE Process!Tick
  BY <1>7, Zenon DEF Process!Tick, Process!SoFar
<1>8. ASSUME NEW p \in Processes, Process!Crash(p) PROVE Process!SetUpInv'
  BY <1>8, SetUpExit, Zenon DEF Process!Crash
<1>9. ASSUME NEW p \in Processes, Process!Restart(p) PROVE Process!SetUpInv'
  BY <1>9, SetUpKept, Zenon DEF Process!Restart
<1>10. CASE UNCHANGED Process!vars
  BY <1>10, ZenonT(30) DEF Process!vars, Process!SoFar
<1> HIDE DEF Process!SetUpInv
<1> QED
  BY <1>1, <1>2, <1>3, <1>4, <1>5, <1>6, <1>7, <1>8, <1>9, <1>10, Zenon
     DEF Process!Next, Process!Main

\* A process that reconciles has set up each controller and webhook, once and in order:
\* every error of main on the way ended it.
THEOREM ActiveComplete == Process!Spec => []Process!ActiveIsComplete
<1>1. Process!SetUpInv => Process!ActiveIsComplete
  BY Zenon DEF Process!SetUpInv, Process!ActiveIsComplete
<1> QED
  BY <1>1, SetUpInit, SetUpNext, PTL DEF Process!Spec
--------------------------------------------------------------------------------
(***************************************************************************)
(* QueueDeclaration: the webhooks and the declaration of a Queue.          *)
(***************************************************************************)

\* ValidateUpdate lets through only what is declared in the same way.
LEMMA UpdateKeepsSettings ==
  ASSUME NEW old, NEW new, Declaration!ValidateUpdate(old, new)
  PROVE  Declaration!GenerateQueueSettings(old) = Declaration!GenerateQueueSettings(new)
BY Zenon
   DEF Declaration!ValidateUpdate, Declaration!GenerateQueueSettings, Declaration!EqualArguments

\* What ValidateCreate demands depends on the settings only.
LEMMA SameSettings ==
  ASSUME NEW old, NEW new, Declaration!ValidateCreate(old),
         Declaration!GenerateQueueSettings(old) = Declaration!GenerateQueueSettings(new)
  PROVE  Declaration!ValidateCreate(new)
<1>1. old.type = new.type /\ (Declaration!Durable(old) <=> Declaration!Durable(new))
  <2> DEFINE a == Declaration!GenerateQueueSettings(old)
             b == Declaration!GenerateQueueSettings(new)
  <2>1. a.type = b.type /\ a.durable = b.durable
    OBVIOUS
  <2> QED
    BY <2>1, Zenon DEF Declaration!GenerateQueueSettings, Declaration!Durable
<1> QED
  BY <1>1, Zenon DEF Declaration!ValidateCreate

\* At the start there is nothing.
LEMMA DeclarationInit ==
  ASSUME Declaration!Init
  PROVE  Declaration!DeclarationInv
BY DEF Declaration!Init, Declaration!DeclarationInv, Declaration!TypeOK, Declaration!Lag,
   Declaration!Settled, Declaration!Away, Declaration!Gone, Declaration!NoQueue,
   Declaration!Follows, Declaration!FromCache, Declaration!Declarable

\* A new object: no copy of an earlier one is declarable, and no queue is the operator's.
LEMMA DeclarationCreate ==
  ASSUME Declaration!DeclarationInv, Declaration!Create
  PROVE  Declaration!DeclarationInv'
<1> USE DEF Declaration!DeclarationInv, Declaration!Worker
<1>1. PICK s : /\ spec => Declaration!ValidateCreate(s)
               /\ object' = [exists |-> TRUE, deleting |-> FALSE, finalizer |-> FALSE,
                             version |-> object.version + 1, spec |-> s]
  BY Zenon DEF Declaration!Create
<1>2. UNCHANGED <<spec, seen, pc, copy, server>> /\ ~object.exists
  BY Zenon DEF Declaration!Create
<1>3. Declaration!TypeOK'
  BY <1>1, <1>2 DEF Declaration!TypeOK, Declaration!Here, Declaration!Away
<1>4. Declaration!Lag'
  BY <1>1, <1>2 DEF Declaration!Lag, Declaration!TypeOK, Declaration!Here, Declaration!Away,
     Declaration!Follows
<1>5. spec => Declaration!Settled'
  BY <1>1, <1>2, Zenon DEF Declaration!Settled, Declaration!Current
<1> QED
  BY <1>2, <1>3, <1>4, <1>5, Zenon

\* An update that the webhook lets through.
LEMMA DeclarationUpdate ==
  ASSUME Declaration!DeclarationInv, Declaration!Update
  PROVE  Declaration!DeclarationInv'
<1> USE DEF Declaration!DeclarationInv, Declaration!Worker
<1>1. PICK s \in DesiredQueues :
       /\ spec => Declaration!ValidateUpdate(object.spec, s)
       /\ object' = [object EXCEPT !.spec = s, !.version = @ + 1]
  BY Zenon DEF Declaration!Update
<1>2. UNCHANGED <<spec, seen, pc, copy, server>> /\ object.exists
  BY Zenon DEF Declaration!Update
<1>3. /\ Declaration!Here(object) /\ Declaration!Here(object')
      /\ object'.version = object.version + 1
      /\ object'.spec = s /\ object'.finalizer = object.finalizer
  <2>1. Declaration!Here(object)
    BY <1>2, Zenon DEF Declaration!TypeOK, Declaration!Away
  <2> QED
    BY <1>1, <2>1 DEF Declaration!Here
<1>4. Declaration!TypeOK'
  BY <1>2, <1>3, ZenonT(30) DEF Declaration!TypeOK
<1>5. Declaration!Lag'
  BY <1>2, <1>3, SMTT(30) DEF Declaration!Lag, Declaration!TypeOK, Declaration!Here, Declaration!Away,
     Declaration!Follows
<1>6. ASSUME spec PROVE Declaration!Settled'
  <2>1. /\ Declaration!GenerateQueueSettings(object'.spec)
             = Declaration!GenerateQueueSettings(object.spec)
        /\ Declaration!ValidateCreate(object'.spec)
    BY <1>1, <1>2, <1>3, <1>6, UpdateKeepsSettings, SameSettings, SMTT(30) DEF Declaration!Settled
  <2>2. object'.exists /\ (object.finalizer => object'.finalizer)
    BY <1>3, Zenon DEF Declaration!Here
  <2> QED
    BY <1>2, <1>6, <2>1, <2>2, ZenonT(30) DEF Declaration!Settled, Declaration!Current
<1> QED
  BY <1>2, <1>4, <1>5, <1>6, ZenonT(30)

\* A deletion removes the object only if it has no finalizer.
LEMMA DeclarationDelete ==
  ASSUME Declaration!DeclarationInv, Declaration!Delete
  PROVE  Declaration!DeclarationInv'
<1> USE DEF Declaration!DeclarationInv, Declaration!Worker
<1>1. UNCHANGED <<spec, seen, pc, copy, server>> /\ Declaration!Here(object)
  BY Zenon DEF Declaration!Delete, Declaration!TypeOK, Declaration!Away
<1>2. CASE object.finalizer
  <2>1. object' = [object EXCEPT !.deleting = TRUE, !.version = @ + 1]
    BY <1>2, Zenon DEF Declaration!Delete
  <2>2. /\ Declaration!Here(object') /\ object'.version = object.version + 1
        /\ object'.spec = object.spec /\ object'.finalizer /\ object'.exists
    <3>1. /\ DOMAIN object' = DOMAIN object
          /\ object'.exists = object.exists /\ object'.deleting = TRUE
          /\ object'.finalizer = object.finalizer
          /\ object'.version = object.version + 1 /\ object'.spec = object.spec
      BY <1>1, <2>1, Zenon DEF Declaration!Here
    <3>2. object.finalizer = TRUE
      BY <1>1, <1>2, Zenon DEF Declaration!Here
    <3>3. Declaration!Here(object')
      <4>1. object'.deleting \in BOOLEAN /\ object'.finalizer \in BOOLEAN
        BY <3>1, <3>2, Zenon
      <4>2. object'.exists = TRUE /\ object'.version \in Nat
        BY <1>1, <3>1 DEF Declaration!Here
      <4> QED
        BY <1>1, <3>1, <4>1, <4>2, ZenonT(30) DEF Declaration!Here
    <3> QED
      BY <1>1, <3>1, <3>2, <3>3, Zenon DEF Declaration!Here
  <2>3. Declaration!TypeOK'
    BY <1>1, <2>2, ZenonT(30) DEF Declaration!TypeOK
  <2>4. Declaration!Lag'
    BY <1>1, <2>2, SMTT(30) DEF Declaration!Lag, Declaration!TypeOK, Declaration!Here, Declaration!Away,
       Declaration!Follows
  <2>5. spec => Declaration!Settled'
    BY <1>1, <2>2, ZenonT(30) DEF Declaration!Settled, Declaration!Current, Declaration!Here
  <2> QED
    BY <1>1, <2>3, <2>4, <2>5, Zenon
<1>3. CASE ~object.finalizer
  <2>1. object' = Declaration!Remove(object)
    BY <1>3, Zenon DEF Declaration!Delete
  <2>2. Declaration!Away(object') /\ object'.version = object.version + 1
    <3>1. object' = [exists |-> FALSE, deleting |-> FALSE, finalizer |-> FALSE,
                     version |-> object.version + 1]
      BY <2>1, Zenon DEF Declaration!Remove, Declaration!Gone
    <3> QED
      BY <1>1, <3>1 DEF Declaration!Here, Declaration!Away
  <2>3. Declaration!TypeOK'
    BY <1>1, <2>2, ZenonT(30) DEF Declaration!TypeOK
  <2>4. Declaration!Lag'
    BY <1>1, <2>2 DEF Declaration!Lag, Declaration!TypeOK, Declaration!Here, Declaration!Away,
       Declaration!Follows
  <2>5. spec => Declaration!Settled'
    BY <1>1, <1>3, <2>2, ZenonT(30) DEF Declaration!Settled, Declaration!Current, Declaration!Away
  <2> QED
    BY <1>1, <2>3, <2>4, <2>5, Zenon
<1> QED
  BY <1>2, <1>3, Zenon

\* The cache catches up.
LEMMA DeclarationSync ==
  ASSUME Declaration!DeclarationInv, Declaration!Sync
  PROVE  Declaration!DeclarationInv'
<1> USE DEF Declaration!DeclarationInv, Declaration!Sync
<1>1. Declaration!TypeOK'
  BY Zenon DEF Declaration!TypeOK
<1>2. Declaration!Lag'
  BY DEF Declaration!Lag, Declaration!TypeOK, Declaration!Here, Declaration!Away,
     Declaration!Follows
<1>3. spec => Declaration!Settled'
  BY Zenon DEF Declaration!Settled, Declaration!Current, Declaration!Declarable
<1> QED
  BY <1>1, <1>2, <1>3, Zenon

\* The worker takes its copy from the cache.
LEMMA DeclarationGet ==
  ASSUME Declaration!DeclarationInv, Declaration!Get
  PROVE  Declaration!DeclarationInv'
<1> USE DEF Declaration!DeclarationInv
<1>1. UNCHANGED <<spec, object, seen, server>>
  BY Zenon DEF Declaration!Get
<1>2. CASE ~seen.exists
  <2>1. pc' = "idle" /\ copy' = Declaration!Gone
    <3>1. ~seen.deleting /\ ~seen.finalizer
      BY <1>2, Zenon DEF Declaration!TypeOK, Declaration!Here, Declaration!Away
    <3> QED
      BY <1>2, <3>1, Zenon DEF Declaration!Get
  <2> QED
    BY <1>1, <2>1, Zenon
       DEF Declaration!TypeOK, Declaration!Lag, Declaration!Settled, Declaration!Away,
           Declaration!Gone, Declaration!FromCache, Declaration!Current
<1>3. CASE seen.exists
  <2>1. Declaration!Here(seen) /\ copy' = seen
    BY <1>3, Zenon DEF Declaration!Get, Declaration!TypeOK, Declaration!Away
  <2>2. \/ pc' = "delete" /\ seen.deleting
        \/ pc' = "declare" /\ Declaration!Declarable(seen)
        \/ pc' = "addFinalizer" /\ ~seen.deleting /\ ~seen.finalizer
    BY <1>3, Zenon DEF Declaration!Get, Declaration!Declarable
  <2>3. Declaration!TypeOK'
    BY <1>1, <2>1, <2>2, Zenon DEF Declaration!TypeOK
  <2>4. Declaration!Lag'
    BY <1>1, <2>1, <2>2, SMTT(30) DEF Declaration!Lag, Declaration!Follows, Declaration!Here,
       Declaration!FromCache
  <2>5. spec => Declaration!Settled'
    BY <1>1, <2>1, <2>2, Zenon DEF Declaration!Settled, Declaration!Current
  <2> QED
    BY <1>1, <2>3, <2>4, <2>5, Zenon
<1> QED
  BY <1>2, <1>3, Zenon

\* Reconcile returns: the worker has no copy any more.
LEMMA DeclarationReturn ==
  ASSUME Declaration!DeclarationInv, pc' = "idle", copy' = Declaration!Gone,
         UNCHANGED <<spec, object, seen, server>>
  PROVE  Declaration!DeclarationInv'
BY Zenon
   DEF Declaration!DeclarationInv, Declaration!TypeOK, Declaration!Lag, Declaration!Settled,
       Declaration!Away, Declaration!Gone, Declaration!FromCache, Declaration!Current

\* A write of the operator succeeds only with the current object.
LEMMA CopyIsObject ==
  ASSUME Declaration!DeclarationInv, pc \in Declaration!FromCache, object.version = copy.version
  PROVE  copy = object /\ seen = object
BY DEF Declaration!DeclarationInv, Declaration!TypeOK, Declaration!Lag, Declaration!Follows,
   Declaration!Here, Declaration!Away

\* addFinalizerIfNeeded: the copy that the worker declares next is the object.
LEMMA DeclarationAddFinalizer ==
  ASSUME Declaration!DeclarationInv, Declaration!AddFinalizer
  PROVE  Declaration!DeclarationInv'
<1> USE DEF Declaration!FromCache
<1> DEFINE o == [copy EXCEPT !.finalizer = TRUE, !.version = @ + 1]
<1>1. UNCHANGED <<spec, seen, server>> /\ pc = "addFinalizer" /\ Declaration!Here(copy)
  BY Zenon DEF Declaration!AddFinalizer, Declaration!DeclarationInv, Declaration!TypeOK
<1>2. /\ Declaration!Here(o) /\ o.version = copy.version + 1 /\ o.spec = copy.spec
      /\ o.finalizer = TRUE /\ o.deleting = copy.deleting /\ o.exists = TRUE
  BY <1>1 DEF Declaration!Here
<1>3. CASE /\ object.version = copy.version
           /\ object' = o /\ pc' = "declare" /\ copy' = o
  <2>1. copy = object /\ seen = object
    BY <1>1, <1>3, CopyIsObject, Zenon
  <2>2. ~copy.finalizer /\ ~copy.deleting
    BY <1>1, Zenon DEF Declaration!DeclarationInv, Declaration!Lag
  <2> HIDE DEF o
  <2>3. Declaration!TypeOK'
    BY <1>1, <1>2, <1>3, Zenon DEF Declaration!TypeOK, Declaration!DeclarationInv
  <2>4. Declaration!Lag'
    BY <1>1, <1>2, <1>3, <2>1 DEF Declaration!Lag, Declaration!Follows, Declaration!Here
  <2>5. spec => Declaration!Settled'
    <3> SUFFICES ASSUME spec PROVE Declaration!Settled'
      OBVIOUS
    <3>1. object'.exists /\ object'.finalizer /\ object'.spec = object.spec /\ object.exists
      BY <1>1, <1>2, <1>3, <2>1, Zenon DEF Declaration!Here
    <3>2. ~Declaration!Declarable(seen)' /\ server.origin # "operator"
      BY <1>1, <2>1, <2>2, Zenon
         DEF Declaration!Declarable, Declaration!DeclarationInv, Declaration!Settled,
             Declaration!Current
    <3>3. Declaration!Declarable(copy)'
          /\ Declaration!Current(Declaration!GenerateQueueSettings(copy.spec))'
      BY <1>2, <1>3, <2>2, <3>1, Zenon DEF Declaration!Declarable, Declaration!Current
    <3> QED
      BY <1>1, <3>1, <3>2, <3>3, Zenon DEF Declaration!DeclarationInv, Declaration!Settled
  <2> QED
    BY <1>1, <2>3, <2>4, <2>5, Zenon DEF Declaration!DeclarationInv
<1>4. CASE Declaration!Fail /\ UNCHANGED object
  BY <1>1, <1>4, DeclarationReturn, Zenon DEF Declaration!Fail
<1> QED
  BY <1>2, <1>3, <1>4, Zenon DEF Declaration!AddFinalizer, Declaration!Write

\* DeclareFunc: what it declares is what the object says.
LEMMA DeclarationDeclare ==
  ASSUME Declaration!DeclarationInv, Declaration!DeclareFunc
  PROVE  Declaration!DeclarationInv'
<1> DEFINE settings == Declaration!GenerateQueueSettings(copy.spec)
<1>1. /\ UNCHANGED <<spec, object, seen>> /\ pc = "declare"
      /\ pc' = "idle" /\ copy' = Declaration!Gone
      /\ \/ server' = server
         \/ server' = [origin |-> "operator", settings |-> settings]
  BY Zenon DEF Declaration!DeclareFunc, Declaration!Return, Declaration!Fail
<1>2. CASE server' = server
  BY <1>1, <1>2, DeclarationReturn, Zenon
<1>3. CASE server' = [origin |-> "operator", settings |-> settings]
  <2>1. server'.origin = "operator" /\ server'.settings = settings
    BY <1>3, Zenon
  <2> HIDE DEF settings
  <2>2. Declaration!TypeOK' /\ Declaration!Lag'
    BY <1>1, Zenon
       DEF Declaration!DeclarationInv, Declaration!TypeOK, Declaration!Lag, Declaration!Away,
           Declaration!Gone, Declaration!FromCache
  <2>3. ASSUME spec PROVE Declaration!Settled'
    <3>1. Declaration!Current(settings)
      BY <1>1, <2>3, Zenon DEF Declaration!DeclarationInv, Declaration!Settled, settings
    <3>2. Declaration!Current(server.settings)'
      BY <1>1, <2>1, <3>1, Zenon DEF Declaration!Current
    <3>3. (Declaration!Declarable(seen)
             => Declaration!Current(Declaration!GenerateQueueSettings(seen.spec)))'
      BY <1>1, <2>3, Zenon DEF Declaration!DeclarationInv, Declaration!Settled, Declaration!Current
    <3> QED
      BY <1>1, <2>1, <2>3, <3>2, <3>3, ZenonT(30) DEF Declaration!DeclarationInv, Declaration!Settled
  <2> QED
    BY <1>1, <2>2, <2>3, Zenon DEF Declaration!DeclarationInv
<1> QED
  BY <1>1, <1>2, <1>3, Zenon

\* DeleteFunc: it deletes the queue or leaves it as it is.
LEMMA DeclarationDeleteFunc ==
  ASSUME Declaration!DeclarationInv, Declaration!DeleteFunc
  PROVE  Declaration!DeclarationInv'
<1>1. /\ UNCHANGED <<spec, object, seen>> /\ pc = "delete"
      /\ \/ server' = server \/ server' = Declaration!NoQueue
      /\ \/ pc' = "removeFinalizer" /\ copy' = copy
         \/ pc' = "idle" /\ copy' = Declaration!Gone
  BY Zenon DEF Declaration!DeleteFunc, Declaration!Fail
<1>2. Declaration!TypeOK' /\ Declaration!Lag'
  BY <1>1, SMTT(30) DEF Declaration!DeclarationInv, Declaration!TypeOK, Declaration!Lag,
     Declaration!Away,
     Declaration!Gone, Declaration!FromCache
<1>3. spec => Declaration!Settled'
  BY <1>1 DEF Declaration!DeclarationInv, Declaration!Settled, Declaration!Current,
     Declaration!NoQueue
<1> QED
  BY <1>1, <1>2, <1>3, Zenon DEF Declaration!DeclarationInv

\* The object goes: its queue, if it is still there, was to be retained.
LEMMA QueueIsLeft ==
  ASSUME Declaration!Spared, Declaration!RemoveFinalizer, copy = object,
         object.exists, ~object'.exists
  PROVE  /\ server'.origin # "operator"
         /\ server' = server \/ server'.origin = "retained"
<1>1. server' = Declaration!Left /\ pc = "removeFinalizer"
  BY Zenon DEF Declaration!RemoveFinalizer
<1>2. CASE server.origin = "operator"
  <2>1. server' = [origin |-> "retained", settings |-> server.settings]
    BY <1>1, <1>2, Zenon DEF Declaration!Left, Declaration!Spared
  <2> QED
    BY <2>1
<1>3. CASE server.origin # "operator"
  BY <1>1, <1>3, Zenon DEF Declaration!Left
<1> QED
  BY <1>2, <1>3, Zenon

\* removeFinalizer: the cache knows that the object was being deleted, and a queue that is
\* left is one to be retained.
LEMMA DeclarationRemoveFinalizer ==
  ASSUME Declaration!DeclarationInv, Declaration!Spared, Declaration!RemoveFinalizer
  PROVE  Declaration!DeclarationInv'
<1> USE DEF Declaration!FromCache
<1> DEFINE o == Declaration!Remove(copy)
<1>1. UNCHANGED <<spec, seen>> /\ pc = "removeFinalizer" /\ Declaration!Here(copy)
  BY Zenon DEF Declaration!RemoveFinalizer, Declaration!DeclarationInv, Declaration!TypeOK
<1>2. Declaration!Away(o) /\ o.version = copy.version + 1 /\ ~o.exists
  BY <1>1 DEF Declaration!Away, Declaration!Here, Declaration!Remove, Declaration!Gone
<1>3. CASE /\ object.version = copy.version
           /\ object' = o /\ Declaration!Return
  <2>1. copy = object /\ seen = object /\ copy.deleting
    BY <1>1, <1>3, CopyIsObject, Zenon DEF Declaration!DeclarationInv, Declaration!Lag
  <2>2. pc' = "idle" /\ copy' = Declaration!Gone
    BY <1>3, Zenon DEF Declaration!Return
  <2> HIDE DEF o
  <2>3. Declaration!TypeOK'
    BY <1>1, <1>2, <1>3, <2>2, ZenonT(30)
       DEF Declaration!TypeOK, Declaration!DeclarationInv, Declaration!Away, Declaration!Gone
  <2>4. Declaration!Lag'
    BY <1>1, <1>2, <1>3, <2>1, <2>2, SMTT(30) DEF Declaration!Lag, Declaration!Follows,
       Declaration!Here
  <2>5. /\ server'.origin # "operator"
        /\ server' = server \/ server'.origin = "retained"
    BY <1>1, <1>2, <1>3, <2>1, QueueIsLeft, Zenon DEF Declaration!Here
  <2>6. spec => Declaration!Settled'
    BY <1>1, <1>2, <1>3, <2>1, <2>2, <2>5, ZenonT(30)
       DEF Declaration!Settled, Declaration!Declarable, Declaration!DeclarationInv
  <2> QED
    BY <1>1, <2>3, <2>4, <2>6, Zenon DEF Declaration!DeclarationInv
<1>4. CASE Declaration!Fail /\ UNCHANGED object
  <2>1. server' = server
    BY <1>4, Zenon DEF Declaration!RemoveFinalizer
  <2> QED
    BY <1>1, <1>4, <2>1, DeclarationReturn, Zenon DEF Declaration!Fail
<1> QED
  BY <1>2, <1>3, <1>4, Zenon DEF Declaration!RemoveFinalizer, Declaration!Write

\* Others change the queue, and the work queue changes.
LEMMA DeclarationOthers ==
  ASSUME Declaration!DeclarationInv,
         Declaration!Resync \/ Declaration!QueueGoes \/ Declaration!ForeignQueue
           \/ UNCHANGED Declaration!vars
  PROVE  Declaration!DeclarationInv'
<1>1. /\ UNCHANGED <<spec, object, seen, pc, copy>>
      /\ server' = server \/ server'.origin \in {"none", "other"}
  BY DEF Declaration!Resync, Declaration!QueueGoes, Declaration!ForeignQueue, Declaration!NoQueue,
     Declaration!vars
<1>2. Declaration!TypeOK' /\ Declaration!Lag'
  BY <1>1, Zenon DEF Declaration!DeclarationInv, Declaration!TypeOK, Declaration!Lag
<1>3. spec => Declaration!Settled'
  BY <1>1, Zenon DEF Declaration!DeclarationInv, Declaration!Settled, Declaration!Current
<1> QED
  BY <1>1, <1>2, <1>3, ZenonT(30) DEF Declaration!DeclarationInv

\* DeleteFunc goes on to the finalizer when it has deleted the queue, or is to retain it.
LEMMA SparedNext ==
  ASSUME Declaration!Spared, [Declaration!Next]_(Declaration!vars)
  PROVE  Declaration!Spared'
<1>1. CASE Declaration!DeleteFunc
  <2>1. \/ pc' = "idle" \/ server' = Declaration!NoQueue
        \/ copy' = copy /\ copy.spec.retain
    BY <1>1, Zenon DEF Declaration!DeleteFunc, Declaration!Fail
  <2>2. Declaration!NoQueue.origin # "operator"
    BY Zenon DEF Declaration!NoQueue
  <2> QED
    BY <2>1, <2>2, Zenon DEF Declaration!Spared
<1>2. CASE Declaration!Get \/ Declaration!AddFinalizer \/ Declaration!DeclareFunc
             \/ Declaration!RemoveFinalizer
  <2>1. pc' # "removeFinalizer"
    BY <1>2, Zenon
       DEF Declaration!Get, Declaration!AddFinalizer, Declaration!DeclareFunc,
           Declaration!RemoveFinalizer, Declaration!Write, Declaration!Return, Declaration!Fail
  <2> QED
    BY <2>1, Zenon DEF Declaration!Spared
<1>3. CASE Declaration!Create \/ Declaration!Update \/ Declaration!Delete \/ Declaration!Sync
             \/ Declaration!Resync \/ UNCHANGED Declaration!vars
  <2>1. UNCHANGED <<pc, copy, server>>
    BY <1>3, Zenon
       DEF Declaration!Create, Declaration!Update, Declaration!Delete, Declaration!Sync,
           Declaration!Resync, Declaration!vars, Declaration!Worker
  <2> QED
    BY <2>1, Zenon DEF Declaration!Spared
<1>4. CASE Declaration!QueueGoes \/ Declaration!ForeignQueue
  <2>1. server'.origin # "operator"
    BY <1>4, SMT DEF Declaration!QueueGoes, Declaration!ForeignQueue, Declaration!NoQueue
  <2> QED
    BY <2>1, Zenon DEF Declaration!Spared
<1> QED
  BY <1>1, <1>2, <1>3, <1>4, Zenon DEF Declaration!Next, Declaration!Reconcile

\* The invariant is preserved by every step.
LEMMA DeclarationNext ==
  ASSUME Declaration!DeclarationInv, Declaration!Spared, [Declaration!Next]_(Declaration!vars)
  PROVE  Declaration!DeclarationInv'
BY DeclarationCreate, DeclarationUpdate, DeclarationDelete, DeclarationSync, DeclarationGet,
   DeclarationAddFinalizer, DeclarationDeclare, DeclarationDeleteFunc, DeclarationRemoveFinalizer,
   DeclarationOthers, Zenon, ZenonT(30)
   DEF Declaration!Next, Declaration!Reconcile

\* With webhooks, no declaration of the operator is refused because of one that it made
\* before, of this Queue or of an earlier one of its name that was not to be retained, nor
\* because a quorum queue is not durable.
THEOREM DeclarationsAgree == Declaration!Spec => []Declaration!NeverRefusesItself
<1>1. ASSUME Declaration!DeclarationInv PROVE Declaration!NeverRefusesItself
  <2> SUFFICES ASSUME spec, pc = "declare", server.origin \notin {"other", "retained"}
               PROVE  Declaration!Accepts(Declaration!GenerateQueueSettings(copy.spec))
    BY Zenon DEF Declaration!NeverRefusesItself
  <2>1. /\ object.exists /\ Declaration!ValidateCreate(object.spec)
        /\ Declaration!GenerateQueueSettings(object.spec)
             = Declaration!GenerateQueueSettings(copy.spec)
    BY <1>1, Zenon DEF Declaration!DeclarationInv, Declaration!Settled, Declaration!Current
  <2>2. CASE server.origin = "none"
    <3>1. Declaration!ValidateCreate(copy.spec)
      BY <2>1, SameSettings, Zenon
    <3> QED
      BY <2>2, <3>1, Zenon
         DEF Declaration!Accepts, Declaration!ValidateCreate, Declaration!GenerateQueueSettings
  <2>3. CASE server.origin = "operator"
    BY <1>1, <2>1, <2>3, ZenonT(30)
       DEF Declaration!DeclarationInv, Declaration!Settled, Declaration!Current, Declaration!Accepts
  <2> QED
    BY <1>1, <2>2, <2>3, Zenon DEF Declaration!DeclarationInv, Declaration!Settled
<1>2. Declaration!Init => Declaration!Spared
  BY Zenon DEF Declaration!Init, Declaration!Spared
<1> QED
  BY <1>1, <1>2, DeclarationInit, DeclarationNext, SparedNext, PTL DEF Declaration!Spec

\* People create, edit and delete the Queue; they leave finalizers to the worker.
LEMMA OwnedPeople ==
  ASSUME Declaration!OwnedInv,
         Declaration!Create \/ Declaration!Update \/ Declaration!Delete
  PROVE  Declaration!Owned'
<1>1. UNCHANGED <<seen, pc, copy, server>>
  BY Zenon DEF Declaration!Create, Declaration!Update, Declaration!Delete, Declaration!Worker
<1>2. Declaration!TypeOK /\ Declaration!Owned
  BY Zenon DEF Declaration!OwnedInv, Declaration!DeclarationInv
<1>3. /\ object.finalizer => object'.finalizer
      /\ object'.finalizer => object.finalizer /\ (object.deleting => object'.deleting)
  <2>1. CASE Declaration!Create
    <3>1. ~object.finalizer
      BY <1>2, <2>1, Zenon DEF Declaration!Create, Declaration!TypeOK, Declaration!Here,
         Declaration!Away
    <3>2. PICK s : object' = [exists |-> TRUE, deleting |-> FALSE, finalizer |-> FALSE,
                              version |-> object.version + 1, spec |-> s]
      BY <2>1, Zenon DEF Declaration!Create
    <3>3. ~object'.finalizer
      BY <3>2, Zenon
    <3> QED
      BY <3>1, <3>3, Zenon
  <2>2. CASE Declaration!Update
    <3>1. Declaration!Here(object)
      BY <1>2, <2>2, Zenon DEF Declaration!Update, Declaration!TypeOK, Declaration!Away
    <3>2. PICK s : object' = [object EXCEPT !.spec = s, !.version = @ + 1]
      BY <2>2, Zenon DEF Declaration!Update
    <3>3. object'.finalizer = object.finalizer /\ object'.deleting = object.deleting
      BY <3>1, <3>2, Zenon DEF Declaration!Here
    <3> QED
      BY <3>3, Zenon
  <2>3. CASE Declaration!Delete
    <3>1. Declaration!Here(object)
      BY <1>2, <2>3, Zenon DEF Declaration!Delete, Declaration!TypeOK, Declaration!Away
    <3>2. CASE object.finalizer
      <4>1. object' = [object EXCEPT !.deleting = TRUE, !.version = @ + 1]
        BY <2>3, <3>2, Zenon DEF Declaration!Delete
      <4>2. object'.finalizer = object.finalizer /\ object'.deleting = TRUE
        BY <3>1, <4>1, Zenon DEF Declaration!Here
      <4> QED
        BY <3>2, <4>2, Zenon
    <3>3. CASE ~object.finalizer
      <4>1. ~object'.finalizer
        BY <2>3, <3>3, Zenon DEF Declaration!Delete, Declaration!Remove, Declaration!Gone
      <4> QED
        BY <3>3, <4>1, Zenon
    <3> QED
      BY <3>2, <3>3, Zenon
  <2> QED
    BY <2>1, <2>2, <2>3, Zenon
<1> QED
  BY <1>1, <1>2, <1>3, Zenon DEF Declaration!Owned, Declaration!Declarable

\* The cache and the worker's copy: what they say of the object is true of it.
LEMMA OwnedReads ==
  ASSUME Declaration!OwnedInv, Declaration!Sync \/ Declaration!Get
  PROVE  Declaration!Owned'
<1>1. Declaration!TypeOK /\ Declaration!Owned /\ UNCHANGED <<object, server>>
  BY Zenon DEF Declaration!OwnedInv, Declaration!DeclarationInv, Declaration!Sync, Declaration!Get
<1>2. CASE Declaration!Sync
  <2>1. seen' = object /\ pc' = pc
    BY <1>2, Zenon DEF Declaration!Sync
  <2> QED
    BY <1>1, <2>1, Zenon DEF Declaration!Owned, Declaration!Declarable
<1>3. CASE Declaration!Get
  <2>1. UNCHANGED seen
    BY <1>3, Zenon DEF Declaration!Get
  <2>2. \/ pc' = "idle" \/ pc' = "addFinalizer"
        \/ pc' = "delete" /\ seen.deleting
        \/ pc' = "declare" /\ Declaration!Declarable(seen)
    <3>1. ~seen.exists => ~seen.deleting /\ ~seen.finalizer
      BY <1>1, Zenon DEF Declaration!TypeOK, Declaration!Here, Declaration!Away
    <3> QED
      BY <1>3, <3>1, Zenon DEF Declaration!Get, Declaration!Declarable
  <2> QED
    BY <1>1, <2>1, <2>2, Zenon DEF Declaration!Owned, Declaration!Declarable
<1> QED
  BY <1>2, <1>3, Zenon

\* Reconcile returns, or others change the queue: no queue of the operator appears.
LEMMA OwnedStays ==
  ASSUME Declaration!OwnedInv, UNCHANGED <<object, seen>>, pc' \in {"idle", pc},
         server' = server \/ server'.origin # "operator"
  PROVE  Declaration!Owned'
BY Zenon DEF Declaration!OwnedInv, Declaration!Owned, Declaration!Declarable

\* The worker's writes of the object: it is the one that the cache has.
LEMMA OwnedWrites ==
  ASSUME Declaration!OwnedInv, Declaration!AddFinalizer \/ Declaration!RemoveFinalizer
  PROVE  Declaration!Owned'
<1>1. /\ UNCHANGED seen /\ pc \in {"addFinalizer", "removeFinalizer"}
      /\ Declaration!DeclarationInv /\ Declaration!Owned /\ Declaration!Here(copy)
  BY Zenon DEF Declaration!AddFinalizer, Declaration!RemoveFinalizer, Declaration!OwnedInv,
     Declaration!DeclarationInv, Declaration!TypeOK
<1>2. CASE Declaration!Fail /\ UNCHANGED object
  <2>1. server' = server
    BY <1>2, Zenon DEF Declaration!AddFinalizer, Declaration!RemoveFinalizer
  <2> QED
    BY <1>1, <1>2, <2>1, OwnedStays, Zenon DEF Declaration!Fail
<1>3. ASSUME object.version = copy.version PROVE copy = object /\ seen = object
  BY <1>1, <1>3, CopyIsObject, Zenon DEF Declaration!FromCache
<1>4. CASE /\ pc = "addFinalizer" /\ object.version = copy.version
           /\ object' = [copy EXCEPT !.finalizer = TRUE, !.version = @ + 1] /\ pc' = "declare"
  <2>1. ~copy.finalizer /\ ~copy.deleting
    BY <1>1, <1>4, Zenon DEF Declaration!DeclarationInv, Declaration!Lag
  <2>2. object'.finalizer = TRUE
    BY <1>1, <1>4, Zenon DEF Declaration!Here
  <2>3. ~seen'.deleting /\ ~Declaration!Declarable(seen)' /\ server'.origin # "operator"
    <3>1. server' = server
      BY <1>4, Zenon DEF Declaration!AddFinalizer, Declaration!RemoveFinalizer
    <3> QED
      BY <1>1, <1>3, <1>4, <2>1, <3>1, Zenon DEF Declaration!Owned, Declaration!Declarable
  <2> QED
    BY <1>4, <2>2, <2>3, Zenon DEF Declaration!Owned
<1>5. CASE /\ pc = "removeFinalizer" /\ object.version = copy.version
           /\ object' = Declaration!Remove(copy) /\ pc' = "idle"
  <2>1. copy.deleting
    BY <1>1, <1>5, Zenon DEF Declaration!DeclarationInv, Declaration!Lag
  <2>2. ~object'.finalizer /\ ~object'.exists
    BY <1>5, Zenon DEF Declaration!Remove, Declaration!Gone
  <2>4. server'.origin # "operator"
    <3>1. Declaration!RemoveFinalizer /\ copy = object /\ object.exists
      BY <1>1, <1>3, <1>5, Zenon DEF Declaration!AddFinalizer, Declaration!Here
    <3> QED
      BY <2>2, <3>1, QueueIsLeft, Zenon DEF Declaration!OwnedInv
  <2>3. ~Declaration!Declarable(seen)'
    BY <1>1, <1>3, <1>5, <2>1, Zenon DEF Declaration!Declarable
  <2> QED
    BY <1>1, <1>5, <2>1, <2>2, <2>3, <2>4, Zenon DEF Declaration!Owned
<1>6. /\ [copy EXCEPT !.finalizer = TRUE, !.version = @ + 1].exists = TRUE
      /\ Declaration!Remove(copy).exists = FALSE
  BY <1>1, Zenon DEF Declaration!Here, Declaration!Remove, Declaration!Gone
<1> QED
  BY <1>2, <1>4, <1>5, <1>6, Zenon DEF Declaration!AddFinalizer, Declaration!RemoveFinalizer,
     Declaration!Write, Declaration!Return

\* The worker's calls to the server: it declares for the Queue that exists.
LEMMA OwnedCalls ==
  ASSUME Declaration!OwnedInv, Declaration!DeclareFunc \/ Declaration!DeleteFunc
  PROVE  Declaration!Owned'
<1>1. UNCHANGED <<object, seen>> /\ Declaration!Owned
  BY Zenon DEF Declaration!DeclareFunc, Declaration!DeleteFunc, Declaration!OwnedInv
<1>2. CASE Declaration!DeclareFunc
  <2>1. pc = "declare" /\ pc' = "idle"
    BY <1>2, Zenon DEF Declaration!DeclareFunc, Declaration!Return, Declaration!Fail
  <2> QED
    BY <1>1, <2>1, Zenon DEF Declaration!Owned, Declaration!Declarable
<1>3. CASE Declaration!DeleteFunc
  <2>1. /\ pc = "delete"
        /\ pc' \in {"idle", "removeFinalizer"}
        /\ server' = server \/ server' = Declaration!NoQueue
    BY <1>3, Zenon DEF Declaration!DeleteFunc, Declaration!Fail
  <2>2. Declaration!NoQueue.origin # "operator"
    BY Zenon DEF Declaration!NoQueue
  <2> QED
    BY <1>1, <2>1, <2>2, Zenon DEF Declaration!Owned, Declaration!Declarable
<1> QED
  BY <1>2, <1>3, Zenon

\* The invariant holds throughout.
LEMMA OwnedHolds == Declaration!Spec => []Declaration!OwnedInv
<1>1. ASSUME Declaration!Init PROVE Declaration!OwnedInv
  <2>1. Declaration!Owned
    BY <1>1, Zenon
       DEF Declaration!Init, Declaration!Owned, Declaration!Declarable, Declaration!Gone,
           Declaration!NoQueue
  <2> QED
    BY <1>1, <2>1, DeclarationInit, Zenon
       DEF Declaration!OwnedInv, Declaration!Init, Declaration!Spared
<1>2. ASSUME Declaration!OwnedInv, [Declaration!Next]_(Declaration!vars)
      PROVE  Declaration!OwnedInv'
  <2>1. Declaration!DeclarationInv' /\ Declaration!Spared'
    BY <1>2, DeclarationNext, SparedNext, Zenon DEF Declaration!OwnedInv
  <2>2. ASSUME Declaration!Resync \/ Declaration!QueueGoes \/ Declaration!ForeignQueue
                 \/ UNCHANGED Declaration!vars
        PROVE  Declaration!Owned'
    <3>1. /\ UNCHANGED <<object, seen, pc>>
          /\ server' = server \/ server'.origin # "operator"
      BY <2>2, SMT
         DEF Declaration!Resync, Declaration!QueueGoes, Declaration!ForeignQueue,
             Declaration!NoQueue, Declaration!vars
    <3> QED
      BY <1>2, <3>1, OwnedStays, Zenon
  <2>3. Declaration!Owned'
    BY <1>2, <2>2, OwnedPeople, OwnedReads, OwnedWrites, OwnedCalls, Zenon
       DEF Declaration!Next, Declaration!Reconcile
  <2> QED
    BY <2>1, <2>3, Zenon DEF Declaration!OwnedInv
<1> QED
  BY <1>1, <1>2, PTL DEF Declaration!Spec

\* Webhooks or not, a queue that the operator declared has a Queue with the finalizer,
\* until a Queue is removed that says retain: nothing else leaves a queue behind, however
\* old the copies are that the worker declares from and deletes by.
THEOREM QueuesAreOwned == Declaration!Spec => []Declaration!QueueIsOwned
<1>1. ASSUME Declaration!OwnedInv PROVE Declaration!QueueIsOwned
  BY <1>1, Zenon
     DEF Declaration!OwnedInv, Declaration!Owned, Declaration!DeclarationInv, Declaration!TypeOK,
         Declaration!Here, Declaration!Away, Declaration!QueueIsOwned
<1> QED
  BY <1>1, OwnedHolds, PTL

\* Webhooks or not, the operator deletes the queue that it declared only while the Queue
\* that exists is being deleted, however old the copies are that it acts on.
THEOREM QueuesTakenWhenDeleted ==
  Declaration!Spec => [][Declaration!TakenWhenDeleted]_(Declaration!vars)
<1>1. ASSUME Declaration!OwnedInv, [Declaration!Next]_(Declaration!vars)
      PROVE  [Declaration!TakenWhenDeleted]_(Declaration!vars)
  <2> SUFFICES ASSUME Declaration!Reconcile, server.origin = "operator",
                      server'.origin = "none"
               PROVE  object.exists /\ object.deleting
    BY <1>1, Zenon DEF Declaration!TakenWhenDeleted
  <2>1. ~Declaration!DeclareFunc
    <3>1. \A s : [origin |-> "operator", settings |-> s].origin # "none"
      BY Zenon
    <3> QED
      BY <3>1, Zenon DEF Declaration!DeclareFunc
  <2>2. ~Declaration!RemoveFinalizer
    <3>1. [origin |-> "retained", settings |-> server.settings].origin # "none"
      BY Zenon
    <3> QED
      BY <3>1, Zenon DEF Declaration!RemoveFinalizer, Declaration!Left
  <2>3. Declaration!DeleteFunc
    BY <2>1, <2>2, Zenon DEF Declaration!Reconcile, Declaration!Get, Declaration!AddFinalizer
  <2> QED
    BY <1>1, <2>3, Zenon
       DEF Declaration!DeleteFunc, Declaration!OwnedInv, Declaration!Owned,
           Declaration!DeclarationInv, Declaration!TypeOK, Declaration!Here, Declaration!Away
<1> QED
  BY <1>1, OwnedHolds, PTL DEF Declaration!Spec
--------------------------------------------------------------------------------
(***************************************************************************)
(* QueueDeletion: DeleteFunc of a Queue.                                   *)
(***************************************************************************)

\* A queue that exists, and nothing destroyed so far.
LEMMA DeletionInit ==
  ASSUME Deletion!Init
  PROVE  Deletion!DeletionInv
BY DEF Deletion!Init, Deletion!DeletionInv, Deletion!TypeOK, Deletion!Looked, Deletion!Once,
   Deletion!DestroysOnlyLatecomers, Deletion!Settings, Deletion!Queues,
       Deletion!Counts, Deletion!NoQueue, Deletion!Labels

\* DeleteFunc deletes what it may, as far as it saw.
LEMMA DeletionFunc ==
  ASSUME Deletion!DeletionInv, Deletion!DeleteFunc
  PROVE  Deletion!DeletionInv'
<1> USE DEF Deletion!DeletionInv, Deletion!TypeOK, Deletion!Labels
<1>1. CASE Deletion!Start \/ Deletion!Retry
  <2>1. UNCHANGED <<spec, server, history, extra>>
    BY <1>1, Zenon DEF Deletion!Start, Deletion!Retry
  <2> QED
    BY <1>1, <2>1, Zenon
       DEF Deletion!Start, Deletion!Retry, Deletion!Looked, Deletion!Once,
           Deletion!DestroysOnlyLatecomers, Deletion!LooksFirst
<1>2. CASE Deletion!GetQueue
  <2>1. UNCHANGED <<spec, server, history>> /\ pc = "get" /\ pc' \in {"delete", "failed"}
    BY <1>2, Zenon DEF Deletion!GetQueue
  <2>2. pc' = "delete" => server.exists /\ Deletion!MayDelete(server)
    BY <1>2, Zenon DEF Deletion!GetQueue
  <2>3. ~history.exists => history.messages = 0 /\ history.consumers = 0
    BY DEF Deletion!Once, Deletion!NoQueue
  <2>4. history.exists => extra' = extra
    BY <1>2, Zenon DEF Deletion!GetQueue, Deletion!Once
  <2>5. Deletion!Looked'
    BY <2>1, <2>2, Zenon
       DEF Deletion!Looked, Deletion!LooksFirst, Deletion!MayDelete, Deletion!Settings,
           Deletion!Counts
  <2> QED
    BY <2>1, <2>3, <2>4, <2>5 DEF Deletion!Once, Deletion!DestroysOnlyLatecomers,
       Deletion!LooksFirst
<1>3. CASE Deletion!DeleteQueue
  <2>1. UNCHANGED <<spec, extra>> /\ pc = "delete" /\ pc' \in {"done", "failed"}
    BY <1>3, Zenon DEF Deletion!DeleteQueue
  <2>2. CASE UNCHANGED <<server, history>>
    BY <2>1, <2>2, Zenon
       DEF Deletion!Looked, Deletion!Once, Deletion!DestroysOnlyLatecomers, Deletion!LooksFirst
  <2>3. CASE server' = Deletion!NoQueue /\ history' = server /\ server.exists /\ ~Deletion!Refused
    <3>1. Deletion!Once' /\ Deletion!TypeOK' /\ Deletion!Looked'
      BY <2>1, <2>3, Zenon DEF Deletion!Once, Deletion!NoQueue, Deletion!Counts, Deletion!Looked
    <3>2. spec.deleteIfEmpty /\ server.messages > 0 => Deletion!LooksFirst /\ "messages" \in extra
      BY <2>1, <2>3, Zenon
         DEF Deletion!Looked, Deletion!LooksFirst, Deletion!Refused, Deletion!DeleteOptions,
             Deletion!Settings
    <3>3. spec.deleteIfUnused /\ server.consumers > 0
            => Deletion!LooksFirst /\ "consumers" \in extra
      BY <2>1, <2>3, ZenonT(30)
         DEF Deletion!Looked, Deletion!LooksFirst, Deletion!Refused, Deletion!DeleteOptions,
             Deletion!Settings
    <3> QED
      BY <2>1, <2>3, <3>1, <3>2, <3>3, ZenonT(30)
         DEF Deletion!DestroysOnlyLatecomers, Deletion!LooksFirst
  <2> QED
    BY <1>3, <2>2, <2>3, Zenon DEF Deletion!DeleteQueue
<1> QED
  BY <1>1, <1>2, <1>3, Zenon DEF Deletion!DeleteFunc

\* What other clients add comes late.
LEMMA DeletionOutside ==
  ASSUME Deletion!DeletionInv, NEW q \in Deletion!Counts, Deletion!Outside(q)
  PROVE  Deletion!DeletionInv'
<1> USE DEF Deletion!DeletionInv, Deletion!TypeOK
<1>1. UNCHANGED <<spec, pc, history>> /\ server' = q /\ server.exists
  BY Zenon DEF Deletion!Outside
<1>2. /\ extra \subseteq extra'
      /\ q.messages > server.messages => "messages" \in extra'
      /\ q.consumers > server.consumers => "consumers" \in extra'
  BY Zenon DEF Deletion!Outside
<1>3. history = Deletion!NoQueue /\ ~history.exists
  BY <1>1, Zenon DEF Deletion!Once, Deletion!NoQueue
<1>4. Deletion!Looked'
  BY <1>1, <1>2 DEF Deletion!Looked, Deletion!LooksFirst, Deletion!Counts
<1> QED
  BY <1>1, <1>3, <1>4 DEF Deletion!Once, Deletion!DestroysOnlyLatecomers, Deletion!LooksFirst,
     Deletion!NoQueue

\* A step of anybody.
LEMMA DeletionNext ==
  ASSUME Deletion!DeletionInv, [Deletion!Next]_(Deletion!vars)
  PROVE  Deletion!DeletionInv'
<1>1. CASE Deletion!Publish \/ Deletion!Consume \/ Deletion!Subscribe \/ Deletion!Unsubscribe
           \/ Deletion!Vanish
  <2>1. server \in Deletion!Counts
    BY Zenon DEF Deletion!DeletionInv, Deletion!TypeOK
  <2>2. PICK q \in Deletion!Counts : Deletion!Outside(q)
    <3>1. ASSUME NEW n \in Nat
          PROVE  [server EXCEPT !.messages = n] \in Deletion!Counts
                   /\ [server EXCEPT !.consumers = n] \in Deletion!Counts
      BY <2>1, Zenon DEF Deletion!Counts
    <3>2. Deletion!NoQueue \in Deletion!Counts /\ server.messages \in Nat
          /\ server.consumers \in Nat
      BY <2>1, Zenon DEF Deletion!Counts, Deletion!NoQueue
    <3>3. CASE Deletion!Vanish
      BY <3>2, <3>3, Zenon DEF Deletion!Vanish
    <3>4. CASE Deletion!Publish \/ Deletion!Subscribe
      <4>1. server.messages + 1 \in Nat /\ server.consumers + 1 \in Nat
        BY <3>2
      <4> QED
        BY <3>1, <3>4, <4>1, Zenon DEF Deletion!Publish, Deletion!Subscribe
    <3>5. CASE Deletion!Consume
      <4>1. server.messages - 1 \in Nat
        BY <3>2, <3>5 DEF Deletion!Consume
      <4> QED
        BY <3>1, <3>5, <4>1, Zenon DEF Deletion!Consume
    <3>6. CASE Deletion!Unsubscribe
      <4>1. server.consumers - 1 \in Nat
        BY <3>2, <3>6 DEF Deletion!Unsubscribe
      <4> QED
        BY <3>1, <3>6, <4>1, Zenon DEF Deletion!Unsubscribe
    <3> QED
      BY <1>1, <3>3, <3>4, <3>5, <3>6, Zenon
  <2> QED
    BY <2>2, DeletionOutside, Zenon
<1>2. CASE UNCHANGED Deletion!vars
  BY <1>2, Zenon
     DEF Deletion!vars, Deletion!DeletionInv, Deletion!TypeOK, Deletion!Looked, Deletion!Once,
         Deletion!DestroysOnlyLatecomers, Deletion!LooksFirst
<1> QED
  BY <1>1, <1>2, DeletionFunc, Zenon DEF Deletion!Next

\* The server's conditions, or DeleteFunc's look before it deletes, protect what the queue
\* holds; nothing is deleted under retain.
THEOREM OnlyLatecomers == Deletion!Spec => []Deletion!DestroysOnlyLatecomers
<1>1. Deletion!DeletionInv => Deletion!DestroysOnlyLatecomers
  BY Zenon DEF Deletion!DeletionInv
<1>2. Deletion!DeletionInv /\ [Deletion!Next]_(Deletion!vars) => Deletion!DeletionInv'
  BY DeletionNext, Zenon
<1> QED
  BY <1>1, <1>2, DeletionInit, PTL DEF Deletion!Spec
--------------------------------------------------------------------------------
(***************************************************************************)
(* BindingDeletion: DeleteFunc of a Binding.                               *)
(***************************************************************************)

\* Different bindings have different properties keys: escaping keeps the empty routing key
\* apart from the one that looks like its key.
LEMMA KeysDiffer ==
  ASSUME NEW a \in Unbinding!Bindings, NEW b \in Unbinding!Bindings,
         Unbinding!ServerKey(a) = Unbinding!ServerKey(b)
  PROVE  a = b
<1>1. /\ a = [routingKey |-> a.routingKey, arguments |-> a.arguments]
      /\ b = [routingKey |-> b.routingKey, arguments |-> b.arguments]
      /\ a.routingKey \in Unbinding!RoutingKeys /\ b.routingKey \in Unbinding!RoutingKeys
  BY Zenon DEF Unbinding!Bindings
<1>2. ASSUME NEW r \in Unbinding!RoutingKeys, NEW s \in Unbinding!RoutingKeys,
             Unbinding!Escaped(r) = Unbinding!Escaped(s)
      PROVE  r = s
  <2>1. Unbinding!Escaped("") = "~" /\ Unbinding!Escaped("~") = "%7E"
        /\ Unbinding!Escaped("%7E") = "%257E" /\ Unbinding!Escaped("key") = "key"
    BY Zenon DEF Unbinding!Escaped
  <2> QED
    BY <1>2, <2>1, Zenon DEF Unbinding!RoutingKeys
<1>3. ASSUME NEW r \in Unbinding!RoutingKeys PROVE Unbinding!Escaped(r) # ""
  BY Zenon DEF Unbinding!RoutingKeys, Unbinding!Escaped
<1>4. a.arguments = b.arguments
  BY Zenon DEF Unbinding!ServerKey
<1>5. a.routingKey = b.routingKey
  <2>1. CASE a.arguments = NoArguments
    BY <1>1, <1>2, <1>4, <2>1, Zenon DEF Unbinding!ServerKey
  <2>2. CASE a.arguments # NoArguments
    <3> DEFINE Text(r) == IF r = "" THEN "" ELSE Unbinding!Escaped(r)
    <3>1. Text(a.routingKey) = Text(b.routingKey)
      BY <1>4, <2>2, Zenon DEF Unbinding!ServerKey
    <3> QED
      BY <1>1, <1>2, <1>3, <3>1, Zenon
  <2> QED
    BY <2>1, <2>2, Zenon
<1> QED
  BY <1>1, <1>4, <1>5, Zenon

\* GeneratePropertiesKey is the server's key of a binding without arguments, be it the one
\* that the routing key is mistaken for.
LEMMA GeneratedKey ==
  ASSUME spec.routingKey \in Unbinding!RoutingKeys, spec.arguments = Nil
  PROVE  Unbinding!GeneratePropertiesKey(spec)
           = Unbinding!ServerKey(Unbinding!Addressed(spec))
<1>1. CASE Unbinding!Mistakable(spec)
  <2>1. /\ Unbinding!Addressed(spec).routingKey = "~"
        /\ Unbinding!Addressed(spec).arguments = NoArguments
    BY <1>1, Zenon DEF Unbinding!Addressed
  <2> QED
    BY <1>1, <2>1, Zenon
       DEF Unbinding!GeneratePropertiesKey, Unbinding!ServerKey, Unbinding!Escaped,
           Unbinding!Mistakable
<1>2. CASE ~Unbinding!Mistakable(spec)
  <2>1. spec.routingKey \in {"", "key", "~"}
    BY <1>2, Zenon DEF Unbinding!RoutingKeys, Unbinding!Mistakable
  <2>2. /\ Unbinding!Addressed(spec).routingKey = spec.routingKey
        /\ Unbinding!Addressed(spec).arguments = NoArguments
    BY <1>2, Zenon DEF Unbinding!Addressed, Unbinding!GenerateBindingInfo
  <2> QED
    BY <2>1, <2>2, Zenon
       DEF Unbinding!GeneratePropertiesKey, Unbinding!ServerKey, Unbinding!Escaped
<1> QED
  BY <1>1, <1>2, Zenon

\* The comparison of findBindingInfo finds the binding of the spec and no other.
LEMMA MatchIsOwn ==
  ASSUME NEW b \in Unbinding!Bindings, spec.arguments # Nil
  PROVE  Unbinding!IsMatch(b) <=> b = Unbinding!GenerateBindingInfo(spec)
BY DEF Unbinding!Bindings, Unbinding!IsMatch, Unbinding!GenerateBindingInfo

\* What has the key of the binding is the binding.
LEMMA FoundIsOwn ==
  ASSUME Unbinding!UnbindingInv, pc = "delete"
  PROVE  {b \in server : Unbinding!ServerKey(b) = copy}
           = server \cap {Unbinding!Addressed(spec)}
<1>1. \A b \in server : Unbinding!ServerKey(b) = copy <=> b = Unbinding!Addressed(spec)
  BY KeysDiffer, Zenon DEF Unbinding!UnbindingInv
<1> QED
  BY <1>1, Zenon

\* The binding is on the server.
LEMMA UnbindingInit ==
  ASSUME Unbinding!Init
  PROVE  Unbinding!UnbindingInv
<1>1. spec.routingKey \in Unbinding!RoutingKeys /\ pc = "start" /\ history = {}
  BY Zenon DEF Unbinding!Init
<1>2. server \subseteq Unbinding!Bindings /\ Unbinding!GenerateBindingInfo(spec) \in server
  BY Zenon DEF Unbinding!Init
<1>3. Unbinding!Addressed(spec) \in Unbinding!Bindings
  <2>1. Unbinding!GenerateBindingInfo(spec) \in Unbinding!Bindings
    BY <1>2, Zenon
  <2>2. ASSUME Unbinding!Mistakable(spec) PROVE NoArguments \in Arguments
    <3>1. Unbinding!GenerateBindingInfo(spec).arguments = NoArguments
      BY <2>2, Zenon DEF Unbinding!GenerateBindingInfo, Unbinding!Mistakable
    <3> QED
      BY <2>1, <3>1, Zenon DEF Unbinding!Bindings
  <2>3. "~" \in Unbinding!RoutingKeys
    BY Zenon DEF Unbinding!RoutingKeys
  <2> QED
    BY <2>1, <2>2, <2>3, Zenon DEF Unbinding!Addressed, Unbinding!Bindings
<1> QED
  BY <1>1, <1>2, <1>3, Zenon DEF Unbinding!UnbindingInv, Unbinding!RemovesOnlyItsOwn

\* The invariant is preserved by every step.
LEMMA UnbindingNext ==
  ASSUME Unbinding!UnbindingInv, [Unbinding!Next]_(Unbinding!vars)
  PROVE  Unbinding!UnbindingInv'
<1>0. UNCHANGED spec
  BY Zenon
     DEF Unbinding!Next, Unbinding!DeleteFunc, Unbinding!Start, Unbinding!FindBindingInfo,
         Unbinding!DeleteBinding, Unbinding!Retry, Unbinding!Bind, Unbinding!Unbind,
         Unbinding!DeleteVhost, Unbinding!Outside, Unbinding!vars
<1>6. /\ Unbinding!Addressed(spec)' = Unbinding!Addressed(spec)
      /\ Unbinding!GenerateBindingInfo(spec)' = Unbinding!GenerateBindingInfo(spec)
  BY <1>0, Zenon
     DEF Unbinding!Addressed, Unbinding!Mistakable, Unbinding!GenerateBindingInfo
<1> USE DEF Unbinding!UnbindingInv, Unbinding!RemovesOnlyItsOwn
<1>1. CASE Unbinding!Start
  <2>1. UNCHANGED <<server, history>>
    BY <1>1, Zenon DEF Unbinding!Start
  <2>2. CASE spec.arguments = Nil
    BY <1>0, <1>1, <1>6, <2>1, <2>2, GeneratedKey, ZenonT(30) DEF Unbinding!Start
  <2>3. CASE spec.arguments # Nil
    BY <1>0, <1>1, <1>6, <2>1, <2>3, Zenon DEF Unbinding!Start
  <2> QED
    BY <2>2, <2>3, Zenon
<1>2. CASE Unbinding!FindBindingInfo
  <2>1. UNCHANGED <<server, history>> /\ pc = "list" /\ pc' \in {"failed", "done", "delete"}
    BY <1>2, Zenon DEF Unbinding!FindBindingInfo
  <2>2. ASSUME pc' = "delete" PROVE copy' = Unbinding!ServerKey(Unbinding!Addressed(spec))
    <3>1. PICK b \in server : Unbinding!IsMatch(b) /\ copy' = Unbinding!ServerKey(b)
      BY <1>2, <2>2, Zenon DEF Unbinding!FindBindingInfo
    <3> QED
      BY <2>1, <3>1, MatchIsOwn, Zenon DEF Unbinding!Addressed, Unbinding!Mistakable
  <2> QED
    BY <1>0, <1>6, <2>1, <2>2, Zenon
<1>3. CASE Unbinding!DeleteBinding
  <2>1. pc = "delete" /\ pc' \in {"done", "failed"}
    BY <1>3, Zenon DEF Unbinding!DeleteBinding
  <2>2. \/ UNCHANGED <<server, history>>
        \/ /\ server' = server \ {b \in server : Unbinding!ServerKey(b) = copy}
           /\ history' = history \cup {b \in server : Unbinding!ServerKey(b) = copy}
    BY <1>3, Zenon DEF Unbinding!DeleteBinding
  <2> QED
    BY <1>0, <1>6, <2>1, <2>2, FoundIsOwn, Zenon
<1>4. CASE Unbinding!Retry \/ UNCHANGED Unbinding!vars
  BY <1>0, <1>4, <1>6, Zenon DEF Unbinding!Retry, Unbinding!vars
<1>5. CASE (\E b \in Unbinding!Bindings \ server : Unbinding!Bind(b))
           \/ (\E b \in server : Unbinding!Unbind(b)) \/ Unbinding!DeleteVhost
  <2>1. UNCHANGED <<pc, copy, history>> /\ server' \subseteq Unbinding!Bindings
    BY <1>5, Zenon DEF Unbinding!Bind, Unbinding!Unbind, Unbinding!DeleteVhost, Unbinding!Outside
  <2> QED
    BY <1>0, <1>6, <2>1, Zenon
<1> QED
  BY <1>1, <1>2, <1>3, <1>4, <1>5, ZenonT(30) DEF Unbinding!Next, Unbinding!DeleteFunc

\* The invariant holds throughout.
LEMMA UnbindingHolds == Unbinding!Spec => []Unbinding!UnbindingInv
<1>1. Unbinding!UnbindingInv /\ [Unbinding!Next]_(Unbinding!vars) => Unbinding!UnbindingInv'
  BY UnbindingNext, Zenon
<1> QED
  BY <1>1, UnbindingInit, PTL DEF Unbinding!Spec

\* The list, or the generated properties key, leads DeleteFunc to its own binding only, or
\* to the one that its routing key is mistaken for.
THEOREM OwnBindingOnly == Unbinding!Spec => []Unbinding!RemovesOnlyItsOwn
<1>1. Unbinding!UnbindingInv => Unbinding!RemovesOnlyItsOwn
  BY Zenon DEF Unbinding!UnbindingInv
<1> QED
  BY <1>1, UnbindingHolds, PTL

\* When DeleteFunc returns nil, the binding is not there, unless its routing key is
\* mistaken for another one's.
THEOREM UnboundAtEnd == Unbinding!Spec => [][Unbinding!DoneMeansGone]_(Unbinding!vars)
<1>1. ASSUME Unbinding!UnbindingInv, Unbinding!Next PROVE Unbinding!DoneMeansGone
  <2> SUFFICES ASSUME pc' = "done", pc # "done", ~Unbinding!Mistakable(spec)
               PROVE  Unbinding!GenerateBindingInfo(spec) \notin server'
    BY Zenon DEF Unbinding!DoneMeansGone
  <2>1. Unbinding!FindBindingInfo \/ Unbinding!DeleteBinding
    BY <1>1, Zenon
       DEF Unbinding!Next, Unbinding!DeleteFunc, Unbinding!Start, Unbinding!Retry, Unbinding!Bind,
           Unbinding!Unbind, Unbinding!DeleteVhost, Unbinding!Outside
  <2>2. CASE Unbinding!FindBindingInfo
    <3>1. server' = server /\ pc = "list" /\ ~ \E b \in server : Unbinding!IsMatch(b)
      BY <2>2, Zenon DEF Unbinding!FindBindingInfo
    <3> QED
      BY <1>1, <3>1, MatchIsOwn, ZenonT(30) DEF Unbinding!UnbindingInv
  <2>3. CASE Unbinding!DeleteBinding
    <3>1. pc = "delete" /\ server' = server \ {b \in server : Unbinding!ServerKey(b) = copy}
      BY <2>3, Zenon DEF Unbinding!DeleteBinding, Unbinding!Deleted
    <3> QED
      BY <1>1, <3>1, FoundIsOwn, Zenon DEF Unbinding!Addressed
  <2> QED
    BY <2>1, <2>2, <2>3, Zenon
<1>2. Unbinding!UnbindingInv /\ [Unbinding!Next]_(Unbinding!vars)
        => [Unbinding!DoneMeansGone]_(Unbinding!vars)
  BY <1>1, Zenon
<1> QED
  BY <1>2, UnbindingHolds, PTL DEF Unbinding!Spec
--------------------------------------------------------------------------------
(***************************************************************************)
(* The behaviours of Parts.                                                *)
(***************************************************************************)

\* A behaviour stays with its component.
LEMMA PartStays ==
  ASSUME [Next]_vars
  PROVE  part' = part
  BY Zenon
     DEF Next, vars, OfDeclaration, OfDeletion, OfUnbinding, OfLimits, OfGranting, OfUpstream,
         OfProcess

\* A behaviour of Parts is one of the component that part names; the same for each.
LEMMA LimitsPart ==
  Spec => \/ [](part = "limits") /\ SetLimits!Spec
          \/ []~(part = "limits")
<1>1. Init /\ part = "limits" => SetLimits!Init
  BY Zenon DEF Init
<1>2. part = "limits" /\ [Next]_vars => [SetLimits!Next]_(SetLimits!vars)
  BY Zenon
     DEF Next, vars, SetLimits!vars, OfDeclaration, OfDeletion, OfUnbinding, OfLimits, OfGranting,
         OfUpstream, OfProcess
<1>3. [Next]_vars => ((part = "limits")' <=> part = "limits")
  BY PartStays, Zenon
<1> QED
  BY <1>1, <1>2, <1>3, PTL DEF Spec, SetLimits!Spec

LEMMA ProcessPart ==
  Spec => \/ [](part = "process") /\ Process!Spec
          \/ []~(part = "process")
<1>1. Init /\ part = "process" => Process!Init
  BY Zenon DEF Init
<1>2. part = "process" /\ [Next]_vars => [Process!Next]_(Process!vars)
  BY Zenon
     DEF Next, vars, Process!vars, Process!lease, OfDeclaration, OfDeletion, OfUnbinding, OfLimits,
         OfGranting, OfUpstream, OfProcess
<1>3. [Next]_vars => ((part = "process")' <=> part = "process")
  BY PartStays, Zenon
<1> QED
  BY <1>1, <1>2, <1>3, PTL DEF Spec, Process!Spec

LEMMA DeclarationPart ==
  Spec => \/ [](part = "declaration") /\ Declaration!Spec
          \/ []~(part = "declaration")
<1>1. Init /\ part = "declaration" => Declaration!Init
  BY Zenon DEF Init
<1>2. part = "declaration" /\ [Next]_vars => [Declaration!Next]_(Declaration!vars)
  BY Zenon
     DEF Next, vars, Declaration!vars, OfDeclaration, OfDeletion, OfUnbinding, OfLimits, OfGranting,
         OfUpstream, OfProcess
<1>3. [Next]_vars => ((part = "declaration")' <=> part = "declaration")
  BY PartStays, Zenon
<1> QED
  BY <1>1, <1>2, <1>3, PTL DEF Spec, Declaration!Spec

LEMMA DeletionPart ==
  Spec => \/ [](part = "deletion") /\ Deletion!Spec
          \/ []~(part = "deletion")
<1>1. Init /\ part = "deletion" => Deletion!Init
  BY Zenon DEF Init
<1>2. part = "deletion" /\ [Next]_vars => [Deletion!Next]_(Deletion!vars)
  BY Zenon
     DEF Next, vars, Deletion!vars, OfDeclaration, OfDeletion, OfUnbinding, OfLimits, OfGranting,
         OfUpstream, OfProcess
<1>3. [Next]_vars => ((part = "deletion")' <=> part = "deletion")
  BY PartStays, Zenon
<1> QED
  BY <1>1, <1>2, <1>3, PTL DEF Spec, Deletion!Spec

LEMMA UnbindingPart ==
  Spec => \/ [](part = "unbinding") /\ Unbinding!Spec
          \/ []~(part = "unbinding")
<1>1. Init /\ part = "unbinding" => Unbinding!Init
  BY Zenon DEF Init
<1>2. part = "unbinding" /\ [Next]_vars => [Unbinding!Next]_(Unbinding!vars)
  BY Zenon
     DEF Next, vars, Unbinding!vars, OfDeclaration, OfDeletion, OfUnbinding, OfLimits, OfGranting,
         OfUpstream, OfProcess
<1>3. [Next]_vars => ((part = "unbinding")' <=> part = "unbinding")
  BY PartStays, Zenon
<1> QED
  BY <1>1, <1>2, <1>3, PTL DEF Spec, Unbinding!Spec

\* When the limits of a User or Vhost are declared, they are those of the spec.
THEOREM DeclaredLimitsAreSpec == Spec => LimitsAreSpec
<1>1. [SetLimits!LimitsAreSpec]_(SetLimits!vars)
        => [part = "limits" => SetLimits!LimitsAreSpec]_vars
  BY Zenon DEF SetLimits!LimitsAreSpec, SetLimits!vars
<1>2. ~(part = "limits") => [part = "limits" => SetLimits!LimitsAreSpec]_vars
  OBVIOUS
<1> QED
  BY <1>1, <1>2, LimitsPart, LimitsAreDeclared, PTL DEF LimitsAreSpec

\* Two processes never reconcile at the same time, with durations that allow for it.
THEOREM OneManagerActive == Spec => []OneActiveManager
  BY ProcessPart, OneActive, PTL DEF OneActiveManager

\* A process that reconciles has set up everything.
THEOREM ActiveManagersComplete == Spec => []ActiveIsComplete
  BY ProcessPart, ActiveComplete, PTL DEF ActiveIsComplete

\* With webhooks, the server refuses a declaration of a queue only because of somebody
\* else's queue, or of one that a Queue with deletionPolicy retain left.
THEOREM QueuesNeverRefused == Spec => []NeverRefusesItself
  BY DeclarationPart, DeclarationsAgree, PTL DEF NeverRefusesItself

\* DeleteFunc of Queue respects deletionPolicy, deleteIfEmpty and deleteIfUnused, but for
\* what comes to a quorum queue between its look and its DELETE.
THEOREM QueuesKeepTheirMessages == Spec => []DestroysOnlyLatecomers
  BY DeletionPart, OnlyLatecomers, PTL DEF DestroysOnlyLatecomers

\* DeleteFunc of Binding never removes a binding that is not its own, unless the routing
\* key is %7E, without arguments: then it is the binding of routing key ~ that goes.
THEOREM BindingsAreTold == Spec => []RemovesOnlyItsOwn
  BY UnbindingPart, OwnBindingOnly, PTL DEF RemovesOnlyItsOwn

\* When DeleteFunc of Binding returns nil, the binding is not there, with that exception.
THEOREM BindingsAreGone == Spec => UnboundWhenDone
<1>1. [Unbinding!DoneMeansGone]_(Unbinding!vars)
        => [part = "unbinding" => Unbinding!DoneMeansGone]_vars
  BY Zenon DEF Unbinding!DoneMeansGone, Unbinding!vars
<1>2. ~(part = "unbinding") => [part = "unbinding" => Unbinding!DoneMeansGone]_vars
  OBVIOUS
<1> QED
  BY <1>1, <1>2, UnbindingPart, UnboundAtEnd, PTL DEF UnboundWhenDone
================================================================================
