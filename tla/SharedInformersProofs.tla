------------------------- MODULE SharedInformersProofs -------------------------
(***************************************************************************)
(* For any finite number of programs that share a factory: the informer is *)
(* run once (RunOnce), nobody who waited for the caches reads an index     *)
(* that has not been listed (ReadsListed), an index is what the API server *)
(* had at one moment and no caller has written to (IndexIsServed), and an  *)
(* update of a copy from the index replaces what was copied and nothing    *)
(* newer (NoLostUpdate).                                                   *)
(*                                                                         *)
(* InformerFor makes one informer, whoever asks first; that is the one all *)
(* others get, start and wait for, and it stays listed.  What a caller has *)
(* in its hands shares nothing with the index, because the generated copy  *)
(* of each kind allocates every reference that its type has.  The version  *)
(* that it has is the number of the write that the object came from, so    *)
(* that the API server takes an update of the latest write alone.          *)
(***************************************************************************)
EXTENDS SharedInformers, FiniteSetTheorems, TLAPS

Labels == {"request", "start", "wait", "waiting", "read", "edit", "push"}

\* Who has got how far, and what the factory must have done by then.
Ahead(c) ==
  /\ pc[c] # "request" => informers = 1 /\ mine[c] = 1
  /\ pc[c] \notin {"request", "start"} => started
  /\ pc[c] = "waiting" => waits[c] = {1}
  /\ pc[c] \in {"read", "edit", "push"} => reflector[1].listed

Factory ==
  /\ informers = made /\ made \in {0, 1}
  /\ started \in BOOLEAN
  /\ runs \in [Ids -> {0, 1}]
  /\ started \/ \A i \in Ids : runs[i] = 0

TypeOK ==
  /\ pc \in [Callers -> Labels]
  /\ DOMAIN mine = Callers /\ DOMAIN waits = Callers
  /\ DOMAIN reflector = Ids /\ \A i \in Ids : "listed" \in DOMAIN reflector[i]

FactoryInv == TypeOK /\ Factory /\ \A c \in Callers : Ahead(c)
--------------------------------------------------------------------------------
\* Where there is a caller, there may be an informer.
LEMMA OneInformer ==
  ASSUME IsFiniteSet(Callers), NEW c \in Callers
  PROVE  1 \in Ids
<1>1. Cardinality(Callers) \in Nat /\ Cardinality(Callers) # 0
  BY FS_CardinalityType, FS_EmptySet, Zenon
<1> QED
  BY <1>1 DEF Ids

\* A new factory has no informer.
LEMMA FactoryInit ==
  ASSUME Init
  PROVE  FactoryInv
<1>1. pc \in [Callers -> Labels] /\ \A c \in Callers : pc[c] = "request"
  BY Zenon DEF Init, Labels
<1>2. /\ DOMAIN mine = Callers /\ DOMAIN waits = Callers
      /\ DOMAIN reflector = Ids /\ \A i \in Ids : "listed" \in DOMAIN reflector[i]
  BY Zenon DEF Init
<1>3. Factory
  BY Zenon DEF Init, Factory
<1> QED
  BY <1>1, <1>2, <1>3, Zenon DEF FactoryInv, TypeOK, Ahead

\* A caller that asks, starts or waits, and all others with it.
LEMMA FactorySetup ==
  ASSUME IsFiniteSet(Callers), FactoryInv, NEW c \in Callers, Setup(c)
  PROVE  FactoryInv'
<1> USE DEF FactoryInv
<1>0. 1 \in Ids
  BY OneInformer, Zenon
<1>1. CASE InformerFor(c)
  <2>1. /\ informers' = 1 /\ made' = 1 /\ mine'[c] = 1
        /\ UNCHANGED <<started, runs, reflector, waits>>
    BY <1>1 DEF InformerFor, Known, Factory, TypeOK, caches
  <2>2. /\ pc' \in [Callers -> Labels] /\ pc'[c] = "start" /\ DOMAIN mine' = Callers
        /\ \A d \in Callers : d # c => pc'[d] = pc[d] /\ mine'[d] = mine[d]
    BY <1>1, Zenon DEF InformerFor, Goto, TypeOK, Labels
  <2>3. TypeOK' /\ Factory'
    BY <2>1, <2>2, Zenon DEF TypeOK, Factory
  <2> QED
    BY <2>1, <2>2, <2>3, ZenonT(30) DEF Ahead
<1>2. CASE Start(c)
  <2>1. /\ UNCHANGED <<informers, made, reflector, mine, waits>>
        /\ pc[c] = "start" /\ informers = 1 /\ started'
    BY <1>2, Zenon DEF Start, StartOnce, Ahead, caches, Factory
  <2>2. /\ pc' \in [Callers -> Labels] /\ pc'[c] = "wait"
        /\ \A d \in Callers : d # c => pc'[d] = pc[d]
    BY <1>2, Zenon DEF Start, Goto, TypeOK, Labels
  <2>3. runs' \in [Ids -> {0, 1}] /\ started' \in BOOLEAN
    <3>1. CASE started
      BY <1>2, <3>1, Zenon DEF Start, StartOnce, Factory
    <3>2. CASE ~started
      <4>1. runs' = [runs EXCEPT ![1] = runs[1] + 1] /\ runs[1] = 0 /\ started' = TRUE
        BY <1>0, <1>2, <2>1, <3>2, Zenon DEF Start, StartOnce, Factory
      <4>2. runs' \in [Ids -> {0, 1}]
        BY <1>0, <4>1 DEF Factory
      <4> QED
        BY <4>1, <4>2, Zenon
    <3> QED
      BY <3>1, <3>2, Zenon
  <2>4. TypeOK' /\ Factory'
    BY <2>1, <2>2, <2>3, Zenon DEF TypeOK, Factory
  <2> QED
    BY <2>1, <2>2, <2>4, Zenon DEF Ahead
<1>3. CASE SnapshotStarted(c)
  <2>1. UNCHANGED <<factory, reflector, mine>> /\ waits'[c] = {1} /\ started
    BY <1>3, Zenon DEF SnapshotStarted, Ahead, TypeOK, caches
  <2>2. /\ pc' \in [Callers -> Labels] /\ pc'[c] = "waiting" /\ DOMAIN waits' = Callers
        /\ \A d \in Callers : d # c => pc'[d] = pc[d] /\ waits'[d] = waits[d]
    BY <1>3, Zenon DEF SnapshotStarted, Goto, TypeOK, Labels
  <2>3. TypeOK' /\ Factory'
    BY <2>1, <2>2, Zenon DEF TypeOK, Factory, factory
  <2>4. Ahead(c)'
    BY <1>3, <2>1, <2>2 DEF SnapshotStarted, Ahead, factory
  <2> QED
    BY <2>1, <2>2, <2>3, <2>4 DEF Ahead, factory
<1>4. CASE WaitForCacheSync(c)
  <2>1. UNCHANGED <<factory, reflector, mine, waits>> /\ reflector[1].listed
    BY <1>4, Zenon DEF WaitForCacheSync, Synced, Ahead, caches
  <2>2. /\ pc' \in [Callers -> Labels] /\ pc'[c] = "read"
        /\ \A d \in Callers : d # c => pc'[d] = pc[d]
    BY <1>4, Zenon DEF WaitForCacheSync, Goto, TypeOK, Labels
  <2>3. TypeOK' /\ Factory'
    BY <2>1, <2>2, Zenon DEF TypeOK, Factory, factory
  <2>4. Ahead(c)'
    BY <1>4, <2>1, <2>2 DEF WaitForCacheSync, Ahead, factory
  <2> QED
    BY <2>1, <2>2, <2>3, <2>4, ZenonT(30) DEF Ahead, factory
<1> QED
  BY <1>1, <1>2, <1>3, <1>4, Zenon DEF Setup

\* A reflector stays listed once it is.
LEMMA FactoryReflect ==
  ASSUME IsFiniteSet(Callers), FactoryInv, NEW i \in Ids, Reflect(i) \/ BreakWatch(i)
  PROVE  FactoryInv'
<1>1. UNCHANGED <<factory, pc, mine, waits>>
  BY Zenon DEF Reflect, List_, Event, BreakWatch, callers
<1>2. /\ DOMAIN reflector' = Ids
      /\ \A j \in Ids : /\ "listed" \in DOMAIN reflector'[j]
                        /\ reflector[j].listed => reflector'[j].listed
  <2>1. CASE List_(i)
    <3>1. PICK n : reflector' = [reflector EXCEPT ![i] =
                                   [listed |-> TRUE, watching |-> TRUE, at |-> n]]
      BY <2>1, Zenon DEF List_
    <3> QED
      BY <3>1, Zenon DEF FactoryInv, TypeOK
  <2>2. CASE Event(i)
    <3>1. PICK n : reflector' = [reflector EXCEPT ![i].at = n]
      BY <2>2, Zenon DEF Event
    <3> QED
      BY <3>1, Zenon DEF FactoryInv, TypeOK
  <2>3. CASE BreakWatch(i)
    BY <2>3, Zenon DEF BreakWatch, FactoryInv, TypeOK
  <2> QED
    BY <2>1, <2>2, <2>3, Zenon DEF Reflect
<1>3. TypeOK' /\ Factory'
  BY <1>1, <1>2, Zenon DEF FactoryInv, TypeOK, Factory, factory
<1>4. ASSUME NEW c \in Callers PROVE Ahead(c)'
  <2>1. 1 \in Ids
    BY OneInformer, Zenon
  <2> QED
    BY <1>1, <1>2, <2>1, Zenon DEF FactoryInv, Ahead, factory
<1> QED
  BY <1>3, <1>4, Zenon DEF FactoryInv

\* What callers do with objects does not concern the factory.
LEMMA FactoryWork ==
  ASSUME FactoryInv, NEW c \in Callers, Work(c)
  PROVE  FactoryInv'
<1>1. UNCHANGED <<factory, reflector, mine, waits>> /\ pc[c] \in {"read", "edit", "push"}
  BY Zenon DEF Work, Get, Edit, Push, caches
<1>2. /\ pc' \in [Callers -> Labels] /\ pc'[c] \in {"read", "edit", "push"}
      /\ \A d \in Callers : d # c => pc'[d] = pc[d]
  <2>1. PICK label \in {"read", "edit", "push"} : Goto(c, label)
    BY Zenon DEF Work, Get, Edit, Push
  <2> QED
    BY <2>1, Zenon DEF Goto, FactoryInv, TypeOK, Labels
<1>3. TypeOK' /\ Factory'
  BY <1>1, <1>2, Zenon DEF FactoryInv, TypeOK, Factory, factory
<1>4. ASSUME NEW d \in Callers PROVE Ahead(d)'
  <2>1. Ahead(d)
    BY Zenon DEF FactoryInv
  <2>2. CASE d = c
    BY <1>1, <1>2, <2>1, <2>2, Zenon DEF Ahead, factory
  <2>3. CASE d # c
    BY <1>1, <1>2, <2>1, <2>3, Zenon DEF Ahead, factory
  <2> QED
    BY <2>2, <2>3, Zenon
<1> QED
  BY <1>3, <1>4, Zenon DEF FactoryInv

\* The invariant is preserved by every step.
LEMMA FactoryNext ==
  ASSUME IsFiniteSet(Callers), FactoryInv, [Next]_vars
  PROVE  FactoryInv'
<1>1. CASE \/ \E ns \in Namespaces : OutsideWrite(kind, ns)
           \/ OutsideWrite(OtherKind, "n1")
           \/ UNCHANGED vars
  <2>1. UNCHANGED <<factory, reflector, pc, mine, waits>>
    BY <1>1, Zenon DEF OutsideWrite, caches, callers, vars
  <2> QED
    BY <2>1, Zenon DEF FactoryInv, TypeOK, Factory, Ahead, factory
<1> QED
  BY <1>1, FactorySetup, FactoryReflect, FactoryWork, Zenon DEF Next

\* The invariant holds throughout.
LEMMA FactoryHolds ==
  ASSUME IsFiniteSet(Callers)
  PROVE  Spec => []FactoryInv
<1>1. FactoryInv /\ [Next]_vars => FactoryInv'
  BY FactoryNext, Zenon
<1> QED
  BY <1>1, FactoryInit, PTL DEF Spec

\* However many callers start the factory, InformerFor and startedInformers see to it that
\* an informer runs once.
THEOREM RunsOnce ==
  ASSUME IsFiniteSet(Callers)
  PROVE  Spec => []RunOnce
<1>1. FactoryInv => RunOnce
  BY DEF FactoryInv, Factory, RunOnce
<1> QED
  BY <1>1, FactoryHolds, PTL

\* Whoever has asked, started and waited reads an index that has been listed, also if it
\* was another caller's Start that ran the informer.
THEOREM ReadsAreListed ==
  ASSUME IsFiniteSet(Callers)
  PROVE  Spec => []ReadsListed
<1>1. FactoryInv => ReadsListed
  BY Zenon DEF FactoryInv, Ahead, ReadsListed
<1> QED
  BY <1>1, FactoryHolds, PTL
--------------------------------------------------------------------------------
(***************************************************************************)
(* What is in an index.                                                    *)
(***************************************************************************)

Objects == [type : Kinds \cup {"absent"}, version : Nat, spec : Nat, status : Nat]
Writes == [resource : {Resource(k) : k \in Kinds}, ns : Namespaces, object : Objects]

\* o was at some time the object of that resource and namespace, or is none.
Served(r, ns, o) ==
  o = Absent \/ \E n \in DOMAIN log : log[n] = [resource |-> r, ns |-> ns, object |-> o]

StoreTypes ==
  /\ kind \in Kinds /\ scope \subseteq Namespaces
  /\ log \in Seq(Writes)
  /\ api \in [Resources -> [Namespaces -> Objects]]
  /\ index \in [Ids -> [Namespaces -> [object : Objects, dirty : {{}}]]]
  /\ reflector \in [Ids -> [listed : BOOLEAN, watching : BOOLEAN, at : Nat]]
  /\ DOMAIN held = Callers

\* A copy shares nothing with the index.
OwnCopies ==
  \A c \in Callers :
    pc[c] \in {"edit", "push"} => held[c].shared = {} /\ held[c].ns \in Namespaces

ServedInv ==
  /\ StoreTypes
  /\ OwnCopies
  /\ \A r \in Resources, ns \in Namespaces : Served(r, ns, api[r][ns])
  /\ \A i \in Ids, ns \in Namespaces : Served(Resource(kind), ns, index[i][ns].object)
--------------------------------------------------------------------------------
\* The generated copy of each kind reaches every reference of its type.
LEMMA CopiesAreDeep ==
  ASSUME NEW k \in Kinds
  PROVE  Types[k] = Copies[k]
<1>1. User = CopyUser /\ Vhost = CopyVhost /\ SuperStream = CopySuperStream
  BY Zenon
     DEF User, CopyUser, Vhost, CopyVhost, SuperStream, CopySuperStream, Cluster, CopyCluster,
         RabbitmqClusterReference, CopyReference, UserLimits, CopyUserLimits, VhostLimits,
         CopyVhostLimits, Status, CopyConditions
<1>2. /\ Binding = CopyBinding /\ Exchange = CopyExchange /\ Federation = CopyFederation
      /\ OperatorPolicy = CopyOperatorPolicy /\ Permission = CopyPermission
      /\ Policy = CopyPolicy /\ Queue = CopyQueue /\ SchemaReplication = CopySchemaReplication
      /\ TopicPermission = CopyTopicPermission
  BY Zenon
     DEF Binding, CopyBinding, Exchange, CopyExchange, Federation, CopyFederation, OperatorPolicy,
         CopyOperatorPolicy, Permission, CopyPermission, Policy, CopyPolicy, Queue, CopyQueue,
         SchemaReplication, CopySchemaReplication, TopicPermission, CopyTopicPermission, Cluster,
         CopyCluster, RabbitmqClusterReference, CopyReference, SecretBackend, CopySecretBackend,
         Status, CopyConditions
<1>3. Shovel = CopyShovel
  <2> DEFINE Fields == {"srcQueueArgs", "destQueueArgs", "destPublishProperties",
                        "destApplicationProperties", "destProperties",
                        "destMessageAnnotations", "srcConsumerArgs"}
             R(f) == RefTo(f, RawExtension)
  <2>1. UNION {R(f) : f \in Fields} =
          R("srcQueueArgs") \cup R("destQueueArgs") \cup R("destPublishProperties")
            \cup R("destApplicationProperties") \cup R("destProperties")
            \cup R("destMessageAnnotations") \cup R("srcConsumerArgs")
    <3> HIDE DEF R
    <3> QED
      OBVIOUS
  <2>2. Cluster \cup Ref("uriSecret") \cup UNION {R(f) : f \in Fields} =
          Cluster \cup Ref("uriSecret") \cup R("srcQueueArgs") \cup R("destQueueArgs")
            \cup R("destPublishProperties") \cup R("destApplicationProperties")
            \cup R("destProperties") \cup R("destMessageAnnotations") \cup R("srcConsumerArgs")
    <3> HIDE DEF R, Fields
    <3> QED
      BY <2>1, Zenon
  <2>3. Cluster = CopyCluster /\ Status = CopyConditions
    BY Zenon
       DEF Cluster, CopyCluster, RabbitmqClusterReference, CopyReference, Status, CopyConditions
  <2> QED
    BY <2>2, <2>3, Zenon DEF Shovel, CopyShovel
<1> QED
  BY <1>1, <1>2, <1>3, Zenon DEF Kinds, Types, Copies

\* So a copy shares nothing with what it was made from, and neither do the items of a list.
LEMMA NothingShared ==
  ASSUME NEW k \in Kinds
  PROVE  Shared(k) = {} /\ {Tail(path) : path \in SharedList(k)} = {}
<1>1. Types[k] = Copies[k]
  BY CopiesAreDeep, Zenon
<1> QED
  BY <1>1, Zenon DEF Shared, SharedList

\* The resource of each kind.
Plural ==
  [Binding |-> "bindings", Exchange |-> "exchanges", Federation |-> "federations",
   OperatorPolicy |-> "operatorpolicies", Permission |-> "permissions", Policy |-> "policies",
   Queue |-> "queues", SchemaReplication |-> "schemareplications", Shovel |-> "shovels",
   SuperStream |-> "superstreams", TopicPermission |-> "topicpermissions", User |-> "users",
   Vhost |-> "vhosts"]

\* The verbs of a client all use the resource r.
AllUse(verbs, r) ==
  /\ verbs.Get.resource = r /\ verbs.List.resource = r /\ verbs.Watch.resource = r
  /\ verbs.Create.resource = r /\ verbs.Update.resource = r
  /\ verbs.UpdateStatus.resource = r /\ verbs.Delete.resource = r
  /\ verbs.DeleteCollection.resource = r /\ verbs.Patch.resource = r

\* All verbs of the client of a kind use the resource of the kind.
LEMMA ClientsMatch ==
  ASSUME NEW k \in Kinds
  PROVE  Resource(k) = Plural[k] /\ AllUse(Clients[k], Resource(k))
<1>1. ASSUME NEW r PROVE AllUse(Verbs(r), r)
  BY Zenon DEF Verbs, AllUse
<1>2. Clients[k] = Verbs(Plural[k])
  BY DEF Plural, Kinds, Types, Clients,
         bindings, exchanges, federations, operatorPolicies, permissions, policies, queues,
         schemaReplications, shovels, superStreams, topicPermissions, users, vhosts
<1>3. Verbs(Plural[k]).Get.resource = Plural[k]
  BY <1>1, Zenon DEF AllUse
<1> QED
  BY <1>1, <1>2, <1>3, Zenon DEF Resource

\* The informer of each kind lists and watches the resource that the client of the kind
\* reads and writes.
LEMMA InformersMatch ==
  ASSUME kind \in Kinds
  PROVE  TheInformer.list.resource = Resource(kind) /\ TheInformer.watch.resource = Resource(kind)
<1>1. Informers[kind] = Informer(Clients[kind].List, Clients[kind].Watch, kind)
  BY DEF Kinds, Types, Clients, Informers,
         BindingInformer, ExchangeInformer, FederationInformer, OperatorPolicyInformer,
         PermissionInformer, PolicyInformer, QueueInformer, SchemaReplicationInformer,
         ShovelInformer, SuperStreamInformer, TopicPermissionInformer, UserInformer,
         VhostInformer
<1>2. ASSUME Resource(kind) \in DOMAIN ForResource PROVE ForResource[Resource(kind)] = kind
  <2>1. Resource(kind) = Plural[kind]
    BY ClientsMatch, Zenon
  <2> QED
    BY <1>2, <2>1 DEF Plural, Kinds, Types, ForResource
<1>3. Clients[kind].List.resource = Resource(kind) /\ Clients[kind].Watch.resource = Resource(kind)
  BY ClientsMatch, Zenon DEF AllUse
<1> QED
  BY <1>1, <1>2, <1>3 DEF TheInformer, Informer

\* A write that is recorded leaves all earlier ones on record.
LEMMA WritesAreKept ==
  ASSUME log \in Seq(Writes), NEW w \in Writes, log' = Append(log, w)
  PROVE  /\ log' \in Seq(Writes)
         /\ \A r, ns, o : Served(r, ns, o) => Served(r, ns, o)'
         /\ \A r, ns, o : w = [resource |-> r, ns |-> ns, object |-> o] => Served(r, ns, o)'
<1>1. /\ log' \in Seq(Writes) /\ Len(log) \in Nat /\ DOMAIN log = 1..Len(log)
      /\ DOMAIN log' = 1..(Len(log) + 1)
      /\ \A n \in DOMAIN log : log'[n] = log[n]
      /\ log'[Len(log) + 1] = w
  OBVIOUS
<1>2. \A n \in DOMAIN log : n \in DOMAIN log'
  BY <1>1
<1>3. Len(log) + 1 \in DOMAIN log'
  BY <1>1
<1> QED
  BY <1>1, <1>2, <1>3, Zenon DEF Served

\* Writes of the API server, and what they leave alone.
LEMMA StoreServes ==
  ASSUME ServedInv, NEW request, NEW ns \in Namespaces, NEW o \in Objects,
         request.resource \in Resources, Store(request, ns, o),
         UNCHANGED <<kind, scope, index, reflector>>, OwnCopies', DOMAIN held' = Callers
  PROVE  ServedInv'
<1> DEFINE r == request.resource
           w == [resource |-> r, ns |-> ns, object |-> o]
<1>1. r \in Resources /\ r \in {Resource(k) : k \in Kinds}
  BY Zenon DEF ServedInv, StoreTypes, Resources, OtherKind, Kinds, Types
<1>2. w \in Writes /\ log' = Append(log, w) /\ api' = [api EXCEPT ![r][ns] = o]
  BY <1>1, Zenon DEF Writes, Store
<1>3. Resources' = Resources /\ Resource(kind)' = Resource(kind)
  BY Zenon DEF Resources, OtherKind
<1> HIDE DEF r, w
<1>4. /\ log' \in Seq(Writes)
      /\ \A q, m, p : Served(q, m, p) => Served(q, m, p)'
      /\ \A q, m, p : w = [resource |-> q, ns |-> m, object |-> p] => Served(q, m, p)'
  BY <1>2, WritesAreKept, Zenon DEF ServedInv, StoreTypes
<1>5. /\ api' \in [Resources -> [Namespaces -> Objects]]
      /\ api'[r][ns] = o
      /\ \A q \in Resources, m \in Namespaces : q # r \/ m # ns => api'[q][m] = api[q][m]
  BY <1>1, <1>2, Zenon DEF ServedInv, StoreTypes
<1>6. StoreTypes'
  BY <1>3, <1>4, <1>5, Zenon DEF ServedInv, StoreTypes
<1>7. ASSUME NEW q \in Resources, NEW m \in Namespaces PROVE Served(q, m, api[q][m])'
  <2>1. CASE q = r /\ m = ns
    BY <1>4, <1>5, <2>1, Zenon DEF w
  <2>2. CASE q # r \/ m # ns
    BY <1>4, <1>5, <2>2, Zenon DEF ServedInv
  <2> QED
    BY <2>1, <2>2, Zenon
<1>8. \A i \in Ids, m \in Namespaces : Served(Resource(kind), m, index[i][m].object)'
  BY <1>4, Zenon DEF ServedInv
<1> QED
  BY <1>3, <1>6, <1>7, <1>8, Zenon DEF ServedInv

\* An object that is changed is an object, and has the next version.
LEMMA PutTypes ==
  ASSUME log \in Seq(Writes), NEW request, NEW o \in Objects
  PROVE  Put(request, o) \in Objects /\ Put(request, o).version = Len(log) + 1
<1>1. Len(log) + 1 \in Nat
  OBVIOUS
<1> QED
  BY <1>1, Zenon DEF Put, Objects

\* At first, the one object that exists is on record, and the indexes are empty.
LEMMA ServedInit ==
  ASSUME Init
  PROVE  ServedInv
<1> DEFINE o == [type |-> kind, version |-> 1, spec |-> 1, status |-> 0]
           r == Resource(kind)
<1>1. Absent \in Objects /\ o \in Objects /\ "n1" \in Namespaces /\ r \in Resources
  BY Zenon DEF Init, Absent, Objects, Namespaces, Resources
<1>2. /\ kind \in Kinds /\ scope \subseteq Namespaces
      /\ api = [q \in Resources |-> [ns \in Namespaces |-> IF ns = "n1" /\ q = r THEN o ELSE Absent]]
      /\ api[r]["n1"] = o
  BY <1>1, Zenon DEF Init, Namespaces
<1>3. log = <<[resource |-> r, ns |-> "n1", object |-> o]>>
  BY <1>2, Zenon DEF Init
<1> HIDE DEF o, r
<1>4. [resource |-> r, ns |-> "n1", object |-> o] \in Writes
  BY <1>1, <1>2, Zenon DEF Writes, r
<1>5. log \in Seq(Writes) /\ 1 \in DOMAIN log /\ log[1] = [resource |-> r, ns |-> "n1", object |-> o]
  BY <1>3, <1>4
<1>6. api \in [Resources -> [Namespaces -> Objects]]
  BY <1>1, <1>2, Zenon
<1>7. /\ index \in [Ids -> [Namespaces -> [object : Objects, dirty : {{}}]]]
      /\ \A i \in Ids, ns \in Namespaces : index[i][ns].object = Absent
  BY <1>1, Zenon DEF Init, Empty, Entry
<1>8. reflector \in [Ids -> [listed : BOOLEAN, watching : BOOLEAN, at : Nat]]
  BY Zenon DEF Init
<1>9. OwnCopies /\ DOMAIN held = Callers
  BY Zenon DEF Init, OwnCopies
<1>10. \A q \in Resources, ns \in Namespaces : Served(q, ns, api[q][ns])
  BY <1>2, <1>5, Zenon DEF Served
<1>11. \A i \in Ids, ns \in Namespaces : Served(Resource(kind), ns, index[i][ns].object)
  BY <1>7, Zenon DEF Served
<1> QED
  BY <1>2, <1>5, <1>6, <1>7, <1>8, <1>9, <1>10, <1>11, Zenon DEF ServedInv, StoreTypes

\* What somebody else writes is an object of one of the two resources; its version is its
\* place on record, unless it is deleted.
LEMMA OutsideStores ==
  ASSUME ServedInv, NEW k \in {kind, OtherKind}, NEW ns \in Namespaces, OutsideWrite(k, ns)
  PROVE  \E request : \E o \in Objects :
           /\ request.resource \in Resources
           /\ Store(request, ns, o)
           /\ o = Absent \/ o.version = Len(log) + 1
<1> DEFINE v == Len(log) + 1
<1>1. v \in Nat
  BY SMTT(30) DEF ServedInv, StoreTypes
<1>2. k \in Kinds /\ Resource(k) \in Resources
  BY Zenon DEF ServedInv, StoreTypes, Resources, OtherKind, Kinds, Types
<1>3. /\ Clients[k].Create.resource = Resource(k) /\ Clients[k].Patch.resource = Resource(k)
      /\ Clients[k].Delete.resource = Resource(k)
  BY <1>2, ClientsMatch, Zenon DEF AllUse
<1>4. api[Resource(k)][ns] \in Objects
  BY <1>2 DEF ServedInv, StoreTypes
<1>5. /\ [type |-> k, version |-> v, spec |-> v, status |-> 0] \in Objects
      /\ Absent \in Objects
      /\ Put(Clients[k].Patch, api[Resource(k)][ns]) \in Objects
      /\ Put(Clients[k].Patch, api[Resource(k)][ns]).version = v
  BY <1>1, <1>2, <1>4, PutTypes, Zenon DEF Objects, Absent, ServedInv, StoreTypes
<1>6. [type |-> k, version |-> v, spec |-> v, status |-> 0].version = v
  BY Zenon
<1>7. \/ Store(Clients[k].Create, ns, [type |-> k, version |-> v, spec |-> v, status |-> 0])
      \/ Store(Clients[k].Patch, ns, Put(Clients[k].Patch, api[Resource(k)][ns]))
      \/ Store(Clients[k].Delete, ns, Absent)
  BY Zenon DEF OutsideWrite
<1> DEFINE new == [type |-> k, version |-> v, spec |-> v, status |-> 0]
           changed == Put(Clients[k].Patch, api[Resource(k)][ns])
<1>8. CASE Store(Clients[k].Create, ns, new)
  <2>1. new \in Objects /\ new.version = Len(log) + 1
    BY <1>5, <1>6, Zenon
  <2> HIDE DEF new
  <2> QED
    BY <1>2, <1>3, <1>8, <2>1, Zenon
<1>9. CASE Store(Clients[k].Patch, ns, changed)
  <2>1. changed \in Objects /\ changed.version = Len(log) + 1
    BY <1>5, Zenon
  <2> HIDE DEF changed
  <2> QED
    BY <1>2, <1>3, <1>9, <2>1, Zenon
<1>10. CASE Store(Clients[k].Delete, ns, Absent)
  BY <1>2, <1>3, <1>5, <1>10, Zenon
<1> QED
  BY <1>7, <1>8, <1>9, <1>10, Zenon

\* Somebody else's write.
LEMMA ServedOutside ==
  ASSUME ServedInv, NEW k \in {kind, OtherKind}, NEW ns \in Namespaces, OutsideWrite(k, ns)
  PROVE  ServedInv'
<1>1. UNCHANGED <<kind, scope, index, reflector, held, pc>>
  BY Zenon DEF OutsideWrite, caches, callers
<1>2. OwnCopies' /\ DOMAIN held' = Callers
  BY <1>1, Zenon DEF ServedInv, StoreTypes, OwnCopies
<1> QED
  BY <1>1, <1>2, OutsideStores, StoreServes, Zenon

\* A caller pushes to the resource of its kind.
LEMMA PushIsOwn ==
  ASSUME ServedInv, NEW c \in Callers, pc[c] = "push"
  PROVE  /\ PushRequest(c).resource = Resource(kind) /\ Resource(kind) \in Resources
         /\ held[c].ns \in Namespaces
<1>1. kind \in Kinds /\ Resource(kind) \in Resources /\ held[c].ns \in Namespaces
  BY Zenon DEF ServedInv, StoreTypes, OwnCopies, Resources
<1> QED
  BY <1>1, ClientsMatch, Zenon DEF PushRequest, AllUse

\* A reflector takes over what the API has or had.
LEMMA ServedReflect ==
  ASSUME ServedInv, NEW i \in Ids, Reflect(i) \/ BreakWatch(i)
  PROVE  ServedInv'
<1>1. UNCHANGED <<kind, scope, api, log, pc, held>>
  BY Zenon DEF Reflect, List_, Event, BreakWatch, callers
<1>2. /\ Resources' = Resources /\ Resource(kind)' = Resource(kind)
      /\ \A q, m, p : Served(q, m, p)' <=> Served(q, m, p)
  BY <1>1, Zenon DEF Resources, OtherKind, Served
<1>3. /\ TheInformer.list.resource = Resource(kind) /\ TheInformer.watch.resource = Resource(kind)
      /\ Resource(kind) \in Resources
  BY InformersMatch, Zenon DEF ServedInv, StoreTypes, Resources
<1>4. /\ index' \in [Ids -> [Namespaces -> [object : Objects, dirty : {{}}]]]
      /\ \A j \in Ids, ns \in Namespaces : Served(Resource(kind), ns, index'[j][ns].object)
  <2>1. CASE List_(i)
    <3> DEFINE new == [ns \in Namespaces |->
                         IF ns \in scope THEN Entry(api[TheInformer.list.resource][ns])
                         ELSE Entry(Absent)]
    <3>1. index' = [index EXCEPT ![i] = new]
      BY <2>1, ZenonT(30) DEF List_
    <3>2. /\ new \in [Namespaces -> [object : Objects, dirty : {{}}]]
          /\ \A ns \in Namespaces : new[ns].object \in {api[Resource(kind)][ns], Absent}
      BY <1>3, SMTT(30) DEF Entry, ServedInv, StoreTypes, Objects, Absent
    <3>3. \A ns \in Namespaces : Served(Resource(kind), ns, new[ns].object)
      <4> HIDE DEF new
      <4> QED
        BY <1>3, <3>2, SMTT(30) DEF ServedInv, Served
    <3> HIDE DEF new
    <3> QED
      BY <3>1, <3>2, <3>3, Zenon DEF ServedInv, StoreTypes
  <2>2. CASE Event(i)
    <3> DEFINE n == reflector[i].at + 1
    <3>1. n \in DOMAIN log /\ log[n] \in Writes
      BY <2>2 DEF Event, ServedInv, StoreTypes
    <3>2. CASE log[n].resource = Resource(kind) /\ log[n].ns \in scope
      <4>1. index' = [index EXCEPT ![i][log[n].ns] = Entry(log[n].object)]
        BY <1>3, <2>2, <3>2, Zenon DEF Event
      <4>2. log[n].ns \in Namespaces /\ log[n].object \in Objects
        BY <3>1, Zenon DEF Writes
      <4>3. Served(Resource(kind), log[n].ns, log[n].object)
        BY <3>1, <3>2, Zenon DEF Served, Writes
      <4> HIDE DEF n
      <4> QED
        BY <4>1, <4>2, <4>3, Zenon DEF ServedInv, StoreTypes, Entry
    <3>3. CASE ~(log[n].resource = Resource(kind) /\ log[n].ns \in scope)
      BY <1>3, <2>2, <3>3, Zenon DEF Event, ServedInv, StoreTypes
    <3> QED
      BY <3>2, <3>3, ZenonT(30)
  <2>3. CASE BreakWatch(i)
    BY <2>3, Zenon DEF BreakWatch, ServedInv, StoreTypes
  <2> QED
    BY <2>1, <2>2, <2>3, Zenon DEF Reflect
<1>5. reflector' \in [Ids -> [listed : BOOLEAN, watching : BOOLEAN, at : Nat]]
  <2>1. Len(log) \in Nat
    BY DEF ServedInv, StoreTypes
  <2> QED
    <3>1. CASE List_(i)
      BY <2>1, <3>1, Zenon DEF List_, ServedInv, StoreTypes
    <3>2. CASE Event(i)
      <4>1. reflector' = [reflector EXCEPT ![i].at = reflector[i].at + 1]
        BY <3>2, Zenon DEF Event
      <4>2. reflector[i].at + 1 \in Nat
        BY DEF ServedInv, StoreTypes
      <4> QED
        BY <4>1, <4>2, Zenon DEF ServedInv, StoreTypes
    <3>3. CASE BreakWatch(i)
      BY <3>3, ZenonT(30) DEF BreakWatch, ServedInv, StoreTypes
    <3> QED
      BY <3>1, <3>2, <3>3, Zenon DEF Reflect
<1> QED
  BY <1>1, <1>2, <1>4, <1>5, Zenon DEF ServedInv, StoreTypes, OwnCopies

\* What a caller does to its copy does not reach the index.
LEMMA EditKeeps ==
  ASSUME IsFiniteSet(Callers), FactoryInv, ServedInv, NEW c \in Callers, Edit(c)
  PROVE  /\ index' \in [Ids -> [Namespaces -> [object : Objects, dirty : {{}}]]]
         /\ \A i \in Ids, ns \in Namespaces : index'[i][ns].object = index[i][ns].object
<1>1. 1 \in Ids /\ pc[c] = "edit" /\ mine[c] = 1
  BY OneInformer, Zenon DEF Edit, FactoryInv, Ahead
<1>2. PICK paths : Scribble(c, paths)
  BY Zenon DEF Edit
<1>3. held[c].shared = {} /\ held[c].ns \in Namespaces
  BY <1>1, Zenon DEF ServedInv, OwnCopies
<1>4. \/ index' = index
      \/ index' = [index EXCEPT ![1][held[c].ns].dirty = @ \cup (paths \cap {})]
  BY <1>1, <1>2, <1>3, Zenon DEF Scribble
<1>5. index[1][held[c].ns].dirty \cup (paths \cap {}) = {}
  BY <1>1, <1>3, ZenonT(30) DEF ServedInv, StoreTypes
<1>6. \/ index' = index
      \/ index' = [index EXCEPT ![1][held[c].ns].dirty = {}]
  BY <1>4, <1>5, Zenon
<1> DEFINE e == index[1][held[c].ns]
<1>7. e \in [object : Objects, dirty : {{}}]
  BY <1>1, <1>3 DEF ServedInv, StoreTypes
<1>8. /\ [e EXCEPT !.dirty = {}] \in [object : Objects, dirty : {{}}]
      /\ [e EXCEPT !.dirty = {}].object = e.object
  BY <1>7, Zenon
<1>9. CASE index' = [index EXCEPT ![1][held[c].ns].dirty = {}]
  <2>1. index' = [index EXCEPT ![1][held[c].ns] = [e EXCEPT !.dirty = {}]]
    BY <1>9, Zenon
  <2> HIDE DEF e
  <2> QED
    BY <1>1, <1>3, <1>8, <2>1, Zenon DEF ServedInv, StoreTypes, e
<1> QED
  BY <1>6, <1>9, Zenon DEF ServedInv, StoreTypes

\* Callers get copies, which share nothing, change them and push them.
LEMMA ServedWork ==
  ASSUME IsFiniteSet(Callers), FactoryInv, ServedInv, NEW c \in Callers, Work(c)
  PROVE  ServedInv'
<1>0. 1 \in Ids /\ DOMAIN pc = Callers /\ kind \in Kinds /\ Resource(kind) \in Resources
  BY OneInformer, ZenonT(30) DEF FactoryInv, TypeOK, ServedInv, StoreTypes, Resources
<1>1. CASE \E ns \in Namespaces : Get(c, ns)
  <2>1. UNCHANGED <<kind, scope, api, log, index, reflector>>
    BY <1>1, Zenon DEF Get, caches
  <2>2. PICK ns \in Namespaces : Get(c, ns)
    BY <1>1, Zenon
  <2>3. PICK shared \in {Shared(kind), {Tail(path) : path \in SharedList(kind)}} :
          held' = [held EXCEPT ![c] = [ns |-> ns, object |-> index[mine[c]][ns].object,
                                       shared |-> shared, edited |-> ""]]
    BY <2>2, Zenon DEF Get
  <2>4. shared = {}
    BY <1>0, <2>3, NothingShared, ZenonT(30)
  <2>5. OwnCopies' /\ DOMAIN held' = Callers
    BY <1>0, <2>2, <2>3, <2>4, ZenonT(30) DEF Get, Goto, ServedInv, StoreTypes, OwnCopies
  <2> QED
    BY <2>1, <2>5, SMTT(30) DEF ServedInv, StoreTypes, Resources, OtherKind, Served
<1>2. CASE Edit(c)
  <2>1. UNCHANGED <<kind, scope, api, log, reflector>> /\ pc[c] = "edit" /\ mine[c] = 1
    BY <1>2, Zenon DEF Edit, FactoryInv, Ahead
  <2>3. held[c].shared = {} /\ held[c].ns \in Namespaces
    BY <2>1, Zenon DEF ServedInv, OwnCopies
  <2>4. /\ index' \in [Ids -> [Namespaces -> [object : Objects, dirty : {{}}]]]
        /\ \A i \in Ids, ns \in Namespaces : index'[i][ns].object = index[i][ns].object
    BY <1>2, EditKeeps, Zenon
  <2>5. OwnCopies' /\ DOMAIN held' = Callers
    <3>1. PICK edited : held' = [held EXCEPT ![c].edited = edited]
      BY <1>2, Zenon DEF Edit
    <3>2. /\ DOMAIN held' = Callers /\ held'[c] = [held[c] EXCEPT !.edited = edited]
          /\ \A d \in Callers : d # c => held'[d] = held[d]
      BY <3>1, Zenon DEF ServedInv, StoreTypes
    <3>3. held'[c].shared = held[c].shared /\ held'[c].ns = held[c].ns
      BY <3>2
    <3> QED
      BY <1>0, <1>2, <2>3, <3>2, <3>3, ZenonT(30) DEF Edit, Goto, ServedInv, OwnCopies
  <2>6. Resources' = Resources /\ Resource(kind)' = Resource(kind)
    BY <2>1, Zenon DEF Resources, OtherKind
  <2>7. StoreTypes'
    BY <2>1, <2>4, <2>5, <2>6, Zenon DEF ServedInv, StoreTypes
  <2>8. \A r \in Resources, ns \in Namespaces : Served(r, ns, api[r][ns])'
    BY <2>1, ZenonT(30) DEF ServedInv, Served
  <2>9. \A i \in Ids, ns \in Namespaces : Served(Resource(kind), ns, index[i][ns].object)'
    BY <2>1, <2>4 DEF ServedInv, Served
  <2> QED
    BY <2>5, <2>6, <2>7, <2>8, <2>9, Zenon DEF ServedInv
<1>3. CASE Push(c)
  <2>1. UNCHANGED <<kind, scope, index, reflector>> /\ pc[c] = "push"
    BY <1>3, Zenon DEF Push, caches
  <2>2. OwnCopies' /\ DOMAIN held' = Callers
    BY <1>0, <1>3, ZenonT(30) DEF Push, Goto, ServedInv, StoreTypes, OwnCopies
  <2>3. CASE UNCHANGED <<api, log>>
    BY <2>1, <2>2, <2>3 DEF ServedInv, StoreTypes, Resources, OtherKind, Served
  <2>4. CASE Store(PushRequest(c), held[c].ns, Put(PushRequest(c), api[PushRequest(c).resource][held[c].ns]))
    <3>1. PushRequest(c).resource = Resource(kind)
      BY <1>0, ClientsMatch, Zenon DEF PushRequest, AllUse
    <3>2. held[c].ns \in Namespaces
      BY <2>1, Zenon DEF ServedInv, OwnCopies
    <3>3. Put(PushRequest(c), api[PushRequest(c).resource][held[c].ns]) \in Objects
      BY <1>0, <3>1, <3>2, PutTypes DEF ServedInv, StoreTypes
    <3> QED
      BY <1>0, <2>1, <2>2, <2>4, <3>1, <3>2, <3>3, StoreServes, Zenon
  <2> QED
    BY <1>3, <2>3, <2>4, Zenon DEF Push
<1> QED
  BY <1>1, <1>2, <1>3, Zenon DEF Work

\* A step of anybody.
LEMMA ServedNext ==
  ASSUME IsFiniteSet(Callers), FactoryInv, ServedInv, [Next]_vars
  PROVE  ServedInv'
<1>1. ASSUME NEW c \in Callers, Setup(c) PROVE ServedInv'
  <2>1. UNCHANGED <<kind, scope, api, log, index, reflector, held>>
    BY <1>1, Zenon DEF Setup, InformerFor, Start, SnapshotStarted, WaitForCacheSync, caches
  <2>2. OwnCopies'
    <3>1. PICK label \in {"start", "wait", "waiting", "read"} : Goto(c, label)
      BY <1>1, Zenon DEF Setup, InformerFor, Start, SnapshotStarted, WaitForCacheSync
    <3> QED
      BY <2>1, <3>1, Zenon DEF Goto, ServedInv, OwnCopies, FactoryInv, TypeOK
  <2> QED
    BY <2>1, <2>2, SMTT(30) DEF ServedInv, StoreTypes, Resources, OtherKind, Served
<1>2. CASE UNCHANGED vars
  BY <1>2 DEF vars, caches, callers, ServedInv, StoreTypes, OwnCopies, Resources, OtherKind, Served
<1>3. "n1" \in Namespaces
  BY Zenon DEF Namespaces
<1> QED
  BY <1>1, <1>2, <1>3, ServedWork, ServedReflect, ServedOutside, ZenonT(30) DEF Next

--------------------------------------------------------------------------------
(***************************************************************************)
(* What an index shows is the state of one moment.                         *)
(***************************************************************************)

\* Had, of any record of writes l and any resource r.
HadIn(l, r, ns, n, o) ==
  LET wrote(m) == l[m].resource = r /\ l[m].ns = ns
  IN  \/ o = Absent /\ \A m \in 1..n : ~wrote(m)
      \/ \E m \in 1..n : wrote(m) /\ l[m].object = o /\ \A k \in (m + 1)..n : ~wrote(k)

\* The API has what the last writes left, and an index what the first ones did, as many as
\* its reflector has seen.
Latest == \A ns \in Namespaces : Had(ns, Len(log), api[Resource(kind)][ns])

Shows(i) ==
  /\ reflector[i].at <= Len(log)
  /\ reflector[i].watching => reflector[i].listed
  /\ \A ns \in Namespaces :
       IF reflector[i].listed /\ ns \in scope THEN Had(ns, reflector[i].at, index[i][ns].object)
       ELSE index[i][ns].object = Absent

SnapshotInv == Latest /\ \A i \in Ids : Shows(i)

\* Had is HadIn of the record and the resource of the kind.
LEMMA HadIsHadIn ==
  ASSUME NEW ns, NEW n, NEW o
  PROVE  /\ Had(ns, n, o) <=> HadIn(log, Resource(kind), ns, n, o)
         /\ Had(ns, n, o)' <=> HadIn(log', Resource(kind'), ns, n, o)
BY Zenon DEF Had, HadIn

\* A further write leaves alone what was there before it.
LEMMA HadStays ==
  ASSUME NEW S, NEW l \in Seq(S), NEW w, NEW r, NEW ns, NEW n \in 0..Len(l), NEW o,
         HadIn(l, r, ns, n, o)
  PROVE  HadIn(Append(l, w), r, ns, n, o)
<1>1. \A m \in 1..n : Append(l, w)[m] = l[m]
  OBVIOUS
<1>2. \A m \in 1..n : \A k \in (m + 1)..n : k \in 1..n
  OBVIOUS
<1> QED
  BY <1>1, <1>2 DEF HadIn

\* The next write replaces the object if it is one of that resource and namespace.
LEMMA HadNext ==
  ASSUME NEW l, NEW r, NEW ns, NEW n \in Nat, NEW o
  PROVE  /\ l[n + 1].resource = r /\ l[n + 1].ns = ns
              => HadIn(l, r, ns, n + 1, l[n + 1].object)
         /\ ~(l[n + 1].resource = r /\ l[n + 1].ns = ns) /\ HadIn(l, r, ns, n, o)
              => HadIn(l, r, ns, n + 1, o)
<1>1. /\ n + 1 \in 1..(n + 1)
      /\ \A k : k \notin (n + 1 + 1)..(n + 1)
      /\ \A m \in 1..n : m \in 1..(n + 1)
      /\ \A m \in 1..(n + 1) : m = n + 1 \/ m \in 1..n
      /\ \A m \in 1..n : \A k \in (m + 1)..(n + 1) : k = n + 1 \/ k \in (m + 1)..n
  OBVIOUS
<1> QED
  BY <1>1, Zenon DEF HadIn

\* A write of the API server.
LEMMA StoreSnapshot ==
  ASSUME ServedInv, SnapshotInv, NEW request, NEW ns \in Namespaces, NEW o \in Objects,
         request.resource \in Resources, Store(request, ns, o),
         UNCHANGED <<kind, scope, index, reflector>>
  PROVE  SnapshotInv'
<1> DEFINE r == Resource(kind)
           w == [resource |-> request.resource, ns |-> ns, object |-> o]
<1>1. log' = Append(log, w) /\ api' = [api EXCEPT ![request.resource][ns] = o] /\ r \in Resources
  BY Zenon DEF Store, Resources
<1>2. log \in Seq(Writes) /\ api \in [Resources -> [Namespaces -> Objects]]
  BY Zenon DEF ServedInv, StoreTypes
<1>3. Len(log) \in Nat /\ Len(log) \in 0..Len(log) /\ Len(log') = Len(log) + 1
      /\ log'[Len(log) + 1] = w
  <2> HIDE DEF w
  <2> QED
    BY <1>1, <1>2
<1>4. /\ w.resource = request.resource /\ w.ns = ns /\ w.object = o
      /\ r = Resource(kind')
  BY Zenon
<1>5. \A m \in Namespaces : api'[r][m] = IF request.resource = r /\ ns = m THEN o ELSE api[r][m]
  BY <1>1, <1>2, Zenon
<1> HIDE DEF r, w
<1>6. ASSUME NEW m \in Namespaces PROVE HadIn(log', r, m, Len(log) + 1, api'[r][m])
  <2>1. HadIn(log, r, m, Len(log), api[r][m])
    BY HadIsHadIn, Zenon DEF SnapshotInv, Latest, r
  <2>2. HadIn(log', r, m, Len(log), api[r][m])
    BY <1>1, <1>2, <1>3, <2>1, HadStays, Zenon
  <2>3. CASE request.resource = r /\ ns = m
    BY <1>3, <1>4, <1>5, <2>3, HadNext, Zenon
  <2>4. CASE ~(request.resource = r /\ ns = m)
    BY <1>3, <1>4, <1>5, <2>2, <2>4, HadNext, Zenon
  <2> QED
    BY <2>3, <2>4, Zenon
<1>7. Latest'
  BY <1>3, <1>4, <1>6, HadIsHadIn, Zenon DEF Latest, r
<1>8. ASSUME NEW i \in Ids PROVE Shows(i)'
  <2>1. reflector[i].at \in 0..Len(log) /\ reflector[i].at <= Len(log')
    <3>1. reflector[i].at \in Nat /\ reflector[i].at <= Len(log)
      BY Zenon DEF ServedInv, StoreTypes, SnapshotInv, Shows
    <3> QED
      BY <1>3, <3>1
  <2>2. ASSUME NEW m, NEW p, Had(m, reflector[i].at, p) PROVE Had(m, reflector[i].at, p)'
    <3>1. HadIn(log', r, m, reflector[i].at, p)
      BY <1>1, <1>2, <2>1, <2>2, HadIsHadIn, HadStays, Zenon DEF r
    <3> QED
      BY <1>4, <3>1, HadIsHadIn, Zenon
  <2> QED
    BY <2>1, <2>2, Zenon DEF SnapshotInv, Shows
<1> QED
  BY <1>7, <1>8, Zenon DEF SnapshotInv, Ids

\* Where the API, the reflectors and the objects of the indexes stay, so does all this.
LEMMA SnapshotStays ==
  ASSUME SnapshotInv, UNCHANGED <<kind, scope, api, log, reflector>>,
         \A i \in Ids, ns \in Namespaces : index'[i][ns].object = index[i][ns].object
  PROVE  SnapshotInv'
<1>1. \A ns, n, o : Had(ns, n, o)' <=> Had(ns, n, o)
  BY Zenon DEF Had
<1> QED
  BY <1>1, Zenon DEF SnapshotInv, Latest, Shows

\* A reflector lists what the API has, or takes over the next write.
LEMMA SnapshotReflect ==
  ASSUME ServedInv, SnapshotInv, NEW i \in Ids, Reflect(i) \/ BreakWatch(i)
  PROVE  SnapshotInv'
<1> DEFINE r == Resource(kind)
<1>1. UNCHANGED <<kind, scope, api, log>>
  BY Zenon DEF Reflect, List_, Event, BreakWatch
<1>2. /\ TheInformer.list.resource = r /\ TheInformer.watch.resource = r /\ r \in Resources
      /\ log \in Seq(Writes) /\ Len(log) \in Nat
  <2>1. TheInformer.list.resource = r /\ TheInformer.watch.resource = r /\ r \in Resources
    BY InformersMatch, Zenon DEF ServedInv, StoreTypes, Resources
  <2> HIDE DEF r
  <2>2. log \in Seq(Writes)
    BY Zenon DEF ServedInv, StoreTypes
  <2> QED
    BY <2>1, <2>2
<1> HIDE DEF r
<1>3. /\ index \in [Ids -> [Namespaces -> [object : Objects, dirty : {{}}]]]
      /\ reflector \in [Ids -> [listed : BOOLEAN, watching : BOOLEAN, at : Nat]]
  BY Zenon DEF ServedInv, StoreTypes
<1>4. \A ns, n, o : Had(ns, n, o)' <=> Had(ns, n, o)
  BY <1>1, Zenon DEF Had
<1>5. Latest'
  BY <1>1, <1>4, Zenon DEF SnapshotInv, Latest
<1>6. Shows(i)'
  <2>1. CASE List_(i)
    <3>1. /\ reflector'[i] = [listed |-> TRUE, watching |-> TRUE, at |-> Len(log)]
          /\ \A ns \in Namespaces :
               index'[i][ns] = IF ns \in scope THEN Entry(api[r][ns]) ELSE Entry(Absent)
      BY <1>2, <1>3, <2>1, Zenon DEF List_
    <3>2. /\ reflector'[i].listed /\ reflector'[i].at = Len(log)
          /\ \A ns \in Namespaces :
               index'[i][ns].object = IF ns \in scope THEN api[r][ns] ELSE Absent
      <4>1. \A x : Entry(x).object = x
        BY Zenon DEF Entry
      <4> QED
        BY <3>1, <4>1
    <3>3. reflector'[i].at <= Len(log')
      BY <1>1, <1>2, <3>2
    <3> QED
      BY <1>1, <1>4, <3>2, <3>3, Zenon DEF SnapshotInv, Latest, Shows, r
  <2>2. CASE Event(i)
    <3> DEFINE n == reflector[i].at
               mine_(ns) == log[n + 1].resource = r /\ log[n + 1].ns = ns /\ ns \in scope
    <3>1. /\ reflector[i].watching /\ reflector[i].listed
          /\ n \in Nat /\ n + 1 <= Len(log) /\ log[n + 1] \in Writes
      <4>1. reflector[i].watching /\ reflector[i].listed /\ n \in Nat /\ n + 1 <= Len(log)
        BY <1>3, <2>2, Zenon DEF Event, SnapshotInv, Shows
      <4>2. log[n + 1] \in Writes
        BY <1>2, <4>1
      <4> QED
        BY <4>1, <4>2, Zenon
    <3>2. reflector'[i] = [reflector[i] EXCEPT !.at = n + 1]
      BY <1>3, <2>2, Zenon DEF Event
    <3>3. reflector'[i].at = n + 1 /\ reflector'[i].listed = reflector[i].listed
      BY <1>3, <3>2, Zenon
    <3>4. \A ns \in Namespaces :
            index'[i][ns].object = IF mine_(ns) THEN log[n + 1].object ELSE index[i][ns].object
      BY <1>2, <1>3, <2>2, Zenon DEF Event, Entry
    <3>5. ASSUME NEW ns \in Namespaces, ns \in scope
          PROVE  Had(ns, n + 1, index'[i][ns].object)
      <4>1. HadIn(log, r, ns, n, index[i][ns].object)
        BY <3>1, <3>5, HadIsHadIn, Zenon DEF SnapshotInv, Shows, r
      <4> HIDE DEF n
      <4>2. HadIn(log, r, ns, n + 1, index'[i][ns].object)
        BY <3>1, <3>4, <3>5, <4>1, HadNext, Zenon
      <4> QED
        BY <4>2, HadIsHadIn, Zenon DEF r
    <3>6. \A ns \in Namespaces : ns \notin scope => index'[i][ns].object = Absent
      BY <3>4, Zenon DEF SnapshotInv, Shows
    <3> HIDE DEF n, mine_
    <3> QED
      BY <1>1, <1>4, <3>1, <3>3, <3>5, <3>6, Zenon DEF Shows
  <2>3. CASE BreakWatch(i)
    <3>1. index' = index /\ reflector'[i] = [reflector[i] EXCEPT !.watching = FALSE]
      BY <1>3, <2>3, Zenon DEF BreakWatch
    <3>2. /\ reflector'[i].at = reflector[i].at /\ reflector'[i].listed = reflector[i].listed
          /\ reflector'[i].watching = FALSE
      BY <1>3, <3>1, Zenon
    <3> QED
      BY <1>1, <1>4, <3>1, <3>2, Zenon DEF SnapshotInv, Shows
  <2> QED
    BY <2>1, <2>2, <2>3, Zenon DEF Reflect
<1>7. ASSUME NEW j \in Ids, j # i PROVE Shows(j)'
  <2>1. reflector'[j] = reflector[j] /\ index'[j] = index[j]
    BY <1>3, <1>7, Zenon DEF Reflect, List_, Event, BreakWatch
  <2> QED
    BY <1>1, <1>4, <2>1, Zenon DEF SnapshotInv, Shows
<1> QED
  BY <1>5, <1>6, <1>7, Zenon DEF SnapshotInv, Ids

\* At first nothing is listed, and the API has the one object that was written.
LEMMA SnapshotInit ==
  ASSUME Init
  PROVE  SnapshotInv
<1> DEFINE o == [type |-> kind, version |-> 1, spec |-> 1, status |-> 0]
           r == Resource(kind)
<1>1. r \in Resources /\ "n1" \in Namespaces
  BY Zenon DEF Resources, Namespaces
<1>2. /\ \A ns \in Namespaces : api[r][ns] = IF ns = "n1" THEN o ELSE Absent
      /\ log = <<[resource |-> r, ns |-> "n1", object |-> o]>>
  BY <1>1, Zenon DEF Init
<1> HIDE DEF o, r
<1>3. Len(log) = 1 /\ log[1] = [resource |-> r, ns |-> "n1", object |-> o]
  BY <1>2
<1>4. 1..1 = {1} /\ \A m : m \notin (1 + 1)..1
  OBVIOUS
<1>5. \A ns \in Namespaces : HadIn(log, r, ns, 1, api[r][ns])
  <2>1. log[1].resource = r /\ log[1].ns = "n1" /\ log[1].object = o
    BY <1>3
  <2> QED
    BY <1>2, <1>4, <2>1 DEF HadIn
<1>6. Latest
  BY <1>3, <1>5, HadIsHadIn, Zenon DEF Latest, r
<1>7. 0 <= Len(log)
  BY <1>3
<1>8. \A i \in Ids : /\ reflector[i].listed = FALSE /\ reflector[i].watching = FALSE
                     /\ reflector[i].at = 0
                     /\ \A ns \in Namespaces : index[i][ns].object = Absent
  BY Zenon DEF Init, Empty, Entry
<1> QED
  BY <1>6, <1>7, <1>8, Zenon DEF SnapshotInv, Shows

\* A step of anybody.
LEMMA SnapshotNext ==
  ASSUME IsFiniteSet(Callers), FactoryInv, ServedInv, SnapshotInv, [Next]_vars
  PROVE  SnapshotInv'
<1>1. ASSUME NEW c \in Callers, Setup(c) PROVE SnapshotInv'
  BY <1>1, SnapshotStays, Zenon
     DEF Setup, InformerFor, Start, SnapshotStarted, WaitForCacheSync, caches
<1>2. CASE UNCHANGED vars
  BY <1>2, SnapshotStays, Zenon DEF vars, caches
<1>3. ASSUME NEW c \in Callers, Work(c) PROVE SnapshotInv'
  <2>1. CASE \E ns \in Namespaces : Get(c, ns)
    BY <2>1, SnapshotStays, Zenon DEF Get, caches
  <2>2. CASE Edit(c)
    BY <2>2, EditKeeps, SnapshotStays, Zenon DEF Edit
  <2>3. CASE Push(c)
    <3>1. UNCHANGED <<kind, scope, index, reflector>> /\ pc[c] = "push"
      BY <2>3, Zenon DEF Push, caches
    <3>2. CASE UNCHANGED <<api, log>>
      BY <3>1, <3>2, SnapshotStays, Zenon
    <3>3. CASE Store(PushRequest(c), held[c].ns,
                     Put(PushRequest(c), api[PushRequest(c).resource][held[c].ns]))
      <4>1. PushRequest(c).resource \in Resources /\ held[c].ns \in Namespaces
        BY <3>1, PushIsOwn, Zenon
      <4>2. Put(PushRequest(c), api[PushRequest(c).resource][held[c].ns]) \in Objects
        BY <4>1, PutTypes, Zenon DEF ServedInv, StoreTypes
      <4> QED
        BY <3>1, <3>3, <4>1, <4>2, StoreSnapshot, Zenon
    <3> QED
      BY <2>3, <3>2, <3>3, Zenon DEF Push
  <2> QED
    BY <1>3, <2>1, <2>2, <2>3, Zenon DEF Work
<1>4. ASSUME NEW k \in {kind, OtherKind}, NEW ns \in Namespaces, OutsideWrite(k, ns)
      PROVE  SnapshotInv'
  <2>1. PICK request : \E o \in Objects : request.resource \in Resources /\ Store(request, ns, o)
    BY <1>4, OutsideStores, Zenon
  <2> QED
    BY <1>4, <2>1, StoreSnapshot, Zenon DEF OutsideWrite, caches
<1>5. "n1" \in Namespaces
  BY Zenon DEF Namespaces
<1> QED
  BY <1>1, <1>2, <1>3, <1>4, <1>5, SnapshotReflect, ZenonT(30) DEF Next

\* Both invariants hold.
LEMMA SnapshotsHold ==
  ASSUME IsFiniteSet(Callers)
  PROVE  Spec => [](ServedInv /\ SnapshotInv)
<1>1. Init => ServedInv /\ SnapshotInv
  BY ServedInit, SnapshotInit, Zenon
<1>2. FactoryInv /\ ServedInv /\ SnapshotInv /\ [Next]_vars => ServedInv' /\ SnapshotInv'
  BY ServedNext, SnapshotNext, Zenon
<1> QED
  BY <1>1, <1>2, FactoryHolds, PTL DEF Spec

\* What an index holds was served at one moment, and no caller has written to it: the
\* informers list and watch the resource of their kind, and the copies of all thirteen
\* kinds are deep.
THEOREM IndexesAreServed ==
  ASSUME IsFiniteSet(Callers)
  PROVE  Spec => []IndexIsServed
<1>1. ServedInv /\ SnapshotInv => IndexIsServed
  BY ZenonT(30) DEF ServedInv, StoreTypes, SnapshotInv, Shows, IndexIsServed
<1> QED
  BY <1>1, SnapshotsHold, PTL
--------------------------------------------------------------------------------
(***************************************************************************)
(* Versions identify objects.                                              *)
(***************************************************************************)

\* The version of an object is the place of its write on record, and what a caller has in
\* its hands was written.
Numbered == \A n \in DOMAIN log : log[n].object = Absent \/ log[n].object.version = n

Holds(c) == held[c].object # Absent /\ Served(Resource(kind), held[c].ns, held[c].object)

VersionInv ==
  /\ Numbered
  /\ \A c \in Callers : pc[c] \in {"edit", "push"} => Holds(c)

\* The listers find no object where there is none.
LEMMA ListersFind ==
  ASSUME NEW k \in Kinds
  PROVE  Listers[k].Reads["absent"] = "notFound"
<1>1. ASSUME NEW t \in Kinds PROVE Lister(t).Reads["absent"] = "notFound"
  <2>1. "absent" \notin Kinds
    BY DEF Kinds, Types
  <2> QED
    BY <1>1, <2>1, Zenon DEF Lister
<1>2. Listers[k] = Lister(k)
  BY DEF Kinds, Types, Listers,
         BindingLister, ExchangeLister, FederationLister, OperatorPolicyLister,
         PermissionLister, PolicyLister, QueueLister, SchemaReplicationLister, ShovelLister,
         SuperStreamLister, TopicPermissionLister, UserLister, VhostLister
<1> QED
  BY <1>1, <1>2, Zenon

\* A write is numbered, and leaves what callers have on record.
LEMMA StoreNumbers ==
  ASSUME ServedInv, VersionInv, NEW request, NEW ns \in Namespaces, NEW o \in Objects,
         request.resource \in Resources, Store(request, ns, o),
         o = Absent \/ o.version = Len(log) + 1
  PROVE  Numbered' /\ \A q, m, p : Served(q, m, p) => Served(q, m, p)'
<1> DEFINE w == [resource |-> request.resource, ns |-> ns, object |-> o]
<1>1. request.resource \in {Resource(k) : k \in Kinds}
  BY Zenon DEF ServedInv, StoreTypes, Resources, OtherKind, Kinds, Types
<1>2. w \in Writes /\ log' = Append(log, w) /\ log \in Seq(Writes) /\ w.object = o
  BY <1>1, Zenon DEF Writes, Store, ServedInv, StoreTypes
<1> HIDE DEF w
<1>3. \A n \in DOMAIN log' : n = Len(log) + 1 \/ (n \in DOMAIN log /\ log'[n] = log[n])
  <2>1. /\ Len(log) \in Nat /\ DOMAIN log = 1..Len(log) /\ DOMAIN log' = 1..(Len(log) + 1)
        /\ \A n \in DOMAIN log : log'[n] = log[n]
    BY <1>2
  <2>2. \A n \in 1..(Len(log) + 1) : n = Len(log) + 1 \/ n \in 1..Len(log)
    BY <2>1
  <2> QED
    BY <2>1, <2>2, Zenon
<1>4. log'[Len(log) + 1] = w
  BY <1>2
<1>5. Numbered'
  BY <1>2, <1>3, <1>4, Zenon DEF VersionInv, Numbered
<1> QED
  BY <1>2, <1>5, WritesAreKept, Zenon

\* A step of anybody.
LEMMA VersionNext ==
  ASSUME IsFiniteSet(Callers), FactoryInv, ServedInv, VersionInv, [Next]_vars
  PROVE  VersionInv'
<1>0. DOMAIN pc = Callers /\ DOMAIN held = Callers
  BY Zenon DEF FactoryInv, TypeOK, ServedInv, StoreTypes
<1>1. ASSUME UNCHANGED <<kind, log>> PROVE /\ Numbered'
                                           /\ \A c \in Callers : held'[c] = held[c] /\ Holds(c) => Holds(c)'
  BY <1>1, Zenon DEF VersionInv, Numbered, Holds, Served
<1>2. ASSUME NEW c \in Callers, Setup(c) PROVE VersionInv'
  <2>1. UNCHANGED <<kind, log, held>>
    BY <1>2, Zenon DEF Setup, InformerFor, Start, SnapshotStarted, WaitForCacheSync
  <2>2. PICK label \in {"start", "wait", "waiting", "read"} : Goto(c, label)
    BY <1>2, Zenon DEF Setup, InformerFor, Start, SnapshotStarted, WaitForCacheSync
  <2>3. \A d \in Callers : pc'[d] \in {"edit", "push"} => pc'[d] = pc[d]
    BY <1>0, <2>2, Zenon DEF Goto
  <2> QED
    BY <1>1, <2>1, <2>3, Zenon DEF VersionInv
<1>3. ASSUME NEW c \in Callers, NEW ns \in Namespaces, Get(c, ns) PROVE VersionInv'
  <2> DEFINE e == index[mine[c]][ns].object
  <2>1. 1 \in Ids /\ mine[c] = 1 /\ kind \in Kinds /\ UNCHANGED <<kind, log>>
    BY <1>3, OneInformer, Zenon DEF Get, FactoryInv, Ahead, ServedInv, StoreTypes
  <2>2. e # Absent /\ Served(Resource(kind), ns, e)
    <3>1. e.type # "absent"
      BY <1>3, <2>1, ListersFind, Zenon DEF Get
    <3>2. Absent.type = "absent"
      BY Zenon DEF Absent
    <3>3. Served(Resource(kind), ns, index[1][ns].object)
      BY <1>3, <2>1, Zenon DEF ServedInv
    <3> QED
      BY <2>1, <3>1, <3>2, <3>3, Zenon
  <2>3. /\ held'[c].ns = ns /\ held'[c].object = e
        /\ \A d \in Callers : d # c => held'[d] = held[d] /\ pc'[d] = pc[d]
    <3>1. PICK shared :
            held' = [held EXCEPT ![c] = [ns |-> ns, object |-> e, shared |-> shared, edited |-> ""]]
      BY <1>3, Zenon DEF Get
    <3>2. held'[c] = [ns |-> ns, object |-> e, shared |-> shared, edited |-> ""]
      BY <1>0, <3>1, Zenon
    <3> HIDE DEF e
    <3> QED
      BY <1>0, <1>3, <3>1, <3>2, Zenon DEF Get, Goto
  <2> HIDE DEF e
  <2>4. Holds(c)'
    BY <2>1, <2>2, <2>3, Zenon DEF Holds, Served
  <2> QED
    BY <1>1, <2>1, <2>3, <2>4, Zenon DEF VersionInv
<1>4. ASSUME NEW c \in Callers, Edit(c) PROVE VersionInv'
  <2>1. UNCHANGED <<kind, log>> /\ pc[c] = "edit"
    BY <1>4, Zenon DEF Edit
  <2>2. PICK edited : held' = [held EXCEPT ![c].edited = edited]
    BY <1>4, Zenon DEF Edit
  <2>3. held'[c] = [held[c] EXCEPT !.edited = edited]
    BY <1>0, <2>2, Zenon
  <2>4. held'[c].ns = held[c].ns /\ held'[c].object = held[c].object
    BY <2>3
  <2>5. \A d \in Callers : d # c => held'[d] = held[d] /\ pc'[d] = pc[d]
    BY <1>0, <1>4, <2>2, Zenon DEF Edit, Goto
  <2>6. Holds(c)'
    BY <2>1, <2>4, Zenon DEF VersionInv, Holds, Served
  <2> QED
    BY <1>1, <2>1, <2>5, <2>6, Zenon DEF VersionInv
<1>5. ASSUME NEW c \in Callers, Push(c) PROVE VersionInv'
  <2>1. kind' = kind /\ pc[c] = "push"
    BY <1>5, Zenon DEF Push
  <2>2. /\ pc'[c] = "read"
        /\ \A d \in Callers : d # c => held'[d] = held[d] /\ pc'[d] = pc[d]
    BY <1>0, <1>5, Zenon DEF Push, Goto
  <2>3. CASE UNCHANGED <<api, log>>
    BY <1>1, <2>1, <2>2, <2>3, Zenon DEF VersionInv
  <2>4. CASE Store(PushRequest(c), held[c].ns,
                   Put(PushRequest(c), api[PushRequest(c).resource][held[c].ns]))
    <3> DEFINE o == Put(PushRequest(c), api[PushRequest(c).resource][held[c].ns])
    <3>1. PushRequest(c).resource \in Resources /\ held[c].ns \in Namespaces
      BY <2>1, PushIsOwn, Zenon
    <3>2. o \in Objects /\ o.version = Len(log) + 1
      BY <3>1, PutTypes, Zenon DEF ServedInv, StoreTypes
    <3> HIDE DEF o
    <3>3. Numbered' /\ \A q, m, p : Served(q, m, p) => Served(q, m, p)'
      BY <2>4, <3>1, <3>2, StoreNumbers, Zenon DEF o
    <3> QED
      BY <2>1, <2>2, <3>3, Zenon DEF VersionInv, Holds
  <2> QED
    BY <1>5, <2>3, <2>4, Zenon DEF Push
<1>6. ASSUME NEW k \in {kind, OtherKind}, NEW ns \in Namespaces, OutsideWrite(k, ns)
      PROVE  VersionInv'
  <2>1. Numbered' /\ \A q, m, p : Served(q, m, p) => Served(q, m, p)'
    BY <1>6, OutsideStores, StoreNumbers, Zenon
  <2> QED
    BY <1>6, <2>1, Zenon DEF VersionInv, Holds, OutsideWrite, callers
<1>7. ASSUME NEW i \in Ids, Reflect(i) \/ BreakWatch(i) PROVE VersionInv'
  BY <1>1, <1>7, Zenon DEF Reflect, List_, Event, BreakWatch, callers, VersionInv
<1>8. CASE UNCHANGED vars
  BY <1>1, <1>8, Zenon DEF vars, callers, VersionInv
<1>9. "n1" \in Namespaces
  BY Zenon DEF Namespaces
<1> QED
  BY <1>2, <1>3, <1>4, <1>5, <1>6, <1>7, <1>8, <1>9, ZenonT(30) DEF Next, Work

\* What a caller writes replaces the very object that it read: versions are places on
\* record, so that equal versions are one write, and a deleted object has none.
THEOREM NoUpdateIsLost ==
  ASSUME IsFiniteSet(Callers)
  PROVE  Spec => NoLostUpdate
<1>1. Init => VersionInv
  <2> SUFFICES ASSUME Init PROVE VersionInv
    BY Zenon
  <2> DEFINE o == [type |-> kind, version |-> 1, spec |-> 1, status |-> 0]
  <2>1. api[Resource(kind)]["n1"] = o
    BY Zenon DEF Init, Resources, Namespaces
  <2>2. log = <<[resource |-> Resource(kind), ns |-> "n1", object |-> o]>> /\ o.version = 1
    BY <2>1, Zenon DEF Init
  <2> HIDE DEF o
  <2>3. DOMAIN log = {1} /\ log[1].object = o
    BY <2>2
  <2> QED
    BY <2>2, <2>3, Zenon DEF Init, VersionInv, Numbered
<1>2. ASSUME ServedInv, VersionInv, NEW c \in Callers, Push(c), log' # log
      PROVE  api[Resource(kind)][held[c].ns] = held[c].object
  <2> DEFINE r == Resource(kind)
             ns == held[c].ns
             o == api[r][ns]
  <2>1. pc[c] = "push" /\ o.version = held[c].object.version
    BY <1>2, PushIsOwn, Zenon DEF Push
  <2>2. Served(r, ns, o) /\ Served(r, ns, held[c].object) /\ held[c].object # Absent
    BY <1>2, <2>1, PushIsOwn, Zenon DEF ServedInv, VersionInv, Holds
  <2> HIDE DEF r, ns, o
  <2>3. PICK n \in DOMAIN log : log[n].object = held[c].object
    BY <2>2 DEF Served
  <2>4. held[c].object.version = n /\ n # 0
    <3>1. 0 \notin DOMAIN log
      BY <1>2 DEF ServedInv, StoreTypes
    <3> QED
      BY <1>2, <2>2, <2>3, <3>1, Zenon DEF VersionInv, Numbered
  <2>5. o # Absent
    BY <2>1, <2>4 DEF Absent
  <2>6. PICK m \in DOMAIN log : log[m].object = o
    BY <2>2, <2>5 DEF Served
  <2>7. o.version = m
    BY <1>2, <2>5, <2>6, Zenon DEF VersionInv, Numbered
  <2> QED
    BY <2>1, <2>3, <2>4, <2>6, <2>7, Zenon DEF r, ns, o
<1>3. FactoryInv /\ ServedInv /\ VersionInv /\ [Next]_vars => VersionInv'
  BY VersionNext, Zenon
<1>4. ServedInv /\ VersionInv =>
        [\A c \in Callers : Push(c) /\ log' # log
           => api[Resource(kind)][held[c].ns] = held[c].object]_vars
  BY <1>2, Zenon
<1> QED
  BY <1>1, <1>3, <1>4, FactoryHolds, SnapshotsHold, PTL DEF Spec, NoLostUpdate
================================================================================
