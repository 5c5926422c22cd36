------------------------- MODULE WebhookAndVaultProofs -------------------------
(***************************************************************************)
(* Three components of which none has a variable in common with another;   *)
(* each theorem is about one of them.                                      *)
(*                                                                         *)
(*   Admission: the webhooks of twelve kinds, for any names and Secrets.   *)
(*   SuperStream: its webhook and its controller, for any routing keys,    *)
(*   any number of partitions and any objects that a partition consists of.*)
(*   VaultClient: for any number of workers, and whatever Vault does.      *)
(***************************************************************************)
EXTENDS Admission, SuperStream, VaultClient, TLAPS

--------------------------------------------------------------------------------
(***************************************************************************)
(* For any names and Secrets, and for each of the twelve kinds: the        *)
(* webhooks keep the address of an object, and what they checked once.     *)
(***************************************************************************)

\* The kinds.
LEMMA KindsAre ==
  Kinds = {"Binding", "Exchange", "Queue", "Policy", "OperatorPolicy", "Federation", "Shovel",
           "Vhost", "Permission", "TopicPermission", "SchemaReplication", "User"}
BY Zenon DEF Kinds, AddressFields

\* No field of the address may change: ValidateUpdate of each kind against what its
\* DeclareFunc and DeleteFunc pass on.
LEMMA AddressIsFrozen ==
  ASSUME NEW k \in Kinds
  PROVE  AddressFields[k] \subseteq Frozen(k)
<1>1. CASE k \in {"Binding", "Exchange", "Queue", "Policy"}
  BY <1>1 DEF AddressFields, Frozen, BindingAddress, BindingFrozen, ExchangeAddress,
     ExchangeFrozen, QueueAddress, QueueFrozen, PolicyAddress, PolicyFrozen
<1>2. CASE k \in {"OperatorPolicy", "Federation", "Shovel", "Vhost"}
  BY <1>2 DEF AddressFields, Frozen, OperatorPolicyAddress, OperatorPolicyFrozen,
     FederationAddress, FederationFrozen, ShovelAddress, ShovelFrozen, VhostAddress, VhostFrozen
<1>3. CASE k \in {"Permission", "TopicPermission", "SchemaReplication", "User"}
  BY <1>3 DEF AddressFields, Frozen, PermissionAddress, PermissionFrozen,
     TopicPermissionAddress, TopicPermissionFrozen, SchemaReplicationAddress,
     SchemaReplicationFrozen, UserAddress, UserFrozen
<1> QED
  BY <1>1, <1>2, <1>3, KindsAre, Zenon

\* The kinds whose webhook asks for a Secret besides that of the cluster.
LEMMA KindsWithSecret ==
  ASSUME NEW k \in Kinds, k \notin {"Federation", "Shovel", "SchemaReplication", "User"}
  PROVE  ~HasSecret(k)
BY KindsAre, Zenon DEF HasSecret, OtherFields
--------------------------------------------------------------------------------
(***************************************************************************)
(* Specs.                                                                  *)
(***************************************************************************)

LEMMA ReferenceDomain == Domain("reference") = References
BY Zenon DEF Domain

\* The manifest that people start from is a spec of its kind.
LEMMA BlankIsComplete ==
  ASSUME NEW k \in Kinds
  PROVE  AllFields(k, Blank(k))
<1>1. [name |-> Unset, connectionSecret |-> Unset] \in References
  BY Zenon DEF References
<1>2. (CHOOSE v \in References : TRUE) \in References
  BY <1>1, Zenon
<1>3. "reference" \in Fields(k)
  BY Zenon DEF Fields
<1>4. Blank(k)["reference"] = CHOOSE v \in References : TRUE
  BY <1>3, ReferenceDomain, Zenon DEF Blank
<1>5. DOMAIN Blank(k) = Fields(k)
  BY Zenon DEF Blank
<1> QED
  BY <1>2, <1>4, <1>5, Zenon DEF AllFields

\* So is what becomes of a spec in an edit.
LEMMA EditIsComplete ==
  ASSUME NEW k \in Kinds, NEW s, AllFields(k, s), NEW t \in Edits(k, s)
  PROVE  AllFields(k, t)
<1>0. PICK f \in Fields(k), g \in Fields(k) :
        t \in {[s EXCEPT ![f] = v, ![g] = w] : v \in Domain(f), w \in Domain(g)}
  BY DEF Edits
<1>1. PICK v \in Domain(f), w \in Domain(g) : t = [s EXCEPT ![f] = v, ![g] = w]
  BY <1>0
<1>2. "reference" \in DOMAIN s /\ DOMAIN s = Fields(k) /\ s["reference"] \in References
  BY Zenon DEF AllFields, Fields
<1>3. DOMAIN t = Fields(k)
  BY <1>1, <1>2, Zenon
<1>5. CASE g = "reference"
  BY <1>1, <1>2, <1>3, <1>5, ReferenceDomain, Zenon DEF AllFields
<1>6. CASE g # "reference" /\ f = "reference"
  BY <1>1, <1>2, <1>3, <1>6, ReferenceDomain, Zenon DEF AllFields
<1>7. CASE g # "reference" /\ f # "reference"
  BY <1>1, <1>2, <1>3, <1>7, Zenon DEF AllFields
<1> QED
  BY <1>5, <1>6, <1>7, Zenon

\* An update that a webhook admits leaves the address as it was, and what ValidateCreate
\* alone checks.
LEMMA ObjectUpdateKeeps ==
  ASSUME NEW k \in Kinds, NEW s, NEW t, NEW marked, AllFields(k, s), AllFields(k, t),
         ValidateUpdate(k, s, t, marked)
  PROVE  /\ Address(k, t) = Address(k, s)
         /\ ValidReference(s["reference"]) => ValidReference(t["reference"])
         /\ DurableQuorum(k, s) => DurableQuorum(k, t)
<1>1. /\ \A f \in Frozen(k) : t[f] = s[f]
      /\ s["reference"].name = t["reference"].name
      /\ s["reference"].connectionSecret = t["reference"].connectionSecret
  BY Zenon DEF ValidateUpdate, Matches
<1>2. s["reference"] = t["reference"]
  BY <1>1 DEF AllFields, References
<1>3. \A f \in AddressFields[k] \cup {"reference"} : t[f] = s[f]
  BY <1>1, <1>2, AddressIsFrozen, Zenon
<1>4. Address(k, t) = Address(k, s)
  BY <1>3, Zenon DEF Address
<1>5. k = "Queue" => t["type"] = s["type"] /\ t["durable"] = s["durable"]
  BY <1>1, Zenon DEF Frozen, QueueFrozen
<1> QED
  BY <1>2, <1>4, <1>5, Zenon DEF DurableQuorum
--------------------------------------------------------------------------------
(***************************************************************************)
(* The invariant.                                                          *)
(***************************************************************************)

LEMMA AdmissionStarts ==
  ASSUME AdmissionInit
  PROVE  AdmissionInv
<1>1. AllFields(kind, spec)
  BY BlankIsComplete, Zenon DEF AdmissionInit
<1> QED
  BY <1>1, Zenon DEF AdmissionInit, AdmissionInv, OneAddress, Admitted

\* One step per action: people, ...
LEMMA PeopleKeep ==
  ASSUME AdmissionInv,
         \/ \E s \in Edits(kind, spec) : Draft(s) \/ UpdateObject(s)
         \/ CreateObject \/ MarkDeleted
         \/ \E S \in SUBSET Secrets : LabelSecrets(S)
  PROVE  AdmissionInv'
<1> USE DEF AdmissionInv
<1>1. ASSUME NEW s \in Edits(kind, spec), Draft(s)
      PROVE  AdmissionInv'
  <2>1. AllFields(kind, s)
    BY EditIsComplete, Zenon
  <2> QED
    BY <1>1, <2>1, Zenon DEF Draft, OneAddress, Admitted
<1>2. ASSUME NEW s \in Edits(kind, spec), UpdateObject(s)
      PROVE  AdmissionInv'
  <2>1. /\ exists /\ ValidateUpdate(kind, spec, s, deleting) /\ spec' = s
        /\ UNCHANGED <<kind, exists, deleting, copy, server>>
    BY <1>2, Zenon DEF UpdateObject
  <2>2. AllFields(kind, s)
    BY EditIsComplete, Zenon
  <2>3. /\ Address(kind, s) = Address(kind, spec)
        /\ ValidReference(spec["reference"]) => ValidReference(s["reference"])
        /\ DurableQuorum(kind, spec) => DurableQuorum(kind, s)
    BY <2>1, <2>2, ObjectUpdateKeeps, Zenon
  <2>4. (kind = "User" /\ deleting) \/ ValidSpec(kind, s)
    BY <2>1, Zenon DEF ValidateUpdate, RulesOnUpdate
  <2>5. OneAddress'
    BY <2>1, <2>3, Zenon DEF OneAddress
  <2>6. Admitted'
    BY <2>1, <2>3, <2>4, Zenon DEF Admitted
  <2> QED
    BY <2>1, <2>2, <2>5, <2>6, Zenon
<1>3. CASE CreateObject
  <2>1. OneAddress'
    BY <1>3, Zenon DEF CreateObject, OneAddress
  <2>2. Admitted'
    BY <1>3, Zenon DEF CreateObject, ValidateCreate, Admitted
  <2> QED
    BY <1>3, <2>1, <2>2, Zenon DEF CreateObject
<1>4. CASE MarkDeleted
  BY <1>4, Zenon DEF MarkDeleted, OneAddress, Admitted
<1>5. ASSUME NEW S \in SUBSET Secrets, LabelSecrets(S)
      PROVE  AdmissionInv'
  BY <1>5, Zenon DEF LabelSecrets, OneAddress, Admitted
<1> QED
  BY <1>1, <1>2, <1>3, <1>4, <1>5, Zenon

\* ... and the worker.
LEMMA WorkerKeeps ==
  ASSUME AdmissionInv, Read \/ Declare \/ Withdraw
  PROVE  AdmissionInv'
<1> USE DEF AdmissionInv
<1>1. CASE Read
  <2>1. OneAddress'
    BY <1>1, Zenon DEF Read, OneAddress
  <2> QED
    BY <1>1, <2>1, Zenon DEF Read, Admitted
<1>2. CASE Declare
  <2>1. exists /\ Address(kind, copy.spec) = Address(kind, spec)
    BY <1>2, Zenon DEF Declare, OneAddress
  <2>2. OneAddress'
    BY <1>2, <2>1, Zenon DEF Declare, OneAddress
  <2> QED
    BY <1>2, <2>2, Zenon DEF Declare, Admitted
<1>3. CASE Withdraw
  <2>1. exists /\ Address(kind, copy.spec) = Address(kind, spec)
    BY <1>3, Zenon DEF Withdraw, OneAddress
  <2>2. server' = {} /\ copy' = NoCopy
    BY <1>3, <2>1, Zenon DEF Withdraw, OneAddress
  <2>3. exists' \in BOOLEAN /\ UNCHANGED <<kind, spec, deleting>>
    BY <1>3, Zenon DEF Withdraw
  <2>4. OneAddress'
    BY <2>2, <2>3, Zenon DEF OneAddress
  <2>5. Admitted'
    BY <2>1, <2>3, Zenon DEF Admitted
  <2> QED
    BY <2>3, <2>4, <2>5, Zenon
<1> QED
  BY <1>1, <1>2, <1>3, Zenon

LEMMA AdmissionSteps ==
  ASSUME AdmissionInv, [AdmissionNext]_admissionVars
  PROVE  AdmissionInv'
<1>1. CASE UNCHANGED admissionVars
  BY <1>1, Zenon DEF admissionVars, AdmissionInv, OneAddress, Admitted
<1> QED
  BY <1>1, PeopleKeep, WorkerKeeps, Zenon DEF AdmissionNext

\* The invariant holds throughout.
LEMMA AdmissionHolds == AdmissionSpec => []AdmissionInv
  BY AdmissionStarts, AdmissionSteps, PTL DEF AdmissionSpec
--------------------------------------------------------------------------------
\* Although DeleteFunc computes the address from the last spec, nothing stays on the
\* server that was declared from an earlier one.
THEOREM DeletedAsDeclared == AdmissionSpec => []DeletesWhatItDeclared
<1>1. AdmissionInv => DeletesWhatItDeclared
  BY Zenon DEF AdmissionInv, OneAddress, DeletesWhatItDeclared
<1> QED
  BY <1>1, AdmissionHolds, PTL

\* The rules of ValidateCreate hold in every spec that a controller is asked to declare.
THEOREM DeclaredSpecsAreValid == AdmissionSpec => []DeclaresValidSpecs
<1>1. AdmissionInv => DeclaresValidSpecs
  BY Zenon DEF AdmissionInv, Admitted, DeclaresValidSpecs
<1> QED
  BY <1>1, AdmissionHolds, PTL

\* The webhooks let the operator remove the finalizer whatever happened to the Secrets,
\* but for the three kinds that check the label of a Secret on every update.
THEOREM FinalizersCanGo == AdmissionSpec => []FinalizerCanGo
<1>1. ASSUME AdmissionInv, exists, deleting,
             kind \notin {"Federation", "Shovel", "SchemaReplication"}
      PROVE  ValidateUpdate(kind, spec, spec, TRUE)
  <2>1. RulesOnUpdate(kind, spec, TRUE)
    <3>1. CASE kind = "User"
      BY <3>1, Zenon DEF RulesOnUpdate
    <3>2. CASE kind # "User"
      <4>1. ValidSpec(kind, spec)
        BY <1>1, <3>2, Zenon DEF AdmissionInv, Admitted
      <4>2. ~HasSecret(kind)
        BY <1>1, <3>2, KindsWithSecret, Zenon DEF AdmissionInv
      <4> QED
        BY <4>1, <4>2, Zenon DEF RulesOnUpdate
    <3> QED
      BY <3>1, <3>2, Zenon
  <2> QED
    BY <2>1, Zenon DEF ValidateUpdate, Matches
<1>2. AdmissionInv => FinalizerCanGo
  BY <1>1, Zenon DEF FinalizerCanGo
<1> QED
  BY <1>2, AdmissionHolds, PTL
--------------------------------------------------------------------------------
(***************************************************************************)
(* For any routing keys, any number of partitions, any objects that a      *)
(* partition consists of, and any bounds on edits and faults: children     *)
(* keep their keys, and none is missing when nothing is left to do.        *)
(***************************************************************************)

(***************************************************************************)
(* Routing keys.                                                           *)
(***************************************************************************)

\* Lists of keys are sequences.
LEMMA KeyListsAre ==
  ASSUME NEW k \in KeyLists
  PROVE  k \in Seq(Keys) /\ Len(k) \in 0..MaxPartitions /\ (Len(k) = 0 => k = <<>>)
<1>1. PICK n \in 0..MaxPartitions : k \in [1..n -> Keys]
  BY Zenon DEF KeyLists
<1> QED
  BY <1>1, BoundsAssumption

\* Numbers of partitions may be negative.
LEMMA PartitionsAre ==
  ASSUME NEW s \in Streams
  PROVE  /\ s.partitions \in Int /\ s.partitions <= MaxPartitions
         /\ Len(s.statusPartitions) \in Nat
<1>1. s.partitions \in Sizes \cup {0} /\ s.statusPartitions \in Seq(AnyKeys)
  BY Zenon DEF Streams
<1>2. MaxPartitions \in Nat /\ 0 <= MaxPartitions /\ 0 \in Int
  BY BoundsAssumption
<1>3. Sizes \subseteq Int /\ \A n \in Sizes : n <= MaxPartitions
  BY BoundsAssumption, Zenon
<1>4. s.partitions \in Int /\ s.partitions <= MaxPartitions
  BY <1>1, <1>2, <1>3, Zenon
<1> QED
  BY <1>1, <1>4

\* The webhook permits the list that there is, and what it permits in two steps.
LEMMA PermittedSame ==
  ASSUME NEW k \in KeyLists
  PROVE  RoutingKeyUpdatePermitted(k, k)
BY KeyListsAre DEF RoutingKeyUpdatePermitted

LEMMA PermittedTwice ==
  ASSUME NEW k \in KeyLists, NEW l \in KeyLists, NEW m \in KeyLists,
         RoutingKeyUpdatePermitted(k, l), RoutingKeyUpdatePermitted(l, m)
  PROVE  RoutingKeyUpdatePermitted(k, m)
BY KeyListsAre DEF RoutingKeyUpdatePermitted

\* The key of a partition fits the keys that the webhook permits from there on.
LEMMA FitsLater ==
  ASSUME NEW s \in Streams, NEW t \in Streams, NEW i \in Nat \ {0}, NEW key,
         RoutingKeyUpdatePermitted(s.routingKeys, t.routingKeys), Fits(s, i, key)
  PROVE  Fits(t, i, key)
<1> DEFINE k == s.routingKeys
           l == t.routingKeys
<1>1. k \in KeyLists /\ l \in KeyLists
  BY Zenon DEF Streams
<1>2. Len(k) \in Nat /\ Len(l) \in Nat /\ (Len(k) = 0 => k = <<>>) /\ (Len(l) = 0 => l = <<>>)
  BY <1>1, KeyListsAre, BoundsAssumption
<1>3. Len(<<>>) = 0
  OBVIOUS
<1> QED
  BY <1>2, <1>3 DEF RoutingKeyUpdatePermitted, Fits

\* The keys of the partitions of s are as many as KeysMatch says.
LEMMA RoutingKeysAre ==
  ASSUME NEW s \in Streams
  PROVE  /\ RoutingKeysOf(s) \in Seq(AnyKeys)
         /\ Len(RoutingKeysOf(s)) \in 0..MaxPartitions
         /\ KeysMatch(s) /\ s.partitions >= 0 => Len(RoutingKeysOf(s)) = s.partitions
         /\ \A i \in 1..Len(RoutingKeysOf(s)) : Fits(s, i, RoutingKeysOf(s)[i])
<1>0. s.partitions \in Int /\ s.partitions <= MaxPartitions /\ s.routingKeys \in KeyLists
  BY PartitionsAre, Zenon DEF Streams
<1>1. CASE s.routingKeys = <<>> /\ s.partitions > 0
  <2>0. ~(s.partitions <= 0)
    BY <1>0, <1>1
  <2>1. RoutingKeysOf(s) = [i \in 1..s.partitions |-> ToString(i - 1)]
    BY <1>1, <2>0, Zenon DEF RoutingKeysOf, GenerateRoutingKeys
  <2>2. \A i \in 1..s.partitions : ToString(i - 1) \in AnyKeys
    BY <1>0, BoundsAssumption DEF AnyKeys
  <2>3. /\ RoutingKeysOf(s) \in [1..s.partitions -> AnyKeys]
        /\ \A i \in 1..s.partitions : RoutingKeysOf(s)[i] = ToString(i - 1)
    BY <2>1, <2>2, Zenon
  <2>4. RoutingKeysOf(s) \in Seq(AnyKeys) /\ Len(RoutingKeysOf(s)) = s.partitions
    BY <1>0, <1>1, <2>3, BoundsAssumption
  <2>5. Len(RoutingKeysOf(s)) \in 0..MaxPartitions
    BY <1>0, <1>1, <2>4, BoundsAssumption
  <2> QED
    BY <1>1, <2>3, <2>4, <2>5, Zenon DEF Fits
<1>3. CASE s.routingKeys = <<>> /\ ~(s.partitions > 0)
  <2>1. s.partitions <= 0 /\ (s.partitions >= 0 => s.partitions = 0)
    BY <1>0, <1>3
  <2>2. RoutingKeysOf(s) = <<>>
    BY <1>3, <2>1, Zenon DEF RoutingKeysOf, GenerateRoutingKeys
  <2>3. <<>> \in Seq(AnyKeys) /\ Len(<<>>) = 0 /\ 0 \in 0..MaxPartitions /\ 1..0 = {}
    BY BoundsAssumption
  <2> QED
    BY <2>1, <2>2, <2>3, Zenon
<1>2. CASE s.routingKeys # <<>>
  <2>1. RoutingKeysOf(s) = s.routingKeys
    BY <1>2, Zenon DEF RoutingKeysOf
  <2>2. s.routingKeys \in Seq(Keys) /\ Len(s.routingKeys) \in 0..MaxPartitions
    BY <1>0, KeyListsAre, Zenon
  <2>3. s.routingKeys \in Seq(AnyKeys)
    BY <2>2 DEF AnyKeys
  <2> QED
    BY <1>2, <2>1, <2>2, <2>3 DEF Fits, KeysMatch
<1> QED
  BY <1>1, <1>2, <1>3, Zenon
--------------------------------------------------------------------------------
(***************************************************************************)
(* Builders.                                                               *)
(***************************************************************************)

\* The builders of a partition follow each other.
LEMMA PartOf ==
  ASSUME NEW p \in Nat \ {0}, NEW l \in Nat, NEW a \in Nat, a < p * l
  PROVE  a \div p \in 0..(l - 1) /\ a % p \in 0..(p - 1)
<1>1. a \div p \in Nat /\ a % p \in 0..(p - 1) /\ a = p * (a \div p) + (a % p)
  OBVIOUS
<1>2. a \div p >= 0
  OBVIOUS
<1>3. p * (a \div p) < p * l
  BY <1>1
<1>4. a \div p < l
  BY <1>1, <1>2, <1>3
<1> QED
  BY <1>1, <1>2, <1>4

\* The exchange is no part of a partition.
LEMMA NamesDiffer ==
  ASSUME NEW k, NEW i
  PROVE  <<"exchange">> # <<k, i>>
<1>1. Len(<<"exchange">>) = 1 /\ Len(<<k, i>>) = 2
  OBVIOUS
<1> QED
  BY <1>1, Zenon

LEMMA BuildersAre ==
  ASSUME NEW s \in Streams
  PROVE  /\ DOMAIN Builders(s) = 1..(1 + Len(PartKinds) * Len(RoutingKeysOf(s)))
         /\ Len(Builders(s)) = 1 + Len(PartKinds) * Len(RoutingKeysOf(s))
         /\ Len(Builders(s)) \in Nat \ {0}
<1>1. Len(RoutingKeysOf(s)) \in Nat /\ Len(PartKinds) \in Nat
  BY RoutingKeysAre, BoundsAssumption
<1>2. Len(PartKinds) * Len(RoutingKeysOf(s)) \in Nat
  BY <1>1
<1>3. DOMAIN Builders(s) = 1..(1 + Len(PartKinds) * Len(RoutingKeysOf(s)))
  BY Zenon DEF Builders
<1> QED
  BY <1>2, <1>3

\* The names of the children.
LEMMA ChildNamesAre ==
  /\ <<"exchange">> \in ChildNames
  /\ \A j \in 1..Len(PartKinds), i \in 1..MaxPartitions : <<PartKinds[j], i>> \in ChildNames
BY DEF ChildNames

\* A builder makes the exchange, or one of the objects of a partition with its key.
LEMMA BuilderIs ==
  ASSUME NEW s \in Streams, NEW n \in DOMAIN Builders(s)
  PROVE  LET b == Builders(s)[n] IN
         /\ b.name \in ChildNames
         /\ \/ b.name = <<"exchange">> /\ b.key = NoKey
            \/ \E j \in 1..Len(PartKinds), i \in 1..MaxPartitions :
                 b.name = <<PartKinds[j], i>> /\ Fits(s, i, b.key)
<1> DEFINE parts == Len(PartKinds)
           keys == RoutingKeysOf(s)
<1>0. parts \in Nat \ {0} /\ Len(keys) \in 0..MaxPartitions /\ parts * Len(keys) \in Nat
  BY RoutingKeysAre, BoundsAssumption
<1>1. n \in 1..(1 + parts * Len(keys))
  BY BuildersAre, Zenon
<1>2. \A i \in 1..Len(keys) : Fits(s, i, keys[i])
  BY RoutingKeysAre, Zenon
<1>3. CASE n = 1
  <2>1. Builders(s)[n] = [name |-> <<"exchange">>, key |-> NoKey]
    BY <1>3, BuildersAre, Zenon DEF Builders
  <2> QED
    BY <2>1 DEF ChildNames
<1>4. CASE n # 1
  <2> DEFINE j == ((n - 2) % parts) + 1
             i == (n - 2) \div parts + 1
  <2>1. Builders(s)[n] = [name |-> <<PartKinds[j], i>>, key |-> keys[i]]
    BY <1>1, <1>4, Zenon DEF Builders
  <2> HIDE DEF parts, keys
  <2>2. n - 2 \in Nat /\ n - 2 < parts * Len(keys)
    BY <1>0, <1>1, <1>4
  <2>3. (n - 2) \div parts \in 0..(Len(keys) - 1) /\ (n - 2) % parts \in 0..(parts - 1)
    <3> DEFINE a == n - 2
               l == Len(keys)
    <3>1. parts \in Nat \ {0} /\ l \in Nat /\ a \in Nat /\ a < parts * l
      BY <1>0, <2>2
    <3> HIDE DEF a, l
    <3>2. a \div parts \in 0..(l - 1) /\ a % parts \in 0..(parts - 1)
      BY <3>1, PartOf, Zenon
    <3> QED
      BY <3>2, Zenon DEF a, l
  <2>4. i \in 1..Len(keys) /\ j \in 1..parts
    BY <1>0, <2>3
  <2> HIDE DEF i, j
  <2>5. i \in 1..MaxPartitions /\ Fits(s, i, keys[i])
    BY <1>0, <1>2, <2>4, BoundsAssumption
  <2>6. <<PartKinds[j], i>> \in ChildNames
    BY <2>4, <2>5, ChildNamesAre, Zenon DEF parts
  <2>7. Builders(s)[n].name = <<PartKinds[j], i>> /\ Builders(s)[n].key = keys[i]
    BY <2>1
  <2> QED
    BY <2>4, <2>5, <2>6, <2>7, Zenon DEF parts
<1> QED
  BY <1>3, <1>4, Zenon

\* The builders depend on the partitions and the keys.
LEMMA SameBuilders ==
  ASSUME NEW s, NEW t, s.partitions = t.partitions, s.routingKeys = t.routingKeys
  PROVE  /\ Builders(s) = Builders(t)
         /\ KeysMatch(s) = KeysMatch(t)
         /\ RoutingKeysOf(s) = RoutingKeysOf(t)
<1>1. RoutingKeysOf(s) = RoutingKeysOf(t)
  BY Zenon DEF RoutingKeysOf, GenerateRoutingKeys
<1> QED
  BY <1>1, Zenon DEF Builders, KeysMatch

--------------------------------------------------------------------------------
(***************************************************************************)
(* What the actions do.                                                    *)
(***************************************************************************)

LEMMA NoStreamIs ==
  ASSUME NEW uid \in Nat
  PROVE  NoStream(uid) \in Streams /\ Counted(NoStream(uid))
<1>1. <<>> \in KeyLists
  <2>1. <<>> \in [1..0 -> Keys]
    OBVIOUS
  <2> QED
    BY <2>1, BoundsAssumption DEF KeyLists
<1>2. <<>> \in Seq(AnyKeys) /\ Len(<<>>) = 0
  OBVIOUS
<1> QED
  BY <1>1, <1>2, BoundsAssumption DEF NoStream, Streams, Counted

\* What a status is not about.
SameSpec(s, t) ==
  /\ s.exists = t.exists /\ s.uid = t.uid
  /\ s.partitions = t.partitions /\ s.routingKeys = t.routingKeys

\* The worker's copy, if it is the latest version, has its spec.
LEMMA WorkerIsCurrent ==
  ASSUME TypeOK, CopiesInv, "worker" \in latest, pc # "idle"
  PROVE  /\ SameSpec(obj, stream)
         /\ pc # "reportReady" => obj = stream
         /\ Builders(obj) = Builders(stream)
<1>1. SameObject(obj, stream) /\ stream \in Streams
  BY Zenon DEF CopiesInv, TypeOK
<1>2. SameSpec(obj, stream)
  <2>1. CASE obj = stream
    BY <2>1, Zenon DEF SameSpec
  <2>2. CASE obj = [stream EXCEPT !.statusPartitions = obj.statusPartitions]
    <3> DEFINE list == obj.statusPartitions
               same == [stream EXCEPT !.statusPartitions = list]
    <3>1. /\ same.exists = stream.exists /\ same.uid = stream.uid
          /\ same.partitions = stream.partitions /\ same.routingKeys = stream.routingKeys
      BY <1>1, Zenon DEF Streams
    <3> QED
      BY <2>2, <3>1, Zenon DEF SameSpec
  <2> QED
    BY <1>1, <2>1, <2>2, Zenon DEF SameObject
<1>3. Builders(obj) = Builders(stream)
  BY <1>2, SameBuilders, Zenon DEF SameSpec
<1> QED
  BY <1>1, <1>2, <1>3, Zenon DEF SameObject

\* A status is written over the version that the worker has, or not at all.
LEMMA StatusWrite ==
  ASSUME TypeOK, WorkerInv, CopiesInv, pc # "idle", NEW answer,
         NEW written \in Streams, SameSpec(written, obj), WriteStatus(written, answer)
  PROVE  /\ SameSpec(stream', stream)
         /\ \/ /\ stream' = stream /\ latest' = latest
               /\ answer # "error" /\ "worker" \in latest => written = stream
            \/ stream' = written /\ latest' \subseteq {"worker"}
<1>0. "worker" \in latest => SameSpec(obj, stream) /\ obj.exists
  BY WorkerIsCurrent, Zenon DEF WorkerInv
<1>1. CASE answer # "error" /\ Current /\ written # stream
  <2>1. stream' = written /\ latest' \subseteq {"worker"}
    BY <1>1, Zenon DEF WriteStatus
  <2> QED
    BY <1>0, <1>1, <2>1, Zenon DEF SameSpec, Current
<1>2. CASE ~(answer # "error" /\ Current /\ written # stream)
  <2>1. stream' = stream /\ latest' = latest
    BY <1>2, Zenon DEF WriteStatus
  <2>2. answer # "error" /\ "worker" \in latest => written = stream
    BY <1>0, <1>2, Zenon DEF Current, SameSpec
  <2> QED
    BY <2>1, <2>2, Zenon DEF SameSpec
<1> QED
  BY <1>1, <1>2, Zenon

\* A turn of the loop finds the child as it should be, writes it, or gives up, which says
\* nothing about whether the child was written.
LEMMA ChildTurn ==
  ASSUME CreateOrUpdateChild
  PROVE  LET b == Builders(obj)[next]
             done == /\ next' = next + 1
                     /\ pc' = IF next = Len(Builders(obj)) THEN "statusPartitions" ELSE "children"
         IN
         /\ pc = "children"
         /\ UNCHANGED <<stream, streamCache, latest, childCache, queued, obj, dropped>>
         /\ \/ /\ childCache[b.name] = Wanted(b.key)
               /\ done
               /\ UNCHANGED <<children, behind>>
            \/ /\ children' = [children EXCEPT ![b.name] = Wanted(b.key)]
               /\ behind' = behind \cup {b.name}
               /\ done \/ (pc' = "reportFailed" /\ next' = next)
            \/ /\ pc' = "reportFailed" /\ next' = next
               /\ UNCHANGED <<children, behind>>
BY Zenon DEF CreateOrUpdateChild, streamVars

--------------------------------------------------------------------------------
(***************************************************************************)
(* The invariant.                                                          *)
(***************************************************************************)

LEMMA StreamInit ==
  ASSUME Init
  PROVE  StreamInv
<1>1. NoStream(0) \in Streams /\ Counted(NoStream(0)) /\ ~NoStream(0).exists
  BY NoStreamIs, Zenon DEF NoStream
<1>2. DOMAIN children = ChildNames /\ \A c \in ChildNames : ~children[c].exists
  BY Zenon DEF Init, NoChild
<1>3. TypeOK
  <2>1. stream \in Streams /\ streamCache \in Streams /\ obj \in Streams
    BY <1>1, Zenon DEF Init
  <2>2. DOMAIN childCache = ChildNames /\ queued \in BOOLEAN
    BY <1>2, Zenon DEF Init
  <2>3. latest \subseteq {"cache", "worker"} /\ behind \subseteq ChildNames /\ pc \in Labels
        /\ dropped \in Labels \cup {"none"} /\ next \in Nat \ {0}
    BY DEF Init, Labels
  <2> QED
    BY <1>2, <2>1, <2>2, <2>3, Zenon DEF TypeOK
<1>4. WorkerInv
  BY Zenon DEF Init, WorkerInv
<1>5. CopiesInv
  BY <1>1, Zenon DEF Init, CopiesInv, Follows
<1>6. <<"exchange">> \in ChildNames
  BY ChildNamesAre, Zenon
<1>7. KeysInv
  <2>1. stream.partitions = 0 /\ stream.routingKeys = <<>>
    BY Zenon DEF Init, NoStream
  <2> QED
    BY <1>1, <1>2, <1>6, <2>1, Zenon DEF Init, KeysInv
<1>8. CountInv
  BY <1>1, Zenon DEF Init, CountInv
<1>9. ProgressInv
  BY <1>1, Zenon DEF Init, ProgressInv
<1> QED
  BY <1>3, <1>4, <1>5, <1>7, <1>8, <1>9, Zenon DEF StreamInv

\* The keys that children have are none of the worker's business but in the loop.
LEMMA KeysKept ==
  ASSUME KeysInv, SameSpec(stream', stream), UNCHANGED children
  PROVE  KeysInv'
<1>1. \A i, key : /\ Fits(stream, i, key)' = Fits(stream', i, key)
                  /\ Fits(stream', i, key) = Fits(stream, i, key)
  BY Zenon DEF SameSpec, Fits
<1> QED
  BY <1>1, ZenonT(30) DEF KeysInv, SameSpec

LEMMA GetKeeps ==
  ASSUME StreamInv, Get
  PROVE  StreamInv'
<1> USE DEF StreamInv
<1>0. /\ pc = "idle" /\ queued' = FALSE /\ dropped' = "none"
      /\ UNCHANGED <<stream, streamCache, children, childCache, behind, next>>
  BY Zenon DEF Get, childVars
<1>1. KeysInv'
  BY <1>0, KeysKept, Zenon DEF SameSpec
<1>2. CASE ~streamCache.exists
  <2>1. UNCHANGED <<pc, obj, latest>>
    BY <1>2, Zenon DEF Get
  <2>2. TypeOK'
    BY <1>0, <2>1, Zenon DEF TypeOK
  <2>3. WorkerInv' /\ CopiesInv' /\ CountInv'
    BY <1>0, <2>1, Zenon DEF WorkerInv, CopiesInv, SameObject, Follows, CountInv
  <2>4. ProgressInv'
    BY <1>0, <1>2, <2>1, Zenon DEF ProgressInv, Pending, CopiesInv
  <2> QED
    BY <1>1, <2>2, <2>3, <2>4, Zenon
<1>3. CASE streamCache.exists
  <2>1. /\ pc' = "parse" /\ obj' = streamCache
        /\ latest' = {h \in {"cache", "worker"} : "cache" \in latest}
    BY <1>3, Zenon DEF Get
  <2>2. ("cache" \in latest' \/ "worker" \in latest') => "cache" \in latest /\ "worker" \in latest'
    BY <2>1, Zenon
  <2>3. TypeOK'
    BY <1>0, <2>1, Zenon DEF TypeOK, Labels
  <2>4. WorkerInv'
    BY <1>0, <1>3, <2>1, Zenon DEF WorkerInv
  <2>5. CopiesInv'
    BY <1>0, <2>1, <2>2, Zenon DEF CopiesInv, SameObject, Follows
  <2>6. CountInv'
    BY <1>0, <2>1, Zenon DEF CountInv
  <2>7. ProgressInv'
    BY <1>0, <2>1, <2>2, Zenon DEF ProgressInv, Pending
  <2> QED
    BY <1>1, <2>3, <2>4, <2>5, <2>6, <2>7, Zenon
<1> QED
  BY <1>2, <1>3, Zenon

\* Reconcile returns, and everything but the status is as it was.
LEMMA ReturnKeeps ==
  ASSUME StreamInv, NEW failed \in BOOLEAN, Return(failed),
         UNCHANGED <<streamCache, children, childCache, behind>>,
         SameSpec(stream', stream), stream' \in Streams, Counted(stream'),
         \/ stream' = stream /\ latest' = latest
         \/ latest' \subseteq {"worker"},
         dropped' \in Labels \cup {"none"},
         ~Pending' /\ stream.exists /\ stream.partitions >= 0 => Complete \/ Denied'
  PROVE  StreamInv'
<1> USE DEF StreamInv
<1>0. pc' = "idle" /\ obj' = NoStream(0) /\ next' = 1 /\ queued' = (queued \/ failed)
  BY Zenon DEF Return
<1>1. NoStream(0) \in Streams /\ Counted(NoStream(0)) /\ ~NoStream(0).exists
  BY NoStreamIs, Zenon DEF NoStream
<1>2. KeysInv'
  BY KeysKept, Zenon
<1>3. TypeOK'
  <2>0. latest' \subseteq {"cache", "worker"}
    BY Zenon DEF TypeOK
  <2>1. pc' \in Labels /\ next' \in Nat \ {0}
    BY <1>0, SMTT(30) DEF Labels
  <2>2. queued' \in BOOLEAN
    BY <1>0, Zenon DEF TypeOK
  <2> QED
    BY <1>0, <1>1, <2>0, <2>1, <2>2, Zenon DEF TypeOK
<1>4. WorkerInv'
  BY <1>0, Zenon DEF WorkerInv
<1>5. CopiesInv'
  <2>1. Follows(streamCache)'
    BY Zenon DEF CopiesInv, Follows, SameSpec
  <2>2. Follows(obj)'
    BY <1>0, <1>1, Zenon DEF Follows
  <2>3. "cache" \in latest' => streamCache' = stream'
    BY DEF CopiesInv
  <2> QED
    BY <1>0, <2>1, <2>2, <2>3, ZenonT(30) DEF CopiesInv
<1>6. CountInv'
  BY <1>0, <1>1, Zenon DEF CountInv, Counted
<1>7. ProgressInv'
  <2>1. Complete => Complete'
    <3>1. Builders(stream') = Builders(stream)
      BY SameBuilders, Zenon DEF SameSpec
    <3>2. Builders(stream)' = Builders(stream')
      BY Zenon DEF Builders, RoutingKeysOf, GenerateRoutingKeys
    <3> QED
      BY <3>1, <3>2, Zenon DEF Complete, SameSpec
  <2> QED
    BY <1>0, <2>1, Zenon DEF ProgressInv, SameSpec
<1> QED
  BY <1>2, <1>3, <1>4, <1>5, <1>6, <1>7, Zenon

LEMMA ParseKeeps ==
  ASSUME StreamInv, Parse
  PROVE  StreamInv'
<1> USE DEF StreamInv
<1>0. /\ pc = "parse"
      /\ UNCHANGED <<stream, streamCache, latest, children, childCache, behind, dropped>>
  BY Zenon DEF Parse, streamVars, childVars
<1>1. CASE Return(TRUE)
  <2>1. queued'
    BY <1>1, Zenon DEF Return
  <2>2. /\ SameSpec(stream', stream) /\ stream' \in Streams /\ Counted(stream')
        /\ dropped' \in Labels \cup {"none"}
    BY <1>0, Zenon DEF TypeOK, CountInv, SameSpec
  <2> QED
    BY <1>0, <1>1, <2>1, <2>2, ReturnKeeps, Zenon DEF Pending
<1>2. CASE /\ pc' \in {"reportDenied", "reportDone", "reportFailed", "children"}
           /\ pc' = "children" => KeysMatch(obj) /\ obj.partitions >= 0
           /\ pc' = "reportDone" => obj.partitions < 0
           /\ UNCHANGED <<queued, obj, next>>
  <2>0. next = 1
    BY <1>0, Zenon DEF WorkerInv
  <2>1. KeysInv'
    BY <1>0, KeysKept, Zenon DEF SameSpec
  <2>2. TypeOK'
    BY <1>0, <1>2, Zenon DEF TypeOK, Labels
  <2>3. WorkerInv'
    <3>1. 1 \in DOMAIN Builders(obj)
      BY BuildersAre DEF TypeOK
    <3>2. Builders(obj)' = Builders(obj) /\ KeysMatch(obj)' = KeysMatch(obj)
      BY <1>2, Zenon DEF Builders, RoutingKeysOf, GenerateRoutingKeys, KeysMatch
    <3> QED
      BY <1>0, <1>2, <2>0, <3>1, <3>2, Zenon DEF WorkerInv
  <2>4. CopiesInv'
    BY <1>0, <1>2, Zenon DEF CopiesInv, SameObject, Follows
  <2>5. CountInv'
    BY <1>0, <1>2, Zenon DEF CountInv, Counted
  <2>6. ProgressInv'
    BY <1>0, <1>2, <2>0 DEF ProgressInv, Pending
  <2> QED
    BY <2>1, <2>2, <2>3, <2>4, <2>5, <2>6, Zenon
<1>3. IF obj.partitions < Len(obj.statusPartitions) THEN obj.partitions < 0
      ELSE obj.partitions >= 0
  <2>1. obj.statusPartitions = <<>> \/ Len(obj.statusPartitions) <= obj.partitions
    BY Zenon DEF CountInv, Counted
  <2>2. obj.partitions \in Int /\ Len(obj.statusPartitions) \in Nat /\ Len(<<>>) = 0
    BY PartitionsAre DEF TypeOK
  <2> QED
    BY <2>1, <2>2
<1> QED
  BY <1>1, <1>2, <1>3, Zenon DEF Parse

\* A child in the loop gets the key of its partition, and an owner that is not newer
\* than the SuperStream.
LEMMA WantedFits ==
  ASSUME StreamInv, pc = "children", next \in DOMAIN Builders(obj),
         children' = [children EXCEPT ![Builders(obj)[next].name] =
                                          Wanted(Builders(obj)[next].key)],
         UNCHANGED stream
  PROVE  KeysInv'
<1> DEFINE b == Builders(obj)[next]
           w == Wanted(b.key)
<1>0. obj \in Streams /\ stream \in Streams /\ DOMAIN children = ChildNames
  BY Zenon DEF StreamInv, TypeOK
<1>1. /\ b.name \in ChildNames
      /\ \/ b.name = <<"exchange">> /\ b.key = NoKey
         \/ \E j \in 1..Len(PartKinds), i \in 1..MaxPartitions :
              b.name = <<PartKinds[j], i>> /\ Fits(obj, i, b.key)
  BY <1>0, BuilderIs, Zenon
<1>2. w.exists /\ w.owner = obj.uid /\ w.key = b.key
  BY Zenon DEF Wanted
<1>3. obj.uid \in 0..stream.uid /\ (stream.exists /\ obj.uid = stream.uid
        => RoutingKeyUpdatePermitted(obj.routingKeys, stream.routingKeys))
  <2>1. /\ obj.uid <= stream.uid
        /\ stream.exists /\ obj.uid = stream.uid
           => RoutingKeyUpdatePermitted(obj.routingKeys, stream.routingKeys)
    BY Zenon DEF StreamInv, WorkerInv, CopiesInv, Follows
  <2>2. obj.uid \in Nat /\ stream.uid \in Nat
    BY <1>0, Zenon DEF Streams
  <2> QED
    BY <2>1, <2>2
<1> HIDE DEF b, w
<1>4. children' = [children EXCEPT ![b.name] = w]
  BY Zenon DEF b, w
<1>5. children'[b.name] = w /\ \A c \in ChildNames : c # b.name => children'[c] = children[c]
  BY <1>0, <1>1, <1>4, Zenon
<1>6. \A c \in ChildNames : children'[c].exists => children'[c].owner \in 0..stream.uid
  BY <1>2, <1>3, <1>5, Zenon DEF StreamInv, KeysInv
<1>7. children'[<<"exchange">>].exists => children'[<<"exchange">>].key = NoKey
  <2>1. <<"exchange">> \in ChildNames
    BY ChildNamesAre, Zenon
  <2>2. CASE b.name = <<"exchange">>
    <3>1. b.key = NoKey
      BY <1>1, <2>2, NamesDiffer, Zenon
    <3> QED
      BY <1>2, <1>5, <2>2, <3>1, Zenon
  <2>3. CASE b.name # <<"exchange">>
    BY <1>5, <2>1, <2>3, ZenonT(30) DEF StreamInv, KeysInv
  <2> QED
    BY <2>2, <2>3, Zenon
<1>8. ASSUME stream.exists, NEW j \in 1..Len(PartKinds), NEW i \in 1..MaxPartitions,
             children'[<<PartKinds[j], i>>].exists,
             children'[<<PartKinds[j], i>>].owner = stream.uid
      PROVE  Fits(stream, i, children'[<<PartKinds[j], i>>].key)
  <2>0. <<PartKinds[j], i>> \in ChildNames
    BY ChildNamesAre, Zenon
  <2>1. CASE <<PartKinds[j], i>> = b.name
    <3>1. PICK j2 \in 1..Len(PartKinds), i2 \in 1..MaxPartitions :
            b.name = <<PartKinds[j2], i2>> /\ Fits(obj, i2, b.key)
      BY <1>1, <2>1, NamesDiffer, ZenonT(30)
    <3>2. i2 = i
      BY <2>1, <3>1, SMTT(30)
    <3>3. RoutingKeyUpdatePermitted(obj.routingKeys, stream.routingKeys)
      BY <1>2, <1>3, <1>5, <1>8, <2>1, Zenon
    <3>4. i \in Nat \ {0}
      BY BoundsAssumption
    <3>5. Fits(stream, i, b.key)
      BY <1>0, <3>1, <3>2, <3>3, <3>4, FitsLater, Zenon
    <3> QED
      BY <1>2, <1>5, <2>1, <3>5, Zenon
  <2>2. CASE <<PartKinds[j], i>> # b.name
    BY <1>5, <1>8, <2>0, <2>2, Zenon DEF StreamInv, KeysInv
  <2> QED
    BY <2>1, <2>2, Zenon
<1>9. \A i, key : Fits(stream, i, key)' = Fits(stream, i, key)
  BY Zenon DEF Fits
<1>10. ~stream.exists => stream.partitions = 0 /\ stream.routingKeys = <<>>
  BY Zenon DEF StreamInv, KeysInv
<1> QED
  BY <1>6, <1>7, <1>8, <1>9, <1>10, Zenon DEF KeysInv

LEMMA ChildKeeps ==
  ASSUME StreamInv, CreateOrUpdateChild
  PROVE  StreamInv'
<1> USE DEF StreamInv
<1> DEFINE b == Builders(obj)[next]
           done == /\ next' = next + 1
                   /\ pc' = IF next = Len(Builders(obj)) THEN "statusPartitions" ELSE "children"
<1>0. /\ pc = "children"
      /\ UNCHANGED <<stream, streamCache, latest, childCache, queued, obj, dropped>>
      /\ \/ /\ childCache[b.name] = Wanted(b.key)
            /\ done
            /\ UNCHANGED <<children, behind>>
         \/ /\ children' = [children EXCEPT ![b.name] = Wanted(b.key)]
            /\ behind' = behind \cup {b.name}
            /\ done \/ (pc' = "reportFailed" /\ next' = next)
         \/ /\ pc' = "reportFailed" /\ next' = next
            /\ UNCHANGED <<children, behind>>
  BY ChildTurn, Zenon
<1>1. /\ next \in DOMAIN Builders(obj) /\ KeysMatch(obj) /\ obj.partitions >= 0
      /\ obj.exists /\ obj \in Streams
  BY <1>0, Zenon DEF WorkerInv, TypeOK
<1>2. b.name \in ChildNames
  BY <1>1, BuilderIs, Zenon
<1>3. /\ DOMAIN Builders(obj) = 1..Len(Builders(obj)) /\ Len(Builders(obj)) \in Nat
      /\ next \in 1..Len(Builders(obj))
  BY <1>1, BuildersAre, Zenon
<1>4. Builders(obj)' = Builders(obj) /\ KeysMatch(obj)' = KeysMatch(obj)
  BY <1>0, Zenon DEF Builders, RoutingKeysOf, GenerateRoutingKeys, KeysMatch
<1> HIDE DEF b
<1>5. TypeOK'
  <2>1. /\ DOMAIN children' = ChildNames /\ behind' \subseteq ChildNames
        /\ pc' \in Labels /\ next' \in Nat \ {0}
    <3>0. /\ next' = next + 1 \/ next' = next
          /\ pc' = "statusPartitions" \/ pc' = "children" \/ pc' = "reportFailed"
      BY <1>0, Zenon
    <3>1. pc' \in Labels /\ next' \in Nat \ {0}
      <4>1. next \in Nat \ {0}
        BY Zenon DEF TypeOK
      <4>2. next' \in Nat \ {0}
        BY <3>0, <4>1
      <4> QED
        BY <3>0, <4>2, Zenon DEF Labels
    <3>2. DOMAIN children = ChildNames /\ behind \subseteq ChildNames
      BY Zenon DEF TypeOK
    <3>3. DOMAIN children' = ChildNames /\ behind' \subseteq ChildNames
      BY <1>0, <1>2, <3>2, Zenon
    <3> QED
      BY <3>1, <3>3, Zenon
  <2> QED
    BY <1>0, <2>1, Zenon DEF TypeOK
<1>6. WorkerInv'
  <2>1. pc' = "children" => next' \in 1..Len(Builders(obj))
    <3> DEFINE l == Len(Builders(obj))
    <3>1. pc' = "children" => next' = next + 1 /\ next # l
      BY <1>0, Zenon
    <3>2. next \in 1..l /\ l \in Nat
      BY <1>3, Zenon
    <3> HIDE DEF l
    <3>3. next + 1 \in 1..l \/ next = l
      BY <3>2
    <3>4. pc' = "children" => next' \in 1..l
      BY <3>1, <3>3, Zenon
    <3> QED
      BY <3>4, Zenon DEF l
  <2>2. pc' \notin {"idle", "parse"}
    BY <1>0, Zenon
  <2> QED
    BY <1>0, <1>1, <1>3, <1>4, <2>1, <2>2, ZenonT(30) DEF WorkerInv
<1>7. CopiesInv'
  <2>1. \A c \in ChildNames \ behind' : childCache'[c] = children'[c]
    <3>1. CASE UNCHANGED <<children, behind>>
      BY <1>0, <3>1, ZenonT(30) DEF CopiesInv
    <3>2. CASE /\ children' = [children EXCEPT ![b.name] = Wanted(b.key)]
               /\ behind' = behind \cup {b.name}
      BY <1>0, <3>2, Zenon DEF CopiesInv, TypeOK
    <3> QED
      BY <1>0, <3>1, <3>2, Zenon
  <2>2. pc' # "reportReady"
    BY <1>0, Zenon
  <2> QED
    BY <1>0, <2>1, <2>2, ZenonT(30) DEF CopiesInv, SameObject, Follows
<1>8. KeysInv'
  <2>1. CASE UNCHANGED children
    BY <1>0, <2>1, KeysKept, Zenon DEF SameSpec
  <2>2. CASE children' = [children EXCEPT ![b.name] = Wanted(b.key)]
    BY <1>0, <1>1, <2>2, WantedFits, Zenon DEF b
  <2> QED
    BY <1>0, <2>1, <2>2, Zenon
<1>9. CountInv'
  BY <1>0, Zenon DEF CountInv, Counted
<1>10. ProgressInv'
  <2> SUFFICES ASSUME ~Pending'
               PROVE  ProgressInv'
    BY Zenon DEF ProgressInv
  <2>1. behind' = {} /\ ~queued /\ "cache" \in latest
    BY <1>0, Zenon DEF Pending
  <2>2. UNCHANGED <<children, behind>>
    BY <1>0, <2>1, Zenon
  <2>3. ~Pending
    BY <2>1, <2>2, Zenon DEF Pending
  <2>4. "worker" \in latest /\ \A n \in 1..(next - 1) : Built(n)
    BY <1>0, <2>3, Zenon DEF ProgressInv
  <2>5. \A n : Built(n)' = Built(n)
    BY <1>0, <1>4, <2>2, ZenonT(30) DEF Built
  <2>6. CASE pc' = "reportFailed"
    BY <1>0, <2>4, <2>6, Zenon DEF ProgressInv
  <2>7. CASE pc' # "reportFailed"
    <3>1. childCache[b.name] = Wanted(b.key) /\ done
      BY <1>0, <2>1, <2>7, Zenon
    <3>2. children[b.name] = Wanted(b.key)
      BY <1>2, <2>1, <2>2, <3>1, ZenonT(30) DEF CopiesInv
    <3>3. Built(next)
      BY <3>2 DEF Built, Wanted, b
    <3>4. \A n \in 1..next : Built(n)
      BY <1>3, <2>4, <3>3
    <3>5. /\ next' - 1 = next
          /\ \/ pc' = "children"
             \/ pc' = "statusPartitions" /\ next = Len(Builders(obj))
      <4>1. next' - 1 = next
        <5>1. next' = next + 1 /\ next \in Nat
          BY <3>1, Zenon DEF TypeOK
        <5> QED
          BY <5>1
      <4> QED
        BY <3>1, <4>1, Zenon
    <3>6. pc' = "children" => \A n \in 1..(next' - 1) : Built(n)'
      BY <2>5, <3>4, <3>5, Zenon
    <3>7. pc' = "statusPartitions" => \A n \in DOMAIN Builders(obj)' : Built(n)'
      BY <1>3, <1>4, <2>5, <3>4, <3>5, Zenon
    <3> QED
      BY <1>0, <2>4, <3>5, <3>6, <3>7, ZenonT(30) DEF ProgressInv
  <2> QED
    BY <2>6, <2>7, Zenon
<1> QED
  BY <1>5, <1>6, <1>7, <1>8, <1>9, <1>10, Zenon

LEMMA PartitionsKeep ==
  ASSUME StreamInv, UpdateStatusPartitions
  PROVE  StreamInv'
<1> USE DEF StreamInv
<1> DEFINE written == [obj EXCEPT !.statusPartitions = RoutingKeysOf(obj)]
<1>0. /\ pc = "statusPartitions" /\ obj' = written /\ pc' = "reportReady"
      /\ \E answer \in Answers : WriteStatus(written, answer)
      /\ UNCHANGED <<streamCache, children, childCache, behind, queued, next, dropped>>
  BY Zenon DEF UpdateStatusPartitions, childVars
<1>1. /\ obj \in Streams /\ stream \in Streams /\ streamCache \in Streams
      /\ obj.exists /\ KeysMatch(obj) /\ obj.partitions >= 0
  BY <1>0, Zenon DEF TypeOK, WorkerInv
<1>2. /\ written \in Streams /\ SameSpec(written, obj)
      /\ written.statusPartitions = RoutingKeysOf(obj)
  <2>1. RoutingKeysOf(obj) \in Seq(AnyKeys)
    BY <1>1, RoutingKeysAre, Zenon
  <2>2. /\ written.statusPartitions = RoutingKeysOf(obj)
        /\ written.exists = obj.exists /\ written.uid = obj.uid
        /\ written.partitions = obj.partitions /\ written.routingKeys = obj.routingKeys
    BY <1>1, Zenon DEF Streams
  <2>3. written \in Streams
    BY <1>1, <2>1, Zenon DEF Streams
  <2> HIDE DEF written
  <2> QED
    BY <2>2, <2>3, Zenon DEF SameSpec
<1>3. Counted(written)
  <2>1. Len(RoutingKeysOf(obj)) = obj.partitions /\ obj.partitions \in Nat
    <3>1. Len(RoutingKeysOf(obj)) = obj.partitions
      BY <1>1, RoutingKeysAre, Zenon
    <3>2. obj.partitions \in Nat
      BY <1>1, <3>1, RoutingKeysAre, BoundsAssumption
    <3> QED
      BY <3>1, <3>2, Zenon
  <2> HIDE DEF written
  <2>2. Len(written.statusPartitions) = written.partitions /\ written.partitions \in Nat
    BY <1>2, <2>1, Zenon DEF SameSpec
  <2> QED
    BY <2>2 DEF Counted
<1> HIDE DEF written
<1>4. /\ SameSpec(stream', stream)
      /\ \/ stream' = stream /\ latest' = latest
         \/ stream' = written /\ latest' \subseteq {"worker"}
  BY <1>0, <1>2, StatusWrite, Zenon
<1>5. TypeOK'
  <2>1. latest' \subseteq {"cache", "worker"} /\ stream' \in Streams
    BY <1>1, <1>2, <1>4, Zenon DEF TypeOK
  <2>2. pc' \in Labels
    BY <1>0, Zenon DEF Labels
  <2> QED
    BY <1>0, <1>2, <2>1, <2>2, Zenon DEF TypeOK
<1>6. WorkerInv'
  <2>1. obj'.exists /\ KeysMatch(written) /\ obj'.partitions >= 0
    BY <1>0, <1>1, <1>2, SameBuilders, Zenon DEF SameSpec
  <2>2. KeysMatch(obj)' = KeysMatch(written)
    BY <1>0, Zenon DEF KeysMatch
  <2> QED
    BY <1>0, <2>1, <2>2, Zenon DEF WorkerInv
<1>7. CopiesInv'
  <2>1. Follows(streamCache)' /\ Follows(obj)'
    BY <1>0, <1>2, <1>4, ZenonT(30) DEF CopiesInv, Follows, SameSpec
  <2>2. "cache" \in latest' => streamCache' = stream'
    BY <1>0, <1>4 DEF CopiesInv
  <2>3. ASSUME "worker" \in latest' PROVE SameObject(obj, stream)'
    <3>1. CASE stream' = written
      <4>1. written = [written EXCEPT !.statusPartitions = written.statusPartitions]
        BY <1>2, Zenon DEF Streams
      <4> QED
        BY <1>0, <3>1, <4>1, Zenon DEF SameObject
    <3>2. CASE stream' = stream /\ latest' = latest
      <4>1. obj = stream
        BY <1>0, <2>3, <3>2, WorkerIsCurrent, Zenon
      <4>2. written = [stream EXCEPT !.statusPartitions = written.statusPartitions]
        BY <1>2, <4>1, Zenon DEF written
      <4> QED
        BY <1>0, <3>2, <4>2, Zenon DEF SameObject
    <3> QED
      BY <1>4, <3>1, <3>2, Zenon
  <2> QED
    BY <1>0, <2>1, <2>2, <2>3, Zenon DEF CopiesInv
<1>8. KeysInv'
  BY <1>0, <1>4, KeysKept, Zenon
<1>9. CountInv'
  BY <1>0, <1>3, <1>4, Zenon DEF CountInv, Counted
<1>10. ProgressInv'
  <2> SUFFICES ASSUME ~Pending'
               PROVE  ProgressInv'
    BY Zenon DEF ProgressInv
  <2>1. behind' = {} /\ ~queued /\ "cache" \in latest'
    BY <1>0, Zenon DEF Pending
  <2>2. latest' = latest
    BY <1>4, <2>1
  <2>3. ~Pending
    BY <1>0, <2>1, <2>2, Zenon DEF Pending
  <2>4. "worker" \in latest /\ \A n \in DOMAIN Builders(obj) : Built(n)
    BY <1>0, <2>3, Zenon DEF ProgressInv
  <2>5. Builders(obj)' = Builders(obj)
    <3>1. Builders(written) = Builders(obj)
      BY <1>2, SameBuilders, Zenon DEF SameSpec
    <3> QED
      BY <1>0, <3>1, ZenonT(30) DEF Builders, RoutingKeysOf, GenerateRoutingKeys
  <2>6. \A n : Built(n)' = Built(n)
    BY <1>0, <1>2, <2>5, Zenon DEF Built, SameSpec
  <2> QED
    BY <1>0, <2>2, <2>4, <2>5, <2>6, Zenon DEF ProgressInv
<1> QED
  BY <1>5, <1>6, <1>7, <1>8, <1>9, <1>10, Zenon


LEMMA ReportedIs ==
  ASSUME obj \in Streams
  PROVE  /\ Reported \in Streams /\ SameSpec(Reported, obj)
         /\ Reported.statusPartitions = obj.statusPartitions
         /\ pc = "reportDenied" => Reported.ready = "NotAllowed"
<1> DEFINE ready == CASE pc = "reportReady"  -> "True"
                      [] pc = "reportDenied" -> "NotAllowed"
                      [] OTHER               -> "False"
           observed == IF pc = "reportDenied" THEN obj.observed ELSE obj.gen
<1>1. ready \in {"True", "NotAllowed", "False"} /\ (pc = "reportDenied" => ready = "NotAllowed")
  OBVIOUS
<1>2. observed \in Nat
  BY Zenon DEF Streams
<1>3. Reported = [obj EXCEPT !.ready = ready, !.observed = observed]
  BY Zenon DEF Reported
<1> HIDE DEF ready, observed
<1>4. Reported \in Streams
  BY <1>1, <1>2, <1>3, Zenon DEF Streams
<1>5. /\ Reported.ready = ready
      /\ Reported.exists = obj.exists /\ Reported.uid = obj.uid
      /\ Reported.partitions = obj.partitions /\ Reported.routingKeys = obj.routingKeys
      /\ Reported.statusPartitions = obj.statusPartitions
  BY <1>3, Zenon DEF Streams
<1> QED
  BY <1>1, <1>4, <1>5, Zenon DEF SameSpec

LEMMA ReportKeeps ==
  ASSUME StreamInv, SetReconcileSuccess
  PROVE  StreamInv'
<1> USE DEF StreamInv
<1>0. PICK answer \in Answers :
        /\ pc \in {"reportReady", "reportDone", "reportFailed", "reportDenied"}
        /\ WriteStatus(Reported, answer) /\ Return(pc = "reportFailed")
        /\ dropped' = IF answer = "error" THEN pc ELSE "none"
        /\ UNCHANGED <<streamCache, children, childCache, behind>>
  BY Zenon DEF SetReconcileSuccess, childVars
<1>1. obj \in Streams /\ stream \in Streams /\ pc # "idle" /\ pc \in Labels
  BY <1>0, Zenon DEF TypeOK
<1>2. /\ Reported \in Streams /\ SameSpec(Reported, obj)
      /\ Reported.statusPartitions = obj.statusPartitions
      /\ pc = "reportDenied" => Reported.ready = "NotAllowed"
  BY <1>1, ReportedIs, Zenon
<1>3. /\ SameSpec(stream', stream)
      /\ \/ /\ stream' = stream /\ latest' = latest
            /\ answer # "error" /\ "worker" \in latest => Reported = stream
         \/ stream' = Reported /\ latest' \subseteq {"worker"}
  BY <1>0, <1>1, <1>2, StatusWrite, Zenon
<1>4. stream' \in Streams /\ Counted(stream') /\ dropped' \in Labels \cup {"none"}
  <2>1. dropped' \in Labels \cup {"none"}
    BY <1>0, <1>1, Zenon
  <2> QED
    BY <1>1, <1>2, <1>3, <2>1, Zenon DEF CountInv, Counted, SameSpec
<1>5. ASSUME ~Pending', stream.exists, stream.partitions >= 0
      PROVE  Complete \/ Denied'
  <2>1. ~queued /\ pc # "reportFailed" /\ "cache" \in latest' /\ behind = {}
    BY <1>0, <1>5, Zenon DEF Pending, Return
  <2>2. /\ stream' = stream /\ latest' = latest
        /\ answer # "error" /\ "worker" \in latest => Reported = stream
    BY <1>3, <2>1
  <2>3. ~Pending
    BY <2>1, <2>2, Zenon DEF Pending
  <2>4. "worker" \in latest /\ (pc = "reportReady" => \A n \in DOMAIN Builders(obj) : Built(n))
    BY <1>1, <2>3, Zenon DEF ProgressInv
  <2>5. SameSpec(obj, stream) /\ Builders(obj) = Builders(stream)
    BY <1>1, <2>4, WorkerIsCurrent, Zenon
  <2>6. pc = "reportReady" => Complete
    BY <2>4, <2>5, Zenon DEF Complete, Built, SameSpec
  <2>7. pc = "reportDenied" => Denied'
    BY <1>0, <1>2, <2>2, <2>4, Zenon DEF Denied
  <2>8. pc # "reportDone"
    <3>1. stream.partitions \in Int
      BY <1>1, PartitionsAre, Zenon
    <3>2. pc = "reportDone" => stream.partitions < 0
      BY <2>5, Zenon DEF WorkerInv, SameSpec
    <3> QED
      BY <1>5, <3>1, <3>2
  <2> QED
    BY <1>0, <2>1, <2>6, <2>7, <2>8, Zenon
<1>6. \/ stream' = stream /\ latest' = latest
      \/ latest' \subseteq {"worker"}
  BY <1>3, Zenon
<1>7. (pc = "reportFailed") \in BOOLEAN
  OBVIOUS
<1> QED
  BY <1>0, <1>3, <1>4, <1>5, <1>6, <1>7, ReturnKeeps, Zenon

LEMMA DeliverStreamKeeps ==
  ASSUME StreamInv, DeliverStream
  PROVE  StreamInv'
<1> USE DEF StreamInv
<1>0. /\ streamCache' = stream /\ latest' = latest \cup {"cache"} /\ queued' = TRUE
      /\ UNCHANGED <<stream, children, childCache, behind, pc, obj, next, dropped>>
  BY Zenon DEF DeliverStream, childVars, worker
<1>1. stream \in Streams /\ stream.uid \in Nat /\ stream.routingKeys \in KeyLists
  BY Zenon DEF TypeOK, Streams
<1>2. TypeOK'
  <2>1. latest' \subseteq {"cache", "worker"} /\ queued' \in BOOLEAN
    BY <1>0, Zenon DEF TypeOK
  <2> QED
    BY <1>0, <1>1, <2>1, Zenon DEF TypeOK
<1>3. WorkerInv'
  BY <1>0, Zenon DEF WorkerInv, Builders, RoutingKeysOf, GenerateRoutingKeys, KeysMatch
<1>4. CopiesInv'
  <2>1. Follows(streamCache)'
    <3>1. /\ stream.uid <= stream.uid
          /\ RoutingKeyUpdatePermitted(stream.routingKeys, stream.routingKeys)
      BY <1>1, PermittedSame
    <3> QED
      BY <1>0, <3>1, Zenon DEF Follows
  <2>2. "worker" \in latest' => "worker" \in latest
    BY <1>0, Zenon
  <2> QED
    BY <1>0, <2>1, <2>2, Zenon DEF CopiesInv, SameObject, Follows
<1>5. KeysInv'
  BY <1>0, KeysKept, Zenon DEF SameSpec
<1>6. CountInv'
  BY <1>0, Zenon DEF CountInv, Counted
<1>7. ProgressInv'
  BY <1>0, Zenon DEF ProgressInv, Pending
<1> QED
  BY <1>2, <1>3, <1>4, <1>5, <1>6, <1>7, Zenon

LEMMA DeliverChildKeeps ==
  ASSUME StreamInv, NEW c \in ChildNames, DeliverChild(c)
  PROVE  StreamInv'
<1> USE DEF StreamInv
<1>0. /\ behind' = behind \ {c} /\ queued' = TRUE
      /\ childCache' = [childCache EXCEPT ![c] = children[c]]
      /\ UNCHANGED <<stream, streamCache, latest, children, pc, obj, next, dropped>>
  BY Zenon DEF DeliverChild, Owns, streamVars, worker
<1>1. DOMAIN childCache = ChildNames /\ behind \subseteq ChildNames
  BY Zenon DEF TypeOK
<1>2. TypeOK'
  <2>1. DOMAIN childCache' = ChildNames /\ behind' \subseteq ChildNames /\ queued' \in BOOLEAN
    BY <1>0, <1>1, Zenon
  <2> QED
    BY <1>0, <2>1, Zenon DEF TypeOK
<1>3. WorkerInv'
  BY <1>0, Zenon DEF WorkerInv, Builders, RoutingKeysOf, GenerateRoutingKeys, KeysMatch
<1>4. CopiesInv'
  <2>1. \A d \in ChildNames \ behind : childCache[d] = children[d]
    BY Zenon DEF CopiesInv
  <2>2. \A d \in ChildNames \ behind' : childCache'[d] = children[d]
    BY <1>0, <1>1, <2>1, Zenon
  <2> QED
    BY <1>0, <2>2, Zenon DEF CopiesInv, SameObject, Follows
<1>5. KeysInv'
  BY <1>0, KeysKept, Zenon DEF SameSpec
<1>6. CountInv'
  BY <1>0, Zenon DEF CountInv, Counted
<1>7. ProgressInv'
  BY <1>0, ZenonT(30) DEF ProgressInv, Pending
<1> QED
  BY <1>2, <1>3, <1>4, <1>5, <1>6, <1>7, Zenon

\* People make another SuperStream of the name, add keys to this one, or delete it.
LEMMA EditKeeps ==
  ASSUME StreamInv, NEW new \in Streams, Edit(new), Counted(new), stream.uid <= new.uid,
         new.exists => \/ stream.uid < new.uid
                       \/ /\ stream.exists /\ stream.uid = new.uid
                          /\ RoutingKeyUpdatePermitted(stream.routingKeys, new.routingKeys),
         ~new.exists => new.partitions = 0 /\ new.routingKeys = <<>>
  PROVE  StreamInv'
<1> USE DEF StreamInv
<1>0. /\ stream' = new /\ latest' = {}
      /\ UNCHANGED <<streamCache, children, childCache, behind, queued, pc, obj, next, dropped>>
  BY ZenonT(30) DEF Edit, childVars, worker
<1>1. /\ stream \in Streams /\ streamCache \in Streams /\ obj \in Streams
      /\ stream.uid \in Nat /\ new.uid \in Nat
      /\ stream.routingKeys \in KeyLists /\ new.routingKeys \in KeyLists
  BY Zenon DEF TypeOK, Streams
<1>2. TypeOK'
  <2>1. latest' \subseteq {"cache", "worker"}
    BY <1>0, Zenon
  <2> QED
    BY <1>0, <2>1, ZenonT(30) DEF TypeOK
<1>3. WorkerInv'
  BY <1>0, Zenon DEF WorkerInv, Builders, RoutingKeysOf, GenerateRoutingKeys, KeysMatch
<1>4. ASSUME NEW s \in Streams, Follows(s), s.exists
      PROVE  /\ s.uid <= new.uid
             /\ new.exists /\ s.uid = new.uid
                => RoutingKeyUpdatePermitted(s.routingKeys, new.routingKeys)
  <2>1. s.uid \in Nat /\ s.routingKeys \in KeyLists
    BY Zenon DEF Streams
  <2>2. /\ s.uid <= stream.uid
        /\ stream.exists /\ s.uid = stream.uid
           => RoutingKeyUpdatePermitted(s.routingKeys, stream.routingKeys)
    BY <1>4, ZenonT(30) DEF Follows
  <2>3. s.uid <= new.uid /\ (stream.uid < new.uid => ~(s.uid = new.uid))
    BY <1>1, <2>1, <2>2
  <2>4. ASSUME new.exists, s.uid = new.uid
        PROVE  RoutingKeyUpdatePermitted(s.routingKeys, new.routingKeys)
    <3>1. /\ stream.exists /\ stream.uid = new.uid
          /\ RoutingKeyUpdatePermitted(stream.routingKeys, new.routingKeys)
      BY <2>3, <2>4, Zenon
    <3> QED
      BY <1>1, <2>1, <2>2, <2>4, <3>1, PermittedTwice, Zenon
  <2> QED
    BY <2>3, <2>4, Zenon
<1>5. CopiesInv'
  <2>1. Follows(streamCache)' /\ Follows(obj)'
    BY <1>0, <1>1, <1>4, ZenonT(30) DEF CopiesInv, Follows
  <2>2. "cache" \notin latest' /\ "worker" \notin latest'
    BY <1>0, Zenon
  <2> QED
    BY <1>0, <2>1, <2>2, Zenon DEF CopiesInv
<1>6. KeysInv'
  <2>1. \A c \in ChildNames : children[c].exists => children[c].owner \in 0..stream.uid
    BY ZenonT(30) DEF KeysInv
  <2>2. \A c \in ChildNames : children[c].exists => children[c].owner \in 0..new.uid
    BY <1>1, <2>1
  <2>3. ASSUME new.exists, NEW j \in 1..Len(PartKinds), NEW i \in 1..MaxPartitions,
               children[<<PartKinds[j], i>>].exists, children[<<PartKinds[j], i>>].owner = new.uid
        PROVE  Fits(new, i, children[<<PartKinds[j], i>>].key)
    <3>1. <<PartKinds[j], i>> \in ChildNames
      BY ChildNamesAre, Zenon
    <3>2. children[<<PartKinds[j], i>>].owner \in 0..stream.uid
      BY <2>1, <2>3, <3>1, ZenonT(30)
    <3>3. ~(stream.uid < new.uid)
      BY <1>1, <2>3, <3>2
    <3>4. /\ stream.exists /\ stream.uid = new.uid
          /\ RoutingKeyUpdatePermitted(stream.routingKeys, new.routingKeys)
      BY <2>3, <3>3, Zenon
    <3>5. Fits(stream, i, children[<<PartKinds[j], i>>].key)
      BY <2>3, <3>4, ZenonT(30) DEF KeysInv
    <3>6. i \in Nat \ {0}
      BY BoundsAssumption
    <3> QED
      BY <1>1, <3>4, <3>5, <3>6, FitsLater, ZenonT(30)
  <2>4. \A i, key : Fits(stream, i, key)' = Fits(new, i, key)
    BY <1>0, Zenon DEF Fits
  <2> QED
    BY <1>0, <2>2, <2>3, <2>4, Zenon DEF KeysInv
<1>7. CountInv'
  BY <1>0, Zenon DEF CountInv, Counted
<1>8. ProgressInv'
  <2>1. "cache" \notin latest'
    BY <1>0, Zenon
  <2> QED
    BY <2>1, ZenonT(30) DEF ProgressInv, Pending
<1> QED
  BY <1>2, <1>3, <1>5, <1>6, <1>7, <1>8, Zenon


LEMMA CreateKeeps ==
  ASSUME StreamInv, NEW p \in Sizes, NEW k \in KeyLists, Create(p, k)
  PROVE  StreamInv'
<1> DEFINE new == [NoStream(stream.uid + 1) EXCEPT !.exists = TRUE, !.gen = 1, !.partitions = p,
                                                   !.routingKeys = k]
<1>0. stream.uid \in Nat
  BY Zenon DEF StreamInv, TypeOK, Streams
<1>1. NoStream(stream.uid + 1) \in Streams /\ NoStream(stream.uid + 1).statusPartitions = <<>>
  BY <1>0, NoStreamIs DEF NoStream
<1>3. new \in Streams
  BY <1>1, Zenon DEF Streams
<1>4. /\ new.exists /\ new.uid = stream.uid + 1 /\ new.partitions = p
      /\ new.statusPartitions = <<>>
  BY Zenon DEF NoStream
<1>5. Edit(new)
  BY Zenon DEF Create
<1> HIDE DEF new
<1>6. stream.uid < new.uid /\ stream.uid <= new.uid
  BY <1>0, <1>4
<1>7. Counted(new)
  BY <1>4, Zenon DEF Counted
<1> QED
  BY <1>3, <1>4, <1>5, <1>6, <1>7, EditKeeps, ZenonT(30)

LEMMA UpdateKeeps ==
  ASSUME StreamInv, NEW p \in Sizes, NEW k \in KeyLists, Update(p, k)
  PROVE  StreamInv'
<1> DEFINE new == [stream EXCEPT !.gen = stream.gen + 1, !.partitions = p, !.routingKeys = k]
<1>0. stream \in Streams /\ Counted(stream)
  BY Zenon DEF StreamInv, TypeOK, CountInv
<1>1. /\ stream.exists /\ RoutingKeyUpdatePermitted(stream.routingKeys, k)
      /\ p >= stream.partitions /\ Edit(new)
  BY Zenon DEF Update
<1>2. p \in Int
  BY BoundsAssumption
<1>3. stream.gen + 1 \in Nat
  BY <1>0 DEF Streams
<1>4. new \in Streams
  BY <1>0, <1>3, Zenon DEF Streams
<1>5. /\ new.exists = stream.exists /\ new.uid = stream.uid /\ new.partitions = p
      /\ new.routingKeys = k /\ new.statusPartitions = stream.statusPartitions
  BY <1>0, Zenon DEF Streams
<1>6. stream.uid \in Nat /\ stream.partitions \in Int /\ Len(stream.statusPartitions) \in Nat
  BY <1>0, PartitionsAre, Zenon DEF Streams
<1> HIDE DEF new
<1>7. Counted(new)
  <2>1. stream.statusPartitions = <<>> \/ Len(stream.statusPartitions) <= p
    BY <1>0, <1>1, <1>2, <1>6, SMTT(30) DEF Counted
  <2> QED
    BY <1>5, <2>1, Zenon DEF Counted
<1>8. stream.uid <= new.uid
  BY <1>5, <1>6
<1> QED
  BY <1>1, <1>4, <1>5, <1>7, <1>8, EditKeeps, Zenon

LEMMA DeleteKeeps ==
  ASSUME StreamInv, Delete
  PROVE  StreamInv'
<1> DEFINE new == NoStream(stream.uid)
<1>0. stream.uid \in Nat
  BY Zenon DEF StreamInv, TypeOK, Streams
<1>1. new \in Streams /\ Counted(new)
  BY <1>0, NoStreamIs, Zenon
<1>2. ~new.exists /\ new.uid = stream.uid /\ new.partitions = 0 /\ new.routingKeys = <<>>
  BY Zenon DEF NoStream
<1>3. Edit(new)
  BY Zenon DEF Delete
<1> HIDE DEF new
<1>4. stream.uid <= new.uid
  BY <1>0, <1>2
<1> QED
  BY <1>1, <1>2, <1>3, <1>4, EditKeeps, ZenonT(30)

LEMMA RemoveKeeps ==
  ASSUME StreamInv, NEW c \in ChildNames, RemoveChild(c)
  PROVE  StreamInv'
<1> USE DEF StreamInv
<1>0. /\ children' = [children EXCEPT ![c] = NoChild] /\ behind' = behind \cup {c}
      /\ UNCHANGED <<stream, streamCache, latest, childCache, queued, pc, obj, next, dropped>>
  BY Zenon DEF RemoveChild, streamVars, worker
<1>1. DOMAIN children = ChildNames /\ behind \subseteq ChildNames
  BY Zenon DEF TypeOK
<1>2. DOMAIN children' = ChildNames /\ behind' \subseteq ChildNames /\ behind' # {}
  BY <1>0, <1>1, Zenon
<1>3. ~children'[c].exists /\ \A d \in ChildNames : d # c => children'[d] = children[d]
  BY <1>0, <1>1, Zenon DEF NoChild
<1>4. TypeOK'
  BY <1>0, <1>2, Zenon DEF TypeOK
<1>5. WorkerInv'
  BY <1>0, Zenon DEF WorkerInv, Builders, RoutingKeysOf, GenerateRoutingKeys, KeysMatch
<1>6. CopiesInv'
  <2>1. \A d \in ChildNames \ behind' : childCache[d] = children'[d]
    BY <1>0, <1>3, Zenon DEF CopiesInv
  <2> QED
    BY <1>0, <2>1, ZenonT(30) DEF CopiesInv, SameObject, Follows
<1>7. KeysInv'
  <2>1. \A d \in ChildNames : children'[d].exists => children'[d] = children[d]
    BY <1>3, Zenon
  <2>2. \A d \in ChildNames : children'[d].exists => children'[d].owner \in 0..stream.uid
    BY <2>1, Zenon DEF KeysInv
  <2>3. <<"exchange">> \in ChildNames
        /\ \A j \in 1..Len(PartKinds), i \in 1..MaxPartitions : <<PartKinds[j], i>> \in ChildNames
    BY ChildNamesAre, Zenon
  <2>4. \A i, key : Fits(stream, i, key)' = Fits(stream, i, key)
    BY <1>0, Zenon DEF Fits
  <2> QED
    BY <1>0, <2>1, <2>2, <2>3, <2>4, ZenonT(30) DEF KeysInv
<1>8. CountInv'
  BY <1>0, Zenon DEF CountInv, Counted
<1>9. ProgressInv'
  BY <1>2, ZenonT(30) DEF ProgressInv, Pending
<1> QED
  BY <1>4, <1>5, <1>6, <1>7, <1>8, <1>9, Zenon

\* Of the cluster, and of how much is spent, the invariant says nothing.
LEMMA OthersKeep ==
  ASSUME StreamInv, UNCHANGED <<streamVars, childVars, queued, worker, dropped>>
  PROVE  StreamInv'
<1> USE DEF StreamInv
<1>0. UNCHANGED <<stream, streamCache, latest, children, childCache, behind, queued, pc, obj,
                  next, dropped>>
  BY Zenon DEF streamVars, childVars, worker
<1>1. Builders(obj)' = Builders(obj) /\ Builders(stream)' = Builders(stream)
      /\ KeysMatch(obj)' = KeysMatch(obj)
  BY <1>0, Zenon DEF Builders, RoutingKeysOf, GenerateRoutingKeys, KeysMatch
<1>2. TypeOK'
  BY <1>0, Zenon DEF TypeOK
<1>3. WorkerInv'
  BY <1>0, <1>1, Zenon DEF WorkerInv
<1>4. CopiesInv'
  BY <1>0, Zenon DEF CopiesInv, SameObject, Follows
<1>5. KeysInv'
  BY <1>0, KeysKept, Zenon DEF SameSpec
<1>6. CountInv'
  BY <1>0, Zenon DEF CountInv, Counted
<1>7. ProgressInv'
  <2>1. Pending' = Pending
    BY <1>0, SMTT(30) DEF Pending
  <2>2. Complete' = Complete
    BY <1>0, <1>1, Zenon DEF Complete
  <2>3. \A n : Built(n)' = Built(n)
    BY <1>0, <1>1, Zenon DEF Built
  <2> QED
    BY <1>0, <1>1, <2>1, <2>2, <2>3, ZenonT(30) DEF ProgressInv, Denied
<1> QED
  BY <1>2, <1>3, <1>4, <1>5, <1>6, <1>7, Zenon

LEMMA StreamNext ==
  ASSUME StreamInv, [Next]_vars
  PROVE  StreamInv'
<1>1. CASE Get \/ Reconcile
  BY <1>1, GetKeeps, ParseKeeps, ChildKeeps, PartitionsKeep, ReportKeeps, Zenon DEF Reconcile
<1>2. CASE DeliverStream \/ Delete
  BY <1>2, DeliverStreamKeeps, DeleteKeeps, Zenon
<1>3. CASE \E p \in Sizes, k \in KeyLists : Create(p, k) \/ Update(p, k)
  BY <1>3, CreateKeeps, UpdateKeeps, Zenon
<1>4. CASE \E c \in ChildNames : DeliverChild(c) \/ DeleteChild(c) \/ CollectGarbage(c)
  BY <1>4, DeliverChildKeeps, RemoveKeeps, Zenon DEF DeleteChild, CollectGarbage
<1>5. CASE \E state \in ClusterStates : ClusterChanges(state)
  BY <1>5, OthersKeep, Zenon DEF ClusterChanges
<1>6. CASE UNCHANGED vars
  BY <1>6, OthersKeep, Zenon DEF vars
<1> QED
  BY <1>1, <1>2, <1>3, <1>4, <1>5, <1>6, Zenon DEF Next

LEMMA StreamInvariant == Spec => []StreamInv
<1>1. Init => StreamInv
  BY StreamInit, Zenon
<1>2. StreamInv /\ [Next]_vars => StreamInv'
  BY StreamNext, Zenon
<1> QED
  BY <1>1, <1>2, PTL DEF Spec
--------------------------------------------------------------------------------
(***************************************************************************)
(* What it says.                                                           *)
(***************************************************************************)

LEMMA KeysImplied ==
  ASSUME StreamInv
  PROVE  ChildrenKeepTheirKeys
<1> SUFFICES ASSUME NEW n \in DOMAIN Builders(stream),
                    children[Builders(stream)[n].name].exists,
                    children[Builders(stream)[n].name].owner = stream.uid
             PROVE  children[Builders(stream)[n].name].key = Builders(stream)[n].key
  BY Zenon DEF ChildrenKeepTheirKeys
<1> DEFINE b == Builders(stream)[n]
           child == children[b.name]
<1>0. stream \in Streams /\ KeysInv
  BY Zenon DEF StreamInv, TypeOK
<1>1. /\ b.name \in ChildNames
      /\ \/ b.name = <<"exchange">> /\ b.key = NoKey
         \/ \E j \in 1..Len(PartKinds), i \in 1..MaxPartitions :
              b.name = <<PartKinds[j], i>> /\ Fits(stream, i, b.key)
  BY <1>0, BuilderIs, Zenon
<1>2. CASE b.name = <<"exchange">> /\ b.key = NoKey
  BY <1>0, <1>2, Zenon DEF KeysInv
<1>3. CASE stream.exists
  <2>1. ASSUME NEW j \in 1..Len(PartKinds), NEW i \in 1..MaxPartitions,
               b.name = <<PartKinds[j], i>>, Fits(stream, i, b.key)
        PROVE  child.key = b.key
    <3>1. Fits(stream, i, child.key)
      BY <1>0, <1>3, <2>1, ZenonT(30) DEF KeysInv
    <3> QED
      BY <2>1, <3>1, Zenon DEF Fits
  <2> QED
    BY <1>1, <1>2, <2>1, Zenon
<1>4. CASE ~stream.exists
  <2>1. stream.partitions = 0 /\ stream.routingKeys = <<>>
    BY <1>0, <1>4, Zenon DEF KeysInv
  <2>2. Len(RoutingKeysOf(stream)) = 0
    <3>1. KeysMatch(stream)
      BY <2>1, ZenonT(30) DEF KeysMatch
    <3>2. 0 >= 0
      OBVIOUS
    <3> QED
      BY <1>0, <2>1, <3>1, <3>2, RoutingKeysAre, Zenon
  <2>3. n = 1
    <3>1. Len(PartKinds) * 0 = 0
      BY BoundsAssumption
    <3>2. DOMAIN Builders(stream) = 1..(1 + 0)
      BY <1>0, <2>2, <3>1, BuildersAre, ZenonT(30)
    <3> QED
      BY <3>2
  <2>4. b = [name |-> <<"exchange">>, key |-> NoKey]
    BY <1>0, <2>3, BuildersAre, Zenon DEF Builders
  <2> QED
    BY <1>2, <2>4
<1> QED
  BY <1>3, <1>4, Zenon

\* For any routing keys and any number of partitions, whatever people edit, however late
\* the caches: no child of the SuperStream has another key than the builder that
\* CreateOrUpdate applies to it, so that the child's webhook has nothing to refuse.
THEOREM ChildrenKeepKeys == Spec => []ChildrenKeepTheirKeys
BY StreamInvariant, KeysImplied, PTL

LEMMA QuietImplied ==
  ASSUME StreamInv
  PROVE  QuietIsComplete
BY Zenon DEF StreamInv, ProgressInv, Pending, QuietIsComplete, Quiet

\* When the queue is empty, the worker idle and the caches up to date, none of the
\* objects of a SuperStream is missing or belongs to an earlier one of its name, unless
\* the last Reconcile was not allowed to use the cluster, which the status says if it could
\* be written.
THEOREM QuietMeansComplete == Spec => []QuietIsComplete
BY StreamInvariant, QuietImplied, PTL

\* The scale-down branch of Reconcile is taken only for a negative number of partitions: no
\* copy of a SuperStream that has any, or had any, has fewer partitions than its status
\* lists, however late the caches are and whichever status writes fail.
THEOREM ScaleDownNeverSeen == Spec => []NeverTakenForShrunk
<1>1. ASSUME StreamInv PROVE NeverTakenForShrunk
  <2> SUFFICES ASSUME pc = "reportDone"
               PROVE  obj.partitions < 0 /\ obj.statusPartitions = <<>>
    BY Zenon DEF NeverTakenForShrunk
  <2>1. /\ obj.partitions < 0
        /\ obj.statusPartitions = <<>> \/ Len(obj.statusPartitions) <= obj.partitions
    BY <1>1, Zenon DEF StreamInv, WorkerInv, CountInv, Counted
  <2>2. obj.partitions \in Int /\ Len(obj.statusPartitions) \in Nat
    BY <1>1, PartitionsAre, Zenon DEF StreamInv, TypeOK
  <2> QED
    BY <2>1, <2>2
<1> QED
  BY <1>1, StreamInvariant, PTL
--------------------------------------------------------------------------------
(***************************************************************************)
(* For any number of workers, and whatever Vault does: a worker never      *)
(* reads through a client that is not there (NeverNilClient), and the      *)
(* goroutine that renews the token lives exactly as long as the client     *)
(* (RenewalGoesOn).                                                        *)
(*                                                                         *)
(* The inductive invariant is the list of the phases that the process goes *)
(* through: what once, the client, the channel and the goroutine are       *)
(* together.                                                               *)
(***************************************************************************)

WorkerLabels == {"idle", "initialize", "awaitLogin", "readCredentials", "done", "failed"}
Alive == {"login", "result", "manage", "watch", "sleep"}

\* All workers but w wait for InitializeClient to return.
OnlyWorker(w, label) ==
  /\ at[w] = label
  /\ \A v \in Workers : v # w => at[v] = "idle"

\* Nothing has happened to the goroutine.
NotStarted == renewer = "none" /\ ~sent /\ channel = <<>>

New ==
  /\ once = "new" /\ ~client /\ creationError = ""
  /\ NotStarted
  /\ \A w \in Workers : at[w] = "idle"

Initializing ==
  /\ once = "running" /\ ~client /\ creationError = ""
  /\ NotStarted
  /\ \E w \in Workers : OnlyWorker(w, "initialize")

FirstLogin ==
  /\ once = "running" /\ ~client /\ creationError = ""
  /\ renewer \in {"login", "result"} /\ ~sent /\ channel = <<>>
  /\ renewer = "result" /\ resp # "nil" => token # "none"
  /\ \E w \in Workers : OnlyWorker(w, "awaitLogin")

LoggedIn ==
  /\ once = "running" /\ ~client /\ creationError = ""
  /\ renewer \in Alive /\ sent /\ channel = <<"ok">> /\ token # "none"
  /\ \E w \in Workers : OnlyWorker(w, "awaitLogin")

LoginFailed ==
  /\ once = "running" /\ ~client /\ creationError = ""
  /\ renewer = "ended" /\ channel = <<"error">>
  /\ \E w \in Workers : OnlyWorker(w, "awaitLogin")

Usable ==
  /\ once = "done" /\ client /\ creationError = ""
  /\ renewer \in Alive /\ sent /\ token # "none"
  /\ \A w \in Workers : at[w] \notin {"initialize", "awaitLogin"}

Unusable ==
  /\ once = "done" /\ ~client /\ creationError # ""
  /\ renewer \in {"none", "ended"}
  /\ \A w \in Workers : at[w] \in {"idle", "failed"}

\* The phases of the process.
Phases ==
  /\ at \in [Workers -> WorkerLabels]
  /\ \/ New \/ Initializing \/ FirstLogin \/ LoggedIn \/ LoginFailed
     \/ Usable \/ Unusable

\* The process starts in the first phase.
LEMMA PhasesInit ==
  ASSUME VaultInit
  PROVE  Phases
BY ZenonT(30) DEF VaultInit, Phases, New, NotStarted, WorkerLabels

\* Steps of the workers.
LEMMA PhasesWorker ==
  ASSUME Phases, NEW w \in Workers, Worker(w)
  PROVE  Phases'
<1> USE DEF Phases, WorkerLabels, Goto, process, login, auth, work, bounds
<1>0. at \in [Workers -> WorkerLabels]
  OBVIOUS
<1>1. CASE GetSecretStoreClient(w)
  <2>1. CASE New
    BY <1>1, <2>1, Zenon DEF GetSecretStoreClient, New, Initializing, NotStarted, OnlyWorker,
       OnceReturns
  <2>2. CASE Initializing \/ FirstLogin \/ LoggedIn \/ LoginFailed
    BY <1>1, <2>2, Zenon DEF GetSecretStoreClient, Initializing, FirstLogin, LoggedIn, LoginFailed,
                      OnceReturns
  <2>3. CASE Usable
    BY <1>1, <2>3, Zenon DEF GetSecretStoreClient, Usable, Alive, OnceReturns
  <2>4. CASE Unusable
    BY <1>1, <2>4, Zenon DEF GetSecretStoreClient, Unusable, OnceReturns
  <2> QED
    BY <2>1, <2>2, <2>3, <2>4, Zenon
<1>2. CASE InitializeClient(w)
  <2>1. Initializing /\ OnlyWorker(w, "initialize")
    BY <1>2, Zenon DEF InitializeClient, New, Initializing, FirstLogin, LoggedIn, LoginFailed,
       Usable,
                Unusable, OnlyWorker
  <2>2. CASE ConfigError = ""
    BY <1>2, <2>1, <2>2, ZenonT(30) DEF InitializeClient, Initializing, FirstLogin, NotStarted,
       OnlyWorker
  <2>3. CASE ConfigError # ""
    <3>1. creationError' # ""
      BY <1>2, <2>3, Zenon DEF InitializeClient
    <3>2. /\ once' = "done" /\ ~client' /\ renewer' = "none"
          /\ at' = [at EXCEPT ![w] = "failed"]
      BY <1>2, <2>1, <2>3, Zenon DEF InitializeClient, Initializing, NotStarted
    <3>3. at' \in [Workers -> WorkerLabels] /\ \A v \in Workers : at'[v] \in {"idle", "failed"}
      BY <1>0, <2>1, <3>2, Zenon DEF OnlyWorker
    <3> QED
      BY <3>1, <3>2, <3>3, Zenon DEF Unusable
  <2> QED
    BY <2>2, <2>3, Zenon
<1>3. CASE AwaitLogin(w)
  <2>1. (LoggedIn \/ LoginFailed) /\ OnlyWorker(w, "awaitLogin")
    BY <1>3, Zenon DEF AwaitLogin, New, Initializing, FirstLogin, LoggedIn, LoginFailed, Usable,
                Unusable, OnlyWorker
  <2>2. CASE LoggedIn
    BY <1>3, <2>1, <2>2, Zenon DEF AwaitLogin, LoggedIn, Usable, OnlyWorker, Alive
  <2>3. CASE LoginFailed
    BY <1>3, <2>1, <2>3, ZenonT(30) DEF AwaitLogin, LoginFailed, Unusable, OnlyWorker
  <2> QED
    BY <2>1, <2>2, <2>3, Zenon
<1>4. CASE ReadCredentials(w)
  <2>1. Usable
    BY <1>4, Zenon DEF ReadCredentials, New, Initializing, FirstLogin, LoggedIn, LoginFailed,
       Unusable,
                OnlyWorker
  <2> QED
    BY <1>4, <2>1, Zenon DEF ReadCredentials, Usable, Alive
<1>5. CASE Again(w)
  <2>1. Usable \/ Unusable
    BY <1>5, ZenonT(30) DEF Again, New, Initializing, FirstLogin, LoggedIn, LoginFailed, OnlyWorker
  <2> QED
    BY <1>5, <2>1, Zenon DEF Again, Usable, Unusable, Alive
<1> QED
  BY <1>1, <1>2, <1>3, <1>4, <1>5, Zenon DEF Worker

\* Steps that leave the phase alone: no token is taken from the client, and the goroutine
\* neither starts nor ends.
LEMMA PhasesKept ==
  ASSUME Phases, UNCHANGED <<process, channel, sent, work>>,
         renewer' = renewer \/ (renewer \in Alive /\ renewer' \in Alive /\ sent),
         renewer = "result" => resp' = resp,
         token # "none" => token' # "none"
  PROVE  Phases'
<1> USE DEF process, work, WorkerLabels
<1>1. ASSUME NEW w \in Workers, NEW label PROVE OnlyWorker(w, label) <=> OnlyWorker(w, label)'
  BY Zenon DEF OnlyWorker
<1>2. CASE New \/ Initializing
  BY <1>1, <1>2, Zenon DEF New, Initializing, NotStarted, Phases, Alive
<1>3. CASE FirstLogin
  BY <1>1, <1>3, Zenon DEF FirstLogin, Phases, Alive
<1>4. CASE LoggedIn
  BY <1>1, <1>4, Zenon DEF LoggedIn, Phases, Alive
<1>5. CASE LoginFailed
  BY <1>1, <1>5, Zenon DEF LoginFailed, Phases, Alive
<1>6. CASE Usable \/ Unusable
  BY <1>6, Zenon DEF Usable, Unusable, Phases, Alive
<1> QED
  BY <1>2, <1>3, <1>4, <1>5, <1>6, Zenon DEF Phases

\* Steps of the goroutine.
LEMMA PhasesRenewer ==
  ASSUME Phases, Renewer
  PROVE  Phases'
<1> USE DEF process, auth, work, bounds
<1>0. renewer \in Alive => FirstLogin \/ LoggedIn \/ Usable
  BY ZenonT(30) DEF Phases, New, Initializing, LoginFailed, Unusable, NotStarted, Alive
<1>1. CASE Login
  <2>1. CASE FirstLogin
    <3>1. \E w \in Workers : OnlyWorker(w, "awaitLogin")'
      BY <1>1, <2>1, Zenon DEF Login, FirstLogin, OnlyWorker
    <3>2. resp' # "nil" => token' # "none"
      BY <1>1, Zenon DEF Login
    <3> QED
      BY <1>1, <2>1, <3>1, <3>2, Zenon DEF Login, FirstLogin, Phases
  <2>2. CASE LoggedIn \/ Usable
    <3>1. renewer # "result" /\ sent /\ renewer \in Alive /\ renewer' \in Alive
      BY <1>1, <2>2, Zenon DEF Login, LoggedIn, Usable, Alive
    <3>2. token # "none" => token' # "none"
      BY <1>1, Zenon DEF Login
    <3> QED
      BY <1>1, <3>1, <3>2, PhasesKept, Zenon DEF Login
  <2> QED
    BY <1>0, <1>1, <2>1, <2>2, Zenon DEF Login, Alive
<1>2. CASE Announce
  <2>1. CASE FirstLogin
    <3>1. \E w \in Workers : OnlyWorker(w, "awaitLogin")'
      BY <1>2, <2>1, Zenon DEF Announce, FirstLogin, OnlyWorker
    <3>2. CASE resp = "nil"
      BY <1>2, <2>1, <3>1, <3>2, Zenon DEF Announce, AfterLogin, FirstLogin, LoginFailed, Phases
    <3>3. CASE resp # "nil"
      BY <1>2, <2>1, <3>1, <3>3, Zenon DEF Announce, AfterLogin, FirstLogin, LoggedIn, Phases, Alive
    <3> QED
      BY <3>2, <3>3, Zenon
  <2>2. CASE LoggedIn \/ Usable
    <3>1. sent /\ renewer \in Alive /\ renewer' \in Alive
      BY <1>2, <2>2, Zenon DEF Announce, AfterLogin, LoggedIn, Usable, Alive
    <3> QED
      BY <1>2, <2>2, <3>1, PhasesKept, Zenon DEF Announce, LoggedIn, Usable
  <2> QED
    BY <1>0, <1>2, <2>1, <2>2, Zenon DEF Announce, Alive
<1>3. CASE ManageTokenLifecycle \/ Watch \/ Sleep
  <2>1. renewer \in Alive /\ renewer' \in Alive
    BY <1>3, Zenon DEF ManageTokenLifecycle, Watch, Sleep, Alive
  <2>2. sent
    BY <1>0, <1>3, <2>1, Zenon DEF ManageTokenLifecycle, Watch, Sleep, FirstLogin, LoggedIn, Usable
  <2> QED
    BY <1>3, <2>1, <2>2, PhasesKept, ZenonT(30) DEF ManageTokenLifecycle, Watch, Sleep
<1> QED
  BY <1>1, <1>2, <1>3, Zenon DEF Renewer

\* Every step leads from a phase to a phase.
LEMMA PhasesNext ==
  ASSUME Phases, [VaultNext]_vaultVars
  PROVE  Phases'
<1> USE DEF process, login, auth, work, bounds
<1>1. CASE LeaseRuns \/ Expire \/ Outage \/ Recover \/ (\E secret \in StoredSecrets : Write(secret))
  <2>1. UNCHANGED <<process, channel, renewer, sent, resp, work>>
    BY <1>1, Zenon DEF LeaseRuns, Expire, Outage, Recover, Write
  <2>2. token # "none" => token' # "none"
    BY <1>1, Zenon DEF LeaseRuns, Expire, Outage, Recover, Write
  <2> QED
    BY <2>1, <2>2, PhasesKept, Zenon
<1>2. CASE UNCHANGED vaultVars
  BY <1>2, PhasesKept, Zenon DEF vaultVars
<1> QED
  BY <1>1, <1>2, PhasesWorker, PhasesRenewer, Zenon DEF VaultNext

\* The phases hold throughout.
LEMMA PhasesHold == VaultSpec => []Phases
BY PhasesInit, PhasesNext, PTL DEF VaultSpec

\* GetSecretStoreClient hands no worker a nil client, or one that never logged in: also
\* not those that find the once in progress.
THEOREM ClientIsThere == VaultSpec => []NeverNilClient
<1>1. Phases => NeverNilClient
  BY Zenon DEF Phases, NeverNilClient, New, Initializing, FirstLogin, LoggedIn, LoginFailed, Usable,
         Unusable, OnlyWorker
<1> QED
  BY <1>1, PhasesHold, PTL

\* renewToken ends if the first login fails, and then there is no client; after that no
\* failed login, no outage and no expired token ends it.
THEOREM RenewalLives == VaultSpec => []RenewalGoesOn
<1>1. Phases => RenewalGoesOn
  BY Zenon DEF Phases, RenewalGoesOn, New, Initializing, FirstLogin, LoggedIn, LoginFailed, Usable,
         Unusable, Alive
<1> QED
  BY <1>1, PhasesHold, PTL
================================================================================
