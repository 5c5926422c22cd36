-------------------------------- MODULE ApiTypes --------------------------------
(***************************************************************************)
(* The Go types of the API, as far as memory can be shared between two     *)
(* copies of an object: a type is the set of paths to its pointers, slices *)
(* and maps.  T is the type as declared in *_types.go; CopyT is the set of *)
(* paths at which the generated DeepCopyInto of T allocates anew.  All     *)
(* other fields are copied by the assignment *out = *in, which shares what *)
(* they refer to.                                                          *)
(***************************************************************************)
EXTENDS Sequences

\* A field that is a pointer, slice or map of plain values; the references inside a
\* field that is a struct; a field that refers to structs with references inside.
Ref(f) == {<<f>>}
At(f, inside) == {<<f>> \o p : p \in inside}
RefTo(f, inside) == Ref(f) \cup At(f, inside)

\* Types of Kubernetes: all their DeepCopyInto copy everything.
RawExtension == Ref("raw")
ObjectMeta ==
  Ref("labels") \cup Ref("annotations") \cup Ref("finalizers")
    \cup RefTo("ownerReferences", Ref("controller"))

Object(spec, status) == At("metadata", ObjectMeta) \cup At("spec", spec) \cup At("status", status)
List(object) == RefTo("items", object)
--------------------------------------------------------------------------------
(***************************************************************************)
(* The types.                                                              *)
(***************************************************************************)

RabbitmqClusterReference == Ref("connectionSecret")
Cluster == At("rabbitmqClusterReference", RabbitmqClusterReference)
SecretBackend == Ref("vault")
UserLimits == Ref("connections") \cup Ref("channels")
VhostLimits == Ref("connections") \cup Ref("queues")
Status == Ref("conditions")

Binding == Object(RefTo("arguments", RawExtension) \cup Cluster, Status)
Exchange == Object(RefTo("arguments", RawExtension) \cup Cluster, Status)
Federation == Object(Cluster \cup Ref("uriSecret") \cup Ref("reconnectDelay"), Status)
OperatorPolicy == Object(RefTo("definition", RawExtension) \cup Cluster, Status)
Permission == Object(Ref("userReference") \cup Cluster, Status)
Policy == Object(RefTo("definition", RawExtension) \cup Cluster, Status)
Queue == Object(Ref("durable") \cup RefTo("arguments", RawExtension) \cup Cluster, Status)
SchemaReplication ==
  Object(Cluster \cup Ref("upstreamSecret") \cup At("secretBackend", SecretBackend), Status)
Shovel ==
  Object(Cluster \cup Ref("uriSecret")
           \cup UNION {RefTo(f, RawExtension) :
                  f \in {"srcQueueArgs", "destQueueArgs", "destPublishProperties",
                         "destApplicationProperties", "destProperties",
                         "destMessageAnnotations", "srcConsumerArgs"}},
         Status)
SuperStream ==
  Object(Ref("routingKeys") \cup Cluster, Status \cup Ref("partitions"))
TopicPermission == Object(Ref("userReference") \cup Cluster, Status)
User ==
  Object(Ref("tags") \cup Cluster \cup Ref("importCredentialsSecret")
           \cup RefTo("limits", UserLimits),
         Status \cup Ref("credentials"))
Vhost == Object(Ref("tags") \cup Cluster \cup RefTo("limits", VhostLimits), Status)

Types ==
  [Binding |-> Binding, Exchange |-> Exchange, Federation |-> Federation,
   OperatorPolicy |-> OperatorPolicy, Permission |-> Permission, Policy |-> Policy,
   Queue |-> Queue, SchemaReplication |-> SchemaReplication, Shovel |-> Shovel,
   SuperStream |-> SuperStream, TopicPermission |-> TopicPermission, User |-> User,
   Vhost |-> Vhost]

Kinds == DOMAIN Types
--------------------------------------------------------------------------------
(***************************************************************************)
(* SetStatusConditions.  Most kinds replace the slice; User goes through   *)
(* upsertCondition, which writes the element in place when there already   *)
(* is a condition of that type.  The result is the set of paths written    *)
(* through a reference.                                                    *)
(***************************************************************************)

\* has: the object already has a condition of the type.
UpsertCondition(has) == IF has THEN At("status", Ref("conditions")) ELSE {}

SetStatusConditions(kind, has) == IF kind = "User" THEN UpsertCondition(has) ELSE {}
--------------------------------------------------------------------------------
(***************************************************************************)
(* The generated copies.                                                   *)
(***************************************************************************)

CopyReference == Ref("connectionSecret")
CopyCluster == At("rabbitmqClusterReference", CopyReference)
CopySecretBackend == Ref("vault")
CopyUserLimits == Ref("connections") \cup Ref("channels")
CopyVhostLimits == Ref("connections") \cup Ref("queues")
CopyConditions == Ref("conditions")

CopyBinding ==
  Object(RefTo("arguments", RawExtension) \cup CopyCluster, CopyConditions)
CopyExchange ==
  Object(RefTo("arguments", RawExtension) \cup CopyCluster, CopyConditions)
CopyFederation ==
  Object(CopyCluster \cup Ref("uriSecret") \cup Ref("reconnectDelay"), CopyConditions)
CopyOperatorPolicy ==
  Object(RefTo("definition", RawExtension) \cup CopyCluster, CopyConditions)
CopyPermission == Object(Ref("userReference") \cup CopyCluster, CopyConditions)
CopyPolicy ==
  Object(RefTo("definition", RawExtension) \cup CopyCluster, CopyConditions)
CopyQueue ==
  Object(Ref("durable") \cup RefTo("arguments", RawExtension) \cup CopyCluster,
         CopyConditions)
CopySchemaReplication ==
  Object(CopyCluster \cup Ref("upstreamSecret") \cup At("secretBackend", CopySecretBackend),
         CopyConditions)
CopyShovel ==
  Object(CopyCluster \cup Ref("uriSecret") \cup RefTo("srcQueueArgs", RawExtension)
           \cup RefTo("destQueueArgs", RawExtension)
           \cup RefTo("destPublishProperties", RawExtension)
           \cup RefTo("destApplicationProperties", RawExtension)
           \cup RefTo("destProperties", RawExtension)
           \cup RefTo("destMessageAnnotations", RawExtension)
           \cup RefTo("srcConsumerArgs", RawExtension),
         CopyConditions)
CopySuperStream ==
  Object(Ref("routingKeys") \cup CopyCluster, CopyConditions \cup Ref("partitions"))
CopyTopicPermission == Object(Ref("userReference") \cup CopyCluster, CopyConditions)

\* Mutant of CopyUser: the status is copied by the assignment alone.
CopyUserShallow ==
  Object(Ref("tags") \cup CopyCluster \cup Ref("importCredentialsSecret")
           \cup RefTo("limits", CopyUserLimits),
         Ref("credentials"))

CopyUser ==
  Object(Ref("tags") \cup CopyCluster \cup Ref("importCredentialsSecret")
           \cup RefTo("limits", CopyUserLimits),
         CopyConditions \cup Ref("credentials"))
CopyVhost ==
  Object(Ref("tags") \cup CopyCluster \cup RefTo("limits", CopyVhostLimits),
         CopyConditions)

Copies ==
  [Binding |-> CopyBinding, Exchange |-> CopyExchange, Federation |-> CopyFederation,
   OperatorPolicy |-> CopyOperatorPolicy, Permission |-> CopyPermission,
   Policy |-> CopyPolicy, Queue |-> CopyQueue,
   SchemaReplication |-> CopySchemaReplication, Shovel |-> CopyShovel,
   SuperStream |-> CopySuperStream, TopicPermission |-> CopyTopicPermission,
   User |-> CopyUser, Vhost |-> CopyVhost]

\* What an object and its DeepCopy share, and a list and its copy.
Shared(kind) == Types[kind] \ Copies[kind]
SharedList(kind) == List(Types[kind]) \ List(Copies[kind])
================================================================================
