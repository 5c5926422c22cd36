------------------------------- MODULE Clientset -------------------------------
(***************************************************************************)
(* The generated clients, informers and listers of pkg/generated, one of   *)
(* each per kind.  A client is the request that each of its verbs sends; an *)
(* informer is the two requests it fills its index with and the type it    *)
(* expects; a lister is the type it asserts of what is in the index.       *)
(***************************************************************************)
EXTENDS ApiTypes

\* All verbs add the namespace of the client.
Verbs(resource) ==
  LET Request(method, named, subresource) ==
        [method |-> method, resource |-> resource, named |-> named,
         subresource |-> subresource]
  IN [Get |-> Request("GET", TRUE, ""), List |-> Request("GET", FALSE, ""),
      Watch |-> Request("WATCH", FALSE, ""), Create |-> Request("POST", FALSE, ""),
      Update |-> Request("PUT", TRUE, ""), UpdateStatus |-> Request("PUT", TRUE, "status"),
      Delete |-> Request("DELETE", TRUE, ""),
      DeleteCollection |-> Request("DELETE", FALSE, ""),
      Patch |-> Request("PATCH", TRUE, "")]

bindings == Verbs("bindings")
exchanges == Verbs("exchanges")
federations == Verbs("federations")
operatorPolicies == Verbs("operatorpolicies")
permissions == Verbs("permissions")
policies == Verbs("policies")
queues == Verbs("queues")
schemaReplications == Verbs("schemareplications")
shovels == Verbs("shovels")
superStreams == Verbs("superstreams")
users == Verbs("users")
vhosts == Verbs("vhosts")

\* There is no generated client of topic permissions: the one of controller-runtime.
topicPermissions == Verbs("topicpermissions")

\* The methods of RabbitmqV1beta1Client and RabbitmqV1alpha1Client.
Clients ==
  [Binding |-> bindings, Exchange |-> exchanges, Federation |-> federations,
   OperatorPolicy |-> operatorPolicies, Permission |-> permissions, Policy |-> policies,
   Queue |-> queues, SchemaReplication |-> schemaReplications, Shovel |-> shovels,
   SuperStream |-> superStreams, TopicPermission |-> topicPermissions, User |-> users,
   Vhost |-> vhosts]

Resource(kind) == Clients[kind].Get.resource
--------------------------------------------------------------------------------
(***************************************************************************)
(* Informers and listers.                                                  *)
(***************************************************************************)

Informer(list, watch, type) == [list |-> list, watch |-> watch, type |-> type]

BindingInformer == Informer(bindings.List, bindings.Watch, "Binding")
ExchangeInformer == Informer(exchanges.List, exchanges.Watch, "Exchange")
FederationInformer == Informer(federations.List, federations.Watch, "Federation")
OperatorPolicyInformer ==
  Informer(operatorPolicies.List, operatorPolicies.Watch, "OperatorPolicy")
PermissionInformer == Informer(permissions.List, permissions.Watch, "Permission")

\* Mutant of PolicyInformer: it watches the operator policies.
PolicyInformerMixed == Informer(policies.List, operatorPolicies.Watch, "Policy")

PolicyInformer == Informer(policies.List, policies.Watch, "Policy")
QueueInformer == Informer(queues.List, queues.Watch, "Queue")
SchemaReplicationInformer ==
  Informer(schemaReplications.List, schemaReplications.Watch, "SchemaReplication")
ShovelInformer == Informer(shovels.List, shovels.Watch, "Shovel")
SuperStreamInformer == Informer(superStreams.List, superStreams.Watch, "SuperStream")
UserInformer == Informer(users.List, users.Watch, "User")
VhostInformer == Informer(vhosts.List, vhosts.Watch, "Vhost")

\* The informer in the manager's cache.
TopicPermissionInformer ==
  Informer(topicPermissions.List, topicPermissions.Watch, "TopicPermission")

\* The methods of the factory's Interface.
Informers ==
  [Binding |-> BindingInformer, Exchange |-> ExchangeInformer,
   Federation |-> FederationInformer, OperatorPolicy |-> OperatorPolicyInformer,
   Permission |-> PermissionInformer, Policy |-> PolicyInformer, Queue |-> QueueInformer,
   SchemaReplication |-> SchemaReplicationInformer, Shovel |-> ShovelInformer,
   SuperStream |-> SuperStreamInformer, TopicPermission |-> TopicPermissionInformer,
   User |-> UserInformer, Vhost |-> VhostInformer]

\* ForResource: the kind whose informer serves a resource.
ForResource ==
  [superstreams |-> "SuperStream", bindings |-> "Binding", exchanges |-> "Exchange",
   federations |-> "Federation", operatorpolicies |-> "OperatorPolicy",
   permissions |-> "Permission", policies |-> "Policy", queues |-> "Queue",
   schemareplications |-> "SchemaReplication", shovels |-> "Shovel", users |-> "User",
   vhosts |-> "Vhost"]

\* A lister reads the index of one namespace or all of it and hands out the pointers that
\* are in the index, after it has asserted their type; the assertion of another type
\* panics.
Lister(type) ==
  [type  |-> type,
   Reads |-> [t \in Kinds \cup {"absent"} |->
                CASE t = type -> "pointer" [] t = "absent" -> "notFound" [] OTHER -> "panic"]]

BindingLister == Lister("Binding")
ExchangeLister == Lister("Exchange")
FederationLister == Lister("Federation")
OperatorPolicyLister == Lister("OperatorPolicy")
PermissionLister == Lister("Permission")
PolicyLister == Lister("Policy")
QueueLister == Lister("Queue")
SchemaReplicationLister == Lister("SchemaReplication")
ShovelLister == Lister("Shovel")
SuperStreamLister == Lister("SuperStream")
UserLister == Lister("User")
VhostLister == Lister("Vhost")
TopicPermissionLister == Lister("TopicPermission")

Listers ==
  [Binding |-> BindingLister, Exchange |-> ExchangeLister,
   Federation |-> FederationLister, OperatorPolicy |-> OperatorPolicyLister,
   Permission |-> PermissionLister, Policy |-> PolicyLister, Queue |-> QueueLister,
   SchemaReplication |-> SchemaReplicationLister, Shovel |-> ShovelLister,
   SuperStream |-> SuperStreamLister, TopicPermission |-> TopicPermissionLister,
   User |-> UserLister, Vhost |-> VhostLister]
================================================================================
