------------------------------- MODULE Admission -------------------------------
(***************************************************************************)
(* The admission webhooks (internal/webhook/v1beta1) together with what    *)
(* the controllers make of the spec they let through: the address under    *)
(* which an object is declared on, and later deleted from, the server.     *)
(*                                                                         *)
(* The state is that of one object of one kind.  A spec maps the fields of *)
(* its kind to values; Unset is an absent string, pointer or map.  The     *)
(* worker's copy may be older than the object.                             *)
(***************************************************************************)
EXTENDS Naturals

CONSTANTS
  Names,      \* values of names, patterns, keys and so on
  Secrets,    \* names of Secrets
  Unset

VARIABLES
  kind,
  exists, spec, deleting,   \* the object
  copy,                     \* what the worker read of it
  server,                   \* addresses the operator declared and did not delete
  labelled                  \* Secrets that exist with the topology-operator label

admissionVars == <<kind, exists, spec, deleting, copy, server, labelled>>
--------------------------------------------------------------------------------
(***************************************************************************)
(* Specs and addresses.                                                    *)
(***************************************************************************)

\* The fields that make up the URL of the object on the server, per kind: what its
\* DeclareFunc and DeleteFunc pass on.  Of a User it is the username, which is not
\* in the spec; a SchemaReplication is one fixed global parameter.
BindingAddress == {"vhost", "source", "destination", "destinationType", "routingKey",
                   "arguments"}
ExchangeAddress == {"name", "vhost"}
QueueAddress == {"name", "vhost"}
PolicyAddress == {"name", "vhost"}
OperatorPolicyAddress == {"name", "vhost"}
FederationAddress == {"name", "vhost"}
ShovelAddress == {"name", "vhost"}
VhostAddress == {"name"}
PermissionAddress == {"vhost", "user", "userReference"}
TopicPermissionAddress == {"vhost", "user", "userReference", "exchange"}
SchemaReplicationAddress == {}
UserAddress == {}

AddressFields ==
  [Binding           |-> BindingAddress,
   Exchange          |-> ExchangeAddress,
   Queue             |-> QueueAddress,
   Policy            |-> PolicyAddress,
   OperatorPolicy    |-> OperatorPolicyAddress,
   Federation        |-> FederationAddress,
   Shovel            |-> ShovelAddress,
   Vhost             |-> VhostAddress,
   Permission        |-> PermissionAddress,
   TopicPermission   |-> TopicPermissionAddress,
   SchemaReplication |-> SchemaReplicationAddress,
   User              |-> UserAddress]

Kinds == DOMAIN AddressFields

\* The fields beside the address and the cluster reference that a webhook or a
\* property looks at; "settings" stands for the rest of the spec.
OtherFields ==
  [k \in Kinds |->
     CASE k = "Exchange"          -> {"type", "durable", "autoDelete", "settings"}
       [] k = "Queue"             -> {"type", "durable", "autoDelete", "arguments", "settings"}
       [] k = "Shovel"            -> {"secret", "srcProtocol", "srcAddress", "destProtocol",
                                 "destAddress"}
       [] k = "Federation"        -> {"secret", "settings"}
       [] k = "SchemaReplication" -> {"secret", "vaultPath", "endpoints"}
       [] k = "User"              -> {"secret", "usernameFromMeta"}
       [] OTHER                   -> {"settings"}]

\* name stands for name and namespace.
References == [name : Names \cup {Unset}, connectionSecret : Secrets \cup {Unset}]

\* vaultPath is Unset without a Vault backend and "" with one that has no path.
Domain(f) ==
  CASE f = "reference"                         -> References
    [] f = "secret"                            -> Secrets \cup {Unset}
    [] f \in {"srcAddress", "destAddress"}      -> {Unset, "address"}
    [] f \in {"user", "userReference", "arguments", "endpoints"}
                                               -> Names \cup {Unset}
    [] f = "vaultPath"                         -> {Unset, ""} \cup Names
    [] f = "type"                              -> {"classic", "quorum"}
    [] f \in {"srcProtocol", "destProtocol"}    -> {"amqp091", "amqp10"}
    [] f \in {"durable", "autoDelete", "usernameFromMeta"} -> BOOLEAN
    [] OTHER                                   -> Names

Fields(k) == AddressFields[k] \cup OtherFields[k] \cup {"reference"}

\* Some complete spec to start from.
Blank(k) == [f \in Fields(k) |-> CHOOSE v \in Domain(f) : TRUE]

\* s with at most two fields changed (a bound: more at once take several steps).
Edits(k, s) ==
  UNION {{[s EXCEPT ![f] = v, ![g] = w] : v \in Domain(f), w \in Domain(g)} :
           f \in Fields(k), g \in Fields(k)}

Address(k, s) == [f \in AddressFields[k] \cup {"reference"} |-> s[f]]
--------------------------------------------------------------------------------
(***************************************************************************)
(* Validators.                                                             *)
(***************************************************************************)

\* RabbitmqClusterReference.validate: a name or a connectionSecret, not both.
ValidReference(ref) == (ref.name = Unset) # (ref.connectionSecret = Unset)

\* RabbitmqClusterReference.Matches.
Matches(old, new) ==
  old.name = new.name /\ old.connectionSecret = new.connectionSecret

\* validateSecretLabel: the cached client sees labelled Secrets only, and a miss is
\* an error whether the Secret lacks the label or does not exist.
ValidateSecretLabel(secret) == secret = Unset \/ secret \in labelled

\* Permission and TopicPermission: one of user and userReference, not both.
ValidUser(s) == (s["user"] = Unset) # (s["userReference"] = Unset)

\* amqp10Validate.
Amqp10Validate(s) ==
  /\ s["srcProtocol"] = "amqp10" => s["srcAddress"] # Unset
  /\ s["destProtocol"] = "amqp10" => s["destAddress"] # Unset

\* validateSecret of SchemaReplication.
ValidateSecret(s) ==
  s["vaultPath"] # Unset => s["vaultPath"] # "" /\ s["endpoints"] # Unset

\* validateUsernameFromMeta.
ValidateUsernameFromMeta(s) == ~(s["usernameFromMeta"] /\ s["secret"] # Unset)

\* The rules on a single spec that ValidateCreate and ValidateUpdate share.
ValidSpec(k, s) ==
  CASE k \in {"Permission", "TopicPermission"} -> ValidUser(s)
    [] k = "Shovel"                            -> Amqp10Validate(s)
    [] k = "SchemaReplication"                 -> ValidateSecret(s)
    [] k = "User"                              -> ValidateUsernameFromMeta(s)
    [] OTHER                                   -> TRUE

\* A quorum queue has to be durable; the rule on a Queue that is checked when it is
\* created and then holds because neither field may change.
DurableQuorum(k, s) == k = "Queue" /\ s["type"] = "quorum" => s["durable"]

HasSecret(k) == "secret" \in OtherFields[k]

ValidateCreate(k, s) ==
  /\ ValidSpec(k, s)
  /\ DurableQuorum(k, s)
  /\ HasSecret(k) => ValidateSecretLabel(s["secret"])
  /\ ValidateSecretLabel(s["reference"].connectionSecret)
  /\ ValidReference(s["reference"])

\* Mutants: a Binding's routingKey, a Queue's durable may change.
BindingFrozenLoose == {"vhost", "source", "destination", "destinationType", "arguments"}
QueueFrozenLoose == {"name", "vhost", "type", "autoDelete", "arguments"}

\* The fields that ValidateUpdate of each kind compares with the old object's, the
\* cluster reference apart.
BindingFrozen == {"vhost", "source", "destination", "destinationType", "routingKey",
                  "arguments"}
ExchangeFrozen == {"name", "vhost", "type", "autoDelete", "durable"}
QueueFrozen == {"name", "vhost", "type", "autoDelete", "durable", "arguments"}
VhostFrozen == {"name"}
PermissionFrozen == {"user", "userReference", "vhost"}
TopicPermissionFrozen == {"exchange", "user", "userReference", "vhost"}
PolicyFrozen == {"name", "vhost"}
OperatorPolicyFrozen == {"name", "vhost"}
FederationFrozen == {"name", "vhost"}
ShovelFrozen == {"name", "vhost"}
SchemaReplicationFrozen == {}
UserFrozen == {}

Frozen(k) ==
  CASE k = "Binding"           -> BindingFrozen
    [] k = "Exchange"          -> ExchangeFrozen
    [] k = "Queue"             -> QueueFrozen
    [] k = "Vhost"             -> VhostFrozen
    [] k = "Permission"        -> PermissionFrozen
    [] k = "TopicPermission"   -> TopicPermissionFrozen
    [] k = "Policy"            -> PolicyFrozen
    [] k = "OperatorPolicy"    -> OperatorPolicyFrozen
    [] k = "Federation"        -> FederationFrozen
    [] k = "Shovel"            -> ShovelFrozen
    [] k = "SchemaReplication" -> SchemaReplicationFrozen
    [] k = "User"              -> UserFrozen

\* Mutant of RulesOnUpdate: a User is checked until it is gone.
RulesOnUpdateAlways(k, s, marked) ==
  ValidSpec(k, s) /\ (HasSecret(k) => ValidateSecretLabel(s["secret"]))

\* The rules that ValidateUpdate repeats on the new spec.  Only that of User asks
\* for the deletionTimestamp first.
RulesOnUpdate(k, s, marked) ==
  \/ k = "User" /\ marked
  \/ ValidSpec(k, s) /\ (HasSecret(k) => ValidateSecretLabel(s["secret"]))

ValidateUpdate(k, old, new, marked) ==
  /\ \A f \in Frozen(k) : new[f] = old[f]
  /\ Matches(old["reference"], new["reference"])
  /\ RulesOnUpdate(k, new, marked)
--------------------------------------------------------------------------------
(***************************************************************************)
(* The life of one object.                                                 *)
(***************************************************************************)

NoCopy == [spec |-> Unset, deleting |-> FALSE]

AdmissionInit ==
  /\ kind \in Kinds
  /\ exists = FALSE
  /\ spec = Blank(kind)
  /\ deleting = FALSE
  /\ copy = NoCopy
  /\ server = {}
  /\ labelled \in SUBSET Secrets

\* The user writes the manifest, then applies it.
Draft(s) ==
  /\ ~exists
  /\ spec' = s
  /\ UNCHANGED <<kind, exists, deleting, copy, server, labelled>>

CreateObject ==
  /\ ~exists
  /\ ValidateCreate(kind, spec)
  /\ exists' = TRUE
  /\ deleting' = FALSE
  /\ UNCHANGED <<kind, spec, copy, server, labelled>>

UpdateObject(s) ==
  /\ exists
  /\ ValidateUpdate(kind, spec, s, deleting)
  /\ spec' = s
  /\ UNCHANGED <<kind, exists, deleting, copy, server, labelled>>

\* The object carries the finalizer from before its first declaration.
MarkDeleted ==
  /\ exists
  /\ ~deleting
  /\ deleting' = TRUE
  /\ UNCHANGED <<kind, exists, spec, copy, server, labelled>>

LabelSecrets(S) ==
  /\ labelled' = S
  /\ UNCHANGED <<kind, exists, spec, deleting, copy, server>>

\* Reconcile reads the object ...
Read ==
  /\ exists
  /\ copy' = [spec |-> spec, deleting |-> deleting]
  /\ UNCHANGED <<kind, exists, spec, deleting, server, labelled>>

\* ... and calls DeclareFunc or DeleteFunc with what it read,
Declare ==
  /\ copy # NoCopy
  /\ ~copy.deleting
  /\ server' = server \cup {Address(kind, copy.spec)}
  /\ copy' = NoCopy
  /\ UNCHANGED <<kind, exists, spec, deleting, labelled>>

\* after which removeFinalizer gets through if the copy is current and the webhook
\* admits the update.
Withdraw ==
  /\ copy # NoCopy
  /\ copy.deleting
  /\ server' = server \ {Address(kind, copy.spec)}
  /\ exists' = ~(copy.spec = spec /\ ValidateUpdate(kind, spec, spec, TRUE))
  /\ copy' = NoCopy
  /\ UNCHANGED <<kind, spec, deleting, labelled>>

AdmissionNext ==
  \/ \E s \in Edits(kind, spec) : Draft(s) \/ UpdateObject(s)
  \/ CreateObject \/ MarkDeleted \/ Read \/ Declare \/ Withdraw
  \/ \E S \in SUBSET Secrets : LabelSecrets(S)

AdmissionSpec == AdmissionInit /\ [][AdmissionNext]_admissionVars
--------------------------------------------------------------------------------
(***************************************************************************)
(* What is invariant.                                                      *)
(***************************************************************************)

\* A spec has the fields of its kind, a cluster reference among them.
AllFields(k, s) == DOMAIN s = Fields(k) /\ s["reference"] \in References

\* The worker reads and declares under one address for as long as the object exists.
OneAddress ==
  IF exists
  THEN /\ server \subseteq {Address(kind, spec)}
       /\ copy # NoCopy => Address(kind, copy.spec) = Address(kind, spec)
  ELSE server = {} /\ copy = NoCopy

\* The rules that held at creation hold; those on a single spec only until a User is
\* marked as deleted, from when on its webhook admits everything.
Admitted ==
  exists => /\ ValidReference(spec["reference"])
            /\ DurableQuorum(kind, spec)
            /\ (kind = "User" /\ deleting) \/ ValidSpec(kind, spec)

AdmissionInv ==
  /\ kind \in Kinds /\ exists \in BOOLEAN /\ deleting \in BOOLEAN
  /\ AllFields(kind, spec)
  /\ OneAddress
  /\ Admitted
--------------------------------------------------------------------------------
(***************************************************************************)
(* Properties.                                                             *)
(***************************************************************************)

\* What the immutable fields of the webhooks are for: although DeleteFunc computes
\* the address from the last spec, nothing stays on the server that was declared
\* from an earlier one.
DeletesWhatItDeclared == ~exists => server = {}

\* Rules that are checked only when the object is created (the reference, durable
\* quorum queues) and rules that an update could have switched off hold in every
\* spec a controller is asked to declare.
DeclaresValidSpecs ==
  exists /\ ~deleting =>
    /\ ValidReference(spec["reference"])
    /\ DurableQuorum(kind, spec)
    /\ ValidSpec(kind, spec)

\* "By that point the import secret may already be gone": the webhook lets the
\* operator remove the finalizer whatever happened to the Secrets.  Federation,
\* Shovel and SchemaReplication give no such promise, their webhooks check the
\* label of the referenced Secret on every update.
FinalizerCanGo ==
  exists /\ deleting =>
    \/ ValidateUpdate(kind, spec, spec, TRUE)
    \/ kind \in {"Federation", "Shovel", "SchemaReplication"}
================================================================================
