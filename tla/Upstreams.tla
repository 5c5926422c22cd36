------------------------------- MODULE Upstreams -------------------------------
(***************************************************************************)
(* Federation, Shovel and SchemaReplication: objects whose declaration is  *)
(* a parameter of the server, made from the spec and from credentials that *)
(* are kept elsewhere, in a Secret or in Vault.  Nothing watches those;    *)
(* only the resync of the cache brings a change of them to the server.     *)
(*                                                                         *)
(* A federation upstream and a shovel have a parameter each.  All          *)
(* SchemaReplications of a server share one global parameter, and each     *)
(* deletes it when it goes.  The objects have a worker each.               *)
(***************************************************************************)
EXTENDS Integers

CONSTANTS
  Nil,          \* a field that is not set
  Objects,      \* the objects, all of one kind
  Width,        \* bits of an int32 of the model
  MaxFaults,    \* bound: calls that fail
  MaxOutside    \* bound: writes by people

VARIABLES
  kind,         \* the kind of the objects
  webhooks,     \* ENABLE_WEBHOOKS
  retain,       \* deletionPolicy of the objects
  object,       \* the objects
  store,        \* what the credentials are read from
  pc, read,     \* the workers: next call, copy of the object
  definition,   \* what a worker is about to put
  parameters,   \* the parameters of the server
  faults, outside

vars == <<kind, webhooks, retain, object, store, pc, read, definition, parameters, faults, outside>>
--------------------------------------------------------------------------------
(***************************************************************************)
(* The kinds.                                                              *)
(***************************************************************************)

KindsOfUpstream == {"federation", "shovel", "schemaReplication"}

\* int32(n)
Int32(n) == ((n + 2 ^ (Width - 1)) % 2 ^ Width) - 2 ^ (Width - 1)

\* FederationSpec, ShovelSpec, SchemaReplicationSpec: the fields that are converted, and
\* where the credentials are.
FederationSpecs ==
  {[from |-> "secret", reconnectDelay |-> Nil, messageTTL |-> 1],
   [from |-> "secret", reconnectDelay |-> 0, messageTTL |-> 2 ^ Width]}
ShovelSpecs == {[from |-> "secret", sourceQueueArgs |-> a] : a \in {Nil, "{a}"}}
SchemaReplicationSpecs ==
  {[from |-> b, endpoints |-> e] : b \in {"secret", "vault"}, e \in {Nil, 0}}

Specs == CASE kind = "federation" -> FederationSpecs
           [] kind = "shovel" -> ShovelSpecs
           [] OTHER -> SchemaReplicationSpecs

\* The keys that the operator looks for in the Secret.
SecretKeys == CASE kind = "federation" -> {"uri"}
                [] kind = "shovel" -> {"srcUri", "destUri"}
                [] OTHER -> {"username", "password", "endpoints"}

\* No definition, or no parameter.
None == [none |-> TRUE]

\* getUri, GenerateFederationDefinition
FederationDefinition(s, data) ==
  IF "uri" \notin data.keys THEN None
  ELSE [uri |-> data.version,
        reconnectDelay |-> IF s.reconnectDelay = Nil THEN 1 ELSE s.reconnectDelay,
        messageTTL |-> Int32(s.messageTTL)]

\* getUris
Uris(data) ==
  IF {"srcUri", "destUri"} \subseteq data.keys
  THEN [srcUri |-> data.version, destUri |-> data.version] ELSE None

\* GenerateShovelDefinition: arguments that are not set become {}.
ShovelDefinition(s, data) ==
  IF Uris(data) = None THEN None
  ELSE [uris |-> Uris(data),
        sourceQueueArgs |-> IF s.sourceQueueArgs = Nil THEN "{}" ELSE s.sourceQueueArgs]

\* GenerateSchemaReplicationParameters: the endpoints of the spec come before those of
\* the Secret.
SchemaReplicationParameters(s, data) ==
  IF ~({"username", "password"} \subseteq data.keys)
     \/ (s.endpoints = Nil /\ "endpoints" \notin data.keys)
  THEN None
  ELSE [credentials |-> data.version,
        endpoints |-> IF s.endpoints = Nil THEN data.version ELSE s.endpoints]

Definition(s, data) ==
  CASE kind = "federation" -> FederationDefinition(s, data)
    [] kind = "shovel" -> ShovelDefinition(s, data)
    [] OTHER -> SchemaReplicationParameters(s, data)

\* The parameter of an object; SchemaReplicationParameterName is the same for all.
Parameter(o) == IF kind = "schemaReplication" THEN "schema_definition_sync_upstream" ELSE o

\* validateSecret of SchemaReplication: Vault has no endpoints.
ValidateSecret(s) == kind = "schemaReplication" /\ s.from = "vault" => s.endpoints # Nil

\* validateSecretLabel, called on creation and update.
ValidateSecretLabel(s) == s.from = "secret" => store["secret"].exists

Validate(s) == webhooks => ValidateSecret(s) /\ ValidateSecretLabel(s)
--------------------------------------------------------------------------------
Gone == [exists |-> FALSE, deleting |-> FALSE, finalizer |-> FALSE, version |-> 0]
NoSecret == [exists |-> FALSE, keys |-> {}, version |-> 0]

\* Objects that share no parameter do not meet: there is one of them.
FirstObject == CHOOSE o \in Objects : TRUE

Init ==
  /\ kind \in KindsOfUpstream
  /\ webhooks \in BOOLEAN
  /\ store = [secret |-> [exists |-> TRUE, keys |-> SecretKeys, version |-> 1],
              vault |-> [exists |-> TRUE, keys |-> {"username", "password"}, version |-> 1]]
  /\ retain \in BOOLEAN /\ (retain => kind # "schemaReplication")
  /\ \E s \in {t \in Specs : Validate(t)} :
       object = [o \in Objects |-> IF o = FirstObject \/ kind = "schemaReplication"
                    THEN [exists |-> TRUE, deleting |-> FALSE, finalizer |-> FALSE,
                          version |-> 1, spec |-> s]
                    ELSE Gone]
  /\ pc = [o \in Objects |-> "idle"]
  /\ read = [o \in Objects |-> Gone]
  /\ definition = [o \in Objects |-> None]
  /\ parameters = [p \in {Parameter(o) : o \in Objects} |-> None]
  /\ faults = 0
  /\ outside = 0

Call(c) ==
  /\ c = "ok" \/ faults < MaxFaults
  /\ faults' = IF c = "ok" THEN faults ELSE faults + 1

\* Reconcile returns.
Return(o) ==
  /\ pc' = [pc EXCEPT ![o] = "idle"]
  /\ read' = [read EXCEPT ![o] = Gone]
  /\ definition' = [definition EXCEPT ![o] = None]

Go(o, step) == pc' = [pc EXCEPT ![o] = step]
--------------------------------------------------------------------------------
(***************************************************************************)
(* The workers.                                                            *)
(***************************************************************************)

\* An object is reconciled when it has changed, after an error, and every SyncPeriod: the
\* last of these makes it possible at any time, and there is no work queue here.
Get(o) ==
  /\ pc[o] = "idle"
  /\ object[o].exists
  /\ read' = [read EXCEPT ![o] = object[o]]
  /\ pc' = [pc EXCEPT ![o] = CASE object[o].deleting -> "delete"
                               [] object[o].finalizer /\ ~object[o].deleting -> "readStore"
                               [] OTHER -> "addFinalizer"]
  /\ UNCHANGED <<kind, webhooks, retain, object, store, definition, parameters, faults, outside>>

\* Update of the object by the operator: refused if its copy is old, or by the webhook.
Writable(o) == object[o].version = read[o].version /\ Validate(read[o].spec)

AddFinalizer(o) ==
  /\ pc[o] = "addFinalizer"
  /\ \E c \in {"ok", "error"} :
       /\ Call(c)
       /\ IF c = "ok" /\ Writable(o)
          THEN LET new == [read[o] EXCEPT !.finalizer = TRUE, !.version = @ + 1]
               IN  /\ object' = [object EXCEPT ![o] = new]
                   /\ read' = [read EXCEPT ![o] = new]
                   /\ Go(o, "readStore")
                   /\ UNCHANGED definition
          ELSE Return(o) /\ UNCHANGED object
  /\ UNCHANGED <<kind, webhooks, retain, store, parameters, outside>>

\* Mutant of ReadStore: what is on the server already is not declared again.
ReadStoreOnce(o) ==
  /\ pc[o] = "readStore"
  /\ LET s == read[o].spec
         data == store[s.from]
     IN  IF parameters[Parameter(o)] = None /\ data.exists /\ Definition(s, data) # None
         THEN /\ definition' = [definition EXCEPT ![o] = Definition(s, data)]
              /\ Go(o, "declare")
              /\ UNCHANGED read
         ELSE Return(o)
  /\ UNCHANGED <<kind, webhooks, retain, object, store, parameters, faults, outside>>

\* DeclareFunc reads the Secret, or Vault, and makes the definition ...
ReadStore(o) ==
  /\ pc[o] = "readStore"
  /\ LET s == read[o].spec
         data == store[s.from]
     IN  \E c \in {"ok", "error"} :
           /\ Call(c)
           /\ IF c = "ok" /\ data.exists /\ Definition(s, data) # None
              THEN /\ definition' = [definition EXCEPT ![o] = Definition(s, data)]
                   /\ Go(o, "declare")
                   /\ UNCHANGED read
              ELSE Return(o)
  /\ UNCHANGED <<kind, webhooks, retain, object, store, parameters, outside>>

\* ... and puts it: PutFederationUpstream, DeclareShovel, PutGlobalParameter.
Declare(o) ==
  /\ pc[o] = "declare"
  /\ \E c \in {"ok", "error", "lost"} :
       /\ Call(c)
       /\ parameters' = IF c = "error" THEN parameters
                        ELSE [parameters EXCEPT ![Parameter(o)] = definition[o]]
       /\ Return(o)
  /\ UNCHANGED <<kind, webhooks, retain, object, store, outside>>

\* shouldSkipDeletion; SchemaReplication has no deletionPolicy.
ShouldSkipDeletion == retain

\* Mutant of Deleted: an error is taken for 404.
DeletedAlways(o, c) == TRUE

\* validateResponseForDeletion and what DeleteFunc makes of it: 404 is no error.
Deleted(o, c) == c = "ok"

\* DeleteFunc
Delete(o) ==
  /\ pc[o] = "delete"
  /\ IF ShouldSkipDeletion
     THEN Go(o, "removeFinalizer") /\ UNCHANGED <<read, definition, parameters, faults>>
     ELSE \E c \in {"ok", "error", "lost"} :
            /\ Call(c)
            /\ parameters' = IF c = "error" THEN parameters
                             ELSE [parameters EXCEPT ![Parameter(o)] = None]
            /\ IF Deleted(o, c) THEN Go(o, "removeFinalizer") /\ UNCHANGED <<read, definition>>
               ELSE Return(o)
  /\ UNCHANGED <<kind, webhooks, retain, object, store, outside>>

RemoveFinalizer(o) ==
  /\ pc[o] = "removeFinalizer"
  /\ \E c \in {"ok", "error"} :
       /\ Call(c)
       /\ IF c = "ok" /\ Writable(o)
          THEN object' = [object EXCEPT ![o] = Gone] /\ Return(o)
          ELSE Return(o) /\ UNCHANGED object
  /\ UNCHANGED <<kind, webhooks, retain, store, parameters, outside>>

Reconcile(o) ==
  Get(o) \/ AddFinalizer(o) \/ ReadStore(o) \/ Declare(o) \/ Delete(o) \/ RemoveFinalizer(o)
--------------------------------------------------------------------------------
(***************************************************************************)
(* People.                                                                 *)
(***************************************************************************)

Outside == outside < MaxOutside /\ outside' = outside + 1
Workers == <<kind, webhooks, retain, pc, read, definition, parameters, faults>>

Edit(o) ==
  /\ object[o].exists
  /\ Outside
  /\ \E s \in Specs \ {object[o].spec} :
       /\ Validate(s)
       /\ object' = [object EXCEPT ![o].spec = s, ![o].version = @ + 1]
  /\ UNCHANGED <<Workers, store>>

DeleteObject(o) ==
  /\ object[o].exists /\ ~object[o].deleting
  /\ Outside
  /\ object' = IF object[o].finalizer
               THEN [object EXCEPT ![o].deleting = TRUE, ![o].version = @ + 1]
               ELSE [object EXCEPT ![o] = Gone]
  /\ UNCHANGED <<Workers, store>>

\* New credentials, a Secret without one of the keys, no Secret.
WriteStore ==
  /\ Outside
  /\ \/ \E k \in SecretKeys \cup {Nil} :
          store' = [store EXCEPT !["secret"] =
                      [exists |-> TRUE, keys |-> SecretKeys \ {k}, version |-> outside + 2]]
     \/ store["secret"].exists /\ store' = [store EXCEPT !["secret"] = NoSecret]
     \/ kind = "schemaReplication" /\ store' = [store EXCEPT !["vault"].version = outside + 2]
  /\ UNCHANGED <<Workers, object>>

Next ==
  \/ \E o \in Objects : Reconcile(o) \/ Edit(o) \/ DeleteObject(o)
  \/ WriteStore

Spec == Init /\ [][Next]_vars

\* The workers keep going, and the cache hands them every object each SyncPeriod.
FairSpec == Spec /\ \A o \in Objects : WF_vars(Reconcile(o))
--------------------------------------------------------------------------------
(***************************************************************************)
(* Properties.                                                             *)
(***************************************************************************)

Live(o) == object[o].exists /\ ~object[o].deleting

\* What the server should have for an object.
Wanted(o) ==
  LET data == store[object[o].spec.from]
  IN  IF data.exists THEN Definition(object[o].spec, data) ELSE None

\* Deleted objects leave no parameter behind, whatever became of their credentials and of
\* the calls: DeleteFunc has run before the finalizer goes, and no worker puts a
\* definition that it made earlier.
NoParameterSurvives ==
  \A p \in DOMAIN parameters :
    ~retain /\ (\A o \in Objects : Parameter(o) = p => ~object[o].exists) => parameters[p] = None

\* A parameter is deleted by an object that is being deleted and does not retain it.
DeletesOnDeletion ==
  \A p \in DOMAIN parameters :
    parameters[p] # None /\ parameters'[p] = None
    => ~retain /\ \E o \in Objects : Parameter(o) = p /\ object[o].exists /\ object[o].deleting

\* An object and its parameter in the sense of ObjectLifecycle; nobody else writes the
\* parameters, so that nothing is lost.
Stage(x) ==
  CASE ~x.exists -> "absent"
    [] x.exists /\ x.deleting -> "leaving"
    [] x.exists /\ ~x.deleting /\ x.finalizer -> "held"
    [] OTHER -> "fresh"

Has(d) == IF d = None THEN "none" ELSE "parameter"

Retained(o) == retain /\ ~object[o].exists /\ parameters[Parameter(o)] # None

Lifecycle == INSTANCE ObjectLifecycle WITH
  Specs <- {"parameter"}, None <- "none",
  stage <- [o \in Objects |-> Stage(object[o])],
  server <- [o \in Objects |-> Has(parameters[Parameter(o)])],
  abandoned <- [o \in Objects |-> Retained(o)], lost <- [o \in Objects |-> FALSE]

\* Federations and Shovels keep the promises of ObjectLifecycle, which TopologyReconciler
\* has with DeclareFunc and DeleteFunc as single calls, although DeclareFunc takes its time
\* to read the credentials.  SchemaReplications do not: each deletes what the others have
\* declared.
KeepsLifecycle ==
  /\ kind # "schemaReplication" => Lifecycle!Init
  /\ [][kind # "schemaReplication" => Lifecycle!Next]_(Lifecycle!vars)

\* The server has, again and again, what the spec and the credentials say, although nothing
\* reports a change of the credentials: lost calls, a Secret that was incomplete or
\* missing for a while, and the deletion of the parameter by another SchemaReplication
\* included.  Of several SchemaReplications it has that of one.
Current ==
  \A q \in Objects :
    Live(q) /\ Validate(object[q].spec) /\ Wanted(q) # None
    => \E o \in Objects : /\ Parameter(o) = Parameter(q) /\ Live(o)
                          /\ parameters[Parameter(q)] = Wanted(o)

\* A deleted object goes away.  It waits for its Secret where there are webhooks: they
\* refuse the removal of the finalizer without it.
NotDeleting ==
  \A o \in Objects : object[o].exists /\ object[o].deleting => ~Validate(object[o].spec)
--------------------------------------------------------------------------------
(***************************************************************************)
(* The inductive invariant behind NoParameterSurvives.                     *)
(*                                                                         *)
(* A parameter that is on the server has a keeper: an object of its own    *)
(* that has the finalizer and whose worker has yet to delete it.  A worker *)
(* that puts a parameter makes its object the keeper; one that deletes it  *)
(* leaves nothing to keep.                                                 *)
(***************************************************************************)

Labels == {"idle", "addFinalizer", "readStore", "declare", "delete", "removeFinalizer"}

\* The fields that an object has, whether it exists or not.
Fields(x) ==
  /\ {"exists", "deleting", "finalizer", "version"} \subseteq DOMAIN x
  /\ x.exists \in BOOLEAN /\ x.deleting \in BOOLEAN /\ x.finalizer \in BOOLEAN

TypeOK ==
  /\ pc \in [Objects -> Labels]
  /\ DOMAIN object = Objects /\ DOMAIN read = Objects /\ DOMAIN definition = Objects
  /\ DOMAIN parameters = {Parameter(o) : o \in Objects}
  /\ \A o \in Objects : Fields(object[o]) /\ Fields(read[o])

\* What a worker may rely on about its object, whatever others did since it read it.
Steady(o) ==
  /\ pc[o] # "idle" => read[o].exists
  /\ pc[o] \in {"readStore", "declare"} => object[o].exists /\ object[o].finalizer
  /\ pc[o] \in {"delete", "removeFinalizer"} => object[o].exists /\ object[o].deleting
  /\ pc[o] = "declare" => definition[o] # None

Keeps(o, p) ==
  /\ Parameter(o) = p
  /\ object[o].exists /\ object[o].finalizer
  /\ pc[o] # "removeFinalizer"

Kept ==
  ~retain => \A p \in DOMAIN parameters :
               parameters[p] # None => \E o \in Objects : Keeps(o, p)

UpstreamInv == TypeOK /\ (\A o \in Objects : Steady(o)) /\ Kept

\* What KeepsLifecycle needs besides.  The copy of a worker is the object or an older one;
\* only an object with the finalizer waits to be deleted; and a parameter that is not
\* shared is not there before the finalizer is.
Versions(o) ==
  /\ object[o].version \in Nat
  /\ object[o].exists <=> object[o].version # 0
  /\ object[o].deleting => object[o].finalizer
  /\ pc[o] # "idle" =>
       /\ read[o].version \in Nat /\ read[o].version # 0
       /\ object[o].exists => read[o].version <= object[o].version
       /\ read[o].version = object[o].version => read[o] = object[o]
  /\ pc[o] = "addFinalizer" => ~read[o].deleting /\ ~read[o].finalizer
  /\ kind # "schemaReplication" /\ object[o].exists /\ ~object[o].finalizer
     => parameters[Parameter(o)] = None

LifecycleInv == UpstreamInv /\ \A o \in Objects : Versions(o)
================================================================================
