---------------------------- MODULE UserCredentials ----------------------------
(***************************************************************************)
(* UserReconciler: where the credentials of a User come from, and how they *)
(* get to the server.  They are generated into the Secret                  *)
(* <name>-user-credentials ("generated"), or imported from a Secret that   *)
(* the spec names ("import").  The operator reads the User and the Secrets *)
(* from informer caches that lag, each by itself; the cache of Secrets     *)
(* holds only labelled ones.                                               *)
(*                                                                         *)
(* One User; the parts of Reconcile around DeclareFunc and DeleteFunc (see *)
(* TopologyReconciler) are reduced to the read of the User, the finalizer  *)
(* it has from the start, and the write of its status.                     *)
(***************************************************************************)
EXTENDS Naturals, Functions

CONSTANTS
  Sources,        \* subset of {"random", "meta", "import"}: what users put in a spec
  GivenNames,     \* usernames in import Secrets
  KeySets,        \* the keys beside username that import Secrets have
  ImportOwners,   \* who may own the import Secret: 0 nobody, Other another User
  Other,
  MaxEdits,       \* bound: writes by people
  MaxFaults       \* bound: calls that fail

ASSUME SourcesAssumption == Sources \subseteq {"random", "meta", "import"}

ASSUME OwnersAssumption == Other \notin Nat /\ ImportOwners \subseteq {0, Other}

SecretNames == {"generated", "import"}

VARIABLES
  user, userCache,        \* the User in the API and in the cache
  secrets, secretCache,   \* the Secrets
  queued,                 \* does the User wait in the work queue?
  pc, obj, cred,          \* the worker: next call, its copy, the credentials it read
  server,                 \* users of the RabbitMQ server: username -> password
  left,                   \* history: usernames that status.username moved away from
  fresh,                  \* the number of passwords made so far
  edits, faults           \* how much of each bound is used up

userVars == <<user, userCache>>
secretVars == <<secrets, secretCache>>
worker == <<pc, obj, cred>>
bounds == <<edits, faults>>
vars == <<userVars, secretVars, queued, worker, server, left, fresh, bounds>>

\* A username is <<>> (none), metadata.name, one of GivenNames or a random one.
NoName == <<>>
MetaName == <<"meta">>
Given(n) == <<"given", n>>
Random(n) == <<"random", n>>

\* Passwords are numbered as they are made; 0 stands for a missing key.
NoCredentials == [username |-> NoName, password |-> 0, passwordHash |-> 0]

NoUser(rv, uid) == [exists |-> FALSE, rv |-> rv, uid |-> uid, source |-> "random",
                    deleting |-> FALSE, username |-> NoName, credentials |-> "none",
                    ready |-> FALSE]

NoSecret(rv) == [exists |-> FALSE, rv |-> rv, labelled |-> FALSE, owner |-> 0,
                 data |-> NoCredentials]

Init ==
  /\ user = NoUser(0, 0)
  /\ userCache = user
  /\ secrets = [s \in SecretNames |-> NoSecret(0)]
  /\ secretCache = secrets
  /\ queued = FALSE
  /\ pc = "idle"
  /\ obj = NoUser(0, 0)
  /\ cred = NoCredentials
  /\ server = <<>>
  /\ left = {}
  /\ fresh = 0
  /\ edits = 0
  /\ faults = 0

Call(c) ==
  /\ c = "ok" \/ faults < MaxFaults
  /\ faults' = IF c = "ok" THEN faults ELSE faults + 1
  /\ UNCHANGED edits

\* Mutant of Return: the error is not returned.
ReturnNil(failed) ==
  /\ pc' = "idle"
  /\ obj' = NoUser(0, 0)
  /\ cred' = NoCredentials
  /\ UNCHANGED queued

\* Reconcile returns; after an error the name goes back to the queue.
Return(failed) ==
  /\ pc' = "idle"
  /\ obj' = NoUser(0, 0)
  /\ cred' = NoCredentials
  /\ queued' = (queued \/ failed)
--------------------------------------------------------------------------------
(***************************************************************************)
(* DeclareFunc.                                                            *)
(***************************************************************************)

\* A worker reads the User from the cache.  DeclareFunc refuses usernameFromMeta
\* together with an import Secret, which the webhook does not let through.
Get ==
  /\ queued
  /\ pc = "idle"
  /\ queued' = FALSE
  /\ IF ~userCache.exists THEN UNCHANGED worker
     ELSE /\ obj' = userCache
          /\ cred' = NoCredentials
          /\ pc' = IF userCache.deleting THEN "delete"
                   ELSE IF userCache.source = "import" THEN "importCredentials"
                   ELSE "declareCredentials"
  /\ UNCHANGED <<userVars, secretVars, server, left, fresh, bounds>>

\* Is there something to make a password hash of?
Complete(c) == c.passwordHash # 0 \/ c.password # 0

\* GenerateUserSettings: passwordHash wins over password.
PasswordOf(c) == IF c.passwordHash # 0 THEN c.passwordHash ELSE c.password

\* Mutant of StatusNames: the status is written once and for all.
StatusNamesSome(c, s) == obj.username # NoName

\* Where DeclareFunc goes with credentials c from Secret s.  The status comes
\* first if it does not name both already.
StatusNames(c, s) == obj.credentials = s /\ obj.username = c.username

AfterCredentials(c, s) ==
  /\ cred' = c
  /\ pc' = IF StatusNames(c, s) THEN "putUser" ELSE "setUserStatus"

\* importCredentials, and the check for a password.
ImportCredentials ==
  LET secret == secretCache["import"] IN
  /\ pc = "importCredentials"
  /\ IF secret.exists /\ secret.data.username # NoName /\ Complete(secret.data)
     THEN AfterCredentials(secret.data, "import")
     ELSE pc' = "failed" /\ UNCHANGED cred
  /\ UNCHANGED <<userVars, secretVars, queued, obj, server, left, fresh, bounds>>

\* generateCredentials.
GenerateCredentials ==
  [username     |-> IF obj.source = "meta" THEN MetaName ELSE Random(fresh + 1),
   password     |-> fresh + 1,
   passwordHash |-> 0]

\* Mutant of Mutate: the data is part of the mutation.
MutateDataToo(secret) ==
  [secret EXCEPT !.labelled = TRUE, !.owner = obj.uid, !.data = GenerateCredentials]

\* The mutation of declareCredentials: the label and the controller reference;
\* the data only reaches a Secret that is created.
Mutate(secret) == [secret EXCEPT !.labelled = TRUE, !.owner = obj.uid]

\* declareCredentials.  CreateOrUpdate looks into the cache: what is not there it
\* creates, what is there it brings up to date unless nothing changes.  Retries on
\* conflict read the same cache.  A reference to an earlier User of the same name is
\* replaced, as is usual for owner references.
DeclareCredentials ==
  LET cached == secretCache["generated"]
      actual == secrets["generated"]
      change == Mutate(cached)
  IN
  /\ pc = "declareCredentials"
  /\ \E c \in {"ok", "error", "lost"} :
       /\ Call(c)
       /\ \/ /\ ~cached.exists
             /\ IF actual.exists \/ c = "error" THEN UNCHANGED <<secrets, fresh>>
                ELSE /\ secrets' = [secrets EXCEPT !["generated"] =
                          [exists |-> TRUE, rv |-> actual.rv + 1, labelled |-> TRUE,
                           owner |-> obj.uid, data |-> GenerateCredentials]]
                     /\ fresh' = fresh + 1
             /\ pc' = IF ~actual.exists /\ c = "ok" THEN "getUserCredentials" ELSE "failed"
          \/ /\ cached.exists /\ cached = change
             /\ c = "ok"
             /\ pc' = "getUserCredentials"
             /\ UNCHANGED <<secrets, fresh>>
          \/ /\ cached.exists /\ cached # change
             /\ secrets' =
                  IF cached.rv = actual.rv /\ c # "error"
                  THEN [secrets EXCEPT !["generated"] = [change EXCEPT !.rv = @ + 1]]
                  ELSE secrets
             /\ pc' = IF cached.rv = actual.rv /\ c = "ok" THEN "getUserCredentials"
                      ELSE "failed"
             /\ UNCHANGED fresh
  /\ UNCHANGED <<userVars, secretCache, queued, obj, cred, server, left>>

\* getUserCredentials and the checks on what it returned.
GetUserCredentials ==
  LET secret == secretCache["generated"] IN
  /\ pc = "getUserCredentials"
  /\ IF /\ secret.exists
        /\ secret.data.username # NoName
        /\ obj.source = "meta" => secret.data.username = MetaName
     THEN AfterCredentials(secret.data, "generated")
     ELSE pc' = "failed" /\ UNCHANGED cred
  /\ UNCHANGED <<userVars, secretVars, queued, obj, server, left, fresh, bounds>>

\* setUserStatus, before the server hears of the username: Status().Update carries
\* the resourceVersion that the worker read.
SetUserStatus(s) ==
  LET written == [obj EXCEPT !.username = cred.username, !.credentials = s, !.rv = @ + 1]
      current == user.exists /\ user.rv = obj.rv
  IN
  /\ pc = "setUserStatus"
  /\ s = IF obj.source = "import" THEN "import" ELSE "generated"
  /\ \E c \in {"ok", "error", "lost"} :
       /\ Call(c)
       /\ IF current /\ c # "error"
          THEN user' = written /\ left' = left \cup ({user.username} \ {NoName, cred.username})
          ELSE UNCHANGED <<user, left>>
       /\ IF current /\ c = "ok"
          THEN pc' = "putUser" /\ obj' = written
          ELSE pc' = "failed" /\ UNCHANGED obj
  /\ UNCHANGED <<userCache, secretVars, queued, cred, server, fresh>>

\* The server's users with that one added or changed.
Put(name, password) ==
  [n \in DOMAIN server \cup {name} |-> IF n = name THEN password ELSE server[n]]

\* GenerateUserSettings and PutUser.
PutUser ==
  /\ pc = "putUser"
  /\ \E c \in {"ok", "error", "lost"} :
       /\ Call(c)
       /\ server' = IF Complete(cred) /\ c # "error"
                    THEN Put(cred.username, PasswordOf(cred)) ELSE server
       /\ pc' = IF Complete(cred) /\ c = "ok" THEN "done" ELSE "failed"
  /\ UNCHANGED <<userVars, secretVars, queued, obj, cred, left, fresh>>

\* Reconcile writes what DeclareFunc came to; a conflict is ignored.
Report ==
  LET written == [obj EXCEPT !.ready = pc = "done"] IN
  /\ pc \in {"done", "failed"}
  /\ user' = IF user.exists /\ user.rv = obj.rv /\ written # user
             THEN [written EXCEPT !.rv = @ + 1] ELSE user
  /\ Return(pc = "failed")
  /\ UNCHANGED <<userCache, secretVars, server, left, fresh, bounds>>
--------------------------------------------------------------------------------
(***************************************************************************)
(* DeleteFunc and removeFinalizer.                                         *)
(***************************************************************************)

\* Nothing is deleted without a username in the status.
Delete ==
  /\ pc = "delete"
  /\ \/ /\ obj.username = NoName
        /\ pc' = "removeFinalizer"
        /\ UNCHANGED <<queued, obj, cred, server, bounds>>
     \/ /\ obj.username # NoName
        /\ \E c \in {"ok", "error", "lost"} :
             /\ Call(c)
             /\ server' = IF c = "error" THEN server
                          ELSE Restrict(server, DOMAIN server \ {obj.username})
             /\ IF c = "ok" THEN pc' = "removeFinalizer" /\ UNCHANGED <<queued, obj, cred>>
                ELSE Return(TRUE)
  /\ UNCHANGED <<userVars, secretVars, left, fresh>>

RemoveFinalizer ==
  /\ pc = "removeFinalizer"
  /\ IF user.exists /\ user.rv = obj.rv
     THEN user' = NoUser(user.rv + 1, user.uid) /\ Return(FALSE)
     ELSE Return(TRUE) /\ UNCHANGED user
  /\ UNCHANGED <<userCache, secretVars, server, left, fresh, bounds>>

Reconcile ==
  \/ ImportCredentials \/ DeclareCredentials \/ GetUserCredentials
  \/ \E s \in SecretNames : SetUserStatus(s)
  \/ PutUser \/ Report \/ Delete \/ RemoveFinalizer
--------------------------------------------------------------------------------
(***************************************************************************)
(* Watches.                                                                *)
(***************************************************************************)

DeliverUser ==
  /\ userCache # user
  /\ userCache' = user
  /\ queued' = TRUE
  /\ UNCHANGED <<user, secretVars, worker, server, left, fresh, bounds>>

\* The cache of Secrets selects by label.
Visible(s) == IF secrets[s].exists /\ secrets[s].labelled THEN secrets[s] ELSE NoSecret(0)

\* Mutant of SecretToUserRequests: only generated Secrets are looked at.
SecretToOwner(s, secret) == secret.exists /\ secret.owner \notin {0, Other}

\* secretToUserRequests: the User that owns the Secret, else those that import it.
SecretToUserRequests(s, secret) ==
  /\ secret.exists
  /\ \/ secret.owner \notin {0, Other}
     \/ secret.owner = 0 /\ s = "import" /\ userCache.exists /\ userCache.source = "import"

\* An event maps the old and the new version of the Secret.
DeliverSecret(s) ==
  /\ secretCache[s] # Visible(s)
  /\ secretCache' = [secretCache EXCEPT ![s] = Visible(s)]
  /\ queued' = (queued \/ SecretToUserRequests(s, secretCache[s])
                       \/ SecretToUserRequests(s, Visible(s)))
  /\ UNCHANGED <<userVars, secrets, worker, server, left, fresh, bounds>>
--------------------------------------------------------------------------------
(***************************************************************************)
(* People, and the garbage collector.                                      *)
(***************************************************************************)

Edit == edits < MaxEdits /\ edits' = edits + 1 /\ UNCHANGED faults

WriteUser(new) ==
  /\ Edit
  /\ user' = [new EXCEPT !.rv = user.rv + 1]
  /\ UNCHANGED <<userCache, secretVars, queued, worker, server, left, fresh>>

CreateUser(source) ==
  /\ ~user.exists
  /\ WriteUser([NoUser(0, user.uid + 1) EXCEPT !.exists = TRUE, !.source = source])

ChangeSource(source) ==
  /\ user.exists
  /\ source # user.source
  /\ WriteUser([user EXCEPT !.source = source])

DeleteUser == user.exists /\ ~user.deleting /\ WriteUser([user EXCEPT !.deleting = TRUE])

WriteSecret(s, new) ==
  /\ Edit
  /\ secrets' = [secrets EXCEPT ![s] = [new EXCEPT !.rv = secrets[s].rv + 1]]
  /\ UNCHANGED <<userVars, secretCache, queued, worker, server, left>>

\* keys are those of password and passwordHash that the Secret has.
WriteImport(name, keys, owner) ==
  /\ WriteSecret("import",
       [exists |-> TRUE, rv |-> 0, labelled |-> TRUE, owner |-> owner,
        data |-> [username     |-> name,
                  password     |-> IF "password" \in keys THEN fresh + 1 ELSE 0,
                  passwordHash |-> IF "passwordHash" \in keys THEN fresh + 2 ELSE 0]])
  /\ fresh' = fresh + 2

RotateGenerated ==
  /\ secrets["generated"].exists
  /\ WriteSecret("generated", [secrets["generated"] EXCEPT !.data.password = fresh + 1])
  /\ fresh' = fresh + 1

Relabel(s) ==
  /\ secrets[s].exists
  /\ WriteSecret(s, [secrets[s] EXCEPT !.labelled = ~@])
  /\ UNCHANGED fresh

DeleteSecret(s) ==
  /\ secrets[s].exists
  /\ WriteSecret(s, NoSecret(0))
  /\ UNCHANGED fresh

\* Kubernetes removes the generated Secret after its User.
CollectGarbage ==
  LET secret == secrets["generated"] IN
  /\ secret.exists
  /\ ~(user.exists /\ user.uid = secret.owner)
  /\ secrets' = [secrets EXCEPT !["generated"] = NoSecret(secret.rv + 1)]
  /\ UNCHANGED <<userVars, secretCache, queued, worker, server, left, fresh, bounds>>

Next ==
  \/ Get \/ Reconcile \/ DeliverUser
  \/ \E source \in Sources : CreateUser(source) \/ ChangeSource(source)
  \/ DeleteUser
  \/ \E name \in {NoName} \cup {Given(n) : n \in GivenNames},
        keys \in KeySets,
        owner \in ImportOwners : WriteImport(name, keys, owner)
  \/ RotateGenerated
  \/ \E s \in SecretNames : DeliverSecret(s) \/ Relabel(s) \/ DeleteSecret(s)
  \/ CollectGarbage

Spec == Init /\ [][Next]_vars

\* The worker goes on, the queue is served, the watches deliver.
FairSpec ==
  /\ Spec
  /\ WF_vars(Get)
  /\ WF_vars(Reconcile)
  /\ WF_vars(DeliverUser)
  /\ \A s \in SecretNames : WF_vars(DeliverSecret(s))
--------------------------------------------------------------------------------
(***************************************************************************)
(* Properties.                                                             *)
(***************************************************************************)

\* DeleteFunc takes the username from the status, so setUserStatus has to come
\* before PutUser: every user on the server is the one that the status of the User
\* names, or one the User was moved away from ("the Operator does not delete the
\* previous RabbitMQ user").  Nothing else stays behind when the User is gone.
StatusNamesServerUser ==
  \A n \in DOMAIN server : (user.exists /\ user.username = n) \/ n \in left

\* The Secret the spec asks for.
Source == IF user.source = "import" THEN Visible("import") ELSE Visible("generated")

Usable(c) ==
  /\ c.username # NoName
  /\ Complete(c)
  /\ user.source = "meta" => c.username = MetaName

\* Is what the Secret says on the server, under the username of the status?
InSync(secret) ==
  /\ secret.exists
  /\ Usable(secret.data)
  /\ secret.data.username \in DOMAIN server
  /\ server[secret.data.username] = PasswordOf(secret.data)
  /\ user.username = secret.data.username

Synced == InSync(Source)

Quiet == /\ pc = "idle"
         /\ ~queued
         /\ userCache = user
         /\ \A s \in SecretNames : secretCache[s] = Visible(s)

\* "The Operator watches this Secret and re-syncs the User's credentials to RabbitMQ
\* whenever it changes": when nothing is left to do, the server has the password
\* that is in the Secret now, under the username that is in the status.
QuietIsSynced == Quiet /\ user.exists /\ ~user.deleting => Synced

\* "credentials in the Data field are never regenerated for existing secrets": no
\* step of the operator changes the data of a Secret.
KeepsCredentials ==
  [][Reconcile => \A s \in SecretNames :
       secrets[s].exists => secrets'[s].data = secrets[s].data]_vars

\* Lag of the Secret cache after the first write, conflicts and failures only delay:
\* a User whose Secret is usable, or not yet made, gets to the server.
EventuallySynced ==
  <>[](/\ user.exists
       /\ ~user.deleting
       /\ \/ user.source # "import" /\ ~secrets["generated"].exists
          \/ Source.exists /\ Usable(Source.data)
       => Synced)
--------------------------------------------------------------------------------
(***************************************************************************)
(* What is invariant.                                                      *)
(***************************************************************************)

UserNames ==
  {NoName, MetaName} \cup ({"given"} \X GivenNames) \cup ({"random"} \X Nat)

UserRecords ==
  [exists : BOOLEAN, rv : Nat, uid : Nat, source : {"random", "meta", "import"},
   deleting : BOOLEAN, username : UserNames, credentials : {"none"} \cup SecretNames,
   ready : BOOLEAN]

CredentialRecords == [username : UserNames, password : Nat, passwordHash : Nat]

SecretRecords ==
  [exists : BOOLEAN, rv : Nat, labelled : BOOLEAN, owner : Nat \cup {Other},
   data : CredentialRecords]

\* Where the worker has credentials, where it is in DeclareFunc, where in DeleteFunc.
HasCredentials == {"setUserStatus", "putUser", "done"}
Declaring ==
  {"importCredentials", "declareCredentials", "getUserCredentials"} \cup HasCredentials
Deleting == {"delete", "removeFinalizer"}

TypeOK ==
  /\ {user, userCache, obj} \subseteq UserRecords
  /\ {secrets, secretCache} \subseteq [SecretNames -> SecretRecords]
  /\ queued \in BOOLEAN
  /\ pc \in {"idle", "failed"} \cup Declaring \cup Deleting
  /\ cred \in CredentialRecords
  /\ fresh \in Nat

\* Copies are older than the original or equal to it.
Copies ==
  /\ userCache.rv <= user.rv
  /\ userCache.rv = user.rv => userCache = user
  /\ pc # "idle" => obj.exists /\ obj.rv <= user.rv /\ (obj.rv = user.rv => obj = user)

\* The name in a copy is that of the status, or the status was moved away from it.
Followed(copy) == user.exists /\ copy.username \in left \cup {NoName, user.username}

\* The User that is declared is there, as is one the cache shows; one that is being
\* deleted is so in the cache.  At the end of a deletion only abandoned names are left.
Named ==
  /\ NoName \notin DOMAIN server
  /\ StatusNamesServerUser
  /\ userCache.exists /\ ~userCache.deleting => Followed(userCache)
  /\ pc \in Declaring \cup {"failed"} => ~obj.deleting /\ Followed(obj)
  /\ pc \in Deleting => obj.deleting /\ obj.rv <= userCache.rv
  /\ pc \in HasCredentials => cred.username # NoName
  /\ pc \in {"putUser", "done"} => obj.username = cred.username
  /\ pc = "removeFinalizer" /\ obj.rv = user.rv => DOMAIN server \subseteq left

NamesInv == TypeOK /\ Copies /\ Named

\* The cache has a Secret as it is or as it was.
SecretCopies ==
  \A s \in SecretNames :
    IF secretCache[s].exists
    THEN /\ secretCache[s].rv <= secrets[s].rv
         /\ secretCache[s].rv = secrets[s].rv => secretCache[s] = secrets[s]
    ELSE secretCache[s] = NoSecret(0)

\* Who the Secrets belong to, when no other User owns the import Secret.
Owned ==
  /\ \A u \in {user, userCache, obj} : u.exists => u.uid # 0
  /\ \A f \in {secrets, secretCache} :
       /\ f["generated"].exists => f["generated"].owner \notin {0, Other}
       /\ f["import"].exists => f["import"].owner = 0

SourceOf(u) == IF u.source = "import" THEN "import" ELSE "generated"

\* Unless the User waits in the queue, the worker has what the caches have ...
Working ==
  pc \in Declaring /\ ~queued =>
    /\ userCache.exists
    /\ userCache.source = obj.source
    /\ obj = userCache \/ obj.rv > userCache.rv
    /\ pc = "importCredentials" => obj.source = "import"
    /\ pc \in {"declareCredentials", "getUserCredentials"} => obj.source # "import"
    /\ pc \in HasCredentials =>
         /\ secretCache[SourceOf(obj)].exists
         /\ secretCache[SourceOf(obj)].data = cred
         /\ obj.source = "meta" => cred.username = MetaName
    /\ pc = "done" => /\ Complete(cred)
                      /\ cred.username \in DOMAIN server
                      /\ server[cred.username] = PasswordOf(cred)

\* ... and when it has finished, so has the server.
Settled ==
  pc = "idle" /\ ~queued /\ userCache = user /\ user.exists /\ ~user.deleting
    => InSync(secretCache[SourceOf(user)])

SyncInv == NamesInv /\ SecretCopies /\ Owned /\ Working /\ Settled
================================================================================
