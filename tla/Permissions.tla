------------------------------ MODULE Permissions ------------------------------
(***************************************************************************)
(* Permission and TopicPermission.  Their reconcilers differ in the calls  *)
(* they make, not in what they do: find the username, in the spec or in    *)
(* the status of the User that the spec refers to; make that User the      *)
(* owner; grant.  On deletion: find the username, revoke, remove the       *)
(* finalizer.  The User is read from a cache and is not watched.           *)
(*                                                                         *)
(* The User's own reconciler (see UserCredentials), garbage collection and *)
(* the server are external: users of the server take their grants with     *)
(* them.  One object and its grants are modelled, a name stands for the    *)
(* grant to that user.                                                     *)
(***************************************************************************)
EXTENDS Naturals, FiniteSets

CONSTANTS
  Names,       \* usernames
  MaxFaults,   \* bound: calls that fail
  MaxOutside   \* bound: changes of the User by people, and deletion of the object

VARIABLES
  byReference, \* spec.userReference is set, else spec.user is
  user,        \* the User; uid 0 if there is none
  userCache,   \* the User as the operator's cache has it
  permission,  \* the object
  pc, read,    \* the worker: next call, its copy of the object
  username,    \* the name it found
  queued,      \* the object is in the work queue
  accounts,    \* users on the server
  grants,      \* grants on the server
  left,        \* history: names the User had before it was given another one or deleted
  faults, outside

world == <<user, accounts, left, outside>>
vars == <<byReference, world, userCache, permission, pc, read, username, queued, grants, faults>>

NoUser == [uid |-> 0, username |-> "", deleting |-> FALSE]
Gone == [exists |-> FALSE, deleting |-> FALSE, finalizer |-> FALSE, owner |-> 0, version |-> 0]
SpecUser == CHOOSE n \in Names : TRUE

\* A Permission that was just created.
Init ==
  /\ byReference \in BOOLEAN
  /\ user = [uid |-> 1, username |-> "", deleting |-> FALSE]
  /\ userCache \in {NoUser, user}
  /\ permission = [Gone EXCEPT !.exists = TRUE, !.version = 1]
  /\ pc = "idle"
  /\ read = Gone
  /\ username = ""
  /\ queued = TRUE
  /\ accounts \in {{}, {SpecUser}}
  /\ grants = {}
  /\ left = {}
  /\ faults = 0
  /\ outside = 0

Call(c) ==
  /\ c = "ok" \/ faults < MaxFaults
  /\ faults' = IF c = "ok" THEN faults ELSE faults + 1

\* The worker returns an error and is called again; what changes the object queues it too.
Fail == pc' = "idle" /\ queued' = TRUE

Stored(p) == permission' = [p EXCEPT !.version = permission.version + 1] /\ queued' = TRUE

\* Update of the worker's copy: refused if somebody changed the object since.
Update(p, then) ==
  \E c \in {"ok", "error"} :
    /\ Call(c)
    /\ IF c = "ok" /\ permission.exists /\ permission.version = read.version
       THEN /\ pc' = then
            /\ IF p = permission
               THEN UNCHANGED <<permission, read, queued>>
               ELSE Stored(p) /\ read' = permission'
       ELSE Fail /\ UNCHANGED <<permission, read>>
--------------------------------------------------------------------------------
(***************************************************************************)
(* Reconcile, DeclareFunc, DeleteFunc.                                     *)
(***************************************************************************)

Get ==
  /\ pc = "idle"
  /\ queued
  /\ queued' = FALSE
  /\ read' = permission
  /\ pc' = IF ~permission.exists THEN "idle"
           ELSE IF permission.deleting \/ permission.finalizer THEN "findUser"
           ELSE "addFinalizer"
  /\ UNCHANGED <<byReference, world, userCache, permission, username, grants, faults>>

AddFinalizer ==
  /\ pc = "addFinalizer"
  /\ Update([read EXCEPT !.finalizer = TRUE], "findUser")
  /\ UNCHANGED <<byReference, world, userCache, username, grants>>

\* Mutant of GetUsernameFromUser: a name once found is kept.
GetUsernameFromUserOnce ==
  IF username # "" THEN username ELSE IF byReference THEN userCache.username ELSE SpecUser

\* getUsernameFromUser: a User that does not exist, or has no username yet, gives "".
GetUsernameFromUser == IF byReference THEN userCache.username ELSE SpecUser

\* Mutant of OnUserError: DeleteFunc takes a User that it cannot read for one that is gone.
OnUserErrorGone ==
  IF read.deleting THEN pc' = "removeFinalizer" /\ UNCHANGED queued ELSE Fail

\* An error other than not found ends DeclareFunc and DeleteFunc.
OnUserError == Fail

\* Both begin with the name.  Without one DeclareFunc fails, and DeleteFunc has nothing
\* to revoke.
FindUser ==
  /\ pc = "findUser"
  /\ username' = GetUsernameFromUser
  /\ \/ /\ byReference
        /\ Call("error")
        /\ OnUserError
     \/ /\ Call("ok")
        /\ \/ ~read.deleting /\ GetUsernameFromUser = "" /\ Fail
           \/ /\ ~read.deleting /\ GetUsernameFromUser # ""
              /\ pc' = IF byReference THEN "setOwner" ELSE "grant"
              /\ UNCHANGED queued
           \/ /\ read.deleting
              /\ pc' = IF GetUsernameFromUser = "" THEN "removeFinalizer" ELSE "revoke"
              /\ UNCHANGED queued
  /\ read' = IF byReference /\ ~read.deleting THEN [read EXCEPT !.owner = userCache.uid] ELSE read
  /\ UNCHANGED <<byReference, world, userCache, permission, grants>>

\* Mutant of SetControllerReference: it changes the copy and Update is forgotten.
SetControllerReferenceLocal ==
  /\ pc = "setOwner"
  /\ pc' = "grant"
  /\ UNCHANGED <<byReference, world, userCache, permission, read, username, queued, grants, faults>>

\* SetControllerReference and Update.  An earlier User of the same name is replaced as
\* owner.
SetControllerReference ==
  /\ pc = "setOwner"
  /\ Update([permission EXCEPT !.owner = read.owner], "grant")
  /\ UNCHANGED <<byReference, world, userCache, username, grants>>

\* UpdatePermissionsIn, UpdateTopicPermissionsIn: an error if the user is not there.  The
\* status written after it changes nothing here.
Grant ==
  /\ pc = "grant"
  /\ \E c \in {"ok", "error", "lost"} :
       /\ Call(c)
       /\ grants' = IF c # "error" /\ username \in accounts THEN grants \cup {username} ELSE grants
       /\ IF c = "ok" /\ username \in accounts THEN pc' = "idle" /\ UNCHANGED queued ELSE Fail
  /\ UNCHANGED <<byReference, world, userCache, permission, read, username>>

\* Mutant of Revoked: 404 is an error.
RevokedStrict(c) == c = "ok" /\ username \in grants

\* revokePermissions, clearTopicPermission: 404 is no error.
Revoked(c) == c = "ok"

Revoke ==
  /\ pc = "revoke"
  /\ \E c \in {"ok", "error", "lost"} :
       /\ Call(c)
       /\ grants' = IF c = "error" THEN grants ELSE grants \ {username}
       /\ IF Revoked(c) THEN pc' = "removeFinalizer" /\ UNCHANGED queued ELSE Fail
  /\ UNCHANGED <<byReference, world, userCache, permission, read, username>>

\* removeFinalizer of DeleteFunc: the object goes.  Reconcile then removes the finalizer
\* once more, and that fails because the object is gone.
RemoveFinalizer ==
  /\ pc = "removeFinalizer"
  /\ Update(Gone, "idle")
  /\ UNCHANGED <<byReference, world, userCache, username, grants>>

Reconcile ==
  \/ Get \/ AddFinalizer \/ FindUser \/ SetControllerReference \/ Grant \/ Revoke
  \/ RemoveFinalizer

\* Objects are reconciled every SyncPeriod, changed or not.
Resync ==
  /\ permission.exists /\ ~queued
  /\ queued' = TRUE
  /\ UNCHANGED <<byReference, world, userCache, permission, pc, read, username, grants, faults>>
--------------------------------------------------------------------------------
(***************************************************************************)
(* The User, its reconciler, and people.                                   *)
(***************************************************************************)

Worker == <<byReference, pc, read, username, faults>>

SyncUser ==
  /\ userCache # user
  /\ userCache' = user
  /\ UNCHANGED <<Worker, world, permission, queued, grants>>

Bounded == outside < MaxOutside /\ outside' = outside + 1

\* The status first gets its name, or another one (import of credentials) ...
NameUser(n) ==
  /\ user.uid # 0 /\ ~user.deleting /\ user.username # n
  /\ IF user.username = "" THEN UNCHANGED outside ELSE Bounded
  /\ user' = [user EXCEPT !.username = n]
  /\ left' = (left \cup {user.username}) \ {""}
  /\ UNCHANGED <<Worker, userCache, permission, queued, accounts, grants>>

\* ... then the server has that user ...
PutUser ==
  /\ user.uid # 0 /\ ~user.deleting /\ user.username \notin accounts \cup {""}
  /\ accounts' = accounts \cup {user.username}
  /\ UNCHANGED <<Worker, userCache, permission, queued, user, left, outside, grants>>

\* ... and a deleted User takes it away.
DeleteUser ==
  /\ user.uid # 0 /\ ~user.deleting
  /\ Bounded
  /\ user' = [user EXCEPT !.deleting = TRUE]
  /\ UNCHANGED <<Worker, userCache, permission, queued, accounts, left, grants>>

UserGone ==
  /\ user.deleting
  /\ user' = NoUser
  /\ accounts' = accounts \ {user.username}
  /\ grants' = grants \ {user.username}
  /\ left' = (left \cup {user.username}) \ {""}
  /\ UNCHANGED <<Worker, userCache, permission, queued, outside>>

RecreateUser ==
  /\ user = NoUser
  /\ Bounded
  /\ user' = [NoUser EXCEPT !.uid = 2]
  /\ UNCHANGED <<Worker, userCache, permission, queued, accounts, left, grants>>

\* The garbage collector deletes an object whose owner does not exist.
Collect ==
  /\ permission.exists /\ ~permission.deleting
  /\ permission.owner \notin {0, user.uid}
  /\ Stored([permission EXCEPT !.deleting = TRUE])
  /\ UNCHANGED <<Worker, world, userCache, grants>>

DeletePermission ==
  /\ permission.exists /\ ~permission.deleting
  /\ Bounded
  /\ Stored(IF permission.finalizer THEN [permission EXCEPT !.deleting = TRUE] ELSE Gone)
  /\ UNCHANGED <<Worker, userCache, user, accounts, left, grants>>

UserReconciler ==
  \/ user.username = "" /\ \E n \in Names : NameUser(n)
  \/ PutUser \/ UserGone

Next ==
  \/ Reconcile \/ Resync \/ SyncUser \/ Collect \/ UserReconciler
  \/ \E n \in Names : NameUser(n)
  \/ DeleteUser \/ RecreateUser \/ DeletePermission

Spec == Init /\ [][Next]_vars

\* Workers, informers, the resync of the cache and the garbage collector keep going.
FairSpec ==
  /\ Spec
  /\ WF_vars(Reconcile) /\ WF_vars(Resync) /\ WF_vars(SyncUser)
  /\ WF_vars(Collect) /\ WF_vars(UserReconciler)
--------------------------------------------------------------------------------
(***************************************************************************)
(* Properties.                                                             *)
(***************************************************************************)

\* When the object is gone, so are its grants: a stale User, a failed read of it, and
\* lost answers included.  The exception is a name that was taken from the User, or that
\* a User deleted and created again had and has: DeleteFunc looks only for the name in
\* the cache, and a worker may still hold the earlier one.
NoGrantSurvives == ~permission.exists => grants \subseteq left

\* A deleted object goes away, whatever has become of its User.
NotDeleting == ~permission.deleting

\* An object that was granted, or that has an owner from an earlier grant, is again and again
\* owned by the User that is there; if that User is deleted, it is the object that goes,
\* whether or not a User of the name is created again.
FollowedOwner ==
  byReference /\ permission.exists /\ (permission.owner # 0 \/ user.username \in grants)
  => user.uid # 0 /\ ~user.deleting /\ permission.owner = user.uid

\* An object whose User is there for good, or whose user is on the server, has its
\* grant again and again, although nothing tells the worker that the User has changed.
Granted ==
  /\ permission.exists /\ ~permission.deleting
  /\ IF byReference THEN ~user.deleting /\ user.username \in accounts
     ELSE SpecUser \in accounts
  => (IF byReference THEN user.username ELSE SpecUser) \in grants
--------------------------------------------------------------------------------
(***************************************************************************)
(* The inductive invariant.                                                *)
(***************************************************************************)

Users == [uid : Nat, username : Names \cup {""}, deleting : BOOLEAN]
Objects == [exists : BOOLEAN, deleting : BOOLEAN, finalizer : BOOLEAN, owner : Nat, version : Nat]

TypeOK ==
  /\ byReference \in BOOLEAN
  /\ user \in Users /\ userCache \in Users
  /\ permission \in Objects /\ read \in Objects

\* The worker beyond AddFinalizer.
Working == pc \in {"findUser", "setOwner", "grant", "revoke", "removeFinalizer"}

\* There is nothing to clean up before the finalizer is there, and it stays until the
\* worker removes it.
Finalized ==
  /\ pc # "idle" => read.exists
  /\ Working => permission.exists /\ permission.finalizer
  /\ permission.exists /\ (permission.deleting \/ permission.owner # 0) => permission.finalizer
  /\ permission.exists /\ ~permission.finalizer => grants = {}

\* n is a name the User had, or the one that the cache and the User have.
Known(n) == n \in left \/ (n = user.username /\ n = userCache.username)

\* Names that are not history are still what the cache says, so that DeleteFunc finds them.
NamesKnown ==
  /\ "" \notin grants
  /\ pc \in {"setOwner", "grant"} => username # ""
  /\ IF byReference
     THEN /\ userCache.username \in left \cup {"", user.username}
          /\ \A n \in grants : Known(n)
          /\ pc \in {"setOwner", "grant"} => Known(username)
     ELSE /\ grants \subseteq {SpecUser}
          /\ pc \in {"setOwner", "grant"} => username = SpecUser

\* Before the finalizer is removed, what is not history has been revoked.
Revoking ==
  /\ pc = "revoke" => grants \subseteq left \cup {username}
  /\ pc = "removeFinalizer" => grants \subseteq left

PermissionsInv == TypeOK /\ Finalized /\ NamesKnown /\ Revoking /\ NoGrantSurvives
================================================================================
