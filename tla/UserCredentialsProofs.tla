------------------------- MODULE UserCredentialsProofs -------------------------
(***************************************************************************)
(* UserCredentials, for any names, keys and bounds.                        *)
(***************************************************************************)
EXTENDS UserCredentials, TLAPS

\* Nothing is there.
LEMMA NoRecords ==
  ASSUME NEW rv \in Nat, NEW uid \in Nat
  PROVE  /\ NoUser(rv, uid) \in UserRecords
         /\ NoSecret(rv) \in SecretRecords
         /\ NoCredentials \in CredentialRecords
BY Zenon
   DEF NoUser, NoSecret, NoCredentials, UserRecords, SecretRecords, CredentialRecords, UserNames

LEMMA NamesInit ==
  ASSUME Init
  PROVE  NamesInv
<1>1. TypeOK
  BY NoRecords, Zenon DEF Init, TypeOK
<1>2. Copies
  BY NoRecords DEF Init, Copies, UserRecords, NoUser
<1>3. DOMAIN server = {}
  BY DEF Init
<1>4. Named
  BY <1>3, Zenon DEF Init, Named, NoUser, StatusNamesServerUser, Declaring, HasCredentials, Deleting
<1> QED
  BY <1>1, <1>2, <1>4, Zenon DEF NamesInv

--------------------------------------------------------------------------------
(***************************************************************************)
(* The names on the server.                                                *)
(***************************************************************************)

\* A write of the User by people.
LEMMA WriteUserKeepsNames ==
  ASSUME NamesInv, NEW new \in UserRecords, WriteUser(new),
         IF user.exists THEN new.exists /\ new.username = user.username
         ELSE new.username = NoName
  PROVE  NamesInv'
<1> USE DEF NamesInv
<1>1. /\ UNCHANGED <<userCache, secrets, secretCache, queued, pc, obj, cred, server, left, fresh>>
      /\ user' = [new EXCEPT !.rv = user.rv + 1]
  BY Zenon DEF WriteUser, secretVars, worker
<1>2. user \in UserRecords /\ userCache \in UserRecords /\ obj \in UserRecords
  BY Zenon DEF TypeOK
<1>3. /\ user' \in UserRecords
      /\ user'.rv = user.rv + 1 /\ user.rv \in Nat /\ userCache.rv \in Nat /\ obj.rv \in Nat
      /\ user.exists => user'.exists
      /\ user'.username = IF user.exists THEN user.username ELSE NoName
  BY <1>1, <1>2 DEF UserRecords
<1>4. TypeOK'
  BY <1>1, <1>3, Zenon DEF TypeOK
<1>5. Copies'
  BY <1>1, <1>3 DEF Copies
<1>6. Named'
  BY <1>1, <1>3 DEF Named, Copies, Followed, StatusNamesServerUser
<1> QED
  BY <1>4, <1>5, <1>6, Zenon

\* The worker gives up or is done: nothing changes but perhaps the User.
LEMMA ReturnKeepsNames ==
  ASSUME NamesInv, NEW failed \in BOOLEAN, Return(failed),
         UNCHANGED <<userCache, secretVars, left, fresh>>,
         UNCHANGED user \/ (user' \in UserRecords /\ user'.rv = user.rv + 1),
         StatusNamesServerUser', DOMAIN server' \subseteq DOMAIN server,
         userCache.exists /\ ~userCache.deleting => Followed(userCache)'
  PROVE  NamesInv'
<1> USE DEF NamesInv
<1>1. /\ pc' = "idle" /\ obj' = NoUser(0, 0) /\ cred' = NoCredentials
      /\ queued' \in BOOLEAN
  BY Zenon DEF Return, TypeOK
<1>2. TypeOK'
  BY <1>1, NoRecords, Zenon DEF TypeOK, secretVars
<1>3. Copies'
  BY <1>1 DEF TypeOK, Copies, UserRecords
<1>4. Named'
  BY <1>1, Zenon DEF Named, Declaring, HasCredentials, Deleting
<1> QED
  BY <1>2, <1>3, <1>4, Zenon

\* A step of the worker that only reads.
LEMMA ReadKeepsNames ==
  ASSUME NamesInv, UNCHANGED <<userVars, obj, server, left>>,
         TypeOK', pc \in Declaring,
         pc' \in Declaring \cup {"failed"},
         pc' \in HasCredentials => cred'.username # NoName,
         pc' \in {"putUser", "done"} => obj.username = cred'.username
  PROVE  NamesInv'
<1>1. pc # "idle" /\ pc' # "idle" /\ pc' \notin Deleting /\ pc' # "removeFinalizer"
  BY Zenon DEF Declaring, HasCredentials, Deleting
<1>2. Copies'
  BY <1>1, Zenon DEF NamesInv, Copies, userVars
<1>3. Named'
  BY <1>1, Zenon DEF NamesInv, Named, Followed, StatusNamesServerUser, userVars
<1> QED
  BY <1>2, <1>3, Zenon DEF NamesInv

\* Secrets are written as Secrets.
LEMMA SecretTypes ==
  ASSUME TypeOK, NEW s \in SecretNames, NEW new \in SecretRecords,
         secrets' = [secrets EXCEPT ![s] = new]
  PROVE  /\ secrets' \in [SecretNames -> SecretRecords]
         /\ secrets'[s] = new
         /\ \A t \in SecretNames \ {s} : secrets'[t] = secrets[t]
BY Zenon DEF TypeOK

\* What generateCredentials makes.
LEMMA GeneratedTypes ==
  ASSUME TypeOK
  PROVE  GenerateCredentials \in CredentialRecords
BY DEF TypeOK, GenerateCredentials, CredentialRecords, UserNames, MetaName, Random

\* What Mutate makes of the cached Secret.
LEMMA MutateTypes ==
  ASSUME TypeOK, NEW secret \in SecretRecords
  PROVE  LET change == Mutate(secret) IN
         /\ change \in SecretRecords
         /\ change.rv = secret.rv /\ change.exists = secret.exists /\ change.data = secret.data
         /\ change.owner = obj.uid
         /\ [change EXCEPT !.rv = @ + 1] \in SecretRecords
         /\ [change EXCEPT !.rv = @ + 1].rv = secret.rv + 1
         /\ [change EXCEPT !.rv = @ + 1].data = secret.data
         /\ [change EXCEPT !.rv = @ + 1].owner = obj.uid
         /\ [change EXCEPT !.rv = @ + 1].exists = secret.exists
<1> DEFINE change == Mutate(secret)
<1>1. obj.uid \in Nat
  BY Zenon DEF TypeOK, UserRecords
<1>2. change \in SecretRecords
  BY <1>1, Zenon DEF Mutate, SecretRecords
<1>3. change.rv = secret.rv /\ change.data = secret.data /\ change.owner = obj.uid
  BY <1>1, Zenon DEF Mutate, SecretRecords
<1>4. change.exists = secret.exists
  BY Zenon DEF Mutate, SecretRecords
<1> HIDE DEF change
<1>5. [change EXCEPT !.rv = @ + 1] \in SecretRecords
  BY <1>2 DEF SecretRecords
<1>6. /\ [change EXCEPT !.rv = @ + 1].rv = change.rv + 1
      /\ [change EXCEPT !.rv = @ + 1].data = change.data
      /\ [change EXCEPT !.rv = @ + 1].owner = change.owner
  BY <1>2, Zenon DEF SecretRecords
<1>7. [change EXCEPT !.rv = @ + 1].exists = change.exists
  BY <1>2, Zenon DEF SecretRecords
<1> QED
  BY <1>2, <1>3, <1>4, <1>5, <1>6, <1>7, Zenon DEF change

\* What declareCredentials does to the generated Secret: it makes one, or it brings the
\* label and the owner of the one it knows up to date.
LEMMA DeclareWrites ==
  ASSUME TypeOK, DeclareCredentials
  PROVE  /\ UNCHANGED <<user, userCache, secretCache, queued, obj, cred, server, left>>
         /\ pc = "declareCredentials" /\ pc' \in {"getUserCredentials", "failed"}
         /\ fresh' \in Nat
         /\ \/ UNCHANGED secrets
            \/ \E new \in SecretRecords :
                 /\ secrets' = [secrets EXCEPT !["generated"] = new]
                 /\ new.exists
                 /\ new.owner = obj.uid
                 /\ new.rv = secrets["generated"].rv + 1
                 /\ \/ ~secrets["generated"].exists
                    \/ /\ secretCache["generated"].exists
                       /\ secretCache["generated"].rv = secrets["generated"].rv
                       /\ new.data = secretCache["generated"].data
<1> DEFINE cached == secretCache["generated"]
           actual == secrets["generated"]
           made == [exists |-> TRUE, rv |-> actual.rv + 1, labelled |-> TRUE,
                    owner |-> obj.uid, data |-> GenerateCredentials]
           updated == [Mutate(cached) EXCEPT !.rv = @ + 1]
<1>1. UNCHANGED <<user, userCache, secretCache, queued, obj, cred, server, left>>
  BY Zenon DEF DeclareCredentials, userVars
<1>2. pc = "declareCredentials" /\ pc' \in {"getUserCredentials", "failed"}
  BY Zenon DEF DeclareCredentials
<1>3. fresh' \in Nat
  BY DEF DeclareCredentials, TypeOK
<1>4. /\ cached \in SecretRecords /\ actual \in SecretRecords /\ actual.rv \in Nat
      /\ obj.uid \in Nat
  BY Zenon DEF TypeOK, SecretNames, SecretRecords, UserRecords
<1>5. made \in SecretRecords /\ made.exists /\ made.owner = obj.uid /\ made.rv = actual.rv + 1
  BY <1>4, GeneratedTypes DEF SecretRecords
<1>6. /\ updated \in SecretRecords /\ updated.exists = cached.exists
      /\ updated.owner = obj.uid /\ updated.rv = cached.rv + 1 /\ updated.data = cached.data
  BY <1>4, MutateTypes, Zenon
<1>7. \/ UNCHANGED secrets
      \/ ~actual.exists /\ secrets' = [secrets EXCEPT !["generated"] = made]
      \/ /\ cached.exists /\ cached.rv = actual.rv
         /\ secrets' = [secrets EXCEPT !["generated"] = updated]
  BY Zenon DEF DeclareCredentials
<1> HIDE DEF made, updated
<1> QED
  BY <1>1, <1>2, <1>3, <1>5, <1>6, <1>7, Zenon

\* The worker gets the credentials.
LEMMA CredentialsKeepNames ==
  ASSUME NamesInv, ImportCredentials \/ DeclareCredentials \/ GetUserCredentials
  PROVE  NamesInv'
<1> USE DEF NamesInv
<1>1. CASE DeclareCredentials
  <2>1. TypeOK'
    BY <1>1, DeclareWrites, SecretTypes DEF TypeOK, SecretNames, Declaring
  <2> QED
    BY <1>1, <2>1, DeclareWrites, ReadKeepsNames, Zenon DEF userVars, Declaring, HasCredentials
<1>2. CASE ImportCredentials \/ GetUserCredentials
  <2>1. /\ UNCHANGED <<user, userCache, secrets, secretCache, queued, obj, server, left, fresh>>
        /\ pc \in {"importCredentials", "getUserCredentials"}
    BY <1>2, Zenon DEF ImportCredentials, GetUserCredentials, userVars, secretVars
  <2>2. \/ pc' = "failed" /\ cred' = cred
        \/ \E s \in SecretNames :
             /\ pc' = IF StatusNames(cred', s) THEN "putUser" ELSE "setUserStatus"
             /\ cred' = secretCache[s].data
             /\ cred'.username # NoName
    BY <1>2, Zenon DEF ImportCredentials, GetUserCredentials, AfterCredentials, SecretNames
  <2>3. \A s \in SecretNames : secretCache[s].data \in CredentialRecords
    BY Zenon DEF TypeOK, SecretRecords
  <2>4. TypeOK'
    BY <2>1, <2>2, <2>3, Zenon DEF TypeOK, Declaring, HasCredentials
  <2>5. pc' \in {"putUser", "done"} => obj.username = cred'.username
    BY <2>2, Zenon DEF StatusNames
  <2> QED
    BY <2>1, <2>2, <2>4, <2>5, ReadKeepsNames, Zenon DEF userVars, Declaring, HasCredentials
<1> QED
  BY <1>1, <1>2, Zenon

\* The status names the user before the server does.
LEMMA StatusKeepsNames ==
  ASSUME NamesInv, NEW s \in SecretNames, SetUserStatus(s)
  PROVE  NamesInv'
<1> USE DEF NamesInv
<1> DEFINE written == [obj EXCEPT !.username = cred.username, !.credentials = s, !.rv = @ + 1]
<1>1. /\ UNCHANGED <<userCache, secrets, secretCache, queued, cred, server, fresh>>
      /\ pc = "setUserStatus" /\ pc' \in {"putUser", "failed"}
  BY Zenon DEF SetUserStatus, secretVars
<1>2. user \in UserRecords /\ userCache \in UserRecords /\ obj \in UserRecords
  BY Zenon DEF TypeOK
<1>3. cred.username \in UserNames /\ cred.username # NoName
  BY <1>1, Zenon DEF TypeOK, CredentialRecords, Named, HasCredentials
<1>4. /\ written \in UserRecords /\ written.rv = obj.rv + 1 /\ written.username = cred.username
      /\ written.exists = obj.exists /\ written.deleting = obj.deleting
  <2> DEFINE named == [obj EXCEPT !.username = cred.username, !.credentials = s]
  <2>0. named \in UserRecords
    BY <1>2, <1>3, Zenon DEF UserRecords
  <2>1. written \in UserRecords
    <3>1. written = [named EXCEPT !.rv = @ + 1]
      OBVIOUS
    <3> HIDE DEF named, written
    <3> QED
      BY <2>0, <3>1 DEF UserRecords
  <2>2. written.rv = obj.rv + 1 /\ written.username = cred.username
    BY <1>2, Zenon DEF UserRecords
  <2>3. written.exists = obj.exists
    BY <1>2, Zenon DEF UserRecords
  <2>4. written.deleting = obj.deleting
    BY <1>2, Zenon DEF UserRecords
  <2> QED
    BY <2>1, <2>2, <2>3, <2>4, Zenon
<1>5. \/ /\ user' = user /\ left' = left /\ obj' = obj /\ pc' = "failed"
      \/ /\ user.exists /\ user.rv = obj.rv /\ user' = written
         /\ left' = left \cup ({user.username} \ {NoName, cred.username})
         /\ \/ pc' = "putUser" /\ obj' = written
            \/ pc' = "failed" /\ obj' = obj
  BY Zenon DEF SetUserStatus
<1>6. /\ user.rv \in Nat /\ userCache.rv \in Nat /\ obj.rv \in Nat
      /\ obj.exists /\ obj.rv <= user.rv /\ (obj.rv = user.rv => obj = user)
      /\ ~obj.deleting /\ Followed(obj)
  BY <1>1, <1>2, Zenon DEF UserRecords, Copies, Named, Declaring, HasCredentials
<1> HIDE DEF written
<1>7. TypeOK'
  BY <1>1, <1>4, <1>5, Zenon DEF TypeOK, Declaring, HasCredentials
<1>8. Copies'
  <2>1. obj'.exists
    BY <1>4, <1>5, <1>6, Zenon
  <2>2. /\ userCache'.rv = userCache.rv /\ userCache.rv <= user.rv
        /\ userCache.rv = user.rv => userCache = user
    BY <1>1, Zenon DEF Copies
  <2>3. CASE user' = user /\ obj' = obj
    BY <1>1, <1>6, <2>1, <2>2, <2>3, Zenon DEF Copies
  <2>4. CASE user' = written /\ user.rv = obj.rv /\ obj' \in {obj, written}
    <3>1. user'.rv = user.rv + 1
      BY <1>4, <2>4, Zenon
    <3>2. obj'.rv <= user'.rv /\ (obj'.rv = user'.rv => obj' = user')
      BY <1>6, <2>4, <3>1
    <3> QED
      BY <1>6, <2>1, <2>2, <3>1, <3>2 DEF Copies
  <2> QED
    BY <1>5, <2>3, <2>4, Zenon
<1>9. Named'
  <2>1. ASSUME NEW u, Followed(u) PROVE u.username \in left' \cup {NoName, user'.username} /\ user'.exists
    BY <1>4, <1>5, <1>6, <2>1, Zenon DEF Followed
  <2>2. Followed(userCache) => Followed(userCache)'
    BY <1>1, <2>1, Zenon DEF Followed
  <2>3. Followed(obj)'
    BY <1>4, <1>5, <1>6, <2>1, Zenon DEF Followed
  <2>4. StatusNamesServerUser'
    BY <1>1, <1>3, <1>4, <1>5, <1>6, Zenon DEF Named, StatusNamesServerUser
  <2> QED
    BY <1>1, <1>3, <1>4, <1>5, <1>6, <2>2, <2>3, <2>4, Zenon
       DEF Named, Declaring, HasCredentials, Deleting
<1> QED
  BY <1>7, <1>8, <1>9, Zenon

\* PutUser adds the user that the status names.
LEMMA PutKeepsNames ==
  ASSUME NamesInv, PutUser
  PROVE  NamesInv'
<1> USE DEF NamesInv
<1>1. /\ UNCHANGED <<user, userCache, secrets, secretCache, queued, obj, cred, left, fresh>>
      /\ pc = "putUser" /\ pc' \in {"done", "failed"}
  BY Zenon DEF PutUser, userVars, secretVars
<1>2. \/ server' = server
      \/ server' = Put(cred.username, PasswordOf(cred))
  BY Zenon DEF PutUser
<1>3. DOMAIN server' \subseteq DOMAIN server \cup {cred.username}
  BY <1>2, Zenon DEF Put
<1>4. cred.username # NoName /\ obj.username = cred.username /\ ~obj.deleting /\ Followed(obj)
  BY <1>1, Zenon DEF Named, Declaring, HasCredentials
<1>5. TypeOK'
  BY <1>1, Zenon DEF TypeOK, Declaring, HasCredentials
<1>6. Copies'
  BY <1>1, Zenon DEF Copies
<1>7. StatusNamesServerUser'
  BY <1>1, <1>3, <1>4, Zenon DEF Followed, Named, StatusNamesServerUser
<1>8. Followed(obj)' /\ (Followed(userCache) => Followed(userCache)')
  BY <1>1, <1>4, Zenon DEF Followed
<1>9. Named'
  BY <1>1, <1>3, <1>4, <1>7, <1>8, Zenon DEF Named, Declaring, HasCredentials, Deleting
<1> QED
  BY <1>5, <1>6, <1>9, Zenon

\* The report changes neither name nor existence.
LEMMA ReportKeepsNames ==
  ASSUME NamesInv, Report
  PROVE  /\ NamesInv'
         /\ UNCHANGED user \/ user'.rv = user.rv + 1
<1> USE DEF NamesInv
<1> DEFINE written == [obj EXCEPT !.ready = pc = "done"]
<1>1. user \in UserRecords /\ obj \in UserRecords
  BY Zenon DEF TypeOK
<1>2. /\ UNCHANGED <<userCache, secrets, secretCache, server, left, fresh>>
      /\ pc \in {"done", "failed"} /\ Return(pc = "failed")
      /\ \/ user' = user
         \/ user.rv = obj.rv /\ user' = [written EXCEPT !.rv = @ + 1]
  BY Zenon DEF Report, secretVars
<1>3. obj.rv = user.rv => obj = user
  BY <1>2, Zenon DEF Copies
<1>4. written \in UserRecords /\ written.rv = obj.rv /\ written.username = obj.username
  BY <1>1, Zenon DEF UserRecords
<1>5. written.exists = obj.exists
  BY <1>1, Zenon DEF UserRecords
<1> HIDE DEF written
<1>6. /\ [written EXCEPT !.rv = @ + 1] \in UserRecords
      /\ [written EXCEPT !.rv = @ + 1].rv = written.rv + 1
      /\ [written EXCEPT !.rv = @ + 1].username = written.username
  BY <1>4 DEF UserRecords
<1>7. [written EXCEPT !.rv = @ + 1].exists = written.exists
  BY <1>4, Zenon DEF UserRecords
<1>8. /\ UNCHANGED user \/ (user' \in UserRecords /\ user'.rv = user.rv + 1)
      /\ user'.username = user.username
  BY <1>2, <1>3, <1>4, <1>6, Zenon
<1>9. user'.exists = user.exists
  BY <1>2, <1>3, <1>5, <1>7, Zenon
<1>10. StatusNamesServerUser'
  BY <1>2, <1>8, <1>9, Zenon DEF Named, StatusNamesServerUser
<1>11. Followed(userCache) => Followed(userCache)'
  BY <1>2, <1>8, <1>9, Zenon DEF Followed
<1>12. userCache.exists /\ ~userCache.deleting => Followed(userCache)
  BY Zenon DEF Named
<1>13. NamesInv'
  <2> HIDE DEF NamesInv
  <2> QED
    BY <1>2, <1>8, <1>10, <1>11, <1>12, ReturnKeepsNames, Zenon DEF secretVars
<1> QED
  BY <1>8, <1>13, Zenon

\* DeleteFunc takes the name from the copy; if the copy is the User, no name of its own is
\* left on the server.
LEMMA DeleteKeepsNames ==
  ASSUME NamesInv, Delete
  PROVE  NamesInv'
<1> USE DEF NamesInv
<1>1. /\ UNCHANGED <<user, userCache, secrets, secretCache, left, fresh>>
      /\ pc = "delete"
      /\ \/ Return(TRUE)
         \/ pc' = "removeFinalizer" /\ UNCHANGED <<queued, obj, cred>>
  BY Zenon DEF Delete, userVars, secretVars
<1>2. \/ server' = server
      \/ server' = Restrict(server, DOMAIN server \ {obj.username})
  BY Zenon DEF Delete
<1>3. DOMAIN server' \subseteq DOMAIN server
  BY <1>2, Zenon DEF Restrict
<1>4. StatusNamesServerUser'
  BY <1>1, <1>3, Zenon DEF Named, StatusNamesServerUser
<1>5. CASE Return(TRUE)
  <2>1. userCache.exists /\ ~userCache.deleting => Followed(userCache)'
    BY <1>1, Zenon DEF Named, Followed
  <2> HIDE DEF NamesInv
  <2> QED
    BY <1>1, <1>3, <1>4, <1>5, <2>1, ReturnKeepsNames, Zenon DEF secretVars
<1>6. CASE pc' = "removeFinalizer" /\ UNCHANGED <<queued, obj, cred>>
  <2>1. TypeOK'
    BY <1>1, <1>6, Zenon DEF TypeOK, Deleting
  <2>2. Copies'
    BY <1>1, <1>6, Zenon DEF Copies
  <2>3. obj.rv = user.rv => DOMAIN server' \subseteq left
    <3>1. obj.username \notin DOMAIN server'
      <4>1. CASE obj.username = NoName
        BY <1>3, <4>1, Zenon DEF Named
      <4>2. CASE obj.username # NoName
        <5>1. server' = Restrict(server, DOMAIN server \ {obj.username})
          BY <1>6, <4>2, Zenon DEF Delete, Return
        <5> QED
          BY <5>1, Zenon DEF Restrict
      <4> QED
        BY <4>1, <4>2, Zenon
    <3>2. obj.rv = user.rv => obj = user
      BY <1>1, Zenon DEF Copies
    <3> QED
      BY <1>3, <3>1, <3>2, Zenon DEF Named, StatusNamesServerUser
  <2>4. Named'
    BY <1>1, <1>3, <1>4, <1>6, <2>3, Zenon DEF Named, Followed, Deleting, Declaring, HasCredentials
  <2> QED
    BY <2>1, <2>2, <2>4, Zenon
<1> QED
  BY <1>1, <1>5, <1>6, Zenon

\* The User goes after its name, and the cache knows that it is being deleted.
LEMMA FinalizerKeepsNames ==
  ASSUME NamesInv, RemoveFinalizer
  PROVE  /\ NamesInv'
         /\ UNCHANGED user \/ (~user'.exists /\ user'.rv = user.rv + 1)
<1> USE DEF NamesInv
<1>1. /\ UNCHANGED <<userCache, secrets, secretCache, server, left, fresh>>
      /\ pc = "removeFinalizer"
      /\ \/ Return(TRUE) /\ user' = user
         \/ Return(FALSE) /\ user.rv = obj.rv /\ user' = NoUser(user.rv + 1, user.uid)
  BY Zenon DEF RemoveFinalizer, secretVars
<1>2. CASE Return(TRUE) /\ user' = user
  <2>1. (userCache.exists /\ ~userCache.deleting => Followed(userCache)') /\ StatusNamesServerUser'
    BY <1>1, <1>2, Zenon DEF Named, Followed, StatusNamesServerUser
  <2> HIDE DEF NamesInv
  <2> QED
    BY <1>1, <1>2, <2>1, ReturnKeepsNames, Zenon DEF secretVars
<1>3. CASE Return(FALSE) /\ user.rv = obj.rv /\ user' = NoUser(user.rv + 1, user.uid)
  <2>1. user.rv \in Nat /\ user.uid \in Nat /\ userCache.rv \in Nat
    BY Zenon DEF TypeOK, UserRecords
  <2>2. user' \in UserRecords /\ user'.rv = user.rv + 1
    BY <1>3, <2>1, NoRecords DEF NoUser
  <2>3. ~user'.exists
    BY <1>3, Zenon DEF NoUser
  <2>4. obj = user /\ userCache = user /\ user.deleting
    BY <1>1, <1>3, <2>1 DEF Copies, Named, Deleting
  <2>5. StatusNamesServerUser'
    BY <1>1, <1>3, Zenon DEF Named, StatusNamesServerUser
  <2> HIDE DEF NamesInv
  <2> QED
    BY <1>1, <1>3, <2>2, <2>3, <2>4, <2>5, ReturnKeepsNames, Zenon DEF secretVars
<1> QED
  BY <1>1, <1>2, <1>3, Zenon

\* People, and the garbage collector, write Secrets.
PeopleWriteSecret ==
  \/ \E name \in {NoName} \cup {Given(n) : n \in GivenNames}, keys \in KeySets,
        owner \in ImportOwners : WriteImport(name, keys, owner)
  \/ RotateGenerated
  \/ \E s \in SecretNames : Relabel(s) \/ DeleteSecret(s)
  \/ CollectGarbage

\* A Secret that people write has the owner it had, or is an import Secret.
LEMMA PeopleWrite ==
  ASSUME TypeOK, PeopleWriteSecret
  PROVE  /\ UNCHANGED <<user, userCache, secretCache, queued, pc, obj, cred, server, left>>
         /\ fresh' \in Nat
         /\ \E s \in SecretNames, new \in SecretRecords :
              /\ secrets' = [secrets EXCEPT ![s] = new]
              /\ new.rv = secrets[s].rv + 1
              /\ new.exists => \/ s = "import" /\ new.owner \in ImportOwners
                               \/ secrets[s].exists /\ new.owner = secrets[s].owner
<1> DEFINE Goal == \E s \in SecretNames, new \in SecretRecords :
                     /\ secrets' = [secrets EXCEPT ![s] = new]
                     /\ new.rv = secrets[s].rv + 1
                     /\ new.exists => \/ s = "import" /\ new.owner \in ImportOwners
                                      \/ secrets[s].exists /\ new.owner = secrets[s].owner
<1>1. UNCHANGED <<user, userCache, secretCache, queued, pc, obj, cred, server, left>>
  BY Zenon DEF PeopleWriteSecret, WriteImport, RotateGenerated, Relabel, DeleteSecret,
     CollectGarbage,
         WriteSecret, userVars, worker
<1>2. fresh \in Nat /\ \A s \in SecretNames : secrets[s] \in SecretRecords /\ secrets[s].rv \in Nat
  BY Zenon DEF TypeOK, SecretRecords
<1>3. fresh' \in Nat
  <2>1. fresh' \in {fresh, fresh + 1, fresh + 2}
    BY Zenon DEF PeopleWriteSecret, WriteImport, RotateGenerated, Relabel, DeleteSecret,
       CollectGarbage
  <2> QED
    BY <1>2, <2>1
<1>4. ASSUME NEW s \in SecretNames, NEW new \in SecretRecords, WriteSecret(s, new),
             new.exists => \/ s = "import" /\ new.owner \in ImportOwners
                           \/ secrets[s].exists /\ new.owner = secrets[s].owner
      PROVE  Goal
  <2> DEFINE written == [new EXCEPT !.rv = secrets[s].rv + 1]
  <2>1. written \in SecretRecords /\ written.rv = secrets[s].rv + 1 /\ written.owner = new.owner
    BY <1>2 DEF SecretRecords
  <2>2. written.exists = new.exists
    BY Zenon DEF SecretRecords
  <2>3. secrets' = [secrets EXCEPT ![s] = written]
    BY <1>4, Zenon DEF WriteSecret
  <2> HIDE DEF written
  <2> QED
    BY <1>4, <2>1, <2>2, <2>3, Zenon
<1> HIDE DEF Goal
<1>5. ASSUME NEW name \in {NoName} \cup {Given(n) : n \in GivenNames}, NEW keys \in KeySets,
             NEW owner \in ImportOwners, WriteImport(name, keys, owner)
      PROVE  Goal
  <2> DEFINE data == [username     |-> name,
                      password     |-> IF "password" \in keys THEN fresh + 1 ELSE 0,
                      passwordHash |-> IF "passwordHash" \in keys THEN fresh + 2 ELSE 0]
             new == [exists |-> TRUE, rv |-> 0, labelled |-> TRUE, owner |-> owner, data |-> data]
  <2>1. name \in UserNames
    BY DEF UserNames, Given
  <2>2. data \in CredentialRecords
    BY <1>2, <2>1 DEF CredentialRecords
  <2>3. new \in SecretRecords /\ new.owner = owner
    BY <2>2, OwnersAssumption DEF SecretRecords
  <2>4. WriteSecret("import", new)
    BY <1>5, Zenon DEF WriteImport
  <2> HIDE DEF new
  <2> QED
    BY <1>4, <2>3, <2>4, Zenon DEF SecretNames
<1>6. ASSUME RotateGenerated PROVE Goal
  <2> DEFINE secret == secrets["generated"]
             new == [secret EXCEPT !.data.password = fresh + 1]
  <2>1. secret \in SecretRecords /\ secret.data \in CredentialRecords
    BY <1>2, Zenon DEF SecretNames, SecretRecords
  <2>2. [secret.data EXCEPT !.password = fresh + 1] \in CredentialRecords
    BY <1>2, <2>1 DEF CredentialRecords
  <2>3. new = [secret EXCEPT !.data = [secret.data EXCEPT !.password = fresh + 1]]
    OBVIOUS
  <2>4. new \in SecretRecords /\ new.owner = secret.owner
    BY <2>1, <2>2, <2>3, Zenon DEF SecretRecords
  <2>5. secret.exists /\ WriteSecret("generated", new)
    BY <1>6, Zenon DEF RotateGenerated
  <2>6. "generated" \in SecretNames
    BY Zenon DEF SecretNames
  <2> HIDE DEF new
  <2> QED
    BY <1>4, <2>4, <2>5, <2>6, Zenon
<1>7. ASSUME NEW s \in SecretNames, Relabel(s) PROVE Goal
  <2> DEFINE new == [secrets[s] EXCEPT !.labelled = ~@]
  <2>1. new \in SecretRecords /\ new.owner = secrets[s].owner
    BY <1>2, Zenon DEF SecretRecords
  <2>2. secrets[s].exists /\ WriteSecret(s, new)
    BY <1>7, Zenon DEF Relabel
  <2> HIDE DEF new
  <2> QED
    BY <1>4, <2>1, <2>2, Zenon
<1>8. ASSUME NEW s \in SecretNames, DeleteSecret(s) PROVE Goal
  <2>1. NoSecret(0) \in SecretRecords /\ ~NoSecret(0).exists
    BY NoRecords, Zenon DEF NoSecret
  <2> QED
    BY <1>4, <1>8, <2>1, Zenon DEF DeleteSecret
<1>9. ASSUME CollectGarbage PROVE Goal
  <2>1. /\ NoSecret(secrets["generated"].rv + 1) \in SecretRecords
        /\ ~NoSecret(secrets["generated"].rv + 1).exists
        /\ NoSecret(secrets["generated"].rv + 1).rv = secrets["generated"].rv + 1
    BY <1>2, NoRecords DEF NoSecret, SecretNames
  <2>2. secrets' = [secrets EXCEPT !["generated"] = NoSecret(secrets["generated"].rv + 1)]
    BY <1>9, Zenon DEF CollectGarbage
  <2> QED
    BY <2>1, <2>2, Zenon DEF Goal, SecretNames
<1> QED
  BY <1>1, <1>3, <1>5, <1>6, <1>7, <1>8, <1>9, Zenon DEF PeopleWriteSecret, Goal

\* Whatever becomes of the Secrets and the queue.
LEMMA OthersKeepNames ==
  ASSUME NamesInv, UNCHANGED <<user, userCache, pc, obj, cred, server, left>>, TypeOK'
  PROVE  NamesInv'
BY DEF NamesInv, Copies, Named, Followed, StatusNamesServerUser

\* People write Users.
LEMMA PeopleWriteUser ==
  ASSUME NamesInv,
         \/ \E source \in Sources : CreateUser(source) \/ ChangeSource(source)
         \/ DeleteUser
  PROVE  \E new \in UserRecords :
           /\ WriteUser(new)
           /\ IF user.exists THEN new.exists /\ new.username = user.username
              ELSE new.username = NoName
           /\ IF user.exists THEN new.uid = user.uid ELSE new.uid # 0
<1>1. user \in UserRecords
  BY Zenon DEF NamesInv, TypeOK
<1>2. ASSUME NEW source \in Sources, CreateUser(source)
      PROVE  \E new \in UserRecords : WriteUser(new) /\ new.username = NoName /\ new.uid = user.uid + 1
  <2>1. [NoUser(0, user.uid + 1) EXCEPT !.exists = TRUE, !.source = source] \in UserRecords
    <3>1. user.uid + 1 \in Nat
      BY <1>1 DEF UserRecords
    <3>2. NoUser(0, user.uid + 1) \in UserRecords
      BY <3>1, NoRecords, Zenon
    <3> QED
      BY <3>2, SourcesAssumption, Zenon DEF UserRecords
  <2>2. /\ [NoUser(0, user.uid + 1) EXCEPT !.exists = TRUE, !.source = source].username = NoName
        /\ [NoUser(0, user.uid + 1) EXCEPT !.exists = TRUE, !.source = source].uid = user.uid + 1
    BY Zenon DEF NoUser
  <2> QED
    BY <1>2, <2>1, <2>2, Zenon DEF CreateUser
<1>3. ASSUME NEW source \in Sources, ChangeSource(source)
      PROVE  \E new \in UserRecords :
               /\ WriteUser(new) /\ new.exists /\ new.username = user.username
               /\ new.uid = user.uid
  <2> DEFINE new == [user EXCEPT !.source = source]
  <2>1. new \in UserRecords /\ new.username = user.username /\ new.uid = user.uid
    BY <1>1, SourcesAssumption, Zenon DEF UserRecords
  <2>2. new.exists = user.exists
    BY <1>1, Zenon DEF UserRecords
  <2> QED
    BY <1>3, <2>1, <2>2, Zenon DEF ChangeSource
<1>4. ASSUME DeleteUser
      PROVE  \E new \in UserRecords :
               /\ WriteUser(new) /\ new.exists /\ new.username = user.username
               /\ new.uid = user.uid
  <2> DEFINE new == [user EXCEPT !.deleting = TRUE]
  <2>1. new \in UserRecords /\ new.username = user.username /\ new.uid = user.uid
    BY <1>1, Zenon DEF UserRecords
  <2>2. new.exists = user.exists
    BY <1>1, Zenon DEF UserRecords
  <2> QED
    BY <1>4, <2>1, <2>2, Zenon DEF DeleteUser
<1>5. user.uid \in Nat
  BY <1>1, Zenon DEF UserRecords
<1>6. ASSUME NEW source \in Sources, CreateUser(source)
      PROVE  /\ ~user.exists
             /\ \E new \in UserRecords : /\ WriteUser(new) /\ new.username = NoName
                                         /\ new.uid # 0
  <2>1. PICK new \in UserRecords : WriteUser(new) /\ new.username = NoName /\ new.uid = user.uid + 1
    BY <1>2, <1>6, Zenon
  <2>2. new.uid # 0
    BY <1>5, <2>1
  <2> QED
    BY <1>6, <2>1, <2>2, Zenon DEF CreateUser
<1> QED
  BY <1>3, <1>4, <1>6, Zenon DEF ChangeSource, DeleteUser

\* The worker takes a copy of what is in the cache.
LEMMA GetKeepsNames ==
  ASSUME NamesInv, Get
  PROVE  NamesInv'
<1> USE DEF NamesInv
<1>1. /\ UNCHANGED <<user, userCache, secrets, secretCache, server, left, fresh>>
      /\ pc = "idle" /\ queued' = FALSE
  BY Zenon DEF Get, userVars, secretVars
<1>2. CASE ~userCache.exists
  <2>1. UNCHANGED <<pc, obj, cred>>
    BY <1>2, Zenon DEF Get, worker
  <2>2. TypeOK'
    BY <1>1, <2>1, Zenon DEF TypeOK
  <2> HIDE DEF NamesInv
  <2> QED
    BY <1>1, <2>1, <2>2, OthersKeepNames, Zenon
<1>3. CASE userCache.exists
  <2>1. /\ obj' = userCache /\ cred' = NoCredentials
        /\ pc' = IF userCache.deleting THEN "delete"
                 ELSE IF userCache.source = "import" THEN "importCredentials"
                 ELSE "declareCredentials"
    BY <1>3, Zenon DEF Get
  <2>2. TypeOK'
    <3>1. pc' \in Declaring \cup Deleting
      BY <2>1, Zenon DEF Declaring, Deleting
    <3> QED
      BY <1>1, <2>1, <3>1, NoRecords, Zenon DEF TypeOK
  <2>3. Copies'
    BY <1>1, <1>3, <2>1, Zenon DEF Copies
  <2>4. userCache.rv \in Nat
    BY Zenon DEF TypeOK, UserRecords
  <2>5. pc' \notin HasCredentials /\ pc' \notin {"removeFinalizer", "failed"}
    BY <2>1, Zenon DEF HasCredentials
  <2>6. pc' \in Declaring => ~userCache.deleting
    BY <2>1, Zenon DEF Declaring, HasCredentials
  <2>7. pc' \in Deleting => userCache.deleting
    BY <2>1, Zenon DEF Deleting
  <2>8. Followed(userCache) => Followed(userCache)' /\ Followed(obj)'
    BY <1>1, <2>1, Zenon DEF Followed
  <2>9. StatusNamesServerUser' /\ NoName \notin DOMAIN server'
    BY <1>1, Zenon DEF Named, StatusNamesServerUser
  <2>10. userCache.exists /\ ~userCache.deleting => Followed(userCache)
    BY Zenon DEF Named
  <2>11. pc' \notin {"putUser", "done"}
    BY <2>5, Zenon DEF HasCredentials
  <2>12. obj'.rv <= userCache'.rv
    BY <1>1, <2>1, <2>4
  <2>13. Named'
    BY <1>1, <1>3, <2>1, <2>5, <2>6, <2>7, <2>8, <2>9, <2>10, <2>11, <2>12, Zenon DEF Named
  <2> QED
    BY <2>2, <2>3, <2>13, Zenon
<1> QED
  BY <1>2, <1>3, Zenon

\* The cache catches up.
LEMMA DeliverKeepsNames ==
  ASSUME NamesInv, DeliverUser
  PROVE  NamesInv'
<1> USE DEF NamesInv
<1>1. /\ UNCHANGED <<user, secrets, secretCache, pc, obj, cred, server, left, fresh>>
      /\ userCache' = user /\ queued' = TRUE
  BY Zenon DEF DeliverUser, secretVars, worker
<1>2. user.rv \in Nat /\ userCache.rv \in Nat /\ obj.rv \in Nat
  BY Zenon DEF TypeOK, UserRecords
<1>3. TypeOK'
  BY <1>1, Zenon DEF TypeOK
<1>4. Copies'
  BY <1>1, <1>2 DEF Copies
<1>5. pc \in Deleting => obj.rv <= user.rv
  BY Zenon DEF Copies, Deleting
<1>6. Named'
  BY <1>1, <1>2, <1>5, Zenon DEF Named, Followed, StatusNamesServerUser
<1> QED
  BY <1>3, <1>4, <1>6, Zenon

\* The cache of Secrets catches up.
LEMMA VisibleTypes ==
  ASSUME TypeOK, NEW s \in SecretNames
  PROVE  /\ Visible(s) \in SecretRecords
         /\ Visible(s) = secrets[s] \/ Visible(s) = NoSecret(0)
BY NoRecords, Zenon DEF TypeOK, Visible

LEMMA DeliverSecretKeepsNames ==
  ASSUME NamesInv, NEW s \in SecretNames, DeliverSecret(s)
  PROVE  NamesInv'
<1>1. UNCHANGED <<user, userCache, secrets, pc, obj, cred, server, left, fresh>>
  BY Zenon DEF DeliverSecret, userVars, worker
<1>2. secretCache' \in [SecretNames -> SecretRecords]
  BY VisibleTypes, Zenon DEF NamesInv, TypeOK, DeliverSecret
<1>3. queued' \in BOOLEAN
  BY Zenon DEF DeliverSecret
<1>4. TypeOK'
  BY <1>1, <1>2, <1>3, Zenon DEF NamesInv, TypeOK
<1> QED
  BY <1>1, <1>4, OthersKeepNames, Zenon

\* A step is one of these.
LEMMA Steps ==
  ASSUME Next
  PROVE  \/ Get \/ Reconcile \/ DeliverUser
         \/ (\E source \in Sources : CreateUser(source) \/ ChangeSource(source)) \/ DeleteUser
         \/ PeopleWriteSecret
         \/ \E s \in SecretNames : DeliverSecret(s)
BY Zenon DEF Next, PeopleWriteSecret

LEMMA PeopleWriteSecretKeepsNames ==
  ASSUME NamesInv, PeopleWriteSecret
  PROVE  NamesInv'
<1>1. TypeOK
  BY Zenon DEF NamesInv
<1>2. TypeOK'
  BY <1>1, PeopleWrite, SecretTypes DEF TypeOK
<1> QED
  BY <1>1, <1>2, PeopleWrite, OthersKeepNames, Zenon

\* The invariant is preserved by every step.
LEMMA NamesNext ==
  ASSUME NamesInv, [Next]_vars
  PROVE  NamesInv'
<1>1. CASE Reconcile
  BY <1>1, CredentialsKeepNames, StatusKeepsNames, PutKeepsNames, ReportKeepsNames,
     DeleteKeepsNames, FinalizerKeepsNames, Zenon
     DEF Reconcile
<1>2. CASE UNCHANGED vars
  <2>1. UNCHANGED <<user, userCache, pc, obj, cred, server, left>> /\ TypeOK'
    BY <1>2, Zenon DEF vars, userVars, secretVars, worker, NamesInv, TypeOK
  <2> QED
    BY <2>1, OthersKeepNames, Zenon
<1>3. CASE (\E source \in Sources : CreateUser(source) \/ ChangeSource(source)) \/ DeleteUser
  BY <1>3, PeopleWriteUser, WriteUserKeepsNames, Zenon
<1> QED
  BY <1>1, <1>2, <1>3, Steps, GetKeepsNames, DeliverKeepsNames, PeopleWriteSecretKeepsNames,
     DeliverSecretKeepsNames, Zenon

\* setUserStatus comes before PutUser, and DeleteFunc before the finalizer goes: the status
\* names the user on the server, whatever was lost or stale, and whichever User of the name
\* it is.
THEOREM ServerUserIsNamed == Spec => []StatusNamesServerUser
<1>1. NamesInv => StatusNamesServerUser
  BY Zenon DEF NamesInv, Named
<1>2. NamesInv /\ [Next]_vars => NamesInv'
  BY NamesNext, Zenon
<1> QED
  BY <1>1, <1>2, NamesInit, PTL DEF Spec

--------------------------------------------------------------------------------
(***************************************************************************)
(* The Secrets.                                                            *)
(***************************************************************************)

LEMMA SecretsInit ==
  ASSUME Init
  PROVE  SecretCopies
BY Zenon DEF Init, SecretCopies, NoSecret

\* A write makes a new version.
LEMMA WriteKeepsCopies ==
  ASSUME TypeOK, SecretCopies, UNCHANGED secretCache,
         NEW s \in SecretNames, NEW new \in SecretRecords,
         secrets' = [secrets EXCEPT ![s] = new], new.rv = secrets[s].rv + 1
  PROVE  SecretCopies'
<1>1. \A t \in SecretNames : secretCache[t].rv \in Nat /\ secrets[t].rv \in Nat
  BY Zenon DEF TypeOK, SecretRecords
<1>2. \A t \in SecretNames : secrets'[t] = IF t = s THEN new ELSE secrets[t]
  BY SecretTypes, Zenon
<1> QED
  BY <1>1, <1>2 DEF SecretCopies

\* The invariant is preserved by every step.
LEMMA SecretsNext ==
  ASSUME NamesInv, SecretCopies, [Next]_vars
  PROVE  SecretCopies'
<1>1. TypeOK
  BY Zenon DEF NamesInv
<1>2. CASE DeclareCredentials
  <2>1. "generated" \in SecretNames
    BY Zenon DEF SecretNames
  <2>2. CASE UNCHANGED secrets
    BY <1>1, <1>2, <2>2, DeclareWrites, Zenon DEF SecretCopies
  <2>3. CASE \E new \in SecretRecords : /\ secrets' = [secrets EXCEPT !["generated"] = new]
                                        /\ new.rv = secrets["generated"].rv + 1
    BY <1>1, <1>2, <2>1, <2>3, DeclareWrites, WriteKeepsCopies, Zenon
  <2> QED
    BY <1>1, <1>2, <2>2, <2>3, DeclareWrites, Zenon
<1>3. CASE PeopleWriteSecret
  BY <1>1, <1>3, PeopleWrite, WriteKeepsCopies, Zenon
<1>4. ASSUME NEW s \in SecretNames, DeliverSecret(s) PROVE SecretCopies'
  <2>1. secrets' = secrets /\ secretCache' = [secretCache EXCEPT ![s] = Visible(s)]
    BY <1>4, Zenon DEF DeliverSecret
  <2>2. \A t \in SecretNames : secretCache'[t] = IF t = s THEN Visible(s) ELSE secretCache[t]
    BY <1>1, <2>1, Zenon DEF TypeOK
  <2>3. Visible(s).exists => Visible(s) = secrets[s]
    BY <1>1, VisibleTypes DEF NoSecret
  <2>4. ~Visible(s).exists => Visible(s) = NoSecret(0)
    BY Zenon DEF Visible
  <2>5. secrets[s].rv \in Nat
    BY <1>1, Zenon DEF TypeOK, SecretRecords
  <2> QED
    BY <2>1, <2>2, <2>3, <2>4, <2>5 DEF SecretCopies
<1>5. CASE UNCHANGED secretVars
  BY <1>5, Zenon DEF secretVars, SecretCopies
<1>6. Next => \/ UNCHANGED secretVars \/ DeclareCredentials \/ PeopleWriteSecret
              \/ \E s \in SecretNames : DeliverSecret(s)
  BY Steps, Zenon DEF Get, Reconcile, ImportCredentials, GetUserCredentials, SetUserStatus, PutUser,
     Report, Delete, RemoveFinalizer, DeliverUser, CreateUser, ChangeSource, DeleteUser, WriteUser
<1>7. UNCHANGED vars => UNCHANGED secretVars
  BY Zenon DEF vars
<1> QED
  BY <1>2, <1>3, <1>4, <1>5, <1>6, <1>7, Zenon

\* A generated password is kept: CreateOrUpdate writes a Secret that it read from the
\* cache, and only if that is the latest version of it, and creates no Secret that exists.
THEOREM CredentialsKept == Spec => KeepsCredentials
<1> DEFINE Kept == Reconcile => \A s \in SecretNames :
                     secrets[s].exists => secrets'[s].data = secrets[s].data
           Inv == NamesInv /\ SecretCopies
<1>1. ASSUME NamesInv, SecretCopies PROVE Kept
  <2>1. TypeOK
    BY <1>1, Zenon DEF NamesInv
  <2>2. CASE UNCHANGED secrets
    BY <2>2, Zenon
  <2>3. ASSUME DeclareCredentials, ~(UNCHANGED secrets), NEW s \in SecretNames, secrets[s].exists
        PROVE  secrets'[s].data = secrets[s].data
    <3>1. PICK new \in SecretRecords :
            /\ secrets' = [secrets EXCEPT !["generated"] = new]
            /\ \/ ~secrets["generated"].exists
               \/ /\ secretCache["generated"].exists
                  /\ secretCache["generated"].rv = secrets["generated"].rv
                  /\ new.data = secretCache["generated"].data
      BY <2>1, <2>3, DeclareWrites, Zenon
    <3>2. "generated" \in SecretNames
      BY Zenon DEF SecretNames
    <3>3. secrets'[s] = IF s = "generated" THEN new ELSE secrets[s]
      BY <2>1, <3>1, <3>2, SecretTypes, Zenon
    <3>4. CASE s = "generated"
      <4>1. secretCache[s] = secrets[s]
        BY <1>1, <2>3, <3>1, <3>4, Zenon DEF SecretCopies
      <4> QED
        BY <2>3, <3>1, <3>3, <3>4, <4>1, Zenon
    <3> QED
      BY <3>3, <3>4, Zenon
  <2>4. Reconcile => DeclareCredentials \/ UNCHANGED secrets
    BY Zenon DEF Reconcile, ImportCredentials, GetUserCredentials, SetUserStatus, PutUser, Report,
       Delete, RemoveFinalizer, secretVars
  <2> QED
    BY <2>2, <2>3, <2>4, Zenon
<1> HIDE DEF Kept
<1>2. Inv /\ [Next]_vars => [Kept]_vars
  BY <1>1, Zenon
<1>3. Inv /\ [Next]_vars => Inv'
  BY NamesNext, SecretsNext, Zenon
<1>4. Init => Inv
  BY NamesInit, SecretsInit, Zenon
<1> HIDE DEF Inv
<1>5. Spec => [][Kept]_vars
  BY <1>2, <1>3, <1>4, PTL DEF Spec
<1> QED
  BY <1>5, Zenon DEF Kept, KeepsCredentials

--------------------------------------------------------------------------------
(***************************************************************************)
(* The server follows the Secrets.                                         *)
(***************************************************************************)

\* Every write makes a new version of the User.
LEMMA UserChanges ==
  ASSUME NamesInv, Owned, [Next]_vars
  PROVE  \/ UNCHANGED user
         \/ (user'.rv = user.rv + 1 /\ (user'.exists => user'.uid # 0))
<1>1. {user, userCache, obj} \subseteq UserRecords
  BY Zenon DEF NamesInv, TypeOK
<1>2. CASE (\E source \in Sources : CreateUser(source) \/ ChangeSource(source)) \/ DeleteUser
  <2>1. PICK new \in UserRecords :
          WriteUser(new) /\ IF user.exists THEN new.uid = user.uid ELSE new.uid # 0
    BY <1>2, PeopleWriteUser, Zenon
  <2>2. user' = [new EXCEPT !.rv = user.rv + 1]
    BY <2>1, Zenon DEF WriteUser
  <2>3. user'.rv = user.rv + 1 /\ user'.uid = new.uid
    BY <1>1, <2>2, Zenon DEF UserRecords
  <2>4. new.uid # 0
    BY <2>1, Zenon DEF Owned
  <2> QED
    BY <2>3, <2>4, Zenon
<1>3. ASSUME NEW s \in SecretNames, SetUserStatus(s)
      PROVE  UNCHANGED user \/ (user'.rv = user.rv + 1 /\ user'.uid # 0)
  <2>1. \/ user' = user
        \/ /\ user.rv = obj.rv
           /\ user' = [obj EXCEPT !.username = cred.username, !.credentials = s, !.rv = @ + 1]
    BY <1>3, Zenon DEF SetUserStatus
  <2>2. pc # "idle"
    BY <1>3, Zenon DEF SetUserStatus
  <2>3. obj.uid # 0
    BY <2>2, Zenon DEF NamesInv, Copies, Owned
  <2> DEFINE named == [obj EXCEPT !.username = cred.username, !.credentials = s]
  <2>4. named.rv = obj.rv /\ named.uid = obj.uid
    BY <1>1, Zenon DEF UserRecords
  <2>5. \A u \in {named} : [u EXCEPT !.rv = @ + 1].rv = u.rv + 1 /\ [u EXCEPT !.rv = @ + 1].uid = u.uid
    BY <1>1, Zenon DEF UserRecords
  <2>6. user' = user \/ (user.rv = obj.rv /\ user' = [named EXCEPT !.rv = @ + 1])
    BY <2>1, Zenon
  <2> HIDE DEF named
  <2> QED
    BY <2>3, <2>4, <2>5, <2>6, Zenon
<1>4. ASSUME Report
      PROVE  UNCHANGED user \/ (user'.rv = user.rv + 1 /\ user'.uid # 0)
  <2> DEFINE written == [obj EXCEPT !.ready = pc = "done"]
  <2>1. \/ user' = user
        \/ /\ user.rv = obj.rv
           /\ user' = [written EXCEPT !.rv = @ + 1]
    BY <1>4, Zenon DEF Report
  <2>2. pc # "idle"
    BY <1>4, Zenon DEF Report
  <2>3. obj.uid # 0
    BY <2>2, Zenon DEF NamesInv, Copies, Owned
  <2>4. written \in UserRecords /\ written.rv = obj.rv /\ written.uid = obj.uid
    BY <1>1, Zenon DEF UserRecords
  <2> HIDE DEF written
  <2>5. /\ [written EXCEPT !.rv = @ + 1].rv = written.rv + 1
        /\ [written EXCEPT !.rv = @ + 1].uid = written.uid
    BY <2>4, Zenon DEF UserRecords
  <2> QED
    BY <2>1, <2>3, <2>4, <2>5, Zenon
<1>5. CASE RemoveFinalizer
  BY <1>5, FinalizerKeepsNames, Zenon
<1>6. Next => \/ UNCHANGED user \/ Report \/ RemoveFinalizer
              \/ (\E source \in Sources : CreateUser(source) \/ ChangeSource(source))
              \/ DeleteUser
              \/ \E s \in SecretNames : SetUserStatus(s)
  <2>1. PeopleWriteSecret => UNCHANGED user
    BY PeopleWrite, Zenon DEF NamesInv
  <2> QED
    BY <2>1, Steps, Zenon DEF Get, Reconcile, ImportCredentials, DeclareCredentials,
       GetUserCredentials,
       PutUser, Delete, DeliverUser, DeliverSecret, userVars
<1>7. UNCHANGED vars => UNCHANGED user
  BY Zenon DEF vars, userVars
<1> QED
  BY <1>2, <1>3, <1>4, <1>5, <1>6, <1>7, Zenon

\* What the copies of the User can become.
LEMMA CopyChanges ==
  ASSUME NamesInv, [Next]_vars
  PROVE  /\ userCache' \in {userCache, user}
         /\ obj' \in {obj, userCache, user', NoUser(0, 0)}
<1>1. UNCHANGED vars => UNCHANGED <<userCache, obj>>
  BY Zenon DEF vars, userVars, worker
<1>2. PeopleWriteSecret => UNCHANGED <<userCache, obj>>
  BY PeopleWrite, Zenon DEF NamesInv
<1>3. Next => userCache' \in {userCache, user}
  BY <1>2, Steps, Zenon DEF Get, Reconcile, ImportCredentials, DeclareCredentials,
     GetUserCredentials,
     SetUserStatus, PutUser, Report, Delete, RemoveFinalizer, DeliverUser, DeliverSecret,
     CreateUser, ChangeSource, DeleteUser, WriteUser, userVars
<1>4. Reconcile => obj' \in {obj, user', NoUser(0, 0)}
  BY Zenon DEF Reconcile, ImportCredentials, DeclareCredentials, GetUserCredentials, SetUserStatus,
     PutUser, Report, Delete, RemoveFinalizer, Return
<1>5. Next => obj' \in {obj, userCache, user', NoUser(0, 0)}
  BY <1>2, <1>4, Steps, Zenon DEF Get, DeliverUser, DeliverSecret, CreateUser, ChangeSource,
     DeleteUser, WriteUser, worker
<1> QED
  BY <1>1, <1>3, <1>5, Zenon

\* Who the Secrets belong to.
LEMMA OwnedNext ==
  ASSUME Other \notin ImportOwners, NamesInv, Owned, [Next]_vars
  PROVE  Owned'
<1> DEFINE Fits(s, secret) == secret.exists => IF s = "generated" THEN secret.owner \notin {0, Other}
                                               ELSE secret.owner = 0
<1>1. TypeOK
  BY Zenon DEF NamesInv
<1>2. \A u \in {user, userCache, obj}' : u.exists => u.uid # 0
  <2>1. user'.exists => user'.uid # 0
    BY UserChanges, Zenon DEF Owned
  <2>2. ~NoUser(0, 0).exists
    BY Zenon DEF NoUser
  <2> QED
    BY <2>1, <2>2, CopyChanges, Zenon DEF Owned
<1>3. \A s \in SecretNames : Fits(s, secrets[s]) /\ Fits(s, secretCache[s])
  BY Zenon DEF Owned, SecretNames
<1>4. \A s \in SecretNames : Fits(s, secrets'[s])
  <2>1. CASE DeclareCredentials
    <3>1. obj.uid \notin {0, Other}
      <4>1. pc # "idle"
        BY <1>1, <2>1, DeclareWrites, Zenon
      <4>2. obj.uid # 0 /\ obj.uid \in Nat
        BY <1>1, <4>1, Zenon DEF NamesInv, Copies, Owned, TypeOK, UserRecords
      <4> QED
        BY <4>2, OwnersAssumption, Zenon
    <3>2. CASE UNCHANGED secrets
      BY <1>3, <3>2, Zenon
    <3>3. CASE ~(UNCHANGED secrets)
      <4>1. PICK new \in SecretRecords : /\ secrets' = [secrets EXCEPT !["generated"] = new]
                                         /\ new.owner = obj.uid
        BY <1>1, <2>1, <3>3, DeclareWrites, Zenon
      <4>2. \A s \in SecretNames : secrets'[s] = IF s = "generated" THEN new ELSE secrets[s]
        BY <1>1, <4>1, SecretTypes, Zenon DEF SecretNames
      <4> QED
        BY <1>3, <3>1, <4>1, <4>2
    <3> QED
      BY <3>2, <3>3, Zenon
  <2>2. CASE PeopleWriteSecret
    <3>1. PICK s \in SecretNames, new \in SecretRecords :
              /\ secrets' = [secrets EXCEPT ![s] = new]
              /\ new.exists => \/ s = "import" /\ new.owner \in ImportOwners
                               \/ secrets[s].exists /\ new.owner = secrets[s].owner
      BY <1>1, <2>2, PeopleWrite, Zenon
    <3>2. \A t \in SecretNames : secrets'[t] = IF t = s THEN new ELSE secrets[t]
      BY <1>1, <3>1, SecretTypes, Zenon
    <3>3. ImportOwners \subseteq {0}
      BY OwnersAssumption, Zenon
    <3>4. Fits(s, new)
      BY <1>3, <3>1, <3>3, Zenon
    <3> QED
      BY <1>3, <3>2, <3>4, Zenon
  <2>3. CASE UNCHANGED secrets
    BY <1>3, <2>3, Zenon
  <2>4. Next => UNCHANGED secrets \/ DeclareCredentials \/ PeopleWriteSecret
    BY Steps, Zenon DEF Get, Reconcile, ImportCredentials, GetUserCredentials, SetUserStatus,
       PutUser,
       Report, Delete, RemoveFinalizer, DeliverUser, DeliverSecret, CreateUser, ChangeSource,
       DeleteUser, WriteUser, secretVars
  <2>5. UNCHANGED vars => UNCHANGED secrets
    BY Zenon DEF vars, secretVars
  <2> QED
    BY <2>1, <2>2, <2>3, <2>4, <2>5, Zenon
<1>5. \A s \in SecretNames : Fits(s, secretCache'[s])
  <2>1. ASSUME NEW s \in SecretNames, DeliverSecret(s) PROVE \A t \in SecretNames : Fits(t, secretCache'[t])
    <3>1. \A t \in SecretNames : secretCache'[t] = IF t = s THEN Visible(s) ELSE secretCache[t]
      BY <1>1, <2>1, Zenon DEF DeliverSecret, TypeOK
    <3>2. Fits(s, Visible(s))
      BY <1>1, <1>3, VisibleTypes DEF NoSecret
    <3> QED
      BY <1>3, <3>1, <3>2, Zenon
  <2>2. CASE UNCHANGED secretCache
    BY <1>3, <2>2, Zenon
  <2>3. PeopleWriteSecret => UNCHANGED secretCache
    BY <1>1, PeopleWrite, Zenon
  <2>4. Next => UNCHANGED secretCache \/ \E s \in SecretNames : DeliverSecret(s)
    BY <2>3, Steps, Zenon DEF Get, Reconcile, ImportCredentials, DeclareCredentials,
       GetUserCredentials,
       SetUserStatus, PutUser, Report, Delete, RemoveFinalizer, DeliverUser, CreateUser,
       ChangeSource, DeleteUser, WriteUser, secretVars
  <2>5. UNCHANGED vars => UNCHANGED secretCache
    BY Zenon DEF vars, secretVars
  <2> QED
    BY <2>1, <2>2, <2>4, <2>5, Zenon
<1> QED
  BY <1>2, <1>4, <1>5, Zenon DEF Owned, SecretNames

\* An event of the Secret that the User in the cache takes its credentials from wakes it.
LEMMA SecretWakes ==
  ASSUME TypeOK, SecretCopies, Owned, NEW s \in SecretNames, DeliverSecret(s), ~queued',
         userCache.exists
  PROVE  s # SourceOf(userCache)
<1>1. secretCache[s] # Visible(s)
  BY Zenon DEF DeliverSecret
<1>2. ~SecretToUserRequests(s, secretCache[s]) /\ ~SecretToUserRequests(s, Visible(s))
  BY Zenon DEF DeliverSecret
<1>3. Visible(s).exists => Visible(s) = secrets[s]
  BY VisibleTypes DEF NoSecret
<1>4. secretCache[s].exists \/ Visible(s).exists
  BY <1>1, Zenon DEF SecretCopies, Visible
<1>5. PICK secret \in {secretCache[s], secrets[s]} : secret.exists /\ ~SecretToUserRequests(s, secret)
  BY <1>2, <1>3, <1>4, Zenon
<1>6. IF s = "generated" THEN secret.owner \notin {0, Other} ELSE secret.owner = 0
  BY <1>5, Zenon DEF Owned, SecretNames
<1>7. s = "import"
  BY <1>5, <1>6, Zenon DEF SecretToUserRequests, SecretNames
<1> QED
  BY <1>5, <1>6, <1>7, Zenon DEF SecretToUserRequests, SourceOf

\* An event of a Secret leaves the Secret of the User in the cache as it is, or wakes it.
LEMMA SecretStays ==
  ASSUME TypeOK, SecretCopies, Owned, NEW s \in SecretNames, DeliverSecret(s), ~queued',
         userCache.exists
  PROVE  secretCache'[SourceOf(userCache)] = secretCache[SourceOf(userCache)]
<1>1. SourceOf(userCache) \in SecretNames
  BY Zenon DEF SourceOf, SecretNames
<1>2. secretCache' = [secretCache EXCEPT ![s] = Visible(s)]
  BY Zenon DEF DeliverSecret
<1> QED
  BY <1>1, <1>2, SecretWakes, Zenon DEF TypeOK

\* The steps that are not the worker's: the worker has what the caches have, or the User
\* is woken.
LEMMA OutsideKeepsSync ==
  ASSUME SyncInv, UNCHANGED <<pc, obj, cred, server>>,
         \/ DeliverUser
         \/ \E s \in SecretNames : DeliverSecret(s)
         \/ UNCHANGED <<userCache, secretCache, queued>>,
         UNCHANGED user \/ user'.rv = user.rv + 1
  PROVE  Working' /\ Settled'
<1>1. CASE DeliverUser
  BY <1>1, Zenon DEF DeliverUser, Working, Settled
<1>2. ASSUME NEW s \in SecretNames, DeliverSecret(s), ~queued' PROVE Working' /\ Settled'
  <2>1. UNCHANGED <<user, userCache>> /\ ~queued
    BY <1>2, Zenon DEF DeliverSecret, userVars
  <2>2. userCache.exists => secretCache'[SourceOf(userCache)] = secretCache[SourceOf(userCache)]
    BY <1>2, SecretStays, Zenon DEF SyncInv, NamesInv
  <2>3. userCache.source = obj.source => SourceOf(obj) = SourceOf(userCache)
    BY Zenon DEF SourceOf
  <2>4. SourceOf(obj)' = SourceOf(obj) /\ SourceOf(user)' = SourceOf(user)
    BY <2>1, Zenon DEF SourceOf
  <2>5. Working'
    BY <2>1, <2>2, <2>3, <2>4, Zenon DEF SyncInv, Working
  <2>6. Settled'
    <3> SUFFICES ASSUME pc' = "idle", userCache' = user', user'.exists, ~user'.deleting
                 PROVE  InSync(secretCache[SourceOf(user)])'
      BY Zenon DEF Settled
    <3>1. InSync(secretCache[SourceOf(user)])
      BY <2>1, Zenon DEF SyncInv, Settled
    <3>2. secretCache'[SourceOf(user)] = secretCache[SourceOf(user)]
      BY <2>1, <2>2, Zenon
    <3> QED
      BY <2>1, <2>4, <3>1, <3>2, Zenon DEF InSync, Usable
  <2> QED
    BY <2>5, <2>6, Zenon
<1>3. ASSUME NEW s \in SecretNames, DeliverSecret(s), queued' PROVE Working' /\ Settled'
  BY <1>3, Zenon DEF Working, Settled
<1>4. CASE UNCHANGED <<userCache, secretCache, queued>>
  <2>1. Working'
    BY <1>4, Zenon DEF SyncInv, Working, SourceOf
  <2>2. CASE UNCHANGED user
    <3>1. SourceOf(user)' = SourceOf(user)
      BY <2>2, Zenon DEF SourceOf
    <3>2. InSync(secretCache[SourceOf(user)]) => InSync(secretCache[SourceOf(user)])'
      BY <1>4, <2>2, <3>1, Zenon DEF InSync, Usable
    <3> QED
      BY <1>4, <2>1, <2>2, <3>2, Zenon DEF SyncInv, Settled
  <2>3. CASE user'.rv = user.rv + 1
    <3>1. user.rv \in Nat /\ userCache.rv \in Nat /\ userCache.rv <= user.rv
      BY Zenon DEF SyncInv, NamesInv, TypeOK, Copies, UserRecords
    <3>2. userCache' # user'
      BY <1>4, <2>3, <3>1
    <3> QED
      BY <2>1, <3>2, Zenon DEF Settled
  <2> QED
    BY <2>1, <2>2, <2>3, Zenon
<1> QED
  BY <1>1, <1>2, <1>3, <1>4, Zenon

\* The worker reads what the caches have.
LEMMA ReadingKeepsSync ==
  ASSUME SyncInv, Get \/ ImportCredentials \/ DeclareCredentials \/ GetUserCredentials
  PROVE  Working' /\ Settled'
<1>0. TypeOK
  BY Zenon DEF SyncInv, NamesInv
<1>1. CASE Get
  <2>1. UNCHANGED <<user, userCache, secretCache, server>> /\ pc = "idle"
    BY <1>1, Zenon DEF Get, userVars, secretVars
  <2>2. CASE ~userCache.exists
    <3>1. pc' = "idle"
      BY <1>1, <2>1, <2>2, Zenon DEF Get, worker
    <3> QED
      BY <2>1, <2>2, <3>1, Zenon DEF Working, Settled, Declaring, HasCredentials
  <2>3. CASE userCache.exists
    <3>1. /\ obj' = userCache
          /\ pc' = IF userCache.deleting THEN "delete"
                   ELSE IF userCache.source = "import" THEN "importCredentials"
                   ELSE "declareCredentials"
      BY <1>1, <2>3, Zenon DEF Get
    <3> QED
      BY <2>1, <2>3, <3>1, Zenon DEF Working, Settled, Declaring, HasCredentials
  <2> QED
    BY <2>2, <2>3, Zenon
<1>2. CASE DeclareCredentials
  <2>1. /\ UNCHANGED <<userCache, secretCache, queued, obj, cred, server>>
        /\ pc = "declareCredentials" /\ pc' \in {"getUserCredentials", "failed"}
    BY <1>0, <1>2, DeclareWrites, Zenon
  <2> QED
    BY <2>1, Zenon DEF SyncInv, Working, Settled, Declaring, HasCredentials
<1>3. CASE ImportCredentials \/ GetUserCredentials
  <2>1. /\ UNCHANGED <<userCache, secretCache, queued, obj, server>>
        /\ pc \in {"importCredentials", "getUserCredentials"}
        /\ pc' \in {"failed", "putUser", "setUserStatus"}
    BY <1>3, Zenon DEF ImportCredentials, GetUserCredentials, AfterCredentials, userVars, secretVars
  <2>2. ASSUME ~queued, pc' # "failed"
        PROVE  /\ secretCache[SourceOf(obj)].exists
               /\ secretCache[SourceOf(obj)].data = cred'
               /\ obj.source = "meta" => cred'.username = MetaName
    <3>1. CASE ImportCredentials
      <4>1. obj.source = "import"
        BY <2>2, <3>1, Zenon DEF ImportCredentials, SyncInv, Working, Declaring
      <4> QED
        BY <2>2, <3>1, <4>1, Zenon DEF ImportCredentials, AfterCredentials, SourceOf
    <3>2. CASE GetUserCredentials
      <4>1. obj.source # "import"
        BY <2>2, <3>2, Zenon DEF GetUserCredentials, SyncInv, Working, Declaring
      <4> QED
        BY <2>2, <3>2, <4>1, Zenon DEF GetUserCredentials, AfterCredentials, SourceOf
    <3> QED
      BY <1>3, <3>1, <3>2, Zenon
  <2>3. Settled'
    BY <2>1, Zenon DEF Settled
  <2>4. SourceOf(obj)' = SourceOf(obj)
    BY <2>1, Zenon DEF SourceOf
  <2>5. Working'
    BY <2>1, <2>2, <2>4, Zenon DEF SyncInv, Working, Declaring, HasCredentials
  <2> QED
    BY <2>3, <2>5, Zenon
<1> QED
  BY <1>1, <1>2, <1>3, Zenon

\* The status is written from the copy, and the password put on the server.
LEMMA WritingKeepsSync ==
  ASSUME SyncInv, PutUser \/ \E s \in SecretNames : SetUserStatus(s)
  PROVE  Working' /\ Settled'
<1>1. CASE PutUser
  <2>1. /\ UNCHANGED <<userCache, secretCache, queued, obj, cred>>
        /\ pc = "putUser" /\ pc' \in {"done", "failed"}
    BY <1>1, Zenon DEF PutUser, userVars, secretVars
  <2>2. ASSUME pc' = "done"
        PROVE  /\ Complete(cred)
               /\ cred.username \in DOMAIN server'
               /\ server'[cred.username] = PasswordOf(cred)
    <3>1. Complete(cred) /\ server' = Put(cred.username, PasswordOf(cred))
      BY <1>1, <2>2, Zenon DEF PutUser
    <3> QED
      BY <3>1, Zenon DEF Put
  <2>3. SourceOf(obj)' = SourceOf(obj) /\ Complete(cred)' = Complete(cred)
    BY <2>1, Zenon DEF SourceOf, Complete
  <2>4. PasswordOf(cred)' = PasswordOf(cred)
    BY <2>1, Zenon DEF PasswordOf
  <2>5. Settled'
    BY <2>1, Zenon DEF Settled
  <2>6. Working'
    BY <2>1, <2>2, <2>3, <2>4, Zenon DEF SyncInv, Working, Declaring, HasCredentials
  <2> QED
    BY <2>5, <2>6, Zenon
<1>2. ASSUME NEW s \in SecretNames, SetUserStatus(s) PROVE Working' /\ Settled'
  <2>1. /\ UNCHANGED <<userCache, secretCache, queued, cred, server>>
        /\ pc = "setUserStatus" /\ pc' \in {"putUser", "failed"}
    BY <1>2, Zenon DEF SetUserStatus, secretVars
  <2>2. Settled'
    BY <2>1, Zenon DEF Settled
  <2>3. ASSUME pc' = "putUser" PROVE obj'.rv = obj.rv + 1 /\ obj'.source = obj.source
    <3>1. obj' = [obj EXCEPT !.username = cred.username, !.credentials = s, !.rv = @ + 1]
      BY <1>2, <2>3, Zenon DEF SetUserStatus
    <3>2. obj \in UserRecords
      BY Zenon DEF SyncInv, NamesInv, TypeOK
    <3> DEFINE named == [obj EXCEPT !.username = cred.username, !.credentials = s]
    <3>3. named.rv = obj.rv /\ named.source = obj.source
      BY <3>2, Zenon DEF UserRecords
    <3>4. \A u \in {named} : /\ [u EXCEPT !.rv = @ + 1].rv = u.rv + 1
                             /\ [u EXCEPT !.rv = @ + 1].source = u.source
      BY <3>2, Zenon DEF UserRecords
    <3>5. obj' = [named EXCEPT !.rv = @ + 1]
      BY <3>1, Zenon
    <3> HIDE DEF named
    <3> QED
      BY <3>3, <3>4, <3>5, Zenon
  <2>4. ASSUME pc' = "putUser" PROVE SourceOf(obj)' = SourceOf(obj)
    BY <2>3, <2>4, Zenon DEF SourceOf
  <2>5. obj.rv \in Nat /\ userCache.rv \in Nat
    BY Zenon DEF SyncInv, NamesInv, TypeOK, UserRecords
  <2>6. Working'
    BY <2>1, <2>3, <2>4, <2>5 DEF SyncInv, Working, Declaring, HasCredentials
  <2> QED
    BY <2>2, <2>6, Zenon
<1> QED
  BY <1>1, <1>2, Zenon

\* When the worker is done, and nothing woke the User since, its copy was the User.
LEMMA EndingKeepsSync ==
  ASSUME SyncInv, Report \/ Delete \/ RemoveFinalizer
  PROVE  Working' /\ Settled'
<1>0. NamesInv /\ {user, userCache, obj} \subseteq UserRecords
  BY Zenon DEF SyncInv, NamesInv, TypeOK
<1>1. CASE Delete
  <2>1. \/ pc' = "idle" /\ queued'
        \/ pc' = "removeFinalizer"
    BY <1>1, ZenonT(30) DEF Delete, Return
  <2> QED
    BY <2>1, Zenon DEF Working, Settled, Declaring, HasCredentials
<1>2. CASE RemoveFinalizer
  <2>1. pc' = "idle" /\ (queued' \/ user' = NoUser(user.rv + 1, user.uid))
    BY <1>2, Zenon DEF RemoveFinalizer, Return
  <2>2. ~NoUser(user.rv + 1, user.uid).exists
    BY Zenon DEF NoUser
  <2> QED
    BY <2>1, <2>2, Zenon DEF Working, Settled, Declaring, HasCredentials
<1>3. CASE Report
  <2>1. /\ pc' = "idle" /\ (pc = "failed" => queued') /\ pc \in {"done", "failed"}
        /\ ~queued' => ~queued
        /\ UNCHANGED <<userCache, secretCache, server>>
    BY <1>3, ZenonT(30) DEF Report, Return, secretVars
  <2>2. Working'
    BY <2>1, Zenon DEF Working, Declaring, HasCredentials
  <2>3. Settled'
    <3> SUFFICES ASSUME ~queued', userCache' = user', user'.exists
                 PROVE  InSync(secretCache[SourceOf(user)])'
      BY Zenon DEF Settled
    <3>1. pc = "done" /\ ~queued
      BY <2>1, Zenon
    <3>2. /\ obj = userCache \/ obj.rv > userCache.rv
          /\ secretCache[SourceOf(obj)].exists
          /\ secretCache[SourceOf(obj)].data = cred
          /\ obj.source = "meta" => cred.username = MetaName
          /\ Complete(cred)
          /\ cred.username \in DOMAIN server
          /\ server[cred.username] = PasswordOf(cred)
      BY <3>1, Zenon DEF SyncInv, Working, Declaring, HasCredentials
    <3>3. cred.username # NoName /\ obj.username = cred.username
      BY <1>0, <3>1, Zenon DEF NamesInv, Named, HasCredentials
    <3>4. user' = user
      <4>1. user.rv \in Nat /\ userCache.rv \in Nat /\ userCache.rv <= user.rv
        BY <1>0, Zenon DEF NamesInv, Copies, UserRecords
      <4> QED
        BY <1>0, <1>3, <2>1, <4>1, ReportKeepsNames
    <3>5. obj = user
      <4>1. /\ user.rv \in Nat /\ userCache.rv \in Nat /\ obj.rv \in Nat /\ obj.rv <= user.rv
        BY <1>0, <3>1, Zenon DEF NamesInv, Copies, UserRecords
      <4>2. userCache = user
        BY <2>1, <3>4, Zenon
      <4> QED
        BY <3>2, <4>1, <4>2
    <3>6. secretCache'[SourceOf(user)'] = secretCache[SourceOf(obj)]
      BY <2>1, <3>4, <3>5, Zenon DEF SourceOf
    <3> QED
      BY <2>1, <3>2, <3>3, <3>4, <3>5, <3>6, Zenon DEF InSync, Usable
  <2> QED
    BY <2>2, <2>3, Zenon
<1> QED
  BY <1>1, <1>2, <1>3, Zenon

\* The invariant is preserved by every step.
LEMMA SyncNext ==
  ASSUME Other \notin ImportOwners, SyncInv, [Next]_vars
  PROVE  SyncInv'
<1>1. NamesInv /\ SecretCopies /\ Owned
  BY Zenon DEF SyncInv
<1>2. NamesInv' /\ SecretCopies' /\ Owned'
  BY <1>1, NamesNext, SecretsNext, OwnedNext, Zenon
<1>3. UNCHANGED user \/ user'.rv = user.rv + 1
  BY <1>1, UserChanges, Zenon
<1>4. CASE Get \/ Reconcile
  BY <1>4, ReadingKeepsSync, WritingKeepsSync, EndingKeepsSync, <1>2, Zenon DEF Reconcile, SyncInv
<1>5. CASE ~(Get \/ Reconcile)
  <2>1. CASE PeopleWriteSecret
    BY <1>1, <1>2, <1>3, <2>1, PeopleWrite, OutsideKeepsSync, Zenon DEF SyncInv, NamesInv
  <2>2. CASE (\E source \in Sources : CreateUser(source) \/ ChangeSource(source)) \/ DeleteUser
    <3>1. UNCHANGED <<pc, obj, cred, server, userCache, secretCache, queued>>
      BY <2>2, Zenon DEF CreateUser, ChangeSource, DeleteUser, WriteUser, worker, secretVars
    <3> QED
      BY <1>2, <1>3, <3>1, OutsideKeepsSync, Zenon DEF SyncInv
  <2>3. CASE DeliverUser \/ \E s \in SecretNames : DeliverSecret(s)
    <3>1. UNCHANGED <<pc, obj, cred, server>>
      BY <2>3, Zenon DEF DeliverUser, DeliverSecret, worker
    <3> QED
      BY <1>2, <1>3, <2>3, <3>1, OutsideKeepsSync, Zenon DEF SyncInv
  <2>4. CASE UNCHANGED vars
    <3>1. UNCHANGED <<pc, obj, cred, server, userCache, secretCache, queued>>
      BY <2>4, Zenon DEF vars, userVars, secretVars, worker
    <3> QED
      BY <1>2, <1>3, <3>1, OutsideKeepsSync, Zenon DEF SyncInv
  <2> QED
    BY <1>5, <2>1, <2>2, <2>3, <2>4, Steps, Zenon
<1> QED
  BY <1>4, <1>5, Zenon

\* The watches of Users and Secrets, with the errors that requeue, leave no password behind:
\* when nothing waits and nothing is under way, what the Secret says is on the server.
THEOREM QuietSynced ==
  ASSUME Other \notin ImportOwners
  PROVE  Spec => []QuietIsSynced
<1>1. Init => SyncInv
  <2> SUFFICES ASSUME Init PROVE SyncInv
    OBVIOUS
  <2>1. /\ pc = "idle" /\ user = NoUser(0, 0) /\ userCache = user /\ obj = user
        /\ secrets = [s \in SecretNames |-> NoSecret(0)] /\ secretCache = secrets
    BY Zenon DEF Init
  <2>2. Owned
    <3>1. ~NoUser(0, 0).exists /\ ~NoSecret(0).exists
      BY Zenon DEF NoUser, NoSecret
    <3>2. secrets["generated"] = NoSecret(0) /\ secrets["import"] = NoSecret(0)
      BY <2>1, Zenon DEF SecretNames
    <3> QED
      BY <2>1, <3>1, <3>2, ZenonT(30) DEF Owned
  <2>3. Working /\ Settled
    BY <2>1, Zenon DEF Working, Settled, Declaring, HasCredentials, NoUser
  <2> QED
    BY <2>2, <2>3, NamesInit, SecretsInit, Zenon DEF SyncInv
<1>2. SyncInv /\ [Next]_vars => SyncInv'
  BY SyncNext, Zenon
<1>3. SyncInv => QuietIsSynced
  <2> SUFFICES ASSUME SyncInv, Quiet, user.exists, ~user.deleting PROVE InSync(Source)
    BY Zenon DEF QuietIsSynced, Synced
  <2>1. InSync(secretCache[SourceOf(user)])
    BY Zenon DEF SyncInv, Settled, Quiet
  <2>2. secretCache[SourceOf(user)] = Source
    BY Zenon DEF Quiet, SourceOf, Source, SecretNames
  <2> QED
    BY <2>1, <2>2, Zenon
<1> QED
  BY <1>1, <1>2, <1>3, PTL DEF Spec
================================================================================
