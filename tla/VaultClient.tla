------------------------------ MODULE VaultClient ------------------------------
(***************************************************************************)
(* The Vault client of the operator: made once, on the first use, by the   *)
(* worker that comes first (sync.Once); logged in and kept logged in by a  *)
(* goroutine of its own (renewToken); used by all workers to read a        *)
(* username and a password.                                                *)
(*                                                                         *)
(* Vault itself, the expiry of tokens and the watcher that renews them are *)
(* external.  Tokens are told apart only by whether Vault accepts them:    *)
(* "none" before the first login, then "live" or "dead".                   *)
(***************************************************************************)
EXTENDS Naturals

CONSTANTS
  Workers,        \* the workers that reconcile objects with a Vault path
  MaxVaultFaults, \* bound: outages of Vault, and logins that fail for another reason
  MaxExpiries,    \* bound: tokens that expire or are revoked
  MaxWrites       \* bound: changes of the secret at the path

VARIABLES
  env,            \* environment and mounts of the process
  once,           \* createSecretStoreClientOnce: "new", "running", "done"
  client,         \* SecretClient is set
  creationError,  \* SecretClientCreationError, "" for nil
  channel,        \* firstLoginAttemptResultCh: a sequence of at most one result
  renewer,        \* renewToken: where the goroutine is
  sent,           \* sentFirstLoginAttemptErr
  resp,           \* vaultLoginResp: "nil", "renewable" or "fixed"
  token, lease,   \* the token of the client; is its renewal due?
  vault,          \* "up" or "down"
  stored,         \* the secret at the path
  at, got,        \* workers: next call, credentials read
  faults, expiries

process == <<env, once, client, creationError>>
login == <<channel, renewer, sent, resp>>
auth == <<token, lease>>
work == <<at, got>>
bounds == <<faults, expiries>>
vaultVars == <<process, login, auth, vault, stored, work, bounds>>

\* What Read finds at a path.  Values are numbered by the version of the secret, "text"
\* and "number" are Go types that the code asserts.
SecretKinds == {"error", "nil", "warnings", "nilData", "empty", "noData", "notMap", "data"}
StoredSecrets ==
  {[kind |-> k, username |-> "string", password |-> "string", version |-> 0] : k \in SecretKinds}
    \cup {[kind |-> "data", username |-> u, password |-> p, version |-> 0] :
            u \in {"string", "absent"}, p \in {"string", "number", "absent"}}

NoCredentials == [username |-> 0, password |-> 0]

Environments ==
  [vaultAddr : {"", "http", "https"}, systemCerts : BOOLEAN, clientConfig : BOOLEAN]

VaultInit ==
  /\ env \in Environments
  /\ once = "new"
  /\ client = FALSE
  /\ creationError = ""
  /\ channel = <<>>
  /\ renewer = "none"
  /\ sent = FALSE
  /\ resp = "nil"
  /\ token = "none"
  /\ lease = "fresh"
  /\ vault = "up"
  /\ stored = [kind |-> "data", username |-> "string", password |-> "string", version |-> 1]
  /\ at = [w \in Workers |-> "idle"]
  /\ got = [w \in Workers |-> NoCredentials]
  /\ faults = 0
  /\ expiries = 0

Fault == faults < MaxVaultFaults /\ faults' = faults + 1 /\ UNCHANGED expiries

Goto(w, label) == at' = [at EXCEPT ![w] = label]
--------------------------------------------------------------------------------
(***************************************************************************)
(* Workers.                                                                *)
(***************************************************************************)

\* Mutant of OnceReturns: the flag is set before the function has run.
OnceReturnsEarly == once # "new"

\* sync.Once: Do returns when the one call of its function has returned.
OnceReturns == once = "done"

\* GetSecretStoreClient.  The first worker runs InitializeClient; the others wait.
GetSecretStoreClient(w) ==
  /\ at[w] = "idle"
  /\ \/ /\ once = "new"
        /\ once' = "running"
        /\ Goto(w, "initialize")
     \/ /\ OnceReturns
        /\ Goto(w, IF creationError = "" THEN "readCredentials" ELSE "failed")
        /\ UNCHANGED once
  /\ got' = [got EXCEPT ![w] = NoCredentials]
  /\ UNCHANGED <<env, client, creationError, login, auth, vault, stored, bounds>>

\* What InitializeClient finds wrong before it tries to log in.
ConfigError ==
  CASE env.vaultAddr = "" -> "VAULT_ADDR not set"
    [] env.vaultAddr = "https" /\ ~env.systemCerts -> "no system certs"
    [] ~env.clientConfig /\ (env.vaultAddr = "http" \/ (env.vaultAddr = "https" /\ env.systemCerts))
         -> "no client"
    [] OTHER -> ""

\* InitializeClient up to the start of the goroutine.
InitializeClient(w) ==
  /\ at[w] = "initialize"
  /\ IF ConfigError = ""
     THEN /\ renewer' = "login"
          /\ Goto(w, "awaitLogin")
          /\ UNCHANGED <<once, creationError>>
     ELSE /\ creationError' = ConfigError
          /\ once' = "done"
          /\ Goto(w, "failed")
          /\ UNCHANGED renewer
  /\ UNCHANGED <<env, client, channel, sent, resp, auth, vault, stored, got, bounds>>

\* The rest of InitializeClient: the result of the first login.
AwaitLogin(w) ==
  /\ at[w] = "awaitLogin"
  /\ channel # <<>>
  /\ channel' = <<>>
  /\ once' = "done"
  /\ IF channel = <<"ok">>
     THEN client' = TRUE /\ Goto(w, "readCredentials") /\ UNCHANGED creationError
     ELSE creationError' = "unable to login" /\ Goto(w, "failed") /\ UNCHANGED client
  /\ UNCHANGED <<env, renewer, sent, resp, auth, vault, stored, got, bounds>>

\* getValue: a value that is not a string is an error.
GetValue(type) == type = "string"

\* The checks of ReadCredentials on what ReadSecret returned.
Readable(secret) ==
  /\ secret.kind \notin {"error", "nil", "warnings", "nilData", "empty", "noData", "notMap"}
  /\ GetValue(secret.username)
  /\ GetValue(secret.password)

ValueOf(type, version) == IF type = "string" THEN version ELSE 0

\* ReadSecret and ReadCredentials: one read, with the token the client has now.
ReadCredentials(w) ==
  /\ at[w] = "readCredentials"
  /\ IF vault = "up" /\ token = "live" /\ Readable(stored)
     THEN /\ got' = [got EXCEPT ![w] =
               [username |-> ValueOf(stored.username, stored.version),
                password |-> ValueOf(stored.password, stored.version)]]
          /\ Goto(w, "done")
     ELSE Goto(w, "failed") /\ UNCHANGED got
  /\ UNCHANGED <<process, login, auth, vault, stored, bounds>>

\* Reconcile ends; after an error, or for another object, the worker comes back.
Again(w) ==
  /\ at[w] \in {"done", "failed"}
  /\ Goto(w, "idle")
  /\ UNCHANGED <<process, login, auth, vault, stored, got, bounds>>

Worker(w) ==
  \/ GetSecretStoreClient(w) \/ InitializeClient(w) \/ AwaitLogin(w)
  \/ ReadCredentials(w) \/ Again(w)
--------------------------------------------------------------------------------
(***************************************************************************)
(* The goroutine renewToken.                                               *)
(***************************************************************************)

\* login: the service account token is read and sent to Vault, which answers with a
\* client token, renewable or not, or not at all.
Login ==
  /\ renewer = "login"
  /\ renewer' = "result"
  /\ \/ /\ vault = "up"
        /\ \E r \in {"renewable", "fixed"} : resp' = r
        /\ token' = "live"
        /\ lease' = "fresh"
        /\ UNCHANGED bounds
     \/ /\ vault = "down"
        /\ resp' = "nil"
        /\ UNCHANGED <<auth, bounds>>
     \/ /\ Fault
        /\ resp' = "nil"
        /\ UNCHANGED auth
  /\ UNCHANGED <<process, channel, sent, vault, stored, work>>

\* Mutant of AfterLogin: every failed login ends the goroutine.
AfterLoginStrict == IF resp = "nil" THEN "ended" ELSE "manage"

\* Only a failure of the first login ends the goroutine.
AfterLogin == IF ~sent /\ resp = "nil" THEN "ended" ELSE "manage"

\* renewToken after login: the first result goes to InitializeClient.
Announce ==
  /\ renewer = "result"
  /\ renewer' = AfterLogin
  /\ sent' = TRUE
  /\ channel' = IF sent THEN channel
                ELSE <<IF resp = "nil" THEN "error" ELSE "ok">>
  /\ UNCHANGED <<process, resp, auth, vault, stored, work, bounds>>

\* Is there a token that a watcher can renew?
Watched == resp = "renewable"

\* manageTokenLifecycle up to the loop; making the watcher may fail too.
ManageTokenLifecycle ==
  /\ renewer = "manage"
  /\ \/ /\ Watched
        /\ renewer' = "watch"
        /\ UNCHANGED bounds
     \/ /\ Watched
        /\ Fault
        /\ renewer' = "sleep"
     \/ /\ ~Watched
        /\ renewer' = "sleep"
        /\ UNCHANGED bounds
  /\ UNCHANGED <<process, channel, sent, resp, auth, vault, stored, work>>

\* The select of manageTokenLifecycle.  The watcher renews in time, or is done: Vault
\* refuses, does not answer, or extends the lease no further.
Watch ==
  /\ renewer = "watch"
  /\ lease = "due"
  /\ \/ /\ vault = "up" /\ token = "live"
        /\ lease' = "fresh"
        /\ UNCHANGED renewer
     \/ renewer' = "sleep" /\ UNCHANGED lease
  /\ UNCHANGED <<process, channel, sent, resp, token, vault, stored, work, bounds>>

\* time.Sleep, after which the loop starts over.
Sleep ==
  /\ renewer = "sleep"
  /\ renewer' = "login"
  /\ UNCHANGED <<process, channel, sent, resp, auth, vault, stored, work, bounds>>

Renewer == Login \/ Announce \/ ManageTokenLifecycle \/ Watch \/ Sleep
--------------------------------------------------------------------------------
(***************************************************************************)
(* Vault.                                                                  *)
(***************************************************************************)

LeaseRuns ==
  /\ token # "none"
  /\ lease = "fresh"
  /\ lease' = "due"
  /\ UNCHANGED <<process, login, token, vault, stored, work, bounds>>

\* A token expires, or is revoked before.
Expire ==
  /\ token = "live"
  /\ expiries < MaxExpiries
  /\ expiries' = expiries + 1
  /\ token' = "dead"
  /\ UNCHANGED <<process, login, lease, vault, stored, work, faults>>

Outage ==
  /\ vault = "up"
  /\ vault' = "down"
  /\ Fault
  /\ UNCHANGED <<process, login, auth, stored, work>>

Recover ==
  /\ vault = "down"
  /\ vault' = "up"
  /\ UNCHANGED <<process, login, auth, stored, work, bounds>>

Write(secret) ==
  /\ stored.version <= MaxWrites
  /\ stored' = [secret EXCEPT !.version = stored.version + 1]
  /\ UNCHANGED <<process, login, auth, vault, work, bounds>>

VaultNext ==
  \/ \E w \in Workers : Worker(w)
  \/ Renewer \/ LeaseRuns \/ Expire \/ Outage \/ Recover
  \/ \E secret \in StoredSecrets : Write(secret)

VaultSpec == VaultInit /\ [][VaultNext]_vaultVars

\* Workers come back after an error, goroutines run, leases run out in time.
VaultFairSpec ==
  /\ VaultSpec
  /\ \A w \in Workers : WF_vaultVars(Worker(w))
  /\ WF_vaultVars(Renewer)
  /\ WF_vaultVars(LeaseRuns)
--------------------------------------------------------------------------------
(***************************************************************************)
(* Properties.                                                             *)
(***************************************************************************)

\* GetSecretStoreClient returns a client or an error, to the workers that wait for
\* the first one too: none of them reads through a client that is nil or that never
\* logged in.
NeverNilClient ==
  \A w \in Workers : at[w] = "readCredentials" => client /\ token # "none"

\* The goroutine that renews the token lives as long as the client does, whatever
\* logins fail; if there is no client, there is none either ("fail fast").
RenewalGoesOn ==
  once = "done" => (client <=> renewer \notin {"none", "ended"})

\* Expired tokens, failed renewals and outages only delay: once there is a client, and
\* Vault stays up with a good secret, every worker gets the pair that is stored.
EventuallyReads ==
  \A w \in Workers :
    <>[](client /\ vault = "up" /\ Readable(stored))
      => []<>/\ at[w] = "done"
             /\ got[w].username = stored.version /\ got[w].password = stored.version
================================================================================
