--------------------------- MODULE QueueDeclaration ---------------------------
(***************************************************************************)
(* A Queue from its creation through the webhooks to its declaration on    *)
(* the server.  A queue's settings cannot be changed once it is declared,  *)
(* and the webhooks are there so that nobody asks for it: what the         *)
(* operator declares is never refused because of what it declared before.  *)
(* The operator's own writes of the object pass through the webhooks too.  *)
(*                                                                         *)
(* What a Queue's deletion destroys is the subject of QueueDeletion; here  *)
(* deletionPolicy retain matters, which leaves the queue to whoever        *)
(* creates a Queue of that name next.                                      *)
(***************************************************************************)
EXTENDS Naturals

CONSTANTS
  Nil,         \* a field that is not set
  Specs,       \* the specs that people write, of QueueSpecs
  MaxEdits,    \* bound: creations, updates and deletions of the object
  MaxFaults,   \* bound: calls that fail
  MaxOutside   \* bound: changes on the server by others

VARIABLES
  webhooks,    \* ENABLE_WEBHOOKS
  object,      \* the Queue
  cache,       \* the Queue as the operator's cache has it
  pc, read,    \* the worker: next call, its copy of the object
  queued,      \* the object is in the work queue
  queue,       \* the queue on the server
  edits, faults, outside

vars == <<webhooks, object, cache, pc, read, queued, queue, edits, faults, outside>>

\* spec.arguments: not set, {}, a flat object, one with a nested value.
Empty == "{}"
Flat == "flat"
Nested == "nested"

\* QueueSpec, as far as the declaration goes; retain: its deletionPolicy is retain.
QueueSpecs ==
  [type : {"classic", "quorum"}, durable : {Nil, TRUE, FALSE},
   autoDelete : BOOLEAN, arguments : {Nil, Empty, Flat, Nested}, retain : BOOLEAN]

Gone == [exists |-> FALSE, deleting |-> FALSE, finalizer |-> FALSE, version |-> 0]

\* origin, of a queue on the server: "operator" declared it for the Queue that exists,
\* "retained" for one that is gone and left it there, somebody "other" did.
NoQueue == [origin |-> "none"]

Init ==
  /\ webhooks \in BOOLEAN
  /\ object = Gone /\ cache = Gone /\ read = Gone
  /\ pc = "idle"
  /\ queued = FALSE
  /\ queue = NoQueue
  /\ edits = 0 /\ faults = 0 /\ outside = 0

\* ptr.Deref(durable, false)
Durable(s) == s.durable = TRUE
--------------------------------------------------------------------------------
(***************************************************************************)
(* The webhooks.                                                           *)
(***************************************************************************)

\* Default: called on creation only.
Default(s) == IF s.durable = Nil THEN [s EXCEPT !.durable = TRUE] ELSE s

\* ValidateCreate
ValidateCreate(s) == s.type = "quorum" => Durable(s)

\* maps.Equal: comparing two nested values panics, which refuses the request.
EqualArguments(old, new) == old = new /\ old # Nested

\* Mutant of ValidateUpdate: arguments that were not set may be.
ValidateUpdateArguments(old, new) ==
  /\ new.type = old.type
  /\ new.autoDelete = old.autoDelete
  /\ Durable(new) = Durable(old)
  /\ old.arguments # Nil => EqualArguments(old.arguments, new.arguments)

\* ValidateUpdate; deletionPolicy is free to change.
ValidateUpdate(old, new) ==
  /\ new.type = old.type
  /\ new.autoDelete = old.autoDelete
  /\ Durable(new) = Durable(old)
  /\ old.arguments = Nil <=> new.arguments = Nil
  /\ old.arguments # Nil => EqualArguments(old.arguments, new.arguments)
--------------------------------------------------------------------------------
(***************************************************************************)
(* The API server and people.                                              *)
(***************************************************************************)

Edited == edits < MaxEdits /\ edits' = edits + 1
Worker == <<webhooks, cache, pc, read, queue, faults, outside>>

Create ==
  /\ ~object.exists
  /\ Edited
  /\ \E s \in Specs :
       LET created == IF webhooks THEN Default(s) ELSE s
       IN  /\ webhooks => ValidateCreate(created)
           /\ object' = [exists |-> TRUE, deleting |-> FALSE, finalizer |-> FALSE,
                         version |-> object.version + 1, spec |-> created]
  /\ queued' = TRUE
  /\ UNCHANGED Worker

Update ==
  /\ object.exists
  /\ Edited
  /\ \E s \in Specs \ {object.spec} :
       /\ webhooks => ValidateUpdate(object.spec, s)
       /\ object' = [object EXCEPT !.spec = s, !.version = @ + 1]
  /\ queued' = TRUE
  /\ UNCHANGED Worker

Remove(o) == [Gone EXCEPT !.version = o.version + 1]

Delete ==
  /\ object.exists /\ ~object.deleting
  /\ Edited
  /\ object' = IF object.finalizer
               THEN [object EXCEPT !.deleting = TRUE, !.version = @ + 1] ELSE Remove(object)
  /\ queued' = TRUE
  /\ UNCHANGED Worker

\* The informer; its event comes after the cache has the object.
Sync ==
  /\ cache # object
  /\ cache' = object
  /\ queued' = TRUE
  /\ UNCHANGED <<webhooks, object, pc, read, queue, edits, faults, outside>>
--------------------------------------------------------------------------------
(***************************************************************************)
(* The worker.                                                             *)
(***************************************************************************)

Call(c) ==
  /\ c = "ok" \/ faults < MaxFaults
  /\ faults' = IF c = "ok" THEN faults ELSE faults + 1

\* Reconcile returns, or returns an error and is called again.
Return == pc' = "idle" /\ read' = Gone /\ UNCHANGED queued
Fail == pc' = "idle" /\ read' = Gone /\ queued' = TRUE

\* Mutant of Get: an object with its finalizer is taken for declared.
GetOnce ==
  /\ pc = "idle"
  /\ queued
  /\ queued' = FALSE
  /\ read' = IF cache.exists THEN cache ELSE Gone
  /\ pc' = CASE ~cache.exists -> "idle"
             [] cache.deleting -> "delete"
             [] cache.finalizer /\ ~cache.deleting -> "idle"
             [] OTHER -> "addFinalizer"
  /\ UNCHANGED <<webhooks, object, cache, queue, edits, faults, outside>>

Get ==
  /\ pc = "idle"
  /\ queued
  /\ queued' = FALSE
  /\ read' = IF cache.exists THEN cache ELSE Gone
  /\ pc' = CASE ~cache.exists -> "idle"
             [] cache.deleting -> "delete"
             [] cache.finalizer /\ ~cache.deleting -> "declare"
             [] OTHER -> "addFinalizer"
  /\ UNCHANGED <<webhooks, object, cache, queue, edits, faults, outside>>

\* Update of the object by the operator: refused if its copy is old, or by the webhook.
Write(o, then) ==
  \E c \in {"ok", "error"} :
    /\ Call(c)
    /\ IF /\ c = "ok" /\ object.exists /\ object.version = read.version
          /\ webhooks => ValidateUpdate(object.spec, read.spec)
       THEN /\ object' = o
            /\ IF o.exists THEN pc' = then /\ read' = o /\ UNCHANGED queued ELSE Return
       ELSE Fail /\ UNCHANGED object

\* addFinalizerIfNeeded
AddFinalizer ==
  /\ pc = "addFinalizer"
  /\ Write([read EXCEPT !.finalizer = TRUE, !.version = @ + 1], "declare")
  /\ UNCHANGED <<webhooks, cache, queue, edits, outside>>

\* GenerateQueueSettings: arguments that are not set are declared as {}.
GenerateQueueSettings(s) ==
  [type |-> s.type, durable |-> Durable(s), autoDelete |-> s.autoDelete,
   arguments |-> IF s.arguments = Nil THEN Empty ELSE s.arguments]

\* The server takes a declaration that it can serve and that is what it has.
Accepts(settings) ==
  IF queue.origin = "none"
  THEN settings.type = "quorum" => settings.durable
  ELSE queue.settings = settings

\* DeclareFunc: DeclareQueue, where the answer may be lost.  A queue that an earlier Queue
\* left is this one's from then on.
DeclareFunc ==
  /\ pc = "declare"
  /\ LET settings == GenerateQueueSettings(read.spec)
     IN  \E c \in {"ok", "error", "lost"} :
           /\ Call(c)
           /\ queue' = IF /\ c # "error" /\ queue.origin \in {"none", "retained"}
                          /\ Accepts(settings)
                       THEN [origin |-> "operator", settings |-> settings] ELSE queue
           /\ IF c = "ok" /\ Accepts(settings) THEN Return ELSE Fail
  /\ UNCHANGED <<webhooks, object, cache, edits, outside>>

\* DeleteFunc: shouldSkipDeletion, else DeleteQueue; what its options protect is left to
\* QueueDeletion.
DeleteFunc ==
  /\ pc = "delete"
  /\ \/ /\ read.spec.retain
        /\ pc' = "removeFinalizer"
        /\ UNCHANGED <<read, queued, queue, faults>>
     \/ /\ ~read.spec.retain
        /\ \E c \in {"ok", "error", "lost"} :
             /\ Call(c)
             /\ queue' = IF c = "error" THEN queue ELSE NoQueue
             /\ IF c = "ok" THEN pc' = "removeFinalizer" /\ UNCHANGED <<read, queued>> ELSE Fail
  /\ UNCHANGED <<webhooks, object, cache, edits, outside>>

\* The queue once its Queue is gone, which asked to retain it or did not.
Left == IF queue.origin = "operator" /\ object.spec.retain
        THEN [origin |-> "retained", settings |-> queue.settings] ELSE queue

\* removeFinalizer
RemoveFinalizer ==
  /\ pc = "removeFinalizer"
  /\ Write(Remove(read), "idle")
  /\ queue' = IF object.exists /\ ~object'.exists THEN Left ELSE queue
  /\ UNCHANGED <<webhooks, cache, edits, outside>>

Reconcile == Get \/ AddFinalizer \/ DeclareFunc \/ DeleteFunc \/ RemoveFinalizer

\* Objects are reconciled every SyncPeriod, changed or not.
Resync ==
  /\ cache.exists /\ ~queued
  /\ queued' = TRUE
  /\ UNCHANGED <<webhooks, object, cache, pc, read, queue, edits, faults, outside>>
--------------------------------------------------------------------------------
(***************************************************************************)
(* Other clients of the server.                                            *)
(***************************************************************************)

Outside == outside < MaxOutside /\ outside' = outside + 1

\* Somebody deletes the queue, or auto-delete does.
QueueGoes ==
  /\ queue.origin # "none"
  /\ Outside
  /\ queue' = NoQueue
  /\ UNCHANGED <<webhooks, object, cache, pc, read, queued, edits, faults>>

\* Somebody else declares a queue of that name.
ForeignQueue ==
  /\ queue.origin = "none"
  /\ Outside
  /\ \E s \in Specs : /\ ValidateCreate(s)
                      /\ queue' = [origin |-> "other", settings |-> GenerateQueueSettings(s)]
  /\ UNCHANGED <<webhooks, object, cache, pc, read, queued, edits, faults>>

Next ==
  \/ Create \/ Update \/ Delete \/ Sync \/ Reconcile \/ Resync
  \/ QueueGoes \/ ForeignQueue

Spec == Init /\ [][Next]_vars

\* Workers, informers and the resync of the cache keep going.
FairSpec == Spec /\ WF_vars(Sync) /\ WF_vars(Reconcile) /\ WF_vars(Resync)
--------------------------------------------------------------------------------
(***************************************************************************)
(* Properties.                                                             *)
(***************************************************************************)

\* With webhooks, a declaration is refused only because of somebody else's queue or of one
\* that a Queue with deletionPolicy retain left behind: the specs that Default,
\* ValidateCreate and ValidateUpdate let through never ask the server to change what the
\* operator declared for this Queue, nor what it declared for an earlier one of its name
\* that was to be deleted, nor for a quorum queue that is not durable.
NeverRefusesItself ==
  webhooks /\ pc = "declare" /\ queue.origin \notin {"other", "retained"} =>
    Accepts(GenerateQueueSettings(read.spec))

\* The queue is in the way: it is somebody else's, or an earlier Queue left it with other
\* settings.
InTheWay ==
  \/ queue.origin = "other"
  \/ queue.origin = "retained" /\ queue.settings # GenerateQueueSettings(object.spec)

\* With webhooks, a Queue is again and again declared as its spec says, faults and queues
\* that vanish included, and takes over the queue that an earlier one retained.  The
\* exceptions are a queue that is in the way, and nested arguments: those can be created,
\* but every update of such a Queue, the one that adds the finalizer included, is refused.
Declared ==
  /\ webhooks
  /\ object.exists /\ ~object.deleting /\ object.spec.arguments # Nested
  /\ ~InTheWay
  => /\ queue.origin = "operator"
     /\ queue.settings = GenerateQueueSettings(object.spec)

\* A Queue that is deleted goes away: one whose arguments are nested never has the
\* finalizer that would keep it, unless it was created before there were webhooks.
NotDeleting == ~object.deleting

\* Webhooks or not, the queue that the operator declared has a Queue that waits for it,
\* unless the last version of that Queue said retain: others leave no queue behind, though
\* the worker acts on copies of a cache that may still have an earlier Queue of the name,
\* or an earlier policy.
QueueIsOwned == queue.origin = "operator" => object.exists /\ object.finalizer

\* Webhooks or not, the operator takes its queue away only while the Queue that exists is
\* being deleted, never because a copy says so of an earlier one.
TakenWhenDeleted ==
  Reconcile /\ queue.origin = "operator" /\ queue'.origin = "none"
    => object.exists /\ object.deleting
--------------------------------------------------------------------------------
(***************************************************************************)
(* The inductive invariant behind NeverRefusesItself.                      *)
(*                                                                         *)
(* The argument is about who may lag behind whom.  An object that has the  *)
(* finalizer is removed by the worker only, and only when its copy is the  *)
(* current object: then the cache is current, too, and says that the       *)
(* object is being deleted; a queue that is left is one to be retained.    *)
(* So a copy with the finalizer that is not being deleted, of the cache or *)
(* of a worker about to declare, is of the Queue that exists now, and      *)
(* ValidateUpdate has kept its settings.                                   *)
(***************************************************************************)

\* Objects that exist, and the rest.
Here(o) ==
  /\ DOMAIN o = {"exists", "deleting", "finalizer", "version", "spec"}
  /\ o.exists = TRUE /\ o.deleting \in BOOLEAN /\ o.finalizer \in BOOLEAN
  /\ o.version \in Nat

Away(o) ==
  /\ o.exists = FALSE /\ o.deleting = FALSE /\ o.finalizer = FALSE
  /\ o.version \in Nat

TypeOK ==
  /\ Here(object) \/ Away(object)
  /\ Here(cache) \/ Away(cache)
  /\ Here(read) \/ Away(read)
  /\ pc \in {"idle", "addFinalizer", "declare", "delete", "removeFinalizer"}
  /\ pc # "idle" => Here(read)

\* a is a copy of b, or of what b was before.
Follows(a, b) == a.version <= b.version /\ (a.version = b.version => a = b)

\* The copies that a worker got from the cache and has not written since.
FromCache == {"addFinalizer", "delete", "removeFinalizer"}

Lag ==
  /\ Follows(cache, object)
  /\ pc \in FromCache => Follows(read, cache)
  /\ pc = "addFinalizer" => ~read.finalizer /\ ~read.deleting
  /\ pc \in {"delete", "removeFinalizer"} => read.deleting

\* A copy that the worker declares, or would declare.
Declarable(o) == o.exists /\ o.finalizer /\ ~o.deleting

\* The object that exists has the finalizer and is declared like s.
Current(settings) ==
  /\ object.exists /\ object.finalizer
  /\ GenerateQueueSettings(object.spec) = settings

Settled ==
  /\ object.exists => ValidateCreate(object.spec)
  /\ Declarable(cache) => Current(GenerateQueueSettings(cache.spec))
  /\ pc = "declare" => Declarable(read) /\ Current(GenerateQueueSettings(read.spec))
  /\ queue.origin = "operator" => Current(queue.settings)
  /\ queue.origin \in {"none", "operator", "retained", "other"}

\* The worker removes the finalizer when it has deleted the queue, or was told to retain it.
Spared == pc = "removeFinalizer" /\ queue.origin = "operator" => read.spec.retain

DeclarationInv == TypeOK /\ Lag /\ (webhooks => Settled)

\* What QueueIsOwned and TakenWhenDeleted need besides: copies that tell the worker to
\* declare or to delete tell it the truth about an object that has the finalizer.
Owned ==
  /\ object.finalizer /\ (cache.deleting \/ pc \in {"delete", "removeFinalizer"})
     => object.deleting
  /\ Declarable(cache) \/ pc = "declare" => object.finalizer
  /\ queue.origin = "operator" => object.finalizer

OwnedInv == DeclarationInv /\ Spared /\ Owned
================================================================================
