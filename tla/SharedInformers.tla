---------------------------- MODULE SharedInformers ----------------------------
(***************************************************************************)
(* A shared informer factory and the programs that use it: each asks for   *)
(* the informer of its kind, starts the factory, waits for the caches, and *)
(* then reads objects through a lister, copies them, changes the copies    *)
(* and writes them back.  This is also how the reconcilers of the operator *)
(* use the manager's cache, whose Get copies.                              *)
(*                                                                         *)
(* The API server (optimistic locking, the history that watches follow)    *)
(* and the reflector that fills an index are external.                     *)
(***************************************************************************)
EXTENDS Clientset, Integers, FiniteSets

CONSTANTS
  Callers,      \* the programs
  MaxWrites,    \* bound: writes to the API server
  MaxBreaks     \* bound: watches that break

VARIABLES
  kind,         \* the kind the programs work with
  scope,        \* namespaces the factory is limited to (WithNamespace)
  api,          \* objects of each resource and namespace
  log,          \* all writes, in order; the version of an object is its place here
  informers,    \* factory.informers: 0 or the number of the informer
  made,         \* informers made so far
  started,      \* factory.startedInformers
  runs,         \* times that Run was called on an informer
  reflector,    \* per informer: has it listed, does it watch, how far
  index,        \* per informer: its index
  pc, mine,     \* callers: next step, the informer they got
  waits,        \* the informers WaitForCacheSync found started
  held,         \* the object a caller has in its hands
  breaks

factory == <<informers, made, started, runs>>
caches == <<reflector, index>>
callers == <<pc, mine, waits, held>>
vars == <<kind, scope, api, log, factory, caches, callers, breaks>>

Namespaces == {"n1", "n2"}
Ids == 1..Cardinality(Callers)
Absent == [type |-> "absent", version |-> 0, spec |-> 0, status |-> 0]
None == [ns |-> "", object |-> Absent, shared |-> {}, edited |-> ""]

\* Objects of one other kind exist, too.
OtherKind == IF kind = "OperatorPolicy" THEN "Policy" ELSE "OperatorPolicy"
Resources == {Resource(kind), Resource(OtherKind)}

\* The informer that the programs ask for, by its method or by ForResource, which does not
\* know topic permissions.
TheInformer ==
  Informers[IF Resource(kind) \in DOMAIN ForResource THEN ForResource[Resource(kind)] ELSE kind]

Entry(o) == [object |-> o, dirty |-> {}]
Empty == [ns \in Namespaces |-> Entry(Absent)]

\* A reader that may start at any time: the factory is new, one object exists.
Init ==
  /\ kind \in Kinds
  /\ scope \in {{"n1"}, Namespaces}
  /\ api = [r \in Resources |-> [ns \in Namespaces |->
              IF ns = "n1" /\ r = Resource(kind)
              THEN [type |-> kind, version |-> 1, spec |-> 1, status |-> 0] ELSE Absent]]
  /\ log = <<[resource |-> Resource(kind), ns |-> "n1", object |-> api[Resource(kind)]["n1"]]>>
  /\ informers = 0 /\ made = 0
  /\ started = FALSE
  /\ runs = [i \in Ids |-> 0]
  /\ reflector = [i \in Ids |-> [listed |-> FALSE, watching |-> FALSE, at |-> 0]]
  /\ index = [i \in Ids |-> Empty]
  /\ pc = [c \in Callers |-> "request"]
  /\ mine = [c \in Callers |-> 0]
  /\ waits = [c \in Callers |-> {}]
  /\ held = [c \in Callers |-> None]
  /\ breaks = 0

Goto(c, label) == pc' = [pc EXCEPT ![c] = label]
--------------------------------------------------------------------------------
(***************************************************************************)
(* The API server.                                                         *)
(***************************************************************************)

\* o is stored at version Len(log) + 1 and recorded.
Store(request, ns, o) ==
  /\ Len(log) < MaxWrites
  /\ api' = [api EXCEPT ![request.resource][ns] = o]
  /\ log' = Append(log, [resource |-> request.resource, ns |-> ns, object |-> o])

\* What a PUT makes of the stored object: the subresource is all it changes, the main
\* resource is all but that.
Put(request, o) ==
  LET v == Len(log) + 1 IN
  [o EXCEPT !.version = v,
            !.spec = IF request.subresource = "status" THEN @ ELSE v,
            !.status = IF request.subresource = "status" THEN v ELSE @]

\* Somebody else uses a client: creates, changes or deletes an object of either kind.
OutsideWrite(k, ns) ==
  LET o == api[Resource(k)][ns]
      v == Len(log) + 1
  IN
  /\ \/ /\ o = Absent
        /\ Store(Clients[k].Create, ns, [type |-> k, version |-> v, spec |-> v, status |-> 0])
     \/ /\ o # Absent
        /\ \/ Store(Clients[k].Patch, ns, Put(Clients[k].Patch, o))
           \/ Store(Clients[k].Delete, ns, Absent)
  /\ UNCHANGED <<kind, scope, factory, caches, callers, breaks>>
--------------------------------------------------------------------------------
(***************************************************************************)
(* The factory.                                                            *)
(***************************************************************************)

\* InformerFor finds the informer of the type.
Known == informers # 0

\* Informer(), or ForResource(): InformerFor under the lock of the factory.
InformerFor(c) ==
  /\ pc[c] = "request"
  /\ \/ /\ Known
        /\ mine' = [mine EXCEPT ![c] = informers]
        /\ UNCHANGED <<informers, made>>
     \/ /\ ~Known
        /\ made' = made + 1
        /\ informers' = made + 1
        /\ mine' = [mine EXCEPT ![c] = made + 1]
  /\ Goto(c, "start")
  /\ UNCHANGED <<kind, scope, api, log, started, runs, caches, waits, held, breaks>>

\* Mutant of StartOnce: startedInformers is not looked at.
StartOnceAlways == TRUE

StartOnce == ~started

\* Start runs the informers that were not started before.
Start(c) ==
  /\ pc[c] = "start"
  /\ IF StartOnce
     THEN /\ runs' = [runs EXCEPT ![informers] = @ + 1]
          /\ started' = TRUE
     ELSE UNCHANGED <<runs, started>>
  /\ Goto(c, "wait")
  /\ UNCHANGED <<kind, scope, api, log, informers, made, caches, mine, waits, held, breaks>>

\* WaitForCacheSync: the started informers, read under the lock ...
SnapshotStarted(c) ==
  /\ pc[c] = "wait"
  /\ waits' = [waits EXCEPT ![c] = IF started THEN {informers} ELSE {}]
  /\ Goto(c, "waiting")
  /\ UNCHANGED <<kind, scope, api, log, factory, caches, mine, held, breaks>>

\* Mutant of Synced: it does not wait.
SyncedNow(c) == TRUE

Synced(c) == \A i \in waits[c] : reflector[i].listed

\* ... and each waited for.
WaitForCacheSync(c) ==
  /\ pc[c] = "waiting"
  /\ Synced(c)
  /\ Goto(c, "read")
  /\ UNCHANGED <<kind, scope, api, log, factory, caches, mine, waits, held, breaks>>
--------------------------------------------------------------------------------
(***************************************************************************)
(* The reflector of a running informer.                                    *)
(***************************************************************************)

\* List, or list again after the watch broke: the index is replaced.
List_(i) ==
  /\ runs[i] > 0
  /\ ~reflector[i].watching
  /\ index' = [index EXCEPT ![i] = [ns \in Namespaces |->
                 IF ns \in scope THEN Entry(api[TheInformer.list.resource][ns])
                 ELSE Entry(Absent)]]
  /\ reflector' = [reflector EXCEPT ![i] =
                     [listed |-> TRUE, watching |-> TRUE, at |-> Len(log)]]
  /\ UNCHANGED <<kind, scope, api, log, factory, callers, breaks>>

\* The next write; the watch has only those of its resource and its namespaces.
Event(i) ==
  LET next == reflector[i].at + 1 IN
  /\ reflector[i].watching
  /\ next <= Len(log)
  /\ reflector' = [reflector EXCEPT ![i].at = next]
  /\ index' = IF log[next].resource = TheInformer.watch.resource /\ log[next].ns \in scope
              THEN [index EXCEPT ![i][log[next].ns] = Entry(log[next].object)]
              ELSE index
  /\ UNCHANGED <<kind, scope, api, log, factory, callers, breaks>>

BreakWatch(i) ==
  /\ reflector[i].watching
  /\ breaks < MaxBreaks
  /\ breaks' = breaks + 1
  /\ reflector' = [reflector EXCEPT ![i].watching = FALSE]
  /\ UNCHANGED <<kind, scope, api, log, factory, index, callers>>
--------------------------------------------------------------------------------
(***************************************************************************)
(* The callers.                                                            *)
(***************************************************************************)

\* Get or List of a lister, and DeepCopy of what it hands out: "objects returned here must
\* be treated as read-only".  Get and List of the manager's cache do both.
Get(c, ns) ==
  LET e == index[mine[c]][ns].object IN
  /\ pc[c] = "read"
  /\ Listers[kind].Reads[e.type] = "pointer"
  /\ \E shared \in {Shared(kind), {Tail(path) : path \in SharedList(kind)}} :
       held' = [held EXCEPT ![c] = [ns |-> ns, object |-> e, shared |-> shared, edited |-> ""]]
  /\ Goto(c, "edit")
  /\ UNCHANGED <<kind, scope, api, log, factory, caches, mine, waits, breaks>>

\* A write through the references at paths reaches the index if they are shared and the
\* index still has the object.
Scribble(c, paths) ==
  LET e == index[mine[c]][held[c].ns] IN
  index' = IF e.object.version = held[c].object.version
           THEN [index EXCEPT ![mine[c]][held[c].ns].dirty = @ \cup (paths \cap held[c].shared)]
           ELSE index

\* A change of the copy: of everything in its metadata or spec, or of its conditions.
Edit(c) ==
  /\ pc[c] = "edit"
  /\ \/ /\ Scribble(c, {path \in Types[kind] : path[1] # "status"})
        /\ held' = [held EXCEPT ![c].edited = "spec"]
     \/ /\ Scribble(c, SetStatusConditions(kind, held[c].object.status > 0))
        /\ held' = [held EXCEPT ![c].edited = "status"]
  /\ Goto(c, "push")
  /\ UNCHANGED <<kind, scope, api, log, factory, reflector, mine, waits, breaks>>

PushRequest(c) ==
  IF held[c].edited = "status" THEN Clients[kind].UpdateStatus ELSE Clients[kind].Update

\* Update or UpdateStatus; a conflict drops the copy.
Push(c) ==
  LET o == api[PushRequest(c).resource][held[c].ns] IN
  /\ pc[c] = "push"
  /\ \/ /\ o.version = held[c].object.version
        /\ Store(PushRequest(c), held[c].ns, Put(PushRequest(c), o))
     \/ /\ o.version # held[c].object.version \/ Len(log) = MaxWrites
        /\ UNCHANGED <<api, log>>
  /\ held' = [held EXCEPT ![c] = None]
  /\ Goto(c, "read")
  /\ UNCHANGED <<kind, scope, factory, caches, mine, waits, breaks>>

Setup(c) == InformerFor(c) \/ Start(c) \/ SnapshotStarted(c) \/ WaitForCacheSync(c)

Work(c) == (\E ns \in Namespaces : Get(c, ns)) \/ Edit(c) \/ Push(c)

Reflect(i) == List_(i) \/ Event(i)

Next ==
  \/ \E c \in Callers : Setup(c) \/ Work(c)
  \/ \E i \in Ids : Reflect(i) \/ BreakWatch(i)
  \/ \E ns \in Namespaces : OutsideWrite(kind, ns)
  \/ OutsideWrite(OtherKind, "n1")

Spec == Init /\ [][Next]_vars

\* Goroutines run; a reflector lists and watches again until it succeeds.
FairSpec ==
  /\ Spec
  /\ \A c \in Callers : WF_vars(Setup(c))
  /\ \A i \in Ids : WF_vars(Reflect(i))
--------------------------------------------------------------------------------
(***************************************************************************)
(* Properties.                                                             *)
(***************************************************************************)

\* o is what namespace ns had after the first n writes: that of the last one there, if any.
Had(ns, n, o) ==
  LET wrote(m) == log[m].resource = Resource(kind) /\ log[m].ns = ns
  IN  \/ o = Absent /\ \A m \in 1..n : ~wrote(m)
      \/ \E m \in 1..n : wrote(m) /\ log[m].object = o /\ \A l \in (m + 1)..n : ~wrote(l)

\* What an index holds was served: in all namespaces of the factory it is what they had at
\* one moment, the write that the reflector has got to, with nothing in it that a caller
\* wrote into its copy.  So not found means that there was no object at that moment.
IndexIsServed ==
  \A i \in Ids, ns \in Namespaces :
    LET e == index[i][ns] IN
    /\ e.dirty = {}
    /\ IF reflector[i].listed /\ ns \in scope THEN Had(ns, reflector[i].at, e.object)
       ELSE e.object = Absent

\* Each informer is run once, however many callers start the factory: two runs would
\* write to one index.
RunOnce == \A i \in Ids : runs[i] <= 1

\* A caller that asked for its informer, started the factory and waited for the caches
\* reads an index that has been listed, whoever else did the same in between: not
\* found then means that the object did not exist.
ReadsListed == \A c \in Callers : pc[c] = "read" => reflector[mine[c]].listed

\* A caller's write changes the very object that it read and copied: a write by somebody
\* else in between, and an object that was deleted and made again, refuse it.
NoLostUpdate ==
  [][\A c \in Callers : Push(c) /\ log' # log =>
       api[Resource(kind)][held[c].ns] = held[c].object]_vars

\* Every caller comes to read an index that is up to date, after lost watches and races
\* in the factory.
EventuallyCurrent ==
  \A c \in Callers :
    []<>(/\ pc[c] \notin {"request", "start", "wait", "waiting"}
         /\ \A ns \in scope : index[mine[c]][ns].object = api[Resource(kind)][ns])
================================================================================
