-------------------------- MODULE ReferencePartsProofs --------------------------
(***************************************************************************)
(* Federations, Shovels, SchemaReplications and Permissions, which need    *)
(* what a Secret or a User says, for any objects, names and bounds: what   *)
(* these components of Parts keep, that Federations and Shovels implement  *)
(* ObjectLifecycle, and that a behaviour of Parts is one of the component  *)
(* that "part" names.                                                      *)
(***************************************************************************)
EXTENDS Parts, Sequences, TLAPS

--------------------------------------------------------------------------------
(***************************************************************************)
(* Upstreams: federation upstreams, shovels and schema replication.        *)
(***************************************************************************)

\* At the start there are no parameters.
LEMMA UpstreamInit ==
  ASSUME Upstream!Init
  PROVE  Upstream!UpstreamInv
<1>0. DOMAIN object = UpstreamObjects
  BY Zenon DEF Upstream!Init
<1>1. /\ DOMAIN copy = UpstreamObjects /\ DOMAIN found = UpstreamObjects
      /\ pc = [o \in UpstreamObjects |-> "idle"]
  BY Zenon DEF Upstream!Init
<1>2. \A o \in UpstreamObjects : Upstream!Fields(object[o]) /\ Upstream!Fields(copy[o])
  <2>1. Upstream!Fields(Upstream!Gone)
    BY Zenon DEF Upstream!Fields, Upstream!Gone
  <2>2. ASSUME NEW s
        PROVE  Upstream!Fields([exists |-> TRUE, deleting |-> FALSE, finalizer |-> FALSE,
                       version |-> 1, spec |-> s])
    BY Zenon DEF Upstream!Fields
  <2> QED
    BY <2>1, <2>2, Zenon DEF Upstream!Init
<1>3. /\ DOMAIN server = {Upstream!Parameter(o) : o \in UpstreamObjects}
      /\ \A p \in DOMAIN server : server[p] = Upstream!None
  BY Zenon DEF Upstream!Init
<1> QED
  BY <1>0, <1>1, <1>2, <1>3, ZenonT(30)
     DEF Upstream!UpstreamInv, Upstream!TypeOK, Upstream!Steady, Upstream!Kept, Upstream!Labels

\* A step of one worker, or of people, on object o that takes the finalizer from nothing
\* and puts nothing.
LEMMA OthersAreSteady ==
  ASSUME Upstream!UpstreamInv, NEW o \in UpstreamObjects,
         \A q \in UpstreamObjects : q # o => /\ object'[q] = object[q] /\ copy'[q] = copy[q]
                                     /\ pc'[q] = pc[q] /\ found'[q] = found[q]
  PROVE  \A q \in UpstreamObjects : q # o => Upstream!Steady(q)'
BY DEF Upstream!UpstreamInv, Upstream!Steady

\* The keepers stay where nothing is put and the step of o leaves o one.
LEMMA StaysKept ==
  ASSUME Upstream!UpstreamInv, NEW o \in UpstreamObjects, UNCHANGED <<seen, extra>>,
         \A q \in UpstreamObjects : q # o => object'[q] = object[q] /\ pc'[q] = pc[q],
         DOMAIN server' = DOMAIN server,
         \A p \in DOMAIN server : server'[p] \in {server[p], Upstream!None},
         object[o].exists /\ object[o].finalizer /\ pc[o] # "removeFinalizer"
         => \/ object'[o].exists /\ object'[o].finalizer /\ pc'[o] # "removeFinalizer"
            \/ extra \/ server'[Upstream!Parameter(o)] = Upstream!None
  PROVE  Upstream!Kept'
<1> SUFFICES ASSUME ~extra, NEW p \in DOMAIN server, server'[p] # Upstream!None
             PROVE  \E q \in UpstreamObjects : Upstream!Keeps(q, p)'
  BY Zenon DEF Upstream!Kept
<1>1. PICK q \in UpstreamObjects : Upstream!Keeps(q, p)
  BY Zenon DEF Upstream!UpstreamInv, Upstream!Kept
<1>2. Upstream!Parameter(q)' = p /\ (q = o => server'[Upstream!Parameter(o)] # Upstream!None)
  BY <1>1, Zenon DEF Upstream!Keeps, Upstream!Parameter
<1>3. Upstream!Keeps(q, p)'
  BY <1>1, <1>2, Zenon DEF Upstream!Keeps
<1> QED
  BY <1>3, Zenon

\* Reconcile returns, and nothing else happens but that a parameter may be gone.
LEMMA UpstreamReturn ==
  ASSUME Upstream!UpstreamInv, NEW o \in UpstreamObjects, Upstream!Return(o),
         UNCHANGED <<seen, extra, object>>,
         DOMAIN server' = DOMAIN server,
         \A p \in DOMAIN server : server'[p] \in {server[p], Upstream!None}
  PROVE  Upstream!UpstreamInv'
<1>1. \A q \in UpstreamObjects : q # o => /\ copy'[q] = copy[q] /\ pc'[q] = pc[q]
                                  /\ found'[q] = found[q]
  BY Zenon DEF Upstream!Return, Upstream!UpstreamInv, Upstream!TypeOK
<1>2. pc'[o] = "idle" /\ pc' \in [UpstreamObjects -> Upstream!Labels] /\ copy'[o] = Upstream!Gone
  BY Zenon DEF Upstream!Return, Upstream!UpstreamInv, Upstream!TypeOK, Upstream!Labels
<1>3. Upstream!TypeOK'
  <2>1. Upstream!Fields(Upstream!Gone)
    BY Zenon DEF Upstream!Fields, Upstream!Gone
  <2>2. DOMAIN copy' = UpstreamObjects /\ DOMAIN found' = UpstreamObjects
    BY Zenon DEF Upstream!Return, Upstream!UpstreamInv, Upstream!TypeOK
  <2>3. {Upstream!Parameter(q) : q \in UpstreamObjects}'
            = {Upstream!Parameter(q) : q \in UpstreamObjects}
    BY Zenon DEF Upstream!Parameter
  <2>4. \A q \in UpstreamObjects : Upstream!Fields(object'[q]) /\ Upstream!Fields(copy'[q])
    BY <1>1, <1>2, <2>1, Zenon DEF Upstream!UpstreamInv, Upstream!TypeOK
  <2> QED
    BY <1>2, <2>2, <2>3, <2>4, ZenonT(30) DEF Upstream!UpstreamInv, Upstream!TypeOK
<1>4. Upstream!Kept'
  BY <1>1, <1>2, StaysKept, Zenon
<1>5. \A q \in UpstreamObjects : Upstream!Steady(q)'
  BY <1>1, <1>2, OthersAreSteady DEF Upstream!Steady
<1> QED
  BY <1>3, <1>4, <1>5, ZenonT(30) DEF Upstream!UpstreamInv

\* The worker goes on to another step with what it has, and nothing else changes.
LEMMA UpstreamGo ==
  ASSUME Upstream!UpstreamInv, NEW o \in UpstreamObjects, NEW step \in Upstream!Labels,
         Upstream!Go(o, step),
         UNCHANGED <<seen, extra, object, server>>,
         DOMAIN copy' = UpstreamObjects, DOMAIN found' = UpstreamObjects, Upstream!Fields(copy'[o]),
         \A q \in UpstreamObjects : q # o => copy'[q] = copy[q] /\ found'[q] = found[q],
         Upstream!Steady(o)',
         step = "removeFinalizer" => extra
  PROVE  Upstream!UpstreamInv'
<1>1. pc' \in [UpstreamObjects -> Upstream!Labels] /\ pc'[o]
          = step /\ \A q \in UpstreamObjects : q # o => pc'[q] = pc[q]
  BY Zenon DEF Upstream!Go, Upstream!UpstreamInv, Upstream!TypeOK
<1>2. Upstream!TypeOK'
  <2>1. {Upstream!Parameter(q) : q \in UpstreamObjects}'
            = {Upstream!Parameter(q) : q \in UpstreamObjects}
    BY Zenon DEF Upstream!Parameter
  <2> QED
    BY <1>1, <2>1, Zenon DEF Upstream!UpstreamInv, Upstream!TypeOK
<1>3. Upstream!Kept'
  BY <1>1, StaysKept, Zenon
<1>4. \A q \in UpstreamObjects : Upstream!Steady(q)'
  BY <1>1, OthersAreSteady, Zenon
<1> QED
  BY <1>2, <1>3, <1>4, Zenon DEF Upstream!UpstreamInv

\* The worker reads its object.
LEMMA UpstreamGet ==
  ASSUME Upstream!UpstreamInv, NEW o \in UpstreamObjects, Upstream!Get(o)
  PROVE  Upstream!UpstreamInv'
<1>1. PICK step : /\ Upstream!Go(o, step)
                  /\ \/ step = "delete" /\ object[o].deleting
                     \/ step = "readStore" /\ object[o].finalizer
                     \/ step = "addFinalizer"
  BY Zenon DEF Upstream!Get, Upstream!Go
<1>2. copy' = [copy EXCEPT ![o] = object[o]] /\ object[o].exists
  BY Zenon DEF Upstream!Get
<1>3. UNCHANGED <<seen, extra, object, server, found>>
  BY Zenon DEF Upstream!Get
<1>4. /\ copy'[o] = object[o] /\ DOMAIN copy' = UpstreamObjects
      /\ \A q \in UpstreamObjects : q # o => copy'[q] = copy[q]
  BY <1>2, Zenon DEF Upstream!UpstreamInv, Upstream!TypeOK
<1>5. pc'[o] = step
  BY <1>1, Zenon DEF Upstream!Go, Upstream!UpstreamInv, Upstream!TypeOK
<1>6. Upstream!Steady(o)'
  BY <1>1, <1>2, <1>3, <1>4, <1>5, Zenon DEF Upstream!Steady
<1> QED
  BY <1>1, <1>3, <1>4, <1>6, UpstreamGo, ZenonT(30) DEF Upstream!UpstreamInv, Upstream!TypeOK,
     Upstream!Labels

\* The finalizer is added, or the worker gives up.
LEMMA UpstreamAddFinalizer ==
  ASSUME Upstream!UpstreamInv, NEW o \in UpstreamObjects, Upstream!AddFinalizer(o)
  PROVE  Upstream!UpstreamInv'
<1> DEFINE new == [copy[o] EXCEPT !.finalizer = TRUE, !.version = @ + 1]
<1>1. UNCHANGED <<seen, extra, server>> /\ pc[o] = "addFinalizer" /\ copy[o].exists
  BY Zenon DEF Upstream!AddFinalizer, Upstream!UpstreamInv, Upstream!Steady
<1>2. Upstream!Fields(copy[o])
  BY Zenon DEF Upstream!UpstreamInv, Upstream!TypeOK
<1>3. /\ DOMAIN new = DOMAIN copy[o] /\ new.exists = copy[o].exists
      /\ new.deleting = copy[o].deleting /\ new.finalizer = TRUE
  BY <1>2, Zenon DEF Upstream!Fields
<1>4. Upstream!Fields(new) /\ new.exists /\ new.finalizer
  <2>1. new.finalizer \in BOOLEAN
    BY <1>3, Zenon
  <2> HIDE DEF new
  <2>2. new.exists
    BY <1>1, <1>3, Zenon
  <2> QED
    BY <1>2, <1>3, <2>1, <2>2, Zenon DEF Upstream!Fields
<1> HIDE DEF new
<1>5. CASE /\ object' = [object EXCEPT ![o] = new]
           /\ copy' = [copy EXCEPT ![o] = new]
           /\ Upstream!Go(o, "readStore") /\ UNCHANGED found
  <2>1. /\ object'[o] = new /\ copy'[o] = new /\ pc'[o] = "readStore"
        /\ DOMAIN object' = UpstreamObjects /\ DOMAIN copy' = UpstreamObjects
        /\ pc' \in [UpstreamObjects -> Upstream!Labels]
        /\ \A q \in UpstreamObjects : q # o => /\ object'[q] = object[q] /\ copy'[q] = copy[q]
                                       /\ pc'[q] = pc[q]
    BY <1>5, Zenon DEF Upstream!Go, Upstream!UpstreamInv, Upstream!TypeOK, Upstream!Labels
  <2>2. Upstream!TypeOK'
    <3>1. {Upstream!Parameter(q) : q \in UpstreamObjects}'
              = {Upstream!Parameter(q) : q \in UpstreamObjects}
      BY <1>1, Zenon DEF Upstream!Parameter
    <3>2. \A q \in UpstreamObjects : Upstream!Fields(object'[q]) /\ Upstream!Fields(copy'[q])
      BY <1>4, <2>1, Zenon DEF Upstream!UpstreamInv, Upstream!TypeOK
    <3> QED
      BY <1>1, <1>5, <2>1, <3>1, <3>2, ZenonT(30) DEF Upstream!UpstreamInv, Upstream!TypeOK
  <2>3. Upstream!Kept'
    BY <1>1, <1>4, <2>1, StaysKept, Zenon
  <2>4. Upstream!Steady(o)'
    BY <1>4, <2>1, Zenon DEF Upstream!Steady
  <2>5. \A q \in UpstreamObjects : Upstream!Steady(q)'
    BY <1>5, <2>1, <2>4, OthersAreSteady, Zenon
  <2> QED
    BY <2>2, <2>3, <2>5, ZenonT(30) DEF Upstream!UpstreamInv
<1>6. CASE Upstream!Return(o) /\ UNCHANGED object
  BY <1>1, <1>6, UpstreamReturn, Zenon
<1> QED
  BY <1>5, <1>6, Zenon DEF Upstream!AddFinalizer, new

\* The definition is made, and it is one.
LEMMA UpstreamReadStore ==
  ASSUME Upstream!UpstreamInv, NEW o \in UpstreamObjects, Upstream!ReadStore(o)
  PROVE  Upstream!UpstreamInv'
<1>1. UNCHANGED <<seen, extra, object, server>> /\ pc[o] = "readStore"
  BY Zenon DEF Upstream!ReadStore
<1>2. ASSUME NEW d, d # Upstream!None, found' = [found EXCEPT ![o] = d],
             Upstream!Go(o, "declare"), UNCHANGED copy
      PROVE  Upstream!UpstreamInv'
  <2>1. /\ found'[o] = d /\ DOMAIN found' = UpstreamObjects
        /\ \A q \in UpstreamObjects : q # o => found'[q] = found[q]
    BY <1>2, Zenon DEF Upstream!UpstreamInv, Upstream!TypeOK
  <2>2. pc'[o] = "declare"
    BY <1>2, Zenon DEF Upstream!Go, Upstream!UpstreamInv, Upstream!TypeOK
  <2>3. Upstream!Steady(o)'
    BY <1>1, <1>2, <2>1, <2>2, Zenon DEF Upstream!Steady, Upstream!UpstreamInv
  <2> QED
    BY <1>1, <1>2, <2>1, <2>3, UpstreamGo, ZenonT(30) DEF Upstream!UpstreamInv, Upstream!TypeOK,
       Upstream!Labels
<1>3. CASE Upstream!Return(o)
  BY <1>1, <1>3, UpstreamReturn, Zenon
<1> QED
  BY <1>2, <1>3, Zenon DEF Upstream!ReadStore

\* A parameter is put: the object of the worker keeps it.
LEMMA UpstreamDeclare ==
  ASSUME Upstream!UpstreamInv, NEW o \in UpstreamObjects, Upstream!Declare(o)
  PROVE  Upstream!UpstreamInv'
<1>1. UNCHANGED <<seen, extra, object>> /\ pc[o] = "declare" /\ Upstream!Return(o)
  BY Zenon DEF Upstream!Declare
<1>2. CASE server' = server
  BY <1>1, <1>2, UpstreamReturn, ZenonT(30)
<1>3. CASE server' = [server EXCEPT ![Upstream!Parameter(o)] = found[o]]
  <2>1. DOMAIN server' = DOMAIN server /\ Upstream!Parameter(o) \in DOMAIN server
    BY <1>3, Zenon DEF Upstream!UpstreamInv, Upstream!TypeOK
  <2>2. \A p \in DOMAIN server : p # Upstream!Parameter(o) => server'[p] = server[p]
    BY <1>3, Zenon DEF Upstream!UpstreamInv, Upstream!TypeOK
  <2>3. /\ pc'[o] = "idle" /\ pc' \in [UpstreamObjects -> Upstream!Labels]
        /\ copy'[o] = Upstream!Gone
        /\ DOMAIN copy' = UpstreamObjects /\ DOMAIN found' = UpstreamObjects
        /\ \A q \in UpstreamObjects : q # o => /\ copy'[q] = copy[q] /\ pc'[q] = pc[q]
                                       /\ found'[q] = found[q]
    BY <1>1, Zenon DEF Upstream!Return, Upstream!UpstreamInv, Upstream!TypeOK, Upstream!Labels
  <2>4. Upstream!TypeOK'
    <3>1. Upstream!Fields(Upstream!Gone)
      BY Zenon DEF Upstream!Fields, Upstream!Gone
    <3>2. {Upstream!Parameter(q) : q \in UpstreamObjects}'
              = {Upstream!Parameter(q) : q \in UpstreamObjects}
      BY <1>1, Zenon DEF Upstream!Parameter
    <3>3. \A q \in UpstreamObjects : Upstream!Fields(object'[q]) /\ Upstream!Fields(copy'[q])
      BY <1>1, <2>3, <3>1, Zenon DEF Upstream!UpstreamInv, Upstream!TypeOK
    <3> QED
      BY <1>1, <2>1, <2>3, <3>2, <3>3, ZenonT(30) DEF Upstream!UpstreamInv, Upstream!TypeOK
  <2>5. Upstream!Kept'
    <3>1. Upstream!Keeps(o, Upstream!Parameter(o))'
      BY <1>1, <2>3, Zenon
         DEF Upstream!UpstreamInv, Upstream!Steady, Upstream!Keeps, Upstream!Parameter
    <3>2. ASSUME NEW q \in UpstreamObjects, NEW p, Upstream!Keeps(q, p) PROVE Upstream!Keeps(q,
    p)'
      BY <1>1, <2>3, <3>2, Zenon DEF Upstream!Keeps, Upstream!Parameter
    <3>3. Upstream!Parameter(o)' = Upstream!Parameter(o)
      BY <1>1, Zenon DEF Upstream!Parameter
    <3> QED
      BY <1>1, <2>1, <2>2, <3>1, <3>2, <3>3, ZenonT(30) DEF Upstream!UpstreamInv, Upstream!Kept
  <2>6. \A q \in UpstreamObjects : Upstream!Steady(q)'
    BY <1>1, <2>3, OthersAreSteady DEF Upstream!Steady
  <2> QED
    BY <2>4, <2>5, <2>6, Zenon DEF Upstream!UpstreamInv
<1> QED
  BY <1>2, <1>3, Zenon DEF Upstream!Declare

\* The parameter is deleted, or left to whoever retains it, or the worker gives up.
LEMMA UpstreamDelete ==
  ASSUME Upstream!UpstreamInv, NEW o \in UpstreamObjects, Upstream!Delete(o)
  PROVE  Upstream!UpstreamInv'
<1>1. UNCHANGED <<seen, extra, object>> /\ pc[o] = "delete"
  BY Zenon DEF Upstream!Delete
<1>2. CASE Upstream!ShouldSkipDeletion
  <2>1. Upstream!Go(o, "removeFinalizer") /\ UNCHANGED <<copy, found, server>> /\ extra
    BY <1>2, Zenon DEF Upstream!Delete, Upstream!ShouldSkipDeletion
  <2>2. Upstream!Steady(o)'
    BY <1>1, <2>1, Zenon DEF Upstream!Go, Upstream!UpstreamInv, Upstream!TypeOK, Upstream!Steady
  <2> QED
    BY <1>1, <2>1, <2>2, UpstreamGo, ZenonT(30) DEF Upstream!UpstreamInv, Upstream!TypeOK,
       Upstream!Labels
<1>3. CASE ~Upstream!ShouldSkipDeletion
  <2>1. /\ DOMAIN server' = DOMAIN server
        /\ \A p \in DOMAIN server : server'[p] \in {server[p], Upstream!None}
    BY <1>3, Zenon DEF Upstream!Delete, Upstream!UpstreamInv, Upstream!TypeOK
  <2>2. CASE Upstream!Return(o)
    BY <1>1, <2>1, <2>2, UpstreamReturn, ZenonT(30)
  <2>3. CASE /\ Upstream!Go(o, "removeFinalizer") /\ UNCHANGED <<copy, found>>
             /\ server' = [server EXCEPT ![Upstream!Parameter(o)] = Upstream!None]
    <3>1. /\ pc'[o] = "removeFinalizer" /\ pc' \in [UpstreamObjects -> Upstream!Labels]
          /\ \A q \in UpstreamObjects : q # o => pc'[q] = pc[q]
      BY <2>3, Zenon DEF Upstream!Go, Upstream!UpstreamInv, Upstream!TypeOK, Upstream!Labels
    <3>2. server'[Upstream!Parameter(o)] = Upstream!None
      BY <2>3, Zenon DEF Upstream!UpstreamInv, Upstream!TypeOK
    <3>3. Upstream!TypeOK'
      <4>1. {Upstream!Parameter(q) : q \in UpstreamObjects}'
                = {Upstream!Parameter(q) : q \in UpstreamObjects}
        BY <1>1, Zenon DEF Upstream!Parameter
      <4> QED
        BY <1>1, <2>1, <2>3, <3>1, <4>1, ZenonT(30) DEF Upstream!UpstreamInv, Upstream!TypeOK
    <3>4. Upstream!Kept'
      BY <1>1, <2>1, <3>1, <3>2, StaysKept, ZenonT(30)
    <3>5. Upstream!Steady(o)'
      BY <1>1, <2>3, <3>1, ZenonT(30) DEF Upstream!UpstreamInv, Upstream!Steady
    <3>6. \A q \in UpstreamObjects : Upstream!Steady(q)'
      BY <1>1, <2>3, <3>1, <3>5, OthersAreSteady, ZenonT(30)
    <3> QED
      BY <3>3, <3>4, <3>6, Zenon DEF Upstream!UpstreamInv
  <2> QED
    BY <1>3, <2>2, <2>3, ZenonT(30) DEF Upstream!Delete, Upstream!Deleted
<1> QED
  BY <1>2, <1>3, Zenon

\* A step that replaces object o by new and leaves what others have alone.
LEMMA UpstreamReplace ==
  ASSUME Upstream!UpstreamInv, NEW o \in UpstreamObjects, NEW new, Upstream!Fields(new),
         object' = [object EXCEPT ![o] = new],
         UNCHANGED <<seen, extra, server>>,
         pc' \in [UpstreamObjects -> Upstream!Labels], DOMAIN copy' = UpstreamObjects,
         DOMAIN found' = UpstreamObjects,
         Upstream!Fields(copy'[o]), Upstream!Steady(o)',
         \A q \in UpstreamObjects : q # o => /\ copy'[q] = copy[q] /\ pc'[q] = pc[q]
                                     /\ found'[q] = found[q],
         object[o].exists /\ object[o].finalizer /\ pc[o] # "removeFinalizer"
         => new.exists /\ new.finalizer /\ pc'[o] # "removeFinalizer"
  PROVE  Upstream!UpstreamInv'
<1>1. /\ object'[o] = new /\ DOMAIN object' = UpstreamObjects
      /\ \A q \in UpstreamObjects : q # o => object'[q] = object[q]
  BY Zenon DEF Upstream!UpstreamInv, Upstream!TypeOK
<1>2. Upstream!TypeOK'
  <2>1. {Upstream!Parameter(q) : q \in UpstreamObjects}'
            = {Upstream!Parameter(q) : q \in UpstreamObjects}
    BY Zenon DEF Upstream!Parameter
  <2>2. \A q \in UpstreamObjects : Upstream!Fields(object'[q]) /\ Upstream!Fields(copy'[q])
    BY <1>1, Zenon DEF Upstream!UpstreamInv, Upstream!TypeOK
  <2> QED
    BY <1>1, <2>1, <2>2, Zenon DEF Upstream!UpstreamInv, Upstream!TypeOK
<1>3. Upstream!Kept'
  BY <1>1, StaysKept, Zenon
<1>4. \A q \in UpstreamObjects : Upstream!Steady(q)'
  BY <1>1, OthersAreSteady, Zenon
<1> QED
  BY <1>2, <1>3, <1>4, ZenonT(30) DEF Upstream!UpstreamInv

\* The finalizer is removed, and with it the object; it kept nothing.
LEMMA UpstreamRemoveFinalizer ==
  ASSUME Upstream!UpstreamInv, NEW o \in UpstreamObjects, Upstream!RemoveFinalizer(o)
  PROVE  Upstream!UpstreamInv'
<1>1. UNCHANGED <<seen, extra, server>> /\ pc[o] = "removeFinalizer" /\ Upstream!Return(o)
  BY Zenon DEF Upstream!RemoveFinalizer
<1>2. CASE object' = [object EXCEPT ![o] = Upstream!Gone]
  <2>1. Upstream!Fields(Upstream!Gone)
    BY Zenon DEF Upstream!Fields, Upstream!Gone
  <2>2. /\ pc'[o] = "idle" /\ pc' \in [UpstreamObjects -> Upstream!Labels]
        /\ copy'[o] = Upstream!Gone
        /\ DOMAIN copy' = UpstreamObjects /\ DOMAIN found' = UpstreamObjects
        /\ \A q \in UpstreamObjects : q # o => /\ copy'[q] = copy[q] /\ pc'[q] = pc[q]
                                       /\ found'[q] = found[q]
    BY <1>1, Zenon DEF Upstream!Return, Upstream!UpstreamInv, Upstream!TypeOK, Upstream!Labels
  <2>3. Upstream!Steady(o)'
    BY <2>2, Zenon DEF Upstream!Steady
  <2> QED
    BY <1>1, <1>2, <2>1, <2>2, <2>3, UpstreamReplace, ZenonT(30)
<1>3. CASE object' = object
  BY <1>1, <1>3, UpstreamReturn, Zenon
<1> QED
  BY <1>2, <1>3, Zenon DEF Upstream!RemoveFinalizer

\* People edit and delete objects; they do not take finalizers away.
LEMMA UpstreamPeople ==
  ASSUME Upstream!UpstreamInv, NEW o \in UpstreamObjects,
         Upstream!Edit(o) \/ Upstream!DeleteObject(o)
  PROVE  Upstream!UpstreamInv'
<1>1. UNCHANGED <<seen, extra, pc, copy, found, server>> /\ object[o].exists
  BY Zenon DEF Upstream!Edit, Upstream!DeleteObject, Upstream!Workers
<1>2. PICK new : /\ object' = [object EXCEPT ![o] = new] /\ Upstream!Fields(new)
                 /\ object[o].finalizer \/ new = Upstream!Gone \/ new.exists
                 /\ object[o].finalizer => new.exists /\ new.finalizer
                 /\ object[o].deleting => new.deleting /\ new.exists
  <2>1. Upstream!Fields(object[o])
    BY Zenon DEF Upstream!UpstreamInv, Upstream!TypeOK
  <2>2. CASE Upstream!Edit(o)
    <3>1. PICK s : object' = [object EXCEPT ![o].spec = s, ![o].version = @ + 1]
      BY <2>2, Zenon DEF Upstream!Edit
    <3> DEFINE new == [object[o] EXCEPT !.spec = s, !.version = @ + 1]
    <3>2. object' = [object EXCEPT ![o] = new]
      BY <3>1, Zenon DEF Upstream!UpstreamInv, Upstream!TypeOK
    <3>3. /\ DOMAIN new = DOMAIN object[o] /\ new.exists = object[o].exists
          /\ new.deleting = object[o].deleting /\ new.finalizer = object[o].finalizer
      BY <2>1, Zenon DEF Upstream!Fields
    <3> HIDE DEF new
    <3>4. Upstream!Fields(new) /\ new.exists
      BY <1>1, <2>1, <3>3, Zenon DEF Upstream!Fields
    <3> QED
      BY <3>2, <3>3, <3>4, Zenon
  <2>3. CASE Upstream!DeleteObject(o) /\ object[o].finalizer
    <3> DEFINE new == [object[o] EXCEPT !.deleting = TRUE, !.version = @ + 1]
    <3>1. object' = [object EXCEPT ![o] = new]
      BY <2>3, Zenon DEF Upstream!DeleteObject, Upstream!UpstreamInv, Upstream!TypeOK
    <3>2. /\ DOMAIN new = DOMAIN object[o] /\ new.exists = object[o].exists
          /\ new.deleting = TRUE /\ new.finalizer = object[o].finalizer
      BY <2>1, Zenon DEF Upstream!Fields
    <3> HIDE DEF new
    <3>3. new.deleting \in BOOLEAN
      BY <3>2, Zenon
    <3>4. Upstream!Fields(new) /\ new.exists /\ new.deleting /\ new.finalizer
      BY <1>1, <2>1, <2>3, <3>2, <3>3, ZenonT(30) DEF Upstream!Fields
    <3> QED
      BY <3>1, <3>4, Zenon
  <2>4. CASE Upstream!DeleteObject(o) /\ ~object[o].finalizer
    <3>1. object' = [object EXCEPT ![o] = Upstream!Gone] /\ ~object[o].deleting
      BY <2>4, Zenon DEF Upstream!DeleteObject
    <3>2. Upstream!Fields(Upstream!Gone)
      BY Zenon DEF Upstream!Fields, Upstream!Gone
    <3> QED
      BY <2>4, <3>1, <3>2, Zenon
  <2> QED
    BY <2>2, <2>3, <2>4, Zenon
<1>3. object'[o] = new
  BY <1>2, Zenon DEF Upstream!UpstreamInv, Upstream!TypeOK
<1>4. Upstream!Steady(o)'
  BY <1>1, <1>2, <1>3, Zenon DEF Upstream!UpstreamInv, Upstream!Steady
<1> QED
  BY <1>1, <1>2, <1>4, UpstreamReplace, Zenon DEF Upstream!UpstreamInv, Upstream!TypeOK

\* The invariant is preserved by every step.
LEMMA UpstreamNext ==
  ASSUME Upstream!UpstreamInv, [Upstream!Next]_(Upstream!vars)
  PROVE  Upstream!UpstreamInv'
<1>1. CASE Upstream!WriteStore \/ UNCHANGED Upstream!vars
  <2>1. UNCHANGED <<seen, extra, object, pc, copy, found, server>>
    BY <1>1, Zenon DEF Upstream!WriteStore, Upstream!Workers, Upstream!vars
  <2>2. Upstream!TypeOK' /\ (\A o \in UpstreamObjects : Upstream!Steady(o)')
    <3>1. {Upstream!Parameter(q) : q \in UpstreamObjects}'
              = {Upstream!Parameter(q) : q \in UpstreamObjects}
      BY <2>1, Zenon DEF Upstream!Parameter
    <3> QED
      BY <2>1, <3>1, Zenon DEF Upstream!UpstreamInv, Upstream!TypeOK, Upstream!Steady
  <2>3. Upstream!Kept'
    BY <2>1, Zenon DEF Upstream!UpstreamInv, Upstream!Kept, Upstream!Keeps, Upstream!Parameter
  <2> QED
    BY <2>2, <2>3, Zenon DEF Upstream!UpstreamInv
<1> QED
  BY <1>1, UpstreamGet, UpstreamAddFinalizer, UpstreamReadStore, UpstreamDeclare, UpstreamDelete,
     UpstreamRemoveFinalizer, UpstreamPeople, Zenon, ZenonT(30)
     DEF Upstream!Next, Upstream!Reconcile

\* The invariant holds throughout.
LEMMA UpstreamHolds == Upstream!Spec => []Upstream!UpstreamInv
BY UpstreamInit, UpstreamNext, PTL DEF Upstream!Spec

\* Federations, Shovels and SchemaReplications that are gone leave no parameter behind,
\* whatever calls were lost, and however many of them share it.
THEOREM NothingLeft == Upstream!Spec => []Upstream!NoParameterSurvives
<1>1. Upstream!UpstreamInv => Upstream!NoParameterSurvives
  BY Zenon DEF Upstream!UpstreamInv, Upstream!Kept, Upstream!Keeps, Upstream!NoParameterSurvives
<1> QED
  BY <1>1, UpstreamHolds, PTL

\* Only DeleteFunc of an object that is being deleted, and does not retain it, deletes a
\* parameter; no declaration puts nothing.
THEOREM DeletedForDeleted == Upstream!Spec => [][Upstream!DeletesOnDeletion]_(Upstream!vars)
<1>1. ASSUME Upstream!UpstreamInv, [Upstream!Next]_(Upstream!vars)
      PROVE  [Upstream!DeletesOnDeletion]_(Upstream!vars)
  <2> SUFFICES ASSUME Upstream!Next PROVE Upstream!DeletesOnDeletion
    BY <1>1, Zenon
  <2>1. ASSUME NEW o \in UpstreamObjects, Upstream!Delete(o) PROVE Upstream!DeletesOnDeletion
    <3>1. object[o].exists /\ object[o].deleting
      BY <1>1, <2>1, Zenon DEF Upstream!Delete, Upstream!UpstreamInv, Upstream!Steady
    <3>2. \A p \in DOMAIN server :
            server'[p] # server[p] => p = Upstream!Parameter(o) /\ ~extra
      BY <1>1, <2>1, Zenon
         DEF Upstream!Delete, Upstream!UpstreamInv, Upstream!TypeOK, Upstream!ShouldSkipDeletion
    <3> QED
      BY <3>1, <3>2, Zenon DEF Upstream!DeletesOnDeletion
  <2>2. ASSUME NEW o \in UpstreamObjects, Upstream!Declare(o) PROVE Upstream!DeletesOnDeletion
    <3>1. found[o] # Upstream!None
      BY <1>1, <2>2, Zenon DEF Upstream!Declare, Upstream!UpstreamInv, Upstream!Steady
    <3>2. \A p \in DOMAIN server : server'[p] \in {server[p], found[o]}
      BY <1>1, <2>2, Zenon DEF Upstream!Declare, Upstream!UpstreamInv, Upstream!TypeOK
    <3> QED
      BY <3>1, <3>2, Zenon DEF Upstream!DeletesOnDeletion
  <2>3. CASE server' = server
    BY <2>3, Zenon DEF Upstream!DeletesOnDeletion
  <2> QED
    BY <2>1, <2>2, <2>3, ZenonT(30) DEF Upstream!Next, Upstream!Reconcile, Upstream!Get,
       Upstream!AddFinalizer,
       Upstream!ReadStore, Upstream!RemoveFinalizer, Upstream!Edit, Upstream!DeleteObject,
       Upstream!WriteStore, Upstream!Workers
<1> QED
  BY <1>1, UpstreamHolds, PTL DEF Upstream!Spec

(***************************************************************************)
(* Federations and Shovels keep the promises of ObjectLifecycle.           *)
(***************************************************************************)

\* Versions are numbers: a later one differs from those before.
LEMMA LaterVersion ==
  ASSUME NEW v \in Nat
  PROVE  /\ v + 1 \in Nat /\ v + 1 # 0 /\ v <= v
         /\ \A w \in Nat : w <= v => w <= v + 1 /\ w # v + 1
BY SMT

\* Stage, case by case.
LEMMA StageOf ==
  ASSUME NEW x
  PROVE  /\ ~x.exists => Upstream!Stage(x) = "absent"
         /\ x.exists /\ x.deleting => Upstream!Stage(x) = "leaving"
         /\ x.exists /\ ~x.deleting /\ x.finalizer => Upstream!Stage(x) = "held"
         /\ x.exists /\ ~x.deleting /\ ~x.finalizer => Upstream!Stage(x) = "fresh"
BY Zenon DEF Upstream!Stage

\* The workers of other objects find what they relied on.
LEMMA OthersVersions ==
  ASSUME Upstream!LifecycleInv, NEW o \in UpstreamObjects, UNCHANGED seen,
         \A q \in UpstreamObjects : q # o => /\ object'[q] = object[q] /\ copy'[q] = copy[q]
                                     /\ pc'[q] = pc[q],
         \A q \in UpstreamObjects :
           q # o /\ seen # "schemaReplication"
           => server'[Upstream!Parameter(q)] = server[Upstream!Parameter(q)],
         Upstream!Versions(o)'
  PROVE  \A q \in UpstreamObjects : Upstream!Versions(q)'
<1> SUFFICES ASSUME NEW q \in UpstreamObjects, q # o PROVE Upstream!Versions(q)'
  BY Zenon
<1>1. Upstream!Versions(q) /\ Upstream!Parameter(q)' = Upstream!Parameter(q)
  BY Zenon DEF Upstream!LifecycleInv, Upstream!Parameter
<1> QED
  BY <1>1, Zenon DEF Upstream!Versions

\* Nothing that ObjectLifecycle sees has changed.
LEMMA LifecycleStays ==
  ASSUME UNCHANGED <<seen, extra>>,
         \A q \in UpstreamObjects : Upstream!Stage(object'[q]) = Upstream!Stage(object[q])
                                    /\ object'[q].exists = object[q].exists,
         \A q \in UpstreamObjects :
           server'[Upstream!Parameter(q)] = Upstream!None
           <=> server[Upstream!Parameter(q)] = Upstream!None
  PROVE  UNCHANGED Upstream!Lifecycle!vars
<1>1. \A q \in UpstreamObjects : Upstream!Parameter(q)' = Upstream!Parameter(q)
  BY Zenon DEF Upstream!Parameter
<1>2. [q \in UpstreamObjects |-> Upstream!Stage(object[q])]'
          = [q \in UpstreamObjects |-> Upstream!Stage(object[q])]
  BY Zenon
<1>3. [q \in UpstreamObjects |-> Upstream!Has(server[Upstream!Parameter(q)])]'
          = [q \in UpstreamObjects |-> Upstream!Has(server[Upstream!Parameter(q)])]
  BY <1>1, Zenon DEF Upstream!Has
<1>4. \A q \in UpstreamObjects : Upstream!Retained(q)' = Upstream!Retained(q)
  BY <1>1, Zenon DEF Upstream!Retained
<1>5. [q \in UpstreamObjects |-> Upstream!Retained(q)]'
          = [q \in UpstreamObjects |-> Upstream!Retained(q)]
  BY <1>4, Zenon
<1> QED
  BY <1>2, <1>3, <1>5, Zenon DEF Upstream!Lifecycle!vars

\* The object moves to another stage and nobody is let go or taken on.
LEMMA LifecycleMoves ==
  ASSUME NEW o \in UpstreamObjects,
         \A q \in UpstreamObjects : q # o => object'[q] = object[q]
  PROVE  Upstream!Lifecycle!Move(o, Upstream!Stage(object[o]), Upstream!Stage(object'[o]))
BY Zenon DEF Upstream!Lifecycle!Move

\* A step is one of ObjectLifecycle, or none that it sees.
LifecycleStep ==
  seen # "schemaReplication" => [Upstream!Lifecycle!Next]_(Upstream!Lifecycle!vars)

LEMMA LifecycleRests ==
  ASSUME UNCHANGED <<seen, extra, object, server>>
  PROVE  LifecycleStep
<1>1. UNCHANGED Upstream!Lifecycle!vars
  BY LifecycleStays, Zenon
<1> QED
  BY <1>1, Zenon DEF LifecycleStep

\* Reconcile returns: the worker has no copy.
LEMMA VersionsReturn ==
  ASSUME Upstream!LifecycleInv, NEW o \in UpstreamObjects, Upstream!Return(o),
         UNCHANGED <<seen, object>>,
         \A q \in UpstreamObjects :
           seen # "schemaReplication" /\ server[Upstream!Parameter(q)] = Upstream!None
           /\ ~object[q].finalizer
           => server'[Upstream!Parameter(q)] = Upstream!None
  PROVE  \A q \in UpstreamObjects : Upstream!Versions(q)'
<1>1. /\ pc'[o] = "idle"
      /\ \A q \in UpstreamObjects : q # o => copy'[q] = copy[q] /\ pc'[q] = pc[q]
  BY Zenon DEF Upstream!Return, Upstream!LifecycleInv, Upstream!UpstreamInv, Upstream!TypeOK
<1> SUFFICES ASSUME NEW q \in UpstreamObjects PROVE Upstream!Versions(q)'
  BY Zenon
<1>2. Upstream!Versions(q) /\ Upstream!Parameter(q)' = Upstream!Parameter(q)
  BY Zenon DEF Upstream!LifecycleInv, Upstream!Parameter
<1>3. CASE q = o
  BY <1>1, <1>2, <1>3, Zenon DEF Upstream!Versions
<1>4. CASE q # o
  BY <1>1, <1>2, <1>4, Zenon DEF Upstream!Versions
<1> QED
  BY <1>3, <1>4, Zenon

\* The worker goes on, with the copy it has, from a step that had one.
LEMMA VersionsGo ==
  ASSUME Upstream!LifecycleInv, NEW o \in UpstreamObjects, NEW step, Upstream!Go(o, step),
         step # "addFinalizer", pc[o] # "idle",
         UNCHANGED <<seen, object, copy>>,
         \A q \in UpstreamObjects :
           seen # "schemaReplication" /\ server[Upstream!Parameter(q)] = Upstream!None
           => server'[Upstream!Parameter(q)] = Upstream!None
  PROVE  \A q \in UpstreamObjects : Upstream!Versions(q)'
<1>1. pc'[o] = step /\ \A q \in UpstreamObjects : q # o => pc'[q] = pc[q]
  BY Zenon DEF Upstream!Go, Upstream!LifecycleInv, Upstream!UpstreamInv, Upstream!TypeOK
<1> SUFFICES ASSUME NEW q \in UpstreamObjects PROVE Upstream!Versions(q)'
  BY Zenon
<1>2. Upstream!Versions(q) /\ Upstream!Parameter(q)' = Upstream!Parameter(q)
  BY Zenon DEF Upstream!LifecycleInv, Upstream!Parameter
<1>3. CASE q = o
  BY <1>1, <1>2, <1>3, Zenon DEF Upstream!Versions
<1>4. CASE q # o
  BY <1>1, <1>2, <1>4, Zenon DEF Upstream!Versions
<1> QED
  BY <1>3, <1>4, Zenon

\* Get takes a copy.
LEMMA LifecycleGet ==
  ASSUME Upstream!LifecycleInv, NEW o \in UpstreamObjects, Upstream!Get(o)
  PROVE  (\A q \in UpstreamObjects : Upstream!Versions(q)') /\ LifecycleStep
<1>1. UNCHANGED <<seen, extra, object, server>> /\ object[o].exists
  BY Zenon DEF Upstream!Get
<1>2. /\ copy'[o] = object[o]
      /\ pc'[o] = "addFinalizer" => ~object[o].deleting /\ ~object[o].finalizer
      /\ \A q \in UpstreamObjects : q # o => copy'[q] = copy[q] /\ pc'[q] = pc[q]
  BY Zenon DEF Upstream!Get, Upstream!LifecycleInv, Upstream!UpstreamInv, Upstream!TypeOK
<1>3. Upstream!Versions(o)'
  <2>1. Upstream!Versions(o) /\ Upstream!Parameter(o)' = Upstream!Parameter(o)
    BY <1>1, Zenon DEF Upstream!LifecycleInv, Upstream!Parameter
  <2>2. object[o].version <= object[o].version
    BY <2>1, LaterVersion, Zenon DEF Upstream!Versions
  <2> QED
    BY <1>1, <1>2, <2>1, <2>2, Zenon DEF Upstream!Versions
<1>4. \A q \in UpstreamObjects : Upstream!Versions(q)'
  BY <1>1, <1>2, <1>3, OthersVersions, Zenon
<1> QED
  BY <1>1, <1>4, LifecycleRests, Zenon

\* Reading the credentials changes nothing.
LEMMA LifecycleReadStore ==
  ASSUME Upstream!LifecycleInv, NEW o \in UpstreamObjects, Upstream!ReadStore(o)
  PROVE  (\A q \in UpstreamObjects : Upstream!Versions(q)') /\ LifecycleStep
<1>1. UNCHANGED <<seen, extra, object, server>> /\ pc[o] = "readStore"
  BY Zenon DEF Upstream!ReadStore
<1>2. Upstream!Return(o) \/ (Upstream!Go(o, "declare") /\ UNCHANGED copy)
  BY Zenon DEF Upstream!ReadStore
<1>3. \A q \in UpstreamObjects : Upstream!Versions(q)'
  BY <1>1, <1>2, VersionsReturn, VersionsGo, Zenon
<1> QED
  BY <1>1, <1>3, LifecycleRests, Zenon

\* Nothing that is on the server, or given up, changes.
LEMMA LifecycleKeepsServer ==
  ASSUME UNCHANGED <<seen, extra, server>>,
         \A q \in UpstreamObjects :
           object'[q].exists = object[q].exists
           \/ server[Upstream!Parameter(q)] = Upstream!None
  PROVE  UNCHANGED <<[q \in UpstreamObjects |-> Upstream!Has(server[Upstream!Parameter(q)])],
                     [q \in UpstreamObjects |-> Upstream!Retained(q)],
                     [q \in UpstreamObjects |-> FALSE]>>
<1>1. \A q \in UpstreamObjects : Upstream!Parameter(q)' = Upstream!Parameter(q)
  BY Zenon DEF Upstream!Parameter
<1>2. [q \in UpstreamObjects |-> Upstream!Has(server[Upstream!Parameter(q)])]'
          = [q \in UpstreamObjects |-> Upstream!Has(server[Upstream!Parameter(q)])]
  BY <1>1, Zenon
<1>3. \A q \in UpstreamObjects : Upstream!Retained(q)' = Upstream!Retained(q)
  BY <1>1, Zenon DEF Upstream!Retained
<1>4. [q \in UpstreamObjects |-> Upstream!Retained(q)]'
          = [q \in UpstreamObjects |-> Upstream!Retained(q)]
  BY <1>3, Zenon
<1> QED
  BY <1>2, <1>4, Zenon

\* The finalizer is added to the object as it is: Hold.
LEMMA LifecycleAddFinalizer ==
  ASSUME Upstream!LifecycleInv, NEW o \in UpstreamObjects, Upstream!AddFinalizer(o)
  PROVE  (\A q \in UpstreamObjects : Upstream!Versions(q)') /\ LifecycleStep
<1> DEFINE new == [copy[o] EXCEPT !.finalizer = TRUE, !.version = @ + 1]
<1>1. UNCHANGED <<seen, extra, server>> /\ pc[o] = "addFinalizer"
  BY Zenon DEF Upstream!AddFinalizer
<1>2. CASE Upstream!Return(o) /\ UNCHANGED object
  <2>1. \A q \in UpstreamObjects : Upstream!Versions(q)'
    BY <1>1, <1>2, VersionsReturn, Zenon
  <2> QED
    BY <1>1, <1>2, <2>1, LifecycleRests, Zenon
<1>3. CASE /\ object[o].version = copy[o].version
           /\ object' = [object EXCEPT ![o] = new]
           /\ copy' = [copy EXCEPT ![o] = new]
           /\ Upstream!Go(o, "readStore")
  <2>1. Upstream!Versions(o) /\ Upstream!Parameter(o)' = Upstream!Parameter(o)
    BY <1>1, Zenon DEF Upstream!LifecycleInv, Upstream!Parameter
  <2>2. /\ copy[o] = object[o] /\ copy[o].version \in Nat
        /\ object[o].exists /\ ~object[o].deleting /\ ~object[o].finalizer
    BY <1>1, <1>3, <2>1, Zenon DEF Upstream!Versions
  <2>3. Upstream!Fields(copy[o])
    BY Zenon DEF Upstream!LifecycleInv, Upstream!UpstreamInv, Upstream!TypeOK
  <2>4. /\ new.exists = copy[o].exists /\ new.deleting = copy[o].deleting
        /\ new.finalizer = TRUE /\ new.version = copy[o].version + 1
    BY <2>3, Zenon DEF Upstream!Fields
  <2>5. /\ object'[o] = new /\ copy'[o] = new /\ pc'[o] = "readStore"
        /\ \A q \in UpstreamObjects : q # o => /\ object'[q] = object[q] /\ copy'[q] = copy[q]
                                       /\ pc'[q] = pc[q]
    BY <1>3, Zenon
       DEF Upstream!Go, Upstream!LifecycleInv, Upstream!UpstreamInv, Upstream!TypeOK
  <2> HIDE DEF new
  <2>6. new.exists /\ ~new.deleting /\ new.finalizer /\ new.version \in Nat /\ new.version # 0
        /\ new.version <= new.version
    <3>1. new.version \in Nat /\ new.version # 0
      BY <2>2, <2>4, SMT
    <3>2. new.version <= new.version
      BY <3>1, LaterVersion, Zenon
    <3> QED
      BY <2>2, <2>4, <3>1, <3>2, Zenon
  <2>7. Upstream!Versions(o)'
    BY <2>5, <2>6, Zenon DEF Upstream!Versions
  <2>8. \A q \in UpstreamObjects : Upstream!Versions(q)'
    BY <1>1, <2>5, <2>7, OthersVersions, Zenon
  <2>9. Upstream!Lifecycle!Hold(o)
    <3>1. Upstream!Stage(object[o]) = "fresh" /\ Upstream!Stage(object'[o]) = "held"
      BY <2>2, <2>5, <2>6, StageOf, Zenon
    <3>2. Upstream!Lifecycle!Move(o, "fresh", "held")
      BY <2>5, <3>1, LifecycleMoves, Zenon
    <3>3. \A q \in UpstreamObjects : object'[q].exists = object[q].exists
      BY <2>2, <2>4, <2>5, Zenon
    <3> QED
      BY <1>1, <3>2, <3>3, LifecycleKeepsServer, Zenon DEF Upstream!Lifecycle!Hold
  <2> QED
    BY <2>8, <2>9, Zenon DEF LifecycleStep, Upstream!Lifecycle!Next
<1> QED
  BY <1>2, <1>3, Zenon DEF Upstream!AddFinalizer, Upstream!Writable

\* One parameter of the server changes; nobody else's does, unless all have the same.
LEMMA OneParameter ==
  ASSUME Upstream!LifecycleInv, NEW o \in UpstreamObjects, NEW d,
         seen # "schemaReplication", UNCHANGED seen,
         server' = [server EXCEPT ![Upstream!Parameter(o)] = d]
  PROVE  /\ [q \in UpstreamObjects |-> Upstream!Has(server[Upstream!Parameter(q)])]'
              = [[q \in UpstreamObjects |-> Upstream!Has(server[Upstream!Parameter(q)])]
                   EXCEPT ![o] = Upstream!Has(d)]
         /\ server'[Upstream!Parameter(o)] = d
         /\ \A q \in UpstreamObjects :
              q # o => server'[Upstream!Parameter(q)] = server[Upstream!Parameter(q)]
<1>1. /\ \A q \in UpstreamObjects : Upstream!Parameter(q) = q /\ Upstream!Parameter(q)' = q
      /\ UpstreamObjects \subseteq DOMAIN server
  BY Zenon DEF Upstream!LifecycleInv, Upstream!UpstreamInv, Upstream!TypeOK, Upstream!Parameter
<1>2. /\ server'[o] = d
      /\ \A q \in UpstreamObjects : q # o => server'[q] = server[q]
  BY <1>1, Zenon
<1> QED
  BY <1>1, <1>2, Zenon

\* A parameter is put for an object that has the finalizer: Declare.
LEMMA LifecycleDeclare ==
  ASSUME Upstream!LifecycleInv, NEW o \in UpstreamObjects, Upstream!Declare(o)
  PROVE  (\A q \in UpstreamObjects : Upstream!Versions(q)') /\ LifecycleStep
<1>1. UNCHANGED <<seen, extra, object>> /\ pc[o] = "declare" /\ Upstream!Return(o)
  BY Zenon DEF Upstream!Declare
<1>2. CASE server' = server
  <2>1. \A q \in UpstreamObjects : Upstream!Versions(q)'
    BY <1>1, <1>2, VersionsReturn, Zenon
  <2> QED
    BY <1>1, <1>2, <2>1, LifecycleRests, Zenon
<1>3. CASE server' = [server EXCEPT ![Upstream!Parameter(o)] = found[o]]
  <2>1. object[o].exists /\ object[o].finalizer /\ found[o] # Upstream!None
    BY <1>1, Zenon DEF Upstream!LifecycleInv, Upstream!UpstreamInv, Upstream!Steady
  <2>2. \A q \in UpstreamObjects : Upstream!Versions(q)'
    BY <1>1, <1>3, <2>1, VersionsReturn, OneParameter, Zenon
  <2>3. ASSUME seen # "schemaReplication"
        PROVE  Upstream!Lifecycle!Declare(o, "parameter")
    <3>1. Upstream!Stage(object[o]) \in {"held", "leaving"}
      BY <2>1, StageOf, Zenon
    <3>2. [q \in UpstreamObjects |-> Upstream!Stage(object[q])]'
              = [q \in UpstreamObjects |-> Upstream!Stage(object[q])]
      BY <1>1, Zenon
    <3>3. Upstream!Has(found[o]) = "parameter"
      BY <2>1, Zenon DEF Upstream!Has
    <3>4. [q \in UpstreamObjects |-> Upstream!Has(server[Upstream!Parameter(q)])]'
              = [[q \in UpstreamObjects |-> Upstream!Has(server[Upstream!Parameter(q)])]
                   EXCEPT ![o] = "parameter"]
      <4>1. [q \in UpstreamObjects |-> Upstream!Has(server[Upstream!Parameter(q)])]'
                = [[q \in UpstreamObjects |-> Upstream!Has(server[Upstream!Parameter(q)])]
                     EXCEPT ![o] = Upstream!Has(found[o])]
        BY <1>1, <1>3, <2>3, OneParameter, Zenon
      <4> QED
        BY <3>3, <4>1, Zenon
    <3>5. [q \in UpstreamObjects |-> Upstream!Retained(q)]'
              = [[q \in UpstreamObjects |-> Upstream!Retained(q)] EXCEPT ![o] = FALSE]
      <4>1. /\ Upstream!Retained(o)' = FALSE
            /\ \A q \in UpstreamObjects : q # o => Upstream!Retained(q)' = Upstream!Retained(q)
        <5>1. \A q \in UpstreamObjects : Upstream!Parameter(q)' = Upstream!Parameter(q)
          BY <1>1, Zenon DEF Upstream!Parameter
        <5> QED
          BY <1>1, <1>3, <2>1, <2>3, <5>1, OneParameter, Zenon DEF Upstream!Retained
      <4> QED
        BY <4>1, Zenon
    <3>6. [q \in UpstreamObjects |-> FALSE]' = [[q \in UpstreamObjects |-> FALSE] EXCEPT ![o] = FALSE]
      BY Zenon
    <3> QED
      BY <3>1, <3>2, <3>4, <3>5, <3>6, Zenon DEF Upstream!Lifecycle!Declare
  <2> QED
    BY <2>2, <2>3, Zenon DEF LifecycleStep, Upstream!Lifecycle!Next
<1> QED
  BY <1>2, <1>3, Zenon DEF Upstream!Declare

\* A parameter is deleted for an object that is being deleted: Withdraw.
LEMMA LifecycleDelete ==
  ASSUME Upstream!LifecycleInv, NEW o \in UpstreamObjects, Upstream!Delete(o)
  PROVE  (\A q \in UpstreamObjects : Upstream!Versions(q)') /\ LifecycleStep
<1>1. /\ UNCHANGED <<seen, extra, object>> /\ pc[o] = "delete"
      /\ Upstream!Return(o) \/ (Upstream!Go(o, "removeFinalizer") /\ UNCHANGED copy)
  BY Zenon DEF Upstream!Delete
<1>2. CASE server' = server
  <2>1. \A q \in UpstreamObjects : Upstream!Versions(q)'
    BY <1>1, <1>2, VersionsReturn, VersionsGo, Zenon
  <2> QED
    BY <1>1, <1>2, <2>1, LifecycleRests, Zenon
<1>3. CASE server' = [server EXCEPT ![Upstream!Parameter(o)] = Upstream!None]
  <2>1. object[o].exists /\ object[o].deleting
    BY <1>1, Zenon DEF Upstream!LifecycleInv, Upstream!UpstreamInv, Upstream!Steady
  <2>2. \A q \in UpstreamObjects :
          seen # "schemaReplication" /\ server[Upstream!Parameter(q)] = Upstream!None
          => server'[Upstream!Parameter(q)] = Upstream!None
    BY <1>1, <1>3, OneParameter, Zenon
  <2>3. \A q \in UpstreamObjects : Upstream!Versions(q)'
    BY <1>1, <2>2, VersionsReturn, VersionsGo, Zenon
  <2>4. ASSUME seen # "schemaReplication"
        PROVE  Upstream!Lifecycle!Withdraw(o)
    <3>1. Upstream!Stage(object[o]) # "held"
      BY <2>1, StageOf, Zenon
    <3>2. [q \in UpstreamObjects |-> Upstream!Stage(object[q])]'
              = [q \in UpstreamObjects |-> Upstream!Stage(object[q])]
      BY <1>1, Zenon
    <3>3. Upstream!Has(Upstream!None) = "none"
      BY Zenon DEF Upstream!Has
    <3>4. [q \in UpstreamObjects |-> Upstream!Has(server[Upstream!Parameter(q)])]'
              = [[q \in UpstreamObjects |-> Upstream!Has(server[Upstream!Parameter(q)])]
                   EXCEPT ![o] = "none"]
      BY <1>1, <1>3, <2>4, <3>3, OneParameter, Zenon
    <3>5. \A q \in UpstreamObjects : Upstream!Retained(q)' = Upstream!Retained(q)
      <4>1. \A q \in UpstreamObjects : Upstream!Parameter(q)' = Upstream!Parameter(q)
        BY <1>1, Zenon DEF Upstream!Parameter
      <4> QED
        BY <1>1, <1>3, <2>1, <2>4, <4>1, OneParameter, Zenon DEF Upstream!Retained
    <3>6. [q \in UpstreamObjects |-> Upstream!Retained(q)]'
              = [q \in UpstreamObjects |-> Upstream!Retained(q)]
      BY <3>5, Zenon
    <3> QED
      BY <3>1, <3>2, <3>4, <3>6, Zenon DEF Upstream!Lifecycle!Withdraw
  <2> QED
    BY <2>3, <2>4, Zenon DEF LifecycleStep, Upstream!Lifecycle!Next
<1> QED
  BY <1>2, <1>3, Zenon DEF Upstream!Delete

\* An object that is gone has no version, so that no copy is of it.
LEMMA VersionsGone ==
  ASSUME Upstream!LifecycleInv, NEW o \in UpstreamObjects, UNCHANGED <<seen, server>>,
         object' = [object EXCEPT ![o] = Upstream!Gone],
         pc'[o] = "idle" \/ (pc'[o] = pc[o] /\ copy'[o] = copy[o]),
         \A q \in UpstreamObjects : q # o => copy'[q] = copy[q] /\ pc'[q] = pc[q]
  PROVE  \A q \in UpstreamObjects : Upstream!Versions(q)'
<1>1. /\ object'[o] = Upstream!Gone
      /\ \A q \in UpstreamObjects : q # o => object'[q] = object[q]
  BY Zenon DEF Upstream!LifecycleInv, Upstream!UpstreamInv, Upstream!TypeOK
<1>2. /\ ~Upstream!Gone.exists /\ ~Upstream!Gone.deleting /\ Upstream!Gone.version = 0
      /\ Upstream!Gone.version \in Nat
  BY DEF Upstream!Gone
<1>3. Upstream!Versions(o)'
  <2>1. Upstream!Versions(o)
    BY Zenon DEF Upstream!LifecycleInv
  <2> QED
    BY <1>1, <1>2, <2>1, Zenon DEF Upstream!Versions
<1> QED
  BY <1>1, <1>3, OthersVersions, Zenon

\* The finalizer is removed when nothing is left, or everything retained: Release.
LEMMA LifecycleRemoveFinalizer ==
  ASSUME Upstream!LifecycleInv, NEW o \in UpstreamObjects, Upstream!RemoveFinalizer(o)
  PROVE  (\A q \in UpstreamObjects : Upstream!Versions(q)') /\ LifecycleStep
<1>1. UNCHANGED <<seen, extra, server>> /\ pc[o] = "removeFinalizer" /\ Upstream!Return(o)
  BY Zenon DEF Upstream!RemoveFinalizer
<1>2. CASE object' = object
  <2>1. \A q \in UpstreamObjects : Upstream!Versions(q)'
    BY <1>1, <1>2, VersionsReturn, Zenon
  <2> QED
    BY <1>1, <1>2, <2>1, LifecycleRests, Zenon
<1>3. CASE object' = [object EXCEPT ![o] = Upstream!Gone]
  <2>1. /\ pc'[o] = "idle"
        /\ \A q \in UpstreamObjects : q # o => copy'[q] = copy[q] /\ pc'[q] = pc[q]
    BY <1>1, Zenon
       DEF Upstream!Return, Upstream!LifecycleInv, Upstream!UpstreamInv, Upstream!TypeOK
  <2>2. \A q \in UpstreamObjects : Upstream!Versions(q)'
    BY <1>1, <1>3, <2>1, VersionsGone, Zenon
  <2>3. /\ object'[o] = Upstream!Gone /\ ~Upstream!Gone.exists
        /\ \A q \in UpstreamObjects : q # o => object'[q] = object[q]
    BY <1>3, Zenon
       DEF Upstream!LifecycleInv, Upstream!UpstreamInv, Upstream!TypeOK, Upstream!Gone
  <2>4. object[o].exists /\ object[o].deleting
    BY <1>1, Zenon DEF Upstream!LifecycleInv, Upstream!UpstreamInv, Upstream!Steady
  <2>5. ASSUME seen # "schemaReplication"
        PROVE  Upstream!Lifecycle!Release(o)
    <3>1. Upstream!Lifecycle!Move(o, "leaving", "absent")
      BY <2>3, <2>4, StageOf, LifecycleMoves, Zenon
    <3>2. \A q \in UpstreamObjects : Upstream!Parameter(q) = q /\ Upstream!Parameter(q)' = q
      BY <1>1, <2>5, Zenon DEF Upstream!Parameter
    <3>3. ~extra => server[o] = Upstream!None
      BY <1>1, <3>2, Zenon DEF Upstream!LifecycleInv, Upstream!UpstreamInv, Upstream!TypeOK,
         Upstream!Kept, Upstream!Keeps
    <3>4. /\ Upstream!Retained(o)' <=> extra /\ server[o] # Upstream!None
          /\ \A q \in UpstreamObjects : q # o => Upstream!Retained(q)' = Upstream!Retained(q)
      BY <1>1, <2>3, <3>2, Zenon DEF Upstream!Retained
    <3>5. CASE server[o] = Upstream!None
      <4>1. Upstream!Retained(o)' = FALSE /\ Upstream!Has(server[Upstream!Parameter(o)]) = "none"
        BY <3>2, <3>4, <3>5, Zenon DEF Upstream!Retained, Upstream!Has
      <4>2. [q \in UpstreamObjects |-> Upstream!Retained(q)]'
                = [[q \in UpstreamObjects |-> Upstream!Retained(q)] EXCEPT ![o] = FALSE]
        BY <3>4, <4>1, Zenon
      <4> QED
        BY <1>1, <3>1, <3>2, <4>1, <4>2, Zenon DEF Upstream!Lifecycle!Release
    <3>6. CASE server[o] # Upstream!None
      <4>1. Upstream!Retained(o)' = TRUE
        BY <3>3, <3>4, <3>6, Zenon DEF Upstream!Retained
      <4>2. [q \in UpstreamObjects |-> Upstream!Retained(q)]'
                = [[q \in UpstreamObjects |-> Upstream!Retained(q)] EXCEPT ![o] = TRUE]
        BY <3>4, <4>1, Zenon
      <4> QED
        BY <1>1, <3>1, <3>2, <4>2, Zenon DEF Upstream!Lifecycle!Release
    <3> QED
      BY <3>5, <3>6, Zenon
  <2> QED
    BY <2>2, <2>5, Zenon DEF LifecycleStep, Upstream!Lifecycle!Next
<1> QED
  BY <1>2, <1>3, Zenon DEF Upstream!RemoveFinalizer

\* People write a new version of an object, and leave it its finalizer.
LEMMA VersionsWritten ==
  ASSUME Upstream!LifecycleInv, NEW o \in UpstreamObjects, NEW new,
         UNCHANGED <<seen, server, pc, copy>>,
         object' = [object EXCEPT ![o] = new],
         object[o].exists, new.exists, new.version = object[o].version + 1,
         new.finalizer = object[o].finalizer, new.deleting => new.finalizer
  PROVE  \A q \in UpstreamObjects : Upstream!Versions(q)'
<1>1. /\ object'[o] = new
      /\ \A q \in UpstreamObjects : q # o => object'[q] = object[q]
  BY Zenon DEF Upstream!LifecycleInv, Upstream!UpstreamInv, Upstream!TypeOK
<1>2. Upstream!Versions(o) /\ Upstream!Parameter(o)' = Upstream!Parameter(o)
  BY Zenon DEF Upstream!LifecycleInv, Upstream!Parameter
<1>3. /\ new.version \in Nat /\ new.version # 0
      /\ pc[o] # "idle" => copy[o].version <= new.version /\ copy[o].version # new.version
  <2>1. /\ object[o].version \in Nat
        /\ pc[o] # "idle" => copy[o].version \in Nat /\ copy[o].version <= object[o].version
    BY <1>2, Zenon DEF Upstream!Versions
  <2> QED
    BY <2>1, SMT
<1>4. Upstream!Versions(o)'
  BY <1>1, <1>2, <1>3, Zenon DEF Upstream!Versions
<1> QED
  BY <1>1, <1>4, OthersVersions, Zenon

\* An edit is none of the business of ObjectLifecycle.
LEMMA LifecycleEdit ==
  ASSUME Upstream!LifecycleInv, NEW o \in UpstreamObjects, Upstream!Edit(o)
  PROVE  (\A q \in UpstreamObjects : Upstream!Versions(q)') /\ LifecycleStep
<1>1. UNCHANGED <<seen, extra, pc, copy, server>> /\ object[o].exists
  BY Zenon DEF Upstream!Edit, Upstream!Workers
<1>2. PICK s : object' = [object EXCEPT ![o].spec = s, ![o].version = @ + 1]
  BY Zenon DEF Upstream!Edit
<1> DEFINE new == [object[o] EXCEPT !.spec = s, !.version = @ + 1]
<1>3. Upstream!Fields(object[o]) /\ Upstream!Versions(o)
  BY Zenon DEF Upstream!LifecycleInv, Upstream!UpstreamInv, Upstream!TypeOK
<1>4. object' = [object EXCEPT ![o] = new]
  BY <1>2, Zenon DEF Upstream!LifecycleInv, Upstream!UpstreamInv, Upstream!TypeOK
<1>5. /\ new.exists = object[o].exists /\ new.deleting = object[o].deleting
      /\ new.finalizer = object[o].finalizer /\ new.version = object[o].version + 1
  BY <1>3, Zenon DEF Upstream!Fields
<1> HIDE DEF new
<1>6. /\ object'[o] = new
      /\ \A q \in UpstreamObjects : q # o => object'[q] = object[q]
  BY <1>4, Zenon DEF Upstream!LifecycleInv, Upstream!UpstreamInv, Upstream!TypeOK
<1>7. \A q \in UpstreamObjects : Upstream!Versions(q)'
  BY <1>1, <1>3, <1>4, <1>5, VersionsWritten, Zenon DEF Upstream!Versions
<1>8. Upstream!Stage(new) = Upstream!Stage(object[o])
  BY <1>5, Zenon DEF Upstream!Stage
<1>9. UNCHANGED Upstream!Lifecycle!vars
  BY <1>1, <1>5, <1>6, <1>8, LifecycleStays, Zenon
<1> QED
  BY <1>7, <1>9, Zenon DEF LifecycleStep

\* Deletion marks an object that has the finalizer and drops one that has none: Mark, Drop.
LEMMA LifecycleDeleteObject ==
  ASSUME Upstream!LifecycleInv, NEW o \in UpstreamObjects, Upstream!DeleteObject(o)
  PROVE  (\A q \in UpstreamObjects : Upstream!Versions(q)') /\ LifecycleStep
<1>1. UNCHANGED <<seen, extra, pc, copy, server>> /\ object[o].exists /\ ~object[o].deleting
  BY Zenon DEF Upstream!DeleteObject, Upstream!Workers
<1>2. Upstream!Fields(object[o]) /\ Upstream!Versions(o)
  BY Zenon DEF Upstream!LifecycleInv, Upstream!UpstreamInv, Upstream!TypeOK
<1>3. CASE object[o].finalizer
  <2> DEFINE new == [object[o] EXCEPT !.deleting = TRUE, !.version = @ + 1]
  <2>1. object' = [object EXCEPT ![o] = new]
    BY <1>3, Zenon
       DEF Upstream!DeleteObject, Upstream!LifecycleInv, Upstream!UpstreamInv, Upstream!TypeOK
  <2>2. /\ new.exists = object[o].exists /\ new.deleting = TRUE
        /\ new.finalizer = object[o].finalizer /\ new.version = object[o].version + 1
    BY <1>2, Zenon DEF Upstream!Fields
  <2> HIDE DEF new
  <2>3. /\ object'[o] = new
        /\ \A q \in UpstreamObjects : q # o => object'[q] = object[q]
    BY <2>1, Zenon DEF Upstream!LifecycleInv, Upstream!UpstreamInv, Upstream!TypeOK
  <2>4. \A q \in UpstreamObjects : Upstream!Versions(q)'
    BY <1>1, <1>3, <2>1, <2>2, VersionsWritten, Zenon
  <2>5. Upstream!Lifecycle!Move(o, "held", "leaving")
    BY <1>1, <1>3, <2>2, <2>3, StageOf, LifecycleMoves, Zenon
  <2>6. Upstream!Lifecycle!Mark(o)
    <3>1. \A q \in UpstreamObjects : object'[q].exists = object[q].exists
      BY <2>2, <2>3, Zenon
    <3> QED
      BY <1>1, <2>5, <3>1, LifecycleKeepsServer, Zenon DEF Upstream!Lifecycle!Mark
  <2> QED
    BY <2>4, <2>6, Zenon DEF LifecycleStep, Upstream!Lifecycle!Next
<1>4. CASE ~object[o].finalizer
  <2>1. object' = [object EXCEPT ![o] = Upstream!Gone]
    BY <1>4, Zenon DEF Upstream!DeleteObject
  <2>2. /\ object'[o] = Upstream!Gone /\ ~Upstream!Gone.exists
        /\ \A q \in UpstreamObjects : q # o => object'[q] = object[q]
    BY <2>1, Zenon
       DEF Upstream!LifecycleInv, Upstream!UpstreamInv, Upstream!TypeOK, Upstream!Gone
  <2>3. \A q \in UpstreamObjects : Upstream!Versions(q)'
    BY <1>1, <2>1, VersionsGone, Zenon
  <2>4. Upstream!Lifecycle!Move(o, "fresh", "absent")
    BY <1>1, <1>4, <2>2, StageOf, LifecycleMoves, Zenon
  <2>5. ASSUME seen # "schemaReplication"
        PROVE  Upstream!Lifecycle!Drop(o)
    <3>1. server[Upstream!Parameter(o)] = Upstream!None
      BY <1>1, <1>2, <1>4, <2>5, Zenon DEF Upstream!Versions
    <3> QED
      BY <1>1, <2>2, <2>4, <3>1, LifecycleKeepsServer, Zenon DEF Upstream!Lifecycle!Drop
  <2> QED
    BY <2>3, <2>5, Zenon DEF LifecycleStep, Upstream!Lifecycle!Next
<1> QED
  BY <1>3, <1>4, Zenon

\* Every step keeps the invariant and is a step of ObjectLifecycle, or none.
LEMMA LifecycleNext ==
  ASSUME Upstream!LifecycleInv, [Upstream!Next]_(Upstream!vars)
  PROVE  Upstream!LifecycleInv' /\ LifecycleStep
<1>1. Upstream!UpstreamInv'
  BY UpstreamNext, Zenon DEF Upstream!LifecycleInv
<1>2. CASE Upstream!WriteStore \/ UNCHANGED Upstream!vars
  <2>1. UNCHANGED <<seen, extra, object, pc, copy, server>>
    BY <1>2, Zenon DEF Upstream!WriteStore, Upstream!Workers, Upstream!vars
  <2>2. \A q \in UpstreamObjects : Upstream!Versions(q)'
    BY <2>1, Zenon DEF Upstream!LifecycleInv, Upstream!Versions, Upstream!Parameter
  <2> QED
    BY <1>1, <2>1, <2>2, LifecycleRests, Zenon DEF Upstream!LifecycleInv
<1>3. CASE \E o \in UpstreamObjects :
             Upstream!Reconcile(o) \/ Upstream!Edit(o) \/ Upstream!DeleteObject(o)
  <2>1. (\A q \in UpstreamObjects : Upstream!Versions(q)') /\ LifecycleStep
    BY <1>3, LifecycleGet, LifecycleAddFinalizer, LifecycleReadStore, LifecycleDeclare,
       LifecycleDelete, LifecycleRemoveFinalizer, LifecycleEdit, LifecycleDeleteObject, Zenon
       DEF Upstream!Reconcile
  <2> QED
    BY <1>1, <2>1, Zenon DEF Upstream!LifecycleInv
<1> QED
  BY <1>2, <1>3, Zenon DEF Upstream!Next

\* At the start no object has the finalizer, and nothing is on the server.
LEMMA LifecycleInit ==
  ASSUME Upstream!Init
  PROVE  Upstream!LifecycleInv /\ Upstream!Lifecycle!Init
<1>1. \A o \in UpstreamObjects : pc[o] = "idle" /\ server[Upstream!Parameter(o)] = Upstream!None
  BY Zenon DEF Upstream!Init
<1>2. \A o \in UpstreamObjects :
        /\ ~object[o].deleting /\ ~object[o].finalizer /\ object[o].version \in Nat
        /\ object[o].exists <=> object[o].version # 0
  <2>1. PICK s : object = [o \in UpstreamObjects |->
                   IF o = Upstream!FirstObject \/ seen = "schemaReplication"
                   THEN [exists |-> TRUE, deleting |-> FALSE, finalizer |-> FALSE,
                         version |-> 1, spec |-> s]
                   ELSE Upstream!Gone]
    BY Zenon DEF Upstream!Init
  <2> QED
    BY <2>1, SMT DEF Upstream!Gone
<1>3. \A o \in UpstreamObjects : Upstream!Versions(o)
  BY <1>1, <1>2, Zenon DEF Upstream!Versions
<1>4. [o \in UpstreamObjects |-> Upstream!Stage(object[o])]
          \in [UpstreamObjects -> {"absent", "fresh"}]
  <2>1. \A o \in UpstreamObjects : Upstream!Stage(object[o]) \in {"absent", "fresh"}
    BY <1>2, StageOf, Zenon
  <2> QED
    BY <2>1, Zenon
<1>5. \A o \in UpstreamObjects : /\ Upstream!Has(server[Upstream!Parameter(o)]) = "none"
                                 /\ Upstream!Retained(o) = FALSE
  BY <1>1, Zenon DEF Upstream!Has, Upstream!Retained
<1>6. Upstream!Lifecycle!Init
  BY <1>4, <1>5, Zenon DEF Upstream!Lifecycle!Init
<1> QED
  BY <1>3, <1>6, UpstreamInit, Zenon DEF Upstream!LifecycleInv

\* Federations and Shovels keep the promises of ObjectLifecycle step by step, though their
\* DeclareFunc reads the credentials before it puts anything, though people edit and delete
\* the objects meanwhile, and whatever calls are lost: an object has the finalizer before
\* there is a parameter, only a parameter of an object that is going is taken away, and an
\* object goes when its parameter is gone or retained.
THEOREM UpstreamsKeepLifecycle == Upstream!Spec => Upstream!KeepsLifecycle
<1>1. Upstream!LifecycleInv /\ [Upstream!Next]_(Upstream!vars)
      => [seen # "schemaReplication" => Upstream!Lifecycle!Next]_(Upstream!Lifecycle!vars)
  BY LifecycleNext, Zenon DEF LifecycleStep
<1>2. Upstream!LifecycleInv /\ [Upstream!Next]_(Upstream!vars) => Upstream!LifecycleInv'
  BY LifecycleNext, Zenon
<1> QED
  BY <1>1, <1>2, LifecycleInit, PTL DEF Upstream!Spec, Upstream!KeepsLifecycle
--------------------------------------------------------------------------------
(***************************************************************************)
(* Permissions: Permissions, TopicPermissions and their User.              *)
(***************************************************************************)

\* An object that was just created has no finalizer, and nothing is granted.
LEMMA PermissionsInit ==
  ASSUME Granting!Init
  PROVE  Granting!PermissionsInv
<1>1. Granting!NoUser \in Granting!Users /\ Granting!NoUser.username
          = "" /\ Granting!Gone \in Granting!Objects
  BY Zenon DEF Granting!NoUser, Granting!Users, Granting!Gone, Granting!Objects
<1>2. source \in Granting!Users /\ source.username = ""
  BY Zenon DEF Granting!Init, Granting!Users
<1>3. seen \in Granting!Users /\ seen.username = ""
  BY <1>1, <1>2, Zenon DEF Granting!Init
<1>4. object \in Granting!Objects /\ object.exists /\ ~object.deleting /\ object.owner = 0
  BY Zenon DEF Granting!Init, Granting!Gone, Granting!Objects
<1>5. pc = "idle" /\ server = {} /\ history = {} /\ copy = Granting!Gone /\ spec \in BOOLEAN
  BY Zenon DEF Granting!Init
<1>6. Granting!TypeOK
  BY <1>1, <1>2, <1>3, <1>4, <1>5, Zenon DEF Granting!TypeOK
<1> QED
  BY <1>2, <1>3, <1>4, <1>5, <1>6, ZenonT(30) DEF Granting!PermissionsInv, Granting!Finalized,
     Granting!Working, Granting!NamesKnown, Granting!Revoking, Granting!NoGrantSurvives

\* An update leaves the object as it was, or makes it p with another version.
LEMMA UpdateStores ==
  ASSUME Granting!TypeOK, NEW p \in Granting!Objects, NEW then, Granting!Update(p, then)
  PROVE  \/ pc' = "idle" /\ UNCHANGED <<object, copy>>
         \/ /\ pc' = then /\ object.exists /\ UNCHANGED copy /\ p = object
            /\ UNCHANGED object
         \/ /\ pc' = then /\ object.exists
            /\ object' \in Granting!Objects /\ copy' = object'
            /\ object'.exists = p.exists /\ object'.deleting = p.deleting
            /\ object'.finalizer = p.finalizer /\ object'.owner = p.owner
<1>1. object.version + 1 \in Nat
  BY DEF Granting!TypeOK, Granting!Objects
<1>2. CASE Granting!Fail /\ UNCHANGED <<object, copy>>
  BY <1>2, Zenon DEF Granting!Fail
<1>3. CASE pc' = then /\ object.exists /\ p = object /\ UNCHANGED <<object, copy>>
  BY <1>3, Zenon
<1>4. CASE pc' = then /\ object.exists /\ Granting!Stored(p) /\ copy' = object'
  <2>1. object' = [p EXCEPT !.version = object.version + 1]
    BY <1>4, Zenon DEF Granting!Stored
  <2>2. /\ object' \in Granting!Objects
        /\ object'.exists = p.exists /\ object'.deleting = p.deleting
        /\ object'.finalizer = p.finalizer /\ object'.owner = p.owner
    BY <1>1, <2>1, Zenon DEF Granting!Objects
  <2> QED
    BY <1>4, <2>2, Zenon
<1> QED
  BY <1>2, <1>3, <1>4, Zenon DEF Granting!Update

\* What the worker does to the object, with nothing granted or revoked.
LEMMA UpdatesKeep ==
  ASSUME Granting!PermissionsInv,
         Granting!AddFinalizer \/ Granting!SetControllerReference \/ Granting!RemoveFinalizer
  PROVE  Granting!PermissionsInv'
<1>0. UNCHANGED <<spec, source, history, seen, found, server>>
  BY Zenon
     DEF Granting!AddFinalizer, Granting!SetControllerReference, Granting!RemoveFinalizer,
         Granting!world
<1> USE DEF Granting!PermissionsInv
<1>1. CASE Granting!AddFinalizer
  <2> DEFINE p == [copy EXCEPT !.finalizer = TRUE]
  <2>1. p \in Granting!Objects /\ p.exists /\ p.finalizer /\ copy.exists
    BY <1>1, Zenon DEF Granting!AddFinalizer, Granting!TypeOK, Granting!Objects,
       Granting!Finalized
  <2>2. Granting!Update(p, "findUser")
    BY <1>1, Zenon DEF Granting!AddFinalizer
  <2> HIDE DEF p
  <2>3. \/ pc' = "idle" /\ UNCHANGED <<object, copy>>
        \/ /\ pc' = "findUser" /\ object' \in Granting!Objects /\ copy' \in Granting!Objects
           /\ copy'.exists
           /\ object'.exists /\ object'.finalizer
    BY <2>1, <2>2, UpdateStores, Zenon DEF Granting!TypeOK
  <2>4. Granting!TypeOK' /\ Granting!Finalized'
    BY <1>0, <2>3, Zenon DEF Granting!TypeOK, Granting!Finalized, Granting!Working
  <2> QED
    BY <1>0, <2>3, <2>4, Zenon DEF Granting!NamesKnown, Granting!Known, Granting!Revoking,
       Granting!NoGrantSurvives
<1>2. CASE Granting!SetControllerReference
  <2> DEFINE p == [object EXCEPT !.owner = copy.owner]
  <2>1. object.exists /\ object.finalizer /\ copy.exists /\ pc = "setOwner"
    BY <1>2, Zenon DEF Granting!SetControllerReference, Granting!Finalized, Granting!Working
  <2>2. p \in Granting!Objects /\ p.exists /\ p.finalizer
    BY <2>1, Zenon DEF Granting!TypeOK, Granting!Objects
  <2>3. Granting!Update(p, "grant")
    BY <1>2, Zenon DEF Granting!SetControllerReference
  <2> HIDE DEF p
  <2>4. \/ pc' = "idle" /\ UNCHANGED <<object, copy>>
        \/ /\ pc' = "grant" /\ object' \in Granting!Objects /\ copy' \in Granting!Objects
           /\ copy'.exists
           /\ object'.exists /\ object'.finalizer
    BY <2>1, <2>2, <2>3, UpdateStores, Zenon DEF Granting!TypeOK
  <2>5. Granting!TypeOK' /\ Granting!Finalized'
    BY <1>0, <2>4, Zenon DEF Granting!TypeOK, Granting!Finalized, Granting!Working
  <2> QED
    BY <1>0, <2>1, <2>4, <2>5, Zenon DEF Granting!NamesKnown, Granting!Known, Granting!Revoking,
       Granting!NoGrantSurvives
<1>3. CASE Granting!RemoveFinalizer
  <2>1. Granting!Gone \in Granting!Objects /\ ~Granting!Gone.exists
    BY Zenon DEF Granting!Gone, Granting!Objects
  <2>2. pc = "removeFinalizer" /\ Granting!Update(Granting!Gone,
  "idle") /\ server \subseteq history
    BY <1>3, Zenon DEF Granting!RemoveFinalizer, Granting!Revoking
  <2>3. /\ pc' = "idle"
        /\ \/ UNCHANGED <<object, copy>>
           \/ object' \in Granting!Objects /\ copy' \in Granting!Objects /\ ~object'.exists
    BY <2>1, <2>2, UpdateStores, Zenon DEF Granting!TypeOK
  <2>4. Granting!TypeOK' /\ Granting!Finalized'
    BY <1>0, <2>3, Zenon DEF Granting!TypeOK, Granting!Finalized, Granting!Working
  <2> QED
    BY <1>0, <2>2, <2>3, <2>4, Zenon DEF Granting!NamesKnown, Granting!Known, Granting!Revoking,
       Granting!NoGrantSurvives
<1> QED
  BY <1>1, <1>2, <1>3, Zenon

\* The worker looks for the name.
LEMMA FindUserKeeps ==
  ASSUME Granting!PermissionsInv, Granting!FindUser
  PROVE  Granting!PermissionsInv'
<1> USE DEF Granting!PermissionsInv
<1>0. /\ UNCHANGED <<spec, source, history, seen, object, server>>
      /\ pc = "findUser" /\ found' = Granting!GetUsernameFromUser
      /\ object.exists /\ object.finalizer /\ copy.exists
  BY Zenon DEF Granting!FindUser, Granting!world, Granting!Finalized, Granting!Working
<1>1. copy' \in Granting!Objects /\ copy'.exists
  BY <1>0, Zenon DEF Granting!FindUser, Granting!TypeOK, Granting!Objects, Granting!Users
<1>2. /\ pc' \in {"idle", "setOwner", "grant", "revoke", "removeFinalizer"}
      /\ pc' \in {"setOwner", "grant"} => Granting!GetUsernameFromUser # ""
      /\ pc' = "removeFinalizer" => Granting!GetUsernameFromUser = ""
  BY Zenon DEF Granting!FindUser, Granting!OnUserError, Granting!Fail
<1>3. Granting!TypeOK' /\ Granting!Finalized'
  BY <1>0, <1>1, <1>2, Zenon DEF Granting!TypeOK, Granting!Finalized, Granting!Working
<1>4. server \subseteq history \cup {Granting!GetUsernameFromUser}
  BY Zenon DEF Granting!NamesKnown, Granting!Known, Granting!GetUsernameFromUser
<1>5. Granting!NamesKnown'
  BY <1>0, <1>2, Zenon DEF Granting!NamesKnown, Granting!Known, Granting!GetUsernameFromUser
<1>6. Granting!Revoking'
  BY <1>0, <1>2, <1>4, Zenon DEF Granting!Revoking, Granting!NamesKnown
<1> QED
  BY <1>0, <1>3, <1>5, <1>6, Zenon DEF Granting!NoGrantSurvives

\* The worker reads, grants and revokes.
LEMMA CallsKeep ==
  ASSUME Granting!PermissionsInv,
         Granting!Get \/ Granting!Grant \/ Granting!Revoke \/ Granting!Resync
  PROVE  Granting!PermissionsInv'
<1>0. UNCHANGED <<spec, source, history, seen, object, found>>
  BY Zenon DEF Granting!Get, Granting!Grant, Granting!Revoke, Granting!Resync, Granting!world
<1> USE DEF Granting!PermissionsInv
<1>1. CASE Granting!Get
  <2>1. /\ copy' = object /\ server' = server
        /\ pc' \in {"idle", "findUser", "addFinalizer"}
        /\ pc' # "idle" => object.exists
        /\ pc' = "findUser" => object.deleting \/ object.finalizer
    BY <1>1, Zenon DEF Granting!Get
  <2>2. Granting!TypeOK' /\ Granting!Finalized'
    BY <1>0, <2>1, Zenon DEF Granting!TypeOK, Granting!Finalized, Granting!Working
  <2> QED
    BY <1>0, <2>1, <2>2, Zenon DEF Granting!NamesKnown, Granting!Known, Granting!Revoking,
       Granting!NoGrantSurvives
<1>2. CASE Granting!Grant
  <2>1. copy' = copy /\ pc = "grant" /\ pc' = "idle" /\ server' \in {server, server \cup {found}}
    BY <1>2, Zenon DEF Granting!Grant, Granting!Fail
  <2>2. Granting!TypeOK' /\ Granting!Finalized'
    BY <1>0, <2>1, Zenon DEF Granting!TypeOK, Granting!Finalized, Granting!Working
  <2>3. Granting!NamesKnown'
    BY <1>0, <2>1, Zenon DEF Granting!NamesKnown, Granting!Known
  <2> QED
    BY <1>0, <2>1, <2>2, <2>3, Zenon
       DEF Granting!Revoking, Granting!NoGrantSurvives, Granting!Finalized, Granting!Working
<1>3. CASE Granting!Revoke
  <2>1. /\ copy' = copy /\ pc = "revoke" /\ server' \in {server, server \ {found}}
        /\ pc' = "idle" \/ (pc' = "removeFinalizer" /\ server' = server \ {found})
    BY <1>3, Zenon DEF Granting!Revoke, Granting!Revoked, Granting!Fail
  <2>2. Granting!TypeOK' /\ Granting!Finalized'
    BY <1>0, <2>1, Zenon DEF Granting!TypeOK, Granting!Finalized, Granting!Working
  <2>3. Granting!NamesKnown'
    BY <1>0, <2>1, Zenon DEF Granting!NamesKnown, Granting!Known
  <2> QED
    BY <1>0, <2>1, <2>2, <2>3, Zenon DEF Granting!Revoking, Granting!NoGrantSurvives
<1>4. CASE Granting!Resync
  <2>1. UNCHANGED <<pc, copy, server>>
    BY <1>4, Zenon DEF Granting!Resync
  <2> QED
    BY <1>0, <2>1, Zenon DEF Granting!TypeOK, Granting!Finalized, Granting!Working,
       Granting!NamesKnown, Granting!Known, Granting!Revoking, Granting!NoGrantSurvives
<1> QED
  BY <1>1, <1>2, <1>3, <1>4, Zenon

\* What becomes of the User: a name that is taken from it is in left.
LEMMA UserKeeps ==
  ASSUME Granting!PermissionsInv,
         Granting!UserReconciler \/ Granting!SyncUser \/ Granting!DeleteUser
         \/ Granting!RecreateUser \/ \E n \in Usernames : Granting!NameUser(n)
  PROVE  Granting!PermissionsInv'
<1>0. UNCHANGED <<spec, pc, copy, found, object>>
  BY Zenon DEF Granting!UserReconciler, Granting!NameUser, Granting!PutUser, Granting!UserGone,
     Granting!SyncUser, Granting!DeleteUser, Granting!RecreateUser, Granting!Worker
<1> USE DEF Granting!PermissionsInv
<1>1. /\ source' \in Granting!Users /\ seen' \in Granting!Users
      /\ history \ {""} \subseteq history' /\ server' \subseteq server
      /\ source'.username = source.username \/ source.username = "" \/ source.username \in history'
      /\ seen'.username = seen.username \/ seen'.username = source.username
      /\ seen' = seen \/ source' = source
  <2>1. CASE Granting!SyncUser
    BY <2>1, Zenon DEF Granting!SyncUser, Granting!world, Granting!TypeOK
  <2>2. CASE \E n \in Usernames : Granting!NameUser(n)
    <3>1. PICK n \in Usernames : Granting!NameUser(n)
      BY <2>2, Zenon
    <3>2. source' = [source EXCEPT !.username = n] /\ history'
              = (history \cup {source.username}) \ {""}
      BY <3>1, Zenon DEF Granting!NameUser
    <3>3. UNCHANGED <<seen, server>>
      BY <3>1, Zenon DEF Granting!NameUser
    <3> QED
      BY <3>2, <3>3, Zenon DEF Granting!TypeOK, Granting!Users
  <2>3. CASE Granting!PutUser
    BY <2>3, Zenon DEF Granting!PutUser, Granting!TypeOK
  <2>4. CASE Granting!UserGone
    BY <2>4, Zenon DEF Granting!UserGone, Granting!TypeOK, Granting!Users, Granting!NoUser
  <2>5. CASE Granting!DeleteUser
    BY <2>5, Zenon DEF Granting!DeleteUser, Granting!TypeOK, Granting!Users
  <2>6. CASE Granting!RecreateUser
    BY <2>6, Zenon DEF Granting!RecreateUser, Granting!TypeOK, Granting!Users, Granting!NoUser
  <2> QED
    BY <2>1, <2>2, <2>3, <2>4, <2>5, <2>6, ZenonT(30) DEF Granting!UserReconciler
<1>2. Granting!TypeOK' /\ Granting!Finalized'
  BY <1>0, <1>1, Zenon DEF Granting!TypeOK, Granting!Finalized, Granting!Working
<1>3. ASSUME NEW n, n # "", Granting!Known(n) PROVE Granting!Known(n)'
  BY <1>1, <1>3, Zenon DEF Granting!Known
<1>4. spec => seen'.username \in history' \cup {"", source'.username}
  BY <1>1, Zenon DEF Granting!NamesKnown
<1>5. Granting!NamesKnown'
  BY <1>0, <1>1, <1>3, <1>4, Zenon DEF Granting!NamesKnown
<1>6. ASSUME NEW n, n \in server', n \in history PROVE n \in history'
  BY <1>1, <1>6, Zenon DEF Granting!NamesKnown
<1> QED
  BY <1>0, <1>1, <1>2, <1>5, <1>6, Zenon DEF Granting!Revoking, Granting!NoGrantSurvives

\* The object is deleted by people or by the garbage collector.
LEMMA DeletionKeeps ==
  ASSUME Granting!PermissionsInv, Granting!Collect \/ Granting!DeletePermission
  PROVE  Granting!PermissionsInv'
<1>0. UNCHANGED <<spec, pc, copy, found, source, history, seen, server>> /\ object.exists
  BY Zenon DEF Granting!Collect, Granting!DeletePermission, Granting!Worker, Granting!world
<1> USE DEF Granting!PermissionsInv
<1>1. object.version + 1 \in Nat /\ Granting!Gone \in Granting!Objects /\ ~Granting!Gone.exists
  BY DEF Granting!TypeOK, Granting!Objects, Granting!Gone
<1>2. CASE Granting!Collect \/ object.finalizer
  <2>1. object.finalizer
    BY <1>2, Zenon DEF Granting!Collect, Granting!Finalized
  <2>2. object' = [[object EXCEPT !.deleting = TRUE] EXCEPT !.version = object.version + 1]
    BY <1>2, <2>1, Zenon DEF Granting!Collect, Granting!DeletePermission, Granting!Stored
  <2>3. object' \in Granting!Objects /\ object'.exists /\ object'.finalizer
    BY <1>0, <1>1, <2>1, <2>2, Zenon DEF Granting!TypeOK, Granting!Objects
  <2> QED
    BY <1>0, <2>3, Zenon DEF Granting!TypeOK, Granting!Finalized, Granting!Working,
       Granting!NamesKnown, Granting!Known, Granting!Revoking, Granting!NoGrantSurvives
<1>3. CASE Granting!DeletePermission /\ ~object.finalizer
  <2>1. object' = [Granting!Gone EXCEPT !.version = object.version + 1]
    BY <1>3, Zenon DEF Granting!DeletePermission, Granting!Stored
  <2>2. object' \in Granting!Objects /\ ~object'.exists
    BY <1>1, <2>1, Zenon DEF Granting!Objects
  <2>3. server = {} /\ ~Granting!Working
    BY <1>0, <1>3, Zenon DEF Granting!Finalized
  <2> QED
    BY <1>0, <2>2, <2>3, Zenon DEF Granting!TypeOK, Granting!Finalized, Granting!Working,
       Granting!NamesKnown, Granting!Known, Granting!Revoking, Granting!NoGrantSurvives
<1> QED
  BY <1>2, <1>3, Zenon

\* When the object is gone, so are its grants, but for names that the User had before: the
\* cache still has the others when DeleteFunc looks for what to revoke.
THEOREM NoGrantLeft == Granting!Spec => []Granting!NoGrantSurvives
<1>1. Granting!PermissionsInv => Granting!NoGrantSurvives
  BY Zenon DEF Granting!PermissionsInv
<1>2. ASSUME Granting!PermissionsInv, UNCHANGED Granting!vars PROVE Granting!PermissionsInv'
  BY <1>2, Zenon DEF Granting!vars, Granting!world, Granting!PermissionsInv, Granting!TypeOK,
     Granting!Finalized, Granting!Working, Granting!NamesKnown, Granting!Known,
              Granting!Revoking, Granting!NoGrantSurvives
<1>3. Granting!PermissionsInv /\ [Granting!Next]_(Granting!vars) => Granting!PermissionsInv'
  BY <1>2, UpdatesKeep, FindUserKeeps, CallsKeep, UserKeeps, DeletionKeeps, Zenon
     DEF Granting!Next, Granting!Reconcile
<1> QED
  BY <1>1, <1>3, PermissionsInit, PTL DEF Granting!Spec
--------------------------------------------------------------------------------
(***************************************************************************)
(* The behaviours of Parts.                                                *)
(***************************************************************************)

\* A behaviour stays with its component.
LEMMA PartStays ==
  ASSUME [Next]_vars
  PROVE  part' = part
  BY Zenon
     DEF Next, vars, OfDeclaration, OfDeletion, OfUnbinding, OfLimits, OfGranting, OfUpstream,
         OfProcess

\* A behaviour of Parts is one of the component that part names; the same for each.
LEMMA UpstreamPart ==
  Spec => \/ [](part = "upstream") /\ Upstream!Spec
          \/ []~(part = "upstream")
<1>1. Init /\ part = "upstream" => Upstream!Init
  BY Zenon DEF Init
<1>2. part = "upstream" /\ [Next]_vars => [Upstream!Next]_(Upstream!vars)
  BY Zenon
     DEF Next, vars, Upstream!vars, OfDeclaration, OfDeletion, OfUnbinding, OfLimits, OfGranting,
         OfUpstream, OfProcess
<1>3. [Next]_vars => ((part = "upstream")' <=> part = "upstream")
  BY PartStays, Zenon
<1> QED
  BY <1>1, <1>2, <1>3, PTL DEF Spec, Upstream!Spec

LEMMA GrantingPart ==
  Spec => \/ [](part = "granting") /\ Granting!Spec
          \/ []~(part = "granting")
<1>1. Init /\ part = "granting" => Granting!Init
  BY Zenon DEF Init
<1>2. part = "granting" /\ [Next]_vars => [Granting!Next]_(Granting!vars)
  BY Zenon
     DEF Next, vars, Granting!vars, Granting!world, OfDeclaration, OfDeletion, OfUnbinding,
         OfLimits, OfGranting, OfUpstream, OfProcess
<1>3. [Next]_vars => ((part = "granting")' <=> part = "granting")
  BY PartStays, Zenon
<1> QED
  BY <1>1, <1>2, <1>3, PTL DEF Spec, Granting!Spec

\* Deleted Federations, Shovels and SchemaReplications leave no parameter behind.
THEOREM NoParametersLeft == Spec => []NoParameterSurvives
  BY UpstreamPart, NothingLeft, PTL DEF NoParameterSurvives

\* No grant outlives its Permission or TopicPermission, unless the User changed its name.
THEOREM NoGrantsLeft == Spec => []NoGrantSurvives
  BY GrantingPart, NoGrantLeft, PTL DEF NoGrantSurvives
================================================================================
