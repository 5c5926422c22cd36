---------------------------- MODULE BindingDeletion ----------------------------
(***************************************************************************)
(* Deletion of a binding by BindingReconciler.DeleteFunc.  Bindings have   *)
(* no names: between one source and one destination the server tells them  *)
(* apart by routing key and arguments, and deletes by a "properties key"   *)
(* that it derives from both.  Without arguments DeleteFunc derives that   *)
(* key itself; with arguments it lists the bindings and takes the key from *)
(* the one that matches.                                                   *)
(***************************************************************************)
EXTENDS Naturals

CONSTANTS
  Nil,        \* spec.arguments is not set
  Arguments,  \* maps of arguments, the empty one included
  Empty,      \* the empty map
  MaxFaults,  \* bound: calls that fail
  MaxOutside  \* bound: steps of the server's other clients

\* "" is the empty routing key, "~" the one that looks like a properties key, "%7E" the one
\* that looks like an escaped ~.
RoutingKeys == {"", "key", "~", "%7E"}

Bindings == [routingKey : RoutingKeys, arguments : Arguments]

VARIABLES
  spec,      \* routingKey and arguments of the Binding
  vhost,     \* does the vhost exist?
  bindings,  \* the bindings between source and destination on the server
  pc,        \* the next call of DeleteFunc, or what it returned
  key,       \* the properties key it is going to delete
  removed,   \* history: bindings removed by DeleteFunc
  faults,    \* failed calls so far
  outside    \* steps of other clients so far

vars == <<spec, vhost, bindings, pc, key, removed, faults, outside>>

\* GenerateBindingInfo: no arguments are an empty map.
GenerateBindingInfo(s) ==
  [routingKey |-> s.routingKey, arguments |-> IF s.arguments = Nil THEN Empty ELSE s.arguments]

Init ==
  /\ spec \in [routingKey : RoutingKeys, arguments : Arguments \cup {Nil}]
  /\ vhost = TRUE
  /\ bindings \in {B \in SUBSET Bindings : GenerateBindingInfo(spec) \in B}
  /\ pc = "start"
  /\ key = <<>>
  /\ removed = {}
  /\ faults = 0
  /\ outside = 0

Call(c) ==
  /\ c = "ok" \/ faults < MaxFaults
  /\ faults' = IF c = "ok" THEN faults ELSE faults + 1
--------------------------------------------------------------------------------
(***************************************************************************)
(* Properties keys: the text before the hash, and the hash of arguments.   *)
(***************************************************************************)

\* A routing key in a properties key of the server: ~ is escaped, the empty key is ~.  As
\* the server takes %7E for ~, a % is escaped too.
Escaped(routingKey) ==
  CASE routingKey = "" -> "~" [] routingKey = "~" -> "%7E" [] routingKey = "%7E" -> "%257E"
    [] OTHER -> routingKey

\* The server's key of a binding.  The text before the hash of arguments may be
\* empty.
ServerKey(b) ==
  IF b.arguments = Empty THEN <<Escaped(b.routingKey)>>
  ELSE <<IF b.routingKey = "" THEN "" ELSE Escaped(b.routingKey), b.arguments>>

\* Mutant of GeneratePropertiesKey: ~ is not replaced.
GeneratePropertiesKeyRaw(s) == IF s.routingKey = "" THEN <<"~">> ELSE <<s.routingKey>>

\* GeneratePropertiesKey, for a spec without arguments: only ~ is escaped.
GeneratePropertiesKey(s) ==
  IF s.routingKey = "" THEN <<"~">>
  ELSE <<IF s.routingKey = "~" THEN "%7E" ELSE s.routingKey>>
--------------------------------------------------------------------------------
(***************************************************************************)
(* DeleteFunc.                                                             *)
(***************************************************************************)

Start ==
  /\ pc = "start"
  /\ IF spec.arguments # Nil
     THEN pc' = "list" /\ UNCHANGED key
     ELSE pc' = "delete" /\ key' = GeneratePropertiesKey(spec)
  /\ UNCHANGED <<spec, vhost, bindings, removed, faults, outside>>

\* Mutant of IsMatch: the arguments are not compared.
IsMatchByKey(b) == b.routingKey = spec.routingKey

\* The comparison of findBindingInfo.
IsMatch(b) == b.routingKey = spec.routingKey /\ b.arguments = spec.arguments

\* findBindingInfo: an error of the list is returned, that of a missing vhost
\* too; no match means that the binding is deleted; of several matches one is
\* taken.
FindBindingInfo ==
  /\ pc = "list"
  /\ \E c \in {"ok", "error"} :
       /\ Call(c)
       /\ \/ /\ c = "error" \/ ~vhost
             /\ pc' = "failed"
             /\ UNCHANGED key
          \/ /\ c = "ok" /\ vhost
             /\ ~ \E b \in bindings : IsMatch(b)
             /\ pc' = "done"
             /\ UNCHANGED key
          \/ /\ c = "ok" /\ vhost
             /\ \E b \in bindings : IsMatch(b) /\ key' = ServerKey(b)
             /\ pc' = "delete"
  /\ UNCHANGED <<spec, vhost, bindings, removed, outside>>

\* validateResponseForDeletion: an answer of the server means that the binding is
\* deleted, 404 included.
Deleted(c, found) == c = "ok"

DeleteBinding ==
  LET found == {b \in bindings : ServerKey(b) = key} IN
  /\ pc = "delete"
  /\ \E c \in {"ok", "error", "lost"} :
       /\ Call(c)
       /\ IF c = "error" THEN UNCHANGED <<bindings, removed>>
          ELSE bindings' = bindings \ found /\ removed' = removed \cup found
       /\ pc' = IF Deleted(c, found) THEN "done" ELSE "failed"
  /\ UNCHANGED <<spec, vhost, key, outside>>

\* The reconcile loop comes back.
Retry ==
  /\ pc = "failed"
  /\ pc' = "start"
  /\ UNCHANGED <<spec, vhost, bindings, key, removed, faults, outside>>

DeleteFunc == Start \/ FindBindingInfo \/ DeleteBinding \/ Retry
--------------------------------------------------------------------------------
(***************************************************************************)
(* The other clients of the server.                                        *)
(***************************************************************************)

Outside == /\ outside < MaxOutside
           /\ outside' = outside + 1
           /\ UNCHANGED <<spec, pc, key, removed, faults>>

Bind(b) == vhost /\ bindings' = bindings \cup {b} /\ UNCHANGED vhost /\ Outside
Unbind(b) == bindings' = bindings \ {b} /\ UNCHANGED vhost /\ Outside
DeleteVhost == vhost /\ vhost' = FALSE /\ bindings' = {} /\ Outside

Next == \/ DeleteFunc
        \/ \E b \in Bindings \ bindings : Bind(b)
        \/ \E b \in bindings : Unbind(b)
        \/ DeleteVhost

Spec == Init /\ [][Next]_vars

FairSpec == Spec /\ WF_vars(DeleteFunc)
--------------------------------------------------------------------------------
(***************************************************************************)
(* Properties.                                                             *)
(***************************************************************************)

\* A Binding without arguments whose routing key looks like an escaped ~: the properties
\* key that DeleteFunc generates for it is that of the binding with routing key ~.
Mistakable(s) == s.arguments = Nil /\ s.routingKey = "%7E"

\* The binding that the server takes DeleteFunc to mean.
Addressed(s) == IF Mistakable(s) THEN [routingKey |-> "~", arguments |-> Empty]
                ELSE GenerateBindingInfo(s)

\* DeleteFunc never removes another binding than the spec's, however similar routing keys
\* and arguments are, with one exception: without arguments, routing key %7E is sent as it
\* is, and removes the binding of routing key ~.
RemovesOnlyItsOwn == removed \subseteq {Addressed(spec)}

\* When DeleteFunc returns nil, and the finalizer goes, the binding of the spec is not
\* there, whatever the other clients did between the list and the DELETE; but for the key
\* that is mistaken for another one's.
DoneMeansGone ==
  pc' = "done" /\ pc # "done" /\ ~Mistakable(spec) => GenerateBindingInfo(spec) \notin bindings'

\* Deletion gets done if the vhost stays: a DELETE whose answer was lost, or a binding
\* that somebody else removed, does not make DeleteFunc fail for ever.  (Without
\* the vhost the list of findBindingInfo fails every time.)
NotDeleting == vhost => pc = "done"
--------------------------------------------------------------------------------
(***************************************************************************)
(* The inductive invariant: the properties key that DeleteFunc is about to *)
(* delete is that of its own binding, whichever way it was found, or that  *)
(* of the one that its routing key is mistaken for.                        *)
(***************************************************************************)
UnbindingInv ==
  /\ bindings \subseteq Bindings
  /\ spec.routingKey \in RoutingKeys
  /\ GenerateBindingInfo(spec) \in Bindings /\ Addressed(spec) \in Bindings
  /\ pc = "list" => spec.arguments # Nil
  /\ pc = "delete" => key = ServerKey(Addressed(spec))
  /\ RemovesOnlyItsOwn
================================================================================
