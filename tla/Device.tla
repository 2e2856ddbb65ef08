-------------------------------- MODULE Device --------------------------------
(***************************************************************************)
(* What a generated automation server promises its clients: a tree of      *)
(* named objects, each a list, a property, a function or a monitor, that   *)
(* answers one request at a time.  A path is a sequence of names; the root *)
(* is the empty path.                                                      *)
(***************************************************************************)
EXTENDS Naturals, Sequences, SequencesExt

CONSTANTS
  Value,       \* the values of a property
  WrongType,   \* a value of another type than any property has
  Surplus      \* the most values a request can carry

VARIABLES
  kind,        \* the kind of each object of the tree
  state,       \* the value of each property; on or off for each monitor
  answer,      \* the answer to the last request
  ended        \* the application was made to do something it cannot do

vars == <<kind, state, answer, ended>>

Objects == DOMAIN kind
Property == {"readOnly", "readWrite"}
Function == {"function0", "function1", "function2"}
Arity(k) == CASE k = "function0" -> 0 [] k = "function1" -> 1 [] k = "function2" -> 2

Answer(request, path, result, value, entries) ==
  [request |-> request, path |-> path, result |-> result, value |-> value,
   entries |-> entries]

Succeeds(request, p, value, entries) ==
  answer' = Answer(request, p, "success", value, entries)

Fails(request, p) == answer' = Answer(request, p, "failure", "none", {})

\* The objects below p, by their paths from p on.
Below(p) == {SubSeq(q, Len(p) + 1, Len(q)) : q \in {r \in Objects : IsStrictPrefix(p, r)}}
Children(p) == {q \in Below(p) : Len(q) = 1}

Has(p, kinds) == p \in Objects /\ kind[p] \in kinds

\* Every object's parents are lists of the tree.
Init ==
  /\ << >> \in Objects
  /\ \A p \in Objects : \A n \in 0 .. Len(p) - 1 : Has(SubSeq(p, 1, n), {"list"})
  /\ state = [p \in Objects |-> IF kind[p] \in Property THEN CHOOSE v \in Value : TRUE
                                ELSE IF kind[p] = "monitor" THEN "off" ELSE "none"]
  /\ answer = Answer("none", << >>, "none", "none", {})
  /\ ended = FALSE

Get(p) ==
  /\ IF Has(p, Property) THEN Succeeds("GET", p, state[p], {}) ELSE Fails("GET", p)
  /\ UNCHANGED <<state, ended>>

Set(p, v) ==
  /\ ~(Has(p, {"readOnly"}) /\ v \in Value)
  /\ IF Has(p, {"readWrite"}) /\ v \in Value
     THEN Succeeds("SET", p, "none", {}) /\ state' = [state EXCEPT ![p] = v]
     ELSE Fails("SET", p) /\ UNCHANGED state
  /\ UNCHANGED ended

\* Nothing is promised to a client that sets a property without a set function.
SetReadOnly(p) ==
  /\ Has(p, {"readOnly"})
  /\ ended' = TRUE
  /\ UNCHANGED <<state, answer>>

\* A function gets all its values; it may be called with more of them.
Call(p, n) ==
  /\ \/ Has(p, Function) /\ Arity(kind[p]) <= n /\ Succeeds("CALL", p, "none", {})
     \/ ~(Has(p, Function) /\ Arity(kind[p]) = n) /\ Fails("CALL", p)
  /\ UNCHANGED <<state, ended>>

Info(p) ==
  /\ IF p \in Objects
     THEN Succeeds("INFO", p, IF kind[p] = "monitor" THEN state[p] ELSE kind[p], {})
     ELSE Fails("INFO", p)
  /\ UNCHANGED <<state, ended>>

\* A listing has every child, and may have other entries.
List(p) ==
  /\ IF Has(p, {"list"})
     THEN /\ Succeeds("LIST", p, "none", answer'.entries)
          /\ Children(p) \subseteq answer'.entries
     ELSE Fails("LIST", p)
  /\ UNCHANGED <<state, ended>>

Dump(p) ==
  /\ IF Has(p, {"list"}) THEN Succeeds("DUMP", p, "none", Below(p)) ELSE Fails("DUMP", p)
  /\ UNCHANGED <<state, ended>>

Monitor(p, request, on) ==
  /\ IF Has(p, {"monitor"})
     THEN Succeeds(request, p, "none", {}) /\ state' = [state EXCEPT ![p] = on]
     ELSE Fails(request, p) /\ UNCHANGED state
  /\ UNCHANGED ended

\* The path of the request is the one the answer names, even of no object.
Request(p) ==
  \/ Get(p)
  \/ \E v \in Value \cup {WrongType} : Set(p, v)
  \/ \E n \in 0 .. Surplus : Call(p, n)
  \/ Info(p)
  \/ List(p)
  \/ Dump(p)
  \/ Monitor(p, "ENABLE", "on")
  \/ Monitor(p, "DISABLE", "off")

Next ==
  /\ ~ended
  /\ UNCHANGED kind
  /\ \/ Request(answer'.path)
     \/ \E p \in Objects : SetReadOnly(p)

Spec == Init /\ [][Next]_vars

=============================================================================
