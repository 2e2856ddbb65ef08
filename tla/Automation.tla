------------------------------ MODULE Automation ------------------------------
(***************************************************************************)
(* The generated server: the tables that generate_automation_defines.py    *)
(* writes from an automation file, and the request handlers of             *)
(* generator/code/c/automation_functions.c that look objects up in them by *)
(* comparing strings.  A path is a sequence of characters here.  Branches  *)
(* (BRANCH_LIST) are empty.                                                *)
(***************************************************************************)
EXTENDS Naturals, FiniteSets, Sequences, SequencesExt, FiniteSetsExt

CONSTANTS
  Definitions,   \* what an automation file may define: records [path, kind]
  MaxDefined,    \* bound: how many of them it defines
  Characters,    \* the characters of paths, in the order of their codes
  Value,         \* the values of a property
  WrongType,     \* a value of another type
  MaxValues,     \* bound: the values a CALL carries; SQ_MAX_PARAMETERS
  Missing        \* paths of no object that are asked for

Slash == "/"
Root == <<Slash>>
Property == {"readOnly", "readWrite"}
Function == {"function0", "function1", "function2"}

ParameterCount(k) == CASE k = "function0" -> 0 [] k = "function1" -> 1 [] k = "function2" -> 2

ASSUME DefinitionsAssumption ==
  /\ Characters \in Seq(Range(Characters)) /\ Slash \in Range(Characters)
  /\ \A d \in Definitions : /\ d.path \in Seq(Range(Characters)) /\ Len(d.path) > 1
                            /\ d.path[1] = Slash /\ d.path[2] # Slash
                            /\ d.kind \in Property \cup Function \cup {"monitor"}
                            /\ d.kind \in Function => ParameterCount(d.kind) <= MaxValues
  /\ Missing \subseteq Seq(Range(Characters))
  /\ MaxDefined \in Nat /\ MaxValues \in Nat
  /\ Value # {} /\ WrongType \notin Value

VARIABLES
  defined,       \* the definitions of the automation file, in its order
  meant,         \* history: the tree of named objects that it means
  infoList,      \* INFO_LIST
  tables,        \* what each object of PROPERTY_LIST, CALLABLE_LIST and monitor_state is
  values,        \* the application's value behind each entry of PROPERTY_LIST
  monitorState,  \* monitor_state
  answer,        \* the answer to the last request
  ended          \* a NULL set function was called

vars == <<defined, meant, infoList, tables, values, monitorState, answer, ended>>

-----------------------------------------------------------------------------
(* The generator.                                                           *)

\* The numbers of S from the smallest up.
InOrder(S) ==
  [n \in 1 .. Cardinality(S) |-> CHOOSE i \in S : Cardinality({j \in S : j < i}) = n - 1]

Code(c) == CHOOSE i \in DOMAIN Characters : Characters[i] = c

Before(p, q) ==
  \/ IsStrictPrefix(p, q)
  \/ \E i \in 1 .. Len(p) :
       /\ i <= Len(q) /\ SubSeq(p, 1, i - 1) = SubSeq(q, 1, i - 1)
       /\ Code(p[i]) < Code(q[i])

Parents(p) == {SubSeq(p, 1, i - 1) : i \in {k \in 2 .. Len(p) : p[k] = Slash}}

Paths == {Root} \cup Missing \cup
         UNION {{d.path} \cup Parents(d.path) : d \in Definitions}

TypeOf(k) == IF k \in Property THEN "PROPERTY"
             ELSE IF k \in Function THEN "CALLABLE" ELSE "MONITOR"

Types == {"PROPERTY", "CALLABLE", "MONITOR"}

\* PROPERTY_LIST, CALLABLE_LIST and monitor_state: each table in the order of
\* the definitions.
Tables(d) ==
  [type \in Types |->
     LET places == InOrder({i \in DOMAIN d : TypeOf(d[i].kind) = type})
     IN  [n \in DOMAIN places |-> d[places[n]]]]

ObjectPaths(d) ==
  LET lists == UNION {Parents(d[i].path) : i \in DOMAIN d}
      entries(t) == {[path |-> Tables(d)[t][i].path, type |-> t, index |-> i] :
                       i \in DOMAIN Tables(d)[t]}
  IN  {[path |-> p, type |-> "LIST", index |-> 0] : p \in lists} \cup
      UNION {entries(t) : t \in Types}

\* Mutant of Analyze: the paths are sorted the other way round.
AnalyzeReversed(d) ==
  LET objects == ObjectPaths(d)
      sorted == [n \in 1 .. Cardinality(objects) |->
                   CHOOSE o \in objects :
                     Cardinality({x \in objects : Before(o.path, x.path)}) = n - 1]
  IN  <<[path |-> Root, type |-> "LIST", index |-> 0]>> \o sorted

Analyze(d) ==
  LET objects == ObjectPaths(d)
      sorted == [n \in 1 .. Cardinality(objects) |->
                   CHOOSE o \in objects :
                     Cardinality({x \in objects : Before(x.path, o.path)}) = n - 1]
  IN  <<[path |-> Root, type |-> "LIST", index |-> 0]>> \o sorted

\* NUMBER_OF_PARAMETERS: the most that any function takes.
NumberOfParameters ==
  Max({0} \cup {ParameterCount(d.kind) : d \in Range(tables["CALLABLE"])})

-----------------------------------------------------------------------------
(* The tree that the automation file means, by names instead of strings.    *)

\* Without a slash in front it names nothing: no name has a slash.
Names(p) ==
  LET slashes == InOrder({k \in DOMAIN p : p[k] = Slash})
      stop(i) == IF i = Len(slashes) THEN Len(p) ELSE slashes[i + 1] - 1
  IN  CASE p = Root -> << >>
        [] p # Root /\ IsPrefix(Root, p) ->
             [i \in DOMAIN slashes |-> SubSeq(p, slashes[i] + 1, stop(i))]
        [] OTHER -> <<p \o Root>>

NamesOf == [p \in Paths |-> Names(p)]

Meant(d) ==
  LET objects == {<<NamesOf[e.path], e.kind>> : e \in Range(d)}
      lists == {<<NamesOf[q], "list">> :
                  q \in {Root} \cup UNION {Parents(e.path) : e \in Range(d)}}
      all == objects \cup lists
  IN  [p \in {o[1] : o \in all} |-> (CHOOSE o \in all : o[1] = p)[2]]

-----------------------------------------------------------------------------
Answer(request, path, result, value, entries) ==
  [request |-> request, path |-> path, result |-> result, value |-> value,
   entries |-> entries]

\* The type of the variables.
TypeOK ==
  /\ defined \in Seq(Definitions)
  /\ infoList \in Seq([path : Seq(Range(Characters)), index : 0 .. Len(defined),
                       type : {"LIST", "PROPERTY", "CALLABLE", "MONITOR"}])
  /\ tables \in [Types -> Seq(Definitions)]
  /\ values \in [DOMAIN tables["PROPERTY"] -> Value]
  /\ monitorState \in [DOMAIN tables["MONITOR"] -> BOOLEAN]
  /\ answer.result \in {"none", "success", "failure"}
  /\ ended \in BOOLEAN

\* Each object has a path of its own, and no other object is below it.
Files ==
  {d \in UNION {[1 .. n -> Definitions] : n \in 0 .. MaxDefined} :
     \A i, j \in DOMAIN d : i # j => /\ d[i].path # d[j].path
                                     /\ d[i].path \notin Parents(d[j].path)}

Init ==
  /\ defined \in Files
  /\ meant = Meant(defined)
  /\ infoList = Analyze(defined)
  /\ tables = Tables(defined)
  /\ values = [i \in DOMAIN tables["PROPERTY"] |-> CHOOSE v \in Value : TRUE]
  /\ monitorState = [i \in DOMAIN tables["MONITOR"] |-> FALSE]
  /\ answer = Answer("none", Root, "none", "none", << >>)
  /\ ended = FALSE

\* sq_automation_find_info: the first entry of that name, 0 if there is none.
FindInfo(p) == Min({i \in DOMAIN infoList : infoList[i].path = p} \cup {Len(infoList) + 1})

\* Each handler looks the path up and refuses an object of another type.
IsA(p, type) == FindInfo(p) \in DOMAIN infoList /\ infoList[FindInfo(p)].type = type
IndexOf(p) == infoList[FindInfo(p)].index

Succeeds(request, p, value, entries) ==
  answer' = Answer(request, p, "success", value, entries)
Fails(request, p) == answer' = Answer(request, p, "failure", "none", << >>)

-----------------------------------------------------------------------------
(* The handlers.                                                            *)

PropertyGet(p) ==
  /\ IF IsA(p, "PROPERTY") THEN Succeeds("GET", p, values[IndexOf(p)], << >>)
     ELSE Fails("GET", p)
  /\ UNCHANGED <<values, monitorState, ended>>

\* Mutant of PropertySet: the type of the value is not compared.
PropertySetUntyped(p, v) ==
  /\ IF IsA(p, "PROPERTY")
     THEN IF tables["PROPERTY"][IndexOf(p)].kind = "readOnly"
          THEN ended' = TRUE /\ UNCHANGED <<values, answer>>
          ELSE /\ values' = [values EXCEPT ![IndexOf(p)] = v]
               /\ Succeeds("SET", p, "none", << >>)
               /\ UNCHANGED ended
     ELSE Fails("SET", p) /\ UNCHANGED <<values, ended>>
  /\ UNCHANGED monitorState

\* The set function of a property without one is NULL, and called all the same.
PropertySet(p, v) ==
  /\ IF IsA(p, "PROPERTY") /\ v # WrongType
     THEN IF tables["PROPERTY"][IndexOf(p)].kind = "readOnly"
          THEN ended' = TRUE /\ UNCHANGED <<values, answer>>
          ELSE /\ values' = [values EXCEPT ![IndexOf(p)] = v]
               /\ Succeeds("SET", p, "none", << >>)
               /\ UNCHANGED ended
     ELSE Fails("SET", p) /\ UNCHANGED <<values, ended>>
  /\ UNCHANGED monitorState

\* The types are compared up to NUMBER_OF_PARAMETERS: values beyond are ignored.
ParametersAccepted(p, n) ==
  LET parameters == ParameterCount(tables["CALLABLE"][IndexOf(p)].kind)
  IN  \A i \in 1 .. Min({NumberOfParameters, MaxValues}) : i <= n <=> i <= parameters

CallFunction(p, n) ==
  /\ IF IsA(p, "CALLABLE") /\ ParametersAccepted(p, n)
     THEN Succeeds("CALL", p, "none", << >>)
     ELSE Fails("CALL", p)
  /\ UNCHANGED <<values, monitorState, ended>>

KindOf(info) ==
  CASE info.type = "LIST" -> "list"
    [] info.type = "MONITOR" -> IF monitorState[info.index] THEN "on" ELSE "off"
    [] OTHER -> tables[info.type][info.index].kind

Info(p) ==
  /\ IF FindInfo(p) \in DOMAIN infoList
     THEN Succeeds("INFO", p, KindOf(infoList[FindInfo(p)]), << >>)
     ELSE Fails("INFO", p)
  /\ UNCHANGED <<values, monitorState, ended>>

\* The entries after i whose names begin with that of entry i; the loops break
\* at the first that does not.
Following(i) ==
  LET ends == {k \in i + 1 .. Len(infoList) : ~IsPrefix(infoList[i].path, infoList[k].path)}
  IN  i + 1 .. Min(ends \cup {Len(infoList) + 1}) - 1

NoSlashAfter(p, from) == \A k \in from .. Len(p) : p[k] # Slash

\* The part of a name that is printed below entry i.
Shown(i, k) ==
  LET name == infoList[k].path
      length == Len(infoList[i].path)
  IN  SubSeq(name, IF length = 1 THEN 2 ELSE length + 2, Len(name))

Listed(i) ==
  {k \in Following(i) : NoSlashAfter(infoList[k].path, Len(infoList[i].path) + 2)}

\* Mutant of Dumped: names further down are printed here as well.
DumpedDeeply(i) ==
  {k \in Following(i) :
     Len(infoList[i].path) = 1 \/ infoList[k].path[Len(infoList[i].path) + 1] = Slash}

Dumped(i) ==
  {k \in Listed(i) : Len(infoList[i].path) = 1 \/ infoList[k].path[Len(infoList[i].path) + 1] = Slash}

\* sq_parser_dump_internal: the names on the way down to each object printed.
DumpInternal ==
  LET Dump[i \in DOMAIN infoList] ==
        << << >> >> \o
        LET below == InOrder(Dumped(i))
        IN  FlattenSeq([c \in DOMAIN below |->
              LET dumped == Dump[below[c]]
              IN  [e \in DOMAIN dumped |-> <<Shown(i, below[c])>> \o dumped[e]]])
  IN  Dump

List(p) ==
  /\ IF IsA(p, "LIST")
     THEN LET i == FindInfo(p)
              listed == InOrder(Listed(i))
          IN  Succeeds("LIST", p, "none", [c \in DOMAIN listed |-> <<Shown(i, listed[c])>>])
     ELSE Fails("LIST", p)
  /\ UNCHANGED <<values, monitorState, ended>>

Dump(p) ==
  /\ IF IsA(p, "LIST") THEN Succeeds("DUMP", p, "none", Tail(DumpInternal[FindInfo(p)]))
     ELSE Fails("DUMP", p)
  /\ UNCHANGED <<values, monitorState, ended>>

MonitorEnable(p, request, enable) ==
  /\ IF IsA(p, "MONITOR")
     THEN /\ monitorState' = [monitorState EXCEPT ![IndexOf(p)] = enable]
          /\ Succeeds(request, p, "none", << >>)
     ELSE Fails(request, p) /\ UNCHANGED monitorState
  /\ UNCHANGED <<values, ended>>

-----------------------------------------------------------------------------
Request(p) ==
  \/ PropertyGet(p)
  \/ \E v \in Value \cup {WrongType} : PropertySet(p, v)
  \/ \E n \in 0 .. MaxValues : CallFunction(p, n)
  \/ Info(p)
  \/ List(p)
  \/ Dump(p)
  \/ MonitorEnable(p, "ENABLE", TRUE)
  \/ MonitorEnable(p, "DISABLE", FALSE)

Next ==
  /\ ~ended
  /\ \E p \in {infoList[i].path : i \in DOMAIN infoList} \cup Missing : Request(p)
  /\ UNCHANGED <<defined, meant, infoList, tables>>

Spec == Init /\ [][Next]_vars

\* What the application holds for each object, by the order of the definitions.
Held ==
  LET properties == tables["PROPERTY"]
      monitors == tables["MONITOR"]
      At(table, p) == CHOOSE i \in DOMAIN table : NamesOf[table[i].path] = p
  IN  [p \in DOMAIN meant |->
         CASE meant[p] \in Property -> values[At(properties, p)]
           [] meant[p] = "monitor" -> IF monitorState[At(monitors, p)] THEN "on" ELSE "off"
           [] OTHER -> "none"]

Device == INSTANCE Device WITH
  kind <- meant,
  state <- Held,
  answer <- [answer EXCEPT !.path = NamesOf[answer.path], !.entries = Range(answer.entries)],
  Surplus <- MaxValues

\* The tables and the string comparisons make the tree of named objects that the
\* automation file means: every request reaches the object it names and no
\* other, whatever order the objects are defined in and however their names
\* extend one another (automation_functions.c:193-636,
\* generate_automation_defines.py:450-609).
RefinesDevice == Device!Spec

\* The names printed on the way down to an object, as one path.
Joined(names) == FlattenSeq([i \in DOMAIN names |-> <<Slash>> \o names[i]])

\* A dump prints no object twice, although every object below a list follows it
\* in the same table; and a listing shows just the children, unless another name
\* goes on where the name of the list ends (automation_functions.c:442-501,
\* 568-590).
WalksAreExact ==
  /\ answer.request = "DUMP" =>
       IsInjective([i \in DOMAIN answer.entries |-> Joined(answer.entries[i])])
  /\ answer.request = "LIST" /\ answer.result = "success" =>
       \/ Range(answer.entries) = Device!Children(NamesOf[answer.path])
       \/ \E d \in Range(defined) :
            /\ IsStrictPrefix(answer.path, d.path) /\ answer.path # Root
            /\ d.path[Len(answer.path) + 1] # Slash

=============================================================================
