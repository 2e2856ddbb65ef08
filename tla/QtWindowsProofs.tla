--------------------------- MODULE QtWindowsProofs ----------------------------
(***************************************************************************)
(* machine_automation inside a Qt application, for tables of any size and  *)
(* any number of actions: what a request may be answered, and which        *)
(* requests can be abandoned.                                              *)
(***************************************************************************)
EXTENDS QtWindows, SequenceTheorems, FiniteSetTheorems, WellFoundedInduction, TLAPS

-----------------------------------------------------------------------------
(* The elements of a set of numbers by their place.                         *)

\* A set of numbers has a least one.
LEMMA LeastNumber ==
  ASSUME NEW T, T \subseteq Nat, T # {}
  PROVE  \E x \in T : \A y \in T : x <= y
<1> DEFINE R == {ss \in Nat \X Nat : ss[1] < ss[2]}
<1>1. IsWellFoundedOn(R, Nat)
  BY NatLessThanWellFounded DEF OpToRel
<1>2. \E x \in T : \A y \in T : <<y, x>> \notin R
  <2> HIDE DEF R
  <2> QED
    BY <1>1, WFMin
<1>3. PICK x \in T : \A y \in T : <<y, x>> \notin R
  BY <1>2
<1>4. ASSUME NEW y \in T
      PROVE  x <= y
  <2>1. y \in Nat /\ x \in Nat
    OBVIOUS
  <2>2. <<y, x>> \in Nat \X Nat /\ <<y, x>>[1] = y /\ <<y, x>>[2] = x
    BY <2>1
  <2>3. <<y, x>> \notin R
    BY <1>3, Zenon
  <2>4. ~ (<<y, x>>[1] < <<y, x>>[2])
    BY <2>2, <2>3, Zenon
  <2> QED
    BY <2>1, <2>2, <2>4
<1> QED
  BY <1>4

\* How many elements there are up to a number grows by one at each element.
UpTo(set, x) == {j \in set : j <= x}
Below(set, x) == {j \in set : j < x}

LEMMA UpToPrevious ==
  ASSUME NEW set, \A j \in set : j \in Nat, NEW x \in Nat
  PROVE  /\ UpTo(set, x) = IF x \in set THEN UpTo(set, x - 1) \cup {x} ELSE UpTo(set, x - 1)
         /\ x \notin UpTo(set, x - 1)
         /\ x = 0 => UpTo(set, x - 1) = {}
         /\ Below(set, x) = UpTo(set, x - 1)
BY DEF UpTo, Below

LEMMA UpToFinite ==
  ASSUME NEW set, IsFiniteSet(set), NEW x \in Int
  PROVE  IsFiniteSet(UpTo(set, x)) /\ Cardinality(UpTo(set, x)) \in Nat
<1>1. UpTo(set, x) \in SUBSET set
  BY DEF UpTo
<1> QED
  BY <1>1, FS_Subset, FS_CardinalityType

\* There is an element for each place below the number of elements: the number
\* at which the count first passes the place.
LEMMA NthExists ==
  ASSUME NEW bound \in Int, NEW set, set \subseteq 0 .. bound,
         NEW n \in 0 .. Cardinality(set) - 1
  PROVE  \E i \in set : Cardinality(Below(set, i)) = n
<1>1. IsFiniteSet(set) /\ \A j \in set : j \in Nat /\ j <= bound
  <2>1. IsFiniteSet(0 .. bound)
    BY FS_Interval
  <2>2. IsFiniteSet(set)
    BY <2>1, FS_Subset
  <2>3. \A j \in set : j \in Nat /\ j <= bound
    OBVIOUS
  <2> QED
    BY <2>2, <2>3
<1>2. n \in Nat /\ Cardinality(set) \in Nat /\ Cardinality(set) > n
  BY <1>1, FS_CardinalityType
<1> DEFINE reached == {x \in Nat : Cardinality(UpTo(set, x)) > n}
<1>3. bound \in reached
  <2>1. set # {}
    BY <1>1, <1>2, FS_EmptySet
  <2>2. bound \in Nat
    <3>1. PICK j \in set : j \in Nat /\ j <= bound
      BY <1>1, <2>1
    <3> HIDE DEF reached
    <3> QED
      BY <3>1
  <2>3. UpTo(set, bound) = set
    BY <1>1, <2>2 DEF UpTo
  <2> QED
    BY <1>2, <2>2, <2>3
<1>4. PICK x \in reached : \A y \in reached : x <= y
  <2>1. reached \subseteq Nat /\ reached # {}
    BY <1>3
  <2> HIDE DEF reached
  <2> QED
    BY <2>1, LeastNumber
<1>5. x \in Nat /\ Cardinality(UpTo(set, x)) > n
  OBVIOUS
<1>6. Cardinality(UpTo(set, x - 1)) <= n
  <2>1. CASE x = 0
    <3>1. UpTo(set, x - 1) = {}
      BY <1>1, <1>5, <2>1, UpToPrevious
    <3> HIDE DEF reached
    <3> QED
      BY <1>2, <3>1, FS_EmptySet
  <2>2. CASE x # 0
    <3>1. x - 1 \in Nat
      BY <1>5, <2>2
    <3>2. x - 1 \notin reached
      <4> HIDE DEF reached
      <4> QED
        BY <1>4, <1>5, <3>1
    <3>3. ~ (Cardinality(UpTo(set, x - 1)) > n)
      BY <3>1, <3>2
    <3>4. Cardinality(UpTo(set, x - 1)) \in Nat
      <4> HIDE DEF reached
      <4> QED
        BY <1>1, <3>1, UpToFinite
    <3> QED
      BY <1>2, <3>3, <3>4
  <2> QED
    BY <2>1, <2>2
<1> HIDE DEF reached
<1>7. IsFiniteSet(UpTo(set, x - 1)) /\ Cardinality(UpTo(set, x - 1)) \in Nat
  <2>1. x - 1 \in Int
    BY <1>5
  <2> QED
    BY <1>1, <2>1, UpToFinite
<1>8. Cardinality(UpTo(set, x - 1) \cup {x}) = Cardinality(UpTo(set, x - 1)) + 1
  <2>1. x \notin UpTo(set, x - 1)
    BY <1>1, <1>5, UpToPrevious
  <2> QED
    BY <1>7, <2>1, FS_AddElement
<1>9. x \in set /\ Cardinality(UpTo(set, x - 1)) = n
  <2>1. UpTo(set, x) = IF x \in set THEN UpTo(set, x - 1) \cup {x} ELSE UpTo(set, x - 1)
    BY <1>1, <1>5, UpToPrevious
  <2> QED
    BY <1>2, <1>5, <1>6, <1>7, <1>8, <2>1
<1> QED
  BY <1>1, <1>5, <1>9, UpToPrevious

LEMMA NthIs ==
  ASSUME NEW bound \in Int, NEW set, set \subseteq 0 .. bound,
         NEW n \in 0 .. Cardinality(set) - 1
  PROVE  /\ Nth(set, n) \in set /\ Nth(set, n) \in Int
         /\ Cardinality(Below(set, Nth(set, n))) = n
<1>1. PICK i \in set : Cardinality(Below(set, i)) = n
  BY NthExists
<1>2. Nth(set, n) = CHOOSE x \in set : Cardinality(Below(set, x)) = n
  BY DEF Nth, Below
<1>3. Nth(set, n) \in set /\ Cardinality(Below(set, Nth(set, n))) = n
  BY <1>1, <1>2, Zenon
<1>4. \A j \in set : j \in Int
  OBVIOUS
<1> QED
  BY <1>3, <1>4, Zenon

LEMMA BelowGrows ==
  ASSUME NEW set, \A j \in set : j \in Int, NEW x \in Int, NEW y \in Int, x <= y
  PROVE  Below(set, x) \subseteq Below(set, y)
BY DEF Below

\* A place that is earlier has the smaller element.
LEMMA NthGrows ==
  ASSUME NEW bound \in Int, NEW set, set \subseteq 0 .. bound,
         NEW n \in 0 .. Cardinality(set) - 1, NEW m \in 0 .. n - 1
  PROVE  Nth(set, m) < Nth(set, n)
<1>1. IsFiniteSet(set)
  <2>1. IsFiniteSet(0 .. bound)
    BY FS_Interval
  <2> QED
    BY <2>1, FS_Subset
<1>2. Cardinality(set) \in Nat
  BY <1>1, FS_CardinalityType
<1>3. m \in 0 .. Cardinality(set) - 1 /\ m < n
  BY <1>2
<1>4. /\ Nth(set, m) \in Int /\ Cardinality(Below(set, Nth(set, m))) = m
      /\ Nth(set, n) \in Int /\ Cardinality(Below(set, Nth(set, n))) = n
  BY <1>3, NthIs
<1>5. ASSUME Nth(set, n) <= Nth(set, m)
      PROVE  FALSE
  <2>1. Below(set, Nth(set, n)) \subseteq Below(set, Nth(set, m))
    <3>1. \A j \in set : j \in Int
      OBVIOUS
    <3> QED
      BY <1>4, <1>5, <3>1, BelowGrows
  <2>2. IsFiniteSet(Below(set, Nth(set, m)))
    <3>1. Below(set, Nth(set, m)) \subseteq set
      BY DEF Below
    <3> QED
      BY <1>1, <3>1, FS_Subset
  <2>3. Cardinality(Below(set, Nth(set, n))) <= Cardinality(Below(set, Nth(set, m)))
    BY <2>1, <2>2, FS_Subset
  <2> QED
    BY <1>3, <1>4, <2>3
<1> QED
  BY <1>4, <1>5

LEMMA SmallRemainder == ASSUME NEW n \in Nat, NEW d \in Nat \ {0}, n < d PROVE n % d = n
OBVIOUS

LEMMA CharOfSmall == ASSUME NEW n \in Nat, n < CharLimit PROVE Char(n) = n
<1>1. /\ n + CharLimit \in Nat /\ 2 * CharLimit \in Nat \ {0}
      /\ n + CharLimit < 2 * CharLimit
  BY QtAssumption
<1>2. (n + CharLimit) % (2 * CharLimit) = n + CharLimit
  BY <1>1, SmallRemainder
<1> QED
  BY <1>2, QtAssumption DEF Char

-----------------------------------------------------------------------------
(* The objects, and what the filter answers about them.                     *)

LEMMA CharIsInt == ASSUME NEW i \in Int PROVE Char(i) \in Int
BY QtAssumption DEF Char

Letters == Widgets \cup Int

LEMMA LettersAre ==
  /\ "desktop" \in Letters /\ "window" \in Letters /\ "child" \in Letters
  /\ \A i \in Int : Char(i) \in Letters
BY CharIsInt DEF Letters, Widgets

LEMMA Joined ==
  ASSUME NEW S, NEW s \in Seq(S), NEW x \in S
  PROVE  s \o <<x>> \in Seq(S)
OBVIOUS

LEMMA ObjectsAreSequences == Objects \subseteq Seq(Letters)
<1> SUFFICES ASSUME NEW object \in Objects PROVE object \in Seq(Letters)
  OBVIOUS
<1> DEFINE items == {<<"child", Char(r)>> : r \in 0 .. RowCount - 1}
           cells == {o \o <<Char(c)>> : o \in items, c \in 0 .. ColumnCount - 1}
<1>1. CASE object \in {<<>>, <<"desktop">>, <<"window">>, <<"child">>}
  <2>1. /\ <<>> \in Seq(Letters) /\ <<"desktop">> \in Seq(Letters)
        /\ <<"window">> \in Seq(Letters) /\ <<"child">> \in Seq(Letters)
    BY LettersAre
  <2> QED
    BY <1>1, <2>1, Zenon
<1>2. ASSUME NEW o \in items PROVE o \in Seq(Letters)
  <2>1. PICK r \in 0 .. RowCount - 1 : o = <<"child", Char(r)>>
    BY Zenon
  <2>2. Char(r) \in Letters
    BY LettersAre, QtAssumption
  <2>3. <<"child", Char(r)>> \in Seq(Letters)
    BY <2>2, LettersAre
  <2> QED
    BY <2>1, <2>3, Zenon
<1>3. CASE object \in cells
  <2>1. PICK o \in items, c \in 0 .. ColumnCount - 1 : object = o \o <<Char(c)>>
    <3> HIDE DEF items
    <3> QED
      BY <1>3, SMT
  <2>2. Char(c) \in Letters
    <3> HIDE DEF items, cells
    <3> QED
      BY LettersAre, QtAssumption
  <2> QED
    BY <1>2, <2>1, <2>2, Joined, Zenon
<1>4. Objects = {<<>>, <<"desktop">>, <<"window">>, <<"child">>} \cup items \cup cells
  BY SMT DEF Objects
<1> HIDE DEF items, cells
<1> QED
  BY <1>1, <1>2, <1>3, <1>4

\* What a question is made of.
LEMMA QuestionParts ==
  ASSUME NEW e \in Questions
  PROVE  /\ e.command \in Asked /\ e.object \in Seq(Letters) /\ e.index \in Int
         /\ e.object # <<>> => Len(e.object) \in Nat /\ Len(e.object) # 0
<1>1. e.command \in Asked /\ e.object \in Objects /\ e.index \in -1 .. RowCount + Actions
  BY DEF Questions
<1>2. e.object \in Seq(Letters)
  BY <1>1, ObjectsAreSequences
<1> QED
  BY <1>1, <1>2, QtAssumption, EmptySeq

\* What a branch of the filter may answer, by the first part of the answer.
LEMMA Tagged ==
  /\ Null[1] = "null" /\ Silence[1] = "silence" /\ Text[1] = "text"
  /\ \A n : Number(n)[1] = "number"
  /\ \A o : Object(o)[1] = "object"
  /\ <<"place">>[1] = "place" /\ <<"size">>[1] = "size" /\ <<"picture">>[1] = "picture"
  /\ <<"empty text">>[1] = "empty text"
BY DEF Null, Silence, Text, Number, Object

LEMMA DescribeTag == \A c, o : Describe(c, o)[1] \in {"text", "number"}
BY Tagged DEF Describe

LEMMA PlaceTag == \A o : Place(o)[1] \in {"place", "number"}
BY Tagged DEF Place

LEMMA SizeTag ==
  \A o : /\ Size(o)[1] \in {"size", "number", "silence"}
         /\ Size(o)[1] = "silence" => Size(o) = Silence /\ ~Normal(o) /\ ~Table(o)
BY Tagged DEF Size

LEMMA ChildTag ==
  \A o, i : /\ Child(o, i)[1] \in {"object", "null", "silence"}
            /\ Child(o, i)[1] = "null" => Child(o, i) = Null
            /\ Child(o, i)[1] = "silence" => Child(o, i) = Silence /\ ~Table(o) /\ i = -1
<1> SUFFICES ASSUME NEW o, NEW i
             PROVE  /\ Child(o, i)[1] \in {"object", "null", "silence"}
                    /\ Child(o, i)[1] = "null" => Child(o, i) = Null
                    /\ Child(o, i)[1] = "silence" => Child(o, i) = Silence /\ ~Table(o) /\ i = -1
  OBVIOUS
<1>1. /\ TableChild(o, i)[1] \in {"object", "null"}
      /\ TableChild(o, i)[1] = "null" => TableChild(o, i) = Null
  BY Tagged DEF TableChild
<1>2. /\ WidgetChild(o[1], i)[1] \in {"object", "null", "silence"}
      /\ WidgetChild(o[1], i)[1] = "null" => WidgetChild(o[1], i) = Null
      /\ WidgetChild(o[1], i)[1] = "silence" => WidgetChild(o[1], i) = Silence /\ i = -1
  BY Tagged DEF WidgetChild
<1> QED
  BY <1>1, <1>2 DEF Child

LEMMA ActionTag ==
  \A i : /\ ActionName(i)[1] \in {"text", "null"}
         /\ ActionName(i)[1] = "null" => ActionName(i) = Null
BY Tagged DEF ActionName

\* What Converted makes of an answer, by its first part.
LEMMA ConvertedTag ==
  ASSUME NEW command \in Asked, NEW r
  PROVE  \/ Converted(command, r) = r /\ (r = Null => command \in {"CAPTURE_SCREEN", "DESKTOP0", "ACTION_DO"})
         \/ r = Null /\ Converted(command, r)[1] \in TagsOf(command)
<1>1. r = Null /\ command \in Texts \cup {"ACTION_NAME"} => Converted(command, r) = <<"empty text">>
  BY DEF Converted, Texts, Places, Sizes
<1>2. r = Null /\ command \in Places \cup Sizes \cup {"ACTIONS"} => Converted(command, r) = Number(-1)
  BY DEF Converted, Texts, Places, Sizes
<1>3. r = Null /\ command = "CHILDREN" => Converted(command, r) = Number(0)
  BY DEF Converted, Texts, Places, Sizes
<1>4. r = Null /\ command = "CHILD" => Converted(command, r) = Object(<<>>)
  BY DEF Converted, Texts, Places, Sizes
<1>5. r # Null \/ command \in {"CAPTURE_SCREEN", "DESKTOP0", "ACTION_DO"} => Converted(command, r) = r
  BY DEF Converted, Texts, Places, Sizes
<1>6. CASE r = Null /\ command \in Texts \cup {"ACTION_NAME"}
  BY <1>1, <1>6, Tagged DEF TagsOf, Texts, Places, Sizes
<1>7. CASE r = Null /\ command \in Places \cup Sizes \cup {"ACTIONS"}
  BY <1>2, <1>7, Tagged DEF TagsOf, Texts, Places, Sizes
<1>8. CASE r = Null /\ command = "CHILDREN"
  BY <1>3, <1>8, Tagged DEF TagsOf, Texts, Places, Sizes
<1>9. CASE r = Null /\ command = "CHILD"
  BY <1>4, <1>9, Tagged DEF TagsOf, Texts, Places, Sizes
<1>10. CASE r # Null \/ command \in {"CAPTURE_SCREEN", "DESKTOP0", "ACTION_DO"}
  BY <1>5, <1>10
<1> QED
  BY <1>6, <1>7, <1>8, <1>9, <1>10, QtAssumption DEF Texts, Places, Sizes

\* Whatever the filter answers, the request is answered what its command may be.
LEMMA FilteredFits ==
  ASSUME NEW e \in Questions, Filtered(e) # Silence
  PROVE  Converted(e.command, Filtered(e))[1] \in TagsOf(e.command)
<1> DEFINE c == e.command
           r == Filtered(e)
<1>0. c \in Asked
  BY QuestionParts
<1>c. \/ Converted(c, r) = r /\ (r = Null => c \in {"CAPTURE_SCREEN", "DESKTOP0", "ACTION_DO"})
      \/ Converted(c, r)[1] \in TagsOf(c)
  BY <1>0, ConvertedTag
<1>1. CASE c = "DESKTOP0"
  <2>1. r[1] = "object" /\ "object" \in TagsOf(c)
    BY <1>1, Tagged DEF Filtered, TagsOf, Texts, Places, Sizes
  <2> QED
    BY <1>c, <2>1
<1>2. CASE c = "CAPTURE_SCREEN"
  <2>1. r[1] = "picture" /\ "picture" \in TagsOf(c)
    BY <1>2, Tagged DEF Filtered, TagsOf, Texts, Places, Sizes
  <2> QED
    BY <1>c, <2>1
<1>3. CASE c \notin {"DESKTOP0", "CAPTURE_SCREEN"} /\ ~Exists(e.object)
  <2>1. r = Null
    BY <1>3 DEF Filtered
  <2>2. c = "ACTION_DO" => r[1] \in TagsOf(c)
    BY <2>1, Tagged DEF TagsOf, Texts, Places, Sizes
  <2> QED
    BY <1>3, <1>c, <2>1, <2>2
<1>4. CASE c \notin {"DESKTOP0", "CAPTURE_SCREEN"} /\ Exists(e.object)
  <2>1. c \in Texts => r[1] \in {"text", "number"} /\ {"text", "number"} \subseteq TagsOf(c)
    BY <1>4, DescribeTag DEF Filtered, TagsOf, Texts, Places, Sizes
  <2>2. c \in Places => r[1] \in {"place", "number"} /\ {"place", "number"} \subseteq TagsOf(c)
    BY <1>4, PlaceTag DEF Filtered, TagsOf, Texts, Places, Sizes
  <2>3. c \in Sizes => r[1] \in {"size", "number"} /\ {"size", "number"} \subseteq TagsOf(c)
    BY <1>4, SizeTag DEF Filtered, TagsOf, Texts, Places, Sizes
  <2>4. c \in {"CHILDREN", "ACTIONS"} => r[1] = "number" /\ "number" \in TagsOf(c)
    BY <1>4, Tagged DEF Filtered, TagsOf, Texts, Places, Sizes
  <2>5. c = "CHILD" => (r[1] = "object" \/ r = Null) /\ "object" \in TagsOf(c)
    BY <1>4, ChildTag DEF Filtered, TagsOf, Texts, Places, Sizes
  <2>6. c = "ACTION_NAME" => (r[1] = "text" \/ r = Null) /\ "text" \in TagsOf(c)
    BY <1>4, ActionTag DEF Filtered, TagsOf, Texts, Places, Sizes
  <2>7. c = "ACTION_DO" => r[1] = "null" /\ r = Null /\ "null" \in TagsOf(c)
    BY <1>4, Tagged DEF Filtered, TagsOf, Texts, Places, Sizes
  <2> QED
    BY <1>0, <1>4, <1>c, <2>1, <2>2, <2>3, <2>4, <2>5, <2>6, <2>7, QtAssumption
    DEF Texts, Places, Sizes
<1> QED
  BY <1>1, <1>2, <1>3, <1>4

\* The two branches that answer nothing.
LEMMA SilentOnly ==
  ASSUME NEW e \in Questions, Filtered(e) = Silence
  PROVE  /\ Exists(e.object) /\ ~Table(e.object)
         /\ \/ e.command \in Sizes /\ Len(e.object) > 1
            \/ e.command = "CHILD" /\ e.index = -1
<1> DEFINE c == e.command
<1>0. c \in Asked /\ Filtered(e)[1] = "silence"
  BY QuestionParts, Tagged
<1>1. c \notin {"DESKTOP0", "CAPTURE_SCREEN"} /\ Exists(e.object)
  BY <1>0, Tagged DEF Filtered
<1>2. c \notin Texts
  BY <1>0, <1>1, DescribeTag DEF Filtered, Texts, Places, Sizes
<1>3. c \notin Places
  BY <1>0, <1>1, PlaceTag DEF Filtered, Texts, Places, Sizes
<1>4. c \notin {"CHILDREN", "ACTIONS", "ACTION_DO"}
  BY <1>0, <1>1, Tagged DEF Filtered, Texts, Places, Sizes
<1>5. c # "ACTION_NAME"
  BY <1>0, <1>1, ActionTag DEF Filtered, Texts, Places, Sizes
<1>6. CASE c \in Sizes
  <2>1. ~Normal(e.object) /\ ~Table(e.object)
    BY <1>0, <1>1, <1>6, SizeTag DEF Filtered, Texts, Places, Sizes
  <2>2. Len(e.object) \in Nat /\ Len(e.object) # 0
    BY <1>1, QuestionParts DEF Exists
  <2>3. Len(e.object) > 1
    <3> DEFINE n == Len(e.object)
    <3>1. n \in Nat /\ n # 0 /\ n # 1
      BY <2>1, <2>2 DEF Normal
    <3> HIDE DEF n
    <3>2. n > 1
      BY <3>1
    <3> QED
      BY <3>2 DEF n
  <2> QED
    BY <1>1, <1>6, <2>1, <2>3
<1>7. CASE c = "CHILD"
  BY <1>0, <1>1, <1>7, ChildTag DEF Filtered, Texts, Places, Sizes
<1> QED
  BY <1>0, <1>1, <1>2, <1>3, <1>4, <1>5, <1>6, <1>7, QtAssumption DEF Texts, Places, Sizes

-----------------------------------------------------------------------------
(* The inductive invariant.                                                 *)

Tree ==
  /\ kind \in [Widgets -> {"plain", "table", "none"}]
  /\ visible \in SUBSET Widgets
  /\ rows \in SUBSET (0 .. RowCount - 1) /\ columns \in SUBSET (0 .. ColumnCount - 1)

Connection ==
  /\ filter \in BOOLEAN /\ buttons \in SUBSET {"close", "open"}
  /\ closer \in {"none", "started", "removed", "shut", "freed"}
  /\ streams \in SUBSET Streams
  /\ closing \in Streams \cup {NoStream} /\ opener \in Streams \cup {NoStream}
  /\ current \in Streams \cup {NoStream} /\ port \in Streams \cup {NoStream}
  /\ served \in Streams \cup {NoStream} /\ via \in Streams \cup {NoStream}

Threads ==
  /\ reader \in {"gone", "idle", "posted", "waiting", "woken", "returning"}
  /\ queued \in BOOLEAN /\ alive \in BOOLEAN
  /\ lock \in {"none", "reader"}
  /\ ui \in {"free", "trigger", "done", "leave", "left"}
  /\ fault \in {"none", "stream", "index"}

\* The event and the answer in the hands of the two threads.
HandedOver ==
  /\ IF Idle THEN event = NoEvent ELSE event \in Questions
  /\ lock = "reader" <=> reader \in {"posted", "returning"}
  /\ queued => reader \in {"posted", "waiting"}
  /\ ui \in {"trigger", "done"} =>
       /\ reader \in {"posted", "waiting"} /\ ~queued
       /\ Converted(event.command, value)[1] \in TagsOf(event.command)
  /\ ui = "leave" => reader \in {"woken", "returning"}
  /\ reader \in {"woken", "returning"} =>
       Converted(event.command, result)[1] \in TagsOf(event.command)

IInv == Tree /\ Connection /\ Threads /\ HandedOver

LEMMA InitHolds == Init => IInv
<1> SUFFICES ASSUME Init PROVE IInv
  OBVIOUS
<1>1. Tree
  BY DEF Init, Tree, Widgets
<1>2. Connection
  BY QtAssumption DEF Init, Connection, Streams, NoStream
<1> QED
  BY <1>1, <1>2 DEF Init, IInv, Threads, HandedOver, Idle

\* A step that leaves the connection alone.
LEMMA ConnectionStays ==
  Connection /\ UNCHANGED <<closeVars, serverVars, served, via>> => Connection'
BY DEF Connection, closeVars, serverVars

LEMMA FaultOfUse == \A s : AfterUse(s) \subseteq {"none", "stream", "index"}
BY DEF AfterUse

LEMMA HostKeeps ==
  ASSUME IInv, Connect \/ HangUp
  PROVE  IInv'
<1> USE DEF IInv
<1>1. Tree'
  BY DEF Tree, Connect, HangUp, treeVars
<1>2. Connection'
  BY DEF Connection, Connect, HangUp, closeVars, serverVars, NoStream
<1>3. Threads' /\ HandedOver'
  BY DEF Connect, HangUp, Threads, HandedOver, Idle, eventVars, uiVars
<1> QED
  BY <1>1, <1>2, <1>3

LEMMA ReaderKeeps ==
  ASSUME IInv, (\E question \in Questions : Post(question)) \/ ReaderGoesOn
  PROVE  IInv'
<1> USE DEF IInv
<1>1. Tree'
  BY DEF Tree, Post, ReaderGoesOn, Wait, Wake, Return, treeVars
<1>2. Connection'
  BY DEF Connection, Post, ReaderGoesOn, Wait, Wake, Return, closeVars, serverVars, NoStream
<1>3. CASE \E question \in Questions : Post(question)
  <2>1. PICK question \in Questions : Post(question)
    BY <1>3
  <2>2. Threads'
    BY <2>1 DEF Post, Threads, uiVars
  <2>3. HandedOver'
    BY <2>1 DEF Post, Threads, HandedOver, Idle, uiVars
  <2> QED
    BY <1>1, <1>2, <2>2, <2>3
<1>4. CASE Wait
  BY <1>1, <1>2, <1>4 DEF Wait, Threads, HandedOver, Idle, uiVars
<1>5. CASE Wake
  BY <1>1, <1>2, <1>5 DEF Wake, Threads, HandedOver, Idle, uiVars
<1>6. CASE Return
  <2>1. fault' \in {"none", "stream", "index"}
    BY <1>6, FaultOfUse DEF Return
  <2> QED
    BY <1>1, <1>2, <1>6, <2>1 DEF Return, Threads, HandedOver, Idle
<1> QED
  BY <1>3, <1>4, <1>5, <1>6 DEF ReaderGoesOn

LEMMA ReceiveKeeps == ASSUME IInv, Receive PROVE IInv'
<1> USE DEF IInv
<1> DEFINE answered == IF filter THEN Filtered(event) ELSE Silence
           isAction == /\ filter /\ event.command \in {"ACTION_NAME", "ACTION_DO"}
                       /\ Exists(event.object)
           triggers == isAction /\ event.command = "ACTION_DO" /\ event.index < Actions
<1>0. /\ ui = "free" /\ queued /\ queued' = FALSE
      /\ \/ triggers /\ ui' = "trigger" /\ UNCHANGED <<alive, fault>>
         \/ ~triggers /\ answered # Silence /\ ui' = "done" /\ UNCHANGED <<alive, fault>>
         \/ answered = Silence /\ alive' = FALSE /\ UNCHANGED <<ui, fault>>
         \/ fault' = "index" /\ UNCHANGED <<ui, alive>>
      /\ value' = answered
      /\ UNCHANGED <<treeVars, closeVars, serverVars, reader, served, via, event, lock, result>>
  BY DEF Receive, readerVars
<1>1. event \in Questions
  BY <1>0 DEF HandedOver, Idle
<1>2. triggers => answered # Silence
  <2>1. triggers => Filtered(event) = Null
    BY DEF Filtered, Texts, Places, Sizes
  <2> QED
    BY <2>1, Tagged
<1>3. answered # Silence => Converted(event.command, answered)[1] \in TagsOf(event.command)
  BY <1>1, FilteredFits
<1> HIDE DEF answered, isAction, triggers
<1>4. Tree' /\ Connection'
  BY <1>0, ConnectionStays DEF Tree, treeVars
<1>5. Threads'
  BY <1>0 DEF Threads
<1>6. HandedOver'
  BY <1>0, <1>2, <1>3 DEF HandedOver, Threads, Idle
<1> QED
  BY <1>4, <1>5, <1>6

LEMMA DoneKeeps == ASSUME IInv, Done PROVE IInv'
<1> USE DEF IInv
<1>1. Tree' /\ Connection'
  BY ConnectionStays DEF Done, Tree, treeVars
<1>2. reader = "waiting" /\ reader' = "woken"
  BY DEF Done, HandedOver
<1>3. Threads'
  BY <1>2 DEF Done, Threads
<1>4. HandedOver'
  BY <1>2 DEF Done, HandedOver, Idle
<1> QED
  BY <1>1, <1>3, <1>4

\* Closing and opening leave the hand-over alone.
LEMMA CloseAndOpenKeep ==
  ASSUME IInv,
         CloseClicked \/ RemoveFilter \/ Shut \/ Join \/ Forget \/ OpenStream \/ PollStream
  PROVE  IInv'
<1> USE DEF IInv
<1>1. UNCHANGED <<treeVars, readerVars, eventVars, uiVars>>
  BY DEF CloseClicked, RemoveFilter, Shut, Join, Forget, OpenStream, PollStream
<1>2. Tree' /\ HandedOver'
  BY <1>1 DEF Tree, HandedOver, Idle, treeVars, readerVars, eventVars, uiVars
<1>3. fault' \in {"none", "stream", "index"}
  BY FaultOfUse DEF CloseClicked, RemoveFilter, Shut, Join, Forget, OpenStream, PollStream, Threads
<1>4. Threads'
  BY <1>1, <1>3 DEF Threads, readerVars, eventVars, uiVars
<1>5. UNCHANGED <<served, via>>
  BY <1>1 DEF readerVars
<1>6. CloseClicked => Connection'
  BY <1>5 DEF CloseClicked, Connection, serverVars
<1>7. RemoveFilter => Connection'
  BY <1>5 DEF RemoveFilter, Connection, serverVars
<1>8. Shut => Connection'
  BY <1>5 DEF Shut, Connection, NoStream
<1>9. Join => Connection'
  BY <1>5 DEF Join, Connection, NoStream
<1>10. Forget => Connection'
  BY <1>5 DEF Forget, Connection, NoStream
<1>11. OpenStream => Connection'
  BY <1>5 DEF OpenStream, Connection, closeVars
<1>12. PollStream => Connection'
  BY <1>5 DEF PollStream, Connection, NoStream
<1> QED
  BY <1>2, <1>4, <1>6, <1>7, <1>8, <1>9, <1>10, <1>11, <1>12

LEMMA OthersKeep ==
  ASSUME IInv, Leave \/ Triggered \/ UNCHANGED vars
  PROVE  IInv'
<1> USE DEF IInv
<1>1. UNCHANGED <<treeVars, closeVars, serverVars, readerVars, event, queued, lock, value, result, fault>>
  BY DEF Leave, Triggered, eventVars, uiVars, vars
<1>2. Tree' /\ Connection'
  BY <1>1, ConnectionStays DEF Tree, treeVars, readerVars
<1>3. /\ ui' = ui \/ (ui = "left" /\ ui' = "free") \/ (ui = "trigger" /\ ui' = "done")
      /\ alive' = alive \/ alive' \in BOOLEAN
  BY DEF Leave, Triggered, uiVars, eventVars, vars
<1>4. Threads'
  BY <1>1, <1>3 DEF Threads, readerVars
<1>5. HandedOver'
  BY <1>1, <1>3 DEF HandedOver, Idle, readerVars
<1> QED
  BY <1>2, <1>4, <1>5

LEMMA ApplicationKeeps == ASSUME IInv, Application PROVE IInv'
<1> USE DEF IInv
<1>1. UNCHANGED <<closeVars, serverVars, readerVars, eventVars, uiVars, fault>>
  BY DEF Application
<1>2. Tree'
  <2>1. CASE \E w \in Widgets \ {"desktop"} : Create(w)
    BY <2>1 DEF Tree, Create
  <2>2. CASE \E w \in Widgets \ {"desktop"} : Destroy(w)
    BY <2>2 DEF Tree, Destroy
  <2>3. CASE \E w \in Widgets \ {"desktop"} : Hide(w) \/ Show(w)
    BY <2>3 DEF Tree, Hide, Show
  <2>4. CASE HideOrShowItem
    BY <2>4 DEF Tree, HideOrShowItem
  <2> QED
    BY <2>1, <2>2, <2>3, <2>4 DEF Application
<1>3. Connection'
  BY <1>1, ConnectionStays DEF readerVars
<1>4. Threads' /\ HandedOver'
  BY <1>1 DEF Threads, HandedOver, Idle, readerVars, eventVars, uiVars
<1> QED
  BY <1>2, <1>3, <1>4

LEMMA StepHolds == IInv /\ [Next]_vars => IInv'
BY HostKeeps, ReaderKeeps, ReceiveKeeps, DoneKeeps, CloseAndOpenKeep, OthersKeep, ApplicationKeeps
DEF Next, UIGoesOn, OpenerGoesOn, CloserGoesOn

LEMMA Always == Spec => []IInv
BY InitHolds, StepHolds, PTL DEF Spec

-----------------------------------------------------------------------------
(* Children.                                                                *)

\* A child of a table that is asked for by a place below their number.
LEMMA TableChildren ==
  ASSUME IInv, NEW object \in Objects, Exists(object), Table(object),
         NEW i \in 0 .. Children(object) - 1
  PROVE  /\ Child(object, i) = Object(Append(object, Char(Nth(Items(object), i))))
         /\ Nth(Items(object), i) \in Items(object)
         /\ Nth(Items(object), i) \in Nat
         /\ \A j \in 0 .. i - 1 : Nth(Items(object), j) < Nth(Items(object), i)
         /\ Children(object) \in Nat
<1>1. PICK bound \in Int : Items(object) \subseteq 0 .. bound
  <2>1. RowCount - 1 \in Int /\ ColumnCount - 1 \in Int
    BY QtAssumption
  <2>2. {} \subseteq 0 .. RowCount - 1
    OBVIOUS
  <2> QED
    BY <2>1, <2>2 DEF Items, IInv, Tree
<1>2. i \in 0 .. Cardinality(Items(object)) - 1
  BY DEF Children
<1>3. Child(object, i) = Object(Append(object, Char(Nth(Items(object), i))))
  BY <1>2 DEF Child, TableChild
<1>4. /\ Nth(Items(object), i) \in Items(object)
      /\ \A j \in 0 .. i - 1 : Nth(Items(object), j) < Nth(Items(object), i)
  BY <1>1, <1>2, NthIs, NthGrows
<1>5. Nth(Items(object), i) \in Nat
  BY <1>1, <1>4
<1>6. Children(object) \in Nat
  <2>1. IsFiniteSet(0 .. bound)
    BY FS_Interval
  <2>2. IsFiniteSet(Items(object))
    BY <1>1, <2>1, FS_Subset
  <2> QED
    BY <2>2, FS_CardinalityType DEF Children
<1> QED
  BY <1>3, <1>4, <1>5, <1>6

LEMMA WidgetChildren ==
  ASSUME IInv, NEW object \in Objects, ~Table(object), NEW i \in 0 .. Children(object) - 1
  PROVE  \E w \in Shown(object[1]) : Child(object, i) = Object(<<w>>)
<1>1. i \in 0 .. Cardinality(Shown(object[1])) - 1
  BY DEF Children
<1>2. Shown(object[1]) # {}
  <2>1. Cardinality(Shown(object[1])) # 0
    BY <1>1
  <2> QED
    BY <2>1, FS_EmptySet
<1>3. Child(object, i) = Object(<<CHOOSE w \in Shown(object[1]) : TRUE>>)
  BY <1>1 DEF Child, WidgetChild
<1>4. (CHOOSE w \in Shown(object[1]) : TRUE) \in Shown(object[1])
  BY <1>2
<1> QED
  BY <1>3, <1>4

LEMMA Found == IInv => ChildrenAreFound
<1> SUFFICES ASSUME IInv, NEW object \in Objects, Exists(object),
                    NEW i \in 0 .. Children(object) - 1
             PROVE  LET child == Child(object, i)[2]
                    IN  /\ Child(object, i) # Null
                        /\ Exists(child)
                        /\ ~Table(object) => child[1] \in visible
                        /\ Table(object) /\ Nth(Items(object), i) < CharLimit =>
                             /\ child[Len(child)] \in Items(object)
                             /\ \A j \in 0 .. i - 1 : Child(object, j)[2] # child
  BY DEF ChildrenAreFound
<1> DEFINE child == Child(object, i)[2]
<1>1. object \in Seq(Letters) /\ object # <<>> /\ Len(object) \in Nat \ {0}
  BY ObjectsAreSequences, EmptySeq DEF Exists
<1>2. ASSUME NEW o
      PROVE  Object(o) # Null /\ Object(o)[2] = o
  BY DEF Object, Null
<1>3. CASE ~Table(object)
  <2>1. PICK w \in Shown(object[1]) : Child(object, i) = Object(<<w>>)
    BY <1>3, WidgetChildren
  <2>2. Child(object, i) # Null /\ child = <<w>>
    BY <1>2, <2>1
  <2> HIDE DEF child
  <2>3. child # <<>> /\ child[1] = w
    BY <2>2
  <2>4. kind[w] # "none" /\ w \in visible
    BY DEF Shown
  <2> QED
    BY <1>3, <2>2, <2>3, <2>4 DEF Exists, child
<1>4. CASE Table(object)
  <2> DEFINE nth(j) == Nth(Items(object), j)
  <2>1. ASSUME NEW j \in 0 .. Children(object) - 1
        PROVE  /\ Child(object, j) # Null /\ Child(object, j)[2] = Append(object, Char(nth(j)))
               /\ nth(j) \in Items(object) /\ nth(j) \in Nat
               /\ \A k \in 0 .. j - 1 : nth(k) < nth(j)
               /\ Children(object) \in Nat
    BY <1>2, <1>4, TableChildren
  <2>2. ASSUME NEW s, NEW t
        PROVE  /\ Append(object, s) # <<>> /\ Append(object, s)[1] = object[1]
               /\ Append(object, s)[Len(Append(object, s))] = s
               /\ s # t => Append(object, s) # Append(object, t)
    BY <1>1
  <2> HIDE DEF child, nth
  <2>3. child = Append(object, Char(nth(i))) /\ Child(object, i) # Null
    BY <2>1 DEF child
  <2>4. Exists(child)
    BY <2>2, <2>3 DEF Exists
  <2>5. ASSUME nth(i) < CharLimit
        PROVE  /\ child[Len(child)] \in Items(object)
               /\ \A j \in 0 .. i - 1 : Child(object, j)[2] # child
    <3>1. Char(nth(i)) = nth(i)
      BY <2>1, <2>5, CharOfSmall
    <3>2. ASSUME NEW j \in 0 .. i - 1
          PROVE  Child(object, j)[2] # child
      <4>1. j \in 0 .. Children(object) - 1 /\ j < i
        BY <2>1
      <4>2. nth(j) < nth(i)
        BY <2>1
      <4>3. Char(nth(j)) = nth(j) /\ nth(j) # nth(i)
        BY <2>1, <2>5, <4>1, <4>2, QtAssumption, CharOfSmall
      <4> QED
        BY <2>1, <2>2, <2>3, <3>1, <4>1, <4>3
    <3> QED
      BY <2>1, <2>2, <2>3, <3>1, <3>2
  <2> QED
    BY <1>4, <2>3, <2>4, <2>5 DEF child, nth
<1> QED
  BY <1>3, <1>4

-----------------------------------------------------------------------------
(* The theorems.                                                            *)

\* Every variable keeps its type, and what a reader takes home is what its
\* command may be answered (windows_qt.cxx:35-257).
THEOREM AlwaysTyped == Spec => []TypeOK
<1>1. IInv => TypeOK
  <2> SUFFICES ASSUME IInv PROVE TypeOK
    OBVIOUS
  <2>1. event \in Questions \cup {NoEvent}
    BY DEF IInv, HandedOver
  <2>2. {closing, opener, current, port, served, via} \subseteq Streams \cup {NoStream}
    BY DEF IInv, Connection
  <2> QED
    BY <2>1, <2>2 DEF IInv, Tree, Connection, Threads, HandedOver, TypeOK
<1> QED
  BY <1>1, Always, PTL

\* No other step abandons a reader (QtAutomationEventWithSynchronization.h:54-86).
THEOREM OnlyTheseAreAbandoned == Spec => FewAreAbandoned
<1> DEFINE Step == ~Abandoned /\ Abandoned' =>
       \/ ~filter
       \/ /\ Exists(event.object) /\ ~Table(event.object)
          /\ \/ event.command \in Sizes /\ Len(event.object) > 1
             \/ event.command = "CHILD" /\ event.index = -1
<1>1. IInv /\ [Next]_vars => [Step]_vars
  <2> SUFFICES ASSUME IInv, Next, ~Abandoned, Abandoned', filter
               PROVE  /\ Exists(event.object) /\ ~Table(event.object)
                      /\ \/ event.command \in Sizes /\ Len(event.object) > 1
                         \/ event.command = "CHILD" /\ event.index = -1
    OBVIOUS
  <2>1. ~Leave /\ ~ \E question \in Questions : Post(question)
    BY DEF Leave, Post, Abandoned, Idle, readerVars
  <2>2. ~Connect /\ ~HangUp /\ ~Wait /\ ~Wake /\ ~Return
    BY DEF Connect, HangUp, Wait, Wake, Return, Abandoned, Idle, eventVars
  <2>3. ~Done /\ ~Triggered /\ ~Application
    BY DEF Done, Triggered, Application, Abandoned, Idle, IInv, HandedOver, readerVars, eventVars
  <2>4. ~CloseClicked /\ ~CloserGoesOn /\ ~OpenStream /\ ~PollStream
    BY DEF CloseClicked, CloserGoesOn, RemoveFilter, Shut, Join, Forget, OpenStream, PollStream,
           Abandoned, Idle, readerVars, eventVars
  <2>5. Receive
    BY <2>1, <2>2, <2>3, <2>4 DEF Next, ReaderGoesOn, UIGoesOn, OpenerGoesOn
  <2>6. event \in Questions
    BY <2>5 DEF Receive, IInv, HandedOver, Idle
  <2>7. Filtered(event) = Silence
    BY <2>5 DEF Receive, Abandoned, Idle, readerVars
  <2> QED
    BY <2>6, <2>7, SilentOnly
<1> QED
  BY <1>1, Always, PTL DEF Spec, FewAreAbandoned

\* Whatever is hidden, shown, made or deleted, the children that are counted can
\* all be found, in tables of any size
\* (QtApplicationMachineAutomationEventFilter.cxx:401-561).
THEOREM ChildrenAlwaysFound == Spec => []ChildrenAreFound
BY Found, Always, PTL

=============================================================================
