----------------------------- MODULE LibraryProofs -----------------------------
(***************************************************************************)
(* Theorems about the library, each for every value of its constants: the  *)
(* circular buffer implements a bounded queue, the parser evaluates every  *)
(* request that fits its buffer as it was meant, the client takes no       *)
(* answer for that of another request, and values that are set and read    *)
(* come through as they are.                                               *)
(***************************************************************************)
EXTENDS MCLibrary, CircularBufferLemmas, FiniteSetTheorems, WellFoundedInduction

-----------------------------------------------------------------------------
(* The circular buffer.                                                     *)

LEMMA BufferStarts == Init => TypeOK
BY DEF Init, TypeOK

LEMMA BufferKeeps == TypeOK /\ [Next]_vars => TypeOK'
<1> SUFFICES ASSUME TypeOK, [Next]_vars
             PROVE  TypeOK'
  OBVIOUS
<1>1. ASSUME NEW v \in Byte, PushByte(v)
      PROVE  TypeOK'
  BY <1>1, PushType DEF PushByte, TypeOK
<1>2. CASE PopByte
  BY <1>2, PopType DEF PopByte, TypeOK
<1>3. CASE UNCHANGED vars
  BY <1>3 DEF vars, TypeOK
<1> QED
  BY <1>1, <1>2, <1>3 DEF Next

\* The variables always have their types (sq_circularbuffer.c:68-104).
THEOREM TypeCorrect == Spec => []TypeOK
  BY BufferStarts, BufferKeeps, PTL DEF Spec

\* EMPTY, FULL and AVAILABLE never contradict one another in any reachable
\* buffer of any size (sq_circularbuffer.c:27-66).
THEOREM ObserversAlwaysAgree == Spec => []ObserversAgree
<1>1. TypeOK => ObserversAgree
  BY BufferFields DEF TypeOK, ObserversAgree, Available, IsFull, IsEmpty, FullMark
<1> QED
  BY <1>1, TypeCorrect, PTL

-----------------------------------------------------------------------------
\* The buffer implements the bounded queue: every push is a Put or an Overflow
\* of the queue and every pop a Take (sq_circularbuffer.c:68-104).
THEOREM ImplementsQueue == Spec => RefinesQueue
<1>1. Init => Queue!Init
  <2> SUFFICES ASSUME Init
               PROVE  Queue!Init
    OBVIOUS
  <2>1. Available(buffer) = 0
    BY BufferFields DEF Init, Cleared, Available, IsFull, FullMark
  <2>2. Contents(buffer) = << >>
    BY <2>1, ContentsType DEF Init
  <2> QED
    BY <2>2 DEF Init, Queue!Init
<1>2. TypeOK /\ [Next]_vars => [Queue!Next]_(Queue!vars)
  <2> SUFFICES ASSUME TypeOK, [Next]_vars
               PROVE  [Queue!Next]_(Queue!vars)
    OBVIOUS
  <2>1. buffer \in Buffer
    BY DEF TypeOK
  <2>2. /\ Contents(buffer) \in Seq(Byte)
        /\ Len(Contents(buffer)) = Available(buffer)
        /\ Available(buffer) \in 0 .. Size
    BY <2>1, ContentsType, AvailableRange
  <2>3. ASSUME NEW v \in Byte, PushByte(v)
        PROVE  Queue!Next
    <3>1. CASE Available(buffer) < Size
      <4>1. Queue!Put(v)
        BY <2>1, <2>2, <2>3, <3>1, PushAppends DEF PushByte, Queue!Put
      <4> QED
        BY <4>1 DEF Queue!Next
    <3>2. CASE Available(buffer) = Size
      <4>1. Queue!Overflow(v)
        BY <2>1, <2>2, <2>3, <3>2, PushOverflows DEF PushByte, Queue!Overflow
      <4> QED
        BY <4>1 DEF Queue!Next
    <3> QED
      BY <2>2, <3>1, <3>2, SizeAssumption
  <2>4. CASE PopByte
    <3>1. Queue!Take
      BY <2>1, <2>4, PopTakes DEF PopByte, Queue!Take
    <3> QED
      BY <3>1 DEF Queue!Next
  <2>5. CASE UNCHANGED vars
    BY <2>5 DEF vars, Queue!vars
  <2> QED
    BY <2>3, <2>4, <2>5 DEF Next
<1> QED
  BY <1>1, <1>2, TypeCorrect, PTL DEF Spec, RefinesQueue, Queue!Spec


-----------------------------------------------------------------------------
(* The elements of a set of numbers by their place.                         *)

\* A set of numbers has a least one.
LEMMA LeastNumber ==
  ASSUME NEW T, T \subseteq Nat, T # {}
  PROVE  \E x \in T : \A y \in T : x <= y
<1> DEFINE R == {ss \in Nat \X Nat : ss[1] < ss[2]}
<1>1. IsWellFoundedOn(R, Nat)
  BY NatLessThanWellFounded DEF OpToRel
<1>2. \E x \in T : \A y \in T : <<y, x>> \notin R
  <2> HIDE DEF R
  <2> QED
    BY <1>1, WFMin
<1>3. PICK x \in T : \A y \in T : <<y, x>> \notin R
  BY <1>2
<1>4. ASSUME NEW y \in T
      PROVE  x <= y
  <2>1. y \in Nat /\ x \in Nat
    OBVIOUS
  <2>2. <<y, x>> \in Nat \X Nat /\ <<y, x>>[1] = y /\ <<y, x>>[2] = x
    BY <2>1
  <2>3. <<y, x>> \notin R
    BY <1>3, Zenon
  <2>4. ~ (<<y, x>>[1] < <<y, x>>[2])
    BY <2>2, <2>3, Zenon
  <2> QED
    BY <2>1, <2>2, <2>4
<1> QED
  BY <1>4

\* How many elements there are up to a number grows by one at each element.
UpTo(set, x) == {j \in set : j <= x}
Below(set, x) == {j \in set : j < x}

LEMMA UpToPrevious ==
  ASSUME NEW set, \A j \in set : j \in Nat, NEW x \in Nat
  PROVE  /\ UpTo(set, x) = IF x \in set THEN UpTo(set, x - 1) \cup {x} ELSE UpTo(set, x - 1)
         /\ x \notin UpTo(set, x - 1)
         /\ x = 0 => UpTo(set, x - 1) = {}
         /\ Below(set, x) = UpTo(set, x - 1)
BY DEF UpTo, Below

LEMMA UpToFinite ==
  ASSUME NEW set, IsFiniteSet(set), NEW x \in Int
  PROVE  IsFiniteSet(UpTo(set, x)) /\ Cardinality(UpTo(set, x)) \in Nat
<1>1. UpTo(set, x) \in SUBSET set
  BY DEF UpTo
<1> QED
  BY <1>1, FS_Subset, FS_CardinalityType

\* There is an element for each place below the number of elements: the number
\* at which the count first passes the place.
LEMMA NthExists ==
  ASSUME NEW bound \in Int, NEW set, set \subseteq 0 .. bound,
         NEW n \in 0 .. Cardinality(set) - 1
  PROVE  \E i \in set : Cardinality(Below(set, i)) = n
<1>1. IsFiniteSet(set) /\ \A j \in set : j \in Nat /\ j <= bound
  <2>1. IsFiniteSet(0 .. bound)
    BY FS_Interval
  <2>2. IsFiniteSet(set)
    BY <2>1, FS_Subset
  <2>3. \A j \in set : j \in Nat /\ j <= bound
    OBVIOUS
  <2> QED
    BY <2>2, <2>3
<1>2. n \in Nat /\ Cardinality(set) \in Nat /\ Cardinality(set) > n
  BY <1>1, FS_CardinalityType
<1> DEFINE reached == {x \in Nat : Cardinality(UpTo(set, x)) > n}
<1>3. bound \in reached
  <2>1. set # {}
    BY <1>1, <1>2, FS_EmptySet
  <2>2. bound \in Nat
    <3>1. PICK j \in set : j \in Nat /\ j <= bound
      BY <1>1, <2>1
    <3> HIDE DEF reached
    <3> QED
      BY <3>1
  <2>3. UpTo(set, bound) = set
    BY <1>1, <2>2 DEF UpTo
  <2> QED
    BY <1>2, <2>2, <2>3
<1>4. PICK x \in reached : \A y \in reached : x <= y
  <2>1. reached \subseteq Nat /\ reached # {}
    BY <1>3
  <2> HIDE DEF reached
  <2> QED
    BY <2>1, LeastNumber
<1>5. x \in Nat /\ Cardinality(UpTo(set, x)) > n
  OBVIOUS
<1>6. Cardinality(UpTo(set, x - 1)) <= n
  <2>1. CASE x = 0
    <3>1. UpTo(set, x - 1) = {}
      BY <1>1, <1>5, <2>1, UpToPrevious
    <3> HIDE DEF reached
    <3> QED
      BY <1>2, <3>1, FS_EmptySet
  <2>2. CASE x # 0
    <3>1. x - 1 \in Nat
      BY <1>5, <2>2
    <3>2. x - 1 \notin reached
      <4> HIDE DEF reached
      <4> QED
        BY <1>4, <1>5, <3>1
    <3>3. ~ (Cardinality(UpTo(set, x - 1)) > n)
      BY <3>1, <3>2
    <3>4. Cardinality(UpTo(set, x - 1)) \in Nat
      <4> HIDE DEF reached
      <4> QED
        BY <1>1, <3>1, UpToFinite
    <3> QED
      BY <1>2, <3>3, <3>4
  <2> QED
    BY <2>1, <2>2
<1> HIDE DEF reached
<1>7. IsFiniteSet(UpTo(set, x - 1)) /\ Cardinality(UpTo(set, x - 1)) \in Nat
  <2>1. x - 1 \in Int
    BY <1>5
  <2> QED
    BY <1>1, <2>1, UpToFinite
<1>8. Cardinality(UpTo(set, x - 1) \cup {x}) = Cardinality(UpTo(set, x - 1)) + 1
  <2>1. x \notin UpTo(set, x - 1)
    BY <1>1, <1>5, UpToPrevious
  <2> QED
    BY <1>7, <2>1, FS_AddElement
<1>9. x \in set /\ Cardinality(UpTo(set, x - 1)) = n
  <2>1. UpTo(set, x) = IF x \in set THEN UpTo(set, x - 1) \cup {x} ELSE UpTo(set, x - 1)
    BY <1>1, <1>5, UpToPrevious
  <2> QED
    BY <1>2, <1>5, <1>6, <1>7, <1>8, <2>1
<1> QED
  BY <1>1, <1>5, <1>9, UpToPrevious

-----------------------------------------------------------------------------
(* The parser: what its scans find.                                         *)

LEMMA ParserConstants ==
  /\ BufferSize \in Nat /\ BufferSize > 1
  /\ MaxParameters \in Nat \ {0}
  /\ MaxLine \in Nat
  /\ "newline" \in Alphabet /\ "space" \in Alphabet /\ "nul" \notin Alphabet
BY InputAssumption
   DEF Requests!ParserAssumption, Requests!Newline, Requests!Space, Requests!Nul

\* The parser's own view of a library module.
LEMMA SameCardinality == \A S : Requests!Cardinality(S) = Cardinality(S)
BY DEF Requests!Cardinality, Cardinality

\* A scan stops at the first of its end characters, or behind the buffer.
LEMMA ScanStops ==
  ASSUME NEW b, NEW i \in 1 .. BufferSize + 1, NEW stop, NEW k,
         k = Requests!FirstAtOrAfter(b, i, stop)
  PROVE  /\ k \in i .. BufferSize + 1
         /\ k \in 1 .. BufferSize => b[k] \in stop
         /\ \A j \in i .. k - 1 : b[j] \notin stop
<1> DEFINE ends == {j \in i .. BufferSize : b[j] \in stop} \cup {BufferSize + 1}
<1>1. ends \subseteq Nat /\ ends # {}
  BY ParserConstants
<1>2. k = CHOOSE x \in ends : \A y \in ends : x <= y
  BY DEF Requests!FirstAtOrAfter, Requests!Min
<1>3. \E x \in ends : \A y \in ends : x <= y
  <2> HIDE DEF ends
  <2> QED
    BY <1>1, LeastNumber
<1>4. k \in ends /\ \A y \in ends : k <= y
  <2> HIDE DEF ends
  <2> QED
    BY <1>2, <1>3, Zenon
<1>5. k \in i .. BufferSize + 1 /\ (k \in 1 .. BufferSize => b[k] \in stop)
  BY <1>4, ParserConstants
<1>6. ASSUME NEW j \in i .. k - 1, b[j] \in stop
      PROVE  FALSE
  <2>1. j \in i .. BufferSize /\ j < k
    BY <1>5, ParserConstants
  <2>2. j \in ends
    BY <1>6, <2>1
  <2>3. k <= j
    BY <1>4, <2>2
  <2> QED
    BY <1>5, <2>1, <2>3, ParserConstants
<1> QED
  BY <1>5, <1>6

LEMMA ScanStopsAt ==
  ASSUME NEW b, NEW i \in 1 .. BufferSize + 1, NEW stop, NEW k \in i .. BufferSize, b[k] \in stop,
         \A j \in i .. k - 1 : b[j] \notin stop
  PROVE  Requests!FirstAtOrAfter(b, i, stop) = k
<1>1. PICK f : f = Requests!FirstAtOrAfter(b, i, stop)
  OBVIOUS
<1>2. /\ f \in i .. BufferSize + 1
      /\ f \in 1 .. BufferSize => b[f] \in stop
      /\ \A j \in i .. f - 1 : b[j] \notin stop
  BY <1>1, ScanStops
<1>3. f = k
  <2>1. CASE f < k
    <3>1. f \in i .. k - 1 /\ f \in 1 .. BufferSize
      BY <1>2, <2>1, ParserConstants
    <3> QED
      BY <1>2, <3>1
  <2>2. CASE k < f
    <3>1. k \in i .. f - 1
      BY <1>2, <2>2, ParserConstants
    <3> QED
      BY <1>2, <3>1
  <2> QED
    BY <1>2, <2>1, <2>2, ParserConstants
<1> QED
  BY <1>1, <1>3

Cells == 1 .. BufferSize
Chars == Alphabet \cup {"nul"}
PathChars == Alphabet \ {"newline", "space", "val", "?"}
Buffers == [Cells -> Chars]

LEMMA Names ==
  /\ Requests!Cells = Cells /\ Requests!Characters = Chars
  /\ Requests!PathCharacters = PathChars
  /\ Requests!Newline = "newline" /\ Requests!Space = "space"
  /\ Requests!Nul = "nul" /\ Requests!Value = "val"
BY DEF Cells, Chars, PathChars, Requests!Cells, Requests!Characters, Requests!PathCharacters,
       Requests!Newline, Requests!Space, Requests!Nul, Requests!Value

LEMMA Terminated ==
  ASSUME NEW b \in Buffers, NEW i
  PROVE  /\ Requests!Terminate(b, i) \in Buffers
         /\ i \in Cells => Requests!Terminate(b, i) = [b EXCEPT ![i] = "nul"]
         /\ i \notin Cells => Requests!Terminate(b, i) = b
BY Names DEF Requests!Terminate, Buffers, Chars

\* The path that the application is given is what the scan passed over.
LEMMA PathTaken ==
  ASSUME NEW b \in Buffers, NEW start \in 1 .. BufferSize + 1, NEW end,
         end = Requests!ReadObjectPath(b, start)
  PROVE  /\ end \in start .. BufferSize + 1
         /\ \A k \in start .. end - 1 : b[k] \in PathChars
         /\ Requests!StringAt(Requests!Terminate(b, end), start)
              = [k \in 1 .. end - start |-> b[start + k - 1]]
<1>1. /\ end \in start .. BufferSize + 1
      /\ end \in Cells => b[end] \in Chars \ PathChars
      /\ \A k \in start .. end - 1 : b[k] \notin Chars \ PathChars
  BY ScanStops, Names DEF Requests!ReadObjectPath, Cells
<1>2. ASSUME NEW k \in start .. end - 1
      PROVE  k \in Cells /\ b[k] \in PathChars
  <2>1. k \in Cells
    BY <1>1, ParserConstants DEF Cells
  <2> QED
    BY <1>1, <2>1 DEF Buffers
<1> DEFINE ended == Requests!Terminate(b, end)
<1>3. ASSUME NEW k \in start .. end - 1
      PROVE  ended[k] = b[k] /\ ended[k] # "nul"
  <2>1. ended[k] = b[k]
    BY <1>1, <1>2, Terminated DEF Buffers
  <2> QED
    BY <1>2, <2>1, ParserConstants DEF PathChars
<1>4. Requests!FirstAtOrAfter(ended, start, {"nul"}) = end
  <2>1. CASE end \in Cells
    <3>1. ended[end] = "nul"
      BY <2>1, Terminated DEF Buffers
    <3> HIDE DEF ended
    <3> QED
      BY <1>1, <1>3, <2>1, <3>1, ScanStopsAt DEF Cells
  <2>2. CASE end \notin Cells
    <3>1. end = BufferSize + 1
      BY <1>1, <2>2, ParserConstants DEF Cells
    <3>2. PICK f : f = Requests!FirstAtOrAfter(ended, start, {"nul"})
      OBVIOUS
    <3> HIDE DEF ended
    <3>3. f \in start .. BufferSize + 1 /\ (f \in 1 .. BufferSize => ended[f] \in {"nul"})
      BY <3>2, ScanStops, Zenon
    <3> QED
      BY <1>3, <3>1, <3>2, <3>3, ParserConstants
  <2> QED
    BY <2>1, <2>2
<1>5. Requests!StringAt(ended, start) = [k \in 1 .. end - start |-> ended[start + k - 1]]
  BY <1>4, Names DEF Requests!StringAt
<1>6. ASSUME NEW k \in 1 .. end - start
      PROVE  ended[start + k - 1] = b[start + k - 1]
  <2>1. start + k - 1 \in start .. end - 1
    BY <1>1, ParserConstants
  <2> QED
    BY <1>3, <2>1
<1> QED
  BY <1>1, <1>2, <1>5, <1>6

LEMMA PathIsTyped ==
  ASSUME NEW b \in Buffers, NEW start \in 1 .. BufferSize + 1, NEW end,
         end = Requests!ReadObjectPath(b, start)
  PROVE  Requests!StringAt(Requests!Terminate(b, end), start) \in Seq(PathChars)
<1>1. end - start \in Nat /\ end \in Int
  BY PathTaken, ParserConstants
<1>2. ASSUME NEW k \in 1 .. end - start
      PROVE  b[start + k - 1] \in PathChars
  <2>1. start + k - 1 \in start .. end - 1
    BY <1>1
  <2> QED
    BY <2>1, PathTaken
<1>3. PICK m \in Nat : m = end - start
  BY <1>1
<1>4. [k \in 1 .. m |-> b[start + k - 1]] \in Seq(PathChars)
  <2>1. [k \in 1 .. m |-> b[start + k - 1]] \in [1 .. m -> PathChars]
    BY <1>2, <1>3
  <2> QED
    BY <2>1, SeqDef
<1>5. Requests!StringAt(Requests!Terminate(b, end), start) = [k \in 1 .. m |-> b[start + k - 1]]
  BY <1>3, PathTaken
<1> QED
  BY <1>4, <1>5

LEMMA ValuesTyped ==
  ASSUME NEW b, NEW start \in 1 .. BufferSize + 1
  PROVE  Requests!ValuesParse(b, start) \in Nat
<1> DEFINE stop == Requests!FirstAtOrAfter(b, start, Requests!Characters \ {"space", "val"})
           values == {i \in start .. stop - 1 : b[i] = "val"}
<1>1. stop \in start .. BufferSize + 1
  BY ScanStops
<1>2. Cardinality(values) \in Nat
  <2>1. IsFiniteSet(start .. stop - 1)
    BY <1>1, ParserConstants, FS_Interval
  <2>2. values \subseteq start .. stop - 1
    OBVIOUS
  <2> HIDE DEF values
  <2> QED
    BY <2>1, <2>2, FS_Subset, FS_CardinalityType
<1>3. Requests!ValuesParse(b, start) \in {Cardinality(values), MaxParameters, MaxParameters + 1}
  BY Names, SameCardinality DEF Requests!ValuesParse
<1> QED
  BY <1>2, <1>3, ParserConstants

\* Each of the scans begins where the one before it stopped.
LEMMA PathPlaces ==
  ASSUME NEW b
  PROVE  /\ Requests!SkipToWhitespace(b, 1) \in 1 .. BufferSize + 1
         /\ Requests!PathStart(b) \in 1 .. BufferSize + 1
         /\ Requests!PathEnd(b) \in 1 .. BufferSize + 1
<1>1. ASSUME NEW i \in 1 .. BufferSize + 1, NEW stop
      PROVE  Requests!FirstAtOrAfter(b, i, stop) \in 1 .. BufferSize + 1
  <2>1. PICK k : k = Requests!FirstAtOrAfter(b, i, stop)
    OBVIOUS
  <2>2. k \in i .. BufferSize + 1
    BY <2>1, ScanStops
  <2> QED
    BY <2>1, <2>2, ParserConstants
<1>2. Requests!SkipToWhitespace(b, 1) \in 1 .. BufferSize + 1
  <2>1. 1 \in 1 .. BufferSize + 1
    BY ParserConstants
  <2> QED
    BY <1>1, <2>1, Zenon DEF Requests!SkipToWhitespace
<1>3. Requests!PathStart(b) \in 1 .. BufferSize + 1
  BY <1>1, <1>2, Zenon DEF Requests!PathStart, Requests!SkipWhitespace
<1>4. Requests!PathEnd(b) \in 1 .. BufferSize + 1
  BY <1>1, <1>3, Zenon DEF Requests!PathEnd, Requests!ReadObjectPath
<1> QED
  BY <1>2, <1>3, <1>4

Outcomes == [handler : Requests!Handlers, path : Seq(PathChars), values : 0 .. MaxParameters]

\* Evaluation leaves a buffer and always calls something.
LEMMA ParseTyped ==
  ASSUME NEW b \in Buffers, NEW newlineAt
  PROVE  LET parsed == Requests!ParseInputBuffer(b, newlineAt)
         IN  /\ parsed.buffer \in Buffers
             /\ parsed.outcome \in Outcomes
             /\ parsed.outcome.handler # "none"
<1> DEFINE first == b[1]
           start == Requests!PathStart(b)
           end   == Requests!PathEnd(b)
           n     == Requests!ValuesParse(b, end)
           path  == Requests!StringAt(Requests!Terminate(b, end), start)
           parsed == Requests!ParseInputBuffer(b, newlineAt)
<1>1. start \in 1 .. BufferSize + 1 /\ end \in 1 .. BufferSize + 1
  BY PathPlaces
<1>2. n \in Nat /\ path \in Seq(PathChars)
  BY <1>1, ValuesTyped, PathIsTyped DEF Requests!PathEnd
<1>3. Requests!Terminate(b, end) \in Buffers /\ Requests!Terminate(b, newlineAt) \in Buffers
  BY Terminated
<1>4. Requests!Failure \in Outcomes /\ Requests!Failure.handler # "none"
  BY ParserConstants
     DEF Requests!Failure, Requests!Call, Outcomes, Requests!Handlers
<1>5. ASSUME NEW handler \in Requests!Handlers, handler # "none"
      PROVE  /\ Requests!Call(handler, << >>, 0) \in Outcomes
             /\ Requests!Call(handler, path, 0) \in Outcomes
             /\ n <= MaxParameters => Requests!Call(handler, path, n) \in Outcomes
             /\ Requests!Call(handler, << >>, 0).handler # "none"
             /\ Requests!Call(handler, path, 0).handler # "none"
             /\ Requests!Call(handler, path, n).handler # "none"
  <2> HIDE DEF path, n
  <2> QED
    BY <1>2, <1>5, ParserConstants DEF Requests!Call, Outcomes
<1>6. first \in {"G", "S", "C", "L", "I", "E", "D"} =>
        /\ Requests!HandlerOf(first, b[2]) \in Requests!Handlers
        /\ Requests!HandlerOf(first, b[2]) # "none"
  <2> HIDE DEF first
  <2> QED
    BY DEF Requests!HandlerOf, Requests!Handlers
<1>7. Requests!ValuesAccepted(first, n) => n <= MaxParameters
  <2> HIDE DEF first, n
  <2> QED
    BY <1>2, ParserConstants DEF Requests!ValuesAccepted
<1>8. "protocol" \in Requests!Handlers /\ "success" \in Requests!Handlers
  BY DEF Requests!Handlers
<1>9. \/ /\ parsed.buffer = b
         /\ \/ parsed.outcome = Requests!Call("protocol", << >>, 0)
            \/ parsed.outcome = Requests!Call("success", << >>, 0)
            \/ parsed.outcome = Requests!Failure
      \/ /\ first \in {"G", "S", "C"} /\ Requests!ValuesAccepted(first, n)
         /\ parsed.buffer = Requests!Terminate(b, end)
         /\ parsed.outcome = Requests!Call(Requests!HandlerOf(first, b[2]), path, n)
      \/ /\ first \in {"L", "I", "E", "D"}
         /\ parsed.buffer = Requests!Terminate(b, end)
         /\ parsed.outcome = Requests!Call(Requests!HandlerOf(first, b[2]), path, 0)
      \/ /\ parsed.buffer = Requests!Terminate(b, newlineAt)
         /\ parsed.outcome = Requests!Failure
  BY DEF Requests!ParseInputBuffer, Requests!TakesValues
<1> HIDE DEF first, start, end, n, path, parsed
<1>10. /\ parsed.buffer \in Buffers
       /\ parsed.outcome \in Outcomes /\ parsed.outcome.handler # "none"
  BY <1>3, <1>4, <1>5, <1>6, <1>7, <1>8, <1>9
<1> QED
  BY <1>10 DEF parsed

-----------------------------------------------------------------------------
(* The parser: what it keeps of a line.                                     *)

ParserTyped ==
  /\ input \in Buffers /\ position \in 0 .. BufferSize
  /\ line \in Seq(Alphabet \ {"newline"}) /\ lost \in BOOLEAN /\ asked \in Outcomes

\* How far a line has come; of one whose newline was lost the parser is a byte
\* further.
Placed ==
  /\ position = 0 => line = << >> /\ ~lost
  /\ Len(line) < BufferSize => position = Len(line) + (IF lost THEN 1 ELSE 0)

\* A line that fits is in the buffer as it was sent.
Kept ==
  ~lost /\ Len(line) < BufferSize => \A i \in 1 .. Len(line) : input[i] = line[i]

ParserInv == ParserTyped /\ Placed /\ Kept

LEMMA NoneTyped == Requests!None \in Outcomes
<1>1. << >> \in Seq(PathChars)
  OBVIOUS
<1> QED
  BY <1>1, ParserConstants DEF Requests!None, Outcomes, Requests!Handlers

LEMMA ParserStarts == Requests!Init => ParserInv
<1> SUFFICES ASSUME Requests!Init
             PROVE  ParserInv
  OBVIOUS
<1>1. lost = FALSE /\ line = << >> /\ position = 0 /\ asked = Requests!None
  BY DEF Requests!Init
<1>2. input \in Buffers
  BY Names DEF Requests!Init, Buffers, Chars
<1>3. lost \in BOOLEAN /\ ~lost
  BY <1>1, Zenon
<1>4. line \in Seq(Alphabet \ {"newline"}) /\ Len(line) = 0
  BY <1>1
<1> QED
  BY <1>1, <1>2, <1>3, <1>4, NoneTyped, ParserConstants DEF ParserInv, ParserTyped, Placed, Kept

\* What each way to take a byte does, with the parser's names for characters.
LEMMA ByteTaken ==
  ASSUME ParserInv, NEW c \in Alphabet, Requests!InputByte(c)
  PROVE  \/ Requests!SkipLeadingNewline
         \/ c = "newline" /\ Requests!StartOver(c)
         \/ c # "newline" /\ Requests!StartOver(c)
         \/ c # "newline" /\ Requests!Store(c)
         \/ Requests!Evaluate
BY Names DEF Requests!InputByte, Requests!Store

\* A newline in front of a line.
LEMMA SkipKeeps ==
  ASSUME ParserInv, Requests!SkipLeadingNewline
  PROVE  ParserInv'
<1>1. /\ UNCHANGED <<input, position, lost>> /\ line' = << >> /\ line = << >>
      /\ asked' = Requests!None
  BY DEF Requests!SkipLeadingNewline, ParserInv, Placed
<1> QED
  BY <1>1, NoneTyped DEF ParserInv, ParserTyped, Placed, Kept

LEMMA FirstStored ==
  ASSUME ParserInv, NEW c \in Alphabet
  PROVE  [input EXCEPT ![1] = c] \in Buffers
BY ParserConstants DEF ParserInv, ParserTyped, Buffers, Chars, Cells

\* The newline of a line that fills the buffer is taken for a first character.
LEMMA LosingKeeps ==
  ASSUME ParserInv, Requests!StartOver("newline")
  PROVE  ParserInv'
<1>1. /\ input' = [input EXCEPT ![1] = "newline"] /\ position' = 1
      /\ line' = << >> /\ lost' = TRUE /\ asked' = Requests!None
  BY Names DEF Requests!StartOver
<1>2. input' \in Buffers
  BY <1>1, FirstStored, ParserConstants
<1>3. lost' \in BOOLEAN /\ lost'
  BY <1>1, Zenon
<1>4. line' \in Seq(Alphabet \ {"newline"}) /\ Len(line') = 0
  BY <1>1
<1> QED
  BY <1>1, <1>2, <1>3, <1>4, NoneTyped, ParserConstants DEF ParserInv, ParserTyped, Placed, Kept

\* The line goes on at the first cell: it no longer fits.
LEMMA StartOverKeeps ==
  ASSUME ParserInv, NEW c \in Alphabet \ {"newline"}, Requests!StartOver(c)
  PROVE  ParserInv'
<1>1. /\ position = BufferSize
      /\ input' = [input EXCEPT ![1] = c] /\ position' = 1
      /\ line' = Append(line, c) /\ lost' = FALSE /\ asked' = Requests!None
  <2>1. lost' = (c = "newline")
    BY Names DEF Requests!StartOver
  <2>2. (c = "newline") = FALSE
    OBVIOUS
  <2>3. lost' = FALSE
    BY <2>1, <2>2, Zenon
  <2> QED
    BY <2>3, Names DEF Requests!StartOver
<1>2. input' \in Buffers
  BY <1>1, FirstStored
<1>3. lost' \in BOOLEAN /\ ~lost'
  BY <1>1, Zenon
<1>4. line' \in Seq(Alphabet \ {"newline"}) /\ Len(line') = Len(line) + 1 /\ Len(line) \in Nat
  BY <1>1 DEF ParserInv, ParserTyped
<1>5. ~(Len(line') < BufferSize)
  BY <1>1, <1>4, ParserConstants DEF ParserInv, Placed
<1> QED
  BY <1>1, <1>2, <1>3, <1>4, <1>5, NoneTyped, ParserConstants
     DEF ParserInv, ParserTyped, Placed, Kept

LEMMA StoreKeeps ==
  ASSUME ParserInv, NEW c \in Alphabet \ {"newline"}, Requests!Store(c)
  PROVE  ParserInv'
<1>1. /\ position < BufferSize
      /\ input' = [input EXCEPT ![position + 1] = c] /\ position' = position + 1
      /\ line' = Append(line, c) /\ UNCHANGED lost /\ asked' = Requests!None
  BY Names DEF Requests!Store
<1>2. position \in Nat /\ position + 1 \in Cells
  BY <1>1, ParserConstants DEF ParserInv, ParserTyped, Cells
<1>3. input' \in Buffers
  BY <1>1, <1>2 DEF ParserInv, ParserTyped, Buffers, Chars
<1>4. /\ line' \in Seq(Alphabet \ {"newline"}) /\ Len(line') = Len(line) + 1 /\ Len(line) \in Nat
      /\ \A i \in 1 .. Len(line) : line'[i] = line[i]
      /\ line'[Len(line) + 1] = c
  BY <1>1 DEF ParserInv, ParserTyped
<1>5. ParserTyped'
  BY <1>1, <1>2, <1>3, <1>4, NoneTyped, ParserConstants DEF ParserInv, ParserTyped
<1>6. Placed'
  BY <1>1, <1>2, <1>4, ParserConstants DEF ParserInv, ParserTyped, Placed
<1>7. Kept'
  <2> SUFFICES ASSUME ~lost', Len(line') < BufferSize, NEW i \in 1 .. Len(line')
               PROVE  input'[i] = line'[i]
    BY DEF Kept
  <2>1. ~lost /\ Len(line) < BufferSize /\ position = Len(line)
    BY <1>1, <1>4, ParserConstants DEF ParserInv, Placed
  <2>2. CASE i = Len(line) + 1
    BY <1>1, <1>2, <1>4, <2>1, <2>2 DEF ParserInv, ParserTyped, Buffers
  <2>3. CASE i \in 1 .. Len(line)
    <3>1. i \in Cells /\ i # position + 1
      BY <1>4, <2>1, <2>3, ParserConstants DEF Cells
    <3> QED
      BY <1>1, <1>4, <2>1, <2>3, <3>1 DEF ParserInv, ParserTyped, Kept, Buffers
  <2> QED
    BY <1>4, <2>2, <2>3
<1> QED
  BY <1>5, <1>6, <1>7 DEF ParserInv

\* The buffer that is evaluated.
Ended == [input EXCEPT ![position + 1] = "newline"]

LEMMA Evaluated ==
  ASSUME ParserInv, Requests!Evaluate
  PROVE  /\ position \in 1 .. BufferSize - 1 /\ Ended \in Buffers
         /\ input' = Requests!ParseInputBuffer(Ended, position + 1).buffer
         /\ asked' = Requests!ParseInputBuffer(Ended, position + 1).outcome
         /\ position' = 0 /\ line' = << >> /\ lost' = FALSE
<1>1. /\ position \in 1 .. BufferSize - 1
      /\ input' = Requests!ParseInputBuffer(Ended, position + 1).buffer
      /\ asked' = Requests!ParseInputBuffer(Ended, position + 1).outcome
      /\ position' = 0 /\ line' = << >> /\ lost' = FALSE
  BY Names DEF Requests!Evaluate, Ended
<1>2. Ended \in Buffers
  BY ParserConstants DEF Ended, ParserInv, ParserTyped, Buffers, Chars
<1> QED
  BY <1>1, <1>2

LEMMA EvaluateKeeps ==
  ASSUME ParserInv, Requests!Evaluate
  PROVE  ParserInv'
<1>1. input' \in Buffers /\ asked' \in Outcomes
  BY Evaluated, ParseTyped
<1>2. lost' \in BOOLEAN /\ ~lost'
  BY Evaluated, Zenon
<1>3. position' = 0 /\ line' = << >>
  BY Evaluated
<1>4. line' \in Seq(Alphabet \ {"newline"}) /\ Len(line') = 0
  BY <1>3
<1> QED
  BY <1>1, <1>2, <1>3, <1>4, ParserConstants DEF ParserInv, ParserTyped, Placed, Kept

LEMMA ParserKeeps == ParserInv /\ [Requests!Next]_(Requests!vars) => ParserInv'
<1> SUFFICES ASSUME ParserInv, [Requests!Next]_(Requests!vars)
             PROVE  ParserInv'
  OBVIOUS
<1>1. ASSUME NEW c \in Alphabet, Requests!InputByte(c)
      PROVE  ParserInv'
  BY <1>1, ByteTaken, SkipKeeps, LosingKeeps, StartOverKeeps, StoreKeeps, EvaluateKeeps
<1>2. CASE UNCHANGED Requests!vars
  BY <1>2 DEF Requests!vars, ParserInv, ParserTyped, Placed, Kept
<1> QED
  BY <1>1, <1>2 DEF Requests!Next

LEMMA ParserTypes == ParserInv => Requests!TypeOK
<1> SUFFICES ASSUME ParserInv
             PROVE  Requests!TypeOK
  OBVIOUS
<1>1. /\ asked.handler \in Requests!Handlers /\ asked.path \in Seq(PathChars)
      /\ asked.values \in 0 .. MaxParameters
  BY DEF ParserInv, ParserTyped, Outcomes
<1> QED
  BY <1>1, Names DEF ParserInv, ParserTyped, Buffers, Requests!TypeOK

\* A short line is answered.
LEMMA ShortIsAnswered ==
  ParserInv /\ [Requests!Next]_(Requests!vars) =>
    [Requests!LineEnds /\ Len(line) + 1 < BufferSize => asked' # Requests!None]_(Requests!vars)
<1> SUFFICES ASSUME ParserInv, Requests!Next, Requests!LineEnds, Len(line) + 1 < BufferSize
             PROVE  asked' # Requests!None
  OBVIOUS
<1>1. line # << >> /\ line' = << >> /\ Len(line) \in Nat
  BY DEF Requests!LineEnds, ParserInv, ParserTyped
<1>2. position # 0 /\ position # BufferSize
  BY <1>1, ParserConstants DEF ParserInv, Placed
<1>3. PICK c \in Alphabet : Requests!InputByte(c)
  BY DEF Requests!Next
<1>4. ~Requests!SkipLeadingNewline /\ ~Requests!StartOver(c)
  BY <1>2 DEF Requests!SkipLeadingNewline, Requests!StartOver
<1>5. ~Requests!Store(c)
  BY <1>1 DEF Requests!Store, ParserInv, ParserTyped
<1>6. Requests!Evaluate
  BY <1>3, <1>4, <1>5 DEF Requests!InputByte
<1>7. asked'.handler # "none"
  BY <1>6, Evaluated, ParseTyped
<1> QED
  BY <1>7 DEF Requests!None

-----------------------------------------------------------------------------
(* The parser: a request is evaluated as it is meant.                       *)

\* The buffer has the line and then a newline.
Holds(b, l) ==
  /\ b \in Buffers /\ l \in Seq(Alphabet \ {"newline"})
  /\ Len(l) \in 1 .. BufferSize - 1
  /\ \A i \in 1 .. Len(l) : b[i] = l[i]
  /\ b[Len(l) + 1] = "newline"

LEMMA FieldsAre ==
  ASSUME NEW l, NEW word \in 1 .. Len(l), NEW path \in 1 .. Len(l), NEW end \in 1 .. Len(l),
         Requests!Fields(l, word, path, end)
  PROVE  /\ \A i \in 1 .. word : l[i] # "space"
         /\ \A i \in word + 1 .. path - 1 : l[i] = "space"
         /\ \A i \in path .. end : l[i] \in PathChars
         /\ \A i \in end + 1 .. Len(l) : l[i] \in {"space", "val"}
         /\ word < path - 1 /\ path <= end
         /\ end = Len(l) \/ (l[end + 1] = "space" /\ l[Len(l)] = "val")
BY Names DEF Requests!Fields, Requests!All

LEMMA FieldsScanned ==
  ASSUME NEW b, NEW l, Holds(b, l),
         NEW word \in 1 .. Len(l), NEW path \in 1 .. Len(l), NEW end \in 1 .. Len(l),
         Requests!Fields(l, word, path, end)
  PROVE  Requests!PathStart(b) = path /\ Requests!PathEnd(b) = end + 1
<1>1. /\ Len(l) \in 1 .. BufferSize - 1 /\ word < path - 1 /\ path <= end
      /\ word \in Int /\ path \in Int /\ end \in Int
  BY FieldsAre DEF Holds
<1>2. ASSUME NEW i \in 1 .. Len(l)
      PROVE  b[i] = l[i] /\ l[i] \in Alphabet
  BY DEF Holds
<1>3. Requests!SkipToWhitespace(b, 1) = word + 1
  <2>1. word + 1 \in 1 .. Len(l) /\ word + 1 \in 1 .. BufferSize /\ 1 \in 1 .. BufferSize + 1
    BY <1>1, ParserConstants
  <2>2. b[word + 1] = "space"
    <3>1. word + 1 \in word + 1 .. path - 1
      BY <1>1
    <3> QED
      BY <1>2, <2>1, <3>1, FieldsAre
  <2>3. ASSUME NEW j \in 1 .. word + 1 - 1
        PROVE  b[j] \notin {"nul", "space"}
    <3>1. j \in 1 .. Len(l) /\ j \in 1 .. word
      BY <1>1
    <3>2. l[j] # "space"
      BY <3>1, FieldsAre
    <3> QED
      BY <1>2, <3>1, <3>2, ParserConstants
  <2>4. Requests!FirstAtOrAfter(b, 1, {"nul", "space"}) = word + 1
    BY <2>1, <2>2, <2>3, ScanStopsAt
  <2> QED
    BY <2>4, Names DEF Requests!SkipToWhitespace
<1>4. Requests!SkipWhitespace(b, word + 1) = path
  <2>1. path \in word + 1 .. BufferSize /\ word + 1 \in 1 .. BufferSize + 1
    BY <1>1, ParserConstants
  <2>2. b[path] \in Chars \ {"space"}
    <3>1. path \in path .. end
      BY <1>1
    <3>2. l[path] \in PathChars
      BY <3>1, FieldsAre
    <3> QED
      BY <1>2, <3>2 DEF PathChars, Chars
  <2>3. ASSUME NEW j \in word + 1 .. path - 1
        PROVE  b[j] \notin Chars \ {"space"}
    <3>1. j \in 1 .. Len(l)
      BY <1>1
    <3>2. l[j] = "space"
      BY FieldsAre
    <3> QED
      BY <1>2, <3>1, <3>2
  <2>4. Requests!FirstAtOrAfter(b, word + 1, Chars \ {"space"}) = path
    BY <2>1, <2>2, <2>3, ScanStopsAt
  <2> QED
    BY <2>4, Names DEF Requests!SkipWhitespace
<1>5. Requests!ReadObjectPath(b, path) = end + 1
  <2>1. /\ path \in 1 .. BufferSize + 1 /\ end + 1 \in path .. BufferSize
        /\ end + 1 - 1 = end
    BY <1>1, ParserConstants
  <2>2. b[end + 1] \in Chars \ PathChars
    <3>1. CASE end = Len(l)
      BY <3>1, ParserConstants DEF Holds, Chars, PathChars
    <3>2. CASE end # Len(l)
      <4>1. end + 1 \in 1 .. Len(l) /\ l[end + 1] = "space"
        BY <1>1, <3>2, FieldsAre
      <4> QED
        BY <1>2, <4>1, ParserConstants DEF Chars, PathChars
    <3> QED
      BY <3>1, <3>2
  <2>3. ASSUME NEW j \in path .. end + 1 - 1
        PROVE  b[j] \notin Chars \ PathChars
    <3>1. j \in 1 .. Len(l) /\ j \in path .. end
      BY <1>1
    <3>2. l[j] \in PathChars
      BY <3>1, FieldsAre
    <3> QED
      BY <1>2, <3>1, <3>2
  <2>4. Requests!FirstAtOrAfter(b, path, Chars \ PathChars) = end + 1
    <3>1. PICK k \in path .. BufferSize : k = end + 1
      BY <2>1
    <3>2. \A j \in path .. k - 1 : b[j] \notin Chars \ PathChars
      BY <2>3, <3>1
    <3> QED
      BY <2>1, <2>2, <3>1, <3>2, ScanStopsAt
  <2> QED
    BY <2>4, Names DEF Requests!ReadObjectPath
<1>6. Requests!PathStart(b) = path
  BY <1>3, <1>4 DEF Requests!PathStart
<1> QED
  BY <1>5, <1>6 DEF Requests!PathEnd

\* The values that a line gives behind its path.
ValuesIn(l, end) == {i \in end + 1 .. Len(l) : l[i] = "val"}

LEMMA OneMoreUpTo ==
  ASSUME NEW set, NEW i \in set, \A j \in set : j \in Int
  PROVE  UpTo(set, i) = Below(set, i) \cup {i} /\ i \notin Below(set, i)
BY DEF UpTo, Below

\* The value at a place has as many values up to it.
LEMMA ValueAt ==
  ASSUME NEW bound \in Int, NEW set, set \subseteq 0 .. bound,
         NEW n \in 1 .. Cardinality(set)
  PROVE  \E i \in set : Cardinality(UpTo(set, i)) = n
<1>1. IsFiniteSet(set) /\ Cardinality(set) \in Nat
  <2>1. IsFiniteSet(0 .. bound)
    BY FS_Interval
  <2> QED
    BY <2>1, FS_Subset, FS_CardinalityType
<1>2. n - 1 \in 0 .. Cardinality(set) - 1
  BY <1>1
<1>3. PICK i \in set : Cardinality(Below(set, i)) = n - 1
  BY <1>2, NthExists
<1>4. i \in Int /\ \A j \in set : j \in Int
  OBVIOUS
<1>5. UpTo(set, i) = Below(set, i) \cup {i} /\ i \notin Below(set, i)
  BY <1>4, OneMoreUpTo
<1>6. IsFiniteSet(Below(set, i))
  <2>1. Below(set, i) \subseteq set
    BY DEF Below
  <2> QED
    BY <1>1, <2>1, FS_Subset
<1>7. Cardinality(UpTo(set, i)) = Cardinality(Below(set, i)) + 1
  BY <1>5, <1>6, FS_AddElement
<1> QED
  BY <1>3, <1>7

\* Only the last of the values has all of them up to it.
LEMMA AllUpToLast ==
  ASSUME NEW set, IsFiniteSet(set), \A j \in set : j \in Int, NEW i \in set, NEW last \in set,
         \A j \in set : j <= last
  PROVE  Cardinality(UpTo(set, i)) = Cardinality(set) <=> i = last
<1>1. UpTo(set, last) = set
  BY DEF UpTo
<1>2. ASSUME Cardinality(UpTo(set, i)) = Cardinality(set)
      PROVE  i = last
  <2>1. UpTo(set, i) \subseteq set
    BY DEF UpTo
  <2>2. UpTo(set, i) = set
    BY <1>2, <2>1, FS_Subset
  <2>3. last <= i
    BY <2>2 DEF UpTo
  <2> QED
    BY <2>3
<1> QED
  BY <1>1, <1>2

LEMMA ValuesCounted ==
  ASSUME NEW b, NEW l, Holds(b, l),
         NEW word \in 1 .. Len(l), NEW path \in 1 .. Len(l), NEW end \in 1 .. Len(l),
         Requests!Fields(l, word, path, end)
  PROVE  LET n == Cardinality(ValuesIn(l, end))
             m == Requests!ValuesParse(b, end + 1)
         IN  /\ n \in Nat
             /\ n <= MaxParameters => m = n
             /\ n > MaxParameters => m = MaxParameters + 1
<1>1. /\ Len(l) \in 1 .. BufferSize - 1 /\ end \in Int /\ end <= Len(l)
      /\ b[Len(l) + 1] = "newline"
      /\ \A i \in 1 .. Len(l) : b[i] = l[i] /\ l[i] # "newline"
  BY DEF Holds
<1> DEFINE stop   == Requests!FirstAtOrAfter(b, end + 1, Chars \ {"space", "val"})
           found  == {i \in end + 1 .. stop - 1 : b[i] = "val"}
           values == ValuesIn(l, end)
           n      == Cardinality(values)
           last   == CHOOSE i \in found :
                       Requests!Cardinality({j \in found : j <= i}) = MaxParameters
           after  == IF Cardinality(found) < MaxParameters THEN stop ELSE last + 1
<1>2. stop = Len(l) + 1
  <2>1. end + 1 \in 1 .. BufferSize + 1 /\ Len(l) + 1 \in end + 1 .. BufferSize
    BY <1>1, ParserConstants
  <2>2. "newline" \in Chars \ {"space", "val"}
    BY ParserConstants DEF Chars
  <2>3. ASSUME NEW j \in end + 1 .. Len(l) + 1 - 1
        PROVE  b[j] \notin Chars \ {"space", "val"}
    <3>1. j \in 1 .. Len(l) /\ j \in end + 1 .. Len(l)
      BY <1>1
    <3>2. l[j] \in {"space", "val"}
      BY <3>1, FieldsAre
    <3> QED
      BY <1>1, <3>1, <3>2
  <2>4. PICK i \in 1 .. BufferSize + 1, k \in end + 1 .. BufferSize :
               i = end + 1 /\ k = Len(l) + 1
    BY <2>1
  <2>5. b[k] \in Chars \ {"space", "val"} /\ \A j \in i .. k - 1 : b[j] \notin Chars \ {"space", "val"}
    BY <1>1, <2>2, <2>3, <2>4
  <2>6. Requests!FirstAtOrAfter(b, i, Chars \ {"space", "val"}) = k
    BY <2>4, <2>5, ScanStopsAt
  <2> QED
    BY <2>4, <2>6
<1>3. found = values
  <2>1. ASSUME NEW i \in end + 1 .. Len(l)
        PROVE  b[i] = l[i]
    BY <1>1
  <2>2. stop - 1 = Len(l)
    BY <1>1, <1>2
  <2> QED
    BY <2>1, <2>2 DEF ValuesIn
<1>4. Requests!ValuesParse(b, end + 1) =
        IF Cardinality(found) < MaxParameters THEN Cardinality(found)
        ELSE IF after \in Cells /\ b[after] = "newline" THEN MaxParameters
        ELSE MaxParameters + 1
  BY Names, SameCardinality DEF Requests!ValuesParse
<1> HIDE DEF stop, found, after, last
<1>5. /\ values \subseteq 0 .. Len(l) /\ IsFiniteSet(values) /\ n \in Nat
      /\ \A j \in values : j \in 1 .. Len(l)
  <2>1. values \subseteq 0 .. Len(l) /\ \A j \in values : j \in 1 .. Len(l)
    BY <1>1 DEF ValuesIn
  <2>2. IsFiniteSet(0 .. Len(l))
    BY <1>1, FS_Interval
  <2> HIDE DEF values
  <2>3. IsFiniteSet(values)
    BY <2>1, <2>2, FS_Subset
  <2> QED
    BY <2>1, <2>3, FS_CardinalityType
<1> HIDE DEF values
<1>6. ASSUME n >= MaxParameters
      PROVE  last \in values /\ Cardinality(UpTo(values, last)) = MaxParameters /\ after = last + 1
  <2>1. MaxParameters \in 1 .. Cardinality(values) /\ Len(l) \in Int
    BY <1>1, <1>5, <1>6, ParserConstants
  <2>2. \E i \in values : Cardinality(UpTo(values, i)) = MaxParameters
    BY <1>5, <2>1, ValueAt
  <2>3. last = CHOOSE i \in values : Requests!Cardinality(UpTo(values, i)) = MaxParameters
    BY <1>3 DEF last, UpTo
  <2>4. last \in values /\ Cardinality(UpTo(values, last)) = MaxParameters
    BY <2>2, <2>3, SameCardinality, Zenon
  <2>5. ~(Cardinality(found) < MaxParameters)
    BY <1>3, <1>5, <1>6, ParserConstants
  <2> QED
    BY <2>4, <2>5 DEF after
<1>7. values # {} => Len(l) \in values /\ \A j \in values : j <= Len(l)
  <2>1. ASSUME values # {}
        PROVE  Len(l) \in values
    <3>1. end # Len(l)
      BY <1>1, <2>1 DEF values, ValuesIn
    <3>2. l[Len(l)] = "val"
      BY <3>1, FieldsAre
    <3> QED
      BY <1>1, <3>1, <3>2 DEF values, ValuesIn
  <2> QED
    BY <1>1, <1>5, <2>1
<1>8. ASSUME n >= MaxParameters
      PROVE  last = Len(l) <=> n = MaxParameters
  <2>1. last \in values /\ Cardinality(UpTo(values, last)) = MaxParameters
    BY <1>6, <1>8
  <2>2. Len(l) \in values /\ \A j \in values : j <= Len(l) /\ j \in Int
    BY <1>5, <1>7, <2>1
  <2>3. Cardinality(UpTo(values, last)) = Cardinality(values) <=> last = Len(l)
    BY <1>5, <2>1, <2>2, AllUpToLast
  <2> QED
    BY <2>1, <2>3
<1>9. CASE n < MaxParameters
  BY <1>3, <1>4, <1>5, <1>9, ParserConstants DEF values
<1>10. CASE n = MaxParameters
  <2>1. after = Len(l) + 1
    BY <1>5, <1>6, <1>8, <1>10, ParserConstants
  <2>2. after \in Cells /\ b[after] = "newline"
    BY <1>1, <2>1, ParserConstants DEF Cells
  <2>3. Requests!ValuesParse(b, end + 1) = MaxParameters
    BY <1>3, <1>4, <1>10, <2>2, ParserConstants
  <2> QED
    BY <1>5, <1>10, <2>3, ParserConstants DEF values
<1>11. CASE n > MaxParameters
  <2>1. n >= MaxParameters /\ n # MaxParameters
    BY <1>5, <1>11, ParserConstants
  <2>2. last \in 1 .. Len(l) /\ last # Len(l) /\ after = last + 1
    BY <1>5, <1>6, <1>8, <2>1
  <2>3. after \in 1 .. Len(l)
    BY <1>1, <2>2
  <2>4. b[after] # "newline"
    BY <1>1, <2>3
  <2>5. Requests!ValuesParse(b, end + 1) = MaxParameters + 1
    BY <1>3, <1>4, <1>5, <2>1, <2>4, ParserConstants
  <2> QED
    BY <1>5, <1>11, <2>5, ParserConstants DEF values
<1> QED
  BY <1>5, <1>9, <1>10, <1>11, ParserConstants

\* What the parser makes of a buffer with the line of a request.
LEMMA RequestParsed ==
  ASSUME NEW b, NEW l, Holds(b, l), NEW newlineAt,
         l[1] \in {"G", "S", "C", "L", "I", "E", "D"},
         NEW word \in 1 .. Len(l), NEW path \in 1 .. Len(l), NEW end \in 1 .. Len(l),
         Requests!Fields(l, word, path, end)
  PROVE  Requests!ParseInputBuffer(b, newlineAt).outcome = Requests!Meant(l, word, path, end)
<1> DEFINE n == Cardinality(ValuesIn(l, end))
           m == Requests!ValuesParse(b, end + 1)
           second == IF word > 1 THEN l[2] ELSE "space"
           called == Requests!StringAt(Requests!Terminate(b, end + 1), path)
           parsed == Requests!ParseInputBuffer(b, newlineAt)
           wanted == Requests!Meant(l, word, path, end)
<1>1. Requests!PathStart(b) = path /\ Requests!PathEnd(b) = end + 1
  BY FieldsScanned
<1>2. /\ n \in Nat
      /\ n <= MaxParameters => m = n
      /\ n > MaxParameters => m = MaxParameters + 1
  BY ValuesCounted
<1>3. b \in Buffers /\ Len(l) \in 1 .. BufferSize - 1 /\ word < path - 1 /\ path <= end
  BY FieldsAre DEF Holds
<1>4. b[1] = l[1]
  BY <1>3 DEF Holds
<1>5. b[2] = second
  <2>1. 2 \in 1 .. Len(l)
    BY <1>3
  <2>2. b[2] = l[2]
    BY <2>1 DEF Holds
  <2>3. CASE word > 1
    BY <2>2, <2>3
  <2>4. CASE ~(word > 1)
    <3>1. 2 \in word + 1 .. path - 1
      BY <1>3, <2>4
    <3>2. l[2] = "space"
      BY <3>1, FieldsAre
    <3> QED
      BY <2>2, <2>4, <3>2
  <2> QED
    BY <2>3, <2>4
<1>6. called = SubSeq(l, path, end)
  <2>1. /\ path \in 1 .. BufferSize + 1 /\ path \in Int /\ end \in Int
    BY <1>3, ParserConstants
  <2>2. end + 1 = Requests!ReadObjectPath(b, path)
    BY <1>1 DEF Requests!PathEnd
  <2>3. called = [k \in 1 .. end + 1 - path |-> b[path + k - 1]]
    <3>1. PICK e : e = end + 1
      OBVIOUS
    <3>2. Requests!StringAt(Requests!Terminate(b, e), path)
            = [k \in 1 .. e - path |-> b[path + k - 1]]
      BY <1>3, <2>1, <2>2, <3>1, PathTaken
    <3> QED
      BY <3>1, <3>2
  <2>4. SubSeq(l, path, end) = [k \in 1 .. end + 1 - path |-> l[path + k - 1]]
    <3>1. SubSeq(l, path, end) = [k \in 1 .. 1 + end - path |-> l[k + path - 1]]
      OBVIOUS
    <3> QED
      BY <2>1, <3>1
  <2>5. ASSUME NEW k \in 1 .. end + 1 - path
        PROVE  b[path + k - 1] = l[path + k - 1]
    <3>1. path + k - 1 \in 1 .. Len(l)
      BY <1>3, <2>1
    <3> QED
      BY <3>1 DEF Holds
  <2> HIDE DEF called
  <2> QED
    BY <2>3, <2>4, <2>5
<1>7. wanted = IF /\ l[1] \in {"G", "S", "C"}
                 /\ n \notin Requests!Takes[l[1]]
              THEN Requests!Failure
              ELSE Requests!Call(Requests!HandlerOf(l[1], second), SubSeq(l, path, end),
                                 IF l[1] \in {"G", "S", "C"} THEN n ELSE 0)
  BY SameCardinality, Names DEF Requests!Meant, Requests!TakesValues, ValuesIn
<1>8. /\ l[1] \in {"G", "S", "C"} /\ ~Requests!ValuesAccepted(l[1], m) =>
           parsed.outcome = Requests!Failure
      /\ l[1] \in {"G", "S", "C"} /\ Requests!ValuesAccepted(l[1], m) =>
           parsed.outcome = Requests!Call(Requests!HandlerOf(l[1], second), called, m)
      /\ l[1] \in {"L", "I", "E", "D"} =>
           parsed.outcome = Requests!Call(Requests!HandlerOf(l[1], second), called, 0)
  BY <1>1, <1>4, <1>5 DEF Requests!ParseInputBuffer, Requests!TakesValues
<1> HIDE DEF n, m, second, called, parsed, wanted
<1>9. ASSUME l[1] \in {"G", "S", "C"}
      PROVE  /\ Requests!ValuesAccepted(l[1], m) <=> n \in Requests!Takes[l[1]]
             /\ Requests!ValuesAccepted(l[1], m) => m = n
  <2>1. /\ Requests!Takes["G"] = {0} /\ Requests!Takes["S"] = {1}
        /\ Requests!Takes["C"] = 0 .. MaxParameters
    BY DEF Requests!Takes
  <2> QED
    BY <1>2, <1>9, <2>1, ParserConstants DEF Requests!ValuesAccepted
<1>10. parsed.outcome = wanted
  BY <1>6, <1>7, <1>8, <1>9
<1> QED
  BY <1>10 DEF parsed, wanted

\* A step of the parser that ends a line evaluates it as it was wanted.
LEMMA RequestIsExact ==
  ASSUME ParserInv, Requests!Next, Requests!LineEnds, Requests!Fits,
         line[1] \in Requests!TakesValues \cup {"L", "I", "E", "D"},
         NEW word \in 1 .. Len(line), NEW path \in 1 .. Len(line),
         NEW end \in 1 .. Len(line), Requests!Fields(line, word, path, end)
  PROVE  asked' = Requests!Meant(line, word, path, end)
<1>1. /\ line # << >> /\ line' = << >> /\ Len(line) \in Nat /\ Len(line) < BufferSize /\ ~lost
      /\ line \in Seq(Alphabet \ {"newline"}) /\ Len(line) # 0
  BY DEF Requests!LineEnds, Requests!Fits, ParserInv, ParserTyped
<1>2. position = Len(line)
  BY <1>1 DEF ParserInv, Placed
<1>3. PICK c \in Alphabet : Requests!InputByte(c)
  BY DEF Requests!Next
<1>4. ~Requests!SkipLeadingNewline /\ ~Requests!StartOver(c)
  BY <1>1, <1>2, ParserConstants DEF Requests!SkipLeadingNewline, Requests!StartOver
<1>5. ~Requests!Store(c)
  BY <1>1 DEF Requests!Store
<1>6. Requests!Evaluate
  BY <1>3, <1>4, <1>5 DEF Requests!InputByte
<1>7. Ended \in Buffers /\ asked' = Requests!ParseInputBuffer(Ended, position + 1).outcome
  BY <1>6, Evaluated
<1>8. Holds(Ended, line)
  <2>1. Len(line) \in 1 .. BufferSize - 1 /\ Len(line) + 1 \in Cells
    BY <1>1, ParserConstants DEF Cells
  <2>2. input \in [Cells -> Chars]
    BY DEF ParserInv, ParserTyped, Buffers
  <2>3. Ended[Len(line) + 1] = "newline"
    BY <1>2, <2>1, <2>2 DEF Ended
  <2>4. ASSUME NEW i \in 1 .. Len(line)
        PROVE  Ended[i] = line[i]
    <3>1. i \in Cells /\ i # position + 1
      BY <1>1, <1>2, ParserConstants DEF Cells
    <3>2. input[i] = line[i]
      BY <1>1 DEF ParserInv, Kept
    <3> QED
      BY <2>2, <3>1, <3>2 DEF Ended
  <2> QED
    BY <1>1, <1>7, <2>1, <2>3, <2>4 DEF Holds
<1>9. line[1] \in {"G", "S", "C", "L", "I", "E", "D"}
  BY DEF Requests!TakesValues
<1>10. Requests!ParseInputBuffer(Ended, position + 1).outcome
         = Requests!Meant(line, word, path, end)
  BY <1>8, <1>9, RequestParsed
<1> QED
  BY <1>7, <1>10

LEMMA RequestSteps ==
  ParserInv /\ [Requests!Next]_(Requests!vars) =>
    [Requests!LineEnds /\ Requests!Fits
       /\ line[1] \in Requests!TakesValues \cup {"L", "I", "E", "D"} =>
       \A word, path, end \in 1 .. Len(line) :
         Requests!Fields(line, word, path, end) =>
           asked' = Requests!Meant(line, word, path, end)]_(Requests!vars)
  BY RequestIsExact, Zenon

-----------------------------------------------------------------------------
(* What is defined by recursion over numbers.                               *)

\* What holds at 0 and goes from each number to the next holds up to a bound.
LEMMA Counting ==
  ASSUME NEW n \in Nat, NEW T, 0 \in T, \A m \in 0 .. n - 1 : m \in T => m + 1 \in T
  PROVE  \A m \in 0 .. n : m \in T
<1> DEFINE bad == {m \in 0 .. n : m \notin T}
<1>1. CASE bad = {}
  BY <1>1
<1>2. CASE bad # {}
  <2>1. PICK x \in bad : \A y \in bad : x <= y
    <3>1. bad \subseteq Nat
      OBVIOUS
    <3> HIDE DEF bad
    <3> QED
      BY <1>2, <3>1, LeastNumber
  <2>2. x \in 0 .. n /\ x \notin T /\ x # 0
    OBVIOUS
  <2>3. x - 1 \in 0 .. n - 1 /\ x - 1 + 1 = x
    BY <2>2
  <2>4. x - 1 \notin bad
    <3> HIDE DEF bad
    <3> QED
      BY <2>1, <2>2, <2>3
  <2>5. x - 1 \in T
    BY <2>3, <2>4
  <2>6. x - 1 + 1 \in T
    BY <2>3, <2>5
  <2> QED
    BY <2>2, <2>3, <2>6
<1> QED
  BY <1>1, <1>2

\* A function that is defined step by step from a start.
Iterated(f, n, b, step) == \A i \in 0 .. n : f[i] = IF i = 0 THEN b ELSE step[i][f[i - 1]]

LEMMA Iterates ==
  ASSUME NEW n \in Nat, NEW X, NEW b \in X, NEW step \in [1 .. n -> [X -> X]]
  PROVE  \E f \in [0 .. n -> X] : Iterated(f, n, b, step)
<1> DEFINE Up(f, i) == IF i = 0 THEN b ELSE step[i][f[i - 1]]
           good == {m \in 0 .. n : \E f \in [0 .. n -> X] : \A i \in 0 .. m : f[i] = Up(f, i)}
<1>1. 0 \in good
  <2>1. [i \in 0 .. n |-> b] \in [0 .. n -> X]
    OBVIOUS
  <2>2. \A i \in 0 .. 0 : [j \in 0 .. n |-> b][i] = Up([j \in 0 .. n |-> b], i)
    OBVIOUS
  <2>3. 0 \in 0 .. n
    OBVIOUS
  <2> HIDE DEF Up
  <2> QED
    BY <2>1, <2>2, <2>3
<1>2. ASSUME NEW m \in 0 .. n - 1, m \in good
      PROVE  m + 1 \in good
  <2>1. PICK f \in [0 .. n -> X] : \A i \in 0 .. m : f[i] = Up(f, i)
    BY <1>2
  <2>2. m + 1 \in 0 .. n /\ m + 1 \in 1 .. n /\ m \in 0 .. n
    OBVIOUS
  <2>3. Up(f, m + 1) \in X
    <3>1. f[m] \in X
      BY <2>2
    <3> QED
      BY <2>2, <3>1
  <2> DEFINE g == [f EXCEPT ![m + 1] = Up(f, m + 1)]
  <2>4. g \in [0 .. n -> X]
    <3> HIDE DEF Up
    <3> QED
      BY <2>2, <2>3
  <2>5. ASSUME NEW i \in 0 .. m + 1
        PROVE  g[i] = Up(g, i)
    <3>1. i # 0 => i - 1 \in 0 .. n /\ i - 1 # m + 1 /\ g[i - 1] = f[i - 1]
      BY <2>1
    <3>2. Up(g, i) = Up(f, i)
      <4> HIDE DEF g
      <4> QED
        BY <3>1
    <3>3. CASE i = m + 1
      <4> HIDE DEF Up
      <4> QED
        BY <2>2, <3>2, <3>3
    <3>4. CASE i # m + 1
      <4>1. i \in 0 .. m /\ g[i] = f[i]
        BY <2>2, <3>4
      <4> HIDE DEF Up, g
      <4> QED
        BY <2>1, <3>2, <4>1
    <3> QED
      BY <3>3, <3>4
  <2> HIDE DEF Up, g
  <2> QED
    BY <2>2, <2>4, <2>5
<1>3. n \in good
  <2> HIDE DEF good
  <2>1. \A m \in 0 .. n : m \in good
    BY <1>1, <1>2, Counting
  <2> QED
    BY <2>1
<1> QED
  BY <1>3 DEF Iterated

\* The texts that the first blocks make.
Joins(f, n, blocks) == f[0] = << >> /\ \A i \in 1 .. n : f[i] = f[i - 1] \o blocks[i]

\* What the blocks of a text make together.
LEMMA FlattenIs ==
  ASSUME NEW X, NEW n \in Nat, NEW blocks \in [1 .. n -> Seq(X)]
  PROVE  \E f \in [0 .. n -> Seq(X)] : Joins(f, n, blocks) /\ f[n] = Session!FlattenSeq(blocks)
<1>1. Len(blocks) = n /\ DOMAIN blocks = 1 .. n
  <2>1. blocks \in Seq(Seq(X))
    BY SeqDef
  <2> QED
    BY <2>1, LenProperties
<1>2. PICK f \in [0 .. n -> Seq(X)] :
        \A i \in 0 .. n : f[i] = IF i = 0 THEN << >> ELSE f[i - 1] \o blocks[i]
  <2> DEFINE step == [i \in 1 .. n |-> [x \in Seq(X) |-> x \o blocks[i]]]
  <2>1. step \in [1 .. n -> [Seq(X) -> Seq(X)]]
    OBVIOUS
  <2>2. << >> \in Seq(X)
    OBVIOUS
  <2>3. PICK f \in [0 .. n -> Seq(X)] : \A i \in 0 .. n : f[i] = IF i = 0 THEN << >> ELSE step[i][f[i - 1]]
    <3> HIDE DEF step
    <3>1. PICK start : start = << >>
      OBVIOUS
    <3>2. PICK S : S = Seq(X)
      OBVIOUS
    <3>3. start \in S /\ step \in [1 .. n -> [S -> S]]
      BY <2>1, <2>2, <3>1, <3>2
    <3>4. \E f \in [0 .. n -> S] : Iterated(f, n, start, step)
      BY <3>3, Iterates
    <3> QED
      BY <3>1, <3>2, <3>4, Zenon DEF Iterated
  <2>4. ASSUME NEW i \in 0 .. n
        PROVE  f[i] = IF i = 0 THEN << >> ELSE f[i - 1] \o blocks[i]
    <3>1. CASE i = 0
      BY <2>3, <3>1
    <3>2. CASE i # 0
      <4>1. i \in 1 .. n /\ i - 1 \in 0 .. n
        BY <3>2
      <4>2. f[i] = step[i][f[i - 1]] /\ f[i - 1] \in Seq(X)
        <5> HIDE DEF step
        <5> QED
          BY <2>3, <3>2, <4>1
      <4>3. step[i] = [x \in Seq(X) |-> x \o blocks[i]]
        BY <4>1
      <4> HIDE DEF step
      <4> QED
        BY <3>2, <4>2, <4>3
    <3> QED
      BY <3>1, <3>2
  <2> QED
    BY <2>4
<1>3. f[0] = << >> /\ \A i \in 1 .. n : f[i] = f[i - 1] \o blocks[i]
  <2>1. 0 \in 0 .. n /\ \A i \in 1 .. n : i \in 0 .. n /\ i # 0
    OBVIOUS
  <2> QED
    BY <1>2, <2>1, Zenon
<1>6. \A i \in 1 .. n : blocks[i] \in Seq(X) /\ << >> \o blocks[i] = blocks[i]
  OBVIOUS
<1>7. 1 \in 1 .. n => f[1] = blocks[1]
  <2>1. 1 \in 1 .. n => f[1] = f[1 - 1] \o blocks[1] /\ << >> \o blocks[1] = blocks[1]
    BY <1>3, <1>6, Zenon
  <2>2. 1 - 1 = 0
    OBVIOUS
  <2> QED
    BY <1>3, <2>1, <2>2, Zenon
<1>8. Joins(f, n, blocks)
  BY <1>3 DEF Joins
<1>4. CASE n = 0
  <2>1. blocks = << >>
    BY <1>1, <1>4
  <2>2. Session!FlattenSeq(blocks) = << >>
    BY <1>1, <1>4, <2>1 DEF Session!FlattenSeq
  <2> QED
    BY <1>3, <1>4, <1>8, <2>2
<1>5. CASE n # 0
  <2> DEFINE flatten == CHOOSE g : g = [i \in 1 .. n |-> IF i = 1 THEN blocks[i] ELSE g[i - 1] \o blocks[i]]
             h == [i \in 1 .. n |-> f[i]]
  <2>1. Session!FlattenSeq(blocks) = flatten[n]
    BY <1>1, <1>5, Zenon DEF Session!FlattenSeq
  <2>2. h = [i \in 1 .. n |-> IF i = 1 THEN blocks[i] ELSE h[i - 1] \o blocks[i]]
    <3>1. ASSUME NEW i \in 1 .. n
          PROVE  h[i] = IF i = 1 THEN blocks[i] ELSE h[i - 1] \o blocks[i]
      <4>1. CASE i = 1
        <5>1. f[1] = blocks[1]
          BY <1>7, <4>1
        <5> QED
          BY <4>1, <5>1
      <4>2. CASE i # 1
        <5>1. i - 1 \in 1 .. n
          BY <4>2
        <5> QED
          BY <1>3, <4>2, <5>1
      <4> QED
        BY <4>1, <4>2
    <3> QED
      BY <3>1
  <2>3. flatten = [i \in 1 .. n |-> IF i = 1 THEN blocks[i] ELSE flatten[i - 1] \o blocks[i]]
    <3> HIDE DEF h
    <3> QED
      BY <2>2
  <2>4. \A m \in 0 .. n : m = 0 \/ flatten[m] = f[m]
    <3> DEFINE T == {m \in 0 .. n : m = 0 \/ flatten[m] = f[m]}
    <3> HIDE DEF flatten
    <3>1. 0 \in T
      OBVIOUS
    <3>2. ASSUME NEW m \in 0 .. n - 1, m \in T
          PROVE  m + 1 \in T
      <4>1. PICK k \in 1 .. n : k = m + 1 /\ m = k - 1
        OBVIOUS
      <4>2. f[k] = f[k - 1] \o blocks[k]
        BY <1>3, Zenon
      <4>3. CASE m = 0
        <5>1. k = 1
          BY <4>1, <4>3
        <5>2. f[k] = blocks[k] /\ flatten[k] = blocks[k]
          BY <1>7, <2>3, <5>1
        <5> QED
          BY <4>1, <5>2
      <4>4. CASE m # 0
        <5>1. flatten[m] = f[m] /\ k # 1
          BY <3>2, <4>1, <4>4
        <5>2. flatten[k] = flatten[k - 1] \o blocks[k]
          BY <2>3, <5>1, Zenon
        <5>3. flatten[k] = f[k]
          BY <4>1, <4>2, <5>1, <5>2, Zenon
        <5> QED
          BY <4>1, <5>3
      <4> QED
        BY <4>3, <4>4
    <3> HIDE DEF T
    <3>3. \A m \in 0 .. n : m \in T
      BY <3>1, <3>2, Counting
    <3> QED
      BY <3>3 DEF T
  <2>5. flatten[n] = f[n]
    <3>1. n \in 0 .. n
      OBVIOUS
    <3> HIDE DEF flatten
    <3> QED
      BY <1>5, <2>4, <3>1
  <2> QED
    BY <1>8, <2>1, <2>5
<1> QED
  BY <1>4, <1>5

-----------------------------------------------------------------------------
(* What is defined by recursion that goes down in rank.                     *)

\* The functions that have in each place what may be there.
Family(I, U, X) == {f \in [I -> U] : \A i \in I : f[i] \in X[i]}

\* What is defined in each place depends on the places of a lower rank.
Ranked(I, U, X, rank, step) ==
  /\ \A i \in I : \A f \in Family(I, U, X) : step[i][f] \in U /\ step[i][f] \in X[i]
  /\ \A i \in I : \A f, g \in Family(I, U, X) :
       (\A j \in I : rank[j] < rank[i] => f[j] = g[j]) => step[i][f] = step[i][g]

Solved(f, I, step) == \A i \in I : f[i] = step[i][f]

\* A recursion that goes down in rank defines a function.
LEMMA Recursion ==
  ASSUME NEW I, NEW U, NEW X, NEW rank \in [I -> Nat], NEW step,
         Ranked(I, U, X, rank, step), Family(I, U, X) # {}
  PROVE  \E f \in Family(I, U, X) : Solved(f, I, step)
<1> DEFINE F == Family(I, U, X)
           Good(f, n) == f \in F /\ \A i \in I : rank[i] < n => f[i] = step[i][f]
           S(i, f) == step[i][f]
<1>1. /\ \A i \in I : \A f \in F : S(i, f) \in U /\ S(i, f) \in X[i]
      /\ \A i \in I : \A f, g \in F :
           (\A j \in I : rank[j] < rank[i] => f[j] = g[j]) => S(i, f) = S(i, g)
  BY DEF Ranked
<1>2. \A f \in F : f \in [I -> U] /\ \A i \in I : f[i] \in X[i]
  BY DEF Family
<1>3. ASSUME NEW f \in [I -> U], \A i \in I : f[i] \in X[i]
      PROVE  f \in F
  BY <1>3 DEF Family
<1> HIDE DEF F, S
<1>4. ASSUME NEW n \in Nat
      PROVE  \E f : Good(f, n)
  <2> DEFINE T == {m \in 0 .. n : \E f : Good(f, m)}
  <2>1. 0 \in T
    <3>1. PICK f : f \in F
      BY DEF F
    <3>2. \A i \in I : ~ (rank[i] < 0)
      OBVIOUS
    <3> QED
      BY <3>1, <3>2
  <2>2. ASSUME NEW m \in 0 .. n - 1, m \in T
        PROVE  m + 1 \in T
    <3>1. PICK f \in F : \A i \in I : rank[i] < m => f[i] = S(i, f)
      BY <2>2 DEF S
    <3> DEFINE g == [i \in I |-> IF rank[i] = m THEN S(i, f) ELSE f[i]]
    <3>2. g \in F
      <4>1. \A i \in I : g[i] \in U /\ g[i] \in X[i]
        BY <1>1, <1>2
      <4>2. g \in [I -> U]
        BY <4>1
      <4> HIDE DEF g
      <4> QED
        BY <1>3, <4>1, <4>2
    <3>3. ASSUME NEW i \in I, rank[i] < m + 1
          PROVE  g[i] = S(i, g)
      <4>1. rank[i] \in Nat /\ \A j \in I : rank[j] \in Nat
        OBVIOUS
      <4>2. \A j \in I : rank[j] < rank[i] => f[j] = g[j]
        BY <3>3, <4>1
      <4>3. S(i, f) = S(i, g)
        <5> HIDE DEF g
        <5> QED
          BY <1>1, <3>2, <4>2
      <4>4. g[i] = S(i, f)
        BY <3>1, <3>3, <4>1
      <4> QED
        BY <4>3, <4>4
    <3> HIDE DEF g
    <3>4. Good(g, m + 1)
      BY <3>2, <3>3 DEF S
    <3> QED
      BY <3>4
  <2> HIDE DEF T
  <2>3. \A m \in 0 .. n : m \in T
    BY <2>1, <2>2, Counting
  <2> QED
    BY <2>3 DEF T
<1>5. ASSUME NEW m \in Nat, NEW n \in Nat, NEW f, NEW g, Good(f, m), Good(g, n)
      PROVE  \A i \in I : rank[i] < m /\ rank[i] < n => f[i] = g[i]
  <2> DEFINE bad == {r \in Nat : r < m /\ r < n /\ \E i \in I : rank[i] = r /\ f[i] # g[i]}
  <2>1. CASE bad = {}
    <3>1. ASSUME NEW i \in I, rank[i] < m, rank[i] < n, f[i] # g[i]
          PROVE  FALSE
      <4>1. rank[i] \in bad
        BY <3>1
      <4> QED
        BY <2>1, <4>1
    <3> QED
      BY <3>1
  <2>2. CASE bad # {}
    <3>1. PICK r \in bad : \A q \in bad : r <= q
      <4>1. bad \subseteq Nat
        OBVIOUS
      <4> HIDE DEF bad
      <4> QED
        BY <2>2, <4>1, LeastNumber
    <3>2. PICK i \in I : rank[i] = r /\ f[i] # g[i]
      OBVIOUS
    <3>3. r \in Nat /\ r < m /\ r < n
      OBVIOUS
    <3>4. ASSUME NEW j \in I, rank[j] < rank[i]
          PROVE  f[j] = g[j]
      <4>1. rank[j] \in Nat /\ rank[j] < r
        BY <3>2, <3>4
      <4>2. rank[j] \notin bad
        <5> HIDE DEF bad
        <5> QED
          BY <3>1, <3>3, <4>1
      <4> QED
        BY <3>3, <4>1, <4>2
    <3>5. S(i, f) = S(i, g)
      <4>1. f \in F /\ g \in F
        BY <1>5
      <4> QED
        BY <1>1, <3>4, <4>1
    <3>6. f[i] = S(i, f) /\ g[i] = S(i, g)
      BY <1>5, <3>2, <3>3 DEF S
    <3> QED
      BY <3>2, <3>5, <3>6
  <2> QED
    BY <2>1, <2>2
<1> DEFINE best(i) == CHOOSE f : Good(f, rank[i] + 1)
           h == [i \in I |-> best(i)[i]]
<1>6. ASSUME NEW i \in I
      PROVE  Good(best(i), rank[i] + 1) /\ rank[i] + 1 \in Nat
  <2>1. rank[i] + 1 \in Nat
    OBVIOUS
  <2>2. \E f : Good(f, rank[i] + 1)
    BY <1>4, <2>1
  <2> QED
    BY <2>1, <2>2
<1> HIDE DEF best
<1>7. h \in F
  <2>1. ASSUME NEW i \in I
        PROVE  h[i] \in U /\ h[i] \in X[i]
    <3>1. best(i) \in F
      BY <1>6
    <3> QED
      BY <1>2, <3>1
  <2>2. h \in [I -> U]
    BY <2>1
  <2> HIDE DEF h
  <2> QED
    BY <1>3, <2>1, <2>2
<1>8. ASSUME NEW i \in I
      PROVE  h[i] = S(i, h)
  <2>1. PICK f \in F : f = best(i) /\ Good(f, rank[i] + 1) /\ rank[i] + 1 \in Nat
    BY <1>6
  <2>2. rank[i] \in Nat /\ \A j \in I : rank[j] \in Nat
    OBVIOUS
  <2>3. f[i] = S(i, f)
    <3>1. rank[i] < rank[i] + 1
      BY <2>2
    <3> QED
      BY <2>1, <3>1 DEF S
  <2>4. ASSUME NEW j \in I, rank[j] < rank[i]
        PROVE  f[j] = h[j]
    <3>1. Good(best(j), rank[j] + 1) /\ rank[j] + 1 \in Nat
      BY <1>6
    <3>2. rank[j] < rank[i] + 1 /\ rank[j] < rank[j] + 1
      BY <2>2, <2>4
    <3> HIDE DEF Good
    <3>3. f[j] = best(j)[j]
      BY <1>5, <2>1, <3>1, <3>2
    <3> QED
      BY <3>3
  <2>5. S(i, f) = S(i, h)
    <3> HIDE DEF h
    <3> QED
      BY <1>1, <1>7, <2>4
  <2> QED
    BY <2>1, <2>3, <2>5
<1> HIDE DEF h
<1> QED
  BY <1>7, <1>8 DEF Solved, F, S

-----------------------------------------------------------------------------
(* The client: numbers as text.                                             *)

\* The digits.
Digit == Session!Range(Session!Digits)

\* The ten digits are ten characters, none of which is a letter or a sign of
\* its own.
LEMMA DigitsAre ==
  /\ \A d \in 0 .. 9 : Session!Digits[d + 1] \in Digit /\ Session!DigitOf(Session!Digits[d + 1]) = d
  /\ \A c \in Digit : /\ Session!IsDigit(c) /\ Session!DigitOf(c) \in 0 .. 9
                      /\ c \notin {".", "-", "x", "]", "[", " ", "\t", "\"", "\\", "\n", "\r"}
                      /\ c \notin Session!AsciiLetters
  /\ {".", "-", "x"} \cap Digit = {} /\ "0" \in Digit /\ Session!Digits[1] = "0"
  /\ \A c : Session!IsDigit(c) <=> c \in Digit
<1>1. DOMAIN Session!Digits = 1 .. 10 /\ \A c : c \in Digit <=> \E k \in 1 .. 10 : c = Session!Digits[k]
  BY DEF Digit, Session!Range, Session!Digits
<1>2. \A d, e \in 0 .. 9 : Session!Digits[d + 1] = Session!Digits[e + 1] => d = e
  BY DEF Session!Digits
<1>3. \A d \in 0 .. 9 : Session!DigitOf(Session!Digits[d + 1]) = d
  BY <1>2 DEF Session!DigitOf
<1>4. ASSUME NEW c \in Digit
      PROVE  \E d \in 0 .. 9 : c = Session!Digits[d + 1]
  <2>1. PICK k \in 1 .. 10 : c = Session!Digits[k]
    BY <1>1
  <2>2. k - 1 \in 0 .. 9 /\ k - 1 + 1 = k
    OBVIOUS
  <2> QED
    BY <2>1, <2>2
<1>5. \A c \in Digit : c \in {"0", "1", "2", "3", "4", "5", "6", "7", "8", "9"}
  BY <1>1 DEF Session!Digits
<1>6. \A c : Session!IsDigit(c) <=> c \in Digit
  BY DEF Session!IsDigit, Digit
<1>7. "0" \in Digit /\ Session!Digits[1] = "0"
  BY <1>1 DEF Session!Digits
<1>8. \A d \in 0 .. 9 : Session!Digits[d + 1] \in Digit
  BY <1>1
<1>9. \A c \in Digit : c \notin {".", "-", "x", "]", "[", " ", "\t", "\"", "\\", "\n", "\r"}
  BY <1>5
<1>10. \A c \in Digit : c \notin Session!AsciiLetters
  BY <1>5 DEF Session!AsciiLetters
<1>11. \A c \in Digit : Session!DigitOf(c) \in 0 .. 9
  BY <1>3, <1>4
<1>12. {".", "-", "x"} \cap Digit = {}
  BY <1>9
<1> HIDE DEF Digit
<1> QED
  BY <1>3, <1>6, <1>7, <1>8, <1>9, <1>10, <1>11, <1>12

\* What remains of a number without its last digit.
LEMMA Division ==
  /\ \A n \in Nat : n \div 10 \in Nat /\ n % 10 \in 0 .. 9 /\ n = 10 * (n \div 10) + (n % 10)
  /\ \A n \in Nat : n >= 10 => n \div 10 < n
  /\ \A n \in Nat : n < 10 => n \in 0 .. 9
<1>1. ASSUME NEW n \in Nat
      PROVE  n \div 10 \in Nat /\ n % 10 \in 0 .. 9 /\ n = 10 * (n \div 10) + (n % 10)
  <2>1. n \div 10 \in Int /\ n % 10 \in Int
    OBVIOUS
  <2>2. n = 10 * (n \div 10) + (n % 10)
    OBVIOUS
  <2>3. n % 10 \in 0 .. 9
    OBVIOUS
  <2> QED
    BY <2>1, <2>2, <2>3
<1>2. \A n \in Nat : n >= 10 => n \div 10 < n
  OBVIOUS
<1>3. \A n \in Nat : n < 10 => n \in 0 .. 9
  OBVIOUS
<1> QED
  BY <1>1, <1>2, <1>3

\* The equation of Decimal holds: there is such a function.
LEMMA DecimalIs ==
  /\ Session!Decimal \in [Nat -> Seq(Digit)]
  /\ \A n \in Nat : Session!Decimal[n] =
       IF n < 10 THEN <<Session!Digits[n + 1]>>
       ELSE Session!Decimal[n \div 10] \o <<Session!Digits[(n % 10) + 1]>>
<1> DEFINE U == Seq(Digit)
           X == [n \in Nat |-> U]
           rank == [n \in Nat |-> n]
           E(f, n) == IF n < 10 THEN <<Session!Digits[n + 1]>>
                      ELSE f[n \div 10] \o <<Session!Digits[(n % 10) + 1]>>
           step == [n \in Nat |-> [f \in [Nat -> U] |-> E(f, n)]]
<1>1. Family(Nat, U, X) = [Nat -> U]
  BY DEF Family
<1>2. ASSUME NEW n \in Nat, NEW f \in [Nat -> U]
      PROVE  E(f, n) \in U
  <2>1. CASE n < 10
    <3>1. Session!Digits[n + 1] \in Digit
      BY <2>1, DigitsAre, Division
    <3> QED
      BY <2>1, <3>1
  <2>2. CASE ~(n < 10)
    <3>1. Session!Digits[(n % 10) + 1] \in Digit /\ f[n \div 10] \in U
      BY DigitsAre, Division
    <3>2. f[n \div 10] \o <<Session!Digits[(n % 10) + 1]>> \in U
      BY <3>1
    <3> QED
      BY <2>2, <3>2
  <2> QED
    BY <2>1, <2>2
<1>3. ASSUME NEW n \in Nat, NEW f \in [Nat -> U], NEW g \in [Nat -> U],
             \A m \in Nat : m < n => f[m] = g[m]
      PROVE  E(f, n) = E(g, n)
  <2>1. n >= 10 => f[n \div 10] = g[n \div 10]
    BY <1>3, Division
  <2>2. n < 10 \/ n >= 10
    OBVIOUS
  <2> QED
    BY <2>1, <2>2
<1>4. \A n \in Nat : \A f \in [Nat -> U] : step[n][f] = E(f, n)
  <2> HIDE DEF E
  <2> QED
    OBVIOUS
<1>5. \A n \in Nat : X[n] = U /\ rank[n] = n
  OBVIOUS
<1> HIDE DEF U, X, step, rank, E
<1>6. Ranked(Nat, U, X, rank, step)
  BY <1>1, <1>2, <1>3, <1>4, <1>5 DEF Ranked
<1>7. Family(Nat, U, X) # {}
  <2>1. << >> \in U
    BY DEF U
  <2>2. [n \in Nat |-> << >>] \in [Nat -> U]
    BY <2>1
  <2> QED
    BY <1>1, <2>2
<1>8. rank \in [Nat -> Nat]
  BY DEF rank
<1>9. PICK d \in Family(Nat, U, X) : Solved(d, Nat, step)
  BY <1>6, <1>7, <1>8, Recursion
<1>10. d \in [Nat -> U] /\ \A n \in Nat : d[n] = E(d, n)
  BY <1>1, <1>4, <1>9 DEF Solved
<1>11. d = [n \in Nat |-> E(d, n)]
  BY <1>10
<1>12. Session!Decimal = [n \in Nat |-> E(Session!Decimal, n)]
  <2> DEFINE e == CHOOSE f : f = [n \in Nat |-> E(f, n)]
  <2>1. e = [n \in Nat |-> E(e, n)]
    BY <1>11
  <2>2. Session!Decimal = e
    BY Zenon DEF Session!Decimal, E
  <2> HIDE DEF e
  <2> QED
    BY <2>1, <2>2
<1>13. \A n \in Nat : Session!Decimal[n] = E(Session!Decimal, n)
  BY <1>12
<1>14. \A n \in Nat : Session!Decimal[n] \in U
  <2> DEFINE bad == {n \in Nat : Session!Decimal[n] \notin U}
  <2>1. CASE bad = {}
    BY <2>1
  <2>2. CASE bad # {}
    <3>1. PICK n \in bad : \A m \in bad : n <= m
      <4>1. bad \subseteq Nat
        OBVIOUS
      <4> HIDE DEF bad
      <4> QED
        BY <2>2, <4>1, LeastNumber
    <3>2. n \in Nat /\ Session!Decimal[n] \notin U
      OBVIOUS
    <3>3. n >= 10 => Session!Decimal[n \div 10] \in U
      <4>1. n >= 10 => n \div 10 \in Nat /\ ~(n <= n \div 10)
        BY <3>2, Division
      <4>2. n >= 10 => n \div 10 \notin bad
        <5> HIDE DEF bad
        <5> QED
          BY <3>1, <4>1
      <4> QED
        BY <4>1, <4>2
    <3>4. E(Session!Decimal, n) \in U
      <4>1. CASE n < 10
        <5>1. Session!Digits[n + 1] \in Digit
          BY <3>2, <4>1, DigitsAre, Division
        <5> QED
          BY <4>1, <5>1 DEF E, U
      <4>2. CASE n >= 10
        <5>1. n % 10 \in 0 .. 9 /\ ~(n < 10)
          BY <3>2, <4>2, Division
        <5>3. Session!Digits[(n % 10) + 1] \in Digit
          BY <5>1, DigitsAre
        <5>2. Session!Decimal[n \div 10] \o <<Session!Digits[(n % 10) + 1]>> \in U
          BY <3>3, <4>2, <5>3 DEF U
        <5> QED
          BY <5>1, <5>2 DEF E
      <4> QED
        BY <3>2, <4>1, <4>2
    <3> QED
      BY <1>13, <3>2, <3>4
  <2> QED
    BY <2>1, <2>2
<1>15. Session!Decimal \in [Nat -> U]
  BY <1>12, <1>13, <1>14
<1> QED
  BY <1>13, <1>15 DEF E, U

\* The equation of the function in NumberOf.
LEMMA NumberIs ==
  ASSUME NEW text \in Seq(Digit)
  PROVE  \E f \in [0 .. Len(text) -> Nat] :
           /\ f[0] = 0 /\ f[Len(text)] = Session!NumberOf(text)
           /\ \A i \in 1 .. Len(text) : f[i] = 10 * f[i - 1] + Session!DigitOf(text[i])
<1>1. PICK n \in Nat : n = Len(text)
  BY LenProperties
<1> DEFINE E(f, i) == IF i = 0 THEN 0 ELSE 10 * f[i - 1] + Session!DigitOf(text[i])
           number == CHOOSE f : f = [i \in 0 .. n |-> E(f, i)]
           step == [i \in 1 .. n |-> [x \in Nat |-> 10 * x + Session!DigitOf(text[i])]]
<1>2. \A i \in 1 .. n : Session!DigitOf(text[i]) \in Nat
  <2>1. \A i \in 1 .. n : text[i] \in Digit
    BY <1>1
  <2>2. \A c \in Digit : Session!DigitOf(c) \in 0 .. 9
    BY DigitsAre
  <2> QED
    BY <2>1, <2>2
<1>3. step \in [1 .. n -> [Nat -> Nat]]
  BY <1>2
<1>4. PICK f \in [0 .. n -> Nat] : Iterated(f, n, 0, step)
  <2> HIDE DEF step
  <2> QED
    BY <1>3, Iterates
<1>5. ASSUME NEW i \in 0 .. n
      PROVE  f[i] = E(f, i)
  <2>1. f[i] = IF i = 0 THEN 0 ELSE step[i][f[i - 1]]
    BY <1>4 DEF Iterated
  <2>2. i # 0 => i \in 1 .. n /\ f[i - 1] \in Nat
    OBVIOUS
  <2>3. i # 0 => step[i][f[i - 1]] = 10 * f[i - 1] + Session!DigitOf(text[i])
    BY <2>2
  <2> HIDE DEF step
  <2> QED
    BY <2>1, <2>3
<1> HIDE DEF step
<1>6. f = [i \in 0 .. n |-> E(f, i)]
  BY <1>5
<1>7. number = [i \in 0 .. n |-> E(number, i)]
  <2> HIDE DEF E
  <2> QED
    BY <1>6
<1>8. Session!NumberOf(text) = number[n]
  BY <1>1, Zenon DEF Session!NumberOf
<1> HIDE DEF number
<1>9. \A i \in 0 .. n : number[i] = f[i]
  <2> DEFINE T == {i \in 0 .. n : number[i] = f[i]}
  <2>1. 0 \in T
    BY <1>5, <1>7
  <2>2. ASSUME NEW m \in 0 .. n - 1, m \in T
        PROVE  m + 1 \in T
    <3>1. PICK i \in 1 .. n : i = m + 1 /\ m = i - 1
      OBVIOUS
    <3>2. number[i] = 10 * number[i - 1] + Session!DigitOf(text[i])
      BY <1>7, <3>1
    <3>3. f[i] = 10 * f[i - 1] + Session!DigitOf(text[i])
      BY <1>5, <3>1
    <3> QED
      BY <2>2, <3>1, <3>2, <3>3
  <2> HIDE DEF T
  <2>3. \A m \in 0 .. n : m \in T
    BY <2>1, <2>2, Counting
  <2> QED
    BY <2>3 DEF T
<1>10. number[n] = f[n] /\ f[0] = 0
  BY <1>5, <1>9
<1>11. \A i \in 1 .. n : f[i] = 10 * f[i - 1] + Session!DigitOf(text[i])
  BY <1>5
<1> HIDE DEF E
<1> QED
  BY <1>1, <1>8, <1>10, <1>11

\* One more digit makes ten times the number.
LEMMA NumberGrows ==
  ASSUME NEW text \in Seq(Digit), NEW c \in Digit
  PROVE  /\ Session!NumberOf(text) \in Nat
         /\ Session!NumberOf(text \o <<c>>) = 10 * Session!NumberOf(text) + Session!DigitOf(c)
<1>1. PICK n \in Nat : n = Len(text)
  BY LenProperties
<1>2. PICK longer \in Seq(Digit) : longer = text \o <<c>>
  <2>1. <<c>> \in Seq(Digit)
    OBVIOUS
  <2> QED
    BY <2>1, ConcatProperties
<1>3. Len(longer) = n + 1 /\ longer[n + 1] = c /\ \A i \in 1 .. n : longer[i] = text[i]
  BY <1>1, <1>2
<1>9. PICK m \in Nat : m = n + 1 /\ Len(longer) = m
  BY <1>3
<1>4. PICK f \in [0 .. n -> Nat] :
        /\ f[0] = 0 /\ f[n] = Session!NumberOf(text)
        /\ \A i \in 1 .. n : f[i] = 10 * f[i - 1] + Session!DigitOf(text[i])
  BY <1>1, NumberIs
<1>5. PICK g \in [0 .. m -> Nat] :
        /\ g[0] = 0 /\ g[m] = Session!NumberOf(longer)
        /\ \A i \in 1 .. m : g[i] = 10 * g[i - 1] + Session!DigitOf(longer[i])
  <2>1. \E g \in [0 .. Len(longer) -> Nat] :
          /\ g[0] = 0 /\ g[Len(longer)] = Session!NumberOf(longer)
          /\ \A i \in 1 .. Len(longer) : g[i] = 10 * g[i - 1] + Session!DigitOf(longer[i])
    BY NumberIs
  <2> QED
    BY <1>9, <2>1, Zenon
<1>6. \A i \in 0 .. n : f[i] = g[i]
  <2> DEFINE T == {i \in 0 .. n : f[i] = g[i]}
  <2>1. 0 \in T
    BY <1>4, <1>5
  <2>2. ASSUME NEW j \in 0 .. n - 1, j \in T
        PROVE  j + 1 \in T
    <3>1. PICK k \in 1 .. n : k = j + 1 /\ j = k - 1 /\ k \in 1 .. m
      BY <1>9
    <3>2. f[k] = 10 * f[j] + Session!DigitOf(text[k]) /\ g[k] = 10 * g[j] + Session!DigitOf(text[k])
      BY <1>3, <1>4, <1>5, <3>1
    <3> QED
      BY <2>2, <3>1, <3>2
  <2> HIDE DEF T
  <2>3. \A j \in 0 .. n : j \in T
    BY <2>1, <2>2, Counting
  <2> QED
    BY <2>3 DEF T
<1>7. g[m] = 10 * g[n] + Session!DigitOf(c)
  <2>1. m \in 1 .. m /\ m - 1 = n /\ longer[m] = c
    BY <1>3, <1>9
  <2> QED
    BY <1>5, <2>1
<1>8. f[n] = g[n] /\ f[n] \in Nat
  <2>1. n \in 0 .. n
    OBVIOUS
  <2> QED
    BY <1>6, <2>1
<1> QED
  BY <1>2, <1>4, <1>5, <1>7, <1>8

LEMMA DigitRead == \A c \in Digit : Session!NumberOf(<<c>>) = Session!DigitOf(c)
<1> SUFFICES ASSUME NEW c \in Digit
             PROVE  Session!NumberOf(<<c>>) = Session!DigitOf(c)
  OBVIOUS
<1>1. << >> \in Seq(Digit) /\ Len(<< >>) = 0
  OBVIOUS
<1>2. Session!NumberOf(<< >>) = 0
  BY <1>1, NumberIs
<1>3. << >> \o <<c>> = <<c>>
  OBVIOUS
<1>4. Session!DigitOf(c) \in 0 .. 9
  BY DigitsAre
<1>5. PICK empty \in Seq(Digit) : empty = << >>
  BY <1>1
<1>6. Session!NumberOf(empty \o <<c>>) = 10 * Session!NumberOf(empty) + Session!DigitOf(c)
  BY NumberGrows
<1> QED
  BY <1>2, <1>3, <1>4, <1>5, <1>6

\* What is written in decimal is read as what it was.
LEMMA DecimalRead ==
  \A n \in Nat : /\ Session!Decimal[n] \in Seq(Digit) /\ Session!Decimal[n] # << >>
                 /\ Session!NumberOf(Session!Decimal[n]) = n
<1> DEFINE Fine(n) == /\ Session!Decimal[n] \in Seq(Digit) /\ Session!Decimal[n] # << >>
                      /\ Session!NumberOf(Session!Decimal[n]) = n
           bad == {n \in Nat : ~Fine(n)}
<1>1. CASE bad = {}
  BY <1>1
<1>2. CASE bad # {}
  <2>1. PICK n \in bad : \A m \in bad : n <= m
    <3>1. bad \subseteq Nat
      OBVIOUS
    <3> HIDE DEF bad
    <3> QED
      BY <1>2, <3>1, LeastNumber
  <2>2. n \in Nat /\ ~Fine(n)
    OBVIOUS
  <2>3. CASE n < 10
    <3>1. n \in 0 .. 9
      BY <2>2, <2>3, Division
    <3>2. PICK c \in Digit : c = Session!Digits[n + 1] /\ Session!DigitOf(c) = n
      BY <3>1, DigitsAre
    <3>3. Session!Decimal[n] = <<c>>
      BY <2>2, <2>3, <3>2, DecimalIs
    <3>4. Session!NumberOf(<<c>>) = n
      BY <3>2, DigitRead
    <3> QED
      BY <2>2, <3>3, <3>4
  <2>4. CASE n >= 10
    <3>1. PICK m \in Nat, d \in 0 .. 9 : m = n \div 10 /\ d = n % 10 /\ n = 10 * m + d /\ m < n
      BY <2>2, <2>4, Division
    <3>2. m \notin bad
      <4> HIDE DEF bad
      <4> QED
        BY <2>1, <2>2, <3>1
    <3>3. Fine(m)
      BY <3>2
    <3>4. PICK c \in Digit : c = Session!Digits[d + 1] /\ Session!DigitOf(c) = d
      BY DigitsAre
    <3>5. Session!Decimal[n] = Session!Decimal[m] \o <<c>>
      <4>1. ~(n < 10)
        BY <2>2, <2>4
      <4> QED
        BY <2>2, <3>1, <3>4, <4>1, DecimalIs
    <3>6. Session!NumberOf(Session!Decimal[n]) = 10 * m + d
      BY <3>3, <3>4, <3>5, NumberGrows
    <3>7. Session!Decimal[n] \in Seq(Digit) /\ Session!Decimal[n] # << >>
      BY <3>3, <3>5
    <3> QED
      BY <2>2, <3>1, <3>6, <3>7
  <2> QED
    BY <2>2, <2>3, <2>4
<1> QED
  BY <1>1, <1>2

\* Two sequences, joined.
LEMMA Together ==
  ASSUME NEW S, NEW s \in Seq(S), NEW t \in Seq(S)
  PROVE  /\ s \o t \in Seq(S) /\ Len(s \o t) = Len(s) + Len(t)
         /\ \A i \in 1 .. Len(s) : (s \o t)[i] = s[i]
         /\ \A i \in 1 .. Len(t) : (s \o t)[Len(s) + i] = t[i]
<1>1. PICK a \in Nat, b \in Nat : a = Len(s) /\ b = Len(t)
  BY LenProperties
<1>2. PICK u \in Seq(S) : u = s \o t
  BY ConcatProperties
<1>3. Len(u) = a + b /\ \A i \in 1 .. a + b : u[i] = IF i <= a THEN s[i] ELSE t[i - a]
  BY <1>1, <1>2, ConcatProperties
<1>4. \A i \in 1 .. a : i \in 1 .. a + b /\ i <= a
  OBVIOUS
<1>5. ASSUME NEW i \in 1 .. b
      PROVE  u[a + i] = t[i]
  <2>1. PICK k \in 1 .. a + b : k = a + i /\ ~(k <= a) /\ k - a = i
    OBVIOUS
  <2>2. u[k] = t[k - a]
    BY <1>3, <2>1
  <2> QED
    BY <2>1, <2>2, Zenon
<1>6. \A i \in 1 .. a : u[i] = s[i]
  BY <1>3, <1>4
<1>7. \A i \in 1 .. b : u[a + i] = t[i]
  BY <1>5
<1> QED
  BY <1>1, <1>2, <1>3, <1>6, <1>7

\* Two sequences, joined and cut apart again.
LEMMA CutApart ==
  ASSUME NEW S, NEW s \in Seq(S), NEW t \in Seq(S)
  PROVE  /\ SubSeq(s \o t, 1, Len(s)) = s
         /\ SubSeq(s \o t, Len(s) + 1, Len(s \o t)) = t
<1>1. PICK a \in Nat, b \in Nat : a = Len(s) /\ b = Len(t)
  BY LenProperties
<1>2. PICK u \in Seq(S) : u = s \o t
  BY ConcatProperties
<1>3. Len(u) = a + b /\ \A i \in 1 .. a + b : u[i] = IF i <= a THEN s[i] ELSE t[i - a]
  BY <1>1, <1>2, ConcatProperties
<1>4. SubSeq(u, 1, a) = s
  <2>1. PICK v : v = SubSeq(u, 1, a)
    OBVIOUS
  <2>2. v \in Seq(S) /\ Len(v) = a /\ \A i \in 1 .. a : v[i] = u[i]
    BY <1>3, <2>1
  <2>3. \A i \in 1 .. a : v[i] = s[i]
    BY <1>1, <1>3, <2>2
  <2> QED
    BY <1>1, <2>1, <2>2, <2>3, SeqEqual
<1>5. SubSeq(u, a + 1, a + b) = t
  <2>1. PICK v : v = SubSeq(u, a + 1, a + b)
    OBVIOUS
  <2>2. v \in Seq(S) /\ Len(v) = b /\ \A i \in 1 .. b : v[i] = u[a + i]
    BY <1>3, <2>1
  <2>3. \A i \in 1 .. b : v[i] = t[i]
    <3>1. \A i \in 1 .. b : a + i \in 1 .. a + b /\ ~(a + i <= a) /\ a + i - a = i
      BY <1>1
    <3> QED
      BY <1>3, <2>2, <3>1
  <2> QED
    BY <1>1, <2>1, <2>2, <2>3, SeqEqual
<1> QED
  BY <1>1, <1>2, <1>3, <1>4, <1>5

\* The sign of a number.
SignOf(negative) == IF negative THEN <<"-">> ELSE << >>
Signed(negative, n) == IF negative THEN -n ELSE n

\* The characters of a number.
NumberChar == Digit \cup {".", "-"}

\* The sign of a number is told by the first character of its text.
LEMMA SignSplits ==
  ASSUME NEW negative \in BOOLEAN, NEW digits \in Seq(NumberChar), digits # << >>, digits[1] # "-",
         NEW text, text = SignOf(negative) \o digits
  PROVE  /\ (Head(text) = "-") = negative
         /\ (IF Head(text) = "-" THEN Tail(text) ELSE text) = digits
         /\ text \in Seq(NumberChar) /\ text # << >>
<1>1. CASE negative
  <2>1. <<"-">> \in Seq(NumberChar) /\ text = <<"-">> \o digits
    BY <1>1 DEF SignOf, NumberChar
  <2>2. Head(text) = "-" /\ Tail(text) = digits /\ text \in Seq(NumberChar) /\ text # << >>
    <3> HIDE DEF NumberChar
    <3>1. text \in Seq(NumberChar) /\ text # << >> /\ Head(text) = "-"
      BY <2>1
    <3>2. Len(<<"-">>) = 1
      OBVIOUS
    <3>3. SubSeq(text, 2, Len(text)) = digits
      BY <2>1, <3>2, CutApart
    <3>4. Tail(text) = SubSeq(text, 2, Len(text))
      BY <3>1, TailIsSubSeq
    <3> QED
      BY <3>1, <3>3, <3>4
  <2> QED
    BY <1>1, <2>2
<1>2. CASE ~negative
  <2>1. text = digits
    BY <1>2 DEF SignOf
  <2>2. Head(text) # "-"
    BY <2>1
  <2> QED
    BY <1>2, <2>1, <2>2
<1> QED
  BY <1>1, <1>2

\* A text with its sign and the rest of it.
SplitsAs(text, negative, digits) ==
  (Head(text) = "-") = negative /\ (IF Head(text) = "-" THEN Tail(text) ELSE text) = digits

\* A text with a sign is split into the sign and the digits.
LEMMA SplitSign ==
  \A negative \in BOOLEAN : \A digits \in Seq(NumberChar) : \A text :
    digits # << >> /\ digits[1] # "-" /\ text = SignOf(negative) \o digits =>
      SplitsAs(text, negative, digits)
<1> SUFFICES ASSUME NEW negative \in BOOLEAN, NEW digits \in Seq(NumberChar), NEW text,
                    digits # << >>, digits[1] # "-", text = SignOf(negative) \o digits
             PROVE  SplitsAs(text, negative, digits)
  BY Zenon
<1> QED
  BY SignSplits, SMTT(30) DEF SplitsAs

\* A text of digits is read as an integer.
LEMMA IntegerRead ==
  ASSUME NEW negative \in BOOLEAN, NEW digits \in Seq(Digit), digits # << >>,
         NEW text, text = SignOf(negative) \o digits
  PROVE  Session!NumberRead(text) = <<"Integer", Signed(negative, Session!NumberOf(digits))>>
<1>1. \A i \in 1 .. Len(digits) : digits[i] \in Digit /\ digits[i] # "." /\ digits[i] # "-"
  <2>1. \A i \in 1 .. Len(digits) : digits[i] \in Digit
    OBVIOUS
  <2> QED
    BY <2>1, DigitsAre
<1>2. digits \in Seq(NumberChar) /\ digits[1] # "-"
  <2>1. digits \in Seq(NumberChar)
    BY DEF NumberChar
  <2>2. 1 \in 1 .. Len(digits)
    BY LenProperties
  <2> QED
    BY <1>1, <2>1, <2>2
<1>3. (Head(text) = "-") = negative /\ (IF Head(text) = "-" THEN Tail(text) ELSE text) = digits
  BY <1>2, SignSplits
<1>4. ~Session!Contains(digits, ".")
  BY <1>1 DEF Session!Contains
<1> QED
  BY <1>3, <1>4 DEF Session!NumberRead, Signed

\* A text of digits with a point is read up to the second digit of its fraction.
Fraction(text, negative, whole, fraction, d, e) ==
  /\ fraction # << >> /\ text = SignOf(negative) \o (whole \o (<<".">> \o fraction))
  /\ d = fraction[1] /\ e = IF Len(fraction) > 1 THEN fraction[2] ELSE "0"

LEMMA ReadFraction ==
  \A negative \in BOOLEAN : \A whole, fraction \in Seq(Digit) : \A d, e \in Digit : \A text :
    Fraction(text, negative, whole, fraction, d, e) =>
      Session!NumberRead(text) =
        <<"Float", Signed(negative, 100 * Session!NumberOf(whole)
                                      + (10 * Session!DigitOf(d) + Session!DigitOf(e)))>>
<1> SUFFICES ASSUME NEW negative \in BOOLEAN, NEW whole \in Seq(Digit), NEW fraction \in Seq(Digit),
                    NEW d \in Digit, NEW e \in Digit, NEW text, Fraction(text, negative, whole, fraction, d, e)
             PROVE  Session!NumberRead(text) =
                      <<"Float", Signed(negative, 100 * Session!NumberOf(whole)
                                                    + (10 * Session!DigitOf(d) + Session!DigitOf(e)))>>
  BY Zenon
<1> SUFFICES ASSUME fraction # << >>,
                    text = SignOf(negative) \o (whole \o (<<".">> \o fraction)),
                    d = fraction[1], e = IF Len(fraction) > 1 THEN fraction[2] ELSE "0"
             PROVE  Session!NumberRead(text) =
                      <<"Float", Signed(negative, 100 * Session!NumberOf(whole)
                                                    + (10 * Session!DigitOf(d) + Session!DigitOf(e)))>>
  BY DEF Fraction
<1>1. PICK a \in Nat, b \in Nat : a = Len(whole) /\ b = Len(fraction) /\ b > 0
  BY LenProperties
<1>2. PICK point \in Seq(NumberChar) : point = <<".">>
  <2>1. PICK c \in NumberChar : c = "."
    BY DEF NumberChar
  <2> HIDE DEF NumberChar
  <2>2. <<c>> \in Seq(NumberChar)
    OBVIOUS
  <2> QED
    BY <2>1, <2>2
<1>3. whole \in Seq(NumberChar) /\ fraction \in Seq(NumberChar)
  BY DEF NumberChar
<1>4. PICK tail \in Seq(NumberChar) : tail = point \o fraction
  BY <1>2, <1>3, ConcatProperties
<1>5. PICK digits \in Seq(NumberChar) : digits = whole \o tail
  BY <1>3, <1>4, ConcatProperties
<1>6. Len(point) = 1 /\ point[1] = "."
  BY <1>2
<1> HIDE DEF NumberChar
<1>7. Len(tail) = b + 1 /\ tail[1] = "." /\ \A i \in 1 .. b : tail[1 + i] = fraction[i]
  <2>1. /\ Len(tail) = Len(point) + Len(fraction)
        /\ \A i \in 1 .. Len(point) : tail[i] = point[i]
        /\ \A i \in 1 .. Len(fraction) : tail[Len(point) + i] = fraction[i]
    BY <1>3, <1>4, Together
  <2>2. /\ Len(tail) = 1 + b
        /\ \A i \in 1 .. 1 : tail[i] = point[i]
        /\ \A i \in 1 .. b : tail[1 + i] = fraction[i]
    BY <1>1, <1>6, <2>1, Zenon
  <2> QED
    BY <1>1, <1>6, <2>2
<1>8. /\ Len(digits) = a + (b + 1) /\ DOMAIN digits = 1 .. a + (b + 1)
      /\ \A i \in 1 .. a : digits[i] = whole[i]
      /\ \A i \in 1 .. b + 1 : digits[a + i] = tail[i]
  <2>1. /\ Len(digits) = a + (b + 1)
        /\ \A i \in 1 .. a : digits[i] = whole[i]
        /\ \A i \in 1 .. b + 1 : digits[a + i] = tail[i]
    <3>1. /\ Len(digits) = Len(whole) + Len(tail)
          /\ \A i \in 1 .. Len(whole) : digits[i] = whole[i]
          /\ \A i \in 1 .. Len(tail) : digits[Len(whole) + i] = tail[i]
      BY <1>3, <1>5, Together, SMTT(40)
    <3> QED
      BY <1>1, <1>7, <3>1, Zenon
  <2> QED
    BY <2>1, LenProperties
<1>9. \A i \in 1 .. a : whole[i] \in Digit /\ whole[i] # "." /\ whole[i] # "-"
  <2>1. \A i \in 1 .. a : whole[i] \in Digit
    BY <1>1
  <2> QED
    BY <2>1, DigitsAre
<1>10. \A i \in 1 .. b : fraction[i] \in Digit /\ fraction[i] # "." /\ fraction[i] # "-"
  <2>1. \A i \in 1 .. b : fraction[i] \in Digit
    BY <1>1
  <2> QED
    BY <2>1, DigitsAre
<1>11. \A i \in 1 .. a + (b + 1) : digits[i] = "." <=> i = a + 1
  <2>1. ASSUME NEW i \in 1 .. a + (b + 1)
        PROVE  digits[i] = "." <=> i = a + 1
    <3>1. CASE i \in 1 .. a
      <4>1. digits[i] = whole[i] /\ whole[i] # "." /\ i # a + 1
        BY <1>8, <1>9, <3>1
      <4> QED
        BY <4>1
    <3>2. CASE i = a + 1
      <4>1. 1 \in 1 .. b + 1
        OBVIOUS
      <4> QED
        BY <1>7, <1>8, <3>2, <4>1
    <3>3. CASE i > a + 1
      <4>1. PICK j \in 1 .. b : i = a + (1 + j) /\ 1 + j \in 1 .. b + 1
        <5>1. i - a - 1 \in 1 .. b /\ i = a + (1 + (i - a - 1)) /\ 1 + (i - a - 1) \in 1 .. b + 1
          BY <3>3
        <5> QED
          BY <5>1
      <4>2. digits[i] = fraction[j]
        BY <1>7, <1>8, <4>1
      <4> QED
        BY <1>10, <3>3, <4>2
    <3> QED
      BY <3>1, <3>2, <3>3
  <2> QED
    BY <2>1
<1>12. digits # << >> /\ digits[1] # "-"
  <2>1. 1 \in 1 .. a + (b + 1)
    OBVIOUS
  <2>2. CASE a = 0
    BY <1>8, <1>11, <2>1, <2>2
  <2>3. CASE a # 0
    <3>1. 1 \in 1 .. a
      BY <1>1, <2>3
    <3>2. digits[1] # "-"
      BY <1>8, <1>9, <3>1
    <3>3. Len(digits) # 0
      BY <1>1, <1>8
    <3> QED
      BY <3>2, <3>3
  <2> QED
    BY <2>2, <2>3
<1>13. SplitsAs(text, negative, digits)
  <2>1. text = SignOf(negative) \o digits
    BY <1>2, <1>4, <1>5
  <2> QED
    <3>1. digits # << >>
      BY <1>12
    <3>2. digits[1] # "-"
      BY <1>12
    <3>3. digits \in Seq(NumberChar)
      OBVIOUS
    <3>4. negative \in BOOLEAN
      OBVIOUS
    <3> QED
      BY <2>1, <3>1, <3>2, <3>3, <3>4, SplitSign, Zenon
<1>14. DOMAIN digits = 1 .. a + (b + 1) /\ a + 1 \in 1 .. a + (b + 1)
  BY <1>8, LenProperties
<1>15. Session!Contains(digits, ".") /\ (CHOOSE i \in DOMAIN digits : digits[i] = ".") = a + 1
  <2>1. Session!Contains(digits, ".")
    BY <1>8, <1>11, <1>14 DEF Session!Contains
  <2> QED
    BY <1>11, <1>14, <2>1
<1>16. SubSeq(digits, 1, a + 1 - 1) = whole
  <2>1. a + 1 - 1 = a
    OBVIOUS
  <2> QED
    BY <1>1, <1>3, <1>5, <2>1, CutApart
<1>17. SubSeq(digits, a + 1 + 1, Len(digits)) = fraction
  <2>1. PICK v : v = SubSeq(digits, a + 2, a + (b + 1))
    OBVIOUS
  <2>2. v \in Seq(NumberChar) /\ Len(v) = b /\ \A i \in 1 .. b : v[i] = digits[a + 1 + i]
    BY <1>8, <2>1
  <2>3. ASSUME NEW i \in 1 .. b
        PROVE  v[i] = fraction[i]
    <3>1. PICK k \in 1 .. b + 1 : k = 1 + i /\ a + 1 + i = a + k /\ k - 1 = i
      BY <1>1
    <3> QED
      BY <1>7, <1>8, <2>2, <3>1, SMTT(30)
  <2>4. v = fraction
    BY <1>1, <1>3, <2>2, <2>3, SeqEqual
  <2>5. a + 1 + 1 = a + 2
    OBVIOUS
  <2> QED
    BY <1>8, <2>1, <2>4, <2>5
<1>18. SubSeq(fraction \o <<"0", "0">>, 1, 2) = <<d, e>>
  <2>1. PICK zeros \in Seq(Digit) : zeros = <<"0", "0">> /\ Len(zeros) = 2 /\ zeros[1] = "0"
    <3>1. PICK zero \in Digit : zero = "0"
      BY DigitsAre
    <3>2. <<zero, zero>> \in Seq(Digit) /\ Len(<<zero, zero>>) = 2 /\ <<zero, zero>>[1] = zero
      OBVIOUS
    <3> QED
      BY <3>1, <3>2
  <2>2. PICK u \in Seq(Digit) : u = fraction \o zeros
    BY ConcatProperties
  <2>3. Len(u) = b + 2 /\ \A i \in 1 .. b + 2 : u[i] = IF i <= b THEN fraction[i] ELSE zeros[i - b]
    BY <1>1, <2>1, <2>2, ConcatProperties
  <2>4. u[1] = d /\ u[2] = e
    <3>1. u[1] = d
      BY <1>1, <2>3
    <3>2. u[2] = e
      BY <1>1, <2>1, <2>3
    <3> QED
      BY <3>1, <3>2
  <2>5. PICK v : v = SubSeq(u, 1, 2)
    OBVIOUS
  <2>6. v \in Seq(Digit) /\ Len(v) = 2 /\ v[1] = u[1] /\ v[2] = u[2]
    BY <1>1, <2>3, <2>5
  <2>7. v = <<d, e>>
    BY <2>4, <2>6
  <2> QED
    BY <2>1, <2>2, <2>5, <2>7
<1>19. Session!NumberOf(<<d, e>>) = 10 * Session!DigitOf(d) + Session!DigitOf(e)
  <2>1. <<d>> \in Seq(Digit) /\ <<d>> \o <<e>> = <<d, e>>
    <3>1. <<d>> \in Seq(Digit) /\ <<e>> \in Seq(Digit) /\ <<d, e>> \in Seq(Digit)
      OBVIOUS
    <3>2. PICK u \in Seq(Digit) : u = <<d>> \o <<e>>
      BY <3>1, ConcatProperties
    <3>3. Len(u) = 2 /\ u[1] = d /\ u[2] = e
      BY <3>2
    <3>4. PICK v \in Seq(Digit) : v = <<d, e>>
      BY <3>1
    <3>5. Len(v) = 2 /\ v[1] = d /\ v[2] = e
      BY <3>4
    <3>6. \A i \in 1 .. Len(u) : u[i] = v[i]
      BY <3>3, <3>5
    <3>7. Len(u) = Len(v)
      BY <3>3, <3>5
    <3>8. u = v
      BY <3>6, <3>7, SeqEqual, Zenon
    <3> QED
      BY <3>1, <3>2, <3>4, <3>8
  <2>2. Session!NumberOf(<<d>> \o <<e>>) = 10 * Session!NumberOf(<<d>>) + Session!DigitOf(e)
    BY <2>1, NumberGrows
  <2> QED
    BY <2>1, <2>2, DigitRead
<1>20. PICK two : two = <<d, e>>
  OBVIOUS
<1>21. Session!NumberRead(text) =
         <<"Float", IF negative THEN -(100 * Session!NumberOf(whole) + Session!NumberOf(two))
                    ELSE 100 * Session!NumberOf(whole) + Session!NumberOf(two)>>
  <2> DEFINE neg == Head(text) = "-"
             dig == IF neg THEN Tail(text) ELSE text
             place == CHOOSE i \in DOMAIN dig : dig[i] = "."
             part1 == SubSeq(dig, 1, place - 1)
             part2 == SubSeq(SubSeq(dig, place + 1, Len(dig)) \o <<"0", "0">>, 1, 2)
             n == IF Session!Contains(dig, ".") THEN 100 * Session!NumberOf(part1) + Session!NumberOf(part2)
                  ELSE Session!NumberOf(dig)
  <2>1. Session!NumberRead(text) =
          <<IF Session!Contains(dig, ".") THEN "Float" ELSE "Integer", IF neg THEN -n ELSE n>>
    BY Zenon DEF Session!NumberRead
  <2>2. neg = negative /\ dig = digits
    BY <1>13 DEF SplitsAs
  <2>3. place = a + 1 /\ Session!Contains(dig, ".")
    BY <1>15, <2>2
  <2> HIDE DEF neg, dig, place
  <2>4. part1 = whole
    <3>1. part1 = SubSeq(digits, 1, (a + 1) - 1)
      BY <2>2, <2>3, Zenon
    <3>2. a + 1 - 1 = (a + 1) - 1
      OBVIOUS
    <3> QED
      BY <1>16, <3>1, <3>2, Zenon
  <2>5. part2 = two
    BY <1>17, <1>18, <1>20, <2>2, <2>3, Zenon
  <2> HIDE DEF part1, part2
  <2> QED
    BY <2>1, <2>2, <2>3, <2>4, <2>5
<1> QED
  BY <1>19, <1>20, <1>21 DEF Signed

-----------------------------------------------------------------------------
(* Texts made of blocks.                                                    *)

\* Where the blocks of a text end.
Ends(at, n, blocks, text) ==
  /\ at[0] = 0 /\ at[n] = Len(text)
  /\ \A i \in 1 .. n : at[i] = at[i - 1] + Len(blocks[i]) /\ at[i] <= Len(text)
  /\ \A i \in 1 .. n : \A k \in 1 .. Len(blocks[i]) : text[at[i - 1] + k] = blocks[i][k]

\* The text of the first blocks begins the text of all of them.
LEMMA BlocksBegin ==
  ASSUME NEW X, NEW n \in Nat, NEW blocks \in [1 .. n -> Seq(X)], NEW f \in [0 .. n -> Seq(X)],
         Joins(f, n, blocks), NEW i \in 0 .. n
  PROVE  Len(f[i]) <= Len(f[n]) /\ \A j \in 1 .. Len(f[i]) : f[n][j] = f[i][j]
<1> DEFINE Begins(m) == Len(f[i]) <= Len(f[m]) /\ \A j \in 1 .. Len(f[i]) : f[m][j] = f[i][j]
           T == {m \in 0 .. n : i <= m => Begins(m)}
<1>1. \A m \in 0 .. n : f[m] \in Seq(X) /\ Len(f[m]) \in Nat
  BY LenProperties
<1>2. 0 \in T
  <2>1. i <= 0 => i = 0
    OBVIOUS
  <2>2. 0 \in 0 .. n
    OBVIOUS
  <2> QED
    BY <1>1, <2>1, <2>2
<1>3. ASSUME NEW m \in 0 .. n - 1, m \in T
      PROVE  m + 1 \in T
  <2>1. PICK k \in 1 .. n : k = m + 1 /\ m = k - 1
    OBVIOUS
  <2>2. f[k] = f[m] \o blocks[k] /\ blocks[k] \in Seq(X) /\ f[m] \in Seq(X) /\ k \in 0 .. n /\ m \in 0 .. n
    <3>1. f[k] = f[k - 1] \o blocks[k]
      BY Zenon DEF Joins
    <3>2. k \in 0 .. n /\ m \in 0 .. n /\ blocks[k] \in Seq(X)
      OBVIOUS
    <3> QED
      BY <1>1, <2>1, <3>1, <3>2
  <2>3. Len(f[m]) <= Len(f[k]) /\ \A j \in 1 .. Len(f[m]) : f[k][j] = f[m][j]
    <3>1. Len(f[k]) = Len(f[m]) + Len(blocks[k]) /\ \A j \in 1 .. Len(f[m]) : f[k][j] = f[m][j]
      BY <2>2, Together
    <3> QED
      BY <1>1, <2>2, <3>1, LenProperties
  <2>4. CASE i = k
    <3>1. Begins(k)
      BY <1>1, <2>4
    <3> QED
      BY <2>1, <2>2, <3>1
  <2>5. CASE i # k
    <3>1. i <= k => Begins(k)
      <4>1. SUFFICES ASSUME i <= k PROVE Begins(k)
        OBVIOUS
      <4>2. i <= m
        BY <2>1, <2>5, <4>1
      <4>3. Begins(m)
        BY <1>3, <4>2
      <4>4. \A j \in 1 .. Len(f[i]) : j \in 1 .. Len(f[m])
        BY <1>1, <2>2, <4>3
      <4>5. \A j \in 1 .. Len(f[i]) : f[k][j] = f[i][j]
        BY <2>3, <4>3, <4>4
      <4>6. Len(f[i]) <= Len(f[k])
        BY <1>1, <2>2, <2>3, <4>3
      <4> QED
        BY <4>5, <4>6
    <3> QED
      BY <2>1, <2>2, <3>1
  <2> QED
    BY <2>4, <2>5
<1> HIDE DEF T
<1>4. \A m \in 0 .. n : m \in T
  BY <1>2, <1>3, Counting
<1>5. n \in T
  BY <1>4
<1>6. i <= n => Begins(n)
  BY <1>5 DEF T
<1> QED
  BY <1>6

\* Each block has its place in the text that all of them make.
LEMMA Flattened ==
  ASSUME NEW X, NEW n \in Nat, NEW blocks \in [1 .. n -> Seq(X)]
  PROVE  /\ Session!FlattenSeq(blocks) \in Seq(X)
         /\ \E at \in [0 .. n -> Nat] : Ends(at, n, blocks, Session!FlattenSeq(blocks))
<1>1. PICK f \in [0 .. n -> Seq(X)] :
        Joins(f, n, blocks) /\ f[n] = Session!FlattenSeq(blocks)
  BY FlattenIs
<1>7. f[0] = << >> /\ \A i \in 1 .. n : f[i] = f[i - 1] \o blocks[i]
  BY <1>1 DEF Joins
<1>2. PICK text \in Seq(X) : text = Session!FlattenSeq(blocks) /\ text = f[n]
  <2>1. n \in 0 .. n
    OBVIOUS
  <2> QED
    BY <1>1, <2>1
<1>8. \A i \in 0 .. n : Len(f[i]) <= Len(f[n]) /\ \A j \in 1 .. Len(f[i]) : f[n][j] = f[i][j]
  BY <1>1, BlocksBegin, ZenonT(30)
<1> DEFINE at == [i \in 0 .. n |-> Len(f[i])]
<1>3. at \in [0 .. n -> Nat]
  BY LenProperties
<1>4. at[0] = 0 /\ at[n] = Len(text)
  BY <1>1, <1>2, <1>7
<1>5. ASSUME NEW i \in 1 .. n
      PROVE  /\ at[i] = at[i - 1] + Len(blocks[i]) /\ at[i] <= Len(text)
             /\ \A k \in 1 .. Len(blocks[i]) : text[at[i - 1] + k] = blocks[i][k]
  <2>1. PICK h \in 0 .. n : h = i - 1
    OBVIOUS
  <2>2. i \in 0 .. n /\ f[i] \in Seq(X) /\ f[h] \in Seq(X) /\ blocks[i] \in Seq(X) /\ f[i] = f[h] \o blocks[i]
    <3>1. f[i] = f[i - 1] \o blocks[i]
      BY <1>7, Zenon
    <3>2. i \in 0 .. n
      OBVIOUS
    <3> QED
      BY <2>1, <3>1, <3>2
  <2>3. /\ Len(f[i]) = Len(f[h]) + Len(blocks[i])
        /\ \A k \in 1 .. Len(blocks[i]) : f[i][Len(f[h]) + k] = blocks[i][k]
    BY <2>2, Together
  <2>4. Len(f[i]) <= Len(f[n]) /\ \A j \in 1 .. Len(f[i]) : f[n][j] = f[i][j]
    BY <1>8, <2>2
  <2>5. Len(f[i]) \in Nat /\ Len(f[h]) \in Nat /\ Len(blocks[i]) \in Nat
    BY <2>2, LenProperties
  <2>6. \A k \in 1 .. Len(blocks[i]) : Len(f[h]) + k \in 1 .. Len(f[i])
    BY <2>3, <2>5
  <2>7. \A k \in 1 .. Len(blocks[i]) : f[n][Len(f[h]) + k] = blocks[i][k]
    BY <2>3, <2>4, <2>6
  <2>8. at[i] = Len(f[i]) /\ at[h] = Len(f[h]) /\ at[i - 1] = at[h]
    BY <2>1, <2>2
  <2> HIDE DEF at
  <2> QED
    BY <1>2, <2>3, <2>4, <2>7, <2>8
<1>6. Ends(at, n, blocks, text)
  <2> HIDE DEF at
  <2> QED
    BY <1>4, <1>5 DEF Ends
<1> HIDE DEF at
<1> QED
  BY <1>2, <1>3, <1>6

\* Blocks of one element make what they have.
LEMMA FlattenedOnes ==
  ASSUME NEW X, NEW s \in Seq(X), NEW blocks \in [1 .. Len(s) -> Seq(X)],
         \A i \in 1 .. Len(s) : blocks[i] = <<s[i]>>
  PROVE  Session!FlattenSeq(blocks) = s
<1>1. PICK n \in Nat : n = Len(s)
  BY LenProperties
<1>2. PICK text \in Seq(X) : text = Session!FlattenSeq(blocks)
  BY <1>1, Flattened
<1>3. PICK at \in [0 .. n -> Nat] : Ends(at, n, blocks, text)
  BY <1>1, <1>2, Flattened
<1> DEFINE T == {m \in 0 .. n : at[m] = m}
<1>4. ASSUME NEW i \in 1 .. n
      PROVE  Len(blocks[i]) = 1 /\ blocks[i][1] = s[i]
  <2>1. PICK one : one = <<s[i]>>
    OBVIOUS
  <2>2. Len(one) = 1 /\ one[1] = s[i]
    BY <2>1
  <2>3. blocks[i] = one
    BY <1>1, <2>1, Zenon
  <2> QED
    BY <2>2, <2>3
<1>5. 0 \in T
  BY <1>3 DEF Ends
<1>6. ASSUME NEW m \in 0 .. n - 1, m \in T
      PROVE  m + 1 \in T
  <2>1. PICK k \in 1 .. n : k = m + 1 /\ m = k - 1
    OBVIOUS
  <2>2. at[k] = at[m] + 1
    BY <1>3, <1>4, <2>1 DEF Ends
  <2> QED
    BY <1>6, <2>1, <2>2
<1> HIDE DEF T
<1>7. \A m \in 0 .. n : m \in T
  BY <1>5, <1>6, Counting
<1>8. \A m \in 0 .. n : at[m] = m
  BY <1>7 DEF T
<1>9. ASSUME NEW i \in 1 .. n
      PROVE  text[i] = s[i]
  <2>1. PICK h \in 0 .. n : h = i - 1 /\ h + 1 = i
    OBVIOUS
  <2>2. Len(blocks[i]) = 1 /\ blocks[i][1] = s[i]
    BY <1>4
  <2>3. text[at[i - 1] + 1] = blocks[i][1]
    <3>1. \A k \in 1 .. Len(blocks[i]) : text[at[i - 1] + k] = blocks[i][k]
      BY <1>3, Zenon DEF Ends
    <3> QED
      BY <2>2, <3>1
  <2>4. at[i - 1] = h
    BY <1>8, <2>1
  <2> QED
    BY <2>1, <2>2, <2>3, <2>4
<1>10. Len(text) = n
  BY <1>3, <1>8 DEF Ends
<1> QED
  BY <1>1, <1>2, <1>9, <1>10, SeqEqual

-----------------------------------------------------------------------------
(* The client: strings as text.                                             *)

\* The characters that one side or the other escapes.
Escapable == {Session!Quote, Session!Backslash, "\n", "\r"}

\* Where the loop in sq_parse_string is.
Readers(C) == [out : Seq(C), escaped : BOOLEAN, open : BOOLEAN]

\* The state of that loop after the opening quote.
Opened == [out |-> << >>, escaped |-> FALSE, open |-> TRUE]

\* What the loop does, one character after the other.
Unescapes(f, text) ==
  /\ f[0] = Opened /\ f[Len(text) - 1] = Session!Unescaped(text)
  /\ \A i \in 1 .. Len(text) - 1 : f[i] = Session!Unescape(f[i - 1], text[i + 1])

\* One round keeps what is read a text.
LEMMA UnescapeTyped ==
  ASSUME NEW C, {"\n", "\r"} \subseteq C, NEW s \in Readers(C), NEW c \in C
  PROVE  Session!Unescape(s, c) \in Readers(C)
<1>1. s.out \in Seq(C) /\ s.escaped \in BOOLEAN /\ s.open \in BOOLEAN
  BY DEF Readers
<1>2. ASSUME NEW e \in C, NEW x \in Readers(C)
      PROVE  [x EXCEPT !.out = Append(@, e)] \in Readers(C)
  <2>1. x.out \in Seq(C)
    BY DEF Readers
  <2>2. Append(x.out, e) \in Seq(C)
    BY <2>1
  <2> QED
    BY <2>2 DEF Readers
<1>3. ASSUME NEW e \in C
      PROVE  [s EXCEPT !.escaped = FALSE, !.out = Append(@, e)] \in Readers(C)
  <2>1. [s EXCEPT !.escaped = FALSE] \in Readers(C)
    BY <1>1 DEF Readers
  <2> QED
    BY <1>2, <2>1
<1>4. [s EXCEPT !.open = FALSE] \in Readers(C) /\ [s EXCEPT !.escaped = TRUE] \in Readers(C)
  BY <1>1 DEF Readers
<1>5. PICK e \in C : e = CASE c = "n" -> "\n" [] c = "r" -> "\r" [] OTHER -> c
  OBVIOUS
<1>6. CASE ~s.open
  BY <1>6 DEF Session!Unescape
<1>7. CASE s.open /\ s.escaped
  <2>1. Session!Unescape(s, c) = [s EXCEPT !.escaped = FALSE, !.out = Append(@, e)]
    BY <1>5, <1>7 DEF Session!Unescape
  <2> QED
    BY <1>3, <2>1
<1>8. CASE s.open /\ ~s.escaped
  BY <1>2, <1>4, <1>8 DEF Session!Unescape, Session!Quote, Session!Backslash
<1> QED
  BY <1>6, <1>7, <1>8

\* The equation of the function in Unescaped.
LEMMA UnescapedIs ==
  ASSUME NEW C, {"\n", "\r"} \subseteq C, NEW text \in Seq(C), text # << >>
  PROVE  \E f \in [0 .. Len(text) - 1 -> Readers(C)] : Unescapes(f, text)
<1>1. PICK n \in Nat : n = Len(text) /\ n > 0
  BY EmptySeq
<1>2. PICK m \in Nat : m = n - 1 /\ n = m + 1
  BY <1>1
<1> DEFINE step == [i \in 1 .. m |-> [x \in Readers(C) |-> Session!Unescape(x, text[i + 1])]]
           E(g, i) == IF i = 1 THEN Opened ELSE Session!Unescape(g[i - 1], text[i])
           read == CHOOSE g : g = [i \in 1 .. n |-> E(g, i)]
<1>3. \A i \in 1 .. m : text[i + 1] \in C
  BY <1>1, <1>2
<1>4. step \in [1 .. m -> [Readers(C) -> Readers(C)]]
  BY <1>3, UnescapeTyped
<1>5. Opened \in Readers(C)
  BY DEF Opened, Readers
<1>6. PICK f \in [0 .. m -> Readers(C)] : Iterated(f, m, Opened, step)
  <2> HIDE DEF step
  <2> QED
    BY <1>4, <1>5, Iterates
<1>7. f[0] = Opened /\ \A i \in 1 .. m : f[i] = Session!Unescape(f[i - 1], text[i + 1])
  <2>1. f[0] = Opened /\ \A i \in 1 .. m : f[i] = step[i][f[i - 1]]
    <3> HIDE DEF step
    <3> QED
      BY <1>6 DEF Iterated
  <2>2. \A i \in 1 .. m : f[i - 1] \in Readers(C)
    BY <1>6
  <2> QED
    BY <2>1, <2>2
<1> HIDE DEF step
<1> DEFINE h == [i \in 1 .. n |-> f[i - 1]]
<1>8. h = [i \in 1 .. n |-> E(h, i)]
  <2>1. ASSUME NEW i \in 1 .. n
        PROVE  h[i] = E(h, i)
    <3>1. CASE i = 1
      BY <1>7, <3>1
    <3>2. CASE i # 1
      <4>1. PICK k \in 1 .. m : i = k + 1 /\ k = i - 1 /\ k \in 1 .. n
        BY <1>2, <3>2
      <4>2. h[i] = f[k] /\ h[i - 1] = f[k - 1]
        BY <4>1
      <4>3. f[k] = Session!Unescape(f[k - 1], text[i])
        BY <1>7, <4>1
      <4> HIDE DEF h
      <4> QED
        BY <3>2, <4>2, <4>3
    <3> QED
      BY <3>1, <3>2
  <2> HIDE DEF E
  <2> QED
    BY <2>1
<1>9. read = [i \in 1 .. n |-> E(read, i)]
  <2> HIDE DEF E, h
  <2> QED
    BY <1>8
<1>10. Session!Unescaped(text) = read[n]
  BY <1>1, Zenon DEF Session!Unescaped, Opened
<1> HIDE DEF read
<1>11. \A i \in 0 .. m : read[i + 1] = f[i]
  <2> DEFINE T == {i \in 0 .. m : read[i + 1] = f[i]}
  <2>1. 0 \in T
    BY <1>1, <1>7, <1>9
  <2>2. ASSUME NEW j \in 0 .. m - 1, j \in T
        PROVE  j + 1 \in T
    <3>1. PICK k \in 1 .. m : k = j + 1 /\ j = k - 1
      OBVIOUS
    <3>2. PICK l \in 1 .. n : l = k + 1 /\ l # 1 /\ l - 1 = k
      BY <1>2
    <3>3. read[l] = Session!Unescape(read[k], text[l])
      BY <1>9, <3>2
    <3>4. f[k] = Session!Unescape(f[j], text[l])
      BY <1>7, <3>1, <3>2
    <3>5. read[k] = f[j]
      BY <2>2, <3>1
    <3> QED
      BY <3>1, <3>2, <3>3, <3>4, <3>5
  <2> HIDE DEF T
  <2>3. \A i \in 0 .. m : i \in T
    BY <2>1, <2>2, Counting
  <2> QED
    BY <2>3 DEF T
<1>12. f[m] = Session!Unescaped(text)
  BY <1>2, <1>10, <1>11
<1>13. Unescapes(f, text)
  BY <1>1, <1>2, <1>7, <1>12 DEF Unescapes
<1> QED
  BY <1>1, <1>2, <1>13


\* The beginning of a text, with one more character.
LEMMA PrefixGrows ==
  ASSUME NEW C, NEW s \in Seq(C), NEW k \in 1 .. Len(s), NEW j, j = k - 1
  PROVE  /\ SubSeq(s, 1, k) = Append(SubSeq(s, 1, j), s[k]) /\ SubSeq(s, 1, j) \in Seq(C)
         /\ SubSeq(s, 1, Len(s)) = s /\ SubSeq(s, 1, 0) = << >>
<1>1. PICK n \in Nat : n = Len(s)
  BY LenProperties
<1>2. k \in 1 .. n /\ j \in 0 .. n /\ \A i \in 1 .. n : s[i] \in C
  BY <1>1
<1>9. ASSUME NEW m \in 0 .. n
      PROVE  \E u \in Seq(C) : u = SubSeq(s, 1, m) /\ Len(u) = m /\ \A i \in 1 .. m : u[i] = s[i]
  <2>1. PICK u : u = SubSeq(s, 1, m)
    OBVIOUS
  <2>2. u \in Seq(C) /\ Len(u) = m /\ \A i \in 1 .. m : u[i] = s[i]
    BY <1>1, <2>1
  <2> QED
    BY <2>1, <2>2
<1>3. PICK u \in Seq(C) : u = SubSeq(s, 1, j) /\ Len(u) = j /\ \A i \in 1 .. j : u[i] = s[i]
  BY <1>2, <1>9
<1>4. PICK v \in Seq(C) : v = SubSeq(s, 1, k) /\ Len(v) = k /\ \A i \in 1 .. k : v[i] = s[i]
  <2>1. k \in 0 .. n
    BY <1>2
  <2> QED
    BY <1>9, <2>1
<1>5. PICK w \in Seq(C) : /\ w = Append(u, s[k]) /\ Len(w) = k /\ w[k] = s[k]
                          /\ \A i \in 1 .. j : w[i] = s[i]
  <2>1. PICK w : w = Append(u, s[k])
    OBVIOUS
  <2>2. w \in Seq(C) /\ Len(w) = j + 1 /\ w[j + 1] = s[k] /\ \A i \in 1 .. j : w[i] = u[i]
    BY <1>2, <1>3, <2>1
  <2>3. j + 1 = k
    BY <1>2
  <2>4. Len(w) = k /\ w[k] = s[k]
    BY <2>2, <2>3
  <2>5. \A i \in 1 .. j : w[i] = s[i]
    BY <1>3, <2>2
  <2> QED
    BY <2>1, <2>2, <2>4, <2>5
<1>6. \A i \in 1 .. k : w[i] = v[i]
  BY <1>2, <1>4, <1>5
<1>7. w = v
  BY <1>4, <1>5, <1>6, SeqEqual
<1>8. SubSeq(s, 1, n) = s
  <2>1. PICK x \in Seq(C) : x = SubSeq(s, 1, n) /\ Len(x) = n /\ \A i \in 1 .. n : x[i] = s[i]
    <3>1. n \in 0 .. n
      OBVIOUS
    <3> QED
      BY <1>9, <3>1
  <2> QED
    BY <1>1, <2>1, SeqEqual
<1> QED
  BY <1>1, <1>3, <1>4, <1>5, <1>7, <1>8


\* A text between quotes.
Quoted(text, F, n) ==
  /\ text = <<Session!Quote>> \o F \o <<Session!Quote>>
  /\ Len(text) = n + 2 /\ text # << >>
  /\ text[1] = Session!Quote /\ text[n + 2] = Session!Quote
  /\ \A j \in 1 .. n : text[j + 1] = F[j]

\* The characters of a text between quotes.
LEMMA BetweenQuotes ==
  ASSUME NEW C, Session!Quote \in C, NEW F \in Seq(C), NEW n \in Nat, n = Len(F)
  PROVE  \E text \in Seq(C) : Quoted(text, F, n)
<1>1. PICK one \in Seq(C) : one = <<Session!Quote>> /\ Len(one) = 1 /\ one[1] = Session!Quote
  <2>1. PICK c \in C : c = Session!Quote
    OBVIOUS
  <2>2. <<c>> \in Seq(C) /\ Len(<<c>>) = 1 /\ <<c>>[1] = c
    OBVIOUS
  <2> QED
    BY <2>1, <2>2
<1>2. PICK u \in Seq(C) : /\ u = one \o F /\ Len(u) = n + 1
                          /\ u[1] = Session!Quote /\ \A j \in 1 .. n : u[j + 1] = F[j]
  <2>1. PICK u \in Seq(C) : u = one \o F
    BY ConcatProperties
  <2>2. /\ Len(u) = 1 + n
        /\ \A i \in 1 .. 1 + n : u[i] = IF i <= 1 THEN one[i] ELSE F[i - 1]
    BY <1>1, <2>1, ConcatProperties
  <2>3. u[1] = Session!Quote
    BY <1>1, <2>2
  <2>4. \A j \in 1 .. n : u[j + 1] = F[j]
    <3>1. \A j \in 1 .. n : j + 1 \in 1 .. 1 + n /\ ~(j + 1 <= 1) /\ j + 1 - 1 = j
      OBVIOUS
    <3> QED
      BY <2>2, <3>1
  <2>5. Len(u) = n + 1
    BY <2>2
  <2> QED
    BY <2>1, <2>3, <2>4, <2>5, Zenon
<1>3. PICK text \in Seq(C) : text = u \o one
  BY ConcatProperties
<1>4. /\ Len(text) = n + 2
      /\ \A i \in 1 .. n + 2 : text[i] = IF i <= n + 1 THEN u[i] ELSE one[i - (n + 1)]
  BY <1>1, <1>2, <1>3, ConcatProperties
<1>5. text[1] = Session!Quote /\ \A j \in 1 .. n : text[j + 1] = F[j]
  <2>1. \A j \in 1 .. n : j + 1 \in 1 .. n + 2 /\ j + 1 <= n + 1
    OBVIOUS
  <2>2. 1 \in 1 .. n + 2 /\ 1 <= n + 1
    OBVIOUS
  <2> QED
    BY <1>2, <1>4, <2>1, <2>2
<1>6. text[n + 2] = Session!Quote
  <2>1. n + 2 \in 1 .. n + 2 /\ ~(n + 2 <= n + 1) /\ n + 2 - (n + 1) = 1
    OBVIOUS
  <2> QED
    BY <1>1, <1>4, <2>1
<1>7. text = <<Session!Quote>> \o F \o <<Session!Quote>>
  BY <1>1, <1>2, <1>3, Zenon
<1>8. Len(text) = n + 2 /\ text # << >>
  BY <1>4, EmptySeq
<1> QED
  BY <1>4, <1>5, <1>6, <1>7, <1>8 DEF Quoted


\* What is formatted as a string is read as what it was.
LEMMA StringRead ==
  ASSUME NEW C, Escapable \subseteq C, NEW s \in Seq(C)
  PROVE  LET text == <<Session!Quote>> \o Session!FormatString(s) \o <<Session!Quote>>
         IN  /\ text \in Seq(C) /\ text # << >> /\ text[1] = Session!Quote
             /\ Session!Unescaped(text) = [out |-> s, escaped |-> FALSE, open |-> FALSE]
<1>1. PICK n \in Nat : n = Len(s) /\ DOMAIN s = 1 .. n
  BY LenProperties
<1> DEFINE special == {Session!Backslash, Session!Quote}
           blocks == [i \in 1 .. n |-> IF s[i] \in special THEN <<Session!Backslash, s[i]>> ELSE <<s[i]>>]
<1>2. \A i \in 1 .. n : s[i] \in C
  BY <1>1
<1>3. blocks \in [1 .. n -> Seq(C)]
  <2>1. Session!Backslash \in C
    BY DEF Escapable
  <2>2. \A i \in 1 .. n : <<Session!Backslash, s[i]>> \in Seq(C) /\ <<s[i]>> \in Seq(C)
    BY <1>2, <2>1
  <2> QED
    BY <2>2
<1>4. ASSUME NEW i \in 1 .. n
      PROVE  IF s[i] \in special
             THEN Len(blocks[i]) = 2 /\ blocks[i][1] = Session!Backslash /\ blocks[i][2] = s[i]
             ELSE Len(blocks[i]) = 1 /\ blocks[i][1] = s[i]
  <2>1. blocks[i] = IF s[i] \in special THEN <<Session!Backslash, s[i]>> ELSE <<s[i]>>
    OBVIOUS
  <2>2. /\ Len(<<Session!Backslash, s[i]>>) = 2 /\ <<Session!Backslash, s[i]>>[1] = Session!Backslash
        /\ <<Session!Backslash, s[i]>>[2] = s[i] /\ Len(<<s[i]>>) = 1 /\ <<s[i]>>[1] = s[i]
    OBVIOUS
  <2> HIDE DEF blocks, special
  <2> QED
    BY <2>1, <2>2
<1>5. Session!FormatString(s) = Session!FlattenSeq(blocks)
  BY <1>1 DEF Session!FormatString
<1> HIDE DEF blocks
<1>6. PICK F \in Seq(C) : F = Session!FormatString(s)
  BY <1>3, <1>5, Flattened
<1>7. PICK at \in [0 .. n -> Nat] : Ends(at, n, blocks, F)
  BY <1>3, <1>5, <1>6, Flattened
<1>8. PICK l \in Nat : l = Len(F) /\ at[n] = l /\ at[0] = 0
  BY <1>7, LenProperties DEF Ends
<1>19. PICK text \in Seq(C) : Quoted(text, F, l)
  <2>1. Session!Quote \in C
    BY DEF Escapable
  <2> QED
    BY <1>8, <2>1, BetweenQuotes
<1>9. /\ text = <<Session!Quote>> \o F \o <<Session!Quote>>
      /\ Len(text) = l + 2 /\ text # << >>
      /\ text[1] = Session!Quote /\ text[l + 2] = Session!Quote
      /\ \A j \in 1 .. l : text[j + 1] = F[j]
  BY <1>19 DEF Quoted
<1>10. PICK f \in [0 .. l + 1 -> Readers(C)] : Unescapes(f, text)
  <2>1. {"\n", "\r"} \subseteq C
    BY DEF Escapable
  <2>2. \E f \in [0 .. Len(text) - 1 -> Readers(C)] : Unescapes(f, text)
    BY <1>9, <2>1, UnescapedIs
  <2>3. Len(text) - 1 = l + 1
    BY <1>9
  <2> QED
    BY <2>2, <2>3
<1>11. /\ f[0] = Opened /\ f[l + 1] = Session!Unescaped(text)
       /\ \A i \in 1 .. l : f[i] = Session!Unescape(f[i - 1], F[i])
       /\ f[l + 1] = Session!Unescape(f[l], Session!Quote)
  <2>1. /\ f[0] = Opened /\ f[l + 1] = Session!Unescaped(text)
        /\ \A i \in 1 .. l + 1 : f[i] = Session!Unescape(f[i - 1], text[i + 1])
    <3>1. Len(text) - 1 = l + 1
      BY <1>9
    <3> QED
      BY <1>10, <3>1 DEF Unescapes
  <2>2. ASSUME NEW i \in 1 .. l
        PROVE  f[i] = Session!Unescape(f[i - 1], F[i])
    <3>1. i \in 1 .. l + 1 /\ text[i + 1] = F[i]
      BY <1>9
    <3> QED
      BY <2>1, <3>1
  <2>3. f[l + 1] = Session!Unescape(f[l], Session!Quote)
    <3>1. PICK k \in 1 .. l + 1 : k = l + 1 /\ k - 1 = l /\ k + 1 = l + 2
      OBVIOUS
    <3> QED
      BY <1>9, <2>1, <3>1
  <2> QED
    BY <2>1, <2>2, <2>3
<1> DEFINE Read(m) == [out |-> SubSeq(s, 1, m), escaped |-> FALSE, open |-> TRUE]
           T == {m \in 0 .. n : f[at[m]] = Read(m)}
<1>12. ASSUME NEW x, NEW c
       PROVE  /\ c \notin special =>
                   Session!Unescape([out |-> x, escaped |-> FALSE, open |-> TRUE], c)
                     = [out |-> Append(x, c), escaped |-> FALSE, open |-> TRUE]
              /\ Session!Unescape([out |-> x, escaped |-> FALSE, open |-> TRUE], Session!Backslash)
                   = [out |-> x, escaped |-> TRUE, open |-> TRUE]
              /\ c \in special =>
                   Session!Unescape([out |-> x, escaped |-> TRUE, open |-> TRUE], c)
                     = [out |-> Append(x, c), escaped |-> FALSE, open |-> TRUE]
              /\ Session!Unescape([out |-> x, escaped |-> FALSE, open |-> TRUE], Session!Quote)
                   = [out |-> x, escaped |-> FALSE, open |-> FALSE]
  BY DEF Session!Unescape, Session!Quote, Session!Backslash
<1>13. SubSeq(s, 1, 0) = << >> /\ SubSeq(s, 1, n) = s
  <2>1. PICK v : v = SubSeq(s, 1, n)
    OBVIOUS
  <2>2. v \in Seq(C) /\ Len(v) = n /\ \A i \in 1 .. n : v[i] = s[i]
    BY <1>1, <2>1
  <2> QED
    BY <1>1, <2>1, <2>2, SeqEqual
<1>14. 0 \in T
  <2>1. f[0] = Read(0)
    BY <1>11, <1>13, Zenon DEF Opened
  <2>2. 0 \in 0 .. n
    OBVIOUS
  <2> HIDE DEF Read
  <2> QED
    BY <1>8, <2>1, <2>2
<1>15. ASSUME NEW m \in 0 .. n - 1, m \in T
       PROVE  m + 1 \in T
  <2>1. PICK i \in 1 .. n : i = m + 1 /\ m = i - 1
    OBVIOUS
  <2>2. PICK a \in Nat : a = at[m] /\ f[a] = Read(m)
    BY <1>15
  <2>3. /\ at[i] = a + Len(blocks[i]) /\ at[i] <= l
        /\ \A k \in 1 .. Len(blocks[i]) : F[a + k] = blocks[i][k]
    BY <1>7, <1>8, <2>1, <2>2 DEF Ends
  <2>4. SubSeq(s, 1, i) = Append(SubSeq(s, 1, m), s[i])
    BY <1>1, <2>1, PrefixGrows
  <2> HIDE DEF special
  <2>5. CASE s[i] \notin special
    <3>1. Len(blocks[i]) = 1 /\ blocks[i][1] = s[i]
      BY <1>4, <2>5
    <3>2. at[i] = a + 1 /\ a + 1 \in 1 .. l /\ F[a + 1] = s[i] /\ a + 1 - 1 = a
      BY <2>3, <3>1
    <3>3. f[a + 1] = Session!Unescape(f[a], s[i])
      BY <1>11, <3>2
    <3>4. f[a + 1] = Read(i)
      BY <1>12, <2>2, <2>4, <2>5, <3>3, Zenon
    <3> QED
      BY <2>1, <3>2, <3>4
  <2>6. CASE s[i] \in special
    <3>1. Len(blocks[i]) = 2 /\ blocks[i][1] = Session!Backslash /\ blocks[i][2] = s[i]
      BY <1>4, <2>6
    <3>2. /\ at[i] = a + 2 /\ a + 1 \in 1 .. l /\ a + 2 \in 1 .. l
          /\ F[a + 1] = Session!Backslash /\ F[a + 2] = s[i] /\ a + 1 - 1 = a /\ a + 2 - 1 = a + 1
      BY <2>3, <3>1, SMTT(30)
    <3>3. f[a + 1] = Session!Unescape(f[a], Session!Backslash)
      BY <1>11, <3>2, SMTT(30)
    <3>4. f[a + 2] = Session!Unescape(f[a + 1], s[i])
      BY <1>11, <3>2
    <3>5. f[a + 1] = [out |-> SubSeq(s, 1, m), escaped |-> TRUE, open |-> TRUE]
      BY <1>12, <2>2, <3>3, Zenon
    <3>6. f[a + 2] = Read(i)
      BY <1>12, <2>4, <2>6, <3>4, <3>5, Zenon
    <3> QED
      BY <2>1, <3>2, <3>6
  <2> QED
    BY <2>5, <2>6
<1> HIDE DEF T
<1>16. \A m \in 0 .. n : m \in T
  BY <1>14, <1>15, Counting
<1>17. f[l] = Read(n)
  <2>1. n \in T
    BY <1>16
  <2> QED
    BY <1>8, <2>1 DEF T
<1>18. Session!Unescaped(text) = [out |-> s, escaped |-> FALSE, open |-> FALSE]
  BY <1>11, <1>12, <1>13, <1>17, Zenon
<1> QED
  BY <1>6, <1>9, <1>18, Zenon

-----------------------------------------------------------------------------
(* The client: numbers with a fraction as text.                             *)

\* The magnitude of a number is a natural number.
LEMMA Magnitudes ==
  ASSUME NEW n \in Int
  PROVE  /\ Session!Magnitude(n) \in Nat /\ Session!Sign(n) = SignOf(n < 0) /\ (n < 0) \in BOOLEAN
         /\ Signed(n < 0, Session!Magnitude(n)) = n
BY DEF Session!Magnitude, Session!Sign, SignOf, Signed

\* The parts of a number in hundredths.
LEMMA Hundreds ==
  ASSUME NEW m \in Nat
  PROVE  /\ m \div 100 \in Nat /\ m % 100 \in 0 .. 99
         /\ m = 100 * (m \div 100) + (m % 100)
         /\ (m % 100) \div 10 \in 0 .. 9 /\ (m % 100) % 10 \in 0 .. 9
         /\ m % 100 = 10 * ((m % 100) \div 10) + ((m % 100) % 10)
<1>1. m \div 100 \in Int /\ m % 100 \in 0 .. 99 /\ m = 100 * (m \div 100) + (m % 100)
  OBVIOUS
<1>2. m \div 100 \in Nat
  BY <1>1
<1>3. PICK p \in 0 .. 99 : p = m % 100
  BY <1>1
<1>4. p \div 10 \in Int /\ p % 10 \in 0 .. 9 /\ p = 10 * (p \div 10) + (p % 10)
  OBVIOUS
<1>5. p \div 10 \in 0 .. 9
  BY <1>4
<1> QED
  BY <1>1, <1>2, <1>3, <1>4, <1>5

\* A sign, digits, a point and digits whose first two are the hundredths.
Hundredth(text, h, whole, fraction) ==
  LET rest == Session!Magnitude(h) % 100
  IN  /\ whole \in Seq(Digit) /\ fraction \in Seq(Digit) /\ fraction # << >>
      /\ text = SignOf(h < 0) \o (whole \o (<<".">> \o fraction))
      /\ Session!NumberOf(whole) = Session!Magnitude(h) \div 100
      /\ fraction[1] = Session!Digits[rest \div 10 + 1]
      /\ (IF Len(fraction) > 1 THEN fraction[2] ELSE "0") = Session!Digits[(rest % 10) + 1]

\* Such a text is read as the number it was made of.
LEMMA HundredthRead ==
  ASSUME NEW h \in Int, NEW text, NEW whole, NEW fraction, Hundredth(text, h, whole, fraction)
  PROVE  Session!NumberRead(text) = <<"Float", h>>
<1>1. PICK m \in Nat : m = Session!Magnitude(h)
  BY Magnitudes
<1>11. PICK w \in Nat, p \in 0 .. 99 : w = m \div 100 /\ p = m % 100
  BY Hundreds
<1>12. PICK a \in 0 .. 9, b \in 0 .. 9 : a = p \div 10 /\ b = p % 10
  BY Hundreds
<1>2. /\ w = m \div 100 /\ p = m % 100 /\ a = p \div 10 /\ b = p % 10
      /\ m = 100 * w + (10 * a + b)
  <2>1. m = 100 * w + p /\ p = 10 * a + b
    BY <1>11, <1>12, Hundreds
  <2>2. m = 100 * w + (10 * a + b)
    BY <2>1
  <2> QED
    BY <1>11, <1>12, <2>2, Zenon
<1>3. PICK d \in Digit, e \in Digit :
        /\ d = Session!Digits[a + 1] /\ Session!DigitOf(d) = a
        /\ e = Session!Digits[b + 1] /\ Session!DigitOf(e) = b
  BY DigitsAre
<1>4. /\ whole \in Seq(Digit) /\ fraction \in Seq(Digit) /\ fraction # << >>
      /\ text = SignOf(h < 0) \o (whole \o (<<".">> \o fraction))
      /\ Session!NumberOf(whole) = w
      /\ d = fraction[1] /\ e = IF Len(fraction) > 1 THEN fraction[2] ELSE "0"
  BY <1>1, <1>2, <1>3 DEF Hundredth
<1>5. PICK negative \in BOOLEAN : negative = (h < 0)
  BY Magnitudes
<1>6. text = SignOf(negative) \o (whole \o (<<".">> \o fraction))
  BY <1>4, <1>5, Zenon
<1>7. Session!NumberRead(text) =
        <<"Float", Signed(negative, 100 * Session!NumberOf(whole)
                                      + (10 * Session!DigitOf(d) + Session!DigitOf(e)))>>
  <2>1. Fraction(text, negative, whole, fraction, d, e)
    BY <1>4, <1>6 DEF Fraction
  <2> QED
    BY <1>4, <2>1, ReadFraction
<1>8. 100 * Session!NumberOf(whole) + (10 * Session!DigitOf(d) + Session!DigitOf(e)) = m
  BY <1>2, <1>3, <1>4
<1>9. Signed(negative, m) = h
  BY <1>1, <1>5, Magnitudes, Zenon
<1> QED
  BY <1>7, <1>8, <1>9, Zenon

\* A sign and a point are parts of a text.
LEMMA TextParts ==
  /\ \A negative \in BOOLEAN : SignOf(negative) \in Seq(NumberChar)
  /\ <<".">> \in Seq(NumberChar)
  /\ Digit \subseteq NumberChar
  /\ \A c \in Digit : <<c>> \in Seq(NumberChar) /\ <<".", c>> = <<".">> \o <<c>>
  /\ \A c, d \in Digit : <<c, d>> \in Seq(Digit) /\ <<c, d>> = <<c>> \o <<d>>
<1>1. PICK minus \in NumberChar, point \in NumberChar : minus = "-" /\ point = "."
  BY DEF NumberChar
<1>2. Digit \subseteq NumberChar
  BY DEF NumberChar
<1> HIDE DEF NumberChar
<1>3. << >> \in Seq(NumberChar) /\ <<minus>> \in Seq(NumberChar) /\ <<point>> \in Seq(NumberChar)
  OBVIOUS
<1>4. \A negative \in BOOLEAN : SignOf(negative) \in Seq(NumberChar)
  BY <1>1, <1>3, Zenon DEF SignOf
<1>5. ASSUME NEW X, NEW c \in X, NEW d \in X
      PROVE  <<c, d>> \in Seq(X) /\ <<c, d>> = <<c>> \o <<d>>
  <2>1. PICK u \in Seq(X), v \in Seq(X), w \in Seq(X) :
          /\ u = <<c>> /\ Len(u) = 1 /\ u[1] = c /\ v = <<d>> /\ Len(v) = 1 /\ v[1] = d
          /\ w = <<c, d>> /\ Len(w) = 2 /\ w[1] = c /\ w[2] = d
    <3>1. PICK u \in Seq(X) : u = <<c>> /\ Len(u) = 1 /\ u[1] = c
      <4>1. <<c>> \in Seq(X) /\ Len(<<c>>) = 1 /\ <<c>>[1] = c
        OBVIOUS
      <4> QED
        BY <4>1, Zenon
    <3>2. PICK v \in Seq(X) : v = <<d>> /\ Len(v) = 1 /\ v[1] = d
      <4>1. <<d>> \in Seq(X) /\ Len(<<d>>) = 1 /\ <<d>>[1] = d
        OBVIOUS
      <4> QED
        BY <4>1, Zenon
    <3>3. PICK w \in Seq(X) : w = <<c, d>> /\ Len(w) = 2 /\ w[1] = c /\ w[2] = d
      <4>1. <<c, d>> \in Seq(X) /\ Len(<<c, d>>) = 2 /\ <<c, d>>[1] = c /\ <<c, d>>[2] = d
        OBVIOUS
      <4> QED
        BY <4>1, Zenon
    <3> QED
      BY <3>1, <3>2, <3>3
  <2>2. PICK x \in Seq(X) : x = u \o v
    BY ConcatProperties
  <2>3. Len(x) = 2 /\ \A i \in 1 .. 2 : x[i] = IF i <= 1 THEN u[i] ELSE v[i - 1]
    <3>1. Len(u) + Len(v) = 2
      BY <2>1
    <3> QED
      BY <2>1, <2>2, <3>1, ConcatProperties
  <2>4. x[1] = c /\ x[2] = d
    BY <2>1, <2>3
  <2>5. \A i \in 1 .. Len(x) : x[i] = w[i]
    BY <2>1, <2>3, <2>4
  <2>6. Len(x) = Len(w)
    BY <2>1, <2>3
  <2>7. x = w
    BY <2>5, <2>6, SeqEqual, Zenon
  <2> QED
    BY <2>1, <2>2, <2>7, Zenon
<1>6. \A c \in Digit : <<c>> \in Seq(NumberChar) /\ <<".", c>> = <<".">> \o <<c>>
  BY <1>1, <1>2, <1>5
<1> QED
  BY <1>1, <1>2, <1>3, <1>4, <1>5, <1>6

\* A text that both sides read as a number.
NumberText(text, v) ==
  /\ text \in Seq(NumberChar) /\ text # << >>
  /\ text[1] = "-" \/ text[1] \in Digit
  /\ \A i \in 2 .. Len(text) : text[i] \in Digit \cup {"."}
  /\ Session!IsNumber(text)
  /\ Session!NumberRead(text) = v

\* Digits with a point at most.
Pointed(digits) ==
  /\ digits \in Seq(Digit \cup {"."}) /\ digits # << >>
  /\ \E i \in 1 .. Len(digits) : digits[i] \in Digit
  /\ \A i, j \in 1 .. Len(digits) : digits[i] = "." /\ digits[j] = "." => i = j

\* A sign and digits with a point at most are the text of a number.
LEMMA SignedText ==
  ASSUME NEW negative \in BOOLEAN, NEW digits, Pointed(digits), negative \/ digits[1] \in Digit,
         NEW text, text = SignOf(negative) \o digits, NEW v, Session!NumberRead(text) = v
  PROVE  NumberText(text, v)
<1>1. PICK C : C = Digit \cup {"."}
  OBVIOUS
<1>2. digits \in Seq(C) /\ digits # << >>
  BY <1>1 DEF Pointed
<1>3. PICK n \in Nat : n = Len(digits) /\ n > 0 /\ \A i \in 1 .. n : digits[i] \in C
  BY <1>2, EmptySeq
<1>4. PICK k \in 1 .. n : digits[k] \in Digit
  BY <1>3 DEF Pointed
<1>5. \A i, j \in 1 .. n : digits[i] = "." /\ digits[j] = "." => i = j
  BY <1>3 DEF Pointed
<1>6. \A c \in C : c \in NumberChar /\ c # "-"
  BY <1>1, DigitsAre DEF NumberChar
<1>7. \A c \in Digit : Session!IsDigit(c)
  BY DigitsAre
<1>8. CASE ~negative
  <2>1. text = digits
    BY <1>2, <1>8 DEF SignOf
  <2>2. text \in Seq(NumberChar) /\ text[1] \in Digit
    BY <1>2, <1>6, <1>8, <2>1
  <2>3. \A i \in 2 .. Len(text) : text[i] \in C
    BY <1>3, <2>1
  <2>4. DOMAIN text = 1 .. n
    BY <1>2, <1>3, <2>1, LenProperties
  <2>5. Session!IsNumber(text)
    BY <1>4, <1>5, <1>7, <2>1, <2>4 DEF Session!IsNumber
  <2> QED
    BY <1>1, <1>2, <2>1, <2>2, <2>3, <2>5 DEF NumberText
<1>9. CASE negative
  <2>1. PICK sign \in Seq(NumberChar) : sign = <<"-">> /\ Len(sign) = 1 /\ sign[1] = "-"
    <3>1. PICK minus \in NumberChar : minus = "-"
      BY DEF NumberChar
    <3>2. <<minus>> \in Seq(NumberChar) /\ Len(<<minus>>) = 1 /\ <<minus>>[1] = minus
      OBVIOUS
    <3> QED
      BY <3>1, <3>2, Zenon
  <2>2. digits \in Seq(NumberChar)
    BY <1>2, <1>6
  <2>3. text = sign \o digits
    BY <1>9, <2>1 DEF SignOf
  <2>4. /\ text \in Seq(NumberChar) /\ Len(text) = 1 + n
        /\ \A i \in 1 .. 1 + n : text[i] = IF i <= 1 THEN sign[i] ELSE digits[i - 1]
    BY <1>3, <2>1, <2>2, <2>3, ConcatProperties
  <2>5. text[1] = "-"
    BY <2>1, <2>4
  <2>6. ASSUME NEW i \in 2 .. 1 + n
        PROVE  i - 1 \in 1 .. n /\ text[i] = digits[i - 1]
    <3>1. i \in 1 .. 1 + n /\ ~(i <= 1) /\ i - 1 \in 1 .. n
      OBVIOUS
    <3> QED
      BY <2>4, <3>1
  <2>7. \A i \in 2 .. Len(text) : text[i] \in C
    BY <1>3, <2>4, <2>6
  <2>8. DOMAIN text = 1 .. 1 + n
    BY <2>4, LenProperties
  <2>9. \E i \in DOMAIN text : Session!IsDigit(text[i])
    <3>1. PICK i \in 2 .. 1 + n : i - 1 = k
      <4>1. k + 1 \in 2 .. 1 + n /\ k + 1 - 1 = k
        OBVIOUS
      <4> QED
        BY <4>1
    <3>2. text[i] = digits[k]
      BY <2>6, <3>1
    <3>3. Session!IsDigit(text[i]) /\ i \in 1 .. 1 + n
      BY <1>4, <1>7, <3>2
    <3> QED
      BY <2>8, <3>3
  <2>10. ASSUME NEW i \in 1 .. 1 + n, NEW j \in 1 .. 1 + n, text[i] = ".", text[j] = "."
         PROVE  i = j
    <3>1. "-" # "."
      OBVIOUS
    <3>5. i # 1 /\ j # 1
      BY <2>5, <2>10, <3>1, Zenon
    <3>2. i \in 2 .. 1 + n /\ j \in 2 .. 1 + n
      BY <3>5
    <3>3. digits[i - 1] = "." /\ digits[j - 1] = "." /\ i - 1 \in 1 .. n /\ j - 1 \in 1 .. n
      BY <2>6, <2>10, <3>2
    <3>4. i - 1 = j - 1
      BY <1>5, <3>3
    <3> QED
      BY <3>4
  <2>11. Session!IsNumber(text)
    BY <2>8, <2>9, <2>10 DEF Session!IsNumber
  <2>12. text # << >>
    BY <1>3, <2>4
  <2> QED
    BY <1>1, <2>4, <2>5, <2>7, <2>11, <2>12 DEF NumberText
<1> QED
  BY <1>8, <1>9

\* The digits of a fraction.
LEMMA FractionPointed ==
  ASSUME NEW whole \in Seq(Digit), NEW fraction \in Seq(Digit), fraction # << >>,
         NEW digits, digits = whole \o (<<".">> \o fraction)
  PROVE  Pointed(digits) /\ (whole # << >> => digits[1] \in Digit)
<1>1. PICK C : C = Digit \cup {"."}
  OBVIOUS
<1>2. PICK a \in Nat, b \in Nat : a = Len(whole) /\ b = Len(fraction) /\ b > 0
  BY EmptySeq, LenProperties
<1>3. PICK point \in Seq(C) : point = <<".">> /\ Len(point) = 1 /\ point[1] = "."
  <2>1. PICK c \in C : c = "."
    BY <1>1
  <2>2. <<c>> \in Seq(C) /\ Len(<<c>>) = 1 /\ <<c>>[1] = c
    OBVIOUS
  <2> QED
    BY <2>1, <2>2, Zenon
<1>4. whole \in Seq(C) /\ fraction \in Seq(C)
  BY <1>1
<1>5. PICK tail \in Seq(C) :
        /\ tail = point \o fraction /\ Len(tail) = 1 + b
        /\ \A i \in 1 .. 1 + b : tail[i] = IF i <= 1 THEN point[i] ELSE fraction[i - 1]
  <2>1. PICK tail \in Seq(C) : tail = point \o fraction
    BY <1>4, ConcatProperties
  <2>2. /\ Len(tail) = Len(point) + Len(fraction)
        /\ \A i \in 1 .. Len(point) + Len(fraction) :
             tail[i] = IF i <= Len(point) THEN point[i] ELSE fraction[i - Len(point)]
    BY <1>4, <2>1, ConcatProperties
  <2> QED
    BY <1>2, <1>3, <2>1, <2>2, Zenon
<1>6. /\ digits \in Seq(C) /\ Len(digits) = a + (1 + b)
      /\ \A i \in 1 .. a + (1 + b) : digits[i] = IF i <= a THEN whole[i] ELSE tail[i - a]
  <2>1. digits = whole \o tail
    BY <1>3, <1>5
  <2>2. /\ digits \in Seq(C) /\ Len(digits) = Len(whole) + Len(tail)
        /\ \A i \in 1 .. Len(whole) + Len(tail) :
             digits[i] = IF i <= Len(whole) THEN whole[i] ELSE tail[i - Len(whole)]
    BY <1>4, <2>1, ConcatProperties, ZenonT(30)
  <2> QED
    BY <1>2, <1>5, <2>2, Zenon
<1>7. ASSUME NEW i \in 1 .. a + (1 + b)
      PROVE  (i = a + 1 => digits[i] = ".") /\ (i # a + 1 => digits[i] \in Digit)
  <2>1. CASE i <= a
    <3>1. i \in 1 .. Len(whole) /\ digits[i] = whole[i]
      BY <1>2, <1>6, <2>1
    <3>2. whole[i] \in Digit
      BY <3>1, ElementOfSeq
    <3> QED
      BY <2>1, <3>1, <3>2
  <2>2. CASE i = a + 1
    <3>1. ~(i <= a) /\ i - a = 1 /\ 1 \in 1 .. 1 + b
      BY <2>2
    <3>3. digits[i] = tail[i - a]
      BY <1>6, <3>1
    <3>4. tail[1] = point[1]
      BY <1>5, <3>1
    <3>2. digits[i] = tail[1] /\ tail[1] = point[1]
      BY <3>1, <3>3, <3>4
    <3> QED
      BY <1>3, <2>2, <3>2
  <2>3. CASE i > a + 1
    <3>1. PICK k \in 1 .. 1 + b : k = i - a /\ ~(k <= 1) /\ ~(i <= a) /\ k - 1 \in 1 .. b
      <4>1. i - a \in 1 .. 1 + b /\ ~(i - a <= 1) /\ ~(i <= a) /\ i - a - 1 \in 1 .. b
        BY <2>3
      <4> QED
        BY <4>1
    <3>2. digits[i] = fraction[k - 1]
      BY <1>5, <1>6, <3>1
    <3>3. fraction[k - 1] \in Digit
      BY <1>2, <3>1, ElementOfSeq
    <3>4. digits[i] \in Digit
      BY <3>2, <3>3, Zenon
    <3>5. i # a + 1
      BY <2>3
    <3> QED
      BY <3>4, <3>5
  <2>4. i <= a \/ i = a + 1 \/ i > a + 1
    OBVIOUS
  <2> QED
    BY <2>1, <2>2, <2>3, <2>4, Zenon
<1>8. \E i \in 1 .. Len(digits) : digits[i] \in Digit
  <2>1. PICK i \in 1 .. a + (1 + b) : i = a + 2
    BY <1>2
  <2>2. i # a + 1
    BY <2>1
  <2> QED
    BY <1>6, <1>7, <2>2
<1>9. \A i, j \in 1 .. Len(digits) : digits[i] = "." /\ digits[j] = "." => i = j
  <2>1. "." \notin Digit
    BY DigitsAre
  <2>2. \A i \in 1 .. a + (1 + b) : digits[i] = "." => i = a + 1
    BY <1>7, <2>1
  <2> QED
    BY <1>6, <2>2
<1>10. whole # << >> => digits[1] \in Digit
  <2>1. SUFFICES ASSUME whole # << >>
                 PROVE  digits[1] \in Digit
    OBVIOUS
  <2>2. 1 \in 1 .. a + (1 + b) /\ 1 # a + 1
    BY <1>2, <2>1, EmptySeq
  <2> QED
    BY <1>7, <2>2
<1>11. digits # << >>
  BY <1>6, EmptySeq
<1> QED
  BY <1>1, <1>6, <1>8, <1>9, <1>10, <1>11 DEF Pointed

\* A number in hundredths, as its text.
LEMMA HundredthText ==
  ASSUME NEW h \in Int, NEW text, NEW whole, NEW fraction, Hundredth(text, h, whole, fraction),
         whole # << >> \/ h < 0
  PROVE  NumberText(text, <<"Float", h>>)
<1>1. PICK negative \in BOOLEAN : negative = (h < 0)
  BY Magnitudes
<1>2. PICK digits : digits = whole \o (<<".">> \o fraction)
  OBVIOUS
<1>3. text = SignOf(negative) \o digits
  BY <1>1, <1>2, Zenon DEF Hundredth
<1>4. Pointed(digits) /\ (whole # << >> => digits[1] \in Digit)
  BY <1>2, FractionPointed DEF Hundredth
<1>5. Session!NumberRead(text) = <<"Float", h>>
  BY HundredthRead
<1>6. negative \/ digits[1] \in Digit
  BY <1>1, <1>4, Zenon
<1> QED
  BY <1>3, <1>4, <1>5, <1>6, SignedText

\* An integer, as its text.
LEMMA IntegerText ==
  ASSUME NEW n \in Int
  PROVE  NumberText(Session!Sign(n) \o Session!Decimal[Session!Magnitude(n)], <<"Integer", n>>)
<1>1. PICK m \in Nat : m = Session!Magnitude(n)
  BY Magnitudes
<1>2. PICK digits \in Seq(Digit) :
        digits = Session!Decimal[m] /\ digits # << >> /\ Session!NumberOf(digits) = m
  BY DecimalRead
<1>3. PICK negative \in BOOLEAN : negative = (n < 0)
  BY Magnitudes
<1>4. PICK text : text = SignOf(negative) \o digits
  OBVIOUS
<1>5. text = Session!Sign(n) \o Session!Decimal[Session!Magnitude(n)]
  BY <1>1, <1>2, <1>3, <1>4, Magnitudes, Zenon
<1>6. Session!NumberRead(text) = <<"Integer", Signed(negative, Session!NumberOf(digits))>>
  BY <1>2, <1>4, IntegerRead
<1>7. Session!NumberRead(text) = <<"Integer", n>>
  BY <1>1, <1>2, <1>3, <1>6, Magnitudes, Zenon
<1>8. \A i \in 1 .. Len(digits) : digits[i] \in Digit /\ digits[i] # "."
  <2>1. "." \notin Digit
    BY DigitsAre
  <2> QED
    BY <2>1, ElementOfSeq
<1>9. 1 \in 1 .. Len(digits)
  BY <1>2, EmptySeq
<1>10. Pointed(digits)
  <2>1. digits \in Seq(Digit \cup {"."})
    OBVIOUS
  <2> QED
    BY <1>2, <1>8, <1>9, <2>1 DEF Pointed
<1> QED
  BY <1>4, <1>5, <1>7, <1>8, <1>9, <1>10, SignedText

-----------------------------------------------------------------------------
(* What the client sends is read as what was meant.                         *)

\* The characters of what the client sends.
SentChar ==
  NumberChar \cup Escapable \cup Letters \cup {"t", "r", "u", "e", "f", "a", "l", "s", "n", "[", "]", " "}

\* Four texts that are put together from the left or from the right.
Regroups(a, b, c, d) == a \o b \o c \o d = a \o (b \o (c \o d))

\* Both are the same.
LEMMA Regrouped == \A C : \A a, b, c, d \in Seq(C) : Regroups(a, b, c, d)
<1> SUFFICES ASSUME NEW C, NEW a \in Seq(C), NEW b \in Seq(C), NEW c \in Seq(C), NEW d \in Seq(C)
             PROVE  Regroups(a, b, c, d)
  OBVIOUS
<1>1. PICK ab \in Seq(C) : ab = a \o b
  BY ConcatProperties
<1>2. PICK cd \in Seq(C) : cd = c \o d
  BY ConcatProperties
<1>3. (ab \o c) \o d = ab \o cd
  BY <1>2, ConcatAssociative, SMTT(30)
<1>4. ab \o cd = a \o (b \o cd)
  BY <1>1, ConcatAssociative, SMTT(30)
<1> QED
  BY <1>1, <1>2, <1>3, <1>4, Zenon DEF Regroups

\* The two parts of a pair.
LEMMA Pair == \A a, b : <<a, b>>[1] = a /\ <<a, b>>[2] = b
OBVIOUS

\* The tag and the value of a tagged value.
LEMMA Tagged ==
  /\ \A n : <<"Integer", n>>[1] = "Integer" /\ <<"Integer", n>>[2] = n
  /\ \A n : <<"Float", n>>[1] = "Float" /\ <<"Float", n>>[2] = n
  /\ \A n : <<"Boolean", n>>[1] = "Boolean" /\ <<"Boolean", n>>[2] = n
  /\ \A n : <<"String", n>>[1] = "String" /\ <<"String", n>>[2] = n
  /\ \A n : <<"ByteArray", n>>[1] = "ByteArray" /\ <<"ByteArray", n>>[2] = n
  /\ Session!Null[1] = "Null" /\ Session!List[1] = "List" /\ Session!NoValue[1] = "none"
BY Pair, Zenon DEF Session!Null, Session!List, Session!NoValue

\* Each value is formatted by its own rule.
LEMMA FormattedBy ==
  ASSUME NEW v, v # Session!Null, v # Session!List
  PROVE  /\ v[1] = "Integer" =>
              Session!FormatValue(v) = Session!Sign(v[2]) \o Session!Decimal[Session!Magnitude(v[2])]
         /\ v[1] = "Float" => Session!FormatValue(v) = Session!FormatFloat(v[2])
         /\ v[1] = "String" =>
              Session!FormatValue(v) = <<Session!Quote>> \o Session!FormatString(v[2]) \o <<Session!Quote>>
         /\ v[1] = "Boolean" =>
              Session!FormatValue(v) = IF v[2] THEN <<"t", "r", "u", "e">> ELSE <<"f", "a", "l", "s", "e">>
<1>1. v[1] = "Integer" => Session!FormatValue(v) = Session!Sign(v[2]) \o Session!Decimal[Session!Magnitude(v[2])]
  BY DEF Session!FormatValue
<1>2. v[1] = "Float" => Session!FormatValue(v) = Session!FormatFloat(v[2])
  BY DEF Session!FormatValue
<1>3. v[1] = "String" =>
        Session!FormatValue(v) = <<Session!Quote>> \o Session!FormatString(v[2]) \o <<Session!Quote>>
  BY DEF Session!FormatValue
<1>4. v[1] = "Boolean" =>
        Session!FormatValue(v) = IF v[2] THEN <<"t", "r", "u", "e">> ELSE <<"f", "a", "l", "s", "e">>
  BY DEF Session!FormatValue
<1> QED
  BY <1>1, <1>2, <1>3, <1>4

\* What the server may read a text as: the value, none, or any for one that is
\* too wide.
ReadAs(text, v) ==
  \A w \in Session!Parse(text) :
    \/ w = Session!NoValue
    \/ w = v /\ ~Session!Overflows(v)
    \/ Session!Overflows(v) /\ w \in Session!ValuesOf(v[1])

\* A text that is sent: it does not begin with a line break.
SentAs(text, v) ==
  /\ text \in Seq(SentChar) /\ text # << >> /\ text[1] \notin Session!Breaks
  /\ ReadAs(text, v)

\* The text of a number is read as the number, or overflows.
LEMMA NumberSent ==
  ASSUME NEW text, NEW v, v[1] \in {"Integer", "Float"}, NumberText(text, v)
  PROVE  SentAs(text, v)
<1>1. /\ text \in Seq(NumberChar) /\ text # << >> /\ (text[1] = "-" \/ text[1] \in Digit)
      /\ Session!NumberRead(text) = v
  BY DEF NumberText
<1>2. text \in Seq(SentChar)
  <2>1. NumberChar \subseteq SentChar
    BY DEF SentChar
  <2> HIDE DEF NumberChar, SentChar
  <2> QED
    BY <1>1, <2>1
<1>3. /\ text[1] # Session!Quote /\ text[1] \notin Session!Breaks
      /\ (Session!IsDigit(text[1]) \/ text[1] = "-")
  BY <1>1, DigitsAre DEF Session!Quote, Session!Breaks
<1>4. Head(text) = text[1]
  BY <1>1
<1>8. text[1] \notin {"t", "f", "n"}
  <2>1. {"t", "f", "n"} \subseteq Session!AsciiLetters
    BY DEF Session!AsciiLetters
  <2>2. text[1] \in Digit => text[1] \notin Session!AsciiLetters
    BY DigitsAre
  <2> QED
    BY <1>1, <2>1, <2>2
<1>5. Session!Parse(text) = Session!ParseNumber(text)
  <2>1. PICK c : c = Head(text)
    OBVIOUS
  <2>2. (Session!IsDigit(c) \/ c = "-") /\ c # Session!Quote /\ c \notin {"t", "f"} /\ c # "n"
    BY <1>3, <1>4, <1>8, <2>1
  <2> QED
    BY <2>1, <2>2 DEF Session!Parse
<1>6. Session!ParseNumber(text) = IF Session!Whole(v) > IntMax THEN Session!ValuesOf(v[1]) ELSE {v}
  BY <1>1 DEF Session!ParseNumber
<1>7. ReadAs(text, v)
  BY <1>5, <1>6, Zenon DEF ReadAs, Session!Overflows
<1> QED
  BY <1>1, <1>2, <1>3, <1>7 DEF SentAs

\* A string is read as it was, with every quote, backslash and line break.
LEMMA StringSent ==
  ASSUME NEW s \in Seq(Letters)
  PROVE  SentAs(Session!FormatValue(<<"String", s>>), <<"String", s>>)
<1>20. PICK v : v = <<"String", s>>
  OBVIOUS
<1>1. v = <<"String", s>> /\ v[1] = "String" /\ v[2] = s
  <2>1. <<"String", s>>[1] = "String" /\ <<"String", s>>[2] = s
    BY Tagged
  <2> QED
    BY <1>20, <2>1, Zenon
<1>0. v # Session!Null /\ v # Session!List
  BY <1>1, Tagged
<1>2. PICK text : text = <<Session!Quote>> \o Session!FormatString(s) \o <<Session!Quote>>
  OBVIOUS
<1>3. Session!FormatValue(v) = text
  BY <1>0, <1>1, <1>2, FormattedBy, Zenon
<1>4. Escapable \subseteq SentChar /\ s \in Seq(SentChar)
  <2>1. Escapable \subseteq SentChar /\ Letters \subseteq SentChar
    BY DEF SentChar
  <2> QED
    BY <2>1, SeqMonotonic
<1> HIDE DEF SentChar
<1>5. /\ text \in Seq(SentChar) /\ text # << >> /\ text[1] = Session!Quote
      /\ Session!Unescaped(text) = [out |-> s, escaped |-> FALSE, open |-> FALSE]
  BY <1>2, <1>4, StringRead
<1>6. Head(text) = Session!Quote
  BY <1>5
<1>7. Session!Parse(text) = Session!ParseString(text)
  <2>1. PICK c : c = Head(text)
    OBVIOUS
  <2>2. c = Session!Quote /\ ~Session!IsDigit(c) /\ c # "-" /\ c \notin {"t", "f"} /\ c # "n"
    BY <1>6, <2>1, DigitsAre DEF Session!Quote
  <2> QED
    BY <2>1, <2>2 DEF Session!Parse
<1>8. Session!ParseString(text) = {<<"String", s>>}
  BY <1>5 DEF Session!ParseString
<1>9. ReadAs(text, v)
  <2>1. ~Session!Overflows(v)
    BY <1>1 DEF Session!Overflows
  <2> QED
    BY <1>1, <1>7, <1>8, <2>1 DEF ReadAs
<1>10. text[1] \notin Session!Breaks
  BY <1>5 DEF Session!Breaks, Session!Quote
<1> QED
  BY <1>1, <1>3, <1>5, <1>9, <1>10, Zenon DEF SentAs

\* An integer is read as it was, or overflows.
LEMMA IntegerSent ==
  ASSUME NEW n \in Int
  PROVE  SentAs(Session!FormatValue(<<"Integer", n>>), <<"Integer", n>>)
<1>20. PICK v : v = <<"Integer", n>>
  OBVIOUS
<1>1. v = <<"Integer", n>> /\ v[1] = "Integer" /\ v[2] = n
  <2>1. <<"Integer", n>>[1] = "Integer" /\ <<"Integer", n>>[2] = n
    BY Tagged
  <2> QED
    BY <1>20, <2>1, Zenon
<1>0. v # Session!Null /\ v # Session!List
  BY <1>1, Tagged
<1>2. Session!FormatValue(v) = Session!Sign(n) \o Session!Decimal[Session!Magnitude(n)]
  BY <1>0, <1>1, FormattedBy, Zenon
<1>3. PICK text : text = Session!FormatValue(v)
  OBVIOUS
<1>4. NumberText(text, v)
  BY <1>1, <1>2, <1>3, IntegerText, Zenon
<1>5. v[1] \in {"Integer", "Float"}
  BY <1>1
<1>6. SentAs(text, v)
  BY <1>4, <1>5, NumberSent
<1> QED
  BY <1>1, <1>3, <1>6, Zenon

\* A fraction is read as it was, or its integer overflows.
LEMMA FloatSent ==
  ASSUME NEW h \in Int
  PROVE  SentAs(Session!FormatValue(<<"Float", h>>), <<"Float", h>>)
<1>20. PICK v : v = <<"Float", h>>
  OBVIOUS
<1>1. v = <<"Float", h>> /\ v[1] = "Float" /\ v[2] = h
  <2>1. <<"Float", h>>[1] = "Float" /\ <<"Float", h>>[2] = h
    BY Tagged
  <2> QED
    BY <1>20, <2>1, Zenon
<1>0. v # Session!Null /\ v # Session!List
  BY <1>1, Tagged
<1>2. Session!FormatValue(v) = Session!FormatFloat(h)
  BY <1>0, <1>1, FormattedBy, Zenon
<1>3. PICK m \in Nat : m = Session!Magnitude(h)
  BY Magnitudes
<1>4. PICK w \in Nat, p \in 0 .. 99, a \in 0 .. 9, b \in 0 .. 9 :
        w = m \div 100 /\ p = m % 100 /\ a = p \div 10 /\ b = p % 10
  <2>1. PICK w \in Nat, p \in 0 .. 99 : w = m \div 100 /\ p = m % 100
    BY Hundreds
  <2>2. PICK a \in 0 .. 9, b \in 0 .. 9 : a = p \div 10 /\ b = p % 10
    BY <2>1, Hundreds
  <2> QED
    BY <2>1, <2>2
<1>5. PICK whole \in Seq(Digit) :
        whole = Session!Decimal[w] /\ whole # << >> /\ Session!NumberOf(whole) = w
  BY DecimalRead
<1>6. PICK d \in Digit, e \in Digit : d = Session!Digits[a + 1] /\ e = Session!Digits[b + 1]
  BY DigitsAre
<1>7. PICK negative \in BOOLEAN : negative = (h < 0) /\ Session!Sign(h) = SignOf(negative)
  BY Magnitudes, Zenon
<1>8. PICK rest \in Seq(Digit) : rest = IF b = 0 THEN << >> ELSE <<e>>
  <2>1. << >> \in Seq(Digit) /\ <<e>> \in Seq(Digit)
    OBVIOUS
  <2> QED
    BY <2>1, Zenon
<1>9. Session!FormatFloat(h) = SignOf(negative) \o whole \o <<".", d>> \o rest
  BY <1>3, <1>4, <1>5, <1>6, <1>7, <1>8, ZenonT(30) DEF Session!FormatFloat
<1>10. PICK fraction \in Seq(Digit) : fraction = <<d>> \o rest
  <2>1. <<d>> \in Seq(Digit)
    OBVIOUS
  <2> QED
    BY <2>1, ConcatProperties
<1>11. fraction # << >> /\ fraction[1] = d /\ (IF Len(fraction) > 1 THEN fraction[2] ELSE "0") = e
  <2>1. CASE b = 0
    <3>1. fraction = <<d>>
      BY <1>8, <1>10, <2>1
    <3>2. e = "0"
      <4>1. Session!Digits[1] = "0"
        BY DigitsAre
      <4>2. b + 1 = 1
        BY <2>1
      <4> QED
        BY <1>6, <4>1, <4>2
    <3>3. Len(<<d>>) = 1 /\ <<d>>[1] = d /\ <<d>> # << >>
      OBVIOUS
    <3> QED
      BY <3>1, <3>2, <3>3
  <2>2. CASE b # 0
    <3>1. fraction = <<d, e>>
      BY <1>8, <1>10, <2>2, TextParts
    <3>2. Len(<<d, e>>) = 2 /\ <<d, e>>[1] = d /\ <<d, e>>[2] = e /\ <<d, e>> # << >>
      OBVIOUS
    <3> QED
      BY <3>1, <3>2
  <2> QED
    BY <2>1, <2>2
<1>12. PICK text : text = SignOf(negative) \o (whole \o (<<".">> \o fraction))
  OBVIOUS
<1>13. Session!FormatFloat(h) = text
  <2>1. PICK s \in Seq(NumberChar), pd \in Seq(NumberChar), pt \in Seq(NumberChar), dd \in Seq(NumberChar) :
          s = SignOf(negative) /\ pd = <<".", d>> /\ pt = <<".">> /\ dd = <<d>> /\ pd = pt \o dd
    <3>1. <<".", d>> = <<".">> \o <<d>> /\ <<".">> \in Seq(NumberChar) /\ <<d>> \in Seq(NumberChar)
      BY TextParts
    <3>2. SignOf(negative) \in Seq(NumberChar)
      BY TextParts
    <3>3. <<".", d>> \in Seq(NumberChar)
      BY <3>1, ConcatProperties
    <3> QED
      BY <3>1, <3>2, <3>3
  <2>2. whole \in Seq(NumberChar) /\ rest \in Seq(NumberChar)
    BY TextParts, SeqMonotonic
  <2>3. s \o whole \o pd \o rest = s \o (whole \o (pd \o rest))
    <3> HIDE DEF NumberChar
    <3>1. s \in Seq(NumberChar) /\ pd \in Seq(NumberChar)
      BY <2>1
    <3>2. Regroups(s, whole, pd, rest)
      BY <2>2, <3>1, Regrouped, Zenon
    <3> QED
      BY <3>2 DEF Regroups
  <2>4. pd \o rest = pt \o (dd \o rest)
    <3> HIDE DEF NumberChar
    <3>1. pt \in Seq(NumberChar) /\ dd \in Seq(NumberChar)
      BY <2>1
    <3>2. (pt \o dd) \o rest = pt \o (dd \o rest)
      BY <2>2, <3>1, ConcatAssociative, SMTT(30)
    <3> QED
      BY <2>1, <3>2, Zenon
  <2> QED
    BY <1>9, <1>10, <1>12, <2>1, <2>3, <2>4, Zenon
<1>14. Hundredth(text, h, whole, fraction)
  <2>1. Session!NumberOf(whole) = Session!Magnitude(h) \div 100
    BY <1>3, <1>4, <1>5
  <2>2. fraction[1] = Session!Digits[(Session!Magnitude(h) % 100) \div 10 + 1]
    BY <1>3, <1>4, <1>6, <1>11
  <2>3. (IF Len(fraction) > 1 THEN fraction[2] ELSE "0") = Session!Digits[((Session!Magnitude(h) % 100) % 10) + 1]
    BY <1>3, <1>4, <1>6, <1>11
  <2>4. text = SignOf(h < 0) \o (whole \o (<<".">> \o fraction))
    BY <1>7, <1>12, Zenon
  <2>5. whole \in Seq(Digit) /\ fraction \in Seq(Digit) /\ fraction # << >>
    BY <1>11
  <2> QED
    BY <2>1, <2>2, <2>3, <2>4, <2>5 DEF Hundredth
<1>15. NumberText(text, v)
  BY <1>1, <1>5, <1>14, HundredthText
<1>16. v[1] \in {"Integer", "Float"}
  BY <1>1
<1>17. SentAs(text, v)
  BY <1>15, <1>16, NumberSent
<1> QED
  BY <1>1, <1>2, <1>13, <1>17, Zenon

\* Truth values and null are read as what they were, and a list as none.
LEMMA WordsSent ==
  /\ \A b \in BOOLEAN : SentAs(Session!FormatValue(<<"Boolean", b>>), <<"Boolean", b>>)
  /\ SentAs(Session!FormatValue(Session!Null), Session!Null)
  /\ SentAs(Session!FormatValue(Session!List), Session!List)
<1>1. "t" \notin Digit /\ "f" \notin Digit /\ "n" \notin Digit /\ "[" \notin Digit
  <2>1. {"t", "f", "n"} \subseteq Session!AsciiLetters
    BY DEF Session!AsciiLetters
  <2> QED
    BY <2>1, DigitsAre
<1>2. \A c : Session!IsDigit(c) <=> c \in Digit
  BY DigitsAre
<1>3. PICK t \in SentChar, r \in SentChar, u \in SentChar, e \in SentChar, f \in SentChar,
           a \in SentChar, l \in SentChar, s \in SentChar, n \in SentChar, o \in SentChar,
           c \in SentChar, x \in SentChar :
        /\ t = "t" /\ r = "r" /\ u = "u" /\ e = "e" /\ f = "f" /\ a = "a" /\ l = "l" /\ s = "s"
        /\ n = "n" /\ o = "[" /\ c = "]" /\ x = " "
  BY DEF SentChar
<1> HIDE DEF SentChar
<1>4. /\ <<t, r, u, e>> \in Seq(SentChar) /\ <<f, a, l, s, e>> \in Seq(SentChar)
      /\ <<n, u, l, l>> \in Seq(SentChar) /\ <<o, x, x, c>> \in Seq(SentChar)
      /\ <<t, r, u, e>> # << >> /\ <<f, a, l, s, e>> # << >>
      /\ <<n, u, l, l>> # << >> /\ <<o, x, x, c>> # << >>
      /\ <<t, r, u, e>>[1] = t /\ <<f, a, l, s, e>>[1] = f
      /\ <<n, u, l, l>>[1] = n /\ <<o, x, x, c>>[1] = o
  OBVIOUS
<1>5. /\ <<"t", "r", "u", "e">> \in Seq(SentChar) /\ <<"f", "a", "l", "s", "e">> \in Seq(SentChar)
      /\ <<"n", "u", "l", "l">> \in Seq(SentChar) /\ <<"[", " ", " ", "]">> \in Seq(SentChar)
      /\ <<"t", "r", "u", "e">> # << >> /\ <<"f", "a", "l", "s", "e">> # << >>
      /\ <<"n", "u", "l", "l">> # << >> /\ <<"[", " ", " ", "]">> # << >>
      /\ <<"t", "r", "u", "e">>[1] = "t" /\ <<"f", "a", "l", "s", "e">>[1] = "f"
      /\ <<"n", "u", "l", "l">>[1] = "n" /\ <<"[", " ", " ", "]">>[1] = "["
  BY <1>3, <1>4, Zenon
<1>6. SentAs(Session!FormatValue(<<"Boolean", TRUE>>), <<"Boolean", TRUE>>)
  <2>1. PICK text : text = <<"t", "r", "u", "e">>
    OBVIOUS
  <2>2. text \in Seq(SentChar) /\ text # << >> /\ text[1] = "t"
    BY <1>5, <2>1, Zenon
  <2>3. PICK h : h = Head(text)
    OBVIOUS
  <2>4. h = "t"
    BY <2>2, <2>3
  <2>5. Session!FormatValue(<<"Boolean", TRUE>>) = text
    <3>1. PICK v : v = <<"Boolean", TRUE>>
      OBVIOUS
    <3>2. v[1] = "Boolean" /\ v[2] = TRUE
      BY <3>1
    <3>3. v # Session!Null /\ v # Session!List
      BY <3>2, Tagged
    <3>4. Session!FormatValue(v) = IF v[2] THEN <<"t", "r", "u", "e">> ELSE <<"f", "a", "l", "s", "e">>
      BY <3>2, <3>3, FormattedBy
    <3> QED
      BY <2>1, <3>1, <3>2, <3>4, Zenon
  <2>6. Session!Parse(text) = {<<"Boolean", TRUE>>}
    <3>1. h # Session!Quote /\ h # "-" /\ ~Session!IsDigit(h)
      BY <1>1, <1>2, <2>4 DEF Session!Quote
    <3> QED
      BY <2>3, <2>4, <3>1 DEF Session!Parse
  <2>7. text[1] \notin Session!Breaks
    BY <2>2 DEF Session!Breaks
  <2>8. ReadAs(text, <<"Boolean", TRUE>>)
    <3>1. PICK v : v = <<"Boolean", TRUE>>
      OBVIOUS
    <3>2. v[1] \notin {"Integer", "Float"}
      BY <3>1, Tagged
    <3>3. ~Session!Overflows(v)
      BY <3>2 DEF Session!Overflows
    <3>4. \A w \in Session!Parse(text) : w = v
      BY <2>6, <3>1, Zenon
    <3> QED
      BY <3>1, <3>3, <3>4, Zenon DEF ReadAs
  <2> QED
    BY <2>2, <2>5, <2>7, <2>8, Zenon DEF SentAs
<1>7. SentAs(Session!FormatValue(<<"Boolean", FALSE>>), <<"Boolean", FALSE>>)
  <2>1. PICK text : text = <<"f", "a", "l", "s", "e">>
    OBVIOUS
  <2>2. text \in Seq(SentChar) /\ text # << >> /\ text[1] = "f"
    BY <1>5, <2>1, Zenon
  <2>3. PICK h : h = Head(text)
    OBVIOUS
  <2>4. h = "f"
    BY <2>2, <2>3
  <2>5. Session!FormatValue(<<"Boolean", FALSE>>) = text
    <3>1. PICK v : v = <<"Boolean", FALSE>>
      OBVIOUS
    <3>2. v[1] = "Boolean" /\ v[2] = FALSE
      BY <3>1
    <3>3. v # Session!Null /\ v # Session!List
      BY <3>2, Tagged
    <3>4. Session!FormatValue(v) = IF v[2] THEN <<"t", "r", "u", "e">> ELSE <<"f", "a", "l", "s", "e">>
      BY <3>2, <3>3, FormattedBy
    <3> QED
      BY <2>1, <3>1, <3>2, <3>4, Zenon
  <2>6. Session!Parse(text) = {<<"Boolean", FALSE>>}
    <3>1. h # Session!Quote /\ h # "-" /\ ~Session!IsDigit(h)
      BY <1>1, <1>2, <2>4 DEF Session!Quote
    <3> QED
      BY <2>3, <2>4, <3>1 DEF Session!Parse
  <2>7. text[1] \notin Session!Breaks
    BY <2>2 DEF Session!Breaks
  <2>8. ReadAs(text, <<"Boolean", FALSE>>)
    <3>1. PICK v : v = <<"Boolean", FALSE>>
      OBVIOUS
    <3>2. v[1] \notin {"Integer", "Float"}
      BY <3>1, Tagged
    <3>3. ~Session!Overflows(v)
      BY <3>2 DEF Session!Overflows
    <3>4. \A w \in Session!Parse(text) : w = v
      BY <2>6, <3>1, Zenon
    <3> QED
      BY <3>1, <3>3, <3>4, Zenon DEF ReadAs
  <2> QED
    BY <2>2, <2>5, <2>7, <2>8, Zenon DEF SentAs
<1>8. SentAs(Session!FormatValue(Session!Null), Session!Null)
  <2>1. PICK text : text = <<"n", "u", "l", "l">>
    OBVIOUS
  <2>2. text \in Seq(SentChar) /\ text # << >> /\ text[1] = "n"
    BY <1>5, <2>1, Zenon
  <2>3. PICK h : h = Head(text)
    OBVIOUS
  <2>4. h = "n"
    BY <2>2, <2>3
  <2>5. Session!FormatValue(Session!Null) = text
    <3>1. PICK v : v = Session!Null
      OBVIOUS
    <3>2. v[1] = "Null" /\ v # Session!List
      BY <3>1, Tagged
    <3>3. v[1] \notin {"String", "Integer", "Float", "Boolean"}
      BY <3>2
    <3> QED
      BY <2>1, <3>1, <3>2, <3>3 DEF Session!FormatValue
  <2>6. Session!Parse(text) = {Session!Null}
    <3>1. h # Session!Quote /\ h # "-" /\ ~Session!IsDigit(h)
      BY <1>1, <1>2, <2>4 DEF Session!Quote
    <3> QED
      BY <2>3, <2>4, <3>1 DEF Session!Parse
  <2>7. text[1] \notin Session!Breaks
    BY <2>2 DEF Session!Breaks
  <2>8. ReadAs(text, Session!Null)
    <3>1. PICK v : v = Session!Null
      OBVIOUS
    <3>2. v[1] \notin {"Integer", "Float"}
      BY <3>1, Tagged
    <3>3. ~Session!Overflows(v)
      BY <3>2 DEF Session!Overflows
    <3>4. \A w \in Session!Parse(text) : w = v
      BY <2>6, <3>1, Zenon
    <3> QED
      BY <3>1, <3>3, <3>4, Zenon DEF ReadAs
  <2> QED
    BY <2>2, <2>5, <2>7, <2>8, Zenon DEF SentAs
<1>9. SentAs(Session!FormatValue(Session!List), Session!List)
  <2>1. PICK text : text = <<"[", " ", " ", "]">>
    OBVIOUS
  <2>2. text \in Seq(SentChar) /\ text # << >> /\ text[1] = "["
    BY <1>5, <2>1, Zenon
  <2>3. PICK h : h = Head(text)
    OBVIOUS
  <2>4. h = "["
    BY <2>2, <2>3
  <2>5. Session!FormatValue(Session!List) = text
    <3>1. PICK v : v = Session!List
      OBVIOUS
    <3>2. v[1] = "List" /\ v # Session!Null
      BY <3>1, Tagged
    <3>3. v[1] \notin {"String", "Integer", "Float", "Boolean"}
      BY <3>2
    <3> QED
      BY <2>1, <3>1, <3>2, <3>3 DEF Session!FormatValue
  <2>6. Session!Parse(text) = {Session!NoValue}
    <3>1. h # Session!Quote /\ h # "-" /\ ~Session!IsDigit(h)
      BY <1>1, <1>2, <2>4 DEF Session!Quote
    <3> QED
      BY <2>3, <2>4, <3>1 DEF Session!Parse
  <2>7. text[1] \notin Session!Breaks
    BY <2>2 DEF Session!Breaks
  <2>8. ReadAs(text, Session!List)
    BY <2>6, Zenon DEF ReadAs
  <2> QED
    BY <2>2, <2>5, <2>7, <2>8, Zenon DEF SentAs
<1> QED
  BY <1>6, <1>7, <1>8, <1>9

-----------------------------------------------------------------------------
(* The lines that a text makes.                                             *)

\* The lines after one more character.
Longer(lines, c) ==
  CASE c \notin Session!Breaks ->
         Append(Session!Front(lines), Append(Session!Last(lines), c))
    [] c \in Session!Breaks /\ Session!Last(lines) # << >> -> Append(lines, << >>)
    [] OTHER -> lines

\* One more character keeps them lines.
LEMMA LongerLines ==
  ASSUME NEW C, NEW lines \in Seq(Seq(C)), lines # << >>, NEW c \in C
  PROVE  /\ Longer(lines, c) \in Seq(Seq(C)) /\ Longer(lines, c) # << >>
         /\ Len(Longer(lines, c)) = 1 =>
              /\ Len(lines) = 1
              /\ c \notin Session!Breaks => Longer(lines, c)[1] = Append(lines[1], c)
              /\ c \in Session!Breaks => lines[1] = << >>
<1>1. PICK n \in Nat : n = Len(lines) /\ n >= 1 /\ lines[n] \in Seq(C)
  BY EmptySeq, LenProperties
<1>2. Session!Last(lines) = lines[n]
  BY <1>1 DEF Session!Last
<1>3. CASE c \notin Session!Breaks
  <2>1. PICK front \in Seq(Seq(C)) : front = Session!Front(lines) /\ Len(front) = n - 1
    <3>1. PICK front : front = SubSeq(lines, 1, n - 1)
      OBVIOUS
    <3>2. front \in Seq(Seq(C)) /\ Len(front) = n - 1
      BY <1>1, <3>1
    <3>3. Session!Front(lines) = front
      BY <1>1, <3>1, Zenon DEF Session!Front
    <3> QED
      BY <3>2, <3>3
  <2>2. PICK last \in Seq(C) : last = Append(lines[n], c)
    <3>1. PICK old \in Seq(C) : old = lines[n]
      BY <1>1
    <3>2. Append(old, c) \in Seq(C)
      OBVIOUS
    <3> QED
      BY <3>1, <3>2, Zenon
  <2>3. Longer(lines, c) = Append(front, last)
    BY <1>2, <1>3, <2>1, <2>2 DEF Longer
  <2>4. Append(front, last) \in Seq(Seq(C)) /\ Append(front, last) # << >> /\ Len(Append(front, last)) = n
        /\ Append(front, last)[n] = last
    BY <1>1, <2>1
  <2> QED
    BY <1>1, <1>3, <2>2, <2>3, <2>4
<1>4. CASE c \in Session!Breaks /\ lines[n] # << >>
  <2>1. Longer(lines, c) = Append(lines, << >>)
    BY <1>2, <1>4 DEF Longer
  <2>2. PICK e \in Seq(C) : e = << >>
    BY EmptySeq
  <2>3. Append(lines, e) \in Seq(Seq(C)) /\ Append(lines, e) # << >> /\ Len(Append(lines, e)) = n + 1
    BY <1>1
  <2> QED
    BY <1>1, <2>1, <2>2, <2>3
<1>5. CASE c \in Session!Breaks /\ lines[n] = << >>
  <2>1. Longer(lines, c) = lines
    BY <1>2, <1>5 DEF Longer
  <2> QED
    BY <1>1, <1>5, <2>1
<1> QED
  BY <1>3, <1>4, <1>5

\* The lines that are sent for a text: when they are one line, it is the text.
LEMMA LinesMade ==
  ASSUME NEW C, NEW text \in Seq(C), text # << >>, text[1] \notin Session!Breaks
  PROVE  /\ Session!LinesOf(text) \in Seq(Seq(C)) /\ Session!LinesOf(text) # << >>
         /\ Len(Session!LinesOf(text)) = 1 => Session!LinesOf(text)[1] = text
<1>1. PICK n \in Nat : n = Len(text) /\ n >= 1
  BY EmptySeq, LenProperties
<1>2. \A i \in 1 .. n : text[i] \in C
  BY <1>1
<1> DEFINE X == {lines \in Seq(Seq(C)) : lines # << >>}
           step == [i \in 1 .. n |-> [lines \in X |-> Longer(lines, text[i])]]
           b == << << >> >>
<1>3. b \in X
  <2>1. PICK e \in Seq(C) : e = << >>
    BY EmptySeq
  <2>2. <<e>> \in Seq(Seq(C)) /\ <<e>> # << >>
    OBVIOUS
  <2> QED
    BY <2>1, <2>2
<1>4. step \in [1 .. n -> [X -> X]]
  <2>1. ASSUME NEW i \in 1 .. n, NEW lines \in X
        PROVE  Longer(lines, text[i]) \in X
    BY <1>2, LongerLines, ZenonT(30)
  <2> HIDE DEF X
  <2> QED
    BY <2>1
<1>5. PICK f \in [0 .. n -> X] : Iterated(f, n, b, step)
  <2> HIDE DEF X, step, b
  <2> QED
    BY <1>3, <1>4, Iterates
<1>6. ASSUME NEW i \in 1 .. n
      PROVE  f[i - 1] \in X /\ f[i] \in X /\ f[i] = Longer(f[i - 1], text[i])
  <2>1. PICK k \in 0 .. n : k = i - 1
    OBVIOUS
  <2>2. f[k] \in X /\ f[i] \in X
    <3> HIDE DEF X
    <3> QED
      BY <1>5
  <2>3. f[i] = step[i][f[k]]
    <3>1. i \in 0 .. n /\ i # 0
      OBVIOUS
    <3> HIDE DEF X, step, b
    <3> QED
      BY <1>5, <2>1, <3>1 DEF Iterated
  <2>4. step[i][f[k]] = Longer(f[k], text[i])
    <3> HIDE DEF X
    <3> QED
      BY <2>2
  <2> QED
    BY <2>1, <2>2, <2>3, <2>4
<1>7. f[0] = b
  <2>1. 0 \in 0 .. n
    BY <1>1
  <2> HIDE DEF X, step, b
  <2> QED
    BY <1>5, <2>1 DEF Iterated
<1> DEFINE E(r, m) ==
             IF m = 0 THEN << << >> >>
             ELSE CASE text[m] \notin Session!Breaks ->
                         Append(Session!Front(r[m - 1]), Append(Session!Last(r[m - 1]), text[m]))
                    [] text[m] \in Session!Breaks /\ Session!Last(r[m - 1]) # << >> -> Append(r[m - 1], << >>)
                    [] OTHER -> r[m - 1]
           lines == CHOOSE r : r = [m \in 0 .. n |-> E(r, m)]
<1>8. f = [m \in 0 .. n |-> E(f, m)]
  <2>1. ASSUME NEW i \in 0 .. n
        PROVE  f[i] = E(f, i)
    <3>1. CASE i = 0
      BY <1>7, <3>1
    <3>2. CASE i # 0
      <4>1. i \in 1 .. n
        BY <3>2
      <4>2. f[i] = Longer(f[i - 1], text[i])
        BY <1>6, <4>1
      <4> QED
        BY <3>2, <4>2, Zenon DEF Longer
    <3> QED
      BY <3>1, <3>2
  <2>2. f \in [0 .. n -> X]
    OBVIOUS
  <2> HIDE DEF E, X
  <2> QED
    BY <2>1, <2>2
<1>9. lines = [m \in 0 .. n |-> E(lines, m)]
  <2> HIDE DEF E, X, b, step
  <2> QED
    BY <1>8
<1>10. Session!LinesOf(text) = lines[n]
  BY <1>1, Zenon DEF Session!LinesOf
<1>11. ASSUME NEW i \in 1 .. n
       PROVE  lines[i] = Longer(lines[i - 1], text[i])
  <2>1. i \in 0 .. n /\ i # 0
    OBVIOUS
  <2>2. lines[i] = E(lines, i)
    <3> HIDE DEF E, lines
    <3> QED
      BY <1>9, <2>1
  <2> HIDE DEF lines
  <2> QED
    BY <2>1, <2>2, Zenon DEF Longer
<1>12. lines[0] = b
  <2>1. lines[0] = E(lines, 0)
    <3>1. 0 \in 0 .. n
      BY <1>1
    <3> HIDE DEF E, lines
    <3> QED
      BY <1>9, <3>1
  <2> HIDE DEF lines
  <2> QED
    BY <2>1
<1> HIDE DEF lines, E, step
<1> DEFINE T == {m \in 0 .. n : lines[m] = f[m] /\ (Len(f[m]) = 1 => f[m][1] = SubSeq(text, 1, m))}
<1>13. 0 \in T
  <2>1. SubSeq(text, 1, 0) = << >>
    BY <1>1, PrefixGrows
  <2>2. b[1] = << >>
    OBVIOUS
  <2>3. 0 \in 0 .. n
    BY <1>1
  <2>4. lines[0] = f[0] /\ f[0][1] = SubSeq(text, 1, 0)
    <3> HIDE DEF b
    <3> QED
      BY <1>7, <1>12, <2>1, <2>2, Zenon
  <2> QED
    BY <2>3, <2>4
<1>14. ASSUME NEW m \in 0 .. n - 1, m \in T
       PROVE  m + 1 \in T
  <2>1. PICK i \in 1 .. n : i = m + 1 /\ m = i - 1
    OBVIOUS
  <2>2. lines[m] = f[m] /\ (Len(f[m]) = 1 => f[m][1] = SubSeq(text, 1, m))
    BY <1>14
  <2>3. f[m] \in X /\ f[i] \in X /\ f[i] = Longer(f[m], text[i]) /\ lines[i] = Longer(lines[m], text[i])
    BY <1>6, <1>11, <2>1, Zenon
  <2>4. lines[i] = f[i]
    BY <2>2, <2>3
  <2>5. ASSUME Len(f[i]) = 1
        PROVE  f[i][1] = SubSeq(text, 1, i)
    <3>1. /\ Len(f[m]) = 1
          /\ text[i] \notin Session!Breaks => f[i][1] = Append(f[m][1], text[i])
          /\ text[i] \in Session!Breaks => f[m][1] = << >>
      <4>1. f[m] \in Seq(Seq(C)) /\ f[m] # << >> /\ text[i] \in C
        BY <1>2, <2>3
      <4>2. Len(Longer(f[m], text[i])) = 1
        BY <2>3, <2>5
      <4> HIDE DEF X
      <4>3. /\ Len(f[m]) = 1
            /\ text[i] \notin Session!Breaks => Longer(f[m], text[i])[1] = Append(f[m][1], text[i])
            /\ text[i] \in Session!Breaks => f[m][1] = << >>
        BY <4>1, <4>2, LongerLines
      <4> QED
        BY <2>3, <4>3
    <3>2. SubSeq(text, 1, i) = Append(SubSeq(text, 1, m), text[i])
      BY <1>1, <2>1, PrefixGrows
    <3>3. text[i] \notin Session!Breaks
      <4>1. CASE m = 0
        BY <2>1, <4>1
      <4>2. CASE m # 0
        <5>1. SubSeq(text, 1, m) # << >>
          <6>1. PICK u : u = SubSeq(text, 1, m)
            OBVIOUS
          <6>2. u \in Seq(C) /\ Len(u) = m
            BY <1>1, <6>1
          <6> QED
            BY <4>2, <6>1, <6>2
        <5> QED
          BY <2>2, <3>1, <5>1
      <4> QED
        BY <4>1, <4>2
    <3> QED
      BY <2>2, <3>1, <3>2, <3>3
  <2> QED
    BY <2>1, <2>4, <2>5
<1> HIDE DEF T
<1>15. n \in T
  <2>1. \A m \in 0 .. n : m \in T
    BY <1>13, <1>14, Counting
  <2> QED
    BY <2>1
<1>16. lines[n] = f[n] /\ (Len(f[n]) = 1 => f[n][1] = SubSeq(text, 1, n))
  BY <1>15 DEF T
<1>17. f[n] \in X
  <2> HIDE DEF X
  <2> QED
    BY <1>5
<1>18. SubSeq(text, 1, n) = text
  BY <1>1, PrefixGrows
<1> QED
  BY <1>10, <1>16, <1>17, <1>18

-----------------------------------------------------------------------------
(* What the client reads: one value.                                        *)

\* The first place from i on that has one of the characters.
FirstOf(text, i, characters, k) ==
  /\ k \in i .. Len(text) + 1
  /\ \A j \in i .. k - 1 : text[j] \notin characters
  /\ k <= Len(text) => text[k] \in characters

\* Find finds the first of them, or the end.
LEMMA FindIs ==
  ASSUME NEW C, NEW text \in Seq(C), NEW i \in 1 .. Len(text) + 1, NEW characters
  PROVE  FirstOf(text, i, characters, Session!Find(text, i, characters))
<1>1. PICK n \in Nat : n = Len(text)
  BY LenProperties
<1> DEFINE places == {j \in i .. n : text[j] \in characters}
<1>2. CASE places = {}
  <2>1. Session!Find(text, i, characters) = n + 1
    BY <1>1, <1>2, Zenon DEF Session!Find
  <2>2. \A j \in i .. n + 1 - 1 : text[j] \notin characters
    BY <1>1, <1>2
  <2>3. n + 1 \in i .. n + 1 /\ ~(n + 1 <= n)
    BY <1>1
  <2> HIDE DEF places
  <2> QED
    BY <1>1, <2>1, <2>2, <2>3 DEF FirstOf
<1>3. CASE places # {}
  <2>1. PICK k \in places : \A j \in places : k <= j
    <3>1. places \subseteq Nat
      BY <1>1
    <3> HIDE DEF places
    <3> QED
      BY <1>3, <3>1, LeastNumber
  <2>2. \A j \in places : (\A y \in places : j <= y) => j = k
    <3>1. \A j \in places : j \in Int
      BY <1>1
    <3> HIDE DEF places
    <3> QED
      BY <2>1, <3>1
  <2>3. Session!Min(places) = k
    <3> HIDE DEF places
    <3> QED
      BY <2>1, <2>2, Zenon DEF Session!Min
  <2>4. Session!Find(text, i, characters) = k
    BY <1>1, <1>3, <2>3, Zenon DEF Session!Find
  <2>5. k \in i .. n /\ text[k] \in characters
    BY <2>1
  <2>6. \A j \in i .. k - 1 : text[j] \notin characters
    <3>1. \A j \in i .. k - 1 : j \in i .. n /\ ~(k <= j)
      BY <1>1, <2>5
    <3> QED
      BY <2>1, <3>1
  <2>7. k \in i .. n + 1
    BY <1>1, <2>5
  <2> HIDE DEF places
  <2> QED
    BY <1>1, <2>4, <2>5, <2>6, <2>7 DEF FirstOf
<1> QED
  BY <1>2, <1>3

\* Where characters of one kind end.
LEMMA SkipIs ==
  ASSUME NEW C, NEW text \in Seq(C), NEW i \in 1 .. Len(text) + 1, NEW characters
  PROVE  /\ Session!Skip(text, i, characters) \in i .. Len(text) + 1
         /\ (\A j \in i .. Len(text) : text[j] \in characters) =>
              Session!Skip(text, i, characters) = Len(text) + 1
<1>1. PICK n \in Nat : n = Len(text)
  BY LenProperties
<1>2. PICK others : others = Session!Range(text) \ characters
  OBVIOUS
<1>3. PICK k : k = Session!Skip(text, i, characters)
  OBVIOUS
<1>4. k = Session!Find(text, i, others)
  BY <1>2, <1>3, Zenon DEF Session!Skip
<1>5. FirstOf(text, i, others, k)
  BY <1>4, FindIs
<1>6. k \in i .. n + 1 /\ (k <= n => text[k] \in others)
  BY <1>1, <1>5 DEF FirstOf
<1>7. (\A j \in i .. n : text[j] \in characters) => k = n + 1
  BY <1>1, <1>2, <1>6
<1> QED
  BY <1>1, <1>3, <1>6, <1>7

\* A byte array begins as a number does, with an x for its second character.
BeginsBytes(text, i) == text[i] = "0" /\ i < Len(text) /\ text[i + 1] = "x"

\* What is read of each kind of value, where it ends.
StringAt(text, i, end) ==
  [value |-> IF end > Len(text) THEN Session!NoValue ELSE <<"String", SubSeq(text, i + 1, end - 1)>>,
   next |-> end + 1]
NumberAt(text, i, end) ==
  LET number == SubSeq(text, i, end - 1)
  IN  [value |-> IF Session!IsNumber(number) THEN Session!NumberRead(number) ELSE Session!NoValue,
       next |-> end + 1]
BytesAt(text, i, bytes) == [value |-> <<"ByteArray", bytes>>, next |-> i + 2 * Len(bytes) + 3]
WordAt(text, i, end) ==
  [value |-> Session!WordRead(SubSeq(text, i, end - 1)), next |-> end + 1]

\* What is read of each kind of value.
LEMMA ValueIs ==
  ASSUME NEW text, NEW i, NEW c, c = text[i]
  PROVE  /\ c = Session!Quote =>
              Session!ValueAt(text, i) = StringAt(text, i, Session!Find(text, i + 1, {Session!Quote}))
         /\ BeginsBytes(text, i) =>
              Session!ValueAt(text, i) = BytesAt(text, i, Session!BytesRead(text, i + 2))
         /\ (Session!IsDigit(c) \/ c = "-") /\ ~BeginsBytes(text, i) =>
              Session!ValueAt(text, i) =
                NumberAt(text, i, Session!Skip(text, i + 1, Session!Range(Session!Digits) \cup {"."}))
         /\ c \in Session!AsciiLetters =>
              Session!ValueAt(text, i) = WordAt(text, i, Session!Skip(text, i + 1, Session!AsciiLetters))
         /\ c # Session!Quote /\ ~BeginsBytes(text, i) /\ ~Session!IsDigit(c) /\ c # "-" /\ c \notin Session!AsciiLetters =>
              Session!ValueAt(text, i) = [value |-> Session!NoValue, next |-> i + 1]
<1>1. /\ Session!Quote \notin Session!AsciiLetters /\ "-" \notin Session!AsciiLetters
      /\ "0" \notin Session!AsciiLetters /\ "0" # Session!Quote /\ "-" # Session!Quote
  BY DEF Session!Quote, Session!AsciiLetters
<1>2. /\ Session!IsDigit(c) => c \notin Session!AsciiLetters /\ c # Session!Quote
      /\ c = "0" => Session!IsDigit(c)
  BY DigitsAre DEF Session!Quote
<1>3. CASE c = Session!Quote
  <2>1. ~BeginsBytes(text, i) /\ ~Session!IsDigit(c) /\ c # "-" /\ c \notin Session!AsciiLetters
    BY <1>1, <1>2, <1>3 DEF BeginsBytes
  <2> QED
    BY <1>3, <2>1 DEF Session!ValueAt, BeginsBytes, StringAt, NumberAt, BytesAt, WordAt
<1>4. CASE BeginsBytes(text, i)
  <2>1. c # Session!Quote /\ c \notin Session!AsciiLetters
    BY <1>1, <1>4 DEF BeginsBytes
  <2> QED
    BY <1>4, <2>1 DEF Session!ValueAt, BeginsBytes, StringAt, NumberAt, BytesAt, WordAt
<1>5. CASE (Session!IsDigit(c) \/ c = "-") /\ ~BeginsBytes(text, i)
  <2>1. c # Session!Quote /\ c \notin Session!AsciiLetters
    BY <1>1, <1>2, <1>5
  <2> QED
    BY <1>5, <2>1 DEF Session!ValueAt, BeginsBytes, StringAt, NumberAt, BytesAt, WordAt
<1>6. CASE c \in Session!AsciiLetters
  <2>1. c # Session!Quote /\ ~BeginsBytes(text, i) /\ ~Session!IsDigit(c) /\ c # "-"
    BY <1>1, <1>2, <1>6 DEF BeginsBytes
  <2> QED
    BY <1>6, <2>1 DEF Session!ValueAt, BeginsBytes, StringAt, NumberAt, BytesAt, WordAt
<1>7. CASE c # Session!Quote /\ ~BeginsBytes(text, i) /\ ~Session!IsDigit(c) /\ c # "-" /\ c \notin Session!AsciiLetters
  BY <1>7 DEF Session!ValueAt, BeginsBytes, StringAt, NumberAt, BytesAt, WordAt
<1> QED
  BY <1>3, <1>4, <1>5, <1>6, <1>7

-----------------------------------------------------------------------------
(* What the client reads: one value after the other.                        *)

\* To be a sequence of anything.
IsSequence(s) == \E S : s \in Seq(S)

\* What is put before a sequence.
LEMMA Sequences ==
  /\ IsSequence(<< >>)
  /\ \A v, s : IsSequence(s) =>
       /\ IsSequence(<<v>> \o s) /\ Len(<<v>> \o s) = Len(s) + 1 /\ Len(s) \in Nat
       /\ <<v>> \o s # << >> /\ (<<v>> \o s)[1] = v
<1>1. IsSequence(<< >>)
  <2>1. << >> \in Seq({})
    BY EmptySeq
  <2> QED
    BY <2>1 DEF IsSequence
<1>2. ASSUME NEW v, NEW s, IsSequence(s)
      PROVE  /\ IsSequence(<<v>> \o s) /\ Len(<<v>> \o s) = Len(s) + 1 /\ Len(s) \in Nat
             /\ <<v>> \o s # << >> /\ (<<v>> \o s)[1] = v
  <2>1. PICK S : s \in Seq(S)
    BY <1>2 DEF IsSequence
  <2>2. PICK T : S \subseteq T /\ v \in T
    <3>1. S \subseteq S \cup {v} /\ v \in S \cup {v}
      OBVIOUS
    <3> QED
      BY <3>1
  <2>3. s \in Seq(T)
    BY <2>1, <2>2, SeqMonotonic
  <2>4. PICK one \in Seq(T) : one = <<v>> /\ Len(one) = 1 /\ one[1] = v
    <3>1. PICK x \in T : x = v
      BY <2>2
    <3>2. <<x>> \in Seq(T) /\ Len(<<x>>) = 1 /\ <<x>>[1] = x
      OBVIOUS
    <3> QED
      BY <3>1, <3>2
  <2>5. PICK both : both = one \o s
    OBVIOUS
  <2>6. both \in Seq(T) /\ Len(both) = Len(s) + 1 /\ Len(s) \in Nat /\ both # << >> /\ both[1] = v
    <3>1. /\ both \in Seq(T) /\ Len(both) = Len(one) + Len(s)
          /\ \A i \in 1 .. Len(one) + Len(s) : both[i] = IF i <= Len(one) THEN one[i] ELSE s[i - Len(one)]
      BY <2>3, <2>5, ConcatProperties
    <3>2. Len(s) \in Nat
      BY <2>3, LenProperties
    <3> QED
      BY <2>4, <3>1, <3>2, EmptySeq
  <2> QED
    BY <2>4, <2>5, <2>6, Zenon DEF IsSequence
<1> QED
  BY <1>1, <1>2

\* How many bytes are read.
LEMMA BytesEnd ==
  ASSUME NEW C, NEW text \in Seq(C), NEW i \in 1 .. Len(text) + 1
  PROVE  LET end == Session!Skip(text, i, Session!Range(Session!Digits))
         IN  /\ end \in i .. Len(text) + 1 /\ (end - i) \div 2 \in Nat
             /\ Len(Session!BytesRead(text, i)) = (end - i) \div 2
<1>1. PICK n \in Nat : n = Len(text)
  BY LenProperties
<1>2. PICK end \in i .. n + 1 : end = Session!Skip(text, i, Session!Range(Session!Digits))
  BY <1>1, SkipIs
<1>3. PICK m \in Nat : m = (end - i) \div 2
  <2>1. PICK d \in Nat : d = end - i
    BY <1>1
  <2>2. d \div 2 \in Nat
    OBVIOUS
  <2> QED
    BY <2>1, <2>2
<1>4. Len(Session!BytesRead(text, i)) = m
  <2>1. Session!BytesRead(text, i) =
          [k \in 1 .. m |-> 16 * Session!DigitOf(text[i + 2 * k - 2]) + Session!DigitOf(text[i + 2 * k - 1])]
    BY <1>2, <1>3, Zenon DEF Session!BytesRead
  <2> QED
    BY <2>1
<1> QED
  BY <1>1, <1>2, <1>3, <1>4

\* A value ends after its beginning.
LEMMA ValueEnds ==
  ASSUME NEW C, NEW text \in Seq(C), NEW i \in 0 .. Len(text)
  PROVE  Session!ValueAt(text, i).next \in Nat /\ Session!ValueAt(text, i).next > i
<1>1. PICK n \in Nat : n = Len(text) /\ i \in 0 .. n
  BY LenProperties
<1>2. PICK c : c = text[i]
  OBVIOUS
<1>4. PICK r : r = Session!ValueAt(text, i)
  OBVIOUS
<1>5. PICK j \in 1 .. n + 1 : j = i + 1
  BY <1>1
<1>6. CASE c = Session!Quote
  <2>1. PICK end : end = Session!Find(text, j, {Session!Quote})
    OBVIOUS
  <2>2. end \in j .. n + 1
    BY <1>1, <2>1, FindIs DEF FirstOf
  <2>3. r.next = end + 1
    <3>1. r = StringAt(text, i, end)
      BY <1>2, <1>4, <1>5, <1>6, <2>1, ValueIs
    <3> QED
      BY <3>1 DEF StringAt
  <2> QED
    BY <1>1, <1>4, <1>5, <2>2, <2>3
<1>7. CASE BeginsBytes(text, i)
  <2>1. PICK k \in 1 .. n + 1 : k = i + 2
    BY <1>1, <1>7 DEF BeginsBytes
  <2>4. PICK bytes : bytes = Session!BytesRead(text, k)
    OBVIOUS
  <2>2. PICK m \in Nat : m = Len(bytes)
    BY <1>1, <2>4, BytesEnd
  <2>3. r.next = i + 2 * m + 3
    <3>1. r = BytesAt(text, i, bytes)
      BY <1>2, <1>4, <1>7, <2>1, <2>4, ValueIs
    <3> QED
      BY <2>2, <3>1 DEF BytesAt
  <2> QED
    BY <1>1, <1>4, <2>3
<1>8. CASE (Session!IsDigit(c) \/ c = "-") /\ ~BeginsBytes(text, i)
  <2>1. PICK end : end = Session!Skip(text, j, Session!Range(Session!Digits) \cup {"."})
    OBVIOUS
  <2>2. end \in j .. n + 1
    BY <1>1, <2>1, SkipIs
  <2>3. r.next = end + 1
    <3>1. r = NumberAt(text, i, end)
      BY <1>2, <1>4, <1>5, <1>8, <2>1, ValueIs
    <3> QED
      BY <3>1 DEF NumberAt
  <2> QED
    BY <1>1, <1>4, <1>5, <2>2, <2>3
<1>9. CASE c \in Session!AsciiLetters
  <2>1. PICK end : end = Session!Skip(text, j, Session!AsciiLetters)
    OBVIOUS
  <2>2. end \in j .. n + 1
    BY <1>1, <2>1, SkipIs
  <2>3. r.next = end + 1
    <3>1. r = WordAt(text, i, end)
      BY <1>2, <1>4, <1>5, <1>9, <2>1, ValueIs
    <3> QED
      BY <3>1 DEF WordAt
  <2> QED
    BY <1>1, <1>4, <1>5, <2>2, <2>3
<1>10. CASE c # Session!Quote /\ ~BeginsBytes(text, i) /\ ~Session!IsDigit(c) /\ c # "-" /\ c \notin Session!AsciiLetters
  <2>1. r.next = i + 1
    BY <1>2, <1>4, <1>10, ValueIs
  <2> QED
    BY <1>1, <1>4, <2>1
<1> QED
  BY <1>6, <1>7, <1>8, <1>9, <1>10

\* The values from a place on, and where they end.
Place(r, i) == r.next \in Nat /\ r.next >= i /\ IsSequence(r.values)

\* The values that follow one.
Following(later, value, next) ==
  IF value = Session!NoValue \/ later[next].values = Session!Raised
  THEN [values |-> Session!Raised, next |-> next]
  ELSE [values |-> <<value>> \o later[next].values, next |-> later[next].next]

\* It ends after its beginning too.
LEMMA FollowingPlace ==
  ASSUME NEW later, NEW value, NEW i \in Nat, NEW next \in Nat, next > i, Place(later[next], next)
  PROVE  Place(Following(later, value, next), i)
<1>1. IsSequence(Session!Raised)
  <2>1. <<Session!NoValue>> \in Seq({Session!NoValue})
    OBVIOUS
  <2> QED
    BY <2>1 DEF IsSequence, Session!Raised
<1>2. IsSequence(<<value>> \o later[next].values)
  BY Sequences DEF Place
<1> QED
  BY <1>1, <1>2 DEF Place, Following

\* What is read from a place on, by its first character.
LEMMA FromEnd ==
  ASSUME NEW text, NEW later, NEW i, i > Len(text)
  PROVE  Session!ValuesFrom(text, later, i) = [values |-> << >>, next |-> i]
BY DEF Session!ValuesFrom
\* Whitespace is skipped.
LEMMA FromSpace ==
  ASSUME NEW text, NEW later, NEW i, ~(i > Len(text)), text[i] \in Session!Whitespace
  PROVE  Session!ValuesFrom(text, later, i) = later[i + 1]
<1>1. PICK c : c = text[i]
  OBVIOUS
<1>2. c \notin {"[", "]"}
  BY <1>1 DEF Session!Whitespace
<1> QED
  BY <1>1, <1>2 DEF Session!ValuesFrom
\* A bracket ends the list.
LEMMA FromClose ==
  ASSUME NEW text, NEW later, NEW i, ~(i > Len(text)), text[i] = "]"
  PROVE  Session!ValuesFrom(text, later, i) = [values |-> << >>, next |-> i + 1]
<1>1. PICK c : c = text[i]
  OBVIOUS
<1>2. c \notin Session!Whitespace /\ c # "["
  BY <1>1 DEF Session!Whitespace
<1> QED
  BY <1>1, <1>2 DEF Session!ValuesFrom
\* A bracket begins a list.
LEMMA FromOpen ==
  ASSUME NEW text, NEW later, NEW i, ~(i > Len(text)), text[i] = "["
  PROVE  Session!ValuesFrom(text, later, i) =
           Following(later,
                     IF later[i + 1].values = Session!Raised THEN Session!NoValue
                     ELSE <<"List", later[i + 1].values>>,
                     later[i + 1].next)
<1>1. PICK c : c = text[i]
  OBVIOUS
<1>2. c \notin Session!Whitespace /\ c # "]"
  BY <1>1 DEF Session!Whitespace
<1> QED
  BY <1>1, <1>2 DEF Session!ValuesFrom, Following
\* Any other character begins a value.
LEMMA FromValue ==
  ASSUME NEW text, NEW later, NEW i, ~(i > Len(text)), text[i] \notin Session!Whitespace \cup {"[", "]"}
  PROVE  Session!ValuesFrom(text, later, i) =
           Following(later, Session!ValueAt(text, i).value, Session!ValueAt(text, i).next)
<1>1. PICK c : c = text[i]
  OBVIOUS
<1> QED
  BY <1>1 DEF Session!ValuesFrom, Following

\* What is read from a place on is told by what is read further on.
LEMMA FromPlace ==
  ASSUME NEW C, NEW text \in Seq(C), NEW i \in Nat, NEW later, \A j \in Nat : j > i => Place(later[j], j)
  PROVE  /\ Place(Session!ValuesFrom(text, later, i), i)
         /\ \A g : (\A j \in Nat : j > i => g[j] = later[j]) =>
              Session!ValuesFrom(text, g, i) = Session!ValuesFrom(text, later, i)
<1>1. PICK n \in Nat : n = Len(text)
  BY LenProperties
<1>2. PICK k \in Nat : k = i + 1 /\ k > i
  OBVIOUS
<1>8. Place(later[k], k)
  BY <1>2
<1>9. IsSequence(<< >>)
  BY Sequences
<1> DEFINE Same(g) == \A j \in Nat : j > i => g[j] = later[j]
           Goal == /\ Place(Session!ValuesFrom(text, later, i), i)
                   /\ \A g : Same(g) => Session!ValuesFrom(text, g, i) = Session!ValuesFrom(text, later, i)
<1>10. \A g : Same(g) => g[k] = later[k]
  BY <1>2
<1>3. CASE i > n
  <2>0. i > Len(text)
    BY <1>1, <1>3
  <2>1. \A g : Session!ValuesFrom(text, g, i) = [values |-> << >>, next |-> i]
    BY <2>0, FromEnd
  <2>2. Place([values |-> << >>, next |-> i], i)
    BY <1>9 DEF Place
  <2> QED
    BY <2>1, <2>2
<1>4. CASE ~(i > n) /\ text[i] \in Session!Whitespace
  <2>0. ~(i > Len(text))
    BY <1>1, <1>4
  <2>1. \A g : Session!ValuesFrom(text, g, i) = g[k]
    <3>1. \A g : Session!ValuesFrom(text, g, i) = g[i + 1]
      BY <1>4, <2>0, FromSpace
    <3> QED
      BY <1>2, <3>1
  <2>2. Place(later[k], i)
    BY <1>2, <1>8 DEF Place
  <2> QED
    BY <1>10, <2>1, <2>2
<1>5. CASE ~(i > n) /\ text[i] = "]"
  <2>0. ~(i > Len(text))
    BY <1>1, <1>5
  <2>1. \A g : Session!ValuesFrom(text, g, i) = [values |-> << >>, next |-> k]
    BY <1>2, <1>5, <2>0, FromClose
  <2>2. Place([values |-> << >>, next |-> k], i)
    BY <1>2, <1>9 DEF Place
  <2> QED
    BY <2>1, <2>2
<1>6. CASE ~(i > n) /\ text[i] = "["
  <2> DEFINE value(r) == IF r.values = Session!Raised THEN Session!NoValue ELSE <<"List", r.values>>
  <2>1. ASSUME NEW g
        PROVE  Session!ValuesFrom(text, g, i) = Following(g, value(g[k]), g[k].next)
    BY <1>1, <1>2, <1>6, FromOpen
  <2>2. PICK m \in Nat : m = later[k].next /\ m > i
    BY <1>2, <1>8 DEF Place
  <2> HIDE DEF value
  <2>3. Place(Following(later, value(later[k]), m), i)
    BY <2>2, FollowingPlace
  <2>4. ASSUME NEW g, Same(g)
        PROVE  Session!ValuesFrom(text, g, i) = Session!ValuesFrom(text, later, i)
    <3>1. g[k] = later[k] /\ g[m] = later[m]
      BY <1>10, <2>2, <2>4
    <3>2. PICK v : v = value(later[k])
      OBVIOUS
    <3>3. Following(g, v, m) = Following(later, v, m)
      BY <3>1 DEF Following
    <3> QED
      BY <2>1, <2>2, <3>1, <3>2, <3>3, Zenon
  <2>5. Place(Session!ValuesFrom(text, later, i), i)
    BY <2>1, <2>2, <2>3, Zenon
  <2> QED
    BY <2>4, <2>5
<1>7. CASE ~(i > n) /\ text[i] \notin Session!Whitespace \cup {"[", "]"}
  <2>1. PICK r : r = Session!ValueAt(text, i)
    OBVIOUS
  <2>2. PICK m \in Nat : m = r.next /\ m > i
    BY <1>1, <1>7, <2>1, ValueEnds
  <2>0. ~(i > Len(text))
    BY <1>1, <1>7
  <2>3. ASSUME NEW g
        PROVE  Session!ValuesFrom(text, g, i) = Following(g, r.value, m)
    BY <1>7, <2>0, <2>1, <2>2, FromValue
  <2>4. Place(Following(later, r.value, m), i)
    BY <2>2, FollowingPlace
  <2>5. ASSUME NEW g, Same(g)
        PROVE  Following(g, r.value, m) = Following(later, r.value, m)
    <3>1. g[m] = later[m]
      BY <2>2, <2>5
    <3> QED
      BY <3>1 DEF Following
  <2>6. Place(Session!ValuesFrom(text, later, i), i)
    BY <2>3, <2>4, Zenon
  <2>7. ASSUME NEW g, Same(g)
        PROVE  Session!ValuesFrom(text, g, i) = Session!ValuesFrom(text, later, i)
    <3>1. Following(g, r.value, m) = Following(later, r.value, m)
      BY <2>5, <2>7
    <3>2. /\ Session!ValuesFrom(text, g, i) = Following(g, r.value, m)
          /\ Session!ValuesFrom(text, later, i) = Following(later, r.value, m)
      BY <2>3, Zenon
    <3> QED
      BY <3>1, <3>2, Zenon
  <2> QED
    BY <2>6, <2>7
<1> QED
  BY <1>3, <1>4, <1>5, <1>6, <1>7

\* What is read from each place on.
ReadFrom(text, from) ==
  \A i \in Nat : from[i] = Session!ValuesFrom(text, from, i) /\ Place(from[i], i)

\* The recursion goes on to the end of the text.
LEMMA ParsedFrom ==
  ASSUME NEW C, NEW text \in Seq(C)
  PROVE  \E from : ReadFrom(text, from) /\ Session!ParseValues(text) = from[1].values
<1>1. PICK n \in Nat : n = Len(text)
  BY LenProperties
<1>14. PICK N \in Nat : N = n + 1
  OBVIOUS
<1> DEFINE Good(f, m) == /\ f = [i \in Nat |-> f[i]]
                         /\ \A i \in Nat : i + m > n => /\ f[i] = Session!ValuesFrom(text, f, i)
                                                        /\ Place(f[i], i)
           T == {m \in 0 .. N : \E f : Good(f, m)}
<1>2. 0 \in T
  <2> DEFINE f == [i \in Nat |-> [values |-> << >>, next |-> i]]
  <2>1. ASSUME NEW i \in Nat, i > n
        PROVE  f[i] = Session!ValuesFrom(text, f, i) /\ Place(f[i], i)
    <3>1. f[i] = [values |-> << >>, next |-> i]
      OBVIOUS
    <3> HIDE DEF f
    <3>4. i > Len(text)
      BY <1>1, <2>1
    <3>2. Session!ValuesFrom(text, f, i) = [values |-> << >>, next |-> i]
      BY <3>4, FromEnd
    <3>3. Place([values |-> << >>, next |-> i], i)
      BY Sequences DEF Place
    <3> QED
      BY <3>1, <3>2, <3>3, Zenon
  <2>2. f = [i \in Nat |-> f[i]]
    OBVIOUS
  <2> HIDE DEF f
  <2>3. Good(f, 0)
    BY <2>1, <2>2
  <2>4. \E h : Good(h, 0)
    <3> HIDE DEF Good
    <3> QED
      BY <2>3
  <2>5. 0 \in 0 .. N
    OBVIOUS
  <2> QED
    BY <2>4, <2>5
<1>3. ASSUME NEW m \in 0 .. N - 1, m \in T
      PROVE  m + 1 \in T
  <2>1. PICK f : Good(f, m)
    BY <1>3
  <2>2. PICK k \in 0 .. n : k = n - m /\ k + m = n
    BY <1>14
  <2> DEFINE g == [i \in Nat |-> IF i = k THEN Session!ValuesFrom(text, f, k) ELSE f[i]]
  <2>3. \A i \in Nat : i # k => g[i] = f[i]
    OBVIOUS
  <2>4. g[k] = Session!ValuesFrom(text, f, k) /\ g = [i \in Nat |-> g[i]]
    OBVIOUS
  <2> HIDE DEF g
  <2>5. \A i \in Nat : i > k => f[i] = Session!ValuesFrom(text, f, i) /\ Place(f[i], i)
    <3>1. \A i \in Nat : i > k => i + m > n
      BY <2>2
    <3> QED
      BY <2>1, <3>1
  <2>6. ASSUME NEW i \in Nat, i >= k
        PROVE  g[i] = Session!ValuesFrom(text, g, i) /\ Place(g[i], i)
    <3>1. \A j \in Nat : j > i => Place(f[j], j) /\ g[j] = f[j]
      BY <2>3, <2>5, <2>6
    <3>2. Place(Session!ValuesFrom(text, f, i), i) /\ Session!ValuesFrom(text, g, i) = Session!ValuesFrom(text, f, i)
      BY <3>1, FromPlace
    <3>3. g[i] = Session!ValuesFrom(text, f, i)
      <4>1. CASE i = k
        BY <2>4, <4>1
      <4>2. CASE i # k
        <5>1. i > k
          BY <2>6, <4>2
        <5> QED
          BY <2>3, <2>5, <4>2, <5>1
      <4> QED
        BY <4>1, <4>2
    <3> QED
      BY <3>2, <3>3, Zenon
  <2>7. \A i \in Nat : i + (m + 1) > n => i >= k
    BY <2>2
  <2>8. Good(g, m + 1)
    BY <2>4, <2>6, <2>7
  <2> HIDE DEF Good
  <2> QED
    BY <2>8
<1>4. N \in T
  <2>1. \A m \in 0 .. N : m \in T
    <3> HIDE DEF T
    <3> QED
      BY <1>2, <1>3, Counting
  <2> HIDE DEF T
  <2> QED
    BY <2>1
<1>5. PICK f : Good(f, N)
  BY <1>4
<1>6. ReadFrom(text, f) /\ f = [i \in Nat |-> Session!ValuesFrom(text, f, i)]
  <2>1. \A i \in Nat : i + N > n
    BY <1>14
  <2>2. ReadFrom(text, f)
    BY <1>5, <2>1 DEF ReadFrom
  <2> QED
    BY <1>5, <2>2 DEF ReadFrom
<1> DEFINE from == CHOOSE r : r = [i \in Nat |-> Session!ValuesFrom(text, r, i)]
<1>7. from = [i \in Nat |-> Session!ValuesFrom(text, from, i)]
  BY <1>6
<1>8. Session!ParseValues(text) = from[1].values
  BY Zenon DEF Session!ParseValues
<1> HIDE DEF from
<1>9. \A i \in Nat : from[i] = Session!ValuesFrom(text, from, i)
  BY <1>7
<1> DEFINE U == {m \in 0 .. N : \A i \in Nat : i + m > n => from[i] = f[i]}
<1>10. 0 \in U
  <2>1. ASSUME NEW i \in Nat, i > n
        PROVE  from[i] = f[i]
    <3>1. /\ Session!ValuesFrom(text, from, i) = [values |-> << >>, next |-> i]
          /\ Session!ValuesFrom(text, f, i) = [values |-> << >>, next |-> i]
      <4>1. i > Len(text)
        BY <1>1, <2>1
      <4> QED
        BY <4>1, FromEnd
    <3> QED
      BY <1>6, <1>9, <3>1 DEF ReadFrom
  <2> QED
    BY <2>1
<1>11. ASSUME NEW m \in 0 .. N - 1, m \in U
       PROVE  m + 1 \in U
  <2>1. \A i \in Nat : i + m > n => from[i] = f[i]
    BY <1>11
  <2>2. ASSUME NEW i \in Nat, i + (m + 1) > n
        PROVE  from[i] = f[i]
    <3>1. \A j \in Nat : j > i => Place(f[j], j) /\ from[j] = f[j]
      <4>1. \A j \in Nat : j > i => j + m > n
        BY <2>2
      <4> QED
        BY <1>6, <2>1, <4>1 DEF ReadFrom
    <3>2. Session!ValuesFrom(text, from, i) = Session!ValuesFrom(text, f, i)
      BY <3>1, FromPlace
    <3> QED
      BY <1>6, <1>9, <3>2 DEF ReadFrom
  <2> QED
    BY <2>2
<1>12. N \in U
  <2>1. \A m \in 0 .. N : m \in U
    <3> HIDE DEF U
    <3> QED
      BY <1>10, <1>11, Counting
  <2> HIDE DEF U
  <2> QED
    BY <2>1
<1>13. from[1] = f[1]
  <2>1. 1 + N > n
    BY <1>14
  <2> QED
    BY <1>12, <2>1
<1> QED
  BY <1>6, <1>8, <1>13

-----------------------------------------------------------------------------
(* What the server writes is read as what was held.                         *)

\* A text of one value and nothing else.
OneValue(text, v) ==
  /\ text # << >> /\ text[1] \notin Session!Whitespace \cup {"[", "]"}
  /\ Session!ValueAt(text, 1).value = v /\ Session!ValueAt(text, 1).next > Len(text)
  /\ v # Session!NoValue

\* It is read as that value.
LEMMA OneValueRead ==
  ASSUME NEW C, NEW text \in Seq(C), NEW v, OneValue(text, v)
  PROVE  Session!ParseValues(text) = <<v>>
<1>1. PICK from : ReadFrom(text, from) /\ Session!ParseValues(text) = from[1].values
  BY ParsedFrom
<1>2. PICK n \in Nat : n = Len(text) /\ n >= 1
  BY EmptySeq, LenProperties DEF OneValue
<1>3. PICK m \in Nat : m = Session!ValueAt(text, 1).next /\ m > n
  <2>1. 1 \in 0 .. Len(text)
    BY <1>2
  <2> QED
    BY <1>2, <2>1, ValueEnds DEF OneValue
<1>4. from[1] = Following(from, v, m)
  <2>1. from[1] = Session!ValuesFrom(text, from, 1)
    BY <1>1 DEF ReadFrom
  <2>2. ~(1 > Len(text))
    BY <1>2
  <2>3. text[1] \notin Session!Whitespace \cup {"[", "]"} /\ Session!ValueAt(text, 1).value = v
    BY DEF OneValue
  <2> QED
    BY <1>3, <2>1, <2>2, <2>3, FromValue
<1>5. from[m].values = << >>
  <2>1. m > Len(text)
    BY <1>2, <1>3
  <2>2. Session!ValuesFrom(text, from, m) = [values |-> << >>, next |-> m]
    BY <2>1, FromEnd
  <2> QED
    BY <1>1, <2>2 DEF ReadFrom
<1>6. << >> # Session!Raised /\ <<v>> \o << >> = <<v>>
  <2>1. <<Session!NoValue>> # << >> /\ <<v>> \o << >> = <<v>>
    OBVIOUS
  <2> QED
    BY <2>1 DEF Session!Raised
<1>7. v # Session!NoValue
  BY DEF OneValue
<1>8. from[1] = [values |-> <<v>> \o from[m].values, next |-> from[m].next]
  BY <1>4, <1>5, <1>6, <1>7 DEF Following
<1>9. from[1].values = <<v>> \o from[m].values
  BY <1>8
<1> QED
  BY <1>1, <1>5, <1>6, <1>9, Zenon

\* A number is read as it is.
LEMMA NumberBack ==
  ASSUME NEW text, NEW v, v # Session!NoValue, NumberText(text, v)
  PROVE  text \in Seq(NumberChar) /\ Session!ParseValues(text) = <<v>>
<1>1. /\ text \in Seq(NumberChar) /\ text # << >> /\ (text[1] = "-" \/ text[1] \in Digit)
      /\ \A i \in 2 .. Len(text) : text[i] \in Digit \cup {"."}
      /\ Session!IsNumber(text) /\ Session!NumberRead(text) = v
  BY DEF NumberText
<1> HIDE DEF NumberChar
<1>2. PICK n \in Nat : n = Len(text) /\ n >= 1
  BY <1>1, EmptySeq, LenProperties
<1>3. PICK c : c = text[1]
  OBVIOUS
<1>4. (Session!IsDigit(c) \/ c = "-") /\ c \notin Session!Whitespace \cup {"[", "]"}
  BY <1>1, <1>3, DigitsAre DEF Session!Whitespace
<1>5. ~BeginsBytes(text, 1)
  <2>1. 1 < Len(text) => text[1 + 1] \in Digit \cup {"."}
    <3>1. 1 < Len(text) => 2 \in 2 .. Len(text)
      BY <1>2
    <3> QED
      BY <1>1, <3>1
  <2> QED
    BY <2>1, DigitsAre DEF BeginsBytes
<1>6. Session!Skip(text, 1 + 1, Session!Range(Session!Digits) \cup {"."}) = n + 1
  <2>1. PICK characters : characters = Session!Range(Session!Digits) \cup {"."}
    OBVIOUS
  <2>2. \A c1 \in Digit \cup {"."} : c1 \in characters
    BY <2>1 DEF Digit
  <2>3. 2 \in 1 .. Len(text) + 1 /\ \A j \in 2 .. Len(text) : text[j] \in characters
    BY <1>1, <1>2, <2>2
  <2>4. Session!Skip(text, 2, characters) = Len(text) + 1
    BY <1>1, <2>3, SkipIs
  <2>5. 1 + 1 = 2
    OBVIOUS
  <2> QED
    BY <1>2, <2>1, <2>4, <2>5, Zenon
<1>7. Session!ValueAt(text, 1) = NumberAt(text, 1, n + 1)
  BY <1>3, <1>4, <1>5, <1>6, ValueIs
<1>8. SubSeq(text, 1, n + 1 - 1) = text
  <2>1. n \in 1 .. n /\ n + 1 - 1 = n
    BY <1>2
  <2>2. SubSeq(text, 1, Len(text)) = text
    BY <1>1, <1>2, PrefixGrows
  <2> QED
    BY <1>2, <2>1, <2>2, Zenon
<1>9. NumberAt(text, 1, n + 1) = [value |-> v, next |-> n + 1 + 1]
  <2>1. NumberAt(text, 1, n + 1) =
          [value |-> IF Session!IsNumber(text) THEN Session!NumberRead(text) ELSE Session!NoValue,
           next |-> n + 1 + 1]
    <3>1. PICK number : number = SubSeq(text, 1, n + 1 - 1)
      OBVIOUS
    <3>2. NumberAt(text, 1, n + 1) =
            [value |-> IF Session!IsNumber(number) THEN Session!NumberRead(number) ELSE Session!NoValue,
             next |-> n + 1 + 1]
      BY <3>1 DEF NumberAt
    <3> QED
      BY <1>8, <3>1, <3>2
  <2> QED
    BY <1>1, <2>1
<1>10. OneValue(text, v)
  BY <1>1, <1>2, <1>3, <1>4, <1>7, <1>9 DEF OneValue
<1> QED
  BY <1>1, <1>10, OneValueRead

\* An integer that is written is read as it is, but for the smallest one.
LEMMA IntegerBack ==
  ASSUME NEW n \in Int, NEW text \in Session!WriteInteger(n), n # -IntMax - 1
  PROVE  text \in Seq(NumberChar) /\ Session!ParseValues(text) = <<<<"Integer", n>>>>
<1>1. text = Session!Sign(n) \o Session!Decimal[Session!Magnitude(n)]
  BY DEF Session!WriteInteger
<1>2. PICK v : v = <<"Integer", n>>
  OBVIOUS
<1>3. NumberText(text, v)
  BY <1>1, <1>2, IntegerText
<1>4. v # Session!NoValue
  BY <1>2, Tagged
<1> QED
  BY <1>2, <1>3, <1>4, NumberBack, Zenon

\* The first two digits of a fraction.
TwoDigits(fraction, a, b) ==
  /\ fraction \in Seq(Digit) /\ fraction # << >>
  /\ fraction[1] = Session!Digits[a + 1]
  /\ (IF Len(fraction) > 1 THEN fraction[2] ELSE "0") = Session!Digits[b + 1]

\* A fraction that is written with its sign, its integer and two digits at least.
LEMMA FractionBack ==
  ASSUME NEW h \in Int, NEW whole \in Seq(Digit), whole # << >> \/ h < 0,
         Session!NumberOf(whole) = Session!Magnitude(h) \div 100,
         NEW fraction,
         TwoDigits(fraction, (Session!Magnitude(h) % 100) \div 10, (Session!Magnitude(h) % 100) % 10),
         NEW text, text = SignOf(h < 0) \o (whole \o (<<".">> \o fraction))
  PROVE  text \in Seq(NumberChar) /\ Session!ParseValues(text) = <<<<"Float", h>>>>
<1>1. Hundredth(text, h, whole, fraction)
  BY DEF Hundredth, TwoDigits
<1>2. PICK v : v = <<"Float", h>>
  OBVIOUS
<1>3. NumberText(text, v)
  BY <1>1, <1>2, HundredthText
<1>4. v # Session!NoValue
  BY <1>2, Tagged
<1> QED
  BY <1>2, <1>3, <1>4, NumberBack, Zenon

\* Ten times a number begins with the digits of the number.
LEMMA TenTimes ==
  ASSUME NEW m \in Nat, m >= 10, NEW c, NEW d,
         Len(Session!Decimal[m]) >= 2, Session!Decimal[m][1] = c, Session!Decimal[m][2] = d
  PROVE  /\ Len(Session!Decimal[10 * m]) >= 2
         /\ Session!Decimal[10 * m][1] = c /\ Session!Decimal[10 * m][2] = d
<1>1. PICK s \in Seq(Digit) : s = Session!Decimal[m] /\ Len(s) >= 2 /\ s[1] = c /\ s[2] = d
  BY DecimalRead
<1>2. PICK n \in Nat : n = 10 * m /\ ~(n < 10) /\ n \div 10 = m /\ n % 10 \in 0 .. 9
  <2>1. PICK n \in Nat : n = 10 * m
    OBVIOUS
  <2>2. n \div 10 \in Nat /\ n % 10 \in 0 .. 9 /\ n = 10 * (n \div 10) + (n % 10)
    BY Division
  <2>3. n \div 10 = m
    BY <2>1, <2>2
  <2>4. ~(n < 10)
    BY <2>1
  <2> QED
    BY <2>1, <2>2, <2>3, <2>4
<1>3. PICK e \in Digit : e = Session!Digits[(n % 10) + 1]
  BY <1>2, DigitsAre
<1>4. Session!Decimal[n] = s \o <<e>>
  BY <1>1, <1>2, <1>3, DecimalIs
<1>5. s \o <<e>> = Append(s, e)
  OBVIOUS
<1>6. Len(Append(s, e)) >= 2 /\ Append(s, e)[1] = c /\ Append(s, e)[2] = d
  BY <1>1
<1> QED
  BY <1>2, <1>4, <1>5, <1>6, Zenon

\* What WriteFloat writes of the fraction in the build of its own.
Scaled(p) == p * 10000

\* That begins with the two digits of the fraction.
LEMMA OwnFraction ==
  \A p \in 10 .. 99 : TwoDigits(Session!Decimal[Scaled(p)], p \div 10, p % 10)
<1> SUFFICES ASSUME NEW p \in 10 .. 99
             PROVE  TwoDigits(Session!Decimal[Scaled(p)], p \div 10, p % 10)
  OBVIOUS
<1>16. PICK a \in 0 .. 9, b \in 0 .. 9 : a = p \div 10 /\ b = p % 10
  <2>1. p \div 10 \in 0 .. 9 /\ p % 10 \in 0 .. 9
    OBVIOUS
  <2> QED
    BY <2>1
<1>1. p \in Nat /\ ~(p < 10) /\ p \div 10 < 10 /\ p \div 10 \in Nat
  BY Division
<1>2. PICK d \in Digit, e \in Digit : d = Session!Digits[a + 1] /\ e = Session!Digits[b + 1]
  BY DigitsAre
<1>3. Session!Decimal[a] = <<d>>
  BY <1>1, <1>2, <1>16, DecimalIs
<1>4. Session!Decimal[p] = Session!Decimal[a] \o <<e>>
  BY <1>1, <1>2, <1>16, DecimalIs
<1>5. Session!Decimal[p] = <<d, e>>
  BY <1>3, <1>4, TextParts, Zenon
<1>6. Len(<<d, e>>) = 2 /\ <<d, e>>[1] = d /\ <<d, e>>[2] = e
  OBVIOUS
<1> DEFINE Starts(m) == /\ Len(Session!Decimal[m]) >= 2
                        /\ Session!Decimal[m][1] = d /\ Session!Decimal[m][2] = e
<1>7. Starts(p)
  BY <1>5, <1>6
<1>8. \A m \in Nat : m >= 10 /\ Starts(m) => Starts(10 * m)
  BY TenTimes
<1> HIDE DEF Starts
<1>9. PICK q \in Nat, r \in Nat, s \in Nat, t \in Nat :
        /\ q = 10 * p /\ r = 10 * q /\ s = 10 * r /\ t = 10 * s /\ t = Scaled(p)
        /\ p >= 10 /\ q >= 10 /\ r >= 10 /\ s >= 10
  <2>1. 10 * p \in Nat /\ 100 * p \in Nat /\ 1000 * p \in Nat /\ 10000 * p \in Nat
    OBVIOUS
  <2> QED
    BY <2>1 DEF Scaled
<1>10. Starts(q)
  BY <1>1, <1>7, <1>8, <1>9
<1>11. Starts(r)
  BY <1>8, <1>9, <1>10
<1>12. Starts(s)
  BY <1>8, <1>9, <1>11
<1>13. Starts(t)
  BY <1>8, <1>9, <1>12
<1>14. PICK f \in Seq(Digit) : f = Session!Decimal[t] /\ f # << >>
  BY DecimalRead
<1>15. Len(f) >= 2 /\ f[1] = d /\ f[2] = e
  BY <1>13, <1>14 DEF Starts
<1>17. TwoDigits(f, a, b)
  BY <1>2, <1>14, <1>15 DEF TwoDigits
<1> QED
  BY <1>9, <1>14, <1>16, <1>17, Zenon

\* A fraction of two digits, and of more.
LEMMA ShortFractions ==
  ASSUME NEW a \in 0 .. 9, NEW b \in 0 .. 9
  PROVE  LET two == <<Session!Digits[a + 1], Session!Digits[b + 1]>>
         IN  /\ two \in Seq(Digit) /\ TwoDigits(two, a, b)
             /\ \A more \in Seq(Digit) : TwoDigits(two \o more, a, b)
<1>1. PICK d \in Digit, e \in Digit : d = Session!Digits[a + 1] /\ e = Session!Digits[b + 1]
  BY DigitsAre
<1>2. /\ <<d, e>> \in Seq(Digit) /\ Len(<<d, e>>) = 2 /\ <<d, e>>[1] = d /\ <<d, e>>[2] = e
      /\ <<d, e>> # << >>
  OBVIOUS
<1>3. PICK two \in Seq(Digit) :
        /\ two = <<Session!Digits[a + 1], Session!Digits[b + 1]>>
        /\ Len(two) = 2 /\ two[1] = d /\ two[2] = e /\ two # << >>
  BY <1>1, <1>2, Zenon
<1>4. TwoDigits(two, a, b)
  BY <1>1, <1>3 DEF TwoDigits
<1>5. ASSUME NEW more \in Seq(Digit)
      PROVE  TwoDigits(two \o more, a, b)
  <2>1. PICK f \in Seq(Digit) : f = two \o more
    BY ConcatProperties
  <2>2. Len(f) >= 2 /\ f[1] = d /\ f[2] = e
    <3>1. /\ Len(f) = Len(two) + Len(more) /\ Len(more) \in Nat
          /\ \A i \in 1 .. Len(two) + Len(more) : f[i] = IF i <= Len(two) THEN two[i] ELSE more[i - Len(two)]
      BY <2>1, ConcatProperties
    <3> QED
      BY <1>3, <3>1
  <2>3. f # << >>
    BY <2>2
  <2>4. TwoDigits(f, a, b)
    BY <1>1, <2>2, <2>3 DEF TwoDigits
  <2> QED
    BY <2>1, <2>4, Zenon
<1> QED
  BY <1>3, <1>4, <1>5, Zenon

\* What is left of two parts: the first, and the begin of the second.
Keeps(s, z, n, D) == \E y \in Seq(D) : Session!Cut(s \o z, n) = s \o y

\* A text that is cut behind its first part keeps that part.
LEMMA CutBehind ==
  \A C, D : \A s \in Seq(C), z \in Seq(D), n \in Nat : Len(s) <= n => Keeps(s, z, n, D)
<1> SUFFICES ASSUME NEW C, NEW D, NEW s \in Seq(C), NEW z \in Seq(D), NEW n \in Nat, Len(s) <= n
             PROVE  \E y \in Seq(D) : Session!Cut(s \o z, n) = s \o y
  BY DEF Keeps
<1>1. CASE ~(Len(s \o z) > n)
  BY <1>1 DEF Session!Cut
<1>2. CASE Len(s \o z) > n
  <2>1. PICK y : y = [i \in 1 .. n - Len(s) |-> z[i]]
    OBVIOUS
  <2>2. n - Len(s) <= Len(z)
    BY <1>2
  <2>3. y \in Seq(D) /\ Len(y) = n - Len(s) /\ \A i \in 1 .. n - Len(s) : y[i] = z[i]
    BY <2>1, <2>2
  <2>4. SubSeq(s \o z, 1, n) = s \o y
    BY SMTT(30), <2>2, <2>3
  <2> QED
    BY <1>2, <2>3, <2>4 DEF Session!Cut
<1> QED
  BY <1>1, <1>2

\* Three texts that are put together from the left or from the right.
Groups(a, b, c) == (a \o b) \o c = a \o (b \o c)

\* Both are the same.
LEMMA Grouped == \A C : \A a, b, c \in Seq(C) : Groups(a, b, c)
BY ConcatAssociative DEF Groups

\* Five texts that are put together from the left or from the right.
RegroupsMore(a, b, c, d, e) == a \o b \o c \o d \o e = a \o (b \o (c \o (d \o e)))

\* Both are the same.
LEMMA RegroupedMore == \A C : \A a, b, c, d, e \in Seq(C) : RegroupsMore(a, b, c, d, e)
<1> SUFFICES ASSUME NEW C, NEW a \in Seq(C), NEW b \in Seq(C), NEW c \in Seq(C), NEW d \in Seq(C),
                    NEW e \in Seq(C)
             PROVE  RegroupsMore(a, b, c, d, e)
  OBVIOUS
<1>1. PICK ab \in Seq(C) : ab = a \o b
  BY ConcatProperties
<1>2. PICK de \in Seq(C) : de = d \o e
  BY ConcatProperties
<1>3. PICK abc \in Seq(C) : abc = ab \o c
  BY ConcatProperties
<1>4. (abc \o d) \o e = abc \o (d \o e)
  <2>1. Groups(abc, d, e)
    BY Grouped, Zenon
  <2> QED
    BY <2>1 DEF Groups
<1>5. Regroups(a, b, c, de)
  BY Regrouped, Zenon
<1>6. a \o b \o c \o de = a \o (b \o (c \o de))
  BY <1>5 DEF Regroups
<1> QED
  BY <1>1, <1>2, <1>3, <1>4, <1>6, Zenon DEF RegroupsMore

\* The constants of the client, by the names they have here.
LEMMA ValueConstants ==
  /\ IntMax \in Nat /\ MaxString \in Nat /\ MaxValue \in Nat /\ MaxValue >= 6
  /\ Numbers \subseteq Int /\ Hundredths \subseteq Int
  /\ ByteArrays \subseteq Seq(0 .. 255)
BY ValuesAssumption DEF Session!ClientAssumption

\* The fractions that a build writes so that the client can read them: those
\* that its buffer has room for, and those that the own code does not spoil.
FloatFits(h) ==
  /\ build = "snprintf" => Len(Session!ToHundredths(h)) <= MaxValue - 2
  /\ build = "dtostrf" => Len(Session!ToHundredths(h)) < MaxValue
  /\ build = "own" => /\ h \notin 0 .. 99 /\ Session!Whole(<<"Float", h>>) <= IntMax
                      /\ Session!Magnitude(h) % 100 \notin 1 .. 9

\* These are read as they are.
LEMMA FloatBack ==
  ASSUME NEW h \in Int, build \in Session!Builds, NEW text \in Session!WriteFloat(h),
         FloatFits(h)
  PROVE  text \in Seq(NumberChar) /\ Session!ParseValues(text) = <<<<"Float", h>>>>
<1>12. PICK m \in Nat : m = Session!Magnitude(h)
  BY Magnitudes
<1>13. PICK w \in Nat, p \in 0 .. 99 : w = m \div 100 /\ p = m % 100 /\ m = 100 * w + p
  BY Hundreds
<1>14. PICK a \in 0 .. 9, b \in 0 .. 9 : a = p \div 10 /\ b = p % 10
  BY <1>13, Hundreds
<1>1. /\ m = Session!Magnitude(h) /\ w = m \div 100 /\ p = m % 100 /\ a = p \div 10 /\ b = p % 10
      /\ m = 100 * w + p
  BY <1>12, <1>13, <1>14, Zenon
<1>2. Session!Whole(<<"Float", h>>) = w
  <2>1. PICK v : v = <<"Float", h>>
    OBVIOUS
  <2>2. v[1] = "Float" /\ v[2] = h
    <3>1. <<"Float", h>>[1] = "Float" /\ <<"Float", h>>[2] = h
      BY Tagged
    <3> QED
      BY <2>1, <3>1, Zenon
  <2>3. Session!Whole(v) = Session!Magnitude(v[2]) \div 100
    BY <2>2 DEF Session!Whole
  <2> QED
    BY <1>1, <2>1, <2>2, <2>3
<1>3. PICK negative \in BOOLEAN : negative = (h < 0) /\ Session!Sign(h) = SignOf(negative)
  BY Magnitudes, Zenon
<1>4. PICK whole \in Seq(Digit) : whole = Session!Decimal[w] /\ whole # << >> /\ Session!NumberOf(whole) = w
  BY DecimalRead
<1>5. PICK two \in Seq(Digit) :
        /\ two = <<Session!Digits[a + 1], Session!Digits[b + 1]>>
        /\ TwoDigits(two, a, b) /\ \A more \in Seq(Digit) : TwoDigits(two \o more, a, b)
  BY ShortFractions
<1>6. PICK point \in Seq(NumberChar), sign \in Seq(NumberChar) : point = <<".">> /\ sign = SignOf(negative)
  BY TextParts
<1>7. whole \in Seq(NumberChar) /\ two \in Seq(NumberChar)
  BY TextParts, SeqMonotonic
<1>15. \A more \in Seq(Digit) : more \in Seq(NumberChar)
  BY TextParts, SeqMonotonic
<1> HIDE DEF NumberChar
<1>16. PICK base \in Seq(NumberChar) : base = Session!ToHundredths(h) /\ base = sign \o whole \o point \o two
  <2>1. Session!ToHundredths(h) = Session!Sign(h) \o Session!Decimal[w] \o <<".">>
                                    \o <<Session!Digits[a + 1], Session!Digits[b + 1]>>
    BY <1>1, <1>2, ZenonT(90) DEF Session!ToHundredths
  <2>2. Session!ToHundredths(h) = sign \o whole \o point \o two
    BY <1>3, <1>4, <1>5, <1>6, <2>1, Zenon
  <2>3. sign \o whole \o point \o two \in Seq(NumberChar)
    BY <1>6, <1>7
  <2> QED
    BY <2>2, <2>3
<1>8. ASSUME NEW front \in Seq(Digit), front # << >> \/ h < 0, Session!NumberOf(front) = w,
             NEW fraction, TwoDigits(fraction, a, b), text = sign \o (front \o (point \o fraction))
      PROVE  text \in Seq(NumberChar) /\ Session!ParseValues(text) = <<<<"Float", h>>>>
  <2>1. text = SignOf(h < 0) \o (front \o (<<".">> \o fraction))
    BY <1>3, <1>6, <1>8, Zenon
  <2>2. TwoDigits(fraction, (Session!Magnitude(h) % 100) \div 10, (Session!Magnitude(h) % 100) % 10)
    BY <1>1, <1>8
  <2>3. Session!NumberOf(front) = Session!Magnitude(h) \div 100
    BY <1>1, <1>8
  <2> QED
    BY <1>8, <2>1, <2>2, <2>3, FractionBack
<1>9. CASE build = "snprintf"
  <2>1. PICK zeros \in Seq(Digit) : zeros = <<"0", "0", "0", "0">>
    <3>1. PICK o \in Digit : o = "0"
      BY DigitsAre
    <3>2. <<o, o, o, o>> \in Seq(Digit)
      OBVIOUS
    <3> QED
      BY <3>1, <3>2, Zenon
  <2>2. text = Session!Cut(base \o zeros, MaxValue - 2)
    BY <1>9, <1>16, <2>1, Zenon DEF Session!WriteFloat
  <2>3. PICK n \in Nat : n = MaxValue - 2 /\ Len(base) <= n
    <3>1. MaxValue - 2 \in Nat
      BY ValueConstants
    <3>2. Len(Session!ToHundredths(h)) <= MaxValue - 2
      BY <1>9 DEF FloatFits
    <3> QED
      BY <1>16, <3>1, <3>2, Zenon
  <2>4. PICK more \in Seq(Digit) : text = base \o more
    <3>1. Keeps(base, zeros, n, Digit)
      BY <2>3, CutBehind, Zenon
    <3> QED
      BY <2>2, <2>3, <3>1, Zenon DEF Keeps
  <2>5. RegroupsMore(sign, whole, point, two, more)
    BY <1>7, <1>15, RegroupedMore, Zenon
  <2>6. text = sign \o (whole \o (point \o (two \o more)))
    BY <1>16, <2>4, <2>5, Zenon DEF RegroupsMore
  <2> QED
    BY <1>4, <1>5, <1>8, <2>6
<1>10. CASE build = "dtostrf"
  <2>1. text = base
    <3>1. Len(Session!ToHundredths(h)) < MaxValue
      BY <1>10 DEF FloatFits
    <3> QED
      BY <1>10, <1>16, <3>1, Zenon DEF Session!WriteFloat
  <2>2. Regroups(sign, whole, point, two)
    BY <1>7, Regrouped, Zenon
  <2>3. text = sign \o (whole \o (point \o two))
    BY <1>16, <2>1, <2>2, Zenon DEF Regroups
  <2> QED
    BY <1>4, <1>5, <1>8, <2>3
<1>11. CASE build = "own"
  <2>1. h \notin 0 .. 99 /\ w <= IntMax /\ p \notin 1 .. 9
    BY <1>1, <1>2, <1>11, Zenon DEF FloatFits
  <2>9. PICK front : front = IF w = 0 THEN << >> ELSE Session!Decimal[w]
    OBVIOUS
  <2>10. PICK tenths : tenths = Session!Decimal[Scaled(p)]
    OBVIOUS
  <2>11. PICK fraction : fraction = IF p = 0 THEN <<"0">> ELSE tenths
    OBVIOUS
  <2>2. /\ front = IF w = 0 THEN << >> ELSE Session!Decimal[w]
        /\ fraction = IF p = 0 THEN <<"0">> ELSE tenths
    BY <2>9, <2>11, Zenon
  <2>8. text = Session!Sign(h) \o (front \o <<".">> \o fraction)
    <3>1. PICK own : own = front \o <<".">> \o fraction
      OBVIOUS
    <3>2. PICK large : large = Session!Decimal[IntMax] \o <<".">> \o Session!Decimal[IntMax]
      OBVIOUS
    <3>3. Session!WriteFloat(h) =
            {Session!Sign(h) \o t : t \in IF w <= IntMax THEN {own} ELSE {large, <<"/">>}}
      <4>1. build # "snprintf" /\ build # "dtostrf"
        BY <1>11
      <4>2. PICK u, q : u = Session!Whole(<<"Float", h>>) /\ q = Session!Magnitude(h) % 100
        OBVIOUS
      <4>3. Session!WriteFloat(h) =
              {Session!Sign(h) \o t :
                 t \in IF u <= IntMax
                       THEN {(IF u = 0 THEN << >> ELSE Session!Decimal[u]) \o <<".">>
                               \o (IF q = 0 THEN <<"0">> ELSE Session!Decimal[Scaled(q)])}
                       ELSE {large, <<"/">>}}
        BY <1>11, <3>2, <4>1, <4>2 DEF Session!WriteFloat, Scaled
      <4>4. u = w /\ q = p
        BY <1>1, <1>2, <4>2, Zenon
      <4> QED
        BY <2>2, <2>10, <3>1, <4>3, <4>4, Zenon
    <3> QED
      BY <2>1, <3>1, <3>3
  <2>3. front \in Seq(Digit) /\ Session!NumberOf(front) = w /\ (front # << >> \/ h < 0)
    <3>1. CASE w = 0
      <4>1. h < 0
        BY <1>1, <2>1, <3>1 DEF Session!Magnitude
      <4>2. << >> \in Seq(Digit) /\ Session!NumberOf(<< >>) = 0
        <5>1. << >> \in Seq(Digit) /\ Len(<< >>) = 0
          OBVIOUS
        <5> QED
          BY <5>1, NumberIs
      <4>3. front = << >>
        BY <2>2, <3>1
      <4> QED
        BY <3>1, <4>1, <4>2, <4>3
    <3>2. CASE w # 0
      <4>1. front = whole
        BY <1>4, <2>2, <3>2
      <4> QED
        BY <1>4, <4>1
    <3> QED
      BY <3>1, <3>2
  <2>4. TwoDigits(fraction, a, b)
    <3>1. CASE p = 0
      <4>1. a = 0 /\ b = 0
        BY <1>1, <3>1
      <4>2. PICK o \in Digit : o = "0" /\ o = Session!Digits[1]
        BY DigitsAre
      <4>3. <<o>> \in Seq(Digit) /\ Len(<<o>>) = 1 /\ <<o>>[1] = o /\ <<o>> # << >>
        OBVIOUS
      <4>4. TwoDigits(<<o>>, a, b)
        <5>1. a + 1 = 1 /\ b + 1 = 1 /\ ~(1 > 1)
          BY <4>1
        <5> QED
          BY <4>2, <4>3, <5>1 DEF TwoDigits
      <4>5. fraction = <<"0">>
        BY <2>2, <3>1
      <4> QED
        BY <4>2, <4>4, <4>5, Zenon
    <3>2. CASE p # 0
      <4>1. p \in 10 .. 99
        BY <2>1, <3>2
      <4>2. TwoDigits(tenths, a, b)
        <5>1. TwoDigits(Session!Decimal[Scaled(p)], p \div 10, p % 10)
          BY <4>1, OwnFraction
        <5> QED
          BY <1>14, <2>10, <5>1, Zenon
      <4>3. fraction = tenths
        BY <2>2, <3>2, Zenon
      <4> QED
        BY <4>2, <4>3, Zenon
    <3> QED
      BY <3>1, <3>2
  <2>5. front \in Seq(NumberChar) /\ fraction \in Seq(NumberChar)
    <3>1. fraction \in Seq(Digit)
      BY <2>4 DEF TwoDigits
    <3> QED
      BY <2>3, <3>1, TextParts, SeqMonotonic
  <2>6. (front \o point) \o fraction = front \o (point \o fraction)
    <3>1. point \in Seq(NumberChar)
      BY <1>6
    <3>2. Groups(front, point, fraction)
      BY <2>5, <3>1, Grouped, Zenon
    <3> QED
      BY <3>2 DEF Groups
  <2>7. text = sign \o (front \o (point \o fraction))
    BY <1>3, <1>6, <2>6, <2>8, Zenon
  <2> QED
    BY <1>8, <2>3, <2>4, <2>7
<1> QED
  BY <1>9, <1>10, <1>11 DEF Session!Builds

\* A string without quotes, backslashes and line breaks is read as it is.
LEMMA StringBack ==
  ASSUME NEW s \in Seq(Letters), Session!Range(s) \cap ({Session!Quote, Session!Backslash} \cup Session!Breaks) = {},
         NEW text, text = <<Session!Quote>> \o Session!WriteString(s) \o <<Session!Quote>>
  PROVE  Session!ParseValues(text) = <<<<"String", s>>>>
<1>1. PICK n \in Nat : n = Len(s) /\ DOMAIN s = 1 .. n
  BY LenProperties
<1>2. PICK C : Letters \subseteq C /\ Session!Quote \in C
  <2>1. Letters \subseteq Letters \cup {Session!Quote} /\ Session!Quote \in Letters \cup {Session!Quote}
    OBVIOUS
  <2> QED
    BY <2>1
<1>3. s \in Seq(C)
  BY <1>2, SeqMonotonic
<1> DEFINE blocks == [i \in 1 .. n |->
             CASE s[i] = "\n" -> <<Session!Backslash, "n">>
               [] s[i] = "\r" -> <<Session!Backslash, "r">>
               [] s[i] \in {Session!Backslash, Session!Quote} -> <<Session!Backslash, s[i]>>
               [] OTHER -> <<s[i]>>]
<1>4. ASSUME NEW i \in 1 .. n
      PROVE  s[i] \in C /\ s[i] # Session!Quote /\ blocks[i] = <<s[i]>>
  <2>1. s[i] \in C /\ s[i] \in Session!Range(s)
    BY <1>1, <1>3 DEF Session!Range
  <2>2. s[i] # "\n" /\ s[i] # "\r" /\ s[i] \notin {Session!Backslash, Session!Quote}
    BY <2>1 DEF Session!Breaks
  <2> QED
    BY <2>1, <2>2
<1>5. Session!WriteString(s) = Session!FlattenSeq(blocks)
  BY <1>1 DEF Session!WriteString
<1>6. blocks \in [1 .. n -> Seq(C)]
  <2>1. ASSUME NEW i \in 1 .. n
        PROVE  <<s[i]>> \in Seq(C)
    <3>1. PICK c \in C : c = s[i]
      BY <1>4
    <3>2. <<c>> \in Seq(C)
      OBVIOUS
    <3> QED
      BY <3>1, <3>2, Zenon
  <2>2. DOMAIN blocks = 1 .. n /\ blocks = [i \in 1 .. n |-> blocks[i]]
    OBVIOUS
  <2> HIDE DEF blocks
  <2> QED
    BY <1>4, <2>1, <2>2
<1> HIDE DEF blocks
<1>7. Session!WriteString(s) = s
  <2>1. Session!FlattenSeq(blocks) = s
    BY <1>1, <1>3, <1>4, <1>6, FlattenedOnes
  <2> QED
    BY <1>5, <2>1, Zenon
<1>8. PICK t \in Seq(C) : Quoted(t, s, n)
  BY <1>1, <1>2, <1>3, BetweenQuotes
<1>9. t = text
  BY <1>7, <1>8, Zenon DEF Quoted
<1>10. /\ Len(t) = n + 2 /\ t # << >> /\ t[1] = Session!Quote /\ t[n + 2] = Session!Quote
       /\ \A j \in 1 .. n : t[j + 1] = s[j]
  BY <1>8 DEF Quoted
<1>11. \A j \in 2 .. n + 1 : t[j] \notin {Session!Quote}
  <2>1. ASSUME NEW j \in 2 .. n + 1
        PROVE  t[j] # Session!Quote
    <3>1. PICK i \in 1 .. n : i = j - 1 /\ j = i + 1
      OBVIOUS
    <3> QED
      <4>1. t[i + 1] = s[i] /\ s[i] # Session!Quote
        BY <1>4, <1>10
      <4> QED
        BY <3>1, <4>1, Zenon
  <2> QED
    BY <2>1
<1>12. Session!Find(t, 2, {Session!Quote}) = n + 2
  <2>1. PICK k : k = Session!Find(t, 2, {Session!Quote})
    OBVIOUS
  <2>2. FirstOf(t, 2, {Session!Quote}, k)
    <3>1. 2 \in 1 .. Len(t) + 1
      BY <1>10
    <3> QED
      BY <2>1, <3>1, FindIs
  <2>3. /\ k \in 2 .. n + 3 /\ \A j \in 2 .. k - 1 : t[j] \notin {Session!Quote}
        /\ k <= n + 2 => t[k] \in {Session!Quote}
    BY <1>10, <2>2 DEF FirstOf
  <2>4. ~(k > n + 2)
    <3>1. k > n + 2 => n + 2 \in 2 .. k - 1
      BY <2>3
    <3> QED
      BY <1>10, <2>3, <3>1
  <2>5. ~(k < n + 2)
    <3>1. k < n + 2 => k \in 2 .. n + 1
      BY <2>3
    <3> QED
      BY <1>11, <2>3, <3>1
  <2>6. k = n + 2
    BY <2>3, <2>4, <2>5
  <2> QED
    BY <2>1, <2>6
<1>13. SubSeq(t, 2, n + 1) = s
  <2>1. PICK u : u = SubSeq(t, 2, n + 1)
    OBVIOUS
  <2>2. u \in Seq(C) /\ Len(u) = n /\ \A i \in 1 .. n : u[i] = t[i + 1]
    BY <1>10, <2>1
  <2>3. \A i \in 1 .. n : u[i] = s[i]
    BY <1>10, <2>2
  <2> QED
    BY <1>1, <1>3, <2>1, <2>2, <2>3, SeqEqual
<1>14. PICK v : v = <<"String", s>> /\ v # Session!NoValue
  <2>1. PICK v : v = <<"String", s>>
    OBVIOUS
  <2> QED
    BY <2>1, Tagged
<1>15. Session!ValueAt(t, 1) = [value |-> v, next |-> n + 3]
  <2>1. Session!ValueAt(t, 1) = StringAt(t, 1, n + 2)
    <3>1. Session!ValueAt(t, 1) = StringAt(t, 1, Session!Find(t, 1 + 1, {Session!Quote}))
      BY <1>10, ValueIs
    <3>2. 1 + 1 = 2
      OBVIOUS
    <3> QED
      BY <1>12, <3>1, <3>2, Zenon
  <2>2. ~(n + 2 > Len(t)) /\ n + 2 - 1 = n + 1 /\ 1 + 1 = 2 /\ n + 2 + 1 = n + 3
    BY <1>10
  <2>3. PICK u : u = SubSeq(t, 1 + 1, n + 2 - 1)
    OBVIOUS
  <2>4. StringAt(t, 1, n + 2) = [value |-> <<"String", u>>, next |-> n + 3]
    BY <2>2, <2>3 DEF StringAt
  <2>5. u = s
    BY <1>13, <2>2, <2>3, Zenon
  <2> QED
    BY <1>14, <2>1, <2>4, <2>5, Zenon
<1>16. OneValue(t, v)
  <2>1. t[1] \notin Session!Whitespace \cup {"[", "]"}
    BY <1>10 DEF Session!Whitespace, Session!Quote
  <2> QED
    BY <1>10, <1>14, <1>15, <2>1 DEF OneValue
<1> QED
  BY <1>9, <1>14, <1>16, OneValueRead, Zenon

\* What follows a value has the value.
LEMMA FollowingSome ==
  ASSUME NEW later, NEW value, NEW next \in Nat, Place(later[next], next)
  PROVE  Following(later, value, next).values # << >>
<1>1. Session!Raised # << >>
  BY DEF Session!Raised
<1>2. <<value>> \o later[next].values # << >>
  BY Sequences DEF Place
<1> QED
  BY <1>1, <1>2 DEF Following

\* Something is read of a text without brackets that ends with a quote.
LEMMA SomethingRead ==
  ASSUME NEW C, "]" \notin C, NEW text \in Seq(C), NEW n \in Nat, n = Len(text), text[n] = Session!Quote,
         NEW from, ReadFrom(text, from)
  PROVE  \A i \in 1 .. n : from[i].values # << >>
<1>1. CASE n = 0
  BY <1>1
<1>2. CASE n # 0
  <2>1. PICK l \in Nat : l = n - 1 /\ n = l + 1
    BY <1>2
  <2> DEFINE T == {m \in 0 .. l : from[n - m].values # << >>}
  <2>2. ASSUME NEW i \in 1 .. n, text[i] \notin Session!Whitespace
        PROVE  from[i].values # << >>
    <3>1. text[i] # "]"
      BY ElementOfSeq
    <3>2. from[i] = Session!ValuesFrom(text, from, i)
      BY DEF ReadFrom
    <3>3. ~(i > Len(text))
      OBVIOUS
    <3>4. CASE text[i] = "["
      <4>1. PICK k \in Nat : k = i + 1
        OBVIOUS
      <4>2. PICK m \in Nat : m = from[k].next
        BY DEF ReadFrom, Place
      <4>3. \E value : from[i] = Following(from, value, m)
        BY <3>2, <3>3, <3>4, <4>1, <4>2, FromOpen
      <4>4. Place(from[m], m)
        BY DEF ReadFrom
      <4> QED
        BY <4>3, <4>4, FollowingSome
    <3>5. CASE text[i] # "["
      <4>1. PICK m \in Nat : m = Session!ValueAt(text, i).next
        <5>1. i \in 0 .. Len(text)
          OBVIOUS
        <5> QED
          BY <5>1, ValueEnds
      <4>2. from[i] = Following(from, Session!ValueAt(text, i).value, m)
        BY <2>2, <3>1, <3>2, <3>3, <3>5, <4>1, FromValue
      <4>3. Place(from[m], m)
        BY DEF ReadFrom
      <4> QED
        BY <4>2, <4>3, FollowingSome
    <3> QED
      BY <3>4, <3>5
  <2>3. Session!Quote \notin Session!Whitespace
    BY DEF Session!Quote, Session!Whitespace
  <2>4. 0 \in T
    <3>1. n - 0 = n /\ n \in 1 .. n
      BY <1>2
    <3>2. from[n].values # << >>
      BY <2>2, <2>3, <3>1
    <3> QED
      BY <3>1, <3>2
  <2>5. ASSUME NEW m \in 0 .. l - 1, m \in T
        PROVE  m + 1 \in T
    <3>1. PICK i \in 1 .. n : i = n - (m + 1) /\ i + 1 = n - m /\ ~(i > n)
      <4>1. PICK i \in 1 .. l : i = l - m
        OBVIOUS
      <4>2. i \in 1 .. n /\ i = n - (m + 1) /\ i + 1 = n - m /\ ~(i > n)
        BY <2>1, <4>1
      <4> QED
        BY <4>1, <4>2
    <3>2. from[i + 1].values # << >>
      BY <2>5, <3>1
    <3>3. text[i] \in Session!Whitespace => from[i] = from[i + 1]
      <4>1. from[i] = Session!ValuesFrom(text, from, i)
        BY DEF ReadFrom
      <4>2. ~(i > Len(text))
        BY <3>1
      <4> QED
        BY <4>1, <4>2, FromSpace
    <3>4. from[i].values # << >>
      BY <2>2, <3>2, <3>3
    <3> QED
      BY <3>1, <3>4
  <2>6. \A m \in 0 .. l : m \in T
    <3> HIDE DEF T
    <3> QED
      BY <2>4, <2>5, Counting
  <2>7. ASSUME NEW i \in 1 .. n
        PROVE  from[i].values # << >>
    <3>1. PICK m \in 0 .. l : m = n - i /\ n - m = i
      BY <2>1
    <3> QED
      BY <2>6, <3>1
  <2> QED
    BY <2>7
<1> QED
  BY <1>1, <1>2

\* A string with a quote and without a bracket is read as more than one value,
\* or as none.
LEMMA QuotesTold ==
  ASSUME NEW s \in Seq(Letters), Session!Quote \in Session!Range(s), "]" \notin Session!Range(s),
         NEW text, text = <<Session!Quote>> \o Session!WriteString(s) \o <<Session!Quote>>
  PROVE  Session!ParseValues(text) = Session!Raised \/ Len(Session!ParseValues(text)) > 1
<1>1. PICK n \in Nat : n = Len(s) /\ DOMAIN s = 1 .. n
  BY LenProperties
<1> DEFINE C == Session!Range(s) \cup {Session!Backslash, "n", "r"}
<1>2. Session!Quote \in C /\ "]" \notin C /\ Session!Backslash \in C /\ "n" \in C /\ "r" \in C
  BY DEF Session!Backslash
<1>3. \A i \in 1 .. n : s[i] \in C
  BY <1>1 DEF Session!Range
<1> HIDE DEF C
<1> DEFINE blocks == [i \in 1 .. n |->
             CASE s[i] = "\n" -> <<Session!Backslash, "n">>
               [] s[i] = "\r" -> <<Session!Backslash, "r">>
               [] s[i] \in {Session!Backslash, Session!Quote} -> <<Session!Backslash, s[i]>>
               [] OTHER -> <<s[i]>>]
<1>4. ASSUME NEW c \in C, NEW d \in C
      PROVE  /\ <<c, d>> \in Seq(C) /\ <<c>> \in Seq(C)
             /\ Len(<<c, d>>) = 2 /\ <<c, d>>[2] = d
  OBVIOUS
<1>5. blocks \in [1 .. n -> Seq(C)]
  <2>1. ASSUME NEW i \in 1 .. n
        PROVE  blocks[i] \in Seq(C)
    <3>1. /\ <<Session!Backslash, "n">> \in Seq(C) /\ <<Session!Backslash, "r">> \in Seq(C)
          /\ <<Session!Backslash, s[i]>> \in Seq(C) /\ <<s[i]>> \in Seq(C)
      BY <1>2, <1>3, <1>4
    <3>2. blocks[i] \in {<<Session!Backslash, "n">>, <<Session!Backslash, "r">>,
                         <<Session!Backslash, s[i]>>, <<s[i]>>}
      <4>1. CASE s[i] = "\n"
        BY <4>1
      <4>2. CASE s[i] = "\r"
        BY <4>2
      <4>3. CASE s[i] # "\n" /\ s[i] # "\r" /\ s[i] \in {Session!Backslash, Session!Quote}
        BY <4>3
      <4>4. CASE s[i] # "\n" /\ s[i] # "\r" /\ s[i] \notin {Session!Backslash, Session!Quote}
        BY <4>4
      <4> QED
        BY <4>1, <4>2, <4>3, <4>4
    <3> HIDE DEF blocks
    <3> QED
      BY <3>1, <3>2
  <2>2. DOMAIN blocks = 1 .. n /\ blocks = [i \in 1 .. n |-> blocks[i]]
    OBVIOUS
  <2> HIDE DEF blocks
  <2> QED
    BY <2>1, <2>2
<1>6. PICK q \in 1 .. n : s[q] = Session!Quote
  BY <1>1 DEF Session!Range
<1>7. Len(blocks[q]) = 2 /\ blocks[q][2] = Session!Quote
  <2>1. blocks[q] = <<Session!Backslash, Session!Quote>>
    BY <1>6 DEF Session!Quote
  <2> HIDE DEF blocks
  <2> QED
    BY <1>2, <1>4, <2>1
<1>8. Session!WriteString(s) = Session!FlattenSeq(blocks)
  BY <1>1 DEF Session!WriteString
<1> HIDE DEF blocks
<1>9. PICK F \in Seq(C) : F = Session!WriteString(s)
  BY <1>5, <1>8, Flattened
<1>10. PICK at \in [0 .. n -> Nat] : Ends(at, n, blocks, F)
  BY <1>5, <1>8, <1>9, Flattened
<1>11. PICK l \in Nat : l = Len(F)
  BY LenProperties
<1>12. PICK p \in 1 .. l : F[p] = Session!Quote
  <2>1. PICK a \in Nat : a = at[q - 1]
    BY <1>10
  <2>2. at[q] = a + 2 /\ at[q] <= l /\ F[a + 2] = Session!Quote
    <3>1. at[q] = at[q - 1] + Len(blocks[q]) /\ at[q] <= Len(F)
      BY <1>10 DEF Ends
    <3>2. \A k \in 1 .. Len(blocks[q]) : F[at[q - 1] + k] = blocks[q][k]
      BY <1>10 DEF Ends
    <3>3. F[a + 2] = blocks[q][2]
      BY <1>7, <2>1, <3>2
    <3> QED
      BY <1>7, <1>11, <2>1, <3>1, <3>3
  <2>3. a + 2 \in 1 .. l
    BY <2>2
  <2> QED
    BY <2>2, <2>3
<1>13. PICK t \in Seq(C) : Quoted(t, F, l)
  BY <1>2, <1>11, BetweenQuotes
<1>14. /\ t = text /\ Len(t) = l + 2 /\ t # << >> /\ t[1] = Session!Quote /\ t[l + 2] = Session!Quote
       /\ t[p + 1] = Session!Quote
  <2>1. t = text
    BY <1>9, <1>13, Zenon DEF Quoted
  <2> QED
    BY <1>12, <1>13, <2>1 DEF Quoted
<1>15. PICK k \in 2 .. l + 1 : k = Session!Find(t, 2, {Session!Quote})
  <2>1. PICK k : k = Session!Find(t, 2, {Session!Quote})
    OBVIOUS
  <2>2. FirstOf(t, 2, {Session!Quote}, k)
    <3>1. 2 \in 1 .. Len(t) + 1
      BY <1>14
    <3> QED
      BY <2>1, <3>1, FindIs
  <2>3. k \in 2 .. l + 3 /\ \A j \in 2 .. k - 1 : t[j] \notin {Session!Quote}
    BY <1>14, <2>2 DEF FirstOf
  <2>4. ~(k > p + 1)
    <3>1. k > p + 1 => p + 1 \in 2 .. k - 1
      BY <2>3
    <3> QED
      BY <1>14, <2>3, <3>1
  <2>5. k \in 2 .. l + 1
    BY <2>3, <2>4
  <2> QED
    BY <2>1, <2>5
<1>16. PICK from : ReadFrom(t, from) /\ Session!ParseValues(t) = from[1].values
  BY ParsedFrom
<1>17. PICK v : v # Session!NoValue /\ Session!ValueAt(t, 1) = [value |-> v, next |-> k + 1]
  <2>1. Session!ValueAt(t, 1) = StringAt(t, 1, k)
    <3>1. Session!ValueAt(t, 1) = StringAt(t, 1, Session!Find(t, 1 + 1, {Session!Quote}))
      BY <1>14, ValueIs
    <3>2. 1 + 1 = 2
      OBVIOUS
    <3> QED
      BY <1>15, <3>1, <3>2, Zenon
  <2>2. PICK u : u = SubSeq(t, 1 + 1, k - 1)
    OBVIOUS
  <2>3. PICK v : v = <<"String", u>>
    OBVIOUS
  <2>4. ~(k > Len(t))
    BY <1>14
  <2>5. StringAt(t, 1, k) = [value |-> v, next |-> k + 1]
    BY <2>2, <2>3, <2>4 DEF StringAt
  <2>6. v # Session!NoValue
    BY <2>3, Tagged
  <2> QED
    BY <2>1, <2>5, <2>6
<1>18. PICK m \in Nat : m = k + 1 /\ m \in 1 .. l + 2
  OBVIOUS
<1>19. from[1] = Following(from, v, m)
  <2>1. from[1] = Session!ValuesFrom(t, from, 1) /\ ~(1 > Len(t))
    <3>1. ~(1 > Len(t))
      BY <1>14
    <3>2. from[1] = Session!ValuesFrom(t, from, 1)
      BY <1>16 DEF ReadFrom
    <3> QED
      BY <3>1, <3>2
  <2>2. t[1] \notin Session!Whitespace \cup {"[", "]"}
    BY <1>14 DEF Session!Whitespace, Session!Quote
  <2>3. Session!ValueAt(t, 1).value = v /\ Session!ValueAt(t, 1).next = m
    BY <1>17, <1>18
  <2> QED
    BY <2>1, <2>2, <2>3, FromValue
<1>20. PICK after : after = from[m].values /\ after # << >> /\ IsSequence(after)
  <2>1. from[m].values # << >>
    <3>1. \A i \in 1 .. l + 2 : from[i].values # << >>
      <4>1. PICK e \in Nat : e = l + 2
        OBVIOUS
      <4>2. e = Len(t) /\ t[e] = Session!Quote
        BY <1>14, <4>1
      <4>3. \A i \in 1 .. e : from[i].values # << >>
        BY <1>2, <1>16, <4>2, SomethingRead
      <4> QED
        BY <4>1, <4>3
    <3> QED
      BY <1>18, <3>1
  <2> QED
    BY <1>16, <2>1 DEF ReadFrom, Place
<1>21. from[1].values = Session!Raised \/ from[1].values = <<v>> \o after
  <2>1. \/ from[1] = [values |-> Session!Raised, next |-> m]
        \/ from[1] = [values |-> <<v>> \o after, next |-> from[m].next]
    BY <1>19, <1>20, Zenon DEF Following
  <2> QED
    BY <2>1, SMTT(30)
<1>22. Len(<<v>> \o after) > 1
  <2>1. Len(<<v>> \o after) = Len(after) + 1 /\ Len(after) \in Nat
    BY <1>20, Sequences
  <2>2. Len(after) # 0
    BY <1>20, EmptySeq DEF IsSequence
  <2> QED
    BY <2>1, <2>2
<1> QED
  BY <1>14, <1>16, <1>21, <1>22, Zenon

\* A word of letters is read as one.
LEMMA WordBack ==
  ASSUME NEW text \in Seq(Session!AsciiLetters), text # << >>,
         NEW v, v # Session!NoValue, Session!WordRead(text) = v
  PROVE  Session!ParseValues(text) = <<v>>
<1>1. PICK n \in Nat : n = Len(text) /\ n >= 1
  BY EmptySeq, LenProperties
<1>2. PICK C : C = Session!AsciiLetters
  OBVIOUS
<1>3. text \in Seq(C) /\ \A i \in 1 .. n : text[i] \in C
  BY <1>1, <1>2
<1>4. PICK c : c = text[1] /\ c \in Session!AsciiLetters
  BY <1>1, <1>2, <1>3
<1>5. c \notin Session!Whitespace \cup {"[", "]"}
  BY <1>4 DEF Session!AsciiLetters, Session!Whitespace
<1>6. Session!Skip(text, 1 + 1, Session!AsciiLetters) = n + 1
  <2>1. 2 \in 1 .. Len(text) + 1 /\ \A j \in 2 .. Len(text) : text[j] \in C
    BY <1>1, <1>3
  <2>2. Session!Skip(text, 2, C) = Len(text) + 1
    BY <1>3, <2>1, SkipIs
  <2>3. 1 + 1 = 2
    OBVIOUS
  <2> QED
    BY <1>1, <1>2, <2>2, <2>3, Zenon
<1>7. Session!ValueAt(text, 1) = WordAt(text, 1, n + 1)
  BY <1>4, <1>6, ValueIs
<1>8. SubSeq(text, 1, n + 1 - 1) = text
  <2>1. n \in 1 .. n /\ n + 1 - 1 = n
    BY <1>1
  <2>2. SubSeq(text, 1, Len(text)) = text
    BY <1>1, <1>3, PrefixGrows
  <2> QED
    BY <1>1, <2>1, <2>2, Zenon
<1>9. WordAt(text, 1, n + 1) = [value |-> v, next |-> n + 1 + 1]
  <2>1. PICK word : word = SubSeq(text, 1, n + 1 - 1)
    OBVIOUS
  <2>2. WordAt(text, 1, n + 1) = [value |-> Session!WordRead(word), next |-> n + 1 + 1]
    BY <2>1 DEF WordAt
  <2> QED
    BY <1>8, <2>1, <2>2
<1>10. OneValue(text, v)
  BY <1>1, <1>4, <1>5, <1>7, <1>9 DEF OneValue
<1> QED
  BY <1>3, <1>10, OneValueRead

\* The truth values are read as what they were.
LEMMA BooleanBack ==
  /\ <<"t", "r", "u", "e">> \in Seq(Session!AsciiLetters)
  /\ <<"f", "a", "l", "s", "e">> \in Seq(Session!AsciiLetters)
  /\ Session!ParseValues(<<"t", "r", "u", "e">>) = <<<<"Boolean", TRUE>>>>
  /\ Session!ParseValues(<<"f", "a", "l", "s", "e">>) = <<<<"Boolean", FALSE>>>>
<1>1. PICK C : C = Session!AsciiLetters
  OBVIOUS
<1>2. PICK t \in C, r \in C, u \in C, e \in C, f \in C, a \in C, l \in C, s \in C :
        t = "t" /\ r = "r" /\ u = "u" /\ e = "e" /\ f = "f" /\ a = "a" /\ l = "l" /\ s = "s"
  BY <1>1 DEF Session!AsciiLetters
<1>3. /\ <<t, r, u, e>> \in Seq(C) /\ <<f, a, l, s, e>> \in Seq(C)
      /\ <<t, r, u, e>> # << >> /\ <<f, a, l, s, e>> # << >>
      /\ <<f, a, l, s, e>> # <<t, r, u, e>>
  <2>1. /\ <<t, r, u, e>> \in Seq(C) /\ <<f, a, l, s, e>> \in Seq(C)
        /\ <<t, r, u, e>> # << >> /\ <<f, a, l, s, e>> # << >>
    OBVIOUS
  <2>2. Len(<<f, a, l, s, e>>) = 5 /\ Len(<<t, r, u, e>>) = 4 /\ 5 # 4
    OBVIOUS
  <2> QED
    BY <2>1, <2>2, Zenon
<1>4. PICK yes \in Seq(C), no \in Seq(C) :
        /\ yes = <<"t", "r", "u", "e">> /\ no = <<"f", "a", "l", "s", "e">>
        /\ yes # << >> /\ no # << >> /\ no # yes
  BY <1>2, <1>3, Zenon
<1>5. Session!WordRead(yes) = <<"Boolean", TRUE>>
  BY <1>4 DEF Session!WordRead
<1>6. Session!WordRead(no) = <<"Boolean", FALSE>>
  BY <1>4 DEF Session!WordRead
<1>7. <<"Boolean", TRUE>> # Session!NoValue /\ <<"Boolean", FALSE>> # Session!NoValue
  BY Tagged
<1>8. Session!ParseValues(yes) = <<<<"Boolean", TRUE>>>>
  BY <1>1, <1>4, <1>5, <1>7, WordBack
<1>9. Session!ParseValues(no) = <<<<"Boolean", FALSE>>>>
  BY <1>1, <1>4, <1>6, <1>7, WordBack
<1> QED
  BY <1>1, <1>4, <1>8, <1>9, Zenon


\* The digits below ten are the same in both number systems.
LEMMA HexDigitsAre == \A d \in 0 .. 9 : Session!HexDigits[d + 1] = Session!Digits[d + 1]
<1>1. PICK X : X = {"0", "1", "2", "3", "4", "5", "6", "7", "8", "9",
               "A", "B", "C", "D", "E", "F"}
  OBVIOUS
<1>8. PICK z0 \in X, z1 \in X, z2 \in X, z3 \in X, z4 \in X, z5 \in X, z6 \in X, z7 \in X,
           z8 \in X, z9 \in X, xa \in X, xb \in X, xc \in X, xd \in X, xe \in X, xf \in X :
        /\ z0 = "0" /\ z1 = "1" /\ z2 = "2" /\ z3 = "3" /\ z4 = "4" /\ z5 = "5" /\ z6 = "6" /\ z7 = "7"
        /\ z8 = "8" /\ z9 = "9" /\ xa = "A" /\ xb = "B" /\ xc = "C" /\ xd = "D" /\ xe = "E" /\ xf = "F"
  BY <1>1
<1>9. /\ <<z0, z1, z2, z3, z4, z5, z6, z7, z8, z9>> \in Seq(X)
      /\ Len(<<z0, z1, z2, z3, z4, z5, z6, z7, z8, z9>>) = 10
      /\ <<xa, xb, xc, xd, xe, xf>> \in Seq(X)
  OBVIOUS
<1>2. PICK ten \in Seq(X) : ten = Session!Digits /\ Len(ten) = 10
  BY <1>8, <1>9, Zenon DEF Session!Digits
<1>3. PICK six \in Seq(X) : six = <<"A", "B", "C", "D", "E", "F">>
  BY <1>8, <1>9, Zenon
<1>4. PICK all : all = ten \o six
  OBVIOUS
<1>5. \A i \in 1 .. 10 : all[i] = ten[i]
  <2>1. \A i \in 1 .. Len(ten) + Len(six) : all[i] = IF i <= Len(ten) THEN ten[i] ELSE six[i - Len(ten)]
    BY <1>4, ConcatProperties
  <2>2. Len(six) \in Nat
    BY LenProperties
  <2> QED
    BY <1>2, <2>1, <2>2
<1>6. Session!HexDigits = all
  BY <1>2, <1>3, <1>4, Zenon DEF Session!HexDigits
<1>7. \A d \in 0 .. 9 : d + 1 \in 1 .. 10
  OBVIOUS
<1> QED
  BY <1>2, <1>5, <1>6, <1>7, Zenon

\* A byte array whose digits are below ten is read as it is.
LEMMA BytesBack ==
  ASSUME NEW bytes \in Seq(0 .. 255),
         \A i \in DOMAIN bytes : bytes[i] \div 16 < 10 /\ bytes[i] % 16 < 10,
         NEW text, text = Session!WriteByteArray(bytes)
  PROVE  Session!ParseValues(text) = <<<<"ByteArray", bytes>>>>
<1>1. PICK n \in Nat : n = Len(bytes) /\ DOMAIN bytes = 1 .. n
  BY LenProperties
<1> DEFINE hi(i) == bytes[i] \div 16
           lo(i) == bytes[i] % 16
           blocks == [i \in 1 .. n |-> <<Session!HexDigits[hi(i) + 1], Session!HexDigits[lo(i) + 1]>>]
<1>2. ASSUME NEW i \in 1 .. n
      PROVE  hi(i) \in 0 .. 9 /\ lo(i) \in 0 .. 9 /\ bytes[i] = 16 * hi(i) + lo(i)
  <2>1. PICK b \in 0 .. 255 : b = bytes[i]
    BY <1>1, ElementOfSeq
  <2>2. b \div 16 < 10 /\ b % 16 < 10
    BY <1>1, <2>1
  <2>3. b \div 16 \in 0 .. 9 /\ b % 16 \in 0 .. 9 /\ b = 16 * (b \div 16) + (b % 16)
    BY <2>2
  <2> QED
    BY <2>1, <2>3
<1>3. ASSUME NEW i \in 1 .. n
      PROVE  \E d \in Digit, e \in Digit :
               /\ d = Session!Digits[hi(i) + 1] /\ e = Session!Digits[lo(i) + 1]
               /\ blocks[i] = <<d, e>> /\ Session!DigitOf(d) = hi(i) /\ Session!DigitOf(e) = lo(i)
  <2>1. PICK a \in 0 .. 9, b \in 0 .. 9 : a = hi(i) /\ b = lo(i)
    BY <1>2
  <2>2. PICK d \in Digit, e \in Digit :
          /\ d = Session!Digits[a + 1] /\ e = Session!Digits[b + 1]
          /\ Session!DigitOf(d) = a /\ Session!DigitOf(e) = b
    BY DigitsAre
  <2>3. Session!HexDigits[a + 1] = d /\ Session!HexDigits[b + 1] = e
    BY <2>2, HexDigitsAre
  <2>4. blocks[i] = <<Session!HexDigits[hi(i) + 1], Session!HexDigits[lo(i) + 1]>>
    OBVIOUS
  <2> HIDE DEF blocks, hi, lo
  <2> QED
    BY <2>1, <2>2, <2>3, <2>4, Zenon
<1>4. blocks \in [1 .. n -> Seq(Digit)]
  <2>1. ASSUME NEW i \in 1 .. n
        PROVE  blocks[i] \in Seq(Digit)
    <3>1. PICK d \in Digit, e \in Digit : blocks[i] = <<d, e>>
      BY <1>3
    <3>2. <<d, e>> \in Seq(Digit)
      OBVIOUS
    <3> HIDE DEF blocks
    <3> QED
      BY <3>1, <3>2
  <2>2. DOMAIN blocks = 1 .. n /\ blocks = [i \in 1 .. n |-> blocks[i]]
    OBVIOUS
  <2> HIDE DEF blocks
  <2> QED
    BY <2>1, <2>2
<1>5. PICK F \in Seq(Digit) : F = Session!FlattenSeq(blocks)
  BY <1>4, Flattened
<1>6. PICK at \in [0 .. n -> Nat] : Ends(at, n, blocks, F)
  BY <1>4, <1>5, Flattened
<1>7. text = <<"0", "x">> \o F
  BY <1>1, <1>5 DEF Session!WriteByteArray
<1>8. ASSUME NEW i \in 1 .. n
      PROVE  /\ Len(blocks[i]) = 2
             /\ Session!DigitOf(blocks[i][1]) = hi(i) /\ Session!DigitOf(blocks[i][2]) = lo(i)
  <2>1. PICK d \in Digit, e \in Digit :
          blocks[i] = <<d, e>> /\ Session!DigitOf(d) = hi(i) /\ Session!DigitOf(e) = lo(i)
    BY <1>3
  <2>2. Len(<<d, e>>) = 2 /\ <<d, e>>[1] = d /\ <<d, e>>[2] = e
    OBVIOUS
  <2> HIDE DEF blocks, hi, lo
  <2> QED
    BY <2>1, <2>2
<1> HIDE DEF blocks
<1> DEFINE T == {m \in 0 .. n : at[m] = 2 * m}
<1>9. \A m \in 0 .. n : at[m] = 2 * m
  <2>1. 0 \in T
    BY <1>6 DEF Ends
  <2>2. ASSUME NEW m \in 0 .. n - 1, m \in T
        PROVE  m + 1 \in T
    <3>1. PICK i \in 1 .. n : i = m + 1 /\ m = i - 1
      OBVIOUS
    <3>2. at[i] = at[m] + 2
      BY <1>6, <1>8, <3>1 DEF Ends
    <3> QED
      BY <2>2, <3>1, <3>2
  <2>3. \A m \in 0 .. n : m \in T
    <3> HIDE DEF T
    <3> QED
      BY <2>1, <2>2, Counting
  <2> QED
    BY <2>3
<1>10. Len(F) = 2 * n
  BY <1>6, <1>9 DEF Ends
<1> DEFINE C == Digit \cup {"x"}
<1>11. PICK ox \in Seq(C) : ox = <<"0", "x">> /\ Len(ox) = 2 /\ ox[1] = "0" /\ ox[2] = "x"
  <2>1. PICK o \in C, x \in C : o = "0" /\ x = "x"
    BY DigitsAre
  <2> HIDE DEF C
  <2>2. <<o, x>> \in Seq(C) /\ Len(<<o, x>>) = 2 /\ <<o, x>>[1] = o /\ <<o, x>>[2] = x
    OBVIOUS
  <2> QED
    BY <2>1, <2>2, Zenon
<1>12. F \in Seq(C)
  <2>1. Digit \subseteq C
    OBVIOUS
  <2> HIDE DEF C
  <2> QED
    BY <2>1, SeqMonotonic
<1> HIDE DEF C
<1>13. PICK t \in Seq(C) : t = ox \o F
  BY <1>12, ConcatProperties
<1>14. /\ t = text /\ Len(t) = 2 + 2 * n
       /\ \A i \in 1 .. 2 + 2 * n : t[i] = IF i <= 2 THEN ox[i] ELSE F[i - 2]
  <2>1. t = text
    BY <1>7, <1>11, <1>13, Zenon
  <2> QED
    BY <1>10, <1>11, <1>12, <1>13, <2>1, ConcatProperties
<1>15. t[1] = "0" /\ t[2] = "x" /\ t # << >>
  <2>1. 1 \in 1 .. 2 + 2 * n /\ 2 \in 1 .. 2 + 2 * n /\ 1 <= 2 /\ 2 <= 2
    OBVIOUS
  <2>2. t[1] = "0" /\ t[2] = "x"
    BY <1>11, <1>14, <2>1
  <2>3. Len(t) # 0
    BY <1>14
  <2> QED
    BY <2>2, <2>3
<1>16. \A j \in 1 .. 2 * n : t[j + 2] = F[j]
  <2>1. \A j \in 1 .. 2 * n : j + 2 \in 1 .. 2 + 2 * n /\ ~(j + 2 <= 2) /\ j + 2 - 2 = j
    OBVIOUS
  <2> QED
    BY <1>14, <2>1
<1>17. Session!Skip(t, 3, Session!Range(Session!Digits)) = 2 * n + 3
  <2>1. PICK characters : characters = Session!Range(Session!Digits)
    OBVIOUS
  <2>2. \A c \in Digit : c \in characters
    BY <2>1 DEF Digit
  <2>3. ASSUME NEW j \in 3 .. Len(t)
        PROVE  t[j] \in characters
    <3>1. PICK k \in 1 .. 2 * n : k = j - 2 /\ j = k + 2
      BY <1>14
    <3>2. F[k] \in Digit
      BY <1>10
    <3>3. t[j] = F[k]
      BY <1>16, <3>1
    <3> QED
      BY <2>2, <3>2, <3>3
  <2>4. 3 \in 1 .. Len(t) + 1
    BY <1>14
  <2>5. Session!Skip(t, 3, characters) = Len(t) + 1
    BY <2>3, <2>4, SkipIs
  <2>6. Len(t) + 1 = 2 * n + 3
    BY <1>14
  <2> QED
    BY <2>1, <2>5, <2>6, Zenon
<1>18. ASSUME NEW k \in 1 .. n
       PROVE  16 * Session!DigitOf(t[3 + 2 * k - 2]) + Session!DigitOf(t[3 + 2 * k - 1]) = bytes[k]
  <2>1. PICK j \in 0 .. n : j = k - 1 /\ at[j] = 2 * j
    BY <1>9
  <2>2. PICK p \in 1 .. 2 * n, q \in 1 .. 2 * n :
          /\ p = 2 * j + 1 /\ q = 2 * j + 2 /\ p + 2 = 3 + 2 * k - 2 /\ q + 2 = 3 + 2 * k - 1
    <3>1. 2 * j + 1 \in 1 .. 2 * n /\ 2 * j + 2 \in 1 .. 2 * n
      BY <2>1
    <3>2. 2 * j + 1 + 2 = 3 + 2 * k - 2 /\ 2 * j + 2 + 2 = 3 + 2 * k - 1
      BY <2>1
    <3> QED
      BY <3>1, <3>2
  <2>3. F[p] = blocks[k][1] /\ F[q] = blocks[k][2]
    <3>1. \A i \in 1 .. 2 : F[at[k - 1] + i] = blocks[k][i]
      BY <1>6, <1>8 DEF Ends
    <3>2. at[k - 1] + 1 = p /\ at[k - 1] + 2 = q
      BY <2>1, <2>2
    <3>3. F[at[k - 1] + 1] = blocks[k][1] /\ F[at[k - 1] + 2] = blocks[k][2]
      BY <3>1
    <3> QED
      BY <3>2, <3>3, Zenon
  <2>4. Session!DigitOf(t[p + 2]) = hi(k) /\ Session!DigitOf(t[q + 2]) = lo(k)
    BY <1>8, <1>16, <2>3
  <2> QED
    BY <1>2, <2>2, <2>4
<1>19. Session!BytesRead(t, 3) = bytes
  <2>1. (Session!Skip(t, 3, Session!Range(Session!Digits)) - 3) \div 2 = n
    <3>1. (2 * n + 3 - 3) \div 2 = n
      OBVIOUS
    <3> QED
      BY <1>17, <3>1
  <2>2. Session!BytesRead(t, 3) =
          [k \in 1 .. (Session!Skip(t, 3, Session!Range(Session!Digits)) - 3) \div 2 |->
             16 * Session!DigitOf(t[3 + 2 * k - 2]) + Session!DigitOf(t[3 + 2 * k - 1])]
    BY DEF Session!BytesRead
  <2>3. Session!BytesRead(t, 3) =
          [k \in 1 .. n |-> 16 * Session!DigitOf(t[3 + 2 * k - 2]) + Session!DigitOf(t[3 + 2 * k - 1])]
    BY <2>1, <2>2, Zenon
  <2>4. bytes = [k \in 1 .. n |-> bytes[k]]
    BY <1>1
  <2> QED
    BY <1>18, <2>3, <2>4
<1>20. PICK v : v = <<"ByteArray", bytes>> /\ v # Session!NoValue
  <2>1. PICK v : v = <<"ByteArray", bytes>>
    OBVIOUS
  <2> QED
    BY <2>1, Tagged
<1>21. Session!ValueAt(t, 1) = [value |-> v, next |-> 1 + 2 * n + 3]
  <2>1. BeginsBytes(t, 1)
    <3>1. 1 < Len(t) /\ 1 + 1 = 2
      BY <1>14
    <3> QED
      BY <1>15, <3>1 DEF BeginsBytes
  <2>2. Session!ValueAt(t, 1) = BytesAt(t, 1, Session!BytesRead(t, 1 + 2))
    BY <2>1, ValueIs
  <2>3. 1 + 2 = 3
    OBVIOUS
  <2>4. Session!ValueAt(t, 1) = BytesAt(t, 1, bytes)
    BY <1>19, <2>2, <2>3, Zenon
  <2>5. BytesAt(t, 1, bytes) = [value |-> <<"ByteArray", bytes>>, next |-> 1 + 2 * n + 3]
    BY <1>1, Zenon DEF BytesAt
  <2> QED
    BY <1>20, <2>4, <2>5, Zenon
<1>22. OneValue(t, v)
  <2>1. t[1] \notin Session!Whitespace \cup {"[", "]"}
    BY <1>15 DEF Session!Whitespace
  <2> QED
    BY <1>14, <1>15, <1>20, <1>21, <2>1 DEF OneValue
<1> QED
  BY <1>14, <1>20, <1>22, OneValueRead, Zenon

-----------------------------------------------------------------------------
(* All values.                                                              *)

\* The strings of the client are sequences of its letters.
LEMMA StringsAre == Session!Strings \subseteq Seq(Letters)
<1> SUFFICES ASSUME NEW s \in Session!Strings
             PROVE  s \in Seq(Letters)
  OBVIOUS
<1>1. PICK m \in Nat : s \in [1 .. m -> Letters]
  BY ValueConstants DEF Session!Strings, Session!BoundedSeq, Session!SeqOf
<1> QED
  BY <1>1

\* Everything that can be set is sent as a text that the server reads as the
\* value that was meant, if it takes it at all.
THEOREM AllSent == \A v \in Session!Settable : SentAs(Session!FormatValue(v), v)
<1> SUFFICES ASSUME NEW v \in Session!Settable
             PROVE  SentAs(Session!FormatValue(v), v)
  OBVIOUS
<1>1. CASE v \in {"Integer"} \X Numbers
  <2>1. PICK n \in Numbers : v = <<"Integer", n>>
    BY <1>1
  <2>2. n \in Int
    BY <2>1, ValueConstants
  <2> QED
    BY <2>1, <2>2, IntegerSent, Zenon
<1>2. CASE v \in {"Float"} \X Hundredths
  <2>1. PICK n \in Hundredths : v = <<"Float", n>>
    BY <1>2
  <2>2. n \in Int
    BY <2>1, ValueConstants
  <2> QED
    BY <2>1, <2>2, FloatSent, Zenon
<1>3. CASE v \in {"Boolean"} \X BOOLEAN
  <2>1. PICK b \in BOOLEAN : v = <<"Boolean", b>>
    BY <1>3
  <2> QED
    BY <2>1, WordsSent, Zenon
<1>4. CASE v \in {"String"} \X Session!Strings
  <2>1. PICK s \in Seq(Letters) : v = <<"String", s>>
    BY <1>4, StringsAre
  <2> QED
    BY <2>1, StringSent, Zenon
<1>5. CASE v = Session!Null \/ v = Session!List
  BY <1>5, WordsSent, Zenon
<1> QED
  BY <1>1, <1>2, <1>3, <1>4, <1>5 DEF Session!Settable

\* A value of a property, by its type.
LEMMA HeldAs ==
  ASSUME NEW t \in Session!Types, NEW h \in Session!ValuesOf(t)
  PROVE  \/ \E n \in Int : h = <<"Integer", n>>
         \/ \E n \in Int : h = <<"Float", n>>
         \/ \E b \in BOOLEAN : h = <<"Boolean", b>>
         \/ \E s \in Seq(Letters) : h = <<"String", s>>
         \/ \E bytes \in Seq(0 .. 255) : h = <<"ByteArray", bytes>>
<1>1. CASE t = "Integer"
  <2>1. h \in {"Integer"} \X (Numbers \cap -IntMax - 1 .. IntMax)
    BY <1>1 DEF Session!ValuesOf
  <2> QED
    BY <2>1, ValueConstants
<1>2. CASE t = "Float"
  <2>1. h \in {"Float"} \X Hundredths
    BY <1>2 DEF Session!ValuesOf
  <2>2. PICK n \in Hundredths : h = <<"Float", n>>
    BY <2>1
  <2>3. n \in Int
    BY <2>2, ValueConstants
  <2> QED
    BY <2>2, <2>3
<1>3. CASE t = "Boolean"
  <2>1. h \in {"Boolean"} \X BOOLEAN
    BY <1>3 DEF Session!ValuesOf
  <2> QED
    BY <2>1
<1>4. CASE t = "String"
  <2>1. h \in {"String"} \X Session!Strings
    BY <1>4 DEF Session!ValuesOf
  <2> QED
    BY <2>1, StringsAre
<1>5. CASE t = "ByteArray"
  <2>1. h \in {"ByteArray"} \X ByteArrays
    BY <1>5 DEF Session!ValuesOf
  <2> QED
    BY <2>1, ValueConstants
<1> QED
  BY <1>1, <1>2, <1>3, <1>4, <1>5 DEF Session!Types

\* A value of a type has the tag of the type.
LEMMA TypeKept ==
  ASSUME NEW t \in Session!Types, NEW h \in Session!ValuesOf(t)
  PROVE  h[1] = t
<1>1. PICK S : h \in {t} \X S
  BY Zenon DEF Session!ValuesOf
<1> QED
  BY <1>1

\* What a client may make of a value that the server has written.
ReadBack(values, h) ==
  /\ Session!IsReadable(h) => values = <<h>>
  /\ h[1] = "String" /\ Session!Quote \in Session!Range(h[2]) /\ "]" \notin Session!Range(h[2]) =>
       values = Session!Raised \/ Len(values) > 1

\* Each value is written by its own rule.
LEMMA WrittenBy ==
  ASSUME NEW v
  PROVE  /\ v[1] = "Integer" => Session!Written(v) = Session!WriteInteger(v[2])
         /\ v[1] = "Float" => Session!Written(v) = Session!WriteFloat(v[2])
         /\ v[1] = "Boolean" =>
              Session!Written(v) = {IF v[2] THEN <<"t", "r", "u", "e">> ELSE <<"f", "a", "l", "s", "e">>}
         /\ v[1] = "String" =>
              Session!Written(v) = {<<Session!Quote>> \o Session!WriteString(v[2]) \o <<Session!Quote>>}
         /\ v[1] = "ByteArray" => Session!Written(v) = {Session!WriteByteArray(v[2])}
<1>1. v[1] = "Integer" => Session!Written(v) = Session!WriteInteger(v[2])
  BY DEF Session!Written
<1>2. v[1] = "Float" => Session!Written(v) = Session!WriteFloat(v[2])
  BY DEF Session!Written
<1>3. v[1] = "Boolean" =>
        Session!Written(v) = {IF v[2] THEN <<"t", "r", "u", "e">> ELSE <<"f", "a", "l", "s", "e">>}
  BY DEF Session!Written
<1>4. v[1] = "String" =>
        Session!Written(v) = {<<Session!Quote>> \o Session!WriteString(v[2]) \o <<Session!Quote>>}
  BY DEF Session!Written
<1>5. v[1] = "ByteArray" => Session!Written(v) = {Session!WriteByteArray(v[2])}
  BY DEF Session!Written
<1> QED
  BY <1>1, <1>2, <1>3, <1>4, <1>5

\* Which values are read as they are, by the type.
LEMMA ReadableBy ==
  ASSUME NEW v
  PROVE  /\ v[1] = "Integer" => (Session!IsReadable(v) <=> v[2] # -IntMax - 1)
         /\ v[1] = "Float" =>
              (Session!IsReadable(v) <=>
                 /\ build = "snprintf" => Len(Session!ToHundredths(v[2])) <= MaxValue - 2
                 /\ build = "dtostrf" => Len(Session!ToHundredths(v[2])) < MaxValue
                 /\ build = "own" => /\ v[2] \notin 0 .. 99 /\ Session!Whole(v) <= IntMax
                                     /\ Session!Magnitude(v[2]) % 100 \notin 1 .. 9)
         /\ v[1] = "String" =>
              (Session!IsReadable(v) <=>
                 Session!Range(v[2]) \cap ({Session!Quote, Session!Backslash} \cup Session!Breaks) = {})
         /\ v[1] = "ByteArray" =>
              (Session!IsReadable(v) <=>
                 \A i \in DOMAIN v[2] : v[2][i] \div 16 < 10 /\ v[2][i] % 16 < 10)
<1>1. v[1] = "Integer" => (Session!IsReadable(v) <=> v[2] # -IntMax - 1)
  BY DEF Session!IsReadable
<1>2. v[1] = "Float" =>
        (Session!IsReadable(v) <=>
           /\ build = "snprintf" => Len(Session!ToHundredths(v[2])) <= MaxValue - 2
           /\ build = "dtostrf" => Len(Session!ToHundredths(v[2])) < MaxValue
           /\ build = "own" => /\ v[2] \notin 0 .. 99 /\ Session!Whole(v) <= IntMax
                               /\ Session!Magnitude(v[2]) % 100 \notin 1 .. 9)
  BY DEF Session!IsReadable
<1>3. v[1] = "String" =>
        (Session!IsReadable(v) <=>
           Session!Range(v[2]) \cap ({Session!Quote, Session!Backslash} \cup Session!Breaks) = {})
  BY DEF Session!IsReadable
<1>4. v[1] = "ByteArray" =>
        (Session!IsReadable(v) <=>
           \A i \in DOMAIN v[2] : v[2][i] \div 16 < 10 /\ v[2][i] % 16 < 10)
  BY DEF Session!IsReadable
<1> QED
  BY <1>1, <1>2, <1>3, <1>4

\* Everything that is held is written as a text that the client reads as it
\* was, but for the values that IsReadable names, and a string with a quote is
\* not read as another string.
THEOREM AllReadBack ==
  ASSUME NEW t \in Session!Types, NEW h \in Session!ValuesOf(t), build \in Session!Builds,
         NEW text \in Session!Written(h)
  PROVE  ReadBack(Session!ParseValues(text), h)
<1>1. CASE \E n \in Int : h = <<"Integer", n>>
  <2>1. PICK n \in Int : h = <<"Integer", n>>
    BY <1>1
  <2>2. h[1] = "Integer" /\ h[2] = n
    BY <2>1, Tagged, Zenon
  <2>3. text \in Session!WriteInteger(n) /\ (Session!IsReadable(h) => n # -IntMax - 1)
    BY <2>2, WrittenBy, ReadableBy, Zenon
  <2>4. n # -IntMax - 1 => Session!ParseValues(text) = <<<<"Integer", n>>>>
    BY <2>3, IntegerBack
  <2> QED
    BY <2>1, <2>2, <2>3, <2>4, Zenon DEF ReadBack
<1>2. CASE \E n \in Int : h = <<"Float", n>>
  <2>1. PICK n \in Int : h = <<"Float", n>>
    BY <1>2
  <2>2. h[1] = "Float" /\ h[2] = n
    BY <2>1, Tagged, Zenon
  <2>3. text \in Session!WriteFloat(n)
    BY <2>2, WrittenBy, Zenon
  <2>4. Session!IsReadable(h) => FloatFits(n)
    BY <2>1, <2>2, ReadableBy, Zenon DEF FloatFits
  <2>5. Session!IsReadable(h) => Session!ParseValues(text) = <<<<"Float", n>>>>
    BY <2>3, <2>4, FloatBack
  <2> QED
    BY <2>1, <2>2, <2>5, Zenon DEF ReadBack
<1>3. CASE \E b \in BOOLEAN : h = <<"Boolean", b>>
  <2>1. PICK b \in BOOLEAN : h = <<"Boolean", b>>
    BY <1>3
  <2>2. h[1] = "Boolean" /\ h[2] = b
    BY <2>1, Tagged, Zenon
  <2>3. text = IF b THEN <<"t", "r", "u", "e">> ELSE <<"f", "a", "l", "s", "e">>
    BY <2>2, WrittenBy, Zenon
  <2>4. Session!ParseValues(text) = <<<<"Boolean", b>>>>
    <3>1. CASE b = TRUE
      BY <2>3, <3>1, BooleanBack, Zenon
    <3>2. CASE b = FALSE
      BY <2>3, <3>2, BooleanBack, Zenon
    <3> QED
      BY <2>1, <3>1, <3>2
  <2> QED
    BY <2>1, <2>2, <2>4, Zenon DEF ReadBack
<1>4. CASE \E s \in Seq(Letters) : h = <<"String", s>>
  <2>1. PICK s \in Seq(Letters) : h = <<"String", s>>
    BY <1>4
  <2>2. h[1] = "String" /\ h[2] = s
    BY <2>1, Tagged, Zenon
  <2>3. text = <<Session!Quote>> \o Session!WriteString(s) \o <<Session!Quote>>
    BY <2>2, WrittenBy, Zenon
  <2>4. Session!IsReadable(h) =>
          Session!Range(s) \cap ({Session!Quote, Session!Backslash} \cup Session!Breaks) = {}
    BY <2>2, ReadableBy, Zenon
  <2>5. Session!IsReadable(h) => Session!ParseValues(text) = <<<<"String", s>>>>
    BY <2>3, <2>4, StringBack
  <2>6. Session!Quote \in Session!Range(s) /\ "]" \notin Session!Range(s) =>
          Session!ParseValues(text) = Session!Raised \/ Len(Session!ParseValues(text)) > 1
    BY <2>3, QuotesTold
  <2> QED
    BY <2>1, <2>2, <2>5, <2>6, Zenon DEF ReadBack
<1>5. CASE \E bytes \in Seq(0 .. 255) : h = <<"ByteArray", bytes>>
  <2>1. PICK bytes \in Seq(0 .. 255) : h = <<"ByteArray", bytes>>
    BY <1>5
  <2>2. h[1] = "ByteArray" /\ h[2] = bytes
    BY <2>1, Tagged, Zenon
  <2>3. /\ text = Session!WriteByteArray(bytes)
        /\ Session!IsReadable(h) =>
             \A i \in DOMAIN bytes : bytes[i] \div 16 < 10 /\ bytes[i] % 16 < 10
    BY <2>2, WrittenBy, ReadableBy, ZenonT(30)
  <2>4. Session!IsReadable(h) => Session!ParseValues(text) = <<<<"ByteArray", bytes>>>>
    BY <2>3, BytesBack
  <2> QED
    BY <2>1, <2>2, <2>4, Zenon DEF ReadBack
<1> QED
  BY <1>1, <1>2, <1>3, <1>4, <1>5, HeldAs, Zenon

-----------------------------------------------------------------------------
(* The client and the server.                                               *)

Updates(lines) == \A i \in 1 .. Len(lines) : lines[i].kind = "update"

\* One request is on its way, and no answer.
Asked ==
  /\ Len(requests) = 1 /\ requests[1].kind \in {"set", "info", "get"}
  /\ Updates(responses)

\* One answer is on its way, and no request.
AnswerComes ==
  /\ requests = << >>
  /\ \E i \in 1 .. Len(responses) :
       /\ responses[i].kind # "update"
       /\ \A j \in 1 .. Len(responses) : j # i => responses[j].kind = "update"

Quiet == requests = << >> /\ Updates(responses)

LinesTyped == (\E S : requests \in Seq(S)) /\ (\E S : responses \in Seq(S))

OneAtATime ==
  /\ caller = "idle" => Quiet
  /\ caller # "idle" => Asked \/ AnswerComes

\* As long as the server takes a line for a request: a call has one request or
\* one answer on its way, and there is none between calls.
SessionInv == ~broken => LinesTyped /\ OneAtATime

LEMMA SessionStarts == Session!Init => SessionInv
<1> SUFFICES ASSUME Session!Init
             PROVE  LinesTyped /\ OneAtATime
  BY DEF SessionInv
<1>1. requests = << >> /\ responses = << >> /\ caller = "idle"
  BY DEF Session!Init
<1>2. << >> \in Seq({})
  OBVIOUS
<1> QED
  BY <1>1, <1>2 DEF LinesTyped, OneAtATime, Quiet, Updates

\* A call that sends a line, or a first line, when none is on its way.
LEMMA SendAsks ==
  ASSUME requests = << >>, Updates(responses'),
         \E S : responses' \in Seq(S),
         NEW kind \in {"set", "info", "get"}, NEW lines, Len(lines) = 1,
         Session!Send(kind, lines)
  PROVE  LinesTyped' /\ Asked'
<1> DEFINE sent == [kind |-> kind, text |-> Head(lines)]
<1>1. requests' = << >> \o <<sent>>
                  \o [i \in 1 .. Len(lines) - 1 |-> [kind |-> "other", text |-> lines[i + 1]]]
  BY DEF Session!Send
<1>2. [i \in 1 .. Len(lines) - 1 |-> [kind |-> "other", text |-> lines[i + 1]]] = << >>
  <2>1. Len(lines) - 1 = 0
    OBVIOUS
  <2> QED
    BY <2>1
<1>3. sent.kind = kind
  OBVIOUS
<1> HIDE DEF sent
<1>4. requests' = <<sent>>
  BY <1>1, <1>2
<1>5. requests' \in Seq({sent}) /\ Len(requests') = 1 /\ requests'[1] = sent
  BY <1>4
<1>6. Updates(responses)'
  BY DEF Updates
<1> QED
  BY <1>3, <1>5, <1>6 DEF LinesTyped, Asked

LEMMA SetValueKeeps ==
  ASSUME SessionInv, NEW v, Session!SetValue(v)
  PROVE  SessionInv'
<1> SUFFICES ASSUME ~broken'
             PROVE  LinesTyped' /\ OneAtATime'
  BY DEF SessionInv
<1> DEFINE lines == Session!LinesOf(Session!FormatValue(v))
<1>1. /\ caller = "idle" /\ caller' = "set" /\ ~broken /\ broken' = (Len(lines) # 1)
      /\ Session!Send("set", lines) /\ UNCHANGED responses
  BY DEF Session!SetValue
<1> HIDE DEF lines
<1>2. Len(lines) = 1
  <2>1. ~(Len(lines) # 1)
    BY <1>1, Zenon
  <2> QED
    BY <2>1
<1>3. LinesTyped /\ Quiet
  BY <1>1 DEF SessionInv, OneAtATime
<1>4. Updates(responses')
  BY <1>1, <1>3 DEF Quiet, Updates
<1>5. LinesTyped' /\ Asked'
  BY <1>1, <1>2, <1>3, <1>4, SendAsks DEF Quiet, LinesTyped
<1> QED
  BY <1>1, <1>5 DEF OneAtATime

LEMMA GetValueKeeps ==
  ASSUME SessionInv, Session!GetValue
  PROVE  SessionInv'
<1> SUFFICES ASSUME ~broken'
             PROVE  LinesTyped' /\ OneAtATime'
  BY DEF SessionInv
<1>1. /\ caller = "idle" /\ caller' \in {"get", "info"} /\ UNCHANGED broken
      /\ Session!Send(caller', << << >> >>) /\ UNCHANGED responses
  BY DEF Session!GetValue
<1>2. LinesTyped /\ Quiet
  BY <1>1 DEF SessionInv, OneAtATime
<1>3. Len(<< << >> >>) = 1
  OBVIOUS
<1>4. Updates(responses')
  BY <1>1, <1>2 DEF Quiet, Updates
<1>5. PICK kind \in {"set", "info", "get"} : kind = caller' /\ Session!Send(kind, << << >> >>)
  BY <1>1
<1>6. LinesTyped' /\ Asked'
  BY <1>1, <1>2, <1>3, <1>4, <1>5, SendAsks DEF Quiet, LinesTyped
<1> QED
  BY <1>5, <1>6 DEF OneAtATime

\* What taking a line off the answers leaves.
LEMMA TakenOff ==
  ASSUME NEW S, NEW lines \in Seq(S), lines # << >>
  PROVE  /\ Tail(lines) \in Seq(S) /\ Len(lines) \in Nat \ {0}
         /\ Len(Tail(lines)) = Len(lines) - 1
         /\ \A i \in 1 .. Len(lines) - 1 : Tail(lines)[i] = lines[i + 1]
         /\ Head(lines) = lines[1]
OBVIOUS

\* A line that is no update is the answer that was waited for.
LEMMA TakesAnswer ==
  ASSUME SessionInv, ~broken, Session!ReadLine, Head(responses).kind # "update"
  PROVE  /\ Session!Take /\ requests = << >>
         /\ 1 \in 1 .. Len(responses) /\ Head(responses) = responses[1]
         /\ Updates(responses')
<1>1. caller # "idle" /\ responses # << >> /\ responses' = Tail(responses) /\ Session!Take
  BY DEF Session!ReadLine
<1>2. LinesTyped /\ (Asked \/ AnswerComes)
  BY <1>1 DEF SessionInv, OneAtATime
<1>3. PICK S : responses \in Seq(S)
  BY <1>2 DEF LinesTyped
<1>4. /\ Len(responses) \in Nat \ {0}
      /\ Len(responses') = Len(responses) - 1
      /\ \A i \in 1 .. Len(responses) - 1 : responses'[i] = responses[i + 1]
      /\ Head(responses) = responses[1]
  BY <1>1, <1>3, TakenOff
<1>5. responses[1].kind # "update" /\ 1 \in 1 .. Len(responses)
  BY <1>4
<1>6. AnswerComes
  BY <1>2, <1>5 DEF Asked, Updates
<1>7. \A j \in 1 .. Len(responses) : j # 1 => responses[j].kind = "update"
  BY <1>5, <1>6 DEF AnswerComes
<1>8. requests = << >>
  BY <1>6 DEF AnswerComes
<1>9. ASSUME NEW j \in 1 .. Len(responses')
      PROVE  responses'[j].kind = "update"
  <2>1. j + 1 \in 1 .. Len(responses) /\ j + 1 # 1 /\ responses'[j] = responses[j + 1]
    BY <1>4
  <2> QED
    BY <1>7, <2>1
<1>10. Updates(responses')
  BY <1>9 DEF Updates
<1> QED
  BY <1>1, <1>4, <1>5, <1>8, <1>10

LEMMA ReadLineKeeps ==
  ASSUME SessionInv, Session!ReadLine
  PROVE  SessionInv'
<1> SUFFICES ASSUME ~broken'
             PROVE  LinesTyped' /\ OneAtATime'
  BY DEF SessionInv
<1>1. /\ caller # "idle" /\ responses # << >> /\ responses' = Tail(responses)
      /\ UNCHANGED broken
      /\ \/ Head(responses).kind = "update" /\ UNCHANGED <<caller, requests>>
         \/ Head(responses).kind # "update" /\ Session!Take
  BY DEF Session!ReadLine
<1>2. LinesTyped /\ (Asked \/ AnswerComes)
  BY <1>1 DEF SessionInv, OneAtATime
<1>3. PICK S : responses \in Seq(S)
  BY <1>2 DEF LinesTyped
<1>4. /\ responses' \in Seq(S) /\ Len(responses) \in Nat \ {0}
      /\ Len(responses') = Len(responses) - 1
      /\ \A i \in 1 .. Len(responses) - 1 : responses'[i] = responses[i + 1]
      /\ Head(responses) = responses[1]
  BY <1>1, <1>3, TakenOff
<1>5. CASE Head(responses).kind = "update"
  <2>1. UNCHANGED <<caller, requests>>
    BY <1>1, <1>5
  <2>2. LinesTyped'
    BY <1>2, <1>4, <2>1 DEF LinesTyped
  <2>3. CASE Asked
    <3>1. Updates(responses)'
      BY <1>4, <2>3 DEF Asked, Updates
    <3> QED
      BY <1>1, <2>1, <2>2, <2>3, <3>1 DEF Asked, OneAtATime
  <2>4. CASE AnswerComes
    <3>1. PICK i \in 1 .. Len(responses) :
            /\ responses[i].kind # "update"
            /\ \A j \in 1 .. Len(responses) : j # i => responses[j].kind = "update"
      BY <2>4 DEF AnswerComes
    <3>2. PICK k \in 1 .. Len(responses') : i = k + 1
      BY <1>4, <1>5, <3>1
    <3>3. responses'[k].kind # "update"
      BY <1>4, <3>1, <3>2
    <3>4. ASSUME NEW j \in 1 .. Len(responses'), j # k
          PROVE  responses'[j].kind = "update"
      BY <1>4, <3>1, <3>2, <3>4
    <3>5. AnswerComes'
      BY <2>1, <2>4, <3>3, <3>4 DEF AnswerComes
    <3> QED
      BY <1>1, <2>1, <2>2, <3>5 DEF OneAtATime
  <2> QED
    BY <1>2, <2>3, <2>4
<1>6. CASE Head(responses).kind # "update"
  <2>1. Session!Take /\ requests = << >> /\ Updates(responses')
    BY <1>1, <1>6, TakesAnswer
  <2>2. \/ caller' = "idle" /\ UNCHANGED requests
        \/ caller' = "get" /\ Session!Send("get", << << >> >>)
    BY <2>1 DEF Session!Take, Session!TakeInfo, Session!TakeValue, Session!TakeSet, Session!Ends
  <2>3. CASE caller' = "idle" /\ UNCHANGED requests
    <3>1. LinesTyped'
      BY <1>2, <1>4, <2>3 DEF LinesTyped
    <3>2. Quiet'
      BY <2>1, <2>3 DEF Quiet, Updates
    <3> QED
      BY <2>3, <3>1, <3>2 DEF OneAtATime
  <2>4. CASE caller' = "get" /\ Session!Send("get", << << >> >>)
    <3>1. Len(<< << >> >>) = 1
      OBVIOUS
    <3>2. LinesTyped' /\ Asked'
      BY <1>4, <2>1, <2>4, <3>1, SendAsks
    <3> QED
      BY <2>4, <3>2 DEF OneAtATime
  <2> QED
    BY <2>2, <2>3, <2>4
<1> QED
  BY <1>1, <1>5, <1>6

\* What appending a line to the answers leaves.
LEMMA PutOn ==
  ASSUME NEW S, NEW lines \in Seq(S), NEW r
  PROVE  /\ Append(lines, r) \in Seq(S \cup {r}) /\ Len(lines) \in Nat
         /\ Len(Append(lines, r)) = Len(lines) + 1
         /\ Append(lines, r)[Len(lines) + 1] = r
         /\ \A i \in 1 .. Len(lines) : Append(lines, r)[i] = lines[i]
OBVIOUS

\* What an answer has.
LEMMA Responded ==
  ASSUME NEW kind, NEW text, Session!Respond(kind, text)
  PROVE  \E r : /\ responses' = Append(responses, r) /\ r.kind = kind /\ r.text = text
                /\ kind \in {"ok", "value"} => r.held = held'
<1> DEFINE r == [kind |-> kind, text |-> text,
                 held |-> IF kind \in {"ok", "value"} THEN held' ELSE Session!NoValue]
<1>1. responses' = Append(responses, r)
  BY DEF Session!Respond
<1>2. r.kind = kind /\ r.text = text /\ (kind \in {"ok", "value"} => r.held = held')
  OBVIOUS
<1> HIDE DEF r
<1> QED
  BY <1>1, <1>2

LEMMA HandleRequestKeeps ==
  ASSUME SessionInv, Session!HandleRequest
  PROVE  SessionInv'
<1> SUFFICES ASSUME ~broken'
             PROVE  LinesTyped' /\ OneAtATime'
  BY DEF SessionInv
<1>1. requests # << >> /\ requests' = Tail(requests) /\ UNCHANGED <<caller, broken>>
  BY DEF Session!HandleRequest, Session!clientVars
<1>2. LinesTyped /\ Asked /\ caller # "idle"
  BY <1>1 DEF SessionInv, OneAtATime, Quiet, AnswerComes
<1>3. PICK S : responses \in Seq(S)
  BY <1>2 DEF LinesTyped
<1>4. PICK T : requests \in Seq(T)
  BY <1>2 DEF LinesTyped
<1>5. /\ requests' = << >> /\ requests' \in Seq(T)
      /\ Head(requests).kind \in {"set", "info", "get"}
  BY <1>1, <1>2, <1>4 DEF Asked
<1>6. \E kind \in {"ok", "fail", "value", "info"} : \E text : Session!Respond(kind, text)
  <2>1. CASE Head(requests).kind = "set"
    <3>1. Session!HandleSet(Head(requests).text)
      BY <2>1 DEF Session!HandleRequest
    <3>2. Session!Respond("ok", << >>) \/ Session!Respond("fail", << >>)
      BY <3>1 DEF Session!HandleSet
    <3> QED
      BY <3>2
  <2>2. CASE Head(requests).kind = "get"
    <3>1. \E text \in Session!Written(held) : Session!Respond("value", text)
      BY <2>2 DEF Session!HandleRequest
    <3> QED
      BY <3>1
  <2>3. CASE Head(requests).kind = "info"
    <3>1. Session!Respond("info", << >>)
      BY <2>3 DEF Session!HandleRequest
    <3> QED
      BY <3>1
  <2> QED
    BY <1>5, <2>1, <2>2, <2>3
<1>7. PICK r : responses' = Append(responses, r) /\ r.kind # "update"
  BY <1>6, Responded
<1>8. LinesTyped'
  BY <1>3, <1>5, <1>7, PutOn DEF LinesTyped
<1>9. AnswerComes'
  <2>1. /\ Len(responses) \in Nat /\ Len(responses') = Len(responses) + 1
        /\ responses'[Len(responses) + 1] = r
        /\ \A i \in 1 .. Len(responses) : responses'[i] = responses[i]
    BY <1>3, <1>7, PutOn
  <2>2. PICK last \in 1 .. Len(responses') : last = Len(responses) + 1
    BY <2>1
  <2>3. responses'[last].kind # "update"
    BY <1>7, <2>1, <2>2
  <2>4. ASSUME NEW j \in 1 .. Len(responses'), j # last
        PROVE  responses'[j].kind = "update"
    <3>1. j \in 1 .. Len(responses)
      BY <2>1, <2>2, <2>4
    <3> QED
      BY <1>2, <2>1, <3>1 DEF Asked, Updates
  <2> QED
    BY <1>5, <2>3, <2>4 DEF AnswerComes
<1> QED
  BY <1>1, <1>2, <1>8, <1>9 DEF OneAtATime

LEMMA UpdateKeeps ==
  ASSUME SessionInv, Session!Update
  PROVE  SessionInv'
<1> SUFFICES ASSUME ~broken'
             PROVE  LinesTyped' /\ OneAtATime'
  BY DEF SessionInv
<1> DEFINE r == [kind |-> "update", text |-> << >>, held |-> Session!NoValue]
<1>1. responses' = Append(responses, r) /\ UNCHANGED <<caller, requests, broken>>
  BY DEF Session!Update, Session!clientVars
<1>2. LinesTyped /\ OneAtATime
  BY <1>1 DEF SessionInv
<1>3. r.kind = "update"
  OBVIOUS
<1> HIDE DEF r
<1>4. PICK S : responses \in Seq(S)
  BY <1>2 DEF LinesTyped
<1>5. /\ responses' \in Seq(S \cup {r}) /\ Len(responses) \in Nat
      /\ Len(responses') = Len(responses) + 1
      /\ responses'[Len(responses) + 1] = r
      /\ \A i \in 1 .. Len(responses) : responses'[i] = responses[i]
  BY <1>1, <1>4, PutOn
<1>6. LinesTyped'
  BY <1>1, <1>2, <1>5 DEF LinesTyped
<1>7. Updates(responses) => Updates(responses')
  <2> SUFFICES ASSUME Updates(responses), NEW j \in 1 .. Len(responses')
               PROVE  responses'[j].kind = "update"
    BY DEF Updates
  <2>1. CASE j = Len(responses) + 1
    BY <1>3, <1>5, <2>1
  <2>2. CASE j \in 1 .. Len(responses)
    BY <1>5, <2>2 DEF Updates
  <2> QED
    BY <1>5, <2>1, <2>2
<1>8. AnswerComes => AnswerComes'
  <2> SUFFICES ASSUME AnswerComes
               PROVE  AnswerComes'
    OBVIOUS
  <2>1. PICK i \in 1 .. Len(responses) :
          /\ responses[i].kind # "update"
          /\ \A j \in 1 .. Len(responses) : j # i => responses[j].kind = "update"
    BY DEF AnswerComes
  <2>2. i \in 1 .. Len(responses') /\ responses'[i].kind # "update"
    BY <1>5, <2>1
  <2>3. ASSUME NEW j \in 1 .. Len(responses'), j # i
        PROVE  responses'[j].kind = "update"
    <3>1. CASE j = Len(responses) + 1
      BY <1>3, <1>5, <3>1
    <3>2. CASE j \in 1 .. Len(responses)
      BY <1>5, <2>1, <2>3, <3>2
    <3> QED
      BY <1>5, <3>1, <3>2
  <2>4. requests' = << >>
    BY <1>1 DEF AnswerComes
  <2> QED
    BY <2>2, <2>3, <2>4 DEF AnswerComes
<1>9. (Asked => Asked') /\ (Quiet => Quiet')
  <2>1. Updates(responses) => Updates(responses)'
    BY <1>7 DEF Updates
  <2> QED
    BY <1>1, <2>1 DEF Asked, Quiet
<1> QED
  BY <1>1, <1>2, <1>6, <1>8, <1>9 DEF OneAtATime

LEMMA SessionKeeps == SessionInv /\ [Session!Next]_(Session!vars) => SessionInv'
<1> SUFFICES ASSUME SessionInv, [Session!Next]_(Session!vars)
             PROVE  SessionInv'
  OBVIOUS
<1>1. ASSUME UNCHANGED <<caller, requests, responses, broken>>
      PROVE  SessionInv'
  BY <1>1 DEF SessionInv, LinesTyped, OneAtATime, Quiet, Asked, AnswerComes, Updates
<1>2. CASE Session!Change
  BY <1>1, <1>2 DEF Session!Change, Session!clientVars, Session!lineVars
<1>3. CASE UNCHANGED Session!vars
  BY <1>1, <1>3 DEF Session!vars, Session!clientVars, Session!lineVars
<1> QED
  BY <1>2, <1>3, SetValueKeeps, GetValueKeeps, ReadLineKeeps, HandleRequestKeeps, UpdateKeeps
     DEF Session!Next

\* Between two calls no answer is on its way.
LEMMA OwnAnswers == SessionInv => Session!AnswersAreOwn
BY DEF SessionInv, OneAtATime, Quiet, Updates, LinesTyped, Session!AnswersAreOwn

-----------------------------------------------------------------------------
(* The values of the client and the server.                                *)

\* The kinds of the lines to the server.
RequestKinds == {"set", "info", "get", "other"}
\* The kinds of the lines to the client.
ResponseKinds == {"ok", "value", "info", "fail", "update"}

\* Lines that are a sequence, each of such a kind.
RequestsTyped(lines) == \E S : (\A r \in S : r.kind \in RequestKinds) /\ lines \in Seq(S)
ResponsesTyped(lines) == \E S : (\A r \in S : r.kind \in ResponseKinds) /\ lines \in Seq(S)

\* The types, with the lines on the way as sequences.
SessionTyped ==
  /\ type \in Session!Types /\ build \in Session!Builds
  /\ held[1] = type
  /\ caller \in {"idle", "set", "info", "get"}
  /\ meant \in Session!Settable \cup {Session!NoValue}
  /\ info \in BOOLEAN /\ broken \in BOOLEAN
  /\ RequestsTyped(requests) /\ ResponsesTyped(responses)

\* They are the types of the client.
LEMMA SessionTypes == SessionTyped => Session!TypeOK
<1> SUFFICES ASSUME SessionTyped
             PROVE  Session!TypeOK
  OBVIOUS
<1>1. \A i \in DOMAIN requests : requests[i].kind \in {"set", "info", "get", "other"}
  BY DEF SessionTyped, RequestsTyped, RequestKinds
<1>2. \A i \in DOMAIN responses : responses[i].kind \in {"ok", "value", "info", "fail", "update"}
  BY DEF SessionTyped, ResponsesTyped, ResponseKinds
<1> QED
  BY <1>1, <1>2, Zenon DEF SessionTyped, Session!TypeOK

\* The types at the start.
LEMMA SessionTypedStarts == Session!Init => SessionTyped
<1> SUFFICES ASSUME Session!Init
             PROVE  SessionTyped
  OBVIOUS
<1>1. requests = << >> /\ responses = << >>
  BY DEF Session!Init
<1>2. << >> \in Seq({}) /\ \A r \in {} : r.kind \in RequestKinds /\ r.kind \in ResponseKinds
  OBVIOUS
<1>3. RequestsTyped(requests) /\ ResponsesTyped(responses)
  BY <1>1, <1>2, Zenon DEF RequestsTyped, ResponsesTyped
<1>4. type \in Session!Types /\ build \in Session!Builds /\ held \in Session!ValuesOf(type)
  BY DEF Session!Init, Session!Builds
<1>5. held[1] = type
  BY <1>4, TypeKept
<1> QED
  BY <1>3, <1>4, <1>5 DEF Session!Init, SessionTyped

\* What a call sends.
LEMMA SendTyped ==
  ASSUME RequestsTyped(requests), NEW kind \in RequestKinds, NEW S, NEW lines \in Seq(S), lines # << >>,
         Session!Send(kind, lines)
  PROVE  RequestsTyped(requests')
<1> DEFINE sent == [kind |-> kind, text |-> Head(lines)]
           more == [i \in 1 .. Len(lines) - 1 |-> [kind |-> "other", text |-> lines[i + 1]]]
<1>1. requests' = requests \o <<sent>> \o more
  BY DEF Session!Send
<1>2. PICK T : (\A r \in T : r.kind \in RequestKinds) /\ requests \in Seq(T)
  BY DEF RequestsTyped
<1>3. PICK n \in Nat : n = Len(lines) - 1
  BY EmptySeq, LenProperties
<1> DEFINE U == T \cup {sent} \cup {more[i] : i \in 1 .. n}
<1>4. more \in Seq(U)
  <2>1. \A i \in 1 .. n : more[i] \in U
    OBVIOUS
  <2>2. more = [i \in 1 .. n |-> more[i]]
    BY <1>3
  <2> HIDE DEF more, U
  <2> QED
    BY <2>1, <2>2
<1>5. \A r \in U : r.kind \in RequestKinds
  <2>1. sent.kind \in RequestKinds
    OBVIOUS
  <2>2. \A i \in 1 .. n : more[i].kind \in RequestKinds
    BY <1>3 DEF RequestKinds
  <2> HIDE DEF more, sent
  <2> QED
    BY <1>2, <2>1, <2>2
<1>6. sent \in U /\ T \subseteq U
  OBVIOUS
<1> HIDE DEF U, more, sent
<1>7. requests \in Seq(U) /\ <<sent>> \in Seq(U)
  BY <1>2, <1>6, SeqMonotonic
<1>8. requests \o <<sent>> \o more \in Seq(U)
  BY <1>4, <1>7, ConcatProperties
<1> QED
  BY <1>1, <1>5, <1>8, Zenon DEF RequestsTyped

\* What is taken off, and what is put on, the lines.
LEMMA TypedTail ==
  ASSUME NEW lines, lines # << >>
  PROVE  /\ RequestsTyped(lines) => RequestsTyped(Tail(lines))
         /\ ResponsesTyped(lines) => ResponsesTyped(Tail(lines))
<1>1. \A S : lines \in Seq(S) => Tail(lines) \in Seq(S)
  OBVIOUS
<1> QED
  BY <1>1, Zenon DEF RequestsTyped, ResponsesTyped

\* What one more answer leaves.
LEMMA TypedAppend ==
  ASSUME NEW lines, ResponsesTyped(lines), NEW r, r.kind \in ResponseKinds
  PROVE  ResponsesTyped(Append(lines, r))
<1>1. PICK S : (\A q \in S : q.kind \in ResponseKinds) /\ lines \in Seq(S)
  BY DEF ResponsesTyped
<1>2. Append(lines, r) \in Seq(S \cup {r})
  BY <1>1, PutOn
<1>3. \A q \in S \cup {r} : q.kind \in ResponseKinds
  BY <1>1
<1> QED
  BY <1>2, <1>3 DEF ResponsesTyped

\* What an answer leaves.
LEMMA RespondTyped ==
  ASSUME ResponsesTyped(responses), NEW kind \in ResponseKinds, NEW text, Session!Respond(kind, text)
  PROVE  ResponsesTyped(responses')
<1>1. PICK r : responses' = Append(responses, r) /\ r.kind = kind
  BY Responded, Zenon
<1> QED
  BY <1>1, TypedAppend, Zenon

\* The lines of a value that is set; when they are one, it is the text of the
\* value.
LEMMA SetLines ==
  ASSUME NEW v \in Session!Settable, NEW lines, lines = Session!LinesOf(Session!FormatValue(v))
  PROVE  /\ lines \in Seq(Seq(SentChar)) /\ lines # << >>
         /\ Len(lines) = 1 => lines[1] = Session!FormatValue(v)
<1>1. SentAs(Session!FormatValue(v), v)
  BY AllSent
<1> HIDE DEF SentChar
<1> QED
  BY <1>1, LinesMade DEF SentAs

\* Each step keeps the types.
LEMMA SessionTypedKeeps ==
  ASSUME SessionTyped, [Session!Next]_(Session!vars)
  PROVE  SessionTyped'
<1>1. RequestsTyped(requests) /\ ResponsesTyped(responses)
  BY DEF SessionTyped
<1>2. ASSUME NEW v \in Session!Settable, Session!SetValue(v)
      PROVE  SessionTyped'
  <2>1. PICK lines : lines = Session!LinesOf(Session!FormatValue(v))
    OBVIOUS
  <2>2. lines \in Seq(Seq(SentChar)) /\ lines # << >>
    BY <2>1, SetLines
  <2>3. Session!Send("set", lines)
    BY <1>2, <2>1 DEF Session!SetValue
  <2>4. "set" \in RequestKinds
    BY DEF RequestKinds
  <2>5. RequestsTyped(requests')
    BY <1>1, <2>2, <2>3, <2>4, SendTyped
  <2>6. caller' = "set" /\ meant' = v /\ broken' = (Len(lines) # 1) /\ UNCHANGED <<type, build, held, info, responses>>
    BY <1>2, <2>1 DEF Session!SetValue
  <2>7. broken' \in BOOLEAN
    BY <2>6
  <2> QED
    BY <1>1, <2>5, <2>6, <2>7 DEF SessionTyped
<1>3. CASE Session!GetValue
  <2>1. caller' \in {"get", "info"} /\ Session!Send(caller', << << >> >>)
        /\ UNCHANGED <<type, build, held, meant, info, responses, broken>>
    BY <1>3 DEF Session!GetValue
  <2>2. << << >> >> \in Seq({<< >>}) /\ << << >> >> # << >>
    OBVIOUS
  <2>3. PICK kind \in RequestKinds : kind = caller'
    BY <2>1 DEF RequestKinds
  <2>4. RequestsTyped(requests')
    BY <1>1, <2>1, <2>2, <2>3, SendTyped
  <2> QED
    BY <2>1, <2>4 DEF SessionTyped
<1>4. CASE Session!ReadLine
  <2>1. responses # << >> /\ responses' = Tail(responses) /\ UNCHANGED <<type, build, held, broken>>
    BY <1>4 DEF Session!ReadLine
  <2>2. ResponsesTyped(responses')
    BY <1>1, <2>1, TypedTail
  <2>3. \/ UNCHANGED <<caller, meant, info, requests>>
        \/ caller' = "idle" /\ meant' = Session!NoValue /\ UNCHANGED <<info, requests>>
        \/ info' = TRUE /\ caller' = "get" /\ Session!Send("get", << << >> >>) /\ UNCHANGED meant
    BY <1>4 DEF Session!ReadLine, Session!Take, Session!TakeInfo, Session!TakeValue, Session!TakeSet, Session!Ends
  <2>4. Session!Send("get", << << >> >>) => RequestsTyped(requests')
    <3>1. << << >> >> \in Seq({<< >>}) /\ << << >> >> # << >>
      OBVIOUS
    <3>2. "get" \in RequestKinds
      BY DEF RequestKinds
    <3> QED
      BY <1>1, <3>1, <3>2, SendTyped
  <2> QED
    BY <1>1, <2>1, <2>2, <2>3, <2>4 DEF SessionTyped
<1>5. CASE Session!HandleRequest
  <2>1. requests # << >> /\ requests' = Tail(requests)
        /\ UNCHANGED <<type, build, caller, meant, info, broken>>
    BY <1>5 DEF Session!HandleRequest, Session!clientVars
  <2>2. RequestsTyped(requests')
    BY <1>1, <2>1, TypedTail
  <2>3. Head(requests).kind \in RequestKinds
    BY <1>1, <2>1 DEF RequestsTyped
  <2>4. held'[1] = type /\ \E kind \in ResponseKinds : \E text : Session!Respond(kind, text)
    <3>1. CASE Head(requests).kind = "set"
      <4>1. Session!HandleSet(Head(requests).text)
        BY <1>5, <3>1 DEF Session!HandleRequest
      <4>2. \/ held'[1] = type /\ Session!Respond("ok", << >>)
            \/ UNCHANGED held /\ Session!Respond("fail", << >>)
        BY <4>1 DEF Session!HandleSet
      <4> QED
        BY <4>2 DEF SessionTyped, ResponseKinds
    <3>2. CASE Head(requests).kind = "get"
      <4>1. UNCHANGED held /\ \E text \in Session!Written(held) : Session!Respond("value", text)
        BY <1>5, <3>2 DEF Session!HandleRequest
      <4> QED
        BY <4>1 DEF SessionTyped, ResponseKinds
    <3>3. CASE Head(requests).kind = "info"
      <4>1. UNCHANGED held /\ Session!Respond("info", << >>)
        BY <1>5, <3>3 DEF Session!HandleRequest
      <4> QED
        BY <4>1 DEF SessionTyped, ResponseKinds
    <3>4. CASE Head(requests).kind = "other"
      <4>1. UNCHANGED held /\ Session!Respond("fail", << >>)
        BY <1>5, <3>4 DEF Session!HandleRequest
      <4> QED
        BY <4>1 DEF SessionTyped, ResponseKinds
    <3> QED
      BY <2>3, <3>1, <3>2, <3>3, <3>4 DEF RequestKinds
  <2>5. ResponsesTyped(responses')
    BY <1>1, <2>4, RespondTyped
  <2> QED
    BY <2>1, <2>2, <2>4, <2>5 DEF SessionTyped
<1>6. CASE Session!Change
  <2>1. held' \in Session!ValuesOf(type)
        /\ UNCHANGED <<type, build, caller, meant, info, broken, requests, responses>>
    BY <1>6 DEF Session!Change, Session!clientVars, Session!lineVars
  <2>2. held'[1] = type
    BY <2>1, TypeKept DEF SessionTyped
  <2> QED
    BY <2>1, <2>2 DEF SessionTyped
<1>7. CASE Session!Update
  <2> DEFINE r == [kind |-> "update", text |-> << >>, held |-> Session!NoValue]
  <2>1. responses' = Append(responses, r)
        /\ UNCHANGED <<type, build, held, caller, meant, info, broken, requests>>
    BY <1>7 DEF Session!Update, Session!clientVars
  <2>2. r.kind \in ResponseKinds
    BY DEF ResponseKinds
  <2> HIDE DEF r
  <2>3. ResponsesTyped(responses')
    BY <1>1, <2>1, <2>2, TypedAppend
  <2> QED
    BY <2>1, <2>3 DEF SessionTyped
<1>8. CASE UNCHANGED Session!vars
  BY <1>8 DEF SessionTyped, Session!vars, Session!clientVars, Session!lineVars
<1> QED
  BY <1>2, <1>3, <1>4, <1>5, <1>6, <1>7, <1>8 DEF Session!Next

\* A settable value that the server takes is one its property may hold.
LEMMA SettableHeld ==
  ASSUME NEW v \in Session!Settable, v[1] \in Session!Types, ~Session!Overflows(v)
  PROVE  v \in Session!ValuesOf(v[1])
<1>1. CASE v \in {"Integer"} \X Numbers
  <2>1. PICK n \in Numbers : v = <<"Integer", n>>
    BY <1>1
  <2>2. v[1] = "Integer" /\ v[2] = n
    BY <2>1, Tagged, Zenon
  <2>3. n \in Int /\ IntMax \in Nat
    BY <2>1, ValueConstants
  <2>4. ~(Session!Magnitude(n) > IntMax)
    BY <2>2 DEF Session!Overflows, Session!Whole
  <2>5. n \in -IntMax - 1 .. IntMax
    BY <2>3, <2>4 DEF Session!Magnitude
  <2>6. Session!ValuesOf("Integer") = {"Integer"} \X (Numbers \cap -IntMax - 1 .. IntMax)
    BY DEF Session!ValuesOf
  <2> QED
    BY <2>1, <2>2, <2>5, <2>6
<1>2. CASE v \in {"Float"} \X Hundredths
  <2>1. Session!ValuesOf("Float") = {"Float"} \X Hundredths
    BY DEF Session!ValuesOf
  <2> QED
    BY <1>2, <2>1
<1>3. CASE v \in {"Boolean"} \X BOOLEAN
  <2>1. Session!ValuesOf("Boolean") = {"Boolean"} \X BOOLEAN
    BY DEF Session!ValuesOf
  <2> QED
    BY <1>3, <2>1
<1>4. CASE v \in {"String"} \X Session!Strings
  <2>1. Session!ValuesOf("String") = {"String"} \X Session!Strings
    BY DEF Session!ValuesOf
  <2> QED
    BY <1>4, <2>1
<1>5. CASE v = Session!Null \/ v = Session!List
  BY <1>5, Tagged DEF Session!Types
<1> QED
  BY <1>1, <1>2, <1>3, <1>4, <1>5 DEF Session!Settable

\* What a call that ended may have brought.
Agrees(o) ==
  CASE o.call = "set" /\ o.result # Session!Raised ->
         o.held = o.meant \/ Session!Overflows(o.meant)
    [] o.call = "get" -> ReadBack(o.result, o.held)
    [] OTHER -> TRUE

\* The request on the way is the one of the call.
RequestFits ==
  requests # << >> =>
    /\ requests[1].kind = caller
    /\ caller = "set" => meant \in Session!Settable /\ requests[1].text = Session!FormatValue(meant)

\* What an answer to the call says.
Answering(r) ==
  /\ caller = "set" /\ r.kind = "ok" => r.held = meant \/ Session!Overflows(meant)
  /\ caller = "get" /\ r.kind # "update" =>
       r.kind = "value" /\ r.held \in Session!ValuesOf(type) /\ r.text \in Session!Written(r.held)

\* Every answer on the way says what it should.
AnswersFit == \A i \in 1 .. Len(responses) : Answering(responses[i])

\* As long as the server takes a line for a request: it holds a value of the
\* type, the request is the one of the call, an answer tells what the call is
\* about, and what the last call brought agrees with it.
CallsFit ==
  ~broken =>
    /\ held \in Session!ValuesOf(type)
    /\ RequestFits
    /\ AnswersFit
    /\ outcome # << >> => Agrees(outcome)

\* The inductive invariant: the types, one line on the way, and what the lines
\* say.
ValuesInv == SessionTyped /\ SessionInv /\ CallsFit

\* It makes the values agree.
LEMMA ValuesFit == CallsFit => Session!ValuesAgree
BY DEF CallsFit, Agrees, ReadBack, Session!ValuesAgree

\* There is nothing on the way at the start.
LEMMA CallsStart == Session!Init => CallsFit
<1> SUFFICES ASSUME Session!Init
             PROVE  CallsFit
  OBVIOUS
<1>1. requests = << >> /\ responses = << >> /\ outcome = << >> /\ held \in Session!ValuesOf(type)
  BY DEF Session!Init
<1>2. Len(responses) = 0
  BY <1>1
<1>3. AnswersFit
  BY <1>2 DEF AnswersFit
<1> QED
  BY <1>1, <1>3 DEF CallsFit, RequestFits

\* The texts of a value and what may be read of it depend on the build only.
LEMMA BuildFixed ==
  ASSUME UNCHANGED build
  PROVE  /\ \A h : Session!Written(h)' = Session!Written(h)
         /\ \A values, h : ReadBack(values, h)' <=> ReadBack(values, h)
         /\ \A o : Agrees(o)' <=> Agrees(o)
<1>1. \A h : Session!Written(h)' = Session!Written(h)
  BY DEF Session!Written, Session!WriteFloat
<1>2. \A values, h : ReadBack(values, h)' <=> ReadBack(values, h)
  BY DEF ReadBack, Session!IsReadable
<1>3. \A o : Agrees(o)' <=> Agrees(o)
  BY <1>2 DEF Agrees
<1> QED
  BY <1>1, <1>2, <1>3

\* What an answer should say is told by the call and the type.
LEMMA AnsweringKept ==
  ASSUME UNCHANGED <<type, build, caller, meant>>
  PROVE  \A r : Answering(r)' <=> Answering(r)
<1>1. \A h : Session!Written(h)' = Session!Written(h)
  BY BuildFixed
<1>2. \A t : Session!ValuesOf(t)' = Session!ValuesOf(t)
  OBVIOUS
<1> QED
  BY <1>1, <1>2 DEF Answering

\* A line that is sent when none is on its way is the only one.
LEMMA SentAlone ==
  ASSUME requests = << >>, NEW kind, NEW S, NEW lines \in Seq(S), Len(lines) = 1,
         Session!Send(kind, lines)
  PROVE  requests'[1].kind = kind /\ requests'[1].text = lines[1]
<1> DEFINE sent == [kind |-> kind, text |-> Head(lines)]
<1>1. requests' = << >> \o <<sent>>
                  \o [i \in 1 .. Len(lines) - 1 |-> [kind |-> "other", text |-> lines[i + 1]]]
  BY DEF Session!Send
<1>2. [i \in 1 .. Len(lines) - 1 |-> [kind |-> "other", text |-> lines[i + 1]]] = << >>
  <2>1. Len(lines) - 1 = 0
    OBVIOUS
  <2> QED
    BY <2>1
<1>3. sent.kind = kind /\ sent.text = lines[1]
  <2>1. Head(lines) = lines[1]
    OBVIOUS
  <2> QED
    BY <2>1
<1> HIDE DEF sent
<1>4. requests' = <<sent>>
  BY <1>1, <1>2
<1>5. requests'[1] = sent
  BY <1>4
<1> QED
  BY <1>3, <1>5

\* A value is set: its text is on the way.
LEMMA SetValueFits ==
  ASSUME ValuesInv, NEW v \in Session!Settable, Session!SetValue(v)
  PROVE  CallsFit'
<1> SUFFICES ASSUME ~broken'
             PROVE  CallsFit'
  BY DEF CallsFit
<1>1. PICK lines : lines = Session!LinesOf(Session!FormatValue(v))
  OBVIOUS
<1>2. /\ caller = "idle" /\ caller' = "set" /\ ~broken /\ broken' = (Len(lines) # 1)
      /\ Session!Send("set", lines) /\ meant' = v /\ outcome' = << >>
      /\ UNCHANGED <<type, build, held, info, responses>>
  BY <1>1 DEF Session!SetValue
<1>3. Len(lines) = 1
  <2>1. ~(Len(lines) # 1)
    BY <1>2, Zenon
  <2> QED
    BY <2>1
<1>4. lines \in Seq(Seq(SentChar)) /\ lines[1] = Session!FormatValue(v)
  BY <1>1, <1>3, SetLines
<1>5. requests = << >> /\ Updates(responses)
  BY <1>2 DEF ValuesInv, SessionInv, OneAtATime, Quiet
<1>6. requests'[1].kind = "set" /\ requests'[1].text = Session!FormatValue(v)
  BY <1>2, <1>3, <1>4, <1>5, SentAlone
<1>7. RequestFits'
  BY <1>2, <1>6 DEF RequestFits
<1>8. AnswersFit'
  BY <1>2, <1>5 DEF AnswersFit, Answering, Updates
<1>9. held' \in Session!ValuesOf(type')
  BY <1>2 DEF ValuesInv, CallsFit
<1> QED
  BY <1>2, <1>7, <1>8, <1>9 DEF CallsFit

\* A value is asked for.
LEMMA GetValueFits ==
  ASSUME ValuesInv, Session!GetValue
  PROVE  CallsFit'
<1> SUFFICES ASSUME ~broken'
             PROVE  CallsFit'
  BY DEF CallsFit
<1>1. /\ caller = "idle" /\ caller' \in {"get", "info"} /\ outcome' = << >>
      /\ Session!Send(caller', << << >> >>)
      /\ UNCHANGED <<type, build, held, meant, info, responses, broken>>
  BY DEF Session!GetValue
<1>2. requests = << >> /\ Updates(responses)
  BY <1>1 DEF ValuesInv, SessionInv, OneAtATime, Quiet
<1>3. << << >> >> \in Seq({<< >>}) /\ Len(<< << >> >>) = 1
  OBVIOUS
<1>4. requests'[1].kind = caller'
  <2>1. PICK kind : kind = caller'
    OBVIOUS
  <2>2. Session!Send(kind, << << >> >>)
    BY <1>1, <2>1
  <2>3. requests'[1].kind = kind
    BY <1>2, <1>3, <2>2, SentAlone
  <2> QED
    BY <2>1, <2>3
<1>5. RequestFits'
  BY <1>1, <1>4 DEF RequestFits
<1>6. AnswersFit'
  BY <1>1, <1>2 DEF AnswersFit, Answering, Updates
<1>7. held' \in Session!ValuesOf(type')
  BY <1>1 DEF ValuesInv, CallsFit
<1> QED
  BY <1>1, <1>5, <1>6, <1>7 DEF CallsFit

\* An update changes nothing about the answers.
LEMMA UpdateFits ==
  ASSUME ValuesInv, Session!Update
  PROVE  CallsFit'
<1> SUFFICES ASSUME ~broken'
             PROVE  CallsFit'
  BY DEF CallsFit
<1> DEFINE r == [kind |-> "update", text |-> << >>, held |-> Session!NoValue]
<1>1. /\ responses' = Append(responses, r)
      /\ UNCHANGED <<type, build, held, requests, caller, meant, info, outcome, broken>>
  BY DEF Session!Update, Session!clientVars
<1>2. LinesTyped /\ CallsFit /\ ~broken
  BY <1>1 DEF ValuesInv, SessionInv
<1>3. PICK S : responses \in Seq(S)
  BY <1>2 DEF LinesTyped
<1>4. r.kind = "update"
  OBVIOUS
<1> HIDE DEF r
<1>5. /\ Len(responses) \in Nat /\ Len(responses') = Len(responses) + 1
      /\ responses'[Len(responses) + 1] = r
      /\ \A i \in 1 .. Len(responses) : responses'[i] = responses[i]
  BY <1>1, <1>3, PutOn
<1>6. Answering(r)'
  BY <1>4 DEF Answering
<1>7. \A q : Answering(q)' <=> Answering(q)
  BY <1>1, AnsweringKept
<1>8. AnswersFit'
  <2>1. ASSUME NEW j \in 1 .. Len(responses'), NEW q, q = responses'[j]
        PROVE  Answering(q)'
    <3>1. CASE j = Len(responses) + 1
      BY <1>5, <1>6, <2>1, <3>1, Zenon
    <3>2. CASE j \in 1 .. Len(responses)
      <4>1. q = responses[j]
        BY <1>5, <2>1, <3>2
      <4>2. Answering(q)
        BY <1>2, <3>2, <4>1 DEF AnswersFit, CallsFit
      <4> QED
        BY <1>7, <4>2
    <3> QED
      BY <1>5, <2>1, <3>1, <3>2
  <2> QED
    BY <2>1 DEF AnswersFit
<1>9. outcome' # << >> => Agrees(outcome)'
  BY <1>1, <1>2, BuildFixed DEF CallsFit
<1> QED
  BY <1>1, <1>2, <1>8, <1>9 DEF CallsFit, RequestFits

\* The property changes, not the answers that were given.
LEMMA ChangeFits ==
  ASSUME ValuesInv, Session!Change
  PROVE  CallsFit'
<1> SUFFICES ASSUME ~broken'
             PROVE  CallsFit'
  BY DEF CallsFit
<1>1. /\ held' \in Session!ValuesOf(type)
      /\ UNCHANGED <<type, build, requests, responses, caller, meant, info, outcome, broken>>
  BY DEF Session!Change, Session!clientVars, Session!lineVars
<1>2. CallsFit /\ ~broken
  BY <1>1 DEF ValuesInv
<1>3. AnswersFit'
  BY <1>1, <1>2, AnsweringKept DEF AnswersFit, CallsFit
<1>4. outcome' # << >> => Agrees(outcome)'
  BY <1>1, <1>2, BuildFixed DEF CallsFit
<1> QED
  BY <1>1, <1>2, <1>3, <1>4 DEF CallsFit, RequestFits

\* What a call that ends tells.
LEMMA EndedWith ==
  ASSUME NEW result, Session!Ends(result)
  PROVE  /\ caller' = "idle" /\ outcome'.call = caller /\ outcome'.meant = meant
         /\ outcome'.held = Head(responses).held /\ outcome'.result = result
BY DEF Session!Ends

\* The answer is taken: the value that was read is the one that was held when
\* it was written.
LEMMA TakeFits ==
  ASSUME ValuesInv, ~broken, Session!ReadLine, Head(responses).kind # "update"
  PROVE  CallsFit'
<1>1. /\ Session!Take /\ requests = << >>
      /\ 1 \in 1 .. Len(responses) /\ Head(responses) = responses[1] /\ Updates(responses')
  BY TakesAnswer DEF ValuesInv
<1>2. UNCHANGED <<type, build, held, broken>>
  BY DEF Session!ReadLine
<1>3. CallsFit /\ AnswersFit /\ Answering(responses[1])
  BY <1>1 DEF ValuesInv, CallsFit, AnswersFit
<1>4. held' \in Session!ValuesOf(type')
  BY <1>2, <1>3 DEF CallsFit
<1>5. AnswersFit'
  BY <1>1 DEF AnswersFit, Answering, Updates
<1>6. PICK o : o = outcome'
  OBVIOUS
<1>7. Agrees(o) => Agrees(outcome)'
  <2>1. Agrees(o) => Agrees(o)'
    BY <1>2, BuildFixed
  <2> QED
    BY <1>6, <2>1
<1>8. CASE UNCHANGED requests /\ caller' = "idle" /\ Agrees(o)
  BY <1>1, <1>4, <1>5, <1>7, <1>8 DEF CallsFit, RequestFits
<1>9. CASE caller = "info" /\ Session!TakeInfo
  <2>1. CASE Head(responses).kind = "info"
    <3>1. caller' = "get" /\ Session!Send("get", << << >> >>) /\ UNCHANGED <<meant, outcome>>
      BY <1>9, <2>1 DEF Session!TakeInfo
    <3>2. << << >> >> \in Seq({<< >>}) /\ Len(<< << >> >>) = 1
      OBVIOUS
    <3>3. requests'[1].kind = "get"
      BY <1>1, <3>1, <3>2, SentAlone
    <3>4. RequestFits'
      BY <3>1, <3>3 DEF RequestFits
    <3>5. outcome' # << >> => Agrees(outcome)'
      BY <1>2, <1>3, <3>1, BuildFixed DEF CallsFit
    <3> QED
      BY <1>4, <1>5, <3>4, <3>5 DEF CallsFit
  <2>2. CASE Head(responses).kind # "info"
    <3>1. Session!Ends(Session!Raised) /\ UNCHANGED requests
      BY <1>9, <2>2 DEF Session!TakeInfo
    <3>2. caller' = "idle" /\ o.call = "info"
      BY <1>6, <1>9, <3>1, EndedWith
    <3>3. Agrees(o)
      BY <3>2 DEF Agrees
    <3> QED
      BY <1>8, <3>1, <3>2, <3>3
  <2> QED
    BY <2>1, <2>2
<1>10. CASE caller = "get" /\ Session!TakeValue
  <2>1. /\ responses[1].kind = "value" /\ responses[1].held \in Session!ValuesOf(type)
        /\ responses[1].text \in Session!Written(responses[1].held)
    BY <1>1, <1>3, <1>10 DEF Answering
  <2>2. PICK values : values = Session!ParseValues(responses[1].text)
    OBVIOUS
  <2>3. Session!Ends(values) /\ UNCHANGED requests
    BY <1>1, <1>10, <2>1, <2>2 DEF Session!TakeValue
  <2>4. caller' = "idle" /\ o.call = "get" /\ o.result = values /\ o.held = responses[1].held
    BY <1>1, <1>6, <1>10, <2>3, EndedWith
  <2>5. type \in Session!Types /\ build \in Session!Builds
    BY DEF ValuesInv, SessionTyped
  <2>6. ReadBack(values, o.held)
    <3>1. PICK t \in Session!Types : t = type
      BY <2>5
    <3>2. PICK h \in Session!ValuesOf(t) : h = responses[1].held
      BY <2>1, <3>1
    <3>3. PICK text \in Session!Written(h) : text = responses[1].text
      BY <2>1, <3>2
    <3>4. ReadBack(Session!ParseValues(text), h)
      BY <2>5, AllReadBack
    <3> QED
      BY <2>2, <2>4, <3>2, <3>3, <3>4, Zenon
  <2>7. Agrees(o)
    BY <2>4, <2>6 DEF Agrees
  <2> QED
    BY <1>8, <2>3, <2>4, <2>7
<1>11. CASE caller = "set" /\ Session!TakeSet
  <2>1. PICK result : /\ result = IF Head(responses).kind = "ok" THEN << >> ELSE Session!Raised
                      /\ Session!Ends(result) /\ UNCHANGED requests
    BY <1>11 DEF Session!TakeSet
  <2>2. /\ caller' = "idle" /\ o.call = "set" /\ o.result = result /\ o.meant = meant
        /\ o.held = responses[1].held
    BY <1>1, <1>6, <1>11, <2>1, EndedWith
  <2>3. result # Session!Raised => o.held = o.meant \/ Session!Overflows(o.meant)
    BY <1>1, <1>3, <1>11, <2>1, <2>2 DEF Answering
  <2>4. Agrees(o)
    BY <2>2, <2>3 DEF Agrees
  <2> QED
    BY <1>8, <2>1, <2>2, <2>4
<1> QED
  BY <1>1, <1>9, <1>10, <1>11 DEF Session!Take

\* A line is read.
LEMMA ReadLineFits ==
  ASSUME ValuesInv, Session!ReadLine
  PROVE  CallsFit'
<1> SUFFICES ASSUME ~broken'
             PROVE  CallsFit'
  BY DEF CallsFit
<1>1. /\ caller # "idle" /\ responses # << >> /\ responses' = Tail(responses)
      /\ UNCHANGED <<type, build, held, broken>>
  BY DEF Session!ReadLine
<1>2. LinesTyped /\ CallsFit /\ ~broken
  BY <1>1 DEF ValuesInv, SessionInv
<1>3. CASE Head(responses).kind = "update"
  <2>1. UNCHANGED <<caller, meant, info, outcome, requests>>
    BY <1>3 DEF Session!ReadLine
  <2>2. PICK S : responses \in Seq(S)
    BY <1>2 DEF LinesTyped
  <2>3. /\ Len(responses') = Len(responses) - 1 /\ Len(responses) \in Nat
        /\ \A i \in 1 .. Len(responses) - 1 : responses'[i] = responses[i + 1]
    BY <1>1, <2>2, TakenOff
  <2>4. \A q : Answering(q)' <=> Answering(q)
    BY <1>1, <2>1, AnsweringKept
  <2>5. ASSUME NEW j \in 1 .. Len(responses'), NEW q, q = responses'[j]
        PROVE  Answering(q)'
    <3>1. PICK k \in 1 .. Len(responses) : k = j + 1
      BY <2>3
    <3>2. q = responses[k]
      BY <2>3, <2>5, <3>1
    <3>3. Answering(q)
      BY <1>2, <3>2 DEF AnswersFit, CallsFit
    <3> QED
      BY <2>4, <3>3
  <2>6. AnswersFit'
    BY <2>5 DEF AnswersFit
  <2>7. outcome' # << >> => Agrees(outcome)'
    BY <1>1, <1>2, <2>1, BuildFixed DEF CallsFit
  <2> QED
    BY <1>1, <1>2, <2>1, <2>6, <2>7 DEF CallsFit, RequestFits
<1>4. CASE Head(responses).kind # "update"
  BY <1>2, <1>4, TakeFits
<1> QED
  BY <1>3, <1>4

\* What a request to set does: it fails, or the property holds the value that
\* the client means, or one of the same type if that one is too wide.
LEMMA SetFits ==
  ASSUME type \in Session!Types, meant \in Session!Settable, held \in Session!ValuesOf(type),
         Session!HandleSet(Session!FormatValue(meant))
  PROVE  /\ held' \in Session!ValuesOf(type)
         /\ \/ Session!Respond("fail", << >>)
            \/ Session!Respond("ok", << >>) /\ (held' = meant \/ Session!Overflows(meant))
<1>1. PICK w \in Session!Parse(Session!FormatValue(meant)) :
        IF w[1] = type THEN held' = w /\ Session!Respond("ok", << >>)
        ELSE UNCHANGED held /\ Session!Respond("fail", << >>)
  BY DEF Session!HandleSet
<1>2. CASE w[1] # type
  BY <1>1, <1>2
<1>3. CASE w[1] = type
  <2>1. held' = w /\ Session!Respond("ok", << >>)
    BY <1>1, <1>3
  <2>2. PICK v \in Session!Settable : v = meant
    OBVIOUS
  <2>3. ReadAs(Session!FormatValue(v), v)
    BY AllSent DEF SentAs
  <2>4. \/ w = Session!NoValue
        \/ w = v /\ ~Session!Overflows(v)
        \/ Session!Overflows(v) /\ w \in Session!ValuesOf(v[1])
    BY <1>1, <2>2, <2>3, Zenon DEF ReadAs
  <2>5. w # Session!NoValue
    BY <1>3, Tagged DEF Session!Types
  <2>6. CASE w = v /\ ~Session!Overflows(v)
    <3>1. v \in Session!ValuesOf(v[1])
      BY <1>3, <2>6, SettableHeld
    <3> QED
      BY <1>3, <2>1, <2>2, <2>6, <3>1
  <2>7. CASE Session!Overflows(v) /\ w \in Session!ValuesOf(v[1])
    <3>1. v[1] \in Session!Types
      BY <2>7 DEF Session!Overflows, Session!Types
    <3>2. w[1] = v[1]
      BY <2>7, <3>1, TypeKept
    <3>3. held' \in Session!ValuesOf(type)
      BY <1>3, <2>1, <2>7, <3>2, Zenon
    <3> QED
      BY <2>1, <2>2, <2>7, <3>3
  <2> QED
    BY <2>4, <2>5, <2>6, <2>7
<1> QED
  BY <1>2, <1>3

\* A request is answered.
LEMMA HandleRequestFits ==
  ASSUME ValuesInv, Session!HandleRequest
  PROVE  CallsFit'
<1> SUFFICES ASSUME ~broken'
             PROVE  CallsFit'
  BY DEF CallsFit
<1>1. /\ requests # << >> /\ requests' = Tail(requests)
      /\ UNCHANGED <<type, build, caller, meant, info, outcome, broken>>
  BY DEF Session!HandleRequest, Session!clientVars
<1>2. /\ CallsFit /\ ~broken /\ LinesTyped /\ Asked
      /\ type \in Session!Types /\ held \in Session!ValuesOf(type)
  BY <1>1 DEF ValuesInv, SessionInv, SessionTyped, CallsFit, OneAtATime, Quiet, AnswerComes
<1>3. PICK T : requests \in Seq(T)
  BY <1>2 DEF LinesTyped
<1>4. requests' = << >> /\ Head(requests) = requests[1]
  BY <1>1, <1>2, <1>3 DEF Asked
<1>5. /\ requests[1].kind = caller
      /\ caller = "set" => meant \in Session!Settable /\ requests[1].text = Session!FormatValue(meant)
  BY <1>1, <1>2 DEF CallsFit, RequestFits
<1>6. /\ held' \in Session!ValuesOf(type)
      /\ \E kind, text :
           /\ Session!Respond(kind, text)
           /\ caller = "set" /\ kind = "ok" => held' = meant \/ Session!Overflows(meant)
           /\ caller = "get" => kind = "value" /\ text \in Session!Written(held')
  <2>1. CASE caller = "set"
    <3>1. Session!HandleSet(Session!FormatValue(meant))
      BY <1>4, <1>5, <2>1 DEF Session!HandleRequest
    <3>2. /\ held' \in Session!ValuesOf(type)
          /\ \/ Session!Respond("fail", << >>)
             \/ Session!Respond("ok", << >>) /\ (held' = meant \/ Session!Overflows(meant))
      BY <1>2, <1>5, <2>1, <3>1, SetFits
    <3> QED
      BY <2>1, <3>2
  <2>2. CASE caller = "get"
    <3>1. UNCHANGED held /\ \E text \in Session!Written(held) : Session!Respond("value", text)
      BY <1>4, <1>5, <2>2 DEF Session!HandleRequest
    <3>2. held' \in Session!ValuesOf(type)
      BY <1>2, <3>1
    <3>3. PICK text \in Session!Written(held) : Session!Respond("value", text)
      BY <3>1
    <3>4. text \in Session!Written(held')
      BY <3>1, <3>3, Zenon
    <3> QED
      BY <2>2, <3>2, <3>3, <3>4
  <2>3. CASE caller = "info"
    <3>1. UNCHANGED held /\ Session!Respond("info", << >>)
      BY <1>4, <1>5, <2>3 DEF Session!HandleRequest
    <3> QED
      BY <1>2, <2>3, <3>1
  <2> QED
    BY <1>2, <1>5, <2>1, <2>2, <2>3 DEF Asked
<1>7. PICK kind, text :
        /\ Session!Respond(kind, text)
        /\ caller = "set" /\ kind = "ok" => held' = meant \/ Session!Overflows(meant)
        /\ caller = "get" => kind = "value" /\ text \in Session!Written(held')
  BY <1>6
<1>8. PICK r : /\ responses' = Append(responses, r) /\ r.kind = kind /\ r.text = text
               /\ kind \in {"ok", "value"} => r.held = held'
  BY <1>7, Responded
<1>9. Answering(r)
  BY <1>6, <1>7, <1>8 DEF Answering
<1>10. \A q : Answering(q)' <=> Answering(q)
  BY <1>1, AnsweringKept
<1>11. PICK S : responses \in Seq(S)
  BY <1>2 DEF LinesTyped
<1>12. /\ Len(responses) \in Nat /\ Len(responses') = Len(responses) + 1
       /\ responses'[Len(responses) + 1] = r
       /\ \A i \in 1 .. Len(responses) : responses'[i] = responses[i]
  BY <1>8, <1>11, PutOn
<1>13. ASSUME NEW j \in 1 .. Len(responses'), NEW q, q = responses'[j]
       PROVE  Answering(q)'
  <2>1. CASE j = Len(responses) + 1
    <3>1. q = r
      BY <1>12, <1>13, <2>1
    <3> QED
      BY <1>9, <1>10, <3>1
  <2>2. CASE j \in 1 .. Len(responses)
    <3>1. q = responses[j]
      BY <1>12, <1>13, <2>2
    <3>2. Answering(q)
      BY <1>2, <2>2, <3>1 DEF AnswersFit, CallsFit
    <3> QED
      BY <1>10, <3>2
  <2> QED
    BY <1>12, <1>13, <2>1, <2>2
<1>14. AnswersFit'
  BY <1>13 DEF AnswersFit
<1>15. outcome' # << >> => Agrees(outcome)'
  BY <1>1, <1>2, BuildFixed DEF CallsFit
<1> QED
  BY <1>1, <1>4, <1>6, <1>14, <1>15 DEF CallsFit, RequestFits

\* Each step keeps the invariant.
LEMMA ValuesKeep == ValuesInv /\ [Session!Next]_(Session!vars) => ValuesInv'
<1> SUFFICES ASSUME ValuesInv, [Session!Next]_(Session!vars)
             PROVE  ValuesInv'
  OBVIOUS
<1>1. SessionTyped' /\ SessionInv'
  BY SessionTypedKeeps, SessionKeeps DEF ValuesInv
<1>2. CASE UNCHANGED Session!vars
  <2>1. UNCHANGED <<type, build, held, requests, responses, caller, meant, outcome, broken>>
    BY <1>2 DEF Session!vars, Session!clientVars, Session!lineVars
  <2>2. \A q : Answering(q)' <=> Answering(q)
    BY <2>1, AnsweringKept
  <2>3. AnswersFit => AnswersFit'
    BY <2>1, <2>2 DEF AnswersFit
  <2>4. Agrees(outcome) => Agrees(outcome)'
    BY <2>1, BuildFixed
  <2>5. CallsFit'
    BY <2>1, <2>3, <2>4 DEF ValuesInv, CallsFit, RequestFits
  <2> QED
    BY <1>1, <2>5 DEF ValuesInv
<1>3. CASE Session!Next
  <2>1. CallsFit'
    BY <1>3, SetValueFits, GetValueFits, ReadLineFits, HandleRequestFits, ChangeFits, UpdateFits
       DEF Session!Next
  <2> QED
    BY <1>1, <2>1 DEF ValuesInv
<1> QED
  BY <1>2, <1>3

-----------------------------------------------------------------------------
(* The three together.                                                      *)

LibraryInv == TypeOK /\ ParserInv /\ ValuesInv

\* A step of the whole is one of each part or leaves it as it is.
LEMMA EachRuns ==
  ASSUME [MCNext]_allVars
  PROVE  /\ [Next]_vars
         /\ [Requests!Next]_(Requests!vars)
         /\ [Session!Next]_(Session!vars)
<1>1. UNCHANGED parserVars => UNCHANGED Requests!vars
  BY DEF parserVars, Requests!vars
<1>2. UNCHANGED sessionVars => UNCHANGED Session!vars
  BY DEF sessionVars, Session!vars, Session!lineVars, Session!clientVars
<1> QED
  BY <1>1, <1>2 DEF MCNext, allVars

\* What the theorems below follow from.
THEOREM LibraryInvariance == MCSpec => []LibraryInv
<1>1. MCInit => LibraryInv
  BY BufferStarts, ParserStarts, SessionTypedStarts, SessionStarts, CallsStart
     DEF MCInit, LibraryInv, ValuesInv
<1>2. LibraryInv /\ [MCNext]_allVars => LibraryInv'
  BY EachRuns, BufferKeeps, ParserKeeps, ValuesKeep DEF LibraryInv
<1> QED
  BY <1>1, <1>2, PTL DEF MCSpec

\* The buffer's positions stay in it, the parser's position stays in its buffer
\* and what it calls has a path and no more values than the application has room
\* for, whatever bytes arrive (sq_circularbuffer.c:68-104, sq_parser.c:72-262).
THEOREM TypesKept == MCSpec => []TypesOK
<1>1. LibraryInv => TypesOK
  BY ParserTypes DEF LibraryInv, TypesOK
<1> QED
  BY <1>1, LibraryInvariance, PTL

\* A complete request that fits the buffer makes the parser call the function it
\* names, once, with its own path and number of values, whatever earlier lines
\* left in the buffer (sq_parser.c:72-262).
THEOREM RequestsEvaluatedExactly == MCSpec => RequestsAreExact
<1>1. LibraryInv /\ [MCNext]_allVars =>
        [Requests!LineEnds /\ Requests!Fits
           /\ line[1] \in Requests!TakesValues \cup {"L", "I", "E", "D"} =>
           \A word, path, end \in 1 .. Len(line) :
             Requests!Fields(line, word, path, end) =>
               asked' = Requests!Meant(line, word, path, end)]_(Requests!vars)
  BY EachRuns, RequestSteps DEF LibraryInv
<1> QED
  BY <1>1, LibraryInvariance, PTL DEF MCSpec, RequestsAreExact, Requests!RequestsAreExact

\* Every line that fits is answered, even the one after a line whose newline was
\* lost (sq_parser.c:230-262).
THEOREM LinesAlwaysAnswered == MCSpec => Answered
<1>1. LibraryInv /\ [MCNext]_allVars =>
        [Requests!LineEnds /\ Len(line) + 1 < BufferSize
           => asked' # Requests!None]_(Requests!vars)
  BY EachRuns, ShortIsAnswered DEF LibraryInv
<1> QED
  BY <1>1, LibraryInvariance, PTL DEF MCSpec, Answered, Requests!Answered

\* Between two calls of the client no answer is on its way, whatever values it
\* sets and whatever updates the server sends (automation.py:314-329).
THEOREM AnswersAlwaysOwn == MCSpec => []AnswersAreOwn
<1>1. LibraryInv => AnswersAreOwn
  BY OwnAnswers DEF LibraryInv, ValuesInv, AnswersAreOwn
<1> QED
  BY <1>1, LibraryInvariance, PTL

\* The client waits for what it asked for, means what it can be given, and the
\* property holds a value of its own type, whatever is set, with whatever line
\* breaks (automation.py:205-351, sq_parser.c:72-262).
THEOREM SessionAlwaysTyped == MCSpec => []SessionTypeOK
<1>1. LibraryInv => SessionTypeOK
  BY SessionTypes DEF LibraryInv, ValuesInv, SessionTypeOK
<1> QED
  BY <1>1, LibraryInvariance, PTL

\* A value that was set is the value that the server holds, and a value that was
\* read is the one that it held, with the exceptions that Overflows and IsReadable
\* name, for strings of any length and numbers of any size
\* (automation.py:32-202, sq_value.c:176-420, sq_protocol.c:60-299).
THEOREM ValuesAlwaysAgree == MCSpec => []ValuesAgree
<1>1. LibraryInv => ValuesAgree
  BY ValuesFit DEF LibraryInv, ValuesInv, ValuesAgree
<1> QED
  BY <1>1, LibraryInvariance, PTL

=============================================================================
