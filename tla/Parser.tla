------------------------------- MODULE Parser -------------------------------
(***************************************************************************)
(* server/c/src/sq_parser.c: one request line is collected byte by byte in *)
(* a fixed buffer, and evaluated in place when its newline arrives.  The   *)
(* buffer is not cleared between lines, so the state carries what earlier  *)
(* lines left behind.  Positions count from 1 here and from 0 in the code. *)
(*                                                                         *)
(* A character is one member of Alphabet.  "val" stands for the text of    *)
(* one whole value; carriage return and newline are one character, and     *)
(* so are space and tab.                                                   *)
(***************************************************************************)
EXTENDS Integers, Sequences, FiniteSets, FiniteSetsExt

CONSTANTS
  BufferSize,      \* SQ_BUFFER_SIZE
  MaxParameters,   \* SQ_MAX_PARAMETERS
  Alphabet,        \* the characters the host sends
  MaxLine          \* bound: characters the host puts in one line

Newline == "newline"
Space   == "space"
Nul     == "nul"
Value   == "val"

Characters == Alphabet \cup {Nul}
PathCharacters == Alphabet \ {Newline, Space, Value, "?"}
Cells == 1 .. BufferSize

\* What the host meant to ask and what the parser asked of the application.
None == [handler |-> "none", path |-> << >>, values |-> 0]

\* What is taken of them.
ParserAssumption ==
  /\ BufferSize \in Nat /\ BufferSize > 1
  /\ MaxParameters \in Nat \ {0}
  /\ MaxLine \in Nat
  /\ Newline \in Alphabet /\ Space \in Alphabet /\ Nul \notin Alphabet

VARIABLES
  buffer,      \* m_inputBuffer
  position,    \* m_inputBufferPosition
  line,        \* history: the characters since the last newline
  lost,        \* history: a newline was stored as the first character of a line
  outcome      \* the application function the last byte made the parser call

vars == <<buffer, position, line, lost, outcome>>

Handlers ==
  {"none", "protocol", "property_get", "property_set", "call", "list", "info",
   "enable", "disable", "dump", "success", "failure"}

\* The type of the variables.
TypeOK ==
  /\ buffer \in [Cells -> Characters]
  /\ position \in 0 .. BufferSize
  /\ line \in Seq(Alphabet \ {Newline})
  /\ lost \in BOOLEAN
  /\ outcome.handler \in Handlers
  /\ outcome.path \in Seq(PathCharacters)
  /\ outcome.values \in 0 .. MaxParameters

Init ==
  /\ buffer = [i \in Cells |-> Nul]
  /\ position = 0
  /\ line = << >>
  /\ lost = FALSE
  /\ outcome = None

-----------------------------------------------------------------------------
(* Scanning the buffer.  A scan that meets no end runs off the buffer; what *)
(* follows it in memory is taken to be a NUL.                               *)

FirstAtOrAfter(b, start, stop) ==
  Min({i \in start .. BufferSize : b[i] \in stop} \cup {BufferSize + 1})

SkipToWhitespace(b, i) == FirstAtOrAfter(b, i, {Nul, Space})
SkipWhitespace(b, i)   == FirstAtOrAfter(b, i, Characters \ {Space})
\* That a path stops at SQ_MAX_OBJECT_LENGTH is left out: with the sizes that the
\* headers give, that is where the buffer ends.
ReadObjectPath(b, i)   == FirstAtOrAfter(b, i, Characters \ PathCharacters)

\* sq_values_parse: values separated by spaces, one more than the maximum when
\* anything but the newline follows the last one there is room for.
ValuesParse(b, start) ==
  LET stop   == FirstAtOrAfter(b, start, Characters \ {Space, Value})
      values == {i \in start .. stop - 1 : b[i] = Value}
      last   == CHOOSE i \in values :
                  Cardinality({j \in values : j <= i}) = MaxParameters
      after  == IF Cardinality(values) < MaxParameters THEN stop ELSE last + 1
  IN  IF Cardinality(values) < MaxParameters THEN Cardinality(values)
      ELSE IF after \in Cells /\ b[after] = Newline THEN MaxParameters
      ELSE MaxParameters + 1

PathStart(b) == SkipWhitespace(b, SkipToWhitespace(b, 1))
PathEnd(b)   == ReadObjectPath(b, PathStart(b))

\* Mutant of Terminate: the path is not ended.
TerminateNothing(b, i) == b

\* The path reaches the application as the string up to the NUL the parser
\* stores at its end.
Terminate(b, i) == IF i \in Cells THEN [b EXCEPT ![i] = Nul] ELSE b
StringAt(b, i) ==
  [k \in 1 .. FirstAtOrAfter(b, i, {Nul}) - i |-> b[i + k - 1]]

Call(handler, path, values) ==
  [handler |-> handler, path |-> path, values |-> values]
Failure == Call("failure", << >>, 0)

\* Which application function a command letter leads to.
HandlerOf(first, second) ==
  CASE first = "G" -> "property_get"
    [] first = "S" -> "property_set"
    [] first = "C" -> "call"
    [] first = "L" -> "list"
    [] first = "I" -> "info"
    [] first = "E" -> "enable"
    [] first = "D" /\ second = "U" -> "dump"
    [] first = "D" /\ second # "U" -> "disable"

TakesValues == {"G", "S", "C"}

\* GET takes no value, SET one, CALL at most the maximum.
ValuesAccepted(first, n) ==
  \/ first = "G" /\ n = 0
  \/ first = "S" /\ n = 1
  \/ first = "C" /\ n <= MaxParameters

\* sq_parser_internal_parse_input_buffer on a buffer whose line ends at
\* newlineAt: the buffer it leaves and the function it calls.
ParseInputBuffer(b, newlineAt) ==
  LET first == b[1]
      start == PathStart(b)
      end   == PathEnd(b)
      n     == ValuesParse(b, end)
  IN  CASE first = "P" -> [buffer |-> b, outcome |-> Call("protocol", << >>, 0)]
        [] first = "N" -> [buffer |-> b, outcome |-> Call("success", << >>, 0)]
        [] first \in TakesValues /\ ~ValuesAccepted(first, n) ->
             [buffer |-> b, outcome |-> Failure]
        [] first \in TakesValues /\ ValuesAccepted(first, n) ->
             [buffer  |-> Terminate(b, end),
              outcome |-> Call(HandlerOf(first, b[2]),
                               StringAt(Terminate(b, end), start), n)]
        [] first \in {"L", "I", "E", "D"} ->
             [buffer  |-> Terminate(b, end),
              outcome |-> Call(HandlerOf(first, b[2]),
                               StringAt(Terminate(b, end), start), 0)]
        [] OTHER ->
             [buffer |-> Terminate(b, newlineAt), outcome |-> Failure]

-----------------------------------------------------------------------------
(* sq_parser_input_byte.                                                    *)

SkipLeadingNewline ==
  /\ position = 0
  /\ line' = << >>
  /\ outcome' = None
  /\ UNCHANGED <<buffer, position, lost>>

\* Mutant of StartOver: the byte that starts over is counted twice.
StartOverTwice(c) ==
  /\ position = BufferSize
  /\ buffer' = [buffer EXCEPT ![1] = c]
  /\ position' = 2
  /\ line' = IF c = Newline THEN << >> ELSE Append(line, c)
  /\ lost' = (c = Newline)
  /\ outcome' = None

StartOver(c) ==
  /\ position = BufferSize
  /\ buffer' = [buffer EXCEPT ![1] = c]
  /\ position' = 1
  /\ line' = IF c = Newline THEN << >> ELSE Append(line, c)
  /\ lost' = (c = Newline)
  /\ outcome' = None

Store(c) ==
  /\ position < BufferSize
  /\ c # Newline
  /\ buffer' = [buffer EXCEPT ![position + 1] = c]
  /\ position' = position + 1
  /\ line' = Append(line, c)
  /\ outcome' = None
  /\ UNCHANGED lost

Evaluate ==
  /\ position \in 1 .. BufferSize - 1
  /\ LET parsed == ParseInputBuffer([buffer EXCEPT ![position + 1] = Newline],
                                    position + 1)
     IN  /\ buffer' = parsed.buffer
         /\ outcome' = parsed.outcome
  /\ position' = 0
  /\ line' = << >>
  /\ lost' = FALSE

InputByte(c) ==
  /\ c = Newline \/ Len(line) < MaxLine
  /\ \/ c = Newline /\ SkipLeadingNewline
     \/ StartOver(c)
     \/ Store(c)
     \/ c = Newline /\ Evaluate

Next == \E c \in Alphabet : InputByte(c)

Spec == Init /\ [][Next]_vars

-----------------------------------------------------------------------------
(* What a line asks for, said of the line alone.                            *)

All(l, from, to, chars) == \A i \in from .. to : l[i] \in chars

\* The command word, white space, a path and then nothing, or values each with
\* white space before it.
Fields(l, word, path, end) ==
  /\ All(l, 1, word, Alphabet \ {Space})
  /\ All(l, word + 1, path - 1, {Space})
  /\ All(l, path, end, PathCharacters)
  /\ All(l, end + 1, Len(l), {Space, Value})
  /\ word < path - 1 /\ path <= end
  /\ end = Len(l) \/ (l[end + 1] = Space /\ l[Len(l)] = Value)

\* How many values each command may have.
Takes == [G |-> {0}, S |-> {1}, C |-> 0 .. MaxParameters]

Meant(l, word, path, end) ==
  LET n == Cardinality({i \in end + 1 .. Len(l) : l[i] = Value})
      second == IF word > 1 THEN l[2] ELSE Space
  IN  IF l[1] \in TakesValues /\ n \notin Takes[l[1]] THEN Failure
      ELSE Call(HandlerOf(l[1], second), SubSeq(l, path, end),
                IF l[1] \in TakesValues THEN n ELSE 0)

LineEnds == line # << >> /\ line' = << >>
Fits     == Len(line) < BufferSize /\ ~lost

\* A complete request that fits the buffer leads to exactly one call, of the
\* function it names, with its own path and number of values, whatever earlier
\* lines left in the buffer (sq_parser.c:72-262).
RequestsAreExact ==
  [][LineEnds /\ Fits /\ line[1] \in TakesValues \cup {"L", "I", "E", "D"} =>
       \A word, path, end \in 1 .. Len(line) :
         Fields(line, word, path, end) => outcome' = Meant(line, word, path, end)]_vars

\* Every line that fits is answered, by a call or a failure, even the one that
\* follows a line of exactly the buffer's size, whose newline is lost: the host
\* never waits for the answer to a short line (sq_parser.c:230-262).
Answered ==
  [][LineEnds /\ Len(line) + 1 < BufferSize => outcome' # None]_vars

=============================================================================
