-------------------------------- MODULE Client ---------------------------------
(***************************************************************************)
(* The python client (automation.py) and a property of a server: how       *)
(* values travel as text from the one to the other and back                *)
(* (sq_values_parse, sq_values_write), and how the client finds the answer *)
(* to a request among the updates that the server sends at any time.       *)
(*                                                                         *)
(* A value is tagged with its type; a number with a fraction is given in   *)
(* hundredths, and the rounding of binary fractions is left out.           *)
(***************************************************************************)
EXTENDS Integers, SequencesExt

CONSTANTS
  IntMax,        \* the largest int of the server
  MaxValue,      \* the characters of the buffer for a number (SQ_MAX_VALUE_LENGTH)
  Integers,      \* integers that are set or held
  Hundredths,    \* fractions that are set or held
  Characters,    \* the characters of strings
  MaxString,     \* bound: the length of a string
  ByteArrays,    \* the byte arrays that are held
  MaxUpdates     \* bound: updates on the way

ClientAssumption ==
  /\ IntMax \in Nat /\ MaxString \in Nat
  /\ MaxValue \in Nat /\ MaxValue >= 6
  /\ Integers \subseteq Int /\ Hundredths \subseteq Int
  /\ ByteArrays \subseteq Seq(0 .. 255)

VARIABLES
  type,       \* the type of the property
  build,      \* how the server was built to write fractions
  held,       \* the value of the property
  caller,     \* what the client waits for: "idle", "set", "info" or "get"
  meant,      \* the value that the client is setting
  info,       \* m_info: has the client asked for it?
  requests,   \* the lines on the way to the server
  responses,  \* the lines on the way to the client
  outcome,    \* history: what became of the last call
  broken      \* history: a string with a line break has been sent

lineVars == <<requests, responses>>
clientVars == <<caller, meant, info, outcome, broken>>
vars == <<type, build, held, lineVars, clientVars>>

Types == {"Integer", "Float", "Boolean", "String", "ByteArray"}
Builds == {"snprintf", "dtostrf", "own"}

Quote == "\""
Backslash == "\\"
Breaks == {"\n", "\r"}

Strings == BoundedSeq(Characters, MaxString)

\* The values that a property of the type may hold.
ValuesOf(t) ==
  {t} \X CASE t = "Integer" -> Integers \cap -IntMax - 1 .. IntMax
           [] t = "Float" -> Hundredths
           [] t = "Boolean" -> BOOLEAN
           [] t = "String" -> Strings
           [] t = "ByteArray" -> ByteArrays

NoValue == <<"none", 0>>
Null == <<"Null", 0>>
List == <<"List", <<>>>>
Raised == <<NoValue>>

\* What the client can be given to set.
Settable ==
  {"Integer"} \X Integers \cup {"Float"} \X Hundredths \cup {"Boolean"} \X BOOLEAN
    \cup {"String"} \X Strings \cup {Null, List}

Init ==
  /\ type \in Types /\ build \in IF type = "Float" THEN Builds ELSE {"snprintf"}
  /\ held \in ValuesOf(type)
  /\ caller = "idle" /\ meant = NoValue /\ info = FALSE
  /\ requests = <<>> /\ responses = <<>>
  /\ outcome = <<>> /\ broken = FALSE

-----------------------------------------------------------------------------
(* Numbers as text.                                                         *)

Digits == <<"0", "1", "2", "3", "4", "5", "6", "7", "8", "9">>
HexDigits == Digits \o <<"A", "B", "C", "D", "E", "F">>

Decimal[n \in Nat] ==
  IF n < 10 THEN <<Digits[n + 1]>> ELSE Decimal[n \div 10] \o <<Digits[(n % 10) + 1]>>

Magnitude(n) == IF n < 0 THEN -n ELSE n
Sign(n) == IF n < 0 THEN <<"-">> ELSE <<>>

IsDigit(c) == c \in Range(Digits)
DigitOf(c) == CHOOSE d \in 0 .. 9 : Digits[d + 1] = c

\* The number that a text of digits stands for.
NumberOf(text) ==
  LET number[n \in 0 .. Len(text)] ==
        IF n = 0 THEN 0 ELSE 10 * number[n - 1] + DigitOf(text[n])
  IN  number[Len(text)]

\* The value of a text of digits with or without a fraction.
NumberRead(text) ==
  LET negative == Head(text) = "-"
      digits   == IF negative THEN Tail(text) ELSE text
      point    == CHOOSE i \in DOMAIN digits : digits[i] = "."
      fraction == SubSeq(SubSeq(digits, point + 1, Len(digits)) \o <<"0", "0">>, 1, 2)
      n == IF Contains(digits, ".")
           THEN 100 * NumberOf(SubSeq(digits, 1, point - 1)) + NumberOf(fraction)
           ELSE NumberOf(digits)
  IN  <<IF Contains(digits, ".") THEN "Float" ELSE "Integer", IF negative THEN -n ELSE n>>

-----------------------------------------------------------------------------
(* From the client to the server.                                           *)

\* Mutant of FormatString: the quotes are replaced before the backslashes.
FormatStringInOrder(s) ==
  LET quoted == FlattenSeq([i \in DOMAIN s |-> IF s[i] = Quote THEN <<Backslash, Quote>> ELSE <<s[i]>>])
  IN  FlattenSeq([i \in DOMAIN quoted |->
        IF quoted[i] = Backslash THEN <<Backslash, Backslash>> ELSE <<quoted[i]>>])

\* Line breaks are not replaced.
FormatString(s) ==
  FlattenSeq([i \in DOMAIN s |->
    IF s[i] \in {Backslash, Quote} THEN <<Backslash, s[i]>> ELSE <<s[i]>>])

FormatFloat(h) ==
  LET part == Magnitude(h) % 100
  IN  Sign(h) \o Decimal[Magnitude(h) \div 100] \o <<".", Digits[part \div 10 + 1]>>
        \o (IF part % 10 = 0 THEN <<>> ELSE <<Digits[(part % 10) + 1]>>)

FormatValue(v) ==
  CASE v[1] = "String" -> <<Quote>> \o FormatString(v[2]) \o <<Quote>>
    [] v[1] = "Integer" -> Sign(v[2]) \o Decimal[Magnitude(v[2])]
    [] v[1] = "Float" -> FormatFloat(v[2])
    [] v[1] = "Boolean" -> IF v[2] THEN <<"t", "r", "u", "e">> ELSE <<"f", "a", "l", "s", "e">>
    [] v = Null -> <<"n", "u", "l", "l">>
    [] v = List -> <<"[", " ", " ", "]">>

\* The lines that the text of a value makes, without the empty ones.
LinesOf(text) ==
  LET lines[n \in 0 .. Len(text)] ==
        IF n = 0 THEN << <<>> >>
        ELSE CASE text[n] \notin Breaks ->
                    Append(Front(lines[n - 1]), Append(Last(lines[n - 1]), text[n]))
               [] text[n] \in Breaks /\ Last(lines[n - 1]) # <<>> -> Append(lines[n - 1], <<>>)
               [] OTHER -> lines[n - 1]
  IN  lines[Len(text)]

\* One round of the loop in sq_parse_string.
Unescape(s, c) ==
  CASE ~s.open -> s
    [] s.open /\ s.escaped ->
         [s EXCEPT !.escaped = FALSE,
                   !.out = Append(@, CASE c = "n" -> "\n" [] c = "r" -> "\r" [] OTHER -> c)]
    [] s.open /\ ~s.escaped /\ c = Quote -> [s EXCEPT !.open = FALSE]
    [] s.open /\ ~s.escaped /\ c = Backslash -> [s EXCEPT !.escaped = TRUE]
    [] OTHER -> [s EXCEPT !.out = Append(@, c)]

\* The string after the first character: it ends at the first quote that is not
\* escaped.
Unescaped(text) ==
  LET read[n \in 1 .. Len(text)] ==
        IF n = 1 THEN [out |-> <<>>, escaped |-> FALSE, open |-> TRUE]
        ELSE Unescape(read[n - 1], text[n])
  IN  read[Len(text)]

\* A string that the line does not end goes on in what earlier lines left in
\* the buffer: it ends there or it does not.
ParseString(text) ==
  LET parsed == Unescaped(text)
  IN  IF parsed.open THEN {NoValue, <<"String", Append(parsed.out, "\n")>>}
      ELSE {<<"String", parsed.out>>}

\* What of a number is read into an int: of a fraction the part before the point.
Whole(v) == IF v[1] = "Float" THEN Magnitude(v[2]) \div 100 ELSE Magnitude(v[2])

\* A number whose int overflows while it is read may become any.
ParseNumber(text) ==
  LET number == NumberRead(text)
  IN  IF Whole(number) > IntMax THEN ValuesOf(number[1]) ELSE {number}

\* sq_values_parse, of the text of one value; an identifier is told by its
\* first character.
Parse(text) ==
  CASE Head(text) = Quote -> ParseString(text)
    [] IsDigit(Head(text)) \/ Head(text) = "-" -> ParseNumber(text)
    [] Head(text) \in {"t", "f"} -> {<<"Boolean", Head(text) = "t">>}
    [] Head(text) = "n" -> {Null}
    [] OTHER -> {NoValue}

-----------------------------------------------------------------------------
(* From the server to the client.                                           *)

WriteString(s) ==
  FlattenSeq([i \in DOMAIN s |->
    CASE s[i] = "\n" -> <<Backslash, "n">>
      [] s[i] = "\r" -> <<Backslash, "r">>
      [] s[i] \in {Backslash, Quote} -> <<Backslash, s[i]>>
      [] OTHER -> <<s[i]>>])

\* The smallest int is its own negative, which the compiler may or may not see.
WriteInteger(n) ==
  IF n = -IntMax - 1 THEN {<<"0">>, <<"-">>} ELSE {Sign(n) \o Decimal[Magnitude(n)]}

\* The number with two digits after the point.
ToHundredths(h) ==
  LET part == Magnitude(h) % 100
  IN  Sign(h) \o Decimal[Whole(<<"Float", h>>)] \o <<".">>
        \o <<Digits[part \div 10 + 1], Digits[(part % 10) + 1]>>

\* What n characters keep of a text.
Cut(text, n) == IF Len(text) > n THEN SubSeq(text, 1, n) ELSE text

\* snprintf is given one character less than the buffer has, and one of these
\* is for the end of the text; dtostrf writes on behind the buffer, where the
\* text ends or is spoilt (or the server stops, which the model always allows).
\* The own one writes no integer of 0 and no leading zeros of the fraction; an
\* int that cannot hold the number becomes the largest, or one without digits.
WriteFloat(h) ==
  LET whole == Whole(<<"Float", h>>)
      part  == Magnitude(h) % 100
      own   == (IF whole = 0 THEN <<>> ELSE Decimal[whole]) \o <<".">>
                 \o (IF part = 0 THEN <<"0">> ELSE Decimal[part * 10000])
      large == Decimal[IntMax] \o <<".">> \o Decimal[IntMax]
  IN  CASE build = "snprintf" -> {Cut(ToHundredths(h) \o <<"0", "0", "0", "0">>, MaxValue - 2)}
        [] build = "dtostrf" ->
             IF Len(ToHundredths(h)) < MaxValue THEN {ToHundredths(h)}
             ELSE {Cut(ToHundredths(h), MaxValue), <<"/">>}
        [] build = "own" -> {Sign(h) \o text : text \in IF whole <= IntMax THEN {own} ELSE {large, <<"/">>}}

WriteByteArray(bytes) ==
  <<"0", "x">> \o FlattenSeq([i \in DOMAIN bytes |->
    <<HexDigits[bytes[i] \div 16 + 1], HexDigits[(bytes[i] % 16) + 1]>>])

\* sq_value_write: the texts that may be written.
Written(v) ==
  CASE v[1] = "String" -> {<<Quote>> \o WriteString(v[2]) \o <<Quote>>}
    [] v[1] = "Integer" -> WriteInteger(v[2])
    [] v[1] = "Float" -> WriteFloat(v[2])
    [] v[1] = "Boolean" -> {IF v[2] THEN <<"t", "r", "u", "e">> ELSE <<"f", "a", "l", "s", "e">>}
    [] v[1] = "ByteArray" -> {WriteByteArray(v[2])}

Whitespace == {" ", "\t"}
AsciiLetters ==
  {"a", "b", "c", "d", "e", "f", "g", "h", "i", "j", "k", "l", "m",
   "n", "o", "p", "q", "r", "s", "t", "u", "v", "w", "x", "y", "z",
   "A", "B", "C", "D", "E", "F", "G", "H", "I", "J", "K", "L", "M",
   "N", "O", "P", "Q", "R", "S", "T", "U", "V", "W", "X", "Y", "Z"}

\* Where the text, from i on, has a character that is one of some, or is not.
Find(text, i, characters) ==
  LET places == {j \in i .. Len(text) : text[j] \in characters}
  IN  IF places = {} THEN Len(text) + 1 ELSE Min(places)
Skip(text, i, characters) == Find(text, i, Range(text) \ characters)

\* Byte arrays are read as far as they have digits only.
BytesRead(text, i) ==
  [k \in 1 .. (Skip(text, i, Range(Digits)) - i) \div 2 |->
     16 * DigitOf(text[i + 2 * k - 2]) + DigitOf(text[i + 2 * k - 1])]

WordRead(word) ==
  CASE word = <<"t", "r", "u", "e">> -> <<"Boolean", TRUE>>
    [] word = <<"f", "a", "l", "s", "e">> -> <<"Boolean", FALSE>>
    [] word = <<"n", "u", "l", "l">> -> Null
    [] OTHER -> NoValue

\* int and float take a sign, digits and one point.
IsNumber(text) ==
  /\ \E i \in DOMAIN text : IsDigit(text[i])
  /\ \A i, j \in DOMAIN text : text[i] = "." /\ text[j] = "." => i = j

\* The value that begins at i, and where to go on.  A string ends at the next
\* quote; a number, a word or a byte array takes the character after it.
ValueAt(text, i) ==
  LET c == text[i]
      isBytes == c = "0" /\ i < Len(text) /\ text[i + 1] = "x"
  IN  CASE c = Quote ->
             LET end == Find(text, i + 1, {Quote})
             IN  [value |-> IF end > Len(text) THEN NoValue
                            ELSE <<"String", SubSeq(text, i + 1, end - 1)>>,
                  next |-> end + 1]
        [] isBytes ->
             LET bytes == BytesRead(text, i + 2)
             IN  [value |-> <<"ByteArray", bytes>>, next |-> i + 2 * Len(bytes) + 3]
        [] (IsDigit(c) \/ c = "-") /\ ~isBytes ->
             LET end    == Skip(text, i + 1, Range(Digits) \cup {"."})
                 number == SubSeq(text, i, end - 1)
             IN  [value |-> IF IsNumber(number) THEN NumberRead(number) ELSE NoValue, next |-> end + 1]
        [] c \in AsciiLetters ->
             LET end == Skip(text, i + 1, AsciiLetters)
             IN  [value |-> WordRead(SubSeq(text, i, end - 1)), next |-> end + 1]
        [] OTHER -> [value |-> NoValue, next |-> i + 1]

\* parse_values_with_start: the values from i on, or Raised, and where they end,
\* when those further on are known.  A list ends at a bracket or with the text,
\* and a bracket that closes none ends it all.
ValuesFrom(text, later, i) ==
  LET Then(value, next) ==
        IF value = NoValue \/ later[next].values = Raised THEN [values |-> Raised, next |-> next]
        ELSE [values |-> <<value>> \o later[next].values, next |-> later[next].next]
  IN  IF i > Len(text) THEN [values |-> <<>>, next |-> i]
      ELSE CASE text[i] \in Whitespace -> later[i + 1]
             [] text[i] = "]" -> [values |-> <<>>, next |-> i + 1]
             [] text[i] = "[" ->
                  LET list == later[i + 1]
                  IN  Then(IF list.values = Raised THEN NoValue ELSE <<"List", list.values>>, list.next)
             [] OTHER -> LET found == ValueAt(text, i) IN Then(found.value, found.next)

ParseValues(text) ==
  LET from[i \in Nat] == ValuesFrom(text, from, i) IN from[1].values

-----------------------------------------------------------------------------
(* The client.                                                              *)

Send(kind, lines) ==
  requests' = requests \o <<[kind |-> kind, text |-> Head(lines)]>>
                \o [i \in 1 .. Len(lines) - 1 |-> [kind |-> "other", text |-> lines[i + 1]]]

\* _set_value; bound: after a line break nothing more is set.
SetValue(v) ==
  LET lines == LinesOf(FormatValue(v))
  IN  /\ caller = "idle" /\ caller' = "set"
      /\ ~broken /\ broken' = (Len(lines) # 1)
      /\ Send("set", lines)
      /\ meant' = v /\ outcome' = <<>>
      /\ UNCHANGED <<type, build, held, info, responses>>

\* _get_value asks for the type once.
GetValue ==
  /\ caller = "idle"
  /\ caller' = IF info THEN "get" ELSE "info"
  /\ Send(caller', << <<>> >>)
  /\ outcome' = <<>>
  /\ UNCHANGED <<type, build, held, meant, info, responses, broken>>

\* The call returns, with values or an exception.
Ends(result) ==
  /\ caller' = "idle" /\ meant' = NoValue
  /\ outcome' = [call |-> caller, meant |-> meant, held |-> Head(responses).held, result |-> result]

TakeInfo ==
  IF Head(responses).kind = "info"
  THEN /\ info' = TRUE /\ caller' = "get" /\ Send("get", << <<>> >>)
       /\ UNCHANGED <<meant, outcome>>
  ELSE Ends(Raised) /\ UNCHANGED <<info, requests>>

TakeValue ==
  /\ Ends(CASE Head(responses).kind = "value" -> ParseValues(Head(responses).text)
            [] Head(responses).kind = "ok" -> <<>>
            [] OTHER -> Raised)
  /\ UNCHANGED <<info, requests>>

TakeSet ==
  /\ Ends(IF Head(responses).kind = "ok" THEN <<>> ELSE Raised)
  /\ UNCHANGED <<info, requests>>

Take ==
  \/ caller = "info" /\ TakeInfo
  \/ caller = "get" /\ TakeValue
  \/ caller = "set" /\ TakeSet

\* Mutant of ReadLine: an update is taken for the answer.
ReadLineOfAnyKind ==
  /\ caller # "idle" /\ responses # <<>>
  /\ responses' = Tail(responses)
  /\ Take
  /\ UNCHANGED <<type, build, held, broken>>

\* One round of the loop in request: updates are skipped.
ReadLine ==
  /\ caller # "idle" /\ responses # <<>>
  /\ responses' = Tail(responses)
  /\ IF Head(responses).kind = "update" THEN UNCHANGED <<caller, meant, info, outcome, requests>>
     ELSE Take
  /\ UNCHANGED <<type, build, held, broken>>

-----------------------------------------------------------------------------
(* The server.                                                              *)

Respond(kind, text) ==
  responses' = Append(responses, [kind |-> kind, text |-> text,
                                  held |-> IF kind \in {"ok", "value"} THEN held' ELSE NoValue])

\* Mutant of HandleSet: the type of the value is not looked at.
HandleSetAny(text) == \E v \in Parse(text) : held' = v /\ Respond("ok", <<>>)

\* SET: one value of the type of the property.
HandleSet(text) ==
  \E v \in Parse(text) :
    IF v[1] = type THEN held' = v /\ Respond("ok", <<>>)
    ELSE UNCHANGED held /\ Respond("fail", <<>>)

\* A line that is no request is answered with a failure.
HandleRequest ==
  /\ requests # <<>>
  /\ requests' = Tail(requests)
  /\ CASE Head(requests).kind = "set" -> HandleSet(Head(requests).text)
       [] Head(requests).kind = "get" ->
            UNCHANGED held /\ \E text \in Written(held) : Respond("value", text)
       [] Head(requests).kind = "info" -> UNCHANGED held /\ Respond("info", <<>>)
       [] Head(requests).kind = "other" -> UNCHANGED held /\ Respond("fail", <<>>)
  /\ UNCHANGED <<type, build, clientVars>>

\* The application changes the value; the model has it do so while a request is
\* on its way, which is when it can make a difference.
Change ==
  /\ requests # <<>> /\ ~broken
  /\ held' \in ValuesOf(type)
  /\ UNCHANGED <<type, build, lineVars, clientVars>>

\* A monitor may tell of it, or of anything else.
Update ==
  /\ Len(SelectSeq(responses, LAMBDA r : r.kind = "update")) < MaxUpdates
  /\ responses' = Append(responses, [kind |-> "update", text |-> <<>>, held |-> NoValue])
  /\ UNCHANGED <<type, build, held, requests, clientVars>>

Next ==
  \/ \E v \in Settable : SetValue(v)
  \/ GetValue
  \/ ReadLine
  \/ HandleRequest
  \/ Change
  \/ Update

Spec == Init /\ [][Next]_vars

-----------------------------------------------------------------------------
\* The type of the variables.
TypeOK ==
  /\ type \in Types /\ build \in Builds
  /\ held[1] = type
  /\ caller \in {"idle", "set", "info", "get"}
  /\ meant \in Settable \cup {NoValue}
  /\ info \in BOOLEAN /\ broken \in BOOLEAN
  /\ \A i \in DOMAIN requests : requests[i].kind \in {"set", "info", "get", "other"}
  /\ \A i \in DOMAIN responses : responses[i].kind \in {"ok", "value", "info", "fail", "update"}

\* Between two calls no answer is on its way, whatever updates come and whatever
\* exceptions are raised, as long as no string with a line break has been sent:
\* that one makes the server answer more than once, and every later call takes
\* the answer to an earlier one (automation.py:33, 263-265, 314-329,
\* sq_parser.c:226-262).
AnswersAreOwn ==
  caller = "idle" /\ ~broken =>
    requests = <<>> /\ \A i \in DOMAIN responses : responses[i].kind = "update"

Overflows(v) == v[1] \in {"Integer", "Float"} /\ Whole(v) > IntMax

\* The values that the client reads as they are.
IsReadable(v) ==
  CASE v[1] = "String" -> Range(v[2]) \cap ({Quote, Backslash} \cup Breaks) = {}
    [] v[1] = "Integer" -> v[2] # -IntMax - 1
    [] v[1] = "ByteArray" -> \A i \in DOMAIN v[2] : v[2][i] \div 16 < 10 /\ v[2][i] % 16 < 10
    [] v[1] = "Float" ->
         /\ build = "snprintf" => Len(ToHundredths(v[2])) <= MaxValue - 2
         /\ build = "dtostrf" => Len(ToHundredths(v[2])) < MaxValue
         /\ build = "own" => /\ v[2] \notin 0 .. 99 /\ Whole(v) <= IntMax
                             /\ Magnitude(v[2]) % 100 \notin 1 .. 9
    [] OTHER -> TRUE

\* A value that was set without an exception is the value that the server holds,
\* but for a number whose integer is too wide; a value that was read is the one
\* that the server held, but for strings with escapes, byte arrays with letters,
\* the smallest integer, fractions of more characters than the buffer has room
\* for and, in a build without printf, fractions below a tenth, without an
\* integer or with one too wide.  A string with a quote never passes
\* for another string, unless it also has a bracket
\* (automation.py:32-202, sq_value.c:176-420, sq_protocol.c:60-299).
ValuesAgree ==
  outcome # <<>> /\ ~broken =>
    CASE outcome.call = "set" /\ outcome.result # Raised ->
           outcome.held = outcome.meant \/ Overflows(outcome.meant)
      [] outcome.call = "get" ->
           /\ IsReadable(outcome.held) => outcome.result = <<outcome.held>>
           /\ outcome.held[1] = "String" /\ Quote \in Range(outcome.held[2])
                /\ "]" \notin Range(outcome.held[2]) =>
                outcome.result = Raised \/ Len(outcome.result) > 1
      [] OTHER -> TRUE

=============================================================================
