------------------------------- MODULE ArduinoIo -------------------------------
(***************************************************************************)
(* arduino_io: the sketch that gives a host the pins of an Arduino         *)
(* (arduino_io.ino), with the code the generator wrote for it              *)
(* (code/automation_automation.c).  The loop answers the requests that     *)
(* have arrived, then looks at every input pin once and counts the edges   *)
(* of its level.                                                           *)
(***************************************************************************)
EXTENDS Integers, Sequences

CONSTANTS
  PinOffset,     \* PIN_OFFSET: the first pin
  NumberOfPins,  \* NUMBER_OF_PINS: the size of the arrays
  LastPin,       \* the last pin the object table names
  LastAnalog,    \* the last analog input
  IntMax,        \* the largest int, where it counts edges
  Settable,      \* the counts that requests set
  Readings,      \* what analogRead may return
  MaxChanges     \* bound: changes of a pin's level since its counter was set

\* The pins that the loop scans, and those that requests name.  The last one
\* of these is beyond the end of the arrays.
Scanned == PinOffset .. NumberOfPins - 1
Pins == PinOffset .. LastPin

ASSUME IoAssumption ==
  /\ PinOffset \in Nat \ {0} /\ NumberOfPins \in Nat /\ LastPin \in Nat
  /\ PinOffset <= LastPin
  /\ LastAnalog \in Nat /\ IntMax \in Nat /\ MaxChanges \in Nat
  /\ Settable \subseteq -IntMax - 1 .. IntMax
  /\ Readings \subseteq 0 .. 1023

VARIABLES
  direction,    \* io_direction: is the pin an output?
  lastRead,     \* io_last_read
  lastWritten,  \* io_last_written
  counter,      \* s_counters
  enabled,      \* io_counter_enable
  highToLow,    \* io_trig_h2l
  lowToHigh,    \* io_trig_l2h
  port,         \* the level last given to digitalWrite
  line,         \* the level that the outside gives an input
  scan,         \* the pin the loop looks at next, or 0 while it polls
  answer,       \* the last answer to a GET of this poll, while it is the last
                \* thing done: the object, what it was asked of, the value
  driven,       \* history: the pin was written since it became an output
  start,        \* history: the count that was last set
  changes       \* history: changes of the level since then

pinVars == <<direction, lastRead, lastWritten, port, line>>
counterVars == <<counter, enabled, highToLow, lowToHigh>>
historyVars == <<driven, start, changes>>
vars == <<pinVars, counterVars, scan, answer, historyVars>>

-----------------------------------------------------------------------------
(* The tables of the generated code: the objects of the list of properties  *)
(* in their order, and the index that the list of names has for each.       *)

PinFamilies == {"direction", "pin", "counter", "counter_enabled", "high2low", "low2high"}

OfPins(family) == [i \in 1 .. LastPin - PinOffset + 1 |-> <<family, PinOffset + i - 1>>]

OfAnalog(family) == [i \in 1 .. LastAnalog + 1 |-> <<family, i - 1>>]

PropertyList ==
  <<<<"version", 0>>>> \o OfPins("direction") \o OfPins("pin") \o OfPins("counter")
    \o OfPins("counter_enabled") \o OfPins("high2low") \o OfPins("low2high")
    \o OfAnalog("raw") \o OfAnalog("value")

FamilyOrder(family) ==
  CASE family = "direction" -> 0 [] family = "pin" -> 1 [] family = "counter" -> 2
    [] family = "counter_enabled" -> 3 [] family = "high2low" -> 4 [] OTHER -> 5

Objects ==
  {<<"version", 0>>} \cup PinFamilies \X Pins \cup {"raw", "value"} \X (0 .. LastAnalog)

\* Mutant of InfoIndex: the property of the version is not counted.
InfoIndexFromZero(object) ==
  LET pins == LastPin - PinOffset + 1
  IN  CASE object[1] = "version" -> 0
        [] object[1] = "raw" -> 6 * pins + object[2]
        [] object[1] = "value" -> 6 * pins + LastAnalog + 1 + object[2]
        [] OTHER -> FamilyOrder(object[1]) * pins + object[2] - PinOffset

InfoIndex(object) ==
  LET pins == LastPin - PinOffset + 1
  IN  CASE object[1] = "version" -> 0
        [] object[1] = "raw" -> 1 + 6 * pins + object[2]
        [] object[1] = "value" -> 1 + 6 * pins + LastAnalog + 1 + object[2]
        [] OTHER -> 1 + FamilyOrder(object[1]) * pins + object[2] - PinOffset

Property(object) == PropertyList[InfoIndex(object) + 1]

TypeOfFamily(family) ==
  CASE family = "version" -> {"text"}
    [] family = "direction" -> {"Input", "Output"}
    [] family \in {"pin", "counter_enabled", "high2low", "low2high"} -> BOOLEAN
    [] family = "counter" -> -IntMax - 1 .. IntMax
    [] OTHER -> 0 .. 5013

-----------------------------------------------------------------------------
\* The type of the variables; an answer has the type the tables declare.
TypeOK ==
  /\ \A f \in {direction, lastRead, lastWritten, enabled, highToLow, lowToHigh,
               port, line, driven} : f \in [Scanned -> BOOLEAN]
  /\ counter \in [Scanned -> -IntMax - 1 .. IntMax]
  /\ start \in [Scanned -> -IntMax - 1 .. IntMax]
  /\ changes \in [Scanned -> Nat]
  /\ scan \in {0} \cup Scanned
  /\ \/ answer = <<>>
     \/ answer[3] \in TypeOfFamily(answer[1])

\* setup has made every pin an input with its pull-up resistor.
Init ==
  /\ direction = [p \in Scanned |-> FALSE]
  /\ lastRead = [p \in Scanned |-> FALSE]
  /\ lastWritten = [p \in Scanned |-> FALSE]
  /\ counter = [p \in Scanned |-> 0]
  /\ enabled = [p \in Scanned |-> FALSE]
  /\ highToLow = [p \in Scanned |-> TRUE]
  /\ lowToHigh = [p \in Scanned |-> FALSE]
  /\ port = [p \in Scanned |-> TRUE]
  /\ line \in [Scanned -> BOOLEAN]
  /\ scan = 0 /\ answer = <<>>
  /\ driven = [p \in Scanned |-> FALSE]
  /\ start = [p \in Scanned |-> 0]
  /\ changes = [p \in Scanned |-> 0]

-----------------------------------------------------------------------------
(* The functions of the sketch.                                             *)

Level(p) == IF direction[p] THEN port[p] ELSE line[p]

\* What a step that changes levels does to the history.
NoteChange(p) ==
  changes' = [changes EXCEPT ![p] = @ + (IF Level(p)' # Level(p) THEN 1 ELSE 0)]

DigitalPinGet(p) == IF direction[p] THEN lastWritten[p] ELSE lastRead[p]

\* An input is written as well, which switches its pull-up resistor.
DigitalPinSet(p, value) ==
  /\ port' = [port EXCEPT ![p] = value]
  /\ lastWritten' = [lastWritten EXCEPT ![p] = value]
  /\ driven' = [driven EXCEPT ![p] = direction[p]]
  /\ UNCHANGED <<direction, lastRead, line, counterVars, start>>
  /\ NoteChange(p)

\* A new output is low whatever was written to it before.
DigitalDirectionSet(p, text) ==
  /\ \/ /\ text = "Input"
        /\ port' = [port EXCEPT ![p] = TRUE] /\ direction' = [direction EXCEPT ![p] = FALSE]
     \/ /\ text = "Output"
        /\ port' = [port EXCEPT ![p] = FALSE] /\ direction' = [direction EXCEPT ![p] = TRUE]
     \/ text \notin {"Input", "Output"} /\ UNCHANGED <<port, direction>>
  /\ driven' = IF text = "other" THEN driven ELSE [driven EXCEPT ![p] = FALSE]
  /\ UNCHANGED <<lastRead, lastWritten, line, counterVars, start>>
  /\ NoteChange(p)

DigitalCounterSet(p, count) ==
  /\ counter' = [counter EXCEPT ![p] = count]
  /\ start' = [start EXCEPT ![p] = count]
  /\ changes' = [changes EXCEPT ![p] = 0]
  /\ UNCHANGED <<pinVars, enabled, highToLow, lowToHigh, driven>>

\* Mutant of AnalogValue: the product is an int of 16 bits.
AnalogValueSigned(raw) ==
  LET product == IF raw * 49 + 5 > 32767 THEN raw * 49 + 5 - 65536 ELSE raw * 49 + 5
  IN  product \div 10

\* 4.9 mV a step, as an unsigned int of 16 bits.
AnalogValue(raw) == ((raw * 49 + 5) % 65536) \div 10

-----------------------------------------------------------------------------
(* The generated getters and setters.  Beyond the arrays a read returns     *)
(* whatever is there; a write lands in elements 0 and 1 of the next array,  *)
(* which stand for no pin.                                                  *)

Answer(object, value) == answer' = <<object[1], object[2], value>>

DirectionGet(p) ==
  IF p \in Scanned THEN {IF direction[p] THEN "Output" ELSE "Input"} ELSE {"Input", "Output"}

PinGet(p) == IF p \in Scanned THEN {DigitalPinGet(p)} ELSE BOOLEAN

CounterGet(p) == IF p \in Scanned THEN {counter[p]} ELSE -IntMax - 1 .. IntMax

EnabledGet(p) == IF p \in Scanned THEN {enabled[p]} ELSE BOOLEAN

HighToLowGet(p) == IF p \in Scanned THEN {highToLow[p]} ELSE BOOLEAN

LowToHighGet(p) == IF p \in Scanned THEN {lowToHigh[p]} ELSE BOOLEAN

GetOfPin(family, p) ==
  CASE family = "direction" -> DirectionGet(p) [] family = "pin" -> PinGet(p)
    [] family = "counter" -> CounterGet(p) [] family = "counter_enabled" -> EnabledGet(p)
    [] family = "high2low" -> HighToLowGet(p) [] family = "low2high" -> LowToHighGet(p)

\* What an analog input answers, with the reading that it was made of.
RawGet(object) == \E raw \in Readings : answer' = <<object[1], raw, raw>>

ValueGet(object) == \E raw \in Readings : answer' = <<object[1], raw, AnalogValue(raw)>>

\* GET: the answer is the one of the property the tables lead to.
PropertyGet(object) ==
  LET property == Property(object)
  IN  /\ scan = 0
      /\ \/ property[1] = "version" /\ Answer(object, "text")
         \/ /\ property[1] \in PinFamilies
            /\ \E value \in GetOfPin(property[1], property[2]) : Answer(object, value)
         \/ property[1] = "raw" /\ RawGet(object)
         \/ property[1] = "value" /\ ValueGet(object)
      /\ UNCHANGED <<pinVars, counterVars, scan, historyVars>>

Done == answer' = <<>> /\ UNCHANGED scan

SetDirection(p, text) ==
  /\ scan = 0 /\ Done
  /\ changes[p] < MaxChanges
  /\ DigitalDirectionSet(p, text)

SetPin(p, value) ==
  /\ scan = 0 /\ Done
  /\ changes[p] < MaxChanges
  /\ DigitalPinSet(p, value)

SetCounter(p, count) ==
  /\ scan = 0 /\ Done
  /\ DigitalCounterSet(p, count)

SetEnabled(p, value) ==
  /\ scan = 0 /\ Done
  /\ enabled' = [enabled EXCEPT ![p] = value]
  /\ UNCHANGED <<pinVars, counter, highToLow, lowToHigh, historyVars>>

SetHighToLow(p, value) ==
  /\ scan = 0 /\ Done
  /\ highToLow' = [highToLow EXCEPT ![p] = value]
  /\ UNCHANGED <<pinVars, counter, enabled, lowToHigh, historyVars>>

SetLowToHigh(p, value) ==
  /\ scan = 0 /\ Done
  /\ lowToHigh' = [lowToHigh EXCEPT ![p] = value]
  /\ UNCHANGED <<pinVars, counter, enabled, highToLow, historyVars>>

\* A setter of a pin beyond the arrays; the properties without one crash.  It
\* changes nothing here: the pin is one beyond the end of its array, and what
\* follows that, the next array, begins with pins that no object names; of
\* more such pins, or of arrays in another order, this says too little.
SetBeyond ==
  /\ scan = 0 /\ Pins \ Scanned # {} /\ Done
  /\ UNCHANGED <<pinVars, counterVars, historyVars>>

\* A value of the wrong type is refused before any setter runs, and so are
\* an unknown object and one of another kind.  The two functions give
\* analogReference the range of the readings, which are any in the model.
RefuseOrCall ==
  /\ scan = 0
  /\ answer' = <<>>
  /\ UNCHANGED <<pinVars, counterVars, scan, historyVars>>

-----------------------------------------------------------------------------
(* The loop.                                                                *)

\* The poll ends when no request is left.
PollEnds ==
  /\ scan = 0 /\ Scanned # {}
  /\ scan' = PinOffset
  /\ answer' = <<>>
  /\ UNCHANGED <<pinVars, counterVars, historyVars>>

Increment(count) == IF count = IntMax THEN -IntMax - 1 ELSE count + 1

NextPin(p) == IF p + 1 \in Scanned THEN p + 1 ELSE 0

\* Mutant of ScanPin: the level that was read is not kept.
ScanPinUnkept(p) ==
  LET counts == /\ ~direction[p] /\ line[p] # lastRead[p] /\ enabled[p]
                /\ IF line[p] THEN lowToHigh[p] ELSE highToLow[p]
  IN  /\ scan = p /\ scan' = NextPin(p)
      /\ counter' = IF counts THEN [counter EXCEPT ![p] = Increment(@)] ELSE counter
      /\ UNCHANGED <<pinVars, enabled, highToLow, lowToHigh, answer, historyVars>>

\* Mutant of ScanPin: the level that was read is kept only when it counts.
ScanPinForgetful(p) ==
  LET counts == /\ ~direction[p] /\ line[p] # lastRead[p] /\ enabled[p]
                /\ IF line[p] THEN lowToHigh[p] ELSE highToLow[p]
  IN  /\ scan = p /\ scan' = NextPin(p)
      /\ lastRead' = IF counts THEN [lastRead EXCEPT ![p] = line[p]] ELSE lastRead
      /\ counter' = IF counts THEN [counter EXCEPT ![p] = Increment(@)] ELSE counter
      /\ UNCHANGED <<direction, lastWritten, port, line, enabled, highToLow, lowToHigh,
                     answer, historyVars>>

ScanPin(p) ==
  LET counts == /\ ~direction[p] /\ line[p] # lastRead[p] /\ enabled[p]
                /\ IF line[p] THEN lowToHigh[p] ELSE highToLow[p]
  IN  /\ scan = p /\ scan' = NextPin(p)
      /\ lastRead' = IF direction[p] THEN lastRead ELSE [lastRead EXCEPT ![p] = line[p]]
      /\ counter' = IF counts THEN [counter EXCEPT ![p] = Increment(@)] ELSE counter
      /\ UNCHANGED <<direction, lastWritten, port, line, enabled, highToLow, lowToHigh,
                     answer, historyVars>>

\* The outside changes the level at a pin.
LineChanges(p) ==
  /\ changes[p] < MaxChanges
  /\ line' = [line EXCEPT ![p] = ~@]
  /\ answer' = <<>>
  /\ UNCHANGED <<direction, lastRead, lastWritten, port, counterVars, scan,
                 driven, start>>
  /\ NoteChange(p)

Set(p) ==
  \/ \E text \in {"Input", "Output", "other"} : SetDirection(p, text)
  \/ \E count \in Settable : SetCounter(p, count)
  \/ \E value \in BOOLEAN : \/ SetPin(p, value) \/ SetEnabled(p, value)
                            \/ SetHighToLow(p, value) \/ SetLowToHigh(p, value)

Request ==
  \/ \E object \in Objects : PropertyGet(object)
  \/ \E p \in Scanned : Set(p)
  \/ SetBeyond
  \/ RefuseOrCall

Loop == PollEnds \/ \E p \in Scanned : ScanPin(p)

Next == Request \/ Loop \/ \E p \in Scanned : LineChanges(p)

Spec == Init /\ [][Next]_vars

\* The loop goes on whatever the host sends: a poll takes what has arrived.
FairSpec == Spec /\ WF_vars(Loop)

-----------------------------------------------------------------------------
\* A pin is never counted up more than its level has changed since the counter
\* was set, but for one edge: the first scan takes the level for a change from
\* low, and so does the first scan of a pin that was an output in between
\* (arduino_io.ino:225-254, 214).
CountsAreReal == \A p \in Scanned : counter[p] <= start[p] + changes[p] + 1

\* What makes it inductive: a level that has not been read yet is that edge.
UnreadIsSpare ==
  \A p \in Scanned :
    counter[p] + (IF lastRead[p] # Level(p) THEN 1 ELSE 0) <= start[p] + changes[p] + 1

\* A host learns from a pin what it drives, once it has written it as an
\* output (a pin written before it became one reports what was written, and
\* drives low: arduino_io.ino:64-74, 122-137), and from an analog value the
\* reading to the nearest tenth of 4.9 mV (arduino_io.ino:180-187).
AnswersAreTrue ==
  /\ \A p \in Scanned : direction[p] /\ driven[p] => DigitalPinGet(p) = port[p]
  /\ answer # <<>> /\ answer[1] = "value" =>
       10 * answer[3] - 49 * answer[2] \in -5 .. 5

\* A level that stays at an input is what the pin reports in the end: no scan
\* forgets it (arduino_io.ino:229-252).
StableLevelIsRead ==
  \A p \in Scanned, level \in BOOLEAN :
    <>[](~direction[p] /\ line[p] = level) => <>[](DigitalPinGet(p) = level)

=============================================================================
