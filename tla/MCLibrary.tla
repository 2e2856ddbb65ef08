------------------------------- MODULE MCLibrary -------------------------------
(***************************************************************************)
(* The parts of the library that keep state of their own: a behaviour is   *)
(* one of a circular buffer (this module extends it), of the parser of     *)
(* requests, or of values that a client sets and reads.                    *)
(***************************************************************************)
EXTENDS CircularBuffer, SequencesExt

CONSTANTS
  BufferSize, MaxParameters, Alphabet, MaxLine,     \* what the parser is given
  IntMax, MaxValue, Numbers, Hundredths, Letters, MaxString,  \* the values of the client
  ByteArrays, MaxUpdates

VARIABLES
  part,  \* what the behaviour is one of
  input, position, line, lost, asked,
  type, build, held, caller, meant, info, requests, responses, outcome, broken

parserVars == <<input, position, line, lost, asked>>
sessionVars == <<type, build, held, caller, meant, info, requests, responses, outcome, broken>>

Requests == INSTANCE Parser WITH buffer <- input, outcome <- asked

Session == INSTANCE Client WITH Integers <- Numbers, Characters <- Letters

ASSUME InputAssumption == Requests!ParserAssumption

ASSUME ValuesAssumption == Session!ClientAssumption

allVars == <<vars, part, parserVars, sessionVars>>

\* What is not looked at is left at one value.
MCInit ==
  /\ Init /\ Requests!Init /\ Session!Init
  /\ part \in {"buffer", "requests", "session"}
  /\ part # "session" => held = <<"Boolean", FALSE>>
  /\ part # "buffer" => buffer.data = [i \in Index |-> CHOOSE byte \in Byte : TRUE]

MCNext ==
  /\ UNCHANGED part
  /\ \/ /\ part = "buffer" /\ Next
        /\ UNCHANGED <<parserVars, sessionVars>>
     \/ /\ part = "requests" /\ Requests!Next
        /\ UNCHANGED <<vars, sessionVars>>
     \/ /\ part = "session" /\ Session!Next
        /\ UNCHANGED <<vars, parserVars>>

MCSpec == MCInit /\ [][MCNext]_allVars

-----------------------------------------------------------------------------
\* An int of six bits; fractions longer than the buffer; strings with everything that has to be escaped.
MCNumbers == {-33, -32, -10, 0, 31, 32}
MCHundredths == {-3215, -50, -5, 0, 150, 3215, 1234567}
MCLetters == {"5", "]", "\"", "\\", "\n"}
MCByteArrays == {<<>>, <<18>>, <<10>>, <<16, 160>>, <<171, 1>>}

-----------------------------------------------------------------------------
\* The types of the buffer and of the parser.
TypesOK == TypeOK /\ Requests!TypeOK

\* The types of the client and of the property (automation.py:205-351).
SessionTypeOK == Session!TypeOK

\* A request that fits is evaluated exactly (sq_parser.c:72-262).
RequestsAreExact == Requests!RequestsAreExact

\* Every line that fits is answered (sq_parser.c:230-262).
Answered == Requests!Answered

\* Each answer is that of its own request (automation.py:314-329).
AnswersAreOwn == Session!AnswersAreOwn

\* Values come through as they are (automation.py:32-202, sq_value.c:176-420).
ValuesAgree == Session!ValuesAgree

=============================================================================
