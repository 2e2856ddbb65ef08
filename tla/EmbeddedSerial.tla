--------------------------- MODULE EmbeddedSerial ---------------------------
(***************************************************************************)
(* server/c/src/sq_stream_embedded_serial.c: the main loop and the two     *)
(* UART interrupts share the buffers m_in and m_out with no lock.  An      *)
(* interrupt runs to its end between any two accesses of the main loop;    *)
(* the main loop takes one step per access to a shared position.  Bytes    *)
(* are numbered in the order they are written or received.                 *)
(***************************************************************************)
EXTENDS CircularBufferOps

CONSTANTS
  MaxWritten,    \* bound: bytes the application writes
  MaxReceived,   \* bound: bytes the host sends
  MaxSent,       \* bound: bytes on the line that are remembered
  Nothing        \* an empty transmit register

\* 0 is what the storage holds before any byte was pushed.
ASSUME BoundsAssumption ==
  /\ MaxWritten \in Nat
  /\ MaxReceived \in Nat
  /\ MaxSent \in Nat /\ MaxSent > MaxWritten
  /\ 0 .. MaxWritten \subseteq Byte
  /\ 0 .. MaxReceived \subseteq Byte
  /\ Nothing \notin Byte

VARIABLES
  in,          \* m_in: pushed by the receive interrupt, popped by the main loop
  out,         \* m_out: pushed by the main loop, popped by the UDRE interrupt
  udr,         \* UDR0 towards the line; Nothing is the flag UDRE0
  udrie,       \* UDRIE0: the UDRE interrupt is enabled
  pc,          \* where the main loop is
  reg,         \* the value it has loaded and not yet stored
  byte,        \* the byte it is writing or has popped
  written,     \* how many bytes were given to sq_stream_write_byte
  sent,        \* the bytes put on the line
  lapses,      \* what the UDRE interrupt did in the middle of a push
  received,    \* how many bytes the receive interrupt has taken
  readBack,    \* the bytes sq_stream_read_byte has returned
  overrun      \* a byte arrived with Size - 1 bytes or more still unread

lineVars == <<udr, udrie, sent>>
txVars   == <<out, lineVars, written, lapses>>
rxVars   == <<in, received, readBack, overrun>>
vars     == <<txVars, rxVars, pc, reg, byte>>

WritePcs == {"waitNotFull", "pushStore", "pushWrap", "pushCompare", "pushMark"}
ReadPcs  == {"popTest", "popUnmark", "popRead", "popLoad", "popStore", "popWrap"}

\* A position is Size, out of the storage, between the increment and the wrap.
SharedBuffer ==
  [read : FullMark .. Size, write : 0 .. Size, data : [Index -> Byte]]

\* The type of the variables.
TypeOK ==
  /\ in \in SharedBuffer
  /\ out \in SharedBuffer
  /\ udr \in Byte \cup {Nothing}
  /\ udrie \in BOOLEAN
  /\ pc \in {"idle"} \cup WritePcs \cup ReadPcs
  /\ reg \in 0 .. Size
  /\ byte \in Byte
  /\ written \in 0 .. MaxWritten
  /\ sent \in Seq(Byte)
  /\ lapses \subseteq {"sentEarly", "disarmed"}
  /\ received \in 0 .. MaxReceived
  /\ readBack \in Seq(Byte)
  /\ overrun \in BOOLEAN

Init ==
  /\ in = [read |-> 0, write |-> 0, data |-> [i \in Index |-> 0]]
  /\ out = in
  /\ udr = Nothing
  /\ udrie = FALSE
  /\ pc = "idle"
  /\ reg = 0
  /\ byte = 0
  /\ written = 0
  /\ sent = << >>
  /\ lapses = {}
  /\ received = 0
  /\ readBack = << >>
  /\ overrun = FALSE

Goto(from, to) == pc = from /\ pc' = to

-----------------------------------------------------------------------------
(* sq_stream_write_byte.  The buffer-empty branch runs with interrupts off, *)
(* the other one lets them in before it waits and pushes.                   *)

WriteToRegister ==
  /\ pc = "idle" /\ written < MaxWritten
  /\ IsEmpty(out)
  /\ udr = Nothing
  /\ written' = written + 1
  /\ udr' = written'
  /\ UNCHANGED <<out, udrie, sent, lapses, rxVars, pc, reg, byte>>

\* Mutant of WriteToEmptyBuffer: the interrupt is not enabled.
WriteWithoutInterrupt ==
  /\ pc = "idle" /\ written < MaxWritten
  /\ IsEmpty(out)
  /\ udr # Nothing
  /\ written' = written + 1
  /\ out' = Push(out, written')
  /\ UNCHANGED <<lineVars, lapses, rxVars, pc, reg, byte>>

WriteToEmptyBuffer ==
  /\ pc = "idle" /\ written < MaxWritten
  /\ IsEmpty(out)
  /\ udr # Nothing
  /\ written' = written + 1
  /\ out' = Push(out, written')
  /\ udrie' = TRUE
  /\ UNCHANGED <<udr, sent, lapses, rxVars, pc, reg, byte>>

WriteToNonEmptyBuffer ==
  /\ written < MaxWritten
  /\ Goto("idle", "waitNotFull")
  /\ ~IsEmpty(out)
  /\ written' = written + 1
  /\ byte' = written'
  /\ UNCHANGED <<out, lineVars, lapses, rxVars, reg>>

\* The busy wait ends when the read position is seen not to be the full mark;
\* sq_circular_buffer_push tests it again, and only the main loop sets it.
SpaceSeen ==
  /\ Goto("waitNotFull", "pushStore")
  /\ ~IsFull(out)
  /\ UNCHANGED <<txVars, rxVars, reg, byte>>

PushStore ==
  /\ Goto("pushStore", "pushWrap")
  /\ out' = [out EXCEPT !.data[out.write] = byte, !.write = @ + 1]
  /\ UNCHANGED <<lineVars, written, lapses, rxVars, reg, byte>>

\* Mutant of PushWrap: the position wraps one step late.
PushWrapLate ==
  /\ Goto("pushWrap", "pushCompare")
  /\ out' = [out EXCEPT !.write = IF @ > Size THEN 0 ELSE @]
  /\ UNCHANGED <<lineVars, written, lapses, rxVars, reg, byte>>

PushWrap ==
  /\ Goto("pushWrap", "pushCompare")
  /\ out' = [out EXCEPT !.write = IF @ >= Size THEN 0 ELSE @]
  /\ UNCHANGED <<lineVars, written, lapses, rxVars, reg, byte>>

\* Mutant of PushCompare: a buffer that has become full is not marked.
PushCompareUnmarked ==
  /\ Goto("pushCompare", "idle")
  /\ UNCHANGED <<txVars, rxVars, reg, byte>>

PushCompare ==
  /\ pc = "pushCompare"
  /\ pc' = IF out.write = out.read THEN "pushMark" ELSE "idle"
  /\ UNCHANGED <<txVars, rxVars, reg, byte>>

PushMark ==
  /\ Goto("pushMark", "idle")
  /\ out' = [out EXCEPT !.read = FullMark]
  /\ UNCHANGED <<lineVars, written, lapses, rxVars, reg, byte>>

-----------------------------------------------------------------------------
(* sq_stream_read_byte: SQ_CIRCULAR_BUFFER_POP on m_in, interrupts on.      *)

BeginRead ==
  /\ Goto("idle", "popTest")
  /\ Available(in) # 0
  /\ UNCHANGED <<txVars, rxVars, reg, byte>>

PopTest ==
  /\ pc = "popTest"
  /\ pc' = IF IsFull(in) THEN "popUnmark" ELSE "popRead"
  /\ UNCHANGED <<txVars, rxVars, reg, byte>>

PopUnmark ==
  /\ Goto("popUnmark", "popRead")
  /\ in' = [in EXCEPT !.read = in.write]
  /\ UNCHANGED <<txVars, received, readBack, overrun, reg, byte>>

\* m_data[-1], when the mark has appeared since the test, is the last byte of
\* m_writePosition: no byte of the stream.
PopRead ==
  /\ Goto("popRead", "popLoad")
  /\ byte' = IF in.read \in Index THEN in.data[in.read] ELSE 0
  /\ UNCHANGED <<txVars, rxVars, reg>>

PopLoad ==
  /\ Goto("popLoad", "popStore")
  /\ reg' = in.read + 1
  /\ UNCHANGED <<txVars, rxVars, byte>>

PopStore ==
  /\ Goto("popStore", "popWrap")
  /\ in' = [in EXCEPT !.read = reg]
  /\ UNCHANGED <<txVars, received, readBack, overrun, reg, byte>>

PopWrap ==
  /\ Goto("popWrap", "idle")
  /\ in' = [in EXCEPT !.read = IF @ >= Size THEN 0 ELSE @]
  /\ readBack' = Append(readBack, byte)
  /\ UNCHANGED <<txVars, received, overrun, reg, byte>>

-----------------------------------------------------------------------------
(* The interrupts and the UART itself.                                      *)

RxInterrupt ==
  /\ received < MaxReceived
  /\ received' = received + 1
  /\ in' = Push(in, received')
  /\ overrun' = (overrun \/ received' - Len(readBack) >= Size)
  /\ UNCHANGED <<txVars, readBack, pc, reg, byte>>

\* In the middle of a push the interrupt can send the byte being pushed, before
\* its position has settled, or find no byte yet and disable itself.
Lapse(name, happens) ==
  lapses' = IF pc \in WritePcs /\ happens THEN lapses \cup {name} ELSE lapses

UdreInterrupt ==
  /\ udrie
  /\ udr = Nothing
  /\ IF Available(out) # 0
     THEN /\ udr' = Popped(out)
          /\ out' = Pop(out)
          /\ Lapse("sentEarly", Popped(out) = byte)
          /\ UNCHANGED udrie
     ELSE /\ udrie' = FALSE
          /\ Lapse("disarmed", TRUE)
          /\ UNCHANGED <<udr, out>>
  /\ UNCHANGED <<sent, written, rxVars, pc, reg, byte>>

\* The transmitter takes the byte out of UDR0 and sets UDRE0.
Transmit ==
  /\ udr # Nothing
  /\ sent' = IF Len(sent) < MaxSent THEN Append(sent, udr) ELSE sent
  /\ udr' = Nothing
  /\ UNCHANGED <<out, udrie, written, lapses, rxVars, pc, reg, byte>>

-----------------------------------------------------------------------------
Write ==
  \/ WriteToRegister
  \/ WriteToEmptyBuffer
  \/ WriteToNonEmptyBuffer

FinishWrite ==
  \/ SpaceSeen
  \/ PushStore
  \/ PushWrap
  \/ PushCompare
  \/ PushMark

Read ==
  \/ BeginRead
  \/ PopTest
  \/ PopUnmark
  \/ PopRead
  \/ PopLoad
  \/ PopStore
  \/ PopWrap

Next ==
  \/ Write
  \/ FinishWrite
  \/ Read
  \/ RxInterrupt
  \/ UdreInterrupt
  \/ Transmit

Spec == Init /\ [][Next]_vars

\* The processor runs: a started write goes on when it is not waiting, the main
\* loop keeps polling for input, and the UART raises its interrupts.  Nothing
\* makes the application write or the host send.
FairSpec ==
  /\ Spec
  /\ WF_vars(FinishWrite)
  /\ WF_vars(Read)
  /\ WF_vars(UdreInterrupt)
  /\ WF_vars(Transmit)

-----------------------------------------------------------------------------
Numbers(n) == [i \in 1 .. n |-> i]

InRegister == IF udr = Nothing THEN << >> ELSE <<udr>>

\* No byte is lost, although pushes and pops interleave without a lock.  Between
\* two writes every byte given to sq_stream_write_byte is, once and in its
\* place, on the line, in UDR0 or in m_out, unless the interrupt ever sent the
\* byte that was just being pushed; between two reads every byte received has
\* been returned by sq_stream_read_byte, in order, or is still in m_in, as long
\* as the host never had the buffer's size or more of bytes unread
\* (sq_stream_embedded_serial.c:120-184).
NothingIsLost ==
  /\ "sentEarly" \notin lapses /\ pc \notin WritePcs =>
       sent \o InRegister \o Contents(out) = Numbers(written)
  /\ ~overrun /\ pc \notin ReadPcs => readBack \o Contents(in) = Numbers(received)

\* What is buffered moves on: again and again the line catches up with the
\* writes, unless the interrupt disabled itself or sent the byte early in the
\* middle of a push, the only ways a write can be lost; and the reads catch up
\* with the line, unless too many bytes arrive at once or the main loop is held
\* in a write (sq_stream_embedded_serial.c:138-142, 147-165, 174-182).
BuffersDrain ==
  /\ []<>(Len(sent) >= written \/ lapses # {})
  /\ []<>(Len(readBack) = received \/ overrun \/ pc = "waitNotFull")

\* The busy wait for space ends, as the comment "Allow TX-interrupt to make
\* space in buffer" (sq_stream_embedded_serial.c:139) has it.
WaitEnds == (pc = "waitNotFull") ~> (pc # "waitNotFull")

=============================================================================
