----------------------------- MODULE StreamsProofs -----------------------------
(***************************************************************************)
(* The safety of two streams: nothing is lost between the main loop and    *)
(* the interrupts of the serial stream, for every size of the buffers and  *)
(* any number of bytes, and the threads of the TCP stream serve any set of *)
(* clients one at a time.                                                  *)
(***************************************************************************)
EXTENDS MCStreams, CircularBufferLemmas

-----------------------------------------------------------------------------
(* The inductive invariant of the serial stream.                            *)

\* Where the positions can be: they are out of the storage, or the mark is set,
\* at certain points of the main loop only.
Positions ==
  /\ in.write \in Index
  /\ in.read = Size => pc = "popWrap"
  /\ out.read # Size
  /\ out.write = Size => pc = "pushWrap"
  /\ pc \in {"pushStore", "pushWrap", "pushCompare", "pushMark"} => ~IsFull(out)
  /\ pc = "pushMark" => IsEmpty(out)

\* The buffer once the push has run to its end, and once the pop has.
Pushed(b) ==
  LET next == IF b.write = Size THEN 0 ELSE b.write
  IN  [read  |-> IF b.read = next THEN FullMark ELSE b.read,
       write |-> next,
       data  |-> b.data]

Wrapped(b) ==
  [read |-> IF b.read = Size THEN 0 ELSE b.read, write |-> b.write, data |-> b.data]

\* What is on the line and in UDR0, and in m_out once the push has run to its
\* end, is what was written; the byte being pushed counts once it is stored.
Outgoing ==
  /\ pc \in {"waitNotFull", "pushStore"} =>
       /\ byte = written /\ written > 0
       /\ sent \o InRegister \o Contents(out) = Numbers(written - 1)
  /\ pc \in {"pushWrap", "pushCompare", "pushMark"} =>
       /\ byte = written
       /\ sent \o InRegister \o Contents(Pushed(out)) = Numbers(written)
  /\ pc \notin WritePcs => sent \o InRegister \o Contents(out) = Numbers(written)

\* What was read back, the byte on its way to it and what is in m_in is what was
\* received, and it leaves room in m_in.
Incoming ==
  /\ received - Len(readBack) < Size
  /\ pc # "popUnmark"
  /\ pc = "popWrap" => readBack \o <<byte>> \o Contents(Wrapped(in)) = Numbers(received)
  /\ pc # "popWrap" => readBack \o Contents(in) = Numbers(received)
  /\ pc \in {"popTest", "popRead", "popLoad", "popStore"} => Available(in) # 0
  /\ pc \in {"popLoad", "popStore"} => byte = Head(Contents(in))
  /\ pc = "popStore" => reg = in.read + 1
  /\ pc = "popWrap" => ~IsFull(in)

IInv ==
  /\ TypeOK
  /\ Positions
  /\ "sentEarly" \notin lapses => Outgoing
  /\ ~overrun => Incoming

-----------------------------------------------------------------------------
(* The types.                                                               *)

\* What TypeOK and Positions say of the buffers, as plain facts.
LEMMA SharedFields ==
  ASSUME TypeOK, Positions
  PROVE  /\ in.read \in -1 .. Size /\ in.write \in 0 .. Size - 1
         /\ in.data \in [0 .. Size - 1 -> Byte]
         /\ in = [read |-> in.read, write |-> in.write, data |-> in.data]
         /\ out.read \in -1 .. Size - 1 /\ out.write \in 0 .. Size
         /\ out.data \in [0 .. Size - 1 -> Byte]
         /\ out = [read |-> out.read, write |-> out.write, data |-> out.data]
         /\ Size \in Nat \ {0}
BY SizeAssumption DEF TypeOK, Positions, SharedBuffer, Index, FullMark

\* Between two pushes m_out is a buffer, and between two pops m_in is.
LEMMA Settled ==
  ASSUME TypeOK, Positions
  PROVE  /\ pc # "pushWrap" => out \in Buffer
         /\ pc # "popWrap" => in \in Buffer
<1>1. pc # "pushWrap" => out.write \in 0 .. Size - 1
  BY SharedFields DEF Positions
<1>2. pc # "popWrap" => in.read \in -1 .. Size - 1
  BY SharedFields DEF Positions
<1> QED
  BY <1>1, <1>2, SharedFields DEF Buffer, Index, FullMark

\* Both hold of the first state.
LEMMA InitTypes == Init => TypeOK /\ Positions
<1> SUFFICES ASSUME Init
             PROVE  TypeOK /\ Positions
  OBVIOUS
<1>1. [i \in Index |-> 0] \in [Index -> Byte]
  BY BoundsAssumption
<1>2. in \in SharedBuffer /\ out \in SharedBuffer
  BY <1>1, SizeAssumption DEF Init, SharedBuffer, Index, FullMark
<1>3. << >> \in Seq(Byte)
  OBVIOUS
<1>4. 0 \in Byte /\ 0 \in 0 .. Size /\ 0 \in 0 .. MaxWritten /\ 0 \in 0 .. MaxReceived
  BY BoundsAssumption, SizeAssumption
<1>5. TypeOK
  BY <1>2, <1>3, <1>4 DEF Init, TypeOK
<1>6. Positions
  BY SizeAssumption DEF Init, Positions, Index, IsFull, FullMark
<1> QED
  BY <1>5, <1>6

\* Neither a started write nor a started read leaves its types, and the
\* interrupts keep the positions in the storage.
LEMMA NextTypes == TypeOK /\ Positions /\ [Next]_vars => TypeOK' /\ Positions'
<1> SUFFICES ASSUME TypeOK, Positions, [Next]_vars
             PROVE  TypeOK' /\ Positions'
  OBVIOUS
<1>a. /\ in.read \in -1 .. Size /\ in.write \in 0 .. Size - 1
      /\ in.data \in [0 .. Size - 1 -> Byte]
      /\ in = [read |-> in.read, write |-> in.write, data |-> in.data]
      /\ out.read \in -1 .. Size - 1 /\ out.write \in 0 .. Size
      /\ out.data \in [0 .. Size - 1 -> Byte]
      /\ out = [read |-> out.read, write |-> out.write, data |-> out.data]
      /\ Size \in Nat \ {0}
  BY SharedFields
<1>b. /\ written < MaxWritten => written + 1 \in 0 .. MaxWritten /\ written + 1 \in Byte
      /\ received < MaxReceived => received + 1 \in 0 .. MaxReceived /\ received + 1 \in Byte
      /\ 0 \in Byte
  BY BoundsAssumption DEF TypeOK
<1> USE <1>a, <1>b
<1>1. CASE WriteToRegister
  <2>1. written' \in 0 .. MaxWritten /\ udr' \in Byte
    BY <1>1 DEF WriteToRegister
  <2> QED
    BY <1>1, <2>1 DEF WriteToRegister, TypeOK, Positions, rxVars
<1>2. CASE WriteToEmptyBuffer
  <2>1. out' \in Buffer
    BY <1>2, Settled, PushType DEF WriteToEmptyBuffer
  <2>2. out'.read \in -1 .. Size - 1 /\ out'.write \in 0 .. Size - 1
    BY <2>1, BufferFields
  <2>3. out' \in SharedBuffer
    BY <2>1 DEF Buffer, SharedBuffer, Index, FullMark
  <2> QED
    BY SMTT(30), <1>2, <2>2, <2>3 DEF WriteToEmptyBuffer, TypeOK, Positions, rxVars
<1>3. CASE WriteToNonEmptyBuffer
  BY <1>3 DEF WriteToNonEmptyBuffer, Goto, TypeOK, Positions, lineVars, rxVars, WritePcs, ReadPcs
<1>4. CASE SpaceSeen
  BY <1>4 DEF SpaceSeen, Goto, TypeOK, Positions, txVars, lineVars, rxVars, WritePcs, ReadPcs
<1>5. CASE PushStore
  <2>1. out' = [read |-> out.read, write |-> out.write + 1,
                data |-> [out.data EXCEPT ![out.write] = byte]]
    BY <1>5 DEF PushStore
  <2>2. out.write \in 0 .. Size - 1 /\ byte \in Byte
    BY <1>5 DEF PushStore, Goto, Positions, TypeOK
  <2>3. /\ out' \in SharedBuffer /\ out'.read = out.read
    BY <2>1, <2>2 DEF SharedBuffer, Index, FullMark
  <2> QED
    BY <1>5, <2>3 DEF PushStore, Goto, TypeOK, Positions, IsFull,
                      lineVars, rxVars, WritePcs, ReadPcs
<1>6. CASE PushWrap
  <2>1. out' = [read |-> out.read, write |-> IF out.write >= Size THEN 0 ELSE out.write,
                data |-> out.data]
    BY <1>6 DEF PushWrap
  <2>2. out' \in SharedBuffer /\ out'.read = out.read /\ out'.write # Size
    BY <2>1 DEF SharedBuffer, Index, FullMark
  <2> QED
    BY <1>6, <2>2 DEF PushWrap, Goto, TypeOK, Positions, IsFull,
                      lineVars, rxVars, WritePcs, ReadPcs
<1>7. CASE PushCompare
  BY <1>7 DEF PushCompare, TypeOK, Positions, IsFull, IsEmpty, txVars, lineVars, rxVars,
              WritePcs, ReadPcs
<1>8. CASE PushMark
  <2>1. out' = [read |-> FullMark, write |-> out.write, data |-> out.data]
    BY <1>8 DEF PushMark
  <2>2. out' \in SharedBuffer /\ out'.read # Size /\ out'.write = out.write
    BY <2>1 DEF SharedBuffer, Index, FullMark
  <2> QED
    BY <1>8, <2>2 DEF PushMark, Goto, TypeOK, Positions, lineVars, rxVars, WritePcs, ReadPcs
<1>9. CASE BeginRead
  BY <1>9 DEF BeginRead, Goto, TypeOK, Positions, txVars, lineVars, rxVars, WritePcs, ReadPcs
<1>10. CASE PopTest
  BY <1>10 DEF PopTest, TypeOK, Positions, txVars, lineVars, rxVars, WritePcs, ReadPcs
<1>11. CASE PopUnmark
  <2>1. in' = [read |-> in.write, write |-> in.write, data |-> in.data]
    BY <1>11 DEF PopUnmark
  <2>2. in' \in SharedBuffer /\ in'.read # Size /\ in'.write = in.write
    BY <2>1 DEF SharedBuffer, Index, FullMark
  <2> QED
    BY <1>11, <2>2 DEF PopUnmark, Goto, TypeOK, Positions, txVars, lineVars, WritePcs, ReadPcs
<1>12. CASE PopRead
  <2>1. byte' \in Byte
    BY <1>12 DEF PopRead, Index
  <2> QED
    BY <1>12, <2>1 DEF PopRead, Goto, TypeOK, Positions, txVars, lineVars, rxVars,
                       WritePcs, ReadPcs
<1>13. CASE PopLoad
  <2>1. reg' \in 0 .. Size
    BY <1>13 DEF PopLoad, Goto, Positions
  <2> QED
    BY <1>13, <2>1 DEF PopLoad, Goto, TypeOK, Positions, txVars, lineVars, rxVars,
                       WritePcs, ReadPcs
<1>14. CASE PopStore
  <2>1. in' = [read |-> reg, write |-> in.write, data |-> in.data] /\ reg \in 0 .. Size
    BY <1>14 DEF PopStore, TypeOK
  <2>2. in' \in SharedBuffer /\ in'.write = in.write
    BY <2>1 DEF SharedBuffer, Index, FullMark
  <2> QED
    BY <1>14, <2>2 DEF PopStore, Goto, TypeOK, Positions, txVars, lineVars, WritePcs, ReadPcs
<1>15. CASE PopWrap
  <2>1. in' = [read |-> IF in.read >= Size THEN 0 ELSE in.read, write |-> in.write,
               data |-> in.data]
    BY <1>15 DEF PopWrap
  <2>2. in' \in SharedBuffer /\ in'.read # Size /\ in'.write = in.write
    BY <2>1 DEF SharedBuffer, Index, FullMark
  <2>3. readBack' \in Seq(Byte)
    BY <1>15, AppendProperties DEF PopWrap, TypeOK
  <2> QED
    BY <1>15, <2>2, <2>3 DEF PopWrap, Goto, TypeOK, Positions, txVars, lineVars,
                             WritePcs, ReadPcs
<1>16. CASE RxInterrupt
  <2>1. /\ in'.read = IF Advance(in.write) = Oldest(in) THEN FullMark ELSE Oldest(in)
        /\ in'.write = Advance(in.write)
        /\ in'.data = [in.data EXCEPT ![in.write] = received']
        /\ in' = [read |-> in'.read, write |-> in'.write, data |-> in'.data]
    BY <1>16 DEF RxInterrupt, Push
  <2>2. /\ in'.read \in -1 .. Size /\ in'.write \in 0 .. Size - 1
        /\ in'.read = Size => in.read = Size
    BY <2>1 DEF Advance, Oldest, IsFull, FullMark
  <2>3. in'.data \in [0 .. Size - 1 -> Byte] /\ received' \in 0 .. MaxReceived
    BY SMTT(30), <1>16, <2>1 DEF RxInterrupt
  <2>4. in' \in SharedBuffer
    <3>1. in'.write \in 0 .. Size
      BY <2>2
    <3> QED
      BY <2>1, <2>2, <2>3, <3>1 DEF SharedBuffer, Index, FullMark
  <2>5. in'.write \in Index
    BY <2>2 DEF Index
  <2>6. overrun' \in BOOLEAN
    BY <1>16 DEF RxInterrupt, TypeOK
  <2> QED
    BY <1>16, <2>2, <2>3, <2>4, <2>5, <2>6 DEF RxInterrupt, TypeOK, Positions, txVars, lineVars
<1>17. CASE UdreInterrupt
  <2>1. CASE Available(out) # 0
    <3>1. Oldest(out) \in 0 .. Size - 1
      BY DEF Oldest, IsFull, FullMark, Positions
    <3>2. /\ out'.read = Advance(Oldest(out))
          /\ out'.write = out.write /\ out'.data = out.data
          /\ out' \in SharedBuffer
      BY <1>17, <2>1, <3>1 DEF UdreInterrupt, Pop, Advance, SharedBuffer, Index, FullMark
    <3>3. out'.read \in 0 .. Size - 1
      BY <3>1, <3>2 DEF Advance
    <3>4. pc # "pushMark"
      BY <2>1 DEF Positions, IsEmpty, IsFull, Available
    <3>5. udr' \in Byte
      BY <1>17, <2>1, <3>1 DEF UdreInterrupt, Popped
    <3>6. lapses' \subseteq {"sentEarly", "disarmed"}
      BY <1>17, <2>1 DEF UdreInterrupt, Lapse, TypeOK
    <3> QED
      BY <1>17, <2>1, <3>2, <3>3, <3>4, <3>5, <3>6
        DEF UdreInterrupt, TypeOK, Positions, IsFull, FullMark, rxVars
  <2>2. CASE Available(out) = 0
    BY <1>17, <2>2 DEF UdreInterrupt, Lapse, TypeOK, Positions, rxVars
  <2> QED
    BY <2>1, <2>2
<1>18. CASE Transmit
  <2>1. sent' \in Seq(Byte)
    BY <1>18, AppendProperties DEF Transmit, TypeOK
  <2> QED
    BY <1>18, <2>1 DEF Transmit, TypeOK, Positions, rxVars
<1>19. CASE UNCHANGED vars
  BY <1>19 DEF vars, txVars, rxVars, lineVars, TypeOK, Positions
<1> QED
  BY <1>1, <1>2, <1>3, <1>4, <1>5, <1>6, <1>7, <1>8, <1>9, <1>10, <1>11, <1>12, <1>13,
     <1>14, <1>15, <1>16, <1>17, <1>18, <1>19 DEF Next, Write, FinishWrite, Read

-----------------------------------------------------------------------------
(* What the steps of a push and of a pop come to.                           *)

\* A byte stored at the write position, which then steps, is pushed.
LEMMA StoredIsPushed ==
  ASSUME NEW b \in Buffer, NEW v \in Byte, ~IsFull(b)
  PROVE  Pushed([read |-> b.read, write |-> b.write + 1,
                 data |-> [b.data EXCEPT ![b.write] = v]]) = Push(b, v)
<1> DEFINE next == IF b.write + 1 = Size THEN 0 ELSE b.write + 1
<1>1. next = Advance(b.write)
  BY BufferFields DEF Advance
<1>2. Oldest(b) = b.read
  BY DEF Oldest
<1> QED
  BY <1>1, <1>2 DEF Push, Pushed

\* A pop from a buffer whose push has not run to its end takes what it takes
\* from the pushed one, unless it takes the last byte.
LEMMA PoppedWhilePushed ==
  ASSUME NEW b, b = [read |-> b.read, write |-> b.write, data |-> b.data],
         b.read \in 0 .. Size - 1, b.write \in 0 .. Size, b.data \in [0 .. Size - 1 -> Byte],
         Available(Pushed(b)) > 1
  PROVE  Pushed(Pop(b)) = Pop(Pushed(b))
<1> DEFINE next == IF b.write = Size THEN 0 ELSE b.write
           p == Pushed(b)
<1>1. next \in 0 .. Size - 1
  BY SizeAssumption
<1>2. p = [read |-> IF b.read = next THEN FullMark ELSE b.read, write |-> next, data |-> b.data]
  BY DEF Pushed
<1> HIDE DEF next, p
<1>3. Oldest(b) = b.read /\ Oldest(p) = b.read
  BY <1>2 DEF Oldest, IsFull, FullMark
<1>4. Pop(b) = [read |-> Advance(b.read), write |-> b.write, data |-> b.data]
  BY <1>3 DEF Pop
<1>5. Pop(p) = [read |-> Advance(b.read), write |-> next, data |-> b.data]
  BY <1>2, <1>3 DEF Pop
<1>6. Advance(b.read) # next
  <2>1. CASE b.read = next
    <3>1. Available(p) = Size
      BY <1>2, <2>1 DEF Available, IsFull, FullMark
    <3> QED
      BY <2>1, <3>1, SizeAssumption DEF Advance, p
  <2>2. CASE b.read # next
    <3>1. Available(p) = IF b.read > next THEN Size - b.read + next ELSE next - b.read
      BY <1>2, <2>2 DEF Available, IsFull, FullMark
    <3> QED
      BY <1>1, <2>2, <3>1, SizeAssumption DEF Advance, p
  <2> QED
    BY <2>1, <2>2
<1>7. Pushed(Pop(b)) = [read |-> Advance(b.read), write |-> next, data |-> b.data]
  BY <1>4, <1>6 DEF Pushed, next
<1> QED
  BY <1>5, <1>7 DEF p

\* A pushed buffer has at least a byte, and its first one is the one that a pop
\* takes before the push has run to its end.
LEMMA PushedHasBytes ==
  ASSUME NEW b, b = [read |-> b.read, write |-> b.write, data |-> b.data],
         b.read \in 0 .. Size - 1, b.write \in 0 .. Size, b.data \in [0 .. Size - 1 -> Byte]
  PROVE  /\ Pushed(b) \in Buffer
         /\ Available(Pushed(b)) # 0
         /\ Popped(b) = Popped(Pushed(b))
<1> DEFINE next == IF b.write = Size THEN 0 ELSE b.write
           p == Pushed(b)
<1>1. next \in 0 .. Size - 1
  BY SizeAssumption
<1>2. p = [read |-> IF b.read = next THEN FullMark ELSE b.read, write |-> next, data |-> b.data]
  BY DEF Pushed
<1> HIDE DEF next, p
<1>3. p \in Buffer
  BY <1>1, <1>2 DEF Buffer, Index, FullMark
<1>4. Available(p) # 0
  BY <1>1, <1>2, SizeAssumption DEF Available, IsFull, FullMark
<1>5. Popped(b) = Popped(p)
  <2>1. Oldest(b) = b.read /\ Oldest(p) = b.read
    BY <1>2 DEF Oldest, IsFull, FullMark
  <2> QED
    BY <1>2, <2>1 DEF Popped
<1> QED
  BY <1>3, <1>4, <1>5 DEF p

\* A buffer whose position is wrapped is one again.
LEMMA WrappedIsBuffer ==
  ASSUME NEW b, b = [read |-> b.read, write |-> b.write, data |-> b.data],
         b.read \in 0 .. Size, b.write \in 0 .. Size - 1, b.data \in [0 .. Size - 1 -> Byte]
  PROVE  Wrapped(b) \in Buffer
<1>1. (IF b.read = Size THEN 0 ELSE b.read) \in 0 .. Size - 1
  BY SizeAssumption
<1> QED
  BY <1>1 DEF Wrapped, Buffer, Index, FullMark

\* A push into a buffer whose read position is still out of the storage, when
\* there is room for more, is a push into the buffer with its position wrapped.
LEMMA PushedBeforeWrap ==
  ASSUME NEW b, b = [read |-> b.read, write |-> b.write, data |-> b.data], NEW v \in Byte,
         b.read \in 0 .. Size, b.write \in 0 .. Size - 1, b.data \in [0 .. Size - 1 -> Byte],
         Available(Wrapped(b)) < Size - 1
  PROVE  /\ Wrapped(Push(b, v)) = Push(Wrapped(b), v)
         /\ Advance(b.write) # b.read
<1> DEFINE read == IF b.read = Size THEN 0 ELSE b.read
           w == Wrapped(b)
           data == [b.data EXCEPT ![b.write] = v]
           next == Advance(b.write)
<1>1. read \in 0 .. Size - 1 /\ next \in 0 .. Size - 1
  BY SizeAssumption DEF Advance
<1>2. w = [read |-> read, write |-> b.write, data |-> b.data]
  BY DEF Wrapped
<1> HIDE DEF read, w, next
<1>3. next # read
  <2>1. Available(w) = IF read > b.write THEN Size - read + b.write ELSE b.write - read
    BY <1>1, <1>2 DEF Available, IsFull, FullMark
  <2> QED
    BY <1>1, <2>1, SizeAssumption DEF Advance, w, next
<1>4. Push(w, v) = [read |-> read, write |-> next, data |-> data]
  <2>1. Oldest(w) = read
    BY <1>1, <1>2 DEF Oldest, IsFull, FullMark
  <2> QED
    BY <1>2, <1>3, <2>1 DEF Push, next
<1>5. next # b.read
  BY <1>1, <1>3 DEF read
<1>6. Push(b, v) = [read |-> b.read, write |-> next, data |-> data]
  <2>1. Oldest(b) = b.read
    BY SizeAssumption DEF Oldest, IsFull, FullMark
  <2> QED
    BY <1>5, <2>1 DEF Push, next
<1>7. Wrapped(Push(b, v)) = [read |-> read, write |-> next, data |-> data]
  BY <1>6 DEF Wrapped, read
<1> QED
  BY <1>4, <1>5, <1>7 DEF w, next

-----------------------------------------------------------------------------
(* Sequences of numbers.                                                    *)

\* The bytes up to the n-th, and one more.
LEMMA NumbersGrow ==
  ASSUME NEW n \in Nat, 0 .. n \subseteq Byte
  PROVE  /\ Numbers(n) \in Seq(Byte) /\ Len(Numbers(n)) = n
         /\ \A i \in 1 .. n : Numbers(n)[i] = i
         /\ n > 0 => Numbers(n) = Append(Numbers(n - 1), n)
<1>1. ASSUME NEW m \in Nat, m <= n
      PROVE  /\ Numbers(m) \in Seq(Byte) /\ Len(Numbers(m)) = m
             /\ \A i \in 1 .. m : Numbers(m)[i] = i
  <2>1. Numbers(m) \in [1 .. m -> Byte]
    BY <1>1 DEF Numbers
  <2> QED
    BY <2>1 DEF Numbers
<1>2. ASSUME n > 0
      PROVE  Numbers(n) = Append(Numbers(n - 1), n)
  <2>1. /\ Numbers(n - 1) \in Seq(Byte) /\ Len(Numbers(n - 1)) = n - 1
        /\ \A i \in 1 .. n - 1 : Numbers(n - 1)[i] = i
    BY <1>1, <1>2
  <2>2. n \in Byte
    OBVIOUS
  <2>3. /\ Append(Numbers(n - 1), n) \in Seq(Byte)
        /\ Len(Append(Numbers(n - 1), n)) = n
        /\ \A i \in 1 .. n : Append(Numbers(n - 1), n)[i] = i
    BY <1>2, <2>1, <2>2, AppendProperties
  <2>4. /\ Numbers(n) \in Seq(Byte) /\ Len(Numbers(n)) = n
        /\ \A i \in 1 .. n : Numbers(n)[i] = i
    BY <1>1
  <2> QED
    BY <2>3, <2>4, SeqEqual
<1> QED
  BY <1>1, <1>2

\* An append moves past what comes before it.
LEMMA AppendBehind ==
  ASSUME NEW s \in Seq(Byte), NEW t \in Seq(Byte), NEW v \in Byte
  PROVE  s \o Append(t, v) = Append(s \o t, v)
<1>1. /\ Append(t, v) = t \o <<v>> /\ <<v>> \in Seq(Byte)
      /\ s \o t \in Seq(Byte)
  BY AppendIsConcat, ConcatProperties
<1> QED
  BY <1>1, AppendIsConcat, ConcatAssociative

\* The head of what follows moves to the end of what comes before it.
LEMMA HeadMoves ==
  ASSUME NEW s \in Seq(Byte), NEW t \in Seq(Byte), t # << >>
  PROVE  (s \o <<Head(t)>>) \o Tail(t) = s \o t
<1>1. Head(t) \in Byte /\ Tail(t) \in Seq(Byte) /\ Len(Tail(t)) = Len(t) - 1
  BY HeadTailProperties
<1>2. <<Head(t)>> \in Seq(Byte) /\ Len(<<Head(t)>>) = 1
  BY <1>1
<1>3. <<Head(t)>> \o Tail(t) = t
  <2>1. /\ <<Head(t)>> \o Tail(t) \in Seq(Byte)
        /\ Len(<<Head(t)>> \o Tail(t)) = Len(t)
        /\ \A i \in 1 .. Len(t) :
             (<<Head(t)>> \o Tail(t))[i] = IF i <= 1 THEN <<Head(t)>>[i] ELSE Tail(t)[i - 1]
    BY <1>1, <1>2, ConcatProperties
  <2>2. \A i \in 1 .. Len(t) : (<<Head(t)>> \o Tail(t))[i] = t[i]
    BY <1>1, <2>1, HeadTailProperties
  <2> QED
    BY <2>1, <2>2, SeqEqual
<1> QED
  BY <1>1, <1>2, <1>3, ConcatAssociative

\* A buffer that is empty has no bytes, and one that is not full has room.
LEMMA EmptyAndFull ==
  ASSUME NEW b \in Buffer
  PROVE  /\ IsEmpty(b) => Contents(b) = << >> /\ Available(b) = 0
         /\ ~IsFull(b) => Available(b) < Size
<1>1. Contents(b) \in Seq(Byte) /\ Len(Contents(b)) = Available(b)
  BY ContentsType
<1>2. IsEmpty(b) => Available(b) = 0
  BY BufferFields DEF IsEmpty, IsFull, FullMark, Available
<1>3. ~IsFull(b) => Available(b) < Size
  BY BufferFields DEF IsFull, FullMark, Available
<1> QED
  BY <1>1, <1>2, <1>3

-----------------------------------------------------------------------------
(* What is written.                                                         *)

\* Whatever a step of the program does, the bytes on their way out are those
\* that were written, as long as the byte being pushed is not sent early.
LEMMA OutgoingStep ==
  ASSUME TypeOK, Positions, Outgoing, Next, TypeOK', Positions', "sentEarly" \notin lapses'
  PROVE  Outgoing'
<1>a. /\ out.read \in -1 .. Size - 1 /\ out.write \in 0 .. Size
      /\ out.data \in [0 .. Size - 1 -> Byte]
      /\ out = [read |-> out.read, write |-> out.write, data |-> out.data]
      /\ Size \in Nat \ {0}
      /\ pc # "pushWrap" => out \in Buffer
  BY SharedFields, Settled
<1> DEFINE before == sent \o InRegister
<1>b. sent \in Seq(Byte) /\ InRegister \in Seq(Byte) /\ before \in Seq(Byte)
  BY ConcatProperties DEF TypeOK, InRegister
<1>c. \A n \in 0 .. MaxWritten :
        /\ Numbers(n) \in Seq(Byte) /\ Len(Numbers(n)) = n
        /\ \A i \in 1 .. n : Numbers(n)[i] = i
        /\ n > 0 => Numbers(n) = Append(Numbers(n - 1), n)
  BY NumbersGrow, BoundsAssumption
<1>d. /\ written \in 0 .. MaxWritten /\ byte \in Byte /\ MaxWritten \in Nat
      /\ written < MaxWritten => written + 1 \in 0 .. MaxWritten /\ written + 1 \in Byte
  BY BoundsAssumption DEF TypeOK
<1>e. /\ written < MaxWritten => Numbers(written + 1) = Append(Numbers(written), written + 1)
      /\ written > 0 => /\ Numbers(written) = Append(Numbers(written - 1), written)
                        /\ written - 1 \in 0 .. MaxWritten
  <2>1. written < MaxWritten => /\ written + 1 \in 0 .. MaxWritten
                                /\ written + 1 > 0 /\ (written + 1) - 1 = written
    BY <1>d
  <2>2. written > 0 => written - 1 \in 0 .. MaxWritten
    BY <1>d
  <2> QED
    BY <1>c, <1>d, <2>1, <2>2
<1>f. /\ Popped(out) \in Byte
      /\ Popped(out) # Nothing
  <2>1. Oldest(out) \in 0 .. Size - 1
    BY <1>a DEF Oldest, IsFull, FullMark, Positions
  <2> QED
    BY <1>a, <2>1, BoundsAssumption DEF Popped
<1>1. CASE WriteToRegister
  <2>1. /\ Contents(out) = << >> /\ InRegister = << >>
        /\ before \o Contents(out) = Numbers(written)
    BY <1>1, <1>a, EmptyAndFull DEF WriteToRegister, InRegister, Outgoing, WritePcs
  <2>2. sent = Numbers(written)
    BY <1>b, <2>1, ConcatEmptySeq
  <2>3. InRegister' = <<written + 1>> /\ written + 1 \in 0 .. MaxWritten /\ written + 1 \in Byte
    BY <1>1, <1>d, BoundsAssumption DEF WriteToRegister, InRegister
  <2>4. sent \o <<written + 1>> = Numbers(written + 1)
    <3>1. sent \o <<written + 1>> = Append(sent, written + 1)
      BY <1>b, <2>3, AppendIsConcat
    <3> QED
      BY <1>1, <1>e, <2>2, <3>1 DEF WriteToRegister
  <2>5. (sent \o InRegister \o Contents(out))' = Numbers(written')
    <3>1. (sent \o <<written + 1>>) \o << >> = sent \o <<written + 1>>
      BY <1>b, <1>c, <2>3, <2>4, ConcatEmptySeq
    <3> QED
      BY <1>1, <2>1, <2>3, <2>4, <3>1 DEF WriteToRegister
  <2> QED
    BY <1>1, <2>5 DEF WriteToRegister, Outgoing, WritePcs
<1>2. CASE WriteToEmptyBuffer
  <2>1. /\ out \in Buffer /\ Available(out) < Size
        /\ before \o Contents(out) = Numbers(written)
    BY <1>2, <1>a, EmptyAndFull DEF WriteToEmptyBuffer, Outgoing, WritePcs
  <2>2. written + 1 \in 0 .. MaxWritten /\ written + 1 \in Byte
    BY <1>2, <1>d DEF WriteToEmptyBuffer
  <2>3. Contents(out') = Append(Contents(out), written + 1)
    BY <1>2, <2>1, <2>2, PushAppends DEF WriteToEmptyBuffer
  <2>4. before \o Contents(out') = Numbers(written + 1)
    <3>1. before \o Append(Contents(out), written + 1)
            = Append(before \o Contents(out), written + 1)
      BY <1>b, <2>1, <2>2, AppendBehind, ContentsType
    <3> QED
      BY <1>2, <1>e, <2>1, <2>3, <3>1 DEF WriteToEmptyBuffer
  <2> QED
    BY <1>2, <2>4 DEF WriteToEmptyBuffer, Outgoing, WritePcs, InRegister
<1>3. CASE WriteToNonEmptyBuffer
  <2>1. before \o Contents(out) = Numbers(written) /\ written' - 1 = written /\ written' > 0
    BY <1>3, <1>d DEF WriteToNonEmptyBuffer, Goto, Outgoing, WritePcs
  <2> QED
    BY <1>3, <2>1 DEF WriteToNonEmptyBuffer, Goto, lineVars, Outgoing, WritePcs, InRegister
<1>4. CASE SpaceSeen
  BY <1>4 DEF SpaceSeen, Goto, txVars, lineVars, Outgoing, WritePcs, InRegister
<1>5. CASE PushStore
  <2>1. /\ out \in Buffer /\ ~IsFull(out) /\ byte = written /\ written > 0
        /\ before \o Contents(out) = Numbers(written - 1)
    BY <1>5, <1>a DEF PushStore, Goto, Outgoing, Positions
  <2>2. out' = [read |-> out.read, write |-> out.write + 1,
                data |-> [out.data EXCEPT ![out.write] = byte]]
    BY <1>5, <1>a DEF PushStore
  <2>3. Contents(Pushed(out')) = Append(Contents(out), byte)
    BY <1>d, <2>1, <2>2, StoredIsPushed, EmptyAndFull, PushAppends
  <2>4. before \o Contents(Pushed(out')) = Numbers(written)
    <3>1. before \o Append(Contents(out), byte) = Append(before \o Contents(out), byte)
      BY <1>b, <1>d, <2>1, AppendBehind, ContentsType
    <3> QED
      BY <1>e, <2>1, <2>3, <3>1
  <2> QED
    BY <1>5, <2>1, <2>4 DEF PushStore, Goto, lineVars, Outgoing, WritePcs, InRegister
<1>6. CASE PushWrap
  <2>1. out' = [read |-> out.read, write |-> IF out.write >= Size THEN 0 ELSE out.write,
                data |-> out.data]
    BY <1>6, <1>a DEF PushWrap
  <2>2. Pushed(out') = Pushed(out)
    BY <1>a, <2>1 DEF Pushed
  <2> QED
    BY <1>6, <2>2 DEF PushWrap, Goto, lineVars, Outgoing, WritePcs, InRegister
<1>7. CASE PushCompare
  <2>1. CASE out.write = out.read
    BY <1>7, <2>1 DEF PushCompare, txVars, lineVars, Outgoing, WritePcs, InRegister
  <2>2. CASE out.write # out.read
    <3>1. Pushed(out) = out
      BY <1>7, <1>a, <2>2 DEF PushCompare, Pushed, Positions
    <3> QED
      BY <1>7, <2>2, <3>1 DEF PushCompare, txVars, lineVars, Outgoing, WritePcs, InRegister
  <2> QED
    BY <2>1, <2>2
<1>8. CASE PushMark
  <2>1. Pushed(out) = out'
    BY <1>8, <1>a DEF PushMark, Goto, Pushed, Positions, IsEmpty
  <2> QED
    BY <1>8, <2>1 DEF PushMark, Goto, lineVars, Outgoing, WritePcs, InRegister
<1>9. CASE Read
  <2>1. /\ UNCHANGED txVars /\ pc \notin WritePcs /\ pc' \notin WritePcs
    BY <1>9 DEF Read, BeginRead, PopTest, PopUnmark, PopRead, PopLoad, PopStore, PopWrap,
                Goto, WritePcs
  <2> QED
    BY <2>1 DEF txVars, lineVars, Outgoing, WritePcs, InRegister
<1>10. CASE RxInterrupt
  BY <1>10 DEF RxInterrupt, txVars, lineVars, Outgoing, WritePcs, InRegister
<1>11. CASE UdreInterrupt
  <2>1. CASE Available(out) = 0
    BY <1>11, <2>1 DEF UdreInterrupt, Outgoing, WritePcs, InRegister
  <2>2. CASE Available(out) # 0
    <3>1. /\ out' = Pop(out) /\ udr' = Popped(out) /\ InRegister = << >>
          /\ UNCHANGED <<sent, written, pc, byte>>
          /\ ~(pc \in WritePcs /\ Popped(out) = byte)
      BY <1>11, <2>2 DEF UdreInterrupt, Lapse, InRegister
    <3>2. before = sent
      BY <1>b, <3>1, ConcatEmptySeq
    <3>3. InRegister' = <<Popped(out)>>
      BY <1>f, <3>1 DEF InRegister
    <3>4. ASSUME NEW b \in Buffer, Available(b) # 0, Popped(b) = Popped(out),
                 NEW n \in 0 .. MaxWritten, before \o Contents(b) = Numbers(n)
          PROVE  (sent \o InRegister)' \o Contents(Pop(b)) = Numbers(n)
      <4>1. /\ Contents(b) # << >> /\ Contents(b) \in Seq(Byte)
            /\ Popped(out) = Head(Contents(b))
            /\ Contents(Pop(b)) = Tail(Contents(b))
        BY <3>4, PopTakes, ContentsType
      <4> QED
        BY ZenonT(30), <1>b, <3>1, <3>2, <3>3, <3>4, <4>1, HeadMoves
    <3>5. CASE pc \in {"pushWrap", "pushCompare", "pushMark"}
      <4>1. out.read \in 0 .. Size - 1
        BY <1>a, <3>5 DEF Positions, IsFull, FullMark
      <4>2. /\ Pushed(out) \in Buffer /\ Available(Pushed(out)) # 0
            /\ Popped(out) = Popped(Pushed(out))
        BY <1>a, <4>1, PushedHasBytes
      <4>3. before \o Contents(Pushed(out)) = Numbers(written) /\ byte = written
        BY <3>5 DEF Outgoing
      <4>4. Available(Pushed(out)) > 1
        <5>1. /\ Contents(Pushed(out)) \in Seq(Byte)
              /\ Len(Contents(Pushed(out))) = Available(Pushed(out))
              /\ Available(Pushed(out)) \in Nat
              /\ Popped(out) = Head(Contents(Pushed(out)))
          BY <1>a, <4>2, ContentsType, PopTakes, AvailableRange
        <5>2. ASSUME Available(Pushed(out)) = 1
              PROVE  Popped(out) = byte
          <6>1. Popped(out) = Contents(Pushed(out))[1]
            BY <5>1, <5>2
          <6>2. /\ Len(before) + 1 = written
                /\ (before \o Contents(Pushed(out)))[Len(before) + 1] = Contents(Pushed(out))[1]
            <7> DEFINE rest == Contents(Pushed(out))
            <7>1. /\ Len(before \o rest) = Len(before) + Len(rest) /\ Len(before) \in Nat
                  /\ \A i \in 1 .. Len(before) + Len(rest) :
                       (before \o rest)[i] =
                         IF i <= Len(before) THEN before[i] ELSE rest[i - Len(before)]
              BY <1>b, <5>1, ConcatProperties, LenProperties
            <7>2. Len(rest) = 1 /\ Len(before \o rest) = written
              BY <1>c, <1>d, <4>3, <5>1, <5>2
            <7>3. (before \o rest)[Len(before) + 1] = rest[(Len(before) + 1) - Len(before)]
              BY <7>1, <7>2
            <7>4. (Len(before) + 1) - Len(before) = 1
              BY <7>1
            <7> QED
              BY <7>1, <7>2, <7>3, <7>4
          <6> QED
            BY SMTT(30), <1>b, <1>c, <1>d, <4>3, <6>1, <6>2, LenProperties
        <5> QED
          BY <3>1, <3>5, <4>2, <5>1, <5>2 DEF WritePcs
      <4>5. Pushed(out') = Pop(Pushed(out))
        BY <1>a, <3>1, <4>1, <4>4, PoppedWhilePushed
      <4>6. (sent \o InRegister)' \o Contents(Pushed(out')) = Numbers(written)
        BY <1>d, <3>4, <4>2, <4>3, <4>5
      <4> QED
        BY <3>1, <3>5, <4>3, <4>6 DEF Outgoing, WritePcs
    <3>6. CASE pc \in {"waitNotFull", "pushStore"}
      <4>1. /\ out \in Buffer /\ before \o Contents(out) = Numbers(written - 1)
            /\ written - 1 \in 0 .. MaxWritten
            /\ byte = written /\ written > 0
        BY <1>a, <1>e, <3>6 DEF Outgoing
      <4>2. (sent \o InRegister)' \o Contents(out') = Numbers(written - 1)
        BY <2>2, <3>1, <3>4, <4>1
      <4> QED
        BY <3>1, <3>6, <4>1, <4>2 DEF Outgoing, WritePcs
    <3>7. CASE pc \notin WritePcs
      <4>1. out \in Buffer /\ before \o Contents(out) = Numbers(written)
        BY <1>a, <3>7 DEF Outgoing, WritePcs
      <4>2. (sent \o InRegister)' \o Contents(out') = Numbers(written)
        BY <1>d, <2>2, <3>1, <3>4, <4>1
      <4> QED
        BY <3>1, <3>7, <4>2 DEF Outgoing, WritePcs
    <3> QED
      BY <3>5, <3>6, <3>7 DEF WritePcs
  <2> QED
    BY <2>1, <2>2
<1>12. CASE Transmit
  <2>1. InRegister = <<udr>> /\ udr \in Byte /\ InRegister' = << >>
    BY <1>12 DEF Transmit, InRegister, TypeOK
  <2>2. Len(sent) < MaxSent
    <3>1. PICK rest \in Seq(Byte), n \in 0 .. MaxWritten : before \o rest = Numbers(n)
      <4>1. pc = "pushWrap" => Pushed(out) \in Buffer
        BY <1>a, PushedHasBytes DEF Positions, IsFull, FullMark
      <4>2. CASE pc \in {"pushWrap", "pushCompare", "pushMark"}
        <5>1. Pushed(out) \in Buffer
          BY <1>a, <4>2, PushedHasBytes DEF Positions, IsFull, FullMark
        <5> QED
          BY <1>d, <4>2, <5>1, ContentsType DEF Outgoing
      <4>3. CASE pc \in {"waitNotFull", "pushStore"}
        <5>1. written - 1 \in 0 .. MaxWritten /\ out \in Buffer
          BY <1>a, <1>d, <4>3 DEF Outgoing
        <5> QED
          BY <4>3, <5>1, ContentsType DEF Outgoing
      <4>4. CASE pc \notin WritePcs
        <5>1. out \in Buffer
          BY <1>a, <4>4 DEF WritePcs
        <5> QED
          BY <1>d, <4>4, <5>1, ContentsType DEF Outgoing
      <4> QED
        BY <4>2, <4>3, <4>4 DEF WritePcs
    <3>2. Len(before) + Len(rest) = n /\ Len(before) = Len(sent) + 1
      <4>1. Len(InRegister) = 1
        BY <2>1
      <4>2. Len(before) = Len(sent) + Len(InRegister)
        BY <1>b, ConcatProperties
      <4>3. Len(before \o rest) = Len(before) + Len(rest)
        BY <1>b, ConcatProperties
      <4>4. Len(before \o rest) = n
        BY <1>c, <3>1
      <4> QED
        BY <4>1, <4>2, <4>3, <4>4
    <3>3. Len(rest) \in Nat /\ Len(sent) \in Nat
      BY <1>b, LenProperties
    <3> QED
      BY <3>1, <3>2, <3>3, BoundsAssumption
  <2>3. sent' = before
    BY <1>12, <1>b, <2>1, <2>2, AppendIsConcat DEF Transmit
  <2>4. (sent \o InRegister)' = before
    BY <1>b, <2>1, <2>3, ConcatEmptySeq
  <2> QED
    BY <1>12, <2>4 DEF Transmit, Outgoing, WritePcs
<1> QED
  BY <1>1, <1>2, <1>3, <1>4, <1>5, <1>6, <1>7, <1>8, <1>9, <1>10, <1>11, <1>12
    DEF Next, Write, FinishWrite

-----------------------------------------------------------------------------
(* What is received.                                                        *)

\* The bytes received are those that were read back and those still in m_in,
\* whatever a step of the program does, as long as the host never had the
\* buffer's size or more of bytes unread.
LEMMA IncomingStep ==
  ASSUME TypeOK, Positions, Incoming, Next, TypeOK', Positions', ~overrun'
  PROVE  Incoming'
<1>a. /\ in.read \in -1 .. Size /\ in.write \in 0 .. Size - 1
      /\ in.data \in [0 .. Size - 1 -> Byte]
      /\ in = [read |-> in.read, write |-> in.write, data |-> in.data]
      /\ Size \in Nat \ {0}
      /\ pc # "popWrap" => in \in Buffer
  BY SharedFields, Settled
<1>b. /\ readBack \in Seq(Byte) /\ Len(readBack) \in Nat
      /\ byte \in Byte /\ <<byte>> \in Seq(Byte) /\ Len(<<byte>>) = 1
      /\ received \in 0 .. MaxReceived /\ MaxReceived \in Nat
  BY BoundsAssumption, LenProperties DEF TypeOK
<1>c. \A n \in 0 .. MaxReceived : Numbers(n) \in Seq(Byte) /\ Len(Numbers(n)) = n
  BY NumbersGrow, BoundsAssumption
<1>d. received < MaxReceived =>
        /\ received + 1 \in Byte
        /\ Numbers(received + 1) = Append(Numbers(received), received + 1)
  <2> SUFFICES ASSUME received < MaxReceived
               PROVE  /\ received + 1 \in Byte
                      /\ Numbers(received + 1) = Append(Numbers(received), received + 1)
    OBVIOUS
  <2>1. /\ received + 1 \in Nat /\ 0 .. received + 1 \subseteq Byte
        /\ received + 1 > 0 /\ (received + 1) - 1 = received
        /\ received + 1 \in Byte
    BY <1>b, BoundsAssumption
  <2> QED
    BY <2>1, NumbersGrow
<1>e. ASSUME pc # "popWrap"
      PROVE  /\ in \in Buffer
             /\ Contents(in) \in Seq(Byte) /\ Len(Contents(in)) = Available(in)
             /\ readBack \o Contents(in) = Numbers(received)
             /\ Available(in) = received - Len(readBack) /\ Available(in) < Size
             /\ ~IsFull(in)
  <2>1. /\ in \in Buffer
        /\ Contents(in) \in Seq(Byte) /\ Len(Contents(in)) = Available(in)
        /\ Available(in) \in 0 .. Size
        /\ readBack \o Contents(in) = Numbers(received)
    BY <1>a, <1>e, ContentsType, AvailableRange DEF Incoming
  <2>2. Len(readBack) + Available(in) = received
    <3>1. Len(readBack \o Contents(in)) = Len(readBack) + Len(Contents(in))
      BY <1>b, <2>1, ConcatProperties
    <3> QED
      BY <1>b, <1>c, <2>1, <3>1
  <2>3. Available(in) = received - Len(readBack)
    BY <1>a, <1>b, <2>1, <2>2
  <2>4. Available(in) < Size
    BY <2>3 DEF Incoming
  <2> QED
    BY <1>a, <2>1, <2>3, <2>4 DEF Available
<1>1. CASE BeginRead
  BY <1>1 DEF BeginRead, Goto, rxVars, Incoming
<1>2. CASE PopTest
  BY <1>2, <1>e DEF PopTest, rxVars, Incoming
<1>3. CASE PopUnmark
  BY <1>3 DEF PopUnmark, Goto, Incoming
<1>4. CASE PopRead
  <2>1. in \in Buffer /\ ~IsFull(in) /\ Available(in) # 0
    BY <1>4, <1>e DEF PopRead, Goto, Incoming
  <2>2. byte' = Popped(in)
    BY <1>4, <1>a, <2>1, BufferFields DEF PopRead, Popped, Oldest, IsFull, FullMark, Index
  <2>3. byte' = Head(Contents(in))
    BY <2>1, <2>2, PopTakes
  <2> QED
    BY <1>4, <2>3 DEF PopRead, Goto, rxVars, Incoming
<1>5. CASE PopLoad
  BY <1>5 DEF PopLoad, Goto, rxVars, Incoming
<1>6. CASE PopStore
  <2>1. /\ in \in Buffer /\ ~IsFull(in) /\ Available(in) # 0
        /\ Contents(in) \in Seq(Byte) /\ readBack \o Contents(in) = Numbers(received)
        /\ byte = Head(Contents(in)) /\ reg = in.read + 1
    BY <1>6, <1>e DEF PopStore, Goto, Incoming
  <2>2. in' = [read |-> reg, write |-> in.write, data |-> in.data]
    BY <1>6, <1>a DEF PopStore
  <2>3. Wrapped(in') = [read |-> Advance(in.read), write |-> in.write, data |-> in.data]
    <3>1. in.read \in 0 .. Size - 1
      BY <2>1, BufferFields DEF IsFull, FullMark
    <3>2. (IF reg = Size THEN 0 ELSE reg) = Advance(in.read)
      BY <1>a, <2>1, <3>1 DEF Advance
    <3> QED
      BY <2>2, <3>2 DEF Wrapped
  <2>4. Wrapped(in') = Pop(in)
    <3>1. Pop(in) = [in EXCEPT !.read = Advance(in.read)]
      BY <2>1 DEF Pop, Oldest
    <3>2. [in EXCEPT !.read = Advance(in.read)]
            = [read |-> Advance(in.read), write |-> in.write, data |-> in.data]
      BY <1>a
    <3> QED
      BY <2>3, <3>1, <3>2
  <2>5. Contents(Wrapped(in')) = Tail(Contents(in)) /\ Contents(in) # << >>
    BY <2>1, <2>4, PopTakes
  <2>6. readBack \o <<byte>> \o Contents(Wrapped(in')) = Numbers(received)
    BY ZenonT(30), <1>b, <2>1, <2>5, HeadMoves
  <2> QED
    <3>1. ~IsFull(in')
      BY <1>a, <2>1, <2>2, BufferFields DEF IsFull, FullMark
    <3> QED
      BY <1>6, <2>6, <3>1 DEF PopStore, Goto, Incoming
<1>7. CASE PopWrap
  <2>1. in' = Wrapped(in)
    BY <1>7, <1>a DEF PopWrap, Wrapped
  <2>2. readBack' = readBack \o <<byte>> /\ Len(readBack') = Len(readBack) + 1
    BY <1>7, <1>b, AppendIsConcat, AppendProperties DEF PopWrap
  <2>3. received - Len(readBack') < Size
    BY <1>a, <1>b, <2>2 DEF Incoming
  <2> QED
    BY <1>7, <2>1, <2>2, <2>3 DEF PopWrap, Goto, Incoming
<1>8. CASE RxInterrupt
  <2> DEFINE new == received + 1
  <2>1. /\ received < MaxReceived /\ received' = new /\ in' = Push(in, new)
        /\ UNCHANGED <<readBack, pc, reg, byte>>
        /\ received' - Len(readBack) < Size
        /\ new \in Byte /\ Numbers(received') = Append(Numbers(received), new)
    <3>1. /\ received < MaxReceived /\ received' = new /\ in' = Push(in, received')
          /\ UNCHANGED <<readBack, pc, reg, byte>>
          /\ overrun' = (overrun \/ received' - Len(readBack) >= Size)
      BY <1>8 DEF RxInterrupt
    <3>2. ~(received' - Len(readBack) >= Size)
      BY <3>1, Zenon
    <3>3. received' - Len(readBack) < Size
      BY <1>a, <1>b, <3>1, <3>2
    <3> QED
      BY <1>d, <3>1, <3>3
  <2> HIDE DEF new
  <2>2. CASE pc # "popWrap"
    <3>1. Contents(in') = Append(Contents(in), new) /\ in' \in Buffer
      BY <1>e, <2>1, <2>2, PushAppends, PushType
    <3>2. readBack \o Contents(in') = Numbers(received')
      BY <1>b, <1>e, <2>1, <2>2, <3>1, AppendBehind
    <3>3. Available(in') # 0 /\ Available(in') = Available(in) + 1
      <4>1. Len(Contents(in')) = Len(Contents(in)) + 1 /\ Len(Contents(in)) \in Nat
        BY <1>e, <2>1, <2>2, <3>1, AppendProperties, LenProperties
      <4> QED
        BY <1>e, <2>2, <3>1, <4>1, ContentsType
    <3>4. ASSUME Available(in) # 0
          PROVE  Head(Contents(in')) = Head(Contents(in))
      <4>1. Contents(in) # << >>
        BY <1>e, <2>2, <3>4
      <4> QED
        BY <1>e, <2>1, <2>2, <3>1, <4>1, HeadTailAppend
    <3>5. in'.read = in.read
      <4>1. Available(in') < Size
        BY <1>a, <1>b, <1>e, <2>1, <2>2, <3>3 DEF new
      <4>2. ~IsFull(in')
        BY <4>1, <1>a DEF Available
      <4>3. in'.read = IF Advance(in.write) = in.read THEN FullMark ELSE in.read
        BY <1>e, <2>1, <2>2 DEF Push, Oldest
      <4> QED
        BY <4>2, <4>3 DEF IsFull
    <3> QED
      BY <2>1, <2>2, <3>2, <3>3, <3>4, <3>5 DEF Incoming
  <2>3. CASE pc = "popWrap"
    <3>1. in.read \in 0 .. Size
      BY <1>a, <2>3 DEF Incoming, IsFull, FullMark
    <3>2. Wrapped(in) \in Buffer
      BY <1>a, <3>1, WrappedIsBuffer
    <3>3. /\ Contents(Wrapped(in)) \in Seq(Byte)
          /\ Len(Contents(Wrapped(in))) = Available(Wrapped(in))
          /\ Available(Wrapped(in)) \in Nat
      BY <1>a, <3>2, ContentsType, AvailableRange
    <3>4. /\ readBack \o <<byte>> \in Seq(Byte)
          /\ Len(readBack \o <<byte>>) = Len(readBack) + 1
          /\ (readBack \o <<byte>>) \o Contents(Wrapped(in)) = Numbers(received)
      BY <1>b, <2>3, ConcatProperties DEF Incoming
    <3>5. Len(readBack) + 1 + Available(Wrapped(in)) = received
      BY <1>b, <1>c, <3>3, <3>4, ConcatProperties
    <3>6. Available(Wrapped(in)) < Size - 1
      BY SMTT(30), <1>a, <1>b, <2>1, <3>3, <3>5 DEF new
    <3>7. Wrapped(in') = Push(Wrapped(in), new)
      BY <1>a, <2>1, <3>1, <3>6, PushedBeforeWrap
    <3>8. Contents(Wrapped(in')) = Append(Contents(Wrapped(in)), new)
      BY <1>a, <2>1, <3>2, <3>3, <3>6, <3>7, PushAppends
    <3>9. (readBack \o <<byte>>) \o Contents(Wrapped(in')) = Numbers(received')
      BY <2>1, <3>3, <3>4, <3>8, AppendBehind
    <3>10. ~IsFull(in')
      <4>1. in'.read = IF Advance(in.write) = Oldest(in) THEN FullMark ELSE Oldest(in)
        BY <2>1 DEF Push
      <4>2. Oldest(in) = in.read /\ Advance(in.write) # in.read
        <5>1. Oldest(in) = in.read
          BY <2>3 DEF Incoming, Oldest
        <5>2. Advance(in.write) # in.read
          BY <1>a, <2>1, <3>1, <3>6, PushedBeforeWrap
        <5> QED
          BY <5>1, <5>2
      <4> QED
        BY <3>1, <4>1, <4>2 DEF IsFull, FullMark
    <3> QED
      BY <2>1, <2>3, <3>9, <3>10 DEF Incoming
  <2> QED
    BY <2>2, <2>3
<1>9. CASE Write \/ FinishWrite
  <2>1. /\ UNCHANGED rxVars /\ pc \notin ReadPcs /\ pc' \notin ReadPcs
    BY <1>9 DEF Write, WriteToRegister, WriteToEmptyBuffer, WriteToNonEmptyBuffer, FinishWrite,
                SpaceSeen, PushStore, PushWrap, PushCompare, PushMark, Goto, ReadPcs
  <2> QED
    BY <2>1 DEF rxVars, ReadPcs, Incoming
<1>10. CASE UdreInterrupt
  BY <1>10 DEF UdreInterrupt, rxVars, Incoming
<1>11. CASE Transmit
  BY <1>11 DEF Transmit, rxVars, Incoming
<1> QED
  BY <1>1, <1>2, <1>3, <1>4, <1>5, <1>6, <1>7, <1>8, <1>9, <1>10, <1>11 DEF Next, Read

-----------------------------------------------------------------------------
(* Nothing is lost.                                                         *)

\* The invariant holds of the first state.
LEMMA InitInvariant == Init => IInv
<1> SUFFICES ASSUME Init
             PROVE  IInv
  OBVIOUS
<1>1. TypeOK /\ Positions
  BY InitTypes
<1>2. in \in Buffer /\ out \in Buffer
  BY <1>1, Settled DEF Init
<1>3. Contents(in) = << >> /\ Contents(out) = << >>
  BY <1>2, EmptyAndFull DEF Init, IsEmpty
<1>4. Numbers(0) = << >>
  BY DEF Numbers
<1>5. << >> \o << >> = << >> /\ << >> \o << >> \o << >> = << >>
  OBVIOUS
<1>6. Outgoing
  BY <1>3, <1>4, <1>5 DEF Init, Outgoing, InRegister, WritePcs
<1>7. Incoming
  BY <1>3, <1>4, <1>5, SizeAssumption DEF Init, Incoming
<1> QED
  BY <1>1, <1>6, <1>7 DEF IInv

\* No step breaks the invariant.
LEMMA NextInvariant == IInv /\ [Next]_vars => IInv'
<1> SUFFICES ASSUME IInv, [Next]_vars
             PROVE  IInv'
  OBVIOUS
<1>1. TypeOK' /\ Positions'
  BY NextTypes DEF IInv
<1>2. CASE Next
  <2>1. (overrun => overrun') /\ lapses \subseteq lapses'
    BY <1>2 DEF Next, Write, WriteToRegister, WriteToEmptyBuffer, WriteToNonEmptyBuffer,
       FinishWrite, SpaceSeen, PushStore, PushWrap, PushCompare, PushMark,
       Read, BeginRead, PopTest, PopUnmark, PopRead, PopLoad, PopStore, PopWrap,
       RxInterrupt, UdreInterrupt, Lapse, Transmit, txVars, rxVars, lineVars, IInv, TypeOK
  <2>2. "sentEarly" \notin lapses' => Outgoing'
    BY <1>1, <1>2, <2>1, OutgoingStep DEF IInv
  <2>3. ~overrun' => Incoming'
    BY <1>1, <1>2, <2>1, IncomingStep DEF IInv
  <2> QED
    BY <1>1, <2>2, <2>3 DEF IInv
<1>3. CASE UNCHANGED vars
  <2>1. Outgoing => Outgoing'
    BY <1>3 DEF vars, txVars, rxVars, lineVars, Outgoing, InRegister, WritePcs
  <2>2. Incoming => Incoming'
    BY <1>3 DEF vars, txVars, rxVars, lineVars, Incoming
  <2>3. lapses' = lapses /\ overrun' = overrun
    BY <1>3 DEF vars, txVars, rxVars
  <2> QED
    BY <1>1, <2>1, <2>2, <2>3 DEF IInv
<1> QED
  BY <1>2, <1>3

-----------------------------------------------------------------------------
(* The threads of the TCP stream.  A live reader is the one that the polling *)
(* thread is waiting for, so whenever that thread is anywhere else there is  *)
(* none.                                                                     *)

\* The socket and the polling thread belong to the reader that runs.
ReaderOwns ==
  /\ \A c \in Clients : Tcp!Live(c) => /\ clientSocket = c
                                       /\ polling = "join"
                                       /\ clientThread = c
  /\ clientSocket # NoClient => Tcp!Live(clientSocket)

\* A thread is only waited for when there is one, and only once polling began.
JoinHasThread ==
  /\ polling = "join" => clientThread # NoClient
  /\ owner = "opened" => polling = "notStarted"

\* How far closing has come tells what has been done.
CloseOrder ==
  /\ closer # "none" => ~keepListening
  /\ closer = "none" => quitter = NoClient
  /\ closer \in {"free", "freed"} => polling = "done"
  /\ quitter # NoClient => reader[quitter] = "closing"

Refusals == \A c \in Clients : host[c] = "refused" => ~keepListening

TcpInv == Tcp!TypeOK /\ ReaderOwns /\ JoinHasThread /\ CloseOrder /\ Refusals

\* The invariant holds when the stream has been opened.
LEMMA TcpStarts == Tcp!Init => TcpInv
BY InputAssumption
  DEF Tcp!ClientsAssumption, Tcp!Init, TcpInv, Tcp!TypeOK, ReaderOwns, JoinHasThread,
      CloseOrder, Refusals, Tcp!Live

\* Every step preserves it.
LEMMA TcpKeeps == TcpInv /\ [Tcp!Next]_(Tcp!vars) => TcpInv'
<1> SUFFICES ASSUME TcpInv, [Tcp!Next]_(Tcp!vars)
             PROVE  TcpInv'
  OBVIOUS
<1> USE InputAssumption
  DEF Tcp!ClientsAssumption, TcpInv, Tcp!TypeOK, ReaderOwns, JoinHasThread, CloseOrder,
      Refusals, Tcp!Live
<1>1. ASSUME NEW c \in Clients, Tcp!Connect(c)
      PROVE  TcpInv'
  BY <1>1 DEF Tcp!Connect, Tcp!pollVars, Tcp!closeVars
<1>2. ASSUME NEW c \in Clients, Tcp!Disconnect(c)
      PROVE  TcpInv'
  BY <1>2 DEF Tcp!Disconnect, Tcp!pollVars, Tcp!closeVars
<1>3. CASE Tcp!PollTest
  BY <1>3 DEF Tcp!PollTest, Tcp!sockets, Tcp!closeVars
<1>4. ASSUME NEW c \in Clients, Tcp!Accept(c)
      PROVE  TcpInv'
  BY <1>4 DEF Tcp!Accept, Tcp!closeVars
<1>5. CASE Tcp!AcceptFails
  BY <1>5 DEF Tcp!AcceptFails, Tcp!sockets, Tcp!closeVars
<1>6. CASE Tcp!Serve
  BY <1>6 DEF Tcp!Serve, Tcp!closeVars
<1>7. CASE Tcp!JoinReader
  BY <1>7 DEF Tcp!JoinReader, Tcp!sockets, Tcp!closeVars
<1>8. CASE Tcp!JoinDestroyed
  BY <1>8 DEF Tcp!JoinDestroyed, Tcp!sockets, Tcp!pollVars, Tcp!closeVars
<1>9. ASSUME NEW c \in Clients, Tcp!Read(c)
      PROVE  TcpInv'
  <2>1. CASE Tcp!Receive(c)
    BY <2>1 DEF Tcp!Receive, Tcp!ReaderGoes, Tcp!sockets, Tcp!pollVars, Tcp!closeVars
  <2>2. CASE Tcp!ReceiveEnds(c)
    BY <2>2 DEF Tcp!ReceiveEnds, Tcp!ReaderGoes, Tcp!sockets, Tcp!pollVars, Tcp!closeVars
  <2>3. CASE Tcp!Handle(c)
    BY <2>3 DEF Tcp!Handle, Tcp!ReaderGoes, Tcp!sockets, Tcp!pollVars, Tcp!closeVars
  <2>4. CASE Tcp!HandleQuit(c)
    BY <2>4, ZenonT(40) DEF Tcp!HandleQuit, Tcp!ReaderGoes, Tcp!sockets, Tcp!pollVars
  <2>5. CASE Tcp!CloseSocket(c)
    BY <2>5 DEF Tcp!CloseSocket, Tcp!ReaderGoes, Tcp!sockets, Tcp!pollVars, Tcp!closeVars
  <2>6. CASE Tcp!ClearSocket(c)
    BY <2>6 DEF Tcp!ClearSocket, Tcp!ReaderGoes, Tcp!pollVars, Tcp!closeVars
  <2> QED
    BY <1>9, <2>1, <2>2, <2>3, <2>4, <2>5, <2>6 DEF Tcp!Read
<1>10. CASE Tcp!StartPolling
  BY <1>10 DEF Tcp!StartPolling, Tcp!sockets
<1>11. CASE Tcp!StartJoin
  BY <1>11 DEF Tcp!StartJoin, Tcp!sockets, Tcp!pollVars
<1>12. CASE Tcp!Join
  BY <1>12 DEF Tcp!Join, Tcp!sockets, Tcp!pollVars
<1>13. CASE Tcp!StartClose
  BY <1>13, ZenonT(40) DEF Tcp!StartClose, Tcp!sockets, Tcp!pollVars
<1>14. CASE Tcp!ShutListener
  <2>1. ~keepListening /\ UNCHANGED <<Tcp!pollVars, clientSocket, keepListening, owner, quitter, reader>>
    BY <1>14 DEF Tcp!ShutListener
  <2>2. listening' = FALSE /\ closer' = "shutClient" /\ UNCHANGED undefined
    BY <1>14 DEF Tcp!ShutListener
  <2>3. host' \in [Clients -> {"away", "waiting", "connected", "finished", "refused", "gone"}]
    BY <1>14 DEF Tcp!ShutListener
  <2>4. Tcp!TypeOK'
    BY <2>1, <2>2, <2>3, ZenonT(40) DEF Tcp!pollVars
  <2>5. ReaderOwns' /\ JoinHasThread' /\ CloseOrder'
    BY <1>14, <2>1, <2>2 DEF Tcp!ShutListener, Tcp!pollVars
  <2>6. Refusals'
    BY <2>1
  <2> QED
    BY <2>4, <2>5, <2>6
<1>15. CASE Tcp!ShutClient
  BY <1>15 DEF Tcp!ShutClient, Tcp!pollVars
<1>16. CASE Tcp!CloseJoins
  BY <1>16 DEF Tcp!CloseJoins, Tcp!sockets, Tcp!pollVars
<1>17. CASE Tcp!Free
  BY <1>17 DEF Tcp!Free, Tcp!sockets, Tcp!pollVars
<1>18. CASE Tcp!OtherCloses
  BY <1>18, ZenonT(40) DEF Tcp!OtherCloses, Tcp!sockets, Tcp!pollVars
<1>19. CASE Tcp!JoinTwice
  BY <1>19 DEF Tcp!JoinTwice, Tcp!sockets, Tcp!pollVars, Tcp!closeVars
<1>20. CASE UNCHANGED Tcp!vars
  BY <1>20 DEF Tcp!vars, Tcp!sockets, Tcp!pollVars, Tcp!closeVars
<1> QED
  BY <1>1, <1>2, <1>3, <1>4, <1>5, <1>6, <1>7, <1>8, <1>9, <1>10, <1>11, <1>12, <1>13,
     <1>14, <1>15, <1>16, <1>17, <1>18, <1>19, <1>20 DEF Tcp!Next, Tcp!Poll, Tcp!Own, Tcp!Close

-----------------------------------------------------------------------------
(* The two together.                                                        *)

StreamsInv == IInv /\ TcpInv

\* A step of the whole is one of each stream or leaves it as it is.
LEMMA EachRuns ==
  ASSUME [MCNext]_allVars
  PROVE  [Next]_vars /\ [Tcp!Next]_(Tcp!vars)
<1>1. UNCHANGED tcpVars => UNCHANGED Tcp!vars
  BY DEF tcpVars, Tcp!vars, Tcp!sockets, Tcp!pollVars, Tcp!closeVars
<1> QED
  BY <1>1 DEF MCNext, allVars

\* The invariant holds in every reachable state: what has been done of a push or
\* of a pop, at each of its steps, accounts for every byte, and the socket and
\* the threads belong together at each step of serving and closing
\* (sq_stream_embedded_serial.c:66-184, sq_stream_tcp.c:108-215).
THEOREM StreamsInvariance == MCSpec => []StreamsInv
<1>1. MCInit => StreamsInv
  BY InitInvariant, TcpStarts DEF MCInit, StreamsInv
<1>2. StreamsInv /\ [MCNext]_allVars => StreamsInv'
  BY EachRuns, NextInvariant, TcpKeeps DEF StreamsInv
<1> QED
  BY <1>1, <1>2, PTL DEF MCSpec

\* The variables always have their types: no position ever leaves the storage,
\* whatever the interrupts do in the middle of a push or a pop, and whoever
\* connects and whenever (sq_circularbuffer.c:68-104,
\* sq_stream_embedded_serial.c:66-184, sq_stream_tcp.c:108-215).
THEOREM TypesKept == MCSpec => []TypesOK
<1>1. StreamsInv => TypesOK
  BY DEF StreamsInv, IInv, TcpInv, TypesOK
<1> QED
  BY <1>1, StreamsInvariance, PTL

\* No byte is lost between the main loop and the interrupts, for every size of
\* the buffers, however many bytes are written and received, as long as the byte
\* being pushed is not sent early and the host leaves no more bytes unread than
\* fit (sq_stream_embedded_serial.c:120-184).
THEOREM NothingIsEverLost == MCSpec => []NothingIsLost
<1>1. StreamsInv => NothingIsLost
  BY DEF StreamsInv, IInv, Outgoing, Incoming, NothingIsLost, WritePcs, ReadPcs
<1> QED
  BY <1>1, StreamsInvariance, PTL

\* There is never more than one reader, the client socket is its own, and nobody
\* is refused by a stream that is open (sq_stream_tcp.c:158-181).
THEOREM ServedInTurn == MCSpec => []OneAtATime
<1>1. StreamsInv => OneAtATime
  BY DEF StreamsInv, TcpInv, ReaderOwns, Refusals, OneAtATime, Tcp!OneAtATime
<1> QED
  BY <1>1, StreamsInvariance, PTL

\* Nothing runs on a stream that has been freed (sq_stream_tcp.c:177-181, 199-215).
THEOREM NoUseAfterFree == MCSpec => []FreedIsUnused
<1>1. StreamsInv => FreedIsUnused
  BY InputAssumption
     DEF Tcp!ClientsAssumption, StreamsInv, TcpInv, Tcp!TypeOK, ReaderOwns, CloseOrder,
         Tcp!Live, FreedIsUnused, Tcp!FreedIsUnused
<1> QED
  BY <1>1, StreamsInvariance, PTL

=============================================================================
