------------------------- MODULE CircularBufferLemmas -------------------------
(***************************************************************************)
(* What the operators of CircularBufferOps do to the contents of a buffer  *)
(* of any size, over any set of bytes.                                     *)
(***************************************************************************)
EXTENDS CircularBufferOps, SequenceTheorems, TLAPS

\* What it is to be a buffer, as plain facts about its fields.
LEMMA BufferFields ==
  ASSUME NEW b \in Buffer
  PROVE  /\ b.read \in -1 .. Size - 1
         /\ b.write \in 0 .. Size - 1
         /\ b.data \in [0 .. Size - 1 -> Byte]
         /\ Size \in Nat \ {0}
BY SizeAssumption DEF Buffer, Index, FullMark

\* The number of bytes available lies between none and the size.
LEMMA AvailableRange ==
  ASSUME NEW b \in Buffer
  PROVE  Available(b) \in 0 .. Size
BY BufferFields DEF Available, IsFull, FullMark

\* The contents are a sequence of as many bytes as are available.
LEMMA ContentsType ==
  ASSUME NEW b \in Buffer
  PROVE  /\ Contents(b) \in Seq(Byte)
         /\ Len(Contents(b)) = Available(b)
<1>1. Available(b) \in Nat /\ Available(b) <= Size
  BY AvailableRange, BufferFields
<1>2. ASSUME NEW i \in 1 .. Available(b)
      PROVE  Contents(b)[i] \in Byte
  <2>1. Oldest(b) \in 0 .. Size - 1
    BY BufferFields DEF Oldest, IsFull, FullMark
  <2> DEFINE at == Oldest(b) + i - 1
  <2>2. (IF at >= Size THEN at - Size ELSE at) \in 0 .. Size - 1
    BY <1>1, <2>1, BufferFields
  <2>3. Contents(b)[i] = b.data[IF at >= Size THEN at - Size ELSE at]
    BY DEF Contents
  <2> QED
    BY <2>2, <2>3, BufferFields
<1>3. Contents(b) \in [1 .. Available(b) -> Byte]
  BY <1>2 DEF Contents
<1> QED
  BY <1>1, <1>3

\* Push leaves a well-formed buffer.
LEMMA PushType ==
  ASSUME NEW b \in Buffer, NEW v \in Byte
  PROVE  Push(b, v) \in Buffer
BY BufferFields DEF Push, Buffer, Index, FullMark, Advance, Oldest, IsFull

\* Pop leaves a well-formed buffer and returns one of its bytes.
LEMMA PopType ==
  ASSUME NEW b \in Buffer
  PROVE  Pop(b) \in Buffer /\ Popped(b) \in Byte
BY BufferFields DEF Pop, Popped, Buffer, Index, FullMark, Advance, Oldest, IsFull

-----------------------------------------------------------------------------
\* A push onto a buffer with room appends to the contents.
LEMMA PushAppends ==
  ASSUME NEW b \in Buffer, NEW v \in Byte, Available(b) < Size
  PROVE  Contents(Push(b, v)) = Append(Contents(b), v)
<1> DEFINE p == Push(b, v)
<1>1. p \in Buffer
  BY PushType
<1>2. /\ Contents(b) \in Seq(Byte) /\ Len(Contents(b)) = Available(b)
      /\ Contents(p) \in Seq(Byte) /\ Len(Contents(p)) = Available(p)
  BY <1>1, ContentsType
<1>3. b.read # FullMark
  BY BufferFields DEF Available, IsFull
<1>4. /\ p.read = IF Advance(b.write) = b.read THEN FullMark ELSE b.read
      /\ p.write = Advance(b.write)
      /\ p.data = [b.data EXCEPT ![b.write] = v]
  BY <1>3 DEF Push, Oldest, IsFull
<1> HIDE DEF p
<1>5. Available(p) = Available(b) + 1 /\ Oldest(p) = b.read /\ Oldest(b) = b.read
  <2>1. Oldest(b) = b.read
    BY <1>3 DEF Oldest, IsFull
  <2>2. CASE Advance(b.write) = b.read
    <3>1. p.read = -1 /\ p.write = b.read
      BY <1>4, <2>2 DEF FullMark
    <3>2. Available(b) = Size - 1
      BY <1>3, <2>2, BufferFields DEF Available, IsFull, Advance, FullMark
    <3> QED
      BY <2>1, <3>1, <3>2, BufferFields DEF Available, Oldest, IsFull, FullMark
  <2>3. CASE Advance(b.write) # b.read
    <3>1. p.read = b.read /\ p.write = Advance(b.write)
      BY <1>4, <2>3
    <3>2. Oldest(p) = b.read
      BY <1>3, <3>1 DEF Oldest, IsFull
    <3>3. CASE b.read > b.write
      BY <1>3, <2>1, <2>3, <3>1, <3>2, <3>3, BufferFields, SMTT(30)
        DEF Available, IsFull, Advance, FullMark
    <3>4. CASE ~(b.read > b.write)
      <4>1. CASE b.write + 1 >= Size
        BY <1>3, <2>1, <2>3, <3>1, <3>2, <3>4, <4>1, BufferFields
          DEF Available, IsFull, Advance, FullMark
      <4>2. CASE ~(b.write + 1 >= Size)
        BY <1>3, <2>1, <2>3, <3>1, <3>2, <3>4, <4>2, BufferFields
          DEF Available, IsFull, Advance, FullMark
      <4> QED
        BY <4>1, <4>2
    <3> QED
      BY <3>3, <3>4
  <2> QED
    BY <2>2, <2>3
<1>6. ASSUME NEW i \in 1 .. Available(p)
      PROVE  Contents(p)[i] = Append(Contents(b), v)[i]
  <2> DEFINE at == b.read + i - 1
             slot == IF at >= Size THEN at - Size ELSE at
  <2>1. Contents(p)[i] = p.data[slot]
    BY <1>5 DEF Contents
  <2>2. CASE i = Available(b) + 1
    <3>1. slot = b.write
      <4>1. CASE b.read > b.write
        <5>1. Available(b) = Size - b.read + b.write
          BY <1>3, <4>1 DEF Available, IsFull
        <5>2. at = Size + b.write
          BY <2>2, <5>1, BufferFields, SMTT(30)
        <5> QED
          BY <5>2, BufferFields
      <4>2. CASE ~(b.read > b.write)
        <5>1. Available(b) = b.write - b.read
          BY <1>3, <4>2 DEF Available, IsFull
        <5>2. at = b.write
          BY <2>2, <5>1, BufferFields DEF FullMark
        <5> QED
          BY <5>2, BufferFields
      <4> QED
        BY <4>1, <4>2
    <3>2. Append(Contents(b), v)[i] = v
      BY <1>2, <2>2, AppendProperties
    <3> QED
      BY <1>4, <2>1, <3>1, <3>2, BufferFields
  <2>3. CASE i # Available(b) + 1
    <3>1. i \in 1 .. Available(b)
      BY <1>5, <2>3, AvailableRange, BufferFields
    <3>2. slot # b.write /\ slot \in 0 .. Size - 1
      BY <1>3, <3>1, BufferFields, SMTT(30) DEF Available, IsFull, FullMark
    <3>3. Contents(b)[i] = b.data[slot]
      BY <1>5, <3>1 DEF Contents
    <3>4. Append(Contents(b), v)[i] = Contents(b)[i]
      BY <1>2, <3>1, AppendProperties
    <3> QED
      BY <1>4, <2>1, <3>2, <3>3, <3>4, BufferFields
  <2> QED
    BY <2>2, <2>3
<1>7. /\ Append(Contents(b), v) \in Seq(Byte)
      /\ Len(Append(Contents(b), v)) = Available(p)
  BY <1>2, <1>5, AppendProperties
<1> QED
  BY <1>2, <1>6, <1>7, SeqEqual DEF p

\* A push onto a full buffer leaves the new byte alone.
LEMMA PushOverflows ==
  ASSUME NEW b \in Buffer, NEW v \in Byte, Available(b) = Size
  PROVE  Contents(Push(b, v)) = <<v>>
<1> DEFINE p == Push(b, v)
<1>1. Contents(p) \in Seq(Byte) /\ Len(Contents(p)) = Available(p)
  BY PushType, ContentsType
<1>2. b.read = FullMark
  BY BufferFields DEF Available, IsFull, FullMark
<1>3. /\ p.read = IF Advance(b.write) = b.write THEN FullMark ELSE b.write
      /\ p.write = Advance(b.write)
      /\ p.data = [b.data EXCEPT ![b.write] = v]
  BY <1>2 DEF Push, Oldest, IsFull
<1> HIDE DEF p
<1>4. Available(p) = 1 /\ Oldest(p) = b.write
  BY <1>3, BufferFields DEF Available, Oldest, IsFull, Advance, FullMark
<1>5. Contents(p)[1] = v
  <2>1. Contents(p)[1] = p.data[b.write]
    BY <1>4, BufferFields DEF Contents
  <2> QED
    BY <1>3, <2>1, BufferFields
<1> QED
  BY <1>1, <1>4, <1>5 DEF p

\* A pop returns the head of the contents and leaves the tail.
LEMMA PopTakes ==
  ASSUME NEW b \in Buffer, Available(b) # 0
  PROVE  /\ Contents(b) # << >>
         /\ Popped(b) = Head(Contents(b))
         /\ Contents(Pop(b)) = Tail(Contents(b))
<1> DEFINE p == Pop(b)
<1>1. p \in Buffer
  BY PopType
<1>2. /\ Contents(b) \in Seq(Byte) /\ Len(Contents(b)) = Available(b)
      /\ Contents(p) \in Seq(Byte) /\ Len(Contents(p)) = Available(p)
  BY <1>1, ContentsType
<1>3. Available(b) \in 1 .. Size
  BY AvailableRange, BufferFields
<1>4. Contents(b) # << >>
  BY <1>2, <1>3
<1>5. Popped(b) = Head(Contents(b))
  <2>1. Oldest(b) \in 0 .. Size - 1
    BY BufferFields DEF Oldest, IsFull, FullMark
  <2>2. Contents(b)[1] = b.data[Oldest(b)]
    BY <1>3, <2>1, BufferFields DEF Contents
  <2> QED
    BY <1>2, <1>4, <2>2 DEF Popped
<1>6. p.read = Advance(Oldest(b)) /\ p.write = b.write /\ p.data = b.data
  BY BufferFields DEF Pop, Buffer
<1> HIDE DEF p
<1>7. Available(p) = Available(b) - 1 /\ Oldest(p) = Advance(Oldest(b))
  <2>1. Advance(Oldest(b)) \in 0 .. Size - 1
    BY BufferFields DEF Oldest, IsFull, FullMark, Advance
  <2>2. Oldest(p) = Advance(Oldest(b)) /\ ~IsFull(p)
    BY <1>6, <2>1, BufferFields DEF Oldest, IsFull, FullMark
  <2>3. CASE IsFull(b)
    <3>1. Oldest(b) = b.write /\ Available(b) = Size
      BY <2>3 DEF Oldest, Available
    <3> QED
      BY <1>6, <2>2, <3>1, BufferFields DEF Available, Advance
  <2>4. CASE ~IsFull(b)
    <3>1. Oldest(b) = b.read /\ b.read \in 0 .. Size - 1 /\ b.read # b.write
      BY <1>3, <2>4, BufferFields DEF Oldest, Available, IsFull, FullMark
    <3> QED
      BY <1>6, <2>2, <2>4, <3>1, BufferFields DEF Available, Advance
  <2> QED
    BY <2>2, <2>3, <2>4
<1>8. ASSUME NEW i \in 1 .. Available(p)
      PROVE  Contents(p)[i] = Tail(Contents(b))[i]
  <2> DEFINE at == Oldest(p) + i - 1
             slot == IF at >= Size THEN at - Size ELSE at
             from == Oldest(b) + (i + 1) - 1
  <2>1. Contents(p)[i] = b.data[slot]
    BY <1>6 DEF Contents
  <2>2. i + 1 \in 1 .. Available(b)
    BY <1>3, <1>7
  <2>3. Contents(b)[i + 1] = b.data[IF from >= Size THEN from - Size ELSE from]
    BY <2>2 DEF Contents
  <2>4. slot = IF from >= Size THEN from - Size ELSE from
    <3>1. Oldest(b) \in 0 .. Size - 1 /\ i \in 1 .. Size - 1
      BY <1>3, <2>2, BufferFields DEF Oldest, IsFull, FullMark
    <3>2. CASE Oldest(b) + 1 >= Size
      BY <1>7, <3>1, <3>2, BufferFields DEF Advance
    <3>3. CASE ~(Oldest(b) + 1 >= Size)
      BY <1>7, <3>1, <3>3, BufferFields DEF Advance
    <3> QED
      BY <3>2, <3>3
  <2>5. Tail(Contents(b))[i] = Contents(b)[i + 1]
    BY <1>2, <1>3, <1>4, <1>7, HeadTailProperties
  <2> QED
    BY <2>1, <2>3, <2>4, <2>5
<1>9. Tail(Contents(b)) \in Seq(Byte) /\ Len(Tail(Contents(b))) = Available(p)
  BY <1>2, <1>4, <1>7, HeadTailProperties
<1>10. Contents(p) = Tail(Contents(b))
  BY <1>2, <1>8, <1>9, SeqEqual
<1> QED
  BY <1>4, <1>5, <1>10 DEF p

=============================================================================
