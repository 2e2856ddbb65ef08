------------------------- MODULE CircularBufferOps --------------------------
(***************************************************************************)
(* The functions of server/c/src/sq_circularbuffer.c as operators on one   *)
(* buffer, a record of the struct's two positions and its storage.  The    *)
(* read position -1 marks a full buffer: with both positions equal the     *)
(* buffer is empty.                                                        *)
(***************************************************************************)
EXTENDS Integers, Sequences

CONSTANTS
  Size,      \* m_size, the parm_size of SQ_CIRCULAR_BUFFER_DEFINE
  Byte       \* the values an SQByte can take

ASSUME SizeAssumption == Size \in Nat \ {0}

Index == 0 .. Size - 1
FullMark == -1

Buffer == [read : Index \cup {FullMark}, write : Index, data : [Index -> Byte]]

\* SQ_CIRCULAR_BUFFER_INIT sets the positions; the storage comes from malloc.
Cleared(b) == b.read = 0 /\ b.write = 0

IsFull(b) == b.read = FullMark

IsEmpty(b) == b.read = b.write

Available(b) ==
  IF IsFull(b) THEN Size
  ELSE IF b.read > b.write THEN Size - b.read + b.write
  ELSE b.write - b.read

\* Mutant of Advance: the position wraps one step late.
AdvanceLate(i) == IF i + 1 > Size THEN 0 ELSE i + 1

\* A position steps by one and returns to 0 at the end of the storage.
Advance(i) == IF i + 1 >= Size THEN 0 ELSE i + 1

\* Push and pop both begin by replacing the full mark with a position.
Oldest(b) == IF IsFull(b) THEN b.write ELSE b.read

\* Mutant of Push: the full mark is never set.
PushUnmarked(b, v) ==
  [read  |-> Oldest(b),
   write |-> Advance(b.write),
   data  |-> [b.data EXCEPT ![b.write] = v]]

Push(b, v) ==
  LET next == Advance(b.write)
  IN  [read  |-> IF next = Oldest(b) THEN FullMark ELSE Oldest(b),
       write |-> next,
       data  |-> [b.data EXCEPT ![b.write] = v]]

Popped(b) == b.data[Oldest(b)]

Pop(b) == [b EXCEPT !.read = Advance(Oldest(b))]

\* The bytes a reader would pop from b, oldest first.
Contents(b) ==
  [i \in 1 .. Available(b) |->
     LET at == Oldest(b) + i - 1
     IN  b.data[IF at >= Size THEN at - Size ELSE at]]

=============================================================================
