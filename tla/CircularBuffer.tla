--------------------------- MODULE CircularBuffer ---------------------------
(***************************************************************************)
(* One circular buffer used by one caller at a time: pushes at any moment, *)
(* pops only after the caller has seen that a byte is available, which is  *)
(* how every caller of SQ_CIRCULAR_BUFFER_POP uses it.  Concurrent callers *)
(* are the subject of EmbeddedSerial.                                      *)
(***************************************************************************)
EXTENDS CircularBufferOps

CONSTANT NoByte

VARIABLES
  buffer,    \* the struct defined by SQ_CIRCULAR_BUFFER_DEFINE
  got        \* the value the last pop returned

vars == <<buffer, got>>

\* The type of the variables.
TypeOK ==
  /\ buffer \in Buffer
  /\ got \in Byte \cup {NoByte}

Init ==
  /\ buffer \in Buffer
  /\ Cleared(buffer)
  /\ got = NoByte

PushByte(v) ==
  /\ buffer' = Push(buffer, v)
  /\ UNCHANGED got

PopByte ==
  /\ Available(buffer) # 0
  /\ got' = Popped(buffer)
  /\ buffer' = Pop(buffer)

Next ==
  \/ \E v \in Byte : PushByte(v)
  \/ PopByte

Spec == Init /\ [][Next]_vars

-----------------------------------------------------------------------------
\* The three observers never contradict each other: EMPTY is reported exactly
\* when AVAILABLE is 0 and FULL exactly when AVAILABLE is the size, so the
\* write path, which tests EMPTY and FULL, and the interrupt, which tests
\* AVAILABLE, agree on the state of the buffer (sq_circularbuffer.c:27-66).
ObserversAgree ==
  /\ IsEmpty(buffer) <=> Available(buffer) = 0
  /\ IsFull(buffer) <=> Available(buffer) = Size
  /\ Available(buffer) \in 0 .. Size

Queue == INSTANCE BoundedQueue WITH Capacity <- Size, items <- Contents(buffer)

\* The ring of positions and storage is a first-in first-out queue of Size
\* bytes in which an overflow keeps only the newest byte.
RefinesQueue == Queue!Spec

=============================================================================
