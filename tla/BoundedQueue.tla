---------------------------- MODULE BoundedQueue ----------------------------
(***************************************************************************)
(* What server/c/src/sq_circularbuffer.c promises to the streams that use  *)
(* it: a first-in first-out queue of at most Capacity bytes.  A byte put   *)
(* into a full queue is never refused: it replaces everything the queue    *)
(* held.  That is the overflow behaviour the receive interrupt of          *)
(* sq_stream_embedded_serial.c relies on, since it pushes unconditionally. *)
(***************************************************************************)
EXTENDS Naturals, Sequences

CONSTANTS
  Capacity,  \* the most bytes the queue can hold
  Byte,      \* the values a byte can take
  NoByte     \* what a reader holds before it has taken anything

VARIABLES
  items,     \* the bytes put and not yet taken, oldest first
  got        \* the last byte taken

vars == <<items, got>>

Init ==
  /\ items = << >>
  /\ got = NoByte

Put(v) ==
  /\ Len(items) < Capacity
  /\ items' = Append(items, v)
  /\ UNCHANGED got

Overflow(v) ==
  /\ Len(items) = Capacity
  /\ items' = <<v>>
  /\ UNCHANGED got

Take ==
  /\ items # << >>
  /\ got' = Head(items)
  /\ items' = Tail(items)

Next ==
  \/ \E v \in Byte : Put(v) \/ Overflow(v)
  \/ Take

Spec == Init /\ [][Next]_vars

=============================================================================
