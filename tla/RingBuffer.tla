----------------------------- MODULE RingBuffer -----------------------------
(***************************************************************************)
(* The ring buffers of the core: size slots, a head where the next byte is *)
(* stored and a tail where the oldest one is read; equal indices mean      *)
(* empty, so one slot always stays unused.                                 *)
(***************************************************************************)
EXTENDS Integers, Sequences

Sizes == Nat \ {0, 1}
Slots(size) == 0..size-1
Buffers(size) == [Slots(size) -> Nat]

Succ(i, size) == (i + 1) % size           \* & (SIZE - 1): a power of two

(* May a byte be stored, next being the slot after the head? *)
HasRoomAlways(next, tail) == TRUE
HasRoom(next, tail) == next # tail

(* The number of bytes held, and the bytes, oldest first. *)
Count(head, tail, size) == (size + head - tail) % size
Ring(buf, head, tail, size) ==
    [k \in 1..Count(head, tail, size) |-> buf[(tail + k - 1) % size]]
=============================================================================
