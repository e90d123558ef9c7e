---------------------------- MODULE BoundedQueue ----------------------------
(***************************************************************************)
(* What either direction of a serial port promises: a bounded first-in     *)
(* first-out queue.  Bytes enter at the end if there is room, leave at the *)
(* head, in that order and once each; out is the byte that left last.      *)
(* end() may throw the whole content away, where Clearable.                *)
(***************************************************************************)
EXTENDS Naturals, Sequences

CONSTANTS
    Capacity,    \* the most bytes the queue holds
    Clearable    \* may the queue be emptied at once?

VARIABLES queue, out

Init == queue = <<>> /\ out = 0

Put(byte) ==
    /\ Len(queue) < Capacity
    /\ queue' = Append(queue, byte)
    /\ UNCHANGED out

Get ==
    /\ queue # <<>>
    /\ out' = Head(queue)
    /\ queue' = Tail(queue)

Clear ==
    /\ Clearable
    /\ queue' = <<>>
    /\ UNCHANGED out

(* The byte put is the one the queue ends with. *)
Next ==
    \/ queue' # <<>> /\ Put(queue'[Len(queue')])
    \/ Get
    \/ Clear

Spec == Init /\ [][Next]_<<queue, out>>
=============================================================================
