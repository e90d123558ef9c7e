------------------------------- MODULE Clock -------------------------------
(***************************************************************************)
(* What micros() promises: a clock that never runs backwards and never     *)
(* runs ahead.  An instant is a pair <<overflow, tick>>; a reading is an   *)
(* instant between the previous reading and now.                           *)
(***************************************************************************)
EXTENDS Naturals

VARIABLES time, reading

NotAfter(a, b) == a[1] < b[1] \/ (a[1] = b[1] /\ a[2] <= b[2])

Init == time = <<0, 0>> /\ reading = <<0, 0>>

Advance == NotAfter(time, time') /\ UNCHANGED reading

Read == /\ NotAfter(reading, reading')
        /\ NotAfter(reading', time)
        /\ UNCHANGED time

Next == Advance \/ Read

Spec == Init /\ [][Next]_<<time, reading>>
=============================================================================
