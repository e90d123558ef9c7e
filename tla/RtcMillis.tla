----------------------------- MODULE RtcMillis -----------------------------
(***************************************************************************)
(* Timekeeping with the RTC: its 16-bit counter counts 1024 times a second *)
(* and is itself the low part of the time; the overflow interrupt adds the *)
(* 64000 ms of a whole turn, and millis() scales the counter and makes up  *)
(* for an overflow that is still pending (wiring.c, wiring_micros_ISR.h).  *)
(***************************************************************************)
EXTENDS Integers

CONSTANTS
    MaxLatency,   \* counts an overflow may wait for its interrupt
    MaxSection,   \* counts that pass while a function has interrupts off
    Settings,     \* arguments of set_millis()
    AtOverflow,   \* whether set_millis() may meet an overflow
    MaxTurns      \* bound on the overflows

VARIABLES
    cnt, flag,       \* RTC.CNT, RTC.INTFLAGS.OVF
    timer_millis,
    pc,              \* the next access of the function being executed, ...
    rtccount, m,     \* ... and its locals
    section,         \* counts since it turned interrupts off
    base, turns,     \* the time at CNT = 0 of turn 0, and the turns since
    sampled          \* the time when millis() read the counter
vars == <<cnt, flag, timer_millis, pc, rtccount, m, section, base, turns, sampled>>

(* A turn of the counter, 64 seconds. *)
TOP == 64 * 1024
MILLIS_INC == 64 * 1000

(* 1000/1024 of the counter: c - (c >> 5) + (c >> 7). *)
ScaledUp(c) == c - c \div 32 + c \div 64
Scaled(c) == c - c \div 32 + c \div 128

(* The time: whole turns and the scaled counter. *)
Now == base + turns * MILLIS_INC + Scaled(cnt)

Init ==
    /\ cnt = 0 /\ flag = FALSE /\ timer_millis = 0
    /\ pc = "idle" /\ rtccount = 0 /\ m = 0 /\ section = 0
    /\ base = 0 /\ turns = 0 /\ sampled = 0

(* Interrupts are off from the first access of a function to its last. *)
Tick ==
    /\ flag => cnt < MaxLatency
    /\ pc # "idle" => section < MaxSection
    /\ section' = IF pc = "idle" THEN section ELSE section + 1
    /\ IF cnt + 1 = TOP
       THEN turns < MaxTurns /\ cnt' = 0 /\ flag' = TRUE /\ turns' = turns + 1
       ELSE cnt' = cnt + 1 /\ UNCHANGED <<flag, turns>>
    /\ UNCHANGED <<timer_millis, pc, rtccount, m, base, sampled>>

(* ISR(RTC_CNT_vect) *)
Overflow ==
    /\ pc = "idle" /\ flag
    /\ timer_millis' = timer_millis + MILLIS_INC
    /\ flag' = FALSE
    /\ UNCHANGED <<cnt, pc, rtccount, m, section, base, turns, sampled>>

Millis ==
    /\ pc = "idle" /\ pc' = "count"
    /\ section' = 0
    /\ UNCHANGED <<cnt, flag, timer_millis, rtccount, m, base, turns, sampled>>

MillisCount ==
    /\ pc = "count" /\ pc' = "flag"
    /\ rtccount' = cnt
    /\ m' = timer_millis
    /\ sampled' = Now
    /\ UNCHANGED <<cnt, flag, timer_millis, section, base, turns>>

(* An overflow the interrupt has not counted, if the counter is in the     *)
(* lower half.                                                             *)
MissedAny == flag
Missed == flag /\ rtccount < TOP \div 2

MillisFlag ==
    /\ pc = "flag" /\ pc' = "return"
    /\ m' = m + (IF Missed THEN MILLIS_INC ELSE 0) + Scaled(rtccount)
    /\ UNCHANGED <<cnt, flag, timer_millis, rtccount, section, base, turns, sampled>>

MillisReturn ==
    /\ pc = "return" /\ pc' = "idle"
    /\ rtccount' = 0 /\ m' = 0 /\ section' = 0 /\ sampled' = 0
    /\ UNCHANGED <<cnt, flag, timer_millis, base, turns>>

(* timer_millis = newmillis; RTC.CNT = 0, which leaves RTC.INTFLAGS alone. *)
SetMillis ==
    /\ pc = "idle" /\ pc' = "reset"
    /\ ~AtOverflow => ~flag /\ cnt + MaxSection < TOP
    /\ timer_millis' \in Settings
    /\ section' = 0
    /\ UNCHANGED <<cnt, flag, rtccount, m, base, turns, sampled>>

CountKept == cnt
CountReset == 0
SetMillisCount ==
    /\ pc = "reset" /\ pc' = "idle"
    /\ cnt' = CountReset
    /\ base' = timer_millis /\ turns' = 0
    /\ section' = 0
    /\ UNCHANGED <<flag, timer_millis, rtccount, m, sampled>>

Next ==
    \/ Tick \/ Overflow
    \/ Millis \/ MillisCount \/ MillisFlag \/ MillisReturn
    \/ SetMillis \/ SetMillisCount

Spec == Init /\ [][Next]_vars

----------------------------------------------------------------------------
(* Properties *)

(* millis() returns the time at which it read the counter, whether the     *)
(* overflow came before it did, after it did, or is still to be counted    *)
(* (wiring.c:173-176).                                                     *)
MillisIsTime == MillisReturn => m = sampled

(* The time never goes back: the scaled counter does not decrease, within  *)
(* a turn or from one to the next (wiring.c:119, "great care to prevent    *)
(* any kind of backward time travel").                                     *)
TimeForward == ~SetMillisCount => Now' >= Now

(* Once set_millis() returns, what millis() makes of the milliseconds, the *)
(* pending overflow and the counter is what it was given (Ref_Functions.md *)
(* :241, "Sets the millisecond timer to the specified number of            *)
(* milliseconds").                                                         *)
SetTakes ==
    SetMillisCount =>
        timer_millis' + (IF flag' THEN MILLIS_INC ELSE 0) + Scaled(cnt') = base'

(* All of it. *)
RtcKeepsTime == [][MillisIsTime /\ TimeForward /\ SetTakes]_vars
=============================================================================
