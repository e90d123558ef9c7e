---------------------------- MODULE MicrosScale ----------------------------
(***************************************************************************)
(* How micros() turns the count of the timer into microseconds, for each   *)
(* timer and clock speed (wiring_micros_ISR.h).  The count does not divide *)
(* evenly at most speeds, and a sum of right shifts stands for division.   *)
(* A build has one of the timers and speeds; its timer counts through      *)
(* whole overflows, and the number micros() would return is followed from  *)
(* one count to the next.                                                  *)
(***************************************************************************)
EXTENDS Integers

CONSTANTS
    Builds,        \* pairs of the timer for millis and F_CPU in MHz
    RestartBuilds, \* those whose program calls restart_millis()
    MaxOverflows,  \* bound on the overflows
    Slack,         \* microseconds micros() may go back in one count
    MaxError       \* microseconds it may be off

(* What a module that instantiates this one has to assume. *)
BuildsAssumption ==
    /\ Builds \subseteq {"TCA", "TCB", "TCD"} \X (Nat \ {0})
    /\ RestartBuilds \subseteq Builds
    /\ MaxOverflows \in Nat /\ Slack \in Nat /\ MaxError \in Nat

VARIABLES
    timer, mhz,        \* the build
    divider,           \* the timer's prescaler
    overflows, ticks,  \* the overflows counted, and the timer's count
    cycles             \* clock cycles that have passed
vars == <<timer, mhz, divider, overflows, ticks, cycles>>

----------------------------------------------------------------------------
(* How the timer is set up (timers.h). *)

DIVIDER ==
    CASE timer = "TCB" -> IF mhz = 1 THEN 1 ELSE 2
      [] timer = "TCD" -> IF mhz = 1 THEN 64 ELSE 32
      [] timer = "TCA" /\ mhz > 30 -> 256
      [] timer = "TCA" /\ mhz <= 1 -> 8
      [] timer = "TCA" /\ mhz \in 2..5 -> 16
      [] timer = "TCA" /\ mhz \in 6..30 -> 64
TICKS_PER_OVF ==
    CASE timer = "TCB" -> IF mhz <= 2 THEN 2000 ELSE 500 * mhz
      [] timer = "TCD" -> 510
      [] timer = "TCA" -> 255
(* What restart_millis() sets. *)
RestartDivider ==
    CASE timer # "TCA" -> DIVIDER
      [] timer = "TCA" /\ mhz > 25 -> 256
      [] timer = "TCA" /\ mhz \in 6..25 -> 64
      [] timer = "TCA" /\ mhz \in 2..5 -> 16
      [] timer = "TCA" /\ mhz <= 1 -> 8
CYCLES_PER_OVF == TICKS_PER_OVF * DIVIDER

(* A TCD runs from the 16 or the 20 MHz oscillator. *)
TimerMHz == IF timer = "TCD" THEN IF mhz \in {5, 10, 20} THEN 20 ELSE 16 ELSE mhz
MicrosPerOvf == CYCLES_PER_OVF \div TimerMHz

----------------------------------------------------------------------------
(* The sums. *)

Shr(t, k) == t \div 2^k
Byte(x) == x % 256

(* Assembler of the "terrible twelves": all but two terms fit in a byte. *)
Twelves(t) ==
    t + Shr(t, 1)
      - Byte(Shr(t, 2) - Shr(t, 3) + Shr(t, 4) - Shr(t, 5) + Shr(t, 6) - Shr(t, 7)
             + Shr(t, 9))
(* Assembler of the "troublesome tens". *)
TensRotated(t) ==
    t - Shr(t, 2) + Byte(Shr(t, 4) + 128 * (Shr(t, 3) % 2) - Shr(t, 6) + Shr(t, 8))
Tens(t) ==
    t - Shr(t, 2) + Byte(Shr(t, 4) - Shr(t, 6) + Shr(t, 8))

(* The first shift, and the sum for what it leaves. *)
FirstShift ==
    CASE mhz \in {1, 2} -> 0
      [] mhz \in {3, 4, 5} -> 1
      [] mhz \in {6, 8, 10} -> 2
      [] mhz \in {12, 14, 16, 20} -> 3
      [] mhz \in {24, 25, 27, 28, 30, 32, 36, 40, 44} -> 4
      [] mhz = 48 -> 5
Divided(t) ==
    CASE mhz = 44 -> t - Shr(t, 2) - Shr(t, 5) + Shr(t, 7)
      [] mhz = 36 -> t - Shr(t, 3) + Shr(t, 6)
      [] mhz \in {14, 28} -> t + Shr(t, 2) - Shr(t, 3) + Shr(t, 5) - Shr(t, 6)
      [] mhz = 30 -> t + Shr(t, 3) - Shr(t, 4) + Shr(t, 7) - Shr(t, 8)
      [] mhz = 27 -> t + Shr(t, 2) - Shr(t, 4) - Shr(t, 9)
      [] mhz = 25 -> t + Shr(t, 2) + Shr(t, 5)
      [] mhz \in {3, 6, 12, 24, 48} -> Twelves(t)
      [] mhz \in {5, 10, 20, 40} -> Tens(t)
      [] OTHER -> t
TicksTCB(t) == Divided(Shr(t, FirstShift))

TicksTCAUngrouped(t) ==
    IF mhz \in {5, 20} THEN t * 3 + Shr(t, 2) + Shr(t, 4)
                       ELSE t * (MicrosPerOvf \div (TICKS_PER_OVF - 1))
TicksTCA(t) ==
    CASE mhz = 30 -> t * 2 + Shr(t, 3)
      [] mhz = 28 -> t * 2 + Shr(t, 2) + Shr(t, 5)
      [] mhz = 25 -> t * 2 + Shr(t, 1) + Shr(t, 4)
      [] mhz = 24 -> t * 3 - (Shr(t, 2) - Shr(t, 4) - Shr(t, 5))
      [] mhz \in {5, 20} -> t * 3 + (Shr(t, 2) - Shr(t, 4))
      [] mhz = 12 -> t * 5 + (Shr(t, 2) + Shr(t, 4) + Shr(t, 5))
      [] mhz = 10 -> t * 8 - (t * 2 + Shr(t, 1) - Shr(t, 3))
      [] OTHER -> t * (MicrosPerOvf \div (TICKS_PER_OVF - 1))

TicksTCDRoundedUp(t) == t * (MicrosPerOvf \div TICKS_PER_OVF + 1)
TicksTCD(t) ==
    IF TimerMHz = 20
    THEN LET l == Byte(Shr(t, 1)) IN t + l + (Shr(l, 2) - Shr(l, 4) + Shr(l, 7))
    ELSE t * (MicrosPerOvf \div (TICKS_PER_OVF - 1))

(* What micros() returns.  A TCB counts milliseconds: two per overflow at  *)
(* 1 and 2 MHz.                                                            *)
micros ==
    CASE timer = "TCB" ->
             (IF mhz <= 2 THEN 2 * overflows ELSE overflows) * 1000 + TicksTCB(ticks)
      [] timer = "TCA" -> overflows * MicrosPerOvf + TicksTCA(ticks)
      [] timer = "TCD" ->
             overflows * MicrosPerOvf + TicksTCD(ticks)
             + (IF TimerMHz = 20 THEN overflows \div 2 ELSE 0)

----------------------------------------------------------------------------
Init ==
    /\ \E b \in Builds : timer = b[1] /\ mhz = b[2]
    /\ divider = DIVIDER
    /\ overflows = 0 /\ ticks = 0 /\ cycles = 0

(* The timer counts; at the top its interrupt adds to the overflows. *)
Tick ==
    /\ \/ ticks + 1 < TICKS_PER_OVF /\ ticks' = ticks + 1 /\ UNCHANGED overflows
       \/ /\ ticks + 1 = TICKS_PER_OVF /\ overflows < MaxOverflows
          /\ ticks' = 0 /\ overflows' = overflows + 1
    /\ cycles' = cycles + divider
    /\ UNCHANGED <<timer, mhz, divider>>

(* stop_millis(), restart_millis(): the prescaler is set again. *)
RestartMillis ==
    /\ <<timer, mhz>> \in RestartBuilds
    /\ divider' = RestartDivider
    /\ UNCHANGED <<timer, mhz, overflows, ticks, cycles>>

Next == Tick \/ RestartMillis
Spec == Init /\ [][Next]_vars

----------------------------------------------------------------------------
(* Properties *)

(* micros() never goes back by more than Slack when the timer counts on,   *)
(* within an overflow or across it (wiring_micros_ISR.h:490, "Backwards    *)
(* time travel must never happenb, or if it does, it must be a shorter     *)
(* backward step than micros runtime - 1 us otherwise delay() will break   *)
(* and timeouts can instantly expire").                                    *)
NeverBack == micros' + Slack >= micros

(* micros() is within MaxError of the clock cycles that have passed, as    *)
(* the shifts stand for division and no overflow makes it jump or drift,   *)
(* and does not go back.                                                   *)
Accurate ==
    /\ micros * TimerMHz <= cycles + MaxError * TimerMHz
    /\ cycles <= micros * TimerMHz + MaxError * TimerMHz
MicrosIsTime == [][Accurate' /\ NeverBack]_vars
=============================================================================
