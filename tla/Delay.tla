------------------------------- MODULE Delay -------------------------------
(***************************************************************************)
(* delay(), as parts with 16 KB of flash and more have it, which subtracts *)
(* readings of micros() cut to 16 bits, and as smaller parts have it (for  *)
(* 16 ms and more), which compares readings of millis() (wiring.c).  Time  *)
(* passes between any two readings, which never go back (Timekeeping and   *)
(* MicrosScale say under which conditions).                                *)
(***************************************************************************)
EXTENDS Integers

CONSTANTS
    Variants,      \* "micros", "millis": what delay() is built on
    MS,            \* microseconds of a millisecond, 1000 in the code
    Wrap,          \* the readings are cut to 0..Wrap-1, 2^16 or 2^32 in the code
    Grain,         \* milliseconds millis() goes up by
    Delays,        \* the arguments of delay()
    MaxGap,        \* microseconds between two steps of delay()
    MaxElapsed     \* elapsed counts up to here, past the longest delay

(* What a module that instantiates this one has to assume. *)
DelayAssumption ==
    /\ Variants \subseteq {"micros", "millis"}
    /\ MS \in Nat \ {0} /\ Wrap \in Nat \ {0} /\ Grain \in Nat \ {0}
    /\ MaxGap \in Nat \ {0}
    /\ Delays \subseteq Nat /\ MaxElapsed \in Nat
    /\ \A d \in Delays : d * MS + 2 * MaxGap < MaxElapsed

VARIABLES
    variant,  \* the build's delay()
    clock,    \* micros(), modulo Wrap whole milliseconds
    pc,       \* "idle", or "loop" in delay()
    ms,       \* its argument, counted down
    start,    \* its local
    asked,    \* what ms was at the call
    elapsed,  \* microseconds since the call
    gap       \* microseconds since the last step of delay()
call == <<pc, ms, start, asked, elapsed, gap>>
vars == <<variant, clock, call>>

----------------------------------------------------------------------------
Period == Wrap * MS * Grain   \* of both readings
micros == clock % Wrap
millis == ((clock \div (MS * Grain)) * Grain) % Wrap

Init ==
    /\ variant \in Variants /\ clock \in 0..Period-1
    /\ pc = "idle" /\ ms = 0 /\ start = 0
    /\ asked = 0 /\ elapsed = 0 /\ gap = 0

Advance ==
    /\ pc = "loop" => gap < MaxGap
    /\ clock' = (clock + 1) % Period
    /\ IF pc = "loop"
       THEN /\ elapsed' = IF elapsed < MaxElapsed THEN elapsed + 1 ELSE elapsed
            /\ gap' = gap + 1
       ELSE UNCHANGED <<elapsed, gap>>
    /\ UNCHANGED <<variant, pc, ms, start, asked>>

(* start = micros() or start = millis().  The second is for 16 ms and      *)
(* more: below, that build waits with _delay_ms().                         *)
Shortest == IF variant = "micros" THEN 0 ELSE 16
Call ==
    /\ pc = "idle" /\ pc' = "loop"
    /\ ms' \in {d \in Delays : d >= Shortest} /\ asked' = ms'
    /\ start' = IF variant = "micros" THEN micros ELSE millis
    /\ elapsed' = 0 /\ gap' = 0
    /\ UNCHANGED <<variant, clock>>

Since == (micros + Wrap - start) % Wrap
SomeMs == Since >= MS - 1
MicrosAsMs == Since >= MS * Wrap
WholeMs == Since >= MS
Restarted == (start + MS) % Wrap

(* while (((uint16_t) micros() - start) >= 1000 && ms) *)
PollMicros ==
    /\ variant = "micros" /\ pc = "loop" /\ ms > 0
    /\ IF WholeMs THEN ms' = ms - 1 /\ start' = Restarted
                  ELSE UNCHANGED <<ms, start>>
    /\ gap' = 0
    /\ UNCHANGED <<variant, clock, pc, asked, elapsed>>

ReturnMicros ==
    /\ variant = "micros" /\ pc = "loop" /\ ms = 0
    /\ pc' = "idle" /\ gap' = 0
    /\ UNCHANGED <<variant, clock, ms, start, asked, elapsed>>

(* while (millis() - start < ms) *)
Reached == (millis + Wrap - start) % Wrap >= ms
PollMillis ==
    /\ variant = "millis" /\ pc = "loop" /\ ~Reached
    /\ gap' = 0
    /\ UNCHANGED <<variant, clock, pc, ms, start, asked, elapsed>>
ReturnMillis ==
    /\ variant = "millis" /\ pc = "loop" /\ Reached
    /\ pc' = "idle" /\ gap' = 0
    /\ UNCHANGED <<variant, clock, ms, start, asked, elapsed>>

Return == ReturnMicros \/ ReturnMillis
Next == Advance \/ Call \/ PollMicros \/ PollMillis \/ Return

Spec == Init /\ [][Next]_vars

----------------------------------------------------------------------------
(* Properties *)

(* delay(ms) lasts at least ms milliseconds, however the 16-bit readings   *)
(* wrap (wiring.c:213, "the delay is more accurate and fully interrupt     *)
(* insensitive").  That of small parts is short by a millisecond at most   *)
(* (:219).                                                                 *)
DelayLasts ==
    /\ ReturnMicros => elapsed >= asked * MS
    /\ ReturnMillis => elapsed > (asked - 1) * MS

(* Interrupts do not prolong it: it returns within two gaps of its end,    *)
(* although it was held up at each of its steps (wiring.c:233).            *)
DelayEnds == pc = "loop" => elapsed <= asked * MS + 2 * MaxGap

(* Both. *)
DelayIsKept == [][DelayLasts /\ DelayEnds]_vars
=============================================================================
