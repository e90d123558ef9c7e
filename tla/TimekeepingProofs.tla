------------------------- MODULE TimekeepingProofs -------------------------
(***************************************************************************)
(* Proofs about Timekeeping: for every timer, count per overflow and       *)
(* latency that HeardInTime allows, micros() implements Clock.  The        *)
(* inductive invariant is MicrosInv with the types it speaks of and the    *)
(* remark that only a program that calls set_millis() is ever inside it.   *)
(* Then about its instances of RtcMillis and Delay, whose variables have   *)
(* names of their own here where Timekeeping has taken theirs.             *)
(***************************************************************************)
EXTENDS Timekeeping, TLAPS

Storing == pc \in {"stLow", "stHigh"} => "set_millis" \in Uses[kind]

Types ==
    /\ kind \in Kinds
    /\ cnt \in Nat /\ cnt < Ticks /\ wraps \in Nat
    /\ kind = "TCB" => nudged \in Nat
    /\ overflows \in Nat /\ ticks \in Nat /\ ticks < Ticks
    /\ count \in Nat /\ section \in Nat
    /\ sampled = <<sampled[1], sampled[2]>> /\ sampled[1] \in Nat /\ sampled[2] \in Nat
    /\ reading = <<reading[1], reading[2]>> /\ reading[1] \in Nat /\ reading[2] \in Nat

IInv == Types /\ MicrosInv /\ Storing

(* An overflow counts for something, with a TCB too. *)
LEMMA UnitPositive ==
  ASSUME kind \in Kinds
  PROVE  Unit \in Nat /\ Unit > 0
  BY KindsAssumption, OvfMicrosAssumption, SMT DEF Unit, MILLIS_INC

LEMMA InvariantInitially == HeardInTime /\ Init => IInv
  BY UnitPositive, TicksAssumption
  DEF Init, IInv, Types, MicrosInv, Storing, Counted, Prompt, Excluded, Since,
      Compensated, InOrder, Overflowed, TimeOf, InSection, MicrosClock!NotAfter

(* nudge_millis() adds as much to a TCB's count as to the time it shows,   *)
(* and leaves the overflow count of a TCA alone.                           *)
LEMMA NudgeAddsToBoth ==
  ASSUME IInv, NudgeMillis
  PROVE  \/ /\ kind = "TCB"
            /\ \E n \in Nat : overflows' = overflows + n /\ nudged' = nudged + n
         \/ kind = "TCA" /\ overflows' = overflows
  <1>1. PICK n \in Nudges : ByProgram(timer_millis + n)
    BY DEF NudgeMillis
  <1>2. n \in Nat
    BY ArgumentsAssumption
  <1>3. CASE kind = "TCB"
    <2>1. overflows' = overflows + n /\ nudged' = nudged + ((overflows + n) - overflows)
      BY <1>1, <1>3 DEF ByProgram, SetTimerMillis, timer_millis
    <2>2. nudged' = nudged + n
      BY <1>2, <1>3, <2>1 DEF IInv, Types
    <2> QED
      BY <1>2, <1>3, <2>1, <2>2
  <1>4. CASE kind = "TCA"
    BY <1>1, <1>4 DEF ByProgram, SetTimerMillis
  <1> QED
    BY <1>3, <1>4, KindsAssumption DEF IInv, Types

(* set_millis() stores into what micros() does not read, with a TCA.       *)
LEMMA SetMillisLeavesTime ==
  ASSUME HeardInTime, IInv, SetMillisLow \/ SetMillisHigh
  PROVE  kind = "TCA" /\ overflows' = overflows
  <1>1. "set_millis" \in Uses[kind]
    BY DEF IInv, Storing, SetMillisLow, SetMillisHigh, Goto
  <1>2. kind = "TCA"
    BY <1>1, KindsAssumption DEF HeardInTime, IInv, Types
  <1> QED
    BY <1>2 DEF SetMillisLow, SetMillisHigh, ByProgram, SetTimerMillis

LEMMA InvariantKept ==
  ASSUME HeardInTime, IInv, [Next]_vars
  PROVE  IInv'
  <1>a. Unit \in Nat /\ Unit > 0
    BY UnitPositive DEF IInv, Types
  <1>b. kind' = kind /\ Unit' = Unit
    BY DEF Next, vars, Unit, MILLIS_INC
  <1> USE <1>a, <1>b, TicksAssumption, ArgumentsAssumption
      DEF IInv, Types, MicrosInv, Storing, Counted, Prompt, Excluded, Since,
          Compensated, InOrder, Overflowed, TimeOf, InSection, MicrosClock!NotAfter,
          timer, counters, locals, ghosts
  <1>1. CASE Tick
    BY <1>1 DEF Tick, HeardInTime, Missed
  <1>2. CASE Overflow
    BY <1>2 DEF Overflow, HeardInTime, Missed
  <1>3. CASE SetInterrupts
    BY <1>3 DEF SetInterrupts
  <1>4. CASE Micros
    BY <1>4 DEF Micros, Goto, Cli
  <1>5. CASE MicrosTicks
    BY <1>5 DEF MicrosTicks, Goto, HeardInTime
  <1>6. CASE MicrosFlags
    BY <1>6 DEF MicrosFlags, Goto, HeardInTime, Missed
  <1>7. CASE MicrosCount
    BY <1>7 DEF MicrosCount, Goto, Restore, Missed
  <1>8. CASE MicrosReturn
    BY <1>8 DEF MicrosReturn, Goto, Missed
  <1>9. CASE Millis
    BY <1>9 DEF Millis, Goto, Cli
  <1>10. CASE MillisLow
    BY <1>10 DEF MillisLow, Goto
  <1>11. CASE MillisHigh
    BY <1>11 DEF MillisHigh, Goto, Restore
  <1>12. CASE NudgeMillis
    BY <1>12, NudgeAddsToBoth DEF NudgeMillis
  <1>13. CASE SetMillis
    BY <1>13 DEF SetMillis, Goto
  <1>14. CASE SetMillisLow
    BY <1>14, SetMillisLeavesTime DEF SetMillisLow, Goto
  <1>15. CASE SetMillisHigh
    BY <1>15, SetMillisLeavesTime DEF SetMillisHigh, Goto
  <1>16. CASE UNCHANGED vars
    BY <1>16 DEF vars, Missed
  <1> QED
    BY <1>1, <1>2, <1>3, <1>4, <1>5, <1>6, <1>7, <1>8, <1>9, <1>10, <1>11, <1>12, <1>13, <1>14, <1>15, <1>16 DEF Next

(* A step of the timer is an Advance of the clock, the return of micros()  *)
(* is a Read; the others leave the clock alone.                            *)
LEMMA StepIsClockStep ==
  ASSUME HeardInTime, IInv, IInv', [Next]_vars
  PROVE  [MicrosClock!Next]_<<TimeOf, reading>>
  <1>a. Unit \in Nat /\ Unit > 0
    BY UnitPositive DEF IInv, Types
  <1>b. kind' = kind /\ Unit' = Unit
    BY DEF Next, vars, Unit, MILLIS_INC
  <1> USE <1>a, <1>b, TicksAssumption
  <1>1. CASE Tick
    BY <1>1 DEF Tick, ghosts, MicrosClock!Next, MicrosClock!Advance, MicrosClock!NotAfter, TimeOf, Overflowed, IInv, Types
  <1>2. CASE NudgeMillis
    BY <1>2, NudgeAddsToBoth
    DEF NudgeMillis, timer, MicrosClock!Next, MicrosClock!Advance, MicrosClock!NotAfter,
        TimeOf, Overflowed, IInv, Types
  <1>3. CASE MicrosReturn
    <2>1. reading' = sampled
      BY <1>3 DEF MicrosReturn, Goto, IInv, MicrosInv, Compensated, Types
    <2>2. TimeOf' = TimeOf
      BY <1>3 DEF MicrosReturn, timer, TimeOf, Overflowed
    <2>3. MicrosClock!Read
      BY <2>1, <2>2 DEF IInv, MicrosInv, InOrder, MicrosClock!Read
    <2> QED
      BY <2>3 DEF MicrosClock!Next
  <1>4. CASE UNCHANGED <<TimeOf, reading>>
    BY <1>4
  <1>5. CASE Overflow \/ SetInterrupts \/ Micros \/ MicrosTicks \/ MicrosFlags \/ MicrosCount
             \/ Millis \/ MillisLow \/ MillisHigh \/ SetMillis
    BY <1>5, <1>4
    DEF Overflow, SetInterrupts, Micros, MicrosTicks, MicrosFlags, MicrosCount, Millis,
        MillisLow, MillisHigh, SetMillis, timer, ghosts, TimeOf, Overflowed
  <1>7. CASE SetMillisLow \/ SetMillisHigh
    BY <1>4, <1>7, SetMillisLeavesTime
    DEF SetMillisLow, SetMillisHigh, timer, TimeOf, Overflowed
  <1>6. CASE UNCHANGED vars
    BY <1>4, <1>6 DEF vars, timer, ghosts, TimeOf, Overflowed
  <1> QED
    BY <1>1, <1>2, <1>3, <1>5, <1>6, <1>7 DEF Next

(* MicrosInv holds: what micros() adds to the counter is exactly what it   *)
(* lacked when the timer was read.                                         *)
THEOREM CounterMadeUp ==
  ASSUME HeardInTime
  PROVE  Spec => []MicrosInv
  <1>1. Init => IInv
    BY InvariantInitially
  <1>2. IInv /\ [Next]_vars => IInv'
    BY InvariantKept
  <1>3. IInv => MicrosInv
    BY DEF IInv
  <1> QED
    BY <1>1, <1>2, <1>3, PTL DEF Spec

(* micros() is a clock that never runs backwards and never ahead, for      *)
(* every timer that HeardInTime describes.                                 *)
THEOREM MicrosImplementsClock ==
  ASSUME HeardInTime
  PROVE  Spec => MicrosIsClock
  <1>1. Init => IInv
    BY InvariantInitially
  <1>2. IInv /\ [Next]_vars => IInv'
    BY InvariantKept
  <1>3. Init => MicrosClock!Init
    BY DEF Init, MicrosClock!Init, TimeOf, Overflowed
  <1>4. IInv /\ IInv' /\ [Next]_vars => [MicrosClock!Next]_<<TimeOf, reading>>
    BY StepIsClockStep
  <1> QED
    BY <1>1, <1>2, <1>3, <1>4, PTL DEF Spec, MicrosIsClock, MicrosClock!Spec

----------------------------------------------------------------------------
(* The fraction. *)

FractInRange ==
    /\ MILLIS_INC = 0 => fract \in 0..FRACT_MAX-1
    /\ MILLIS_INC > 0 => fract = 0 \/ fract \in U16-FRACT_MAX..U16-1

Whole ==
    /\ kind = "TCA" /\ "TCA" \in Kinds
    /\ overflows \in Nat /\ millisTCA \in Nat /\ fract \in Nat /\ nudged \in Int
    /\ target \in Nat /\ FractInRange /\ MillisExact

(* What an overflow adds to the milliseconds and to the fraction is its    *)
(* length, in both forms of the code.                                      *)
LEMMA OverflowAddsItsLength ==
  ASSUME kind \in Kinds, kind' = kind, FractInRange, fract \in Nat,
         fract' = FractAfterOverflow
  PROVE  /\ FractInRange' /\ fract' \in Nat /\ MillisAfterOverflow \in Nat
         /\ MillisAfterOverflow * FRACT_MAX + SignedFract' = SignedFract + OvfMicros[kind]
  <1>0. MILLIS_INC' = MILLIS_INC
    BY DEF MILLIS_INC
  <1> USE <1>0
  <1>1. /\ OvfMicros[kind] = MILLIS_INC * FRACT_MAX + FRACT_INC
        /\ MILLIS_INC \in Nat /\ FRACT_INC \in 0..FRACT_MAX-1
    BY OvfMicrosAssumption DEF MILLIS_INC, FRACT_INC, FRACT_MAX
  <1>2. SignedFract = IF fract < 32768 THEN fract ELSE fract - 65536
    BY DEF SignedFract, U16
  <1>3. SignedFract' = IF fract' < 32768 THEN fract' ELSE fract' - 65536
    BY DEF SignedFract, U16
  <1>4. CASE MILLIS_INC = 0
    <2>1. fract \in 0..999
      BY <1>4 DEF FractInRange, FRACT_MAX
    <2>2. Sum = fract + FRACT_INC
      BY <1>1, <2>1 DEF Sum, U16, FRACT_MAX
    <2>3. CASE Sum < 1000
      <3>1. fract' = Sum /\ MillisAfterOverflow = 0
        BY <1>4, <2>3 DEF FractAfterOverflow, MillisAfterOverflow, FRACT_MAX
      <3> QED
        BY <1>1, <1>2, <1>3, <1>4, <2>1, <2>2, <2>3, <3>1 DEF FractInRange, FRACT_MAX
    <2>4. CASE Sum >= 1000
      <3>1. Carried = Sum - 1000
        BY <1>1, <2>1, <2>2, <2>4 DEF Carried, U16, FRACT_MAX
      <3>2. fract' = Sum - 1000 /\ MillisAfterOverflow = 1
        BY <1>1, <1>4, <2>1, <2>2, <2>4, <3>1
        DEF FractAfterOverflow, MillisAfterOverflow, FRACT_MAX
      <3> QED
        BY <1>1, <1>2, <1>3, <1>4, <2>1, <2>2, <2>4, <3>2 DEF FractInRange, FRACT_MAX
    <2> QED
      BY <1>1, <2>1, <2>2, <2>3, <2>4 DEF FRACT_MAX
  <1>5. CASE MILLIS_INC > 0
    <2>1. fract = 0 \/ fract \in 64536..65535
      BY <1>5 DEF FractInRange, FRACT_MAX, U16
    <2>2. CASE fract = 0 \/ fract + FRACT_INC >= 65536
      <3>1. /\ Sum < 1000 /\ Sum \in Nat
            /\ Sum = IF fract = 0 THEN FRACT_INC ELSE fract + FRACT_INC - 65536
        BY <1>1, <2>1, <2>2 DEF Sum, U16, FRACT_MAX
      <3>2. Carried = Sum + 64536
        BY <3>1 DEF Carried, U16, FRACT_MAX
      <3>3. fract' = Sum + 64536 /\ MillisAfterOverflow = MILLIS_INC + 1
        BY <1>5, <3>1, <3>2 DEF FractAfterOverflow, MillisAfterOverflow, FRACT_MAX
      <3> QED
        BY <1>1, <1>2, <1>3, <1>5, <2>1, <2>2, <3>1, <3>3
        DEF FractInRange, FRACT_MAX, U16
    <2>3. CASE fract \in 64536..65535 /\ fract + FRACT_INC < 65536
      <3>1. Sum = fract + FRACT_INC
        BY <1>1, <2>3 DEF Sum, U16, FRACT_MAX
      <3>2. ~(Sum < 1000) /\ MILLIS_INC # 0
        BY <1>1, <1>5, <2>3, <3>1 DEF FRACT_MAX
      <3>3. fract' = Sum /\ MillisAfterOverflow = MILLIS_INC
        BY <3>2 DEF FractAfterOverflow, MillisAfterOverflow, FRACT_MAX
      <3> QED
        BY <1>1, <1>2, <1>3, <1>5, <2>3, <3>1, <3>3 DEF FractInRange, FRACT_MAX, U16
    <2> QED
      BY <1>1, <2>1, <2>2, <2>3 DEF FRACT_MAX
  <1> QED
    BY <1>1, <1>4, <1>5

LEMMA WholeKept ==
  ASSUME kind = "TCA", Whole, [Next]_vars
  PROVE  Whole'
  <1>k. kind' = kind /\ MILLIS_INC' = MILLIS_INC
    BY DEF Next, vars, MILLIS_INC
  <1> USE <1>k
  <1>1. CASE Overflow
    <2>1. /\ fract' = FractAfterOverflow
          /\ millisTCA' = millisTCA + MillisAfterOverflow
          /\ overflows' = overflows + 1
          /\ nudged' = nudged /\ target' = target
      BY <1>1 DEF Overflow, Unit, ghosts, locals
    <2>2. /\ FractInRange' /\ fract' \in Nat /\ MillisAfterOverflow \in Nat
          /\ MillisAfterOverflow * FRACT_MAX + SignedFract' = SignedFract + OvfMicros[kind]
      BY <2>1, OverflowAddsItsLength DEF Whole
    <2>3. SignedFract \in Int /\ SignedFract' \in Int
      BY <2>2 DEF SignedFract, Whole, U16
    <2>4. overflows' * OvfMicros[kind] = overflows * OvfMicros[kind] + OvfMicros[kind]
      <3> overflows \in Nat /\ OvfMicros[kind] \in Nat
        BY OvfMicrosAssumption DEF Whole
      <3> QED
        BY <2>1
    <2>5. MillisExact'
      <3> DEFINE Before == overflows * OvfMicros[kind]
                 After  == overflows' * OvfMicros[kind]
      <3>1. After = Before + OvfMicros[kind]
        BY <2>4
      <3>2. Before \in Int /\ After \in Int /\ OvfMicros[kind] \in Int
        BY <2>1, OvfMicrosAssumption DEF Whole
      <3>3. (millisTCA - nudged) * FRACT_MAX + SignedFract = Before
        BY DEF Whole, MillisExact
      <3>4. SUFFICES (millisTCA' - nudged') * FRACT_MAX + SignedFract' = After
        BY DEF MillisExact
      <3>5. /\ millisTCA \in Int /\ nudged \in Int /\ MillisAfterOverflow \in Int
            /\ millisTCA' = millisTCA + MillisAfterOverflow /\ nudged' = nudged
            /\ MillisAfterOverflow * FRACT_MAX + SignedFract' = SignedFract + OvfMicros[kind]
        BY <2>1, <2>2 DEF Whole
      <3> HIDE DEF Before, After
      <3> DEFINE Ms == (millisTCA - nudged) * 1000
                 Added == MillisAfterOverflow * 1000
      <3>6. /\ Ms \in Int /\ Added \in Int
            /\ ((millisTCA + MillisAfterOverflow) - nudged) * 1000 = Ms + Added
        BY <3>5
      <3>7. Ms + SignedFract = Before
        BY <3>3 DEF FRACT_MAX
      <3>8. Added + SignedFract' = SignedFract + OvfMicros[kind]
        BY <3>5 DEF FRACT_MAX
      <3>9. (millisTCA' - nudged') * FRACT_MAX = Ms + Added
        BY <3>5, <3>6 DEF FRACT_MAX
      <3> HIDE DEF Ms, Added
      <3>10. (Ms + Added) + SignedFract' = Before + OvfMicros[kind]
        <4> DEFINE S == SignedFract
                   T == SignedFract'
        <4>1. S \in Int /\ T \in Int
          BY <2>3
        <4>2. Ms + S = Before
          BY <3>7
        <4>3. Added + T = S + OvfMicros[kind]
          BY <3>8
        <4>4. SUFFICES (Ms + Added) + T = Before + OvfMicros[kind]
          OBVIOUS
        <4> HIDE DEF S, T
        <4>5. Ms \in Int /\ Added \in Int /\ Before \in Int /\ OvfMicros[kind] \in Int
          BY <3>2, <3>6
        <4> QED
          BY <4>1, <4>2, <4>3, <4>5
      <3> QED
        BY <3>1, <3>9, <3>10
    <2> QED
      BY <2>1, <2>2, <2>5 DEF Whole
  <1>2. ASSUME NEW m \in Nat, ByProgram(m), UNCHANGED target
        PROVE  Whole'
    <2>1. millisTCA' = m /\ nudged' = nudged + (m - millisTCA)
          /\ overflows' = overflows /\ fract' = fract
      BY <1>2 DEF ByProgram, SetTimerMillis, timer_millis
    <2>2. millisTCA' - nudged' = millisTCA - nudged
      BY <2>1 DEF Whole
    <2>3. MillisExact'
      BY <2>1, <2>2 DEF Whole, MillisExact, SignedFract
    <2> QED
      BY <1>2, <2>1, <2>3 DEF Whole, FractInRange
  <1>3. CASE NudgeMillis
    <2>1. PICK n \in Nudges : ByProgram(timer_millis + n)
      BY <1>3 DEF NudgeMillis
    <2>2. timer_millis + n \in Nat
      BY ArgumentsAssumption DEF Whole, timer_millis
    <2>3. UNCHANGED target
      BY <1>3 DEF NudgeMillis, locals
    <2> QED
      BY <1>2, <2>1, <2>2, <2>3
  <1>4. CASE SetMillisLow
    <2> DEFINE m == (timer_millis \div Word) * Word + (target % Word)
    <2>1. m \in Nat
      BY ArgumentsAssumption DEF Whole, timer_millis
    <2>2. ByProgram(m) /\ UNCHANGED target
      BY <1>4 DEF SetMillisLow, locals
    <2> QED
      BY <1>2, <2>1, <2>2
  <1>5. CASE SetMillisHigh
    <2> DEFINE m == (target \div Word) * Word + (timer_millis % Word)
    <2>1. m \in Nat
      BY ArgumentsAssumption DEF Whole, timer_millis
    <2>2. ByProgram(m) /\ UNCHANGED target
      BY <1>5 DEF SetMillisHigh, locals
    <2> QED
      BY <1>2, <2>1, <2>2
  <1>6. CASE UNCHANGED <<counters, nudged>> /\ target' \in Nat
    BY <1>6 DEF counters, Whole, MillisExact, FractInRange, SignedFract
  <1>7. CASE Tick \/ SetInterrupts \/ Micros \/ MicrosTicks \/ MicrosFlags
             \/ MicrosCount \/ MicrosReturn \/ Millis \/ MillisLow \/ MillisHigh
    BY <1>6, <1>7
    DEF Tick, SetInterrupts, Micros, MicrosTicks, MicrosFlags, MicrosCount, MicrosReturn,
        Millis, MillisLow, MillisHigh, locals, ghosts, Whole
  <1>8. CASE SetMillis
    BY <1>6, <1>8, ArgumentsAssumption DEF SetMillis, Whole
  <1>9. CASE UNCHANGED vars
    BY <1>6, <1>9 DEF vars, locals, ghosts, Whole
  <1> QED
    BY <1>1, <1>3, <1>4, <1>5, <1>7, <1>8, <1>9 DEF Next

WholeTCA == kind \in Kinds /\ (kind = "TCA" => Whole)

(* However many overflows a TCA or TCD has counted, and whatever their     *)
(* length in microseconds, the milliseconds and the fraction are exactly   *)
(* their sum; the 16-bit fraction does not wrap unnoticed.                 *)
THEOREM NoMicrosecondLost == Spec => []MillisExact
  <1>1. Init => WholeTCA
    BY OvfMicrosAssumption
    DEF Init, WholeTCA, Whole, FractInRange, MillisExact, SignedFract, FRACT_MAX, U16
  <1>2. WholeTCA /\ [Next]_vars => WholeTCA'
    <2> SUFFICES ASSUME WholeTCA, [Next]_vars
                 PROVE  WholeTCA'
      OBVIOUS
    <2>1. kind' = kind
      BY DEF Next, vars
    <2> QED
      BY <2>1, WholeKept DEF WholeTCA
  <1>3. WholeTCA => MillisExact
    BY DEF WholeTCA, Whole, MillisExact
  <1> QED
    BY <1>1, <1>2, <1>3, PTL DEF Spec

----------------------------------------------------------------------------
(* What millis() returns. *)

Milliseconds ==
    /\ kind \in Kinds
    /\ overflows \in Nat /\ millisTCA \in Nat
    /\ word \in Nat /\ target \in Nat /\ returned \in Nat

(* Between its loads millis() keeps interrupts off, so the part it has     *)
(* read is still the count's; set_millis() starts the count anew, and      *)
(* nothing else lets it fall below what was returned.                      *)
HonestInv ==
    /\ Milliseconds
    /\ Excluded
    /\ pc = "msHigh" => word = timer_millis % Word
    /\ pc \in {"stLow", "stHigh"} => returned = 0
    /\ returned <= timer_millis

(* A count put together from its high and its low part is the count.       *)
LEMMA PartsMakeWhole ==
  ASSUME NEW x \in Nat, NEW w \in Nat \ {0}
  PROVE  (x \div w) * w + (x % w) = x
  BY Z3

LEMMA PartsAreNatural ==
  ASSUME NEW x \in Nat, NEW y \in Nat, NEW w \in Nat \ {0}
  PROVE  (x \div w) * w + (y % w) \in Nat /\ y % w \in Nat
  BY Z3

(* The interrupt adds to the milliseconds, never takes from them.          *)
LEMMA OverflowAddsMillis ==
  ASSUME Milliseconds, Overflow, UNCHANGED kind
  PROVE  /\ overflows' \in Nat /\ millisTCA' \in Nat
         /\ timer_millis <= timer_millis'
  <1>1. Unit \in Nat
    BY UnitPositive DEF Milliseconds
  <1>2. OvfMicros[kind] \in Nat
    BY OvfMicrosAssumption DEF Milliseconds
  <1>3. MILLIS_INC \in Nat
    BY <1>2 DEF MILLIS_INC
  <1>4. MillisAfterOverflow \in Nat
    BY <1>3 DEF MillisAfterOverflow
  <1> QED
    BY <1>1, <1>4 DEF Overflow, Milliseconds, timer_millis

LEMMA HonestInitially == Init => HonestInv
  BY DEF Init, HonestInv, Milliseconds, Excluded, InSection, timer_millis

LEMMA HonestKept ==
  ASSUME HonestInv, [Next]_vars
  PROVE  HonestInv'
  <1>a. kind' = kind
    BY DEF Next, vars
  <1> USE <1>a DEF HonestInv, Milliseconds, Excluded, InSection, counters, locals, ghosts
  <1>1. CASE Tick
    BY <1>1 DEF Tick, timer_millis
  <1>2. CASE Overflow
    <2>1. /\ overflows' \in Nat /\ millisTCA' \in Nat
          /\ timer_millis <= timer_millis' /\ timer_millis \in Nat
      BY <1>2, OverflowAddsMillis DEF timer_millis
    <2>2. pc # "msHigh"
      BY <1>2 DEF Overflow
    <2>3. timer_millis' \in Nat
      BY <2>1 DEF timer_millis
    <2> QED
      BY <1>2, <2>1, <2>2, <2>3 DEF Overflow
  <1>3. CASE SetInterrupts
    BY <1>3 DEF SetInterrupts, timer_millis
  <1>4. CASE Micros \/ Millis
    BY <1>4 DEF Micros, Millis, Goto, Cli, timer_millis
  <1>5. CASE MicrosTicks \/ MicrosFlags \/ MicrosReturn
    BY <1>5 DEF MicrosTicks, MicrosFlags, MicrosReturn, Goto, timer_millis
  <1>6. CASE MicrosCount
    BY <1>6 DEF MicrosCount, Goto, Restore, timer_millis
  <1>7. CASE MillisLow
    <2>1. timer_millis \in Nat
      BY DEF timer_millis
    <2>2. timer_millis % Word \in Nat
      BY <2>1, ArgumentsAssumption, PartsAreNatural
    <2>3. timer_millis' = timer_millis /\ word' = timer_millis % Word
      BY <1>7 DEF MillisLow, timer_millis
    <2> QED
      BY <1>7, <2>2, <2>3 DEF MillisLow, Goto
  <1>8. CASE MillisHigh
    <2>1. timer_millis \in Nat
      BY DEF timer_millis
    <2>2. returned' = timer_millis
      BY <1>8, <2>1, ArgumentsAssumption, PartsMakeWhole DEF MillisHigh, Goto
    <2>3. timer_millis' = timer_millis
      BY <1>8 DEF MillisHigh, timer_millis
    <2> QED
      BY <1>8, <2>1, <2>2, <2>3 DEF MillisHigh, Goto
  <1>9. ASSUME NEW m \in Nat, ByProgram(m), UNCHANGED returned
        PROVE  /\ overflows' \in Nat /\ millisTCA' \in Nat /\ timer_millis' = m
    BY <1>9 DEF ByProgram, SetTimerMillis, timer_millis
  <1>10. CASE NudgeMillis
    <2>1. PICK n \in Nudges : ByProgram(timer_millis + n)
      BY <1>10 DEF NudgeMillis
    <2>2. timer_millis \in Nat /\ n \in Nat
      BY ArgumentsAssumption DEF timer_millis
    <2>3. overflows' \in Nat /\ millisTCA' \in Nat /\ timer_millis' = timer_millis + n
      BY <1>9, <1>10, <2>1, <2>2 DEF NudgeMillis
    <2> QED
      BY <1>10, <2>2, <2>3 DEF NudgeMillis
  <1>11. CASE SetMillis
    BY <1>11, ArgumentsAssumption DEF SetMillis, Goto, timer_millis
  <1>12. CASE SetMillisLow
    <2>1. (timer_millis \div Word) * Word + (target % Word) \in Nat
      BY PartsAreNatural, ArgumentsAssumption DEF timer_millis
    <2>2. /\ overflows' \in Nat /\ millisTCA' \in Nat
          /\ timer_millis' = (timer_millis \div Word) * Word + (target % Word)
      BY <1>9, <1>12, <2>1 DEF SetMillisLow
    <2> QED
      BY <1>12, <2>1, <2>2 DEF SetMillisLow, Goto
  <1>13. CASE SetMillisHigh
    <2>1. (target \div Word) * Word + (timer_millis % Word) \in Nat
      BY PartsAreNatural, ArgumentsAssumption DEF timer_millis
    <2>2. /\ overflows' \in Nat /\ millisTCA' \in Nat
          /\ timer_millis' = (target \div Word) * Word + (timer_millis % Word)
      BY <1>9, <1>13, <2>1 DEF SetMillisHigh
    <2> QED
      BY <1>13, <2>1, <2>2 DEF SetMillisHigh, Goto
  <1>14. CASE UNCHANGED vars
    BY <1>14 DEF vars, timer_millis
  <1> QED
    BY <1>1, <1>2, <1>3, <1>4, <1>5, <1>6, <1>7, <1>8, <1>10, <1>11, <1>12, <1>13, <1>14
    DEF Next

(* millis() returns the count, in however many parts it loads it, and so   *)
(* never less than it returned before.                                     *)
THEOREM MillisNeverJumps == Spec => MillisHonest
  <1>1. Init => HonestInv
    BY HonestInitially
  <1>2. HonestInv /\ [Next]_vars => HonestInv'
    BY HonestKept
  <1>3. ASSUME HonestInv, HonestInv', [Next]_vars
        PROVE  [MillisHigh => returned' \in returned..timer_millis]_vars
    <2> SUFFICES ASSUME MillisHigh
                 PROVE  returned' \in returned..timer_millis
      OBVIOUS
    <2>1. timer_millis \in Nat /\ returned \in Nat
      BY <1>3 DEF HonestInv, Milliseconds, timer_millis
    <2>2. returned' = timer_millis
      BY <1>3, <2>1, ArgumentsAssumption, PartsMakeWhole DEF MillisHigh, Goto, HonestInv
    <2> QED
      BY <1>3, <2>1, <2>2 DEF HonestInv
  <1> QED
    BY <1>1, <1>2, <1>3, PTL DEF Spec, MillisHonest

----------------------------------------------------------------------------
(* The RTC for millis *)

CONSTANTS OvfLatency, MaskedFor, MillisSettings, AtOverflow, MaxTurns
VARIABLES rtccnt, ovf, rtcmillis, rtcpc, rtccount, m, masked, base, turns, rtcsampled
Rtc == INSTANCE RtcMillis
       WITH MaxLatency <- OvfLatency, MaxSection <- MaskedFor, Settings <- MillisSettings,
            cnt <- rtccnt, flag <- ovf, timer_millis <- rtcmillis, pc <- rtcpc,
            section <- masked, sampled <- rtcsampled

(* The overflow is heard, and every function done, within half a turn of   *)
(* the counter, 32 seconds; set_millis() meets no overflow.                *)
RtcInTime ==
    /\ OvfLatency \in Nat /\ OvfLatency < Rtc!TOP \div 2
    /\ MaskedFor \in Nat /\ MaskedFor < Rtc!TOP \div 2
    /\ MillisSettings \subseteq Nat /\ ~AtOverflow

(* What is still to be added to the milliseconds for an overflow. *)
Pending == IF ovf THEN Rtc!MILLIS_INC ELSE 0

RtcTypes ==
    /\ rtccnt \in Nat /\ rtccnt < Rtc!TOP /\ ovf \in BOOLEAN
    /\ rtcmillis \in Nat /\ masked \in Nat /\ masked <= MaskedFor
    /\ rtcpc \in {"idle", "count", "flag", "return", "reset"}
    /\ rtccount \in Nat /\ rtccount < Rtc!TOP /\ m \in Nat
    /\ base \in Nat /\ turns \in Nat

(* An overflow is counted early in the next turn, and set_millis() meets   *)
(* none.                                                                   *)
RtcPrompt ==
    /\ ovf => rtccnt <= OvfLatency
    /\ rtcpc = "reset" => ~ovf /\ rtccnt + (MaskedFor - masked) < Rtc!TOP

(* Every turn is in the milliseconds or pending. *)
RtcCounted == rtcpc # "reset" => rtcmillis + Pending = base + turns * Rtc!MILLIS_INC

(* What millis() will return is the time at which it read the counter,     *)
(* also if there has been an overflow since.                               *)
RtcRead ==
    /\ rtcpc = "flag" =>
        /\ m = rtcmillis
        /\ \/ /\ rtccount <= rtccnt /\ rtccnt <= rtccount + masked
              /\ ovf => rtccount <= OvfLatency
              /\ rtcsampled = m + Pending + Rtc!Scaled(rtccount)
           \/ /\ ovf /\ Rtc!TOP + rtccnt <= rtccount + masked
              /\ rtcsampled = m + Rtc!Scaled(rtccount)
    /\ rtcpc = "return" => m = rtcsampled

(* Inductive. *)
RtcInv == RtcTypes /\ RtcPrompt /\ RtcCounted /\ RtcRead

(* The counter's share of a turn. *)
LEMMA ScaledRises ==
    ASSUME NEW c \in Nat, c < Rtc!TOP
    PROVE  /\ Rtc!Scaled(c) \in Nat
           /\ Rtc!Scaled(c) <= Rtc!Scaled(c + 1)
           /\ Rtc!Scaled(c) <= Rtc!MILLIS_INC
           /\ Rtc!Scaled(0) = 0
<1>1. c \div 32 <= c /\ c \div 32 \in Nat /\ c \div 128 \in Nat
  OBVIOUS
<1>2. Rtc!Scaled(c) \in Nat /\ Rtc!Scaled(0) = 0
  BY <1>1 DEF Rtc!Scaled
<1>3. Rtc!Scaled(c) <= Rtc!Scaled(c + 1)
  BY DEF Rtc!Scaled
<1>4. Rtc!Scaled(c) <= Rtc!MILLIS_INC
  BY DEF Rtc!Scaled, Rtc!MILLIS_INC, Rtc!TOP
<1>5. QED
  BY <1>2, <1>3, <1>4

LEMMA RtcInitially ==
    ASSUME RtcInTime, Rtc!Init
    PROVE  RtcInv
<1>1. RtcTypes
  <2>1. ovf \in BOOLEAN
    BY Zenon DEF Rtc!Init
  <2>2. QED
    BY <2>1 DEF Rtc!Init, RtcInTime, RtcTypes, Rtc!TOP
<1>2. Pending = 0
  BY DEF Rtc!Init, Pending
<1>3. RtcCounted
  BY <1>2 DEF Rtc!Init, RtcCounted, Rtc!MILLIS_INC
<1>4. QED
  BY <1>1, <1>3 DEF Rtc!Init, RtcInv, RtcPrompt, RtcRead

(* The counter goes on, to the next turn or within one.                    *)
LEMMA RtcTicks ==
    ASSUME RtcInTime, RtcInv, Rtc!Tick
    PROVE  RtcInv'
<1> DEFINE T == Rtc!TOP
<1>1. T = 64 * 1024 /\ T \div 2 < T - 1
  BY DEF Rtc!TOP
<1>2. RtcTypes'
  <2>1. /\ masked' \in Nat /\ masked' <= MaskedFor
        /\ UNCHANGED <<rtcmillis, rtcpc, rtccount, m, base>>
    BY DEF RtcInTime, RtcInv, RtcTypes, Rtc!Tick
  <2>2. rtccnt' \in Nat /\ rtccnt' < T /\ turns' \in Nat
    BY <1>1 DEF RtcInv, RtcTypes, Rtc!Tick
  <2>3. ovf' \in BOOLEAN
    BY Zenon DEF RtcInv, RtcTypes, Rtc!Tick
  <2>4. QED
    BY <2>1, <2>2, <2>3 DEF RtcInv, RtcTypes
<1>3. CASE rtccnt + 1 = T
  <2>1. ~ovf /\ ovf' /\ rtccnt' = 0 /\ rtcpc # "reset"
    BY <1>1, <1>3 DEF RtcInTime, RtcInv, RtcTypes, RtcPrompt, Rtc!Tick
  <2>2. Pending = 0 /\ Pending' = Rtc!MILLIS_INC
    BY <2>1 DEF Pending, Rtc!MILLIS_INC
  <2>3. RtcPrompt'
    BY <2>1 DEF RtcInTime, RtcPrompt, Rtc!Tick
  <2>4. RtcCounted'
    BY <1>3, <2>1, <2>2 DEF RtcInv, RtcTypes, RtcCounted, Rtc!Tick, Rtc!MILLIS_INC
  <2>5. RtcRead'
    <3> DEFINE S == Rtc!Scaled(rtccount)
    <3>1. CASE rtcpc = "flag"
      <4>1. /\ m = rtcmillis /\ rtccnt <= rtccount + masked
            /\ rtcsampled = m + 0 + S
        BY <2>1, <2>2, <3>1 DEF RtcInv, RtcRead
      <4>2. S \in Nat
        BY <3>1, ScaledRises DEF RtcInv, RtcTypes
      <4>3. masked' = masked + 1 /\ UNCHANGED <<rtcmillis, rtcpc, rtccount, m, rtcsampled>>
        BY <3>1 DEF Rtc!Tick
      <4>4. T + rtccnt' <= rtccount' + masked'
        BY <1>1, <1>3, <2>1, <4>1, <4>3 DEF RtcInv, RtcTypes
      <4>5. Rtc!Scaled(rtccount)' = S
        BY <4>3 DEF Rtc!Scaled
      <4>6. rtcsampled' = m' + Rtc!Scaled(rtccount)'
        BY <4>1, <4>2, <4>3, <4>5 DEF RtcInv, RtcTypes
      <4>7. QED
        BY <2>1, <3>1, <4>1, <4>3, <4>4, <4>6 DEF RtcRead
    <3>2. CASE rtcpc # "flag"
      BY <3>2 DEF RtcInv, RtcRead, Rtc!Tick
    <3>3. QED
      BY <3>1, <3>2
  <2>6. QED
    BY <1>2, <2>3, <2>4, <2>5 DEF RtcInv
<1>4. CASE rtccnt + 1 # T
  <2>1. rtccnt' = rtccnt + 1 /\ ovf' = ovf
    BY <1>4 DEF Rtc!Tick
  <2>2. Pending' = Pending
    BY <2>1 DEF Pending
  <2>3. RtcPrompt'
    BY <2>1 DEF RtcInTime, RtcInv, RtcTypes, RtcPrompt, Rtc!Tick
  <2>4. RtcCounted'
    BY <1>4, <2>1, <2>2 DEF RtcInv, RtcCounted, Rtc!Tick
  <2>5. RtcRead'
    <3>1. CASE rtcpc = "flag"
      <4>1. masked' = masked + 1 /\ UNCHANGED <<rtcmillis, rtcpc, rtccount, m, rtcsampled>>
        BY <3>1 DEF Rtc!Tick
      <4>2. Rtc!Scaled(rtccount)' = Rtc!Scaled(rtccount)
        BY <4>1 DEF Rtc!Scaled
      <4>3. rtccount' <= rtccnt \/ T + rtccnt <= rtccount + masked
        BY <3>1, <4>1 DEF RtcInv, RtcRead
      <4>4. /\ rtccount <= rtccnt /\ rtccnt <= rtccount + masked =>
                 rtccount' <= rtccnt' /\ rtccnt' <= rtccount' + masked'
            /\ T + rtccnt <= rtccount + masked =>
                 T + rtccnt' <= rtccount' + masked'
        BY <1>1, <2>1, <4>1 DEF RtcInv, RtcTypes
      <4>5. QED
        BY <2>1, <2>2, <3>1, <4>1, <4>2, <4>4 DEF RtcInv, RtcRead
    <3>2. CASE rtcpc # "flag"
      BY <3>2 DEF RtcInv, RtcRead, Rtc!Tick
    <3>3. QED
      BY <3>1, <3>2
  <2>6. QED
    BY <1>2, <2>3, <2>4, <2>5 DEF RtcInv
<1>5. QED
  BY <1>3, <1>4

(* Where the count is read, and where the overflow flag is. *)
LEMMA RtcReads ==
    ASSUME RtcInTime, RtcInv, Rtc!MillisCount \/ Rtc!MillisFlag
    PROVE  RtcInv'
<1>1. Rtc!TOP = 64 * 1024
  BY DEF Rtc!TOP
<1>2. CASE Rtc!MillisCount
  <2>1. /\ rtcpc = "count" /\ rtcpc' = "flag" /\ rtccount' = rtccnt /\ m' = rtcmillis
        /\ rtcsampled' = Rtc!Now
        /\ UNCHANGED <<rtccnt, ovf, rtcmillis, masked, base, turns>>
    BY <1>2 DEF Rtc!MillisCount
  <2>2. RtcTypes'
    BY <2>1 DEF RtcInv, RtcTypes
  <2>3. Pending' = Pending /\ Rtc!Scaled(rtccount)' = Rtc!Scaled(rtccnt)
    BY <2>1 DEF Pending, Rtc!Scaled
  <2>4. RtcPrompt' /\ RtcCounted'
    BY <2>1, <2>3 DEF RtcInv, RtcPrompt, RtcCounted
  <2>5. rtcsampled' = m' + Pending' + Rtc!Scaled(rtccount)'
    BY <2>1, <2>3 DEF RtcInv, RtcCounted, Rtc!Now
  <2>6. rtccount' <= rtccnt' /\ rtccnt' <= rtccount' + masked'
    BY <2>1 DEF RtcInv, RtcTypes
  <2>7. RtcRead'
    BY <2>1, <2>5, <2>6 DEF RtcInv, RtcPrompt, RtcRead
  <2>8. QED
    BY <2>2, <2>4, <2>7 DEF RtcInv
<1>3. CASE Rtc!MillisFlag
  <2> DEFINE S == Rtc!Scaled(rtccount)
  <2>1. /\ rtcpc = "flag" /\ rtcpc' = "return"
        /\ m' = m + (IF Rtc!Missed THEN Rtc!MILLIS_INC ELSE 0) + S
        /\ UNCHANGED <<rtccnt, ovf, rtcmillis, rtccount, masked, base, turns, rtcsampled>>
    BY <1>3 DEF Rtc!MillisFlag
  <2>2. S \in Nat
    BY ScaledRises DEF RtcInv, RtcTypes
  <2>3. RtcTypes'
    BY <2>1, <2>2 DEF RtcInv, RtcTypes, Rtc!MILLIS_INC
  <2>4. RtcPrompt' /\ RtcCounted'
    BY <2>1 DEF RtcInv, RtcPrompt, RtcCounted, Pending
  <2>5. \/ (Rtc!Missed <=> ovf) /\ rtcsampled = m + Pending + S
        \/ ~Rtc!Missed /\ rtcsampled = m + S
    <3>1. rtccount < Rtc!TOP /\ rtccount \in Nat /\ masked <= MaskedFor /\ masked \in Nat
      BY DEF RtcInv, RtcTypes
    <3>2. ASSUME ovf => rtccount <= OvfLatency
          PROVE  Rtc!Missed <=> ovf
      BY <1>1, <3>1, <3>2 DEF RtcInTime, Rtc!Missed, RtcInv, RtcTypes
    <3>3. ASSUME Rtc!TOP + rtccnt <= rtccount + masked
          PROVE  ~Rtc!Missed
      BY <1>1, <3>1, <3>3 DEF RtcInTime, Rtc!Missed, RtcInv, RtcTypes
    <3>4. QED
      BY <2>1, <3>2, <3>3 DEF RtcInv, RtcRead
  <2>6. m' = rtcsampled
    BY <2>1, <2>2, <2>5 DEF Pending, RtcInv, RtcTypes, Rtc!MILLIS_INC
  <2>7. RtcRead'
    BY <2>1, <2>6 DEF RtcRead
  <2>8. QED
    BY <2>3, <2>4, <2>7 DEF RtcInv
<1>4. QED
  BY <1>2, <1>3

LEMMA RtcKept ==
    ASSUME RtcInTime, RtcInv, [Rtc!Next]_Rtc!vars
    PROVE  RtcInv'
<1>1. CASE Rtc!Tick
  BY <1>1, RtcTicks
<1>2. CASE Rtc!Overflow
  <2>1. Pending = Rtc!MILLIS_INC /\ Pending' = 0
    BY <1>2 DEF Rtc!Overflow, Pending
  <2>2. RtcPrompt' /\ RtcRead'
    BY <1>2 DEF Rtc!Overflow, RtcInv, RtcPrompt, RtcRead
  <2>3. RtcCounted'
    BY <1>2, <2>1 DEF Rtc!Overflow, RtcInv, RtcTypes, RtcCounted, Rtc!MILLIS_INC
  <2>4. ovf' \in BOOLEAN
    BY <1>2, Zenon DEF Rtc!Overflow
  <2>5. RtcTypes'
    BY <1>2, <2>4 DEF Rtc!Overflow, RtcInv, RtcTypes, Rtc!MILLIS_INC
  <2>6. QED
    BY <2>2, <2>3, <2>5 DEF RtcInv
<1>3. CASE Rtc!Millis
  BY <1>3 DEF Rtc!Millis, RtcInTime, RtcInv, RtcTypes, RtcPrompt, RtcCounted, RtcRead, Pending
<1>4. CASE Rtc!MillisCount \/ Rtc!MillisFlag
  BY <1>4, RtcReads
<1>5. CASE Rtc!MillisReturn
  BY <1>5
  DEF Rtc!MillisReturn, RtcInTime, RtcInv, RtcTypes, RtcPrompt, RtcCounted, RtcRead, Pending,
      Rtc!TOP
<1>6. CASE Rtc!SetMillis
  BY <1>6 DEF Rtc!SetMillis, RtcInTime, RtcInv, RtcTypes, RtcPrompt, RtcCounted, RtcRead
<1>7. CASE Rtc!SetMillisCount
  <2>1. rtcpc = "reset" /\ rtcpc' = "idle" /\ ~ovf /\ ~ovf'
    BY <1>7 DEF Rtc!SetMillisCount, RtcInv, RtcPrompt
  <2>2. Pending' = 0
    BY <2>1 DEF Pending
  <2>3. RtcTypes'
    BY <1>7 DEF Rtc!SetMillisCount, Rtc!CountReset, RtcInTime, RtcInv, RtcTypes, Rtc!TOP
  <2>4. RtcCounted'
    BY <1>7, <2>2
    DEF Rtc!SetMillisCount, RtcInv, RtcTypes, RtcCounted, Rtc!MILLIS_INC
  <2>5. QED
    BY <2>1, <2>3, <2>4 DEF RtcInv, RtcPrompt, RtcRead
<1>8. CASE UNCHANGED Rtc!vars
  BY <1>8 DEF Rtc!vars, RtcInv, RtcTypes, RtcPrompt, RtcCounted, RtcRead, Pending, Rtc!Scaled
<1>9. QED
  BY <1>1, <1>2, <1>3, <1>4, <1>5, <1>6, <1>7, <1>8 DEF Rtc!Next

(* The time does not go back, but where set_millis() sets it. *)
LEMMA RtcForward ==
    ASSUME RtcInTime, RtcInv, [Rtc!Next]_Rtc!vars, ~Rtc!SetMillisCount
    PROVE  Rtc!Now' >= Rtc!Now
<1>1. CASE Rtc!Tick
  <2> DEFINE S == Rtc!Scaled(rtccnt)
             S1 == Rtc!Scaled(rtccnt)'
  <2>1. S \in Nat /\ S <= Rtc!MILLIS_INC
    BY ScaledRises DEF RtcInv, RtcTypes
  <2>2. CASE rtccnt + 1 = Rtc!TOP
    <3>1. turns' = turns + 1 /\ base' = base /\ rtccnt' = 0
      BY <1>1, <2>2 DEF Rtc!Tick
    <3>2. S1 = 0
      BY <3>1 DEF Rtc!Scaled
    <3>3. QED
      BY <2>1, <3>1, <3>2 DEF Rtc!Now, RtcInv, RtcTypes, Rtc!MILLIS_INC
  <2>3. CASE rtccnt + 1 # Rtc!TOP
    <3>1. turns' = turns /\ base' = base /\ rtccnt' = rtccnt + 1
      BY <1>1, <2>3 DEF Rtc!Tick
    <3>2. rtccnt + 1 \in Nat /\ rtccnt + 1 < Rtc!TOP
      BY <2>3 DEF RtcInv, RtcTypes, Rtc!TOP
    <3>3. S1 = Rtc!Scaled(rtccnt + 1)
      BY <3>1 DEF Rtc!Scaled
    <3>4. S1 \in Nat /\ S <= S1
      BY <3>2, <3>3, ScaledRises DEF RtcInv, RtcTypes
    <3>5. QED
      BY <2>1, <3>1, <3>4 DEF Rtc!Now, RtcInv, RtcTypes, Rtc!MILLIS_INC
  <2>4. QED
    BY <2>2, <2>3
<1>2. CASE ~Rtc!Tick
  <2>1. UNCHANGED <<rtccnt, base, turns>>
    BY <1>2
    DEF Rtc!Next, Rtc!vars, Rtc!Overflow, Rtc!Millis, Rtc!MillisCount, Rtc!MillisFlag,
        Rtc!MillisReturn, Rtc!SetMillis
  <2>2. Rtc!Now' = Rtc!Now
    BY <2>1 DEF Rtc!Now, Rtc!Scaled
  <2>3. Rtc!Scaled(rtccnt) \in Nat
    BY ScaledRises DEF RtcInv, RtcTypes
  <2>4. Rtc!Now \in Int
    BY <2>3 DEF Rtc!Now, RtcInv, RtcTypes, Rtc!MILLIS_INC
  <2>5. QED
    BY <2>2, <2>4
<1>3. QED
  BY <1>1, <1>2

(* The RTC for millis: what millis() returns is the time at which it read  *)
(* the counter, wherever the overflow comes, the time never goes back, and *)
(* set_millis() sets it.                                                   *)
THEOREM RtcTellsTime == ASSUME RtcInTime PROVE Rtc!Spec => Rtc!RtcKeepsTime
<1>1. Rtc!Init => RtcInv
  BY RtcInitially
<1>2. RtcInv /\ [Rtc!Next]_Rtc!vars => RtcInv'
  BY RtcKept
<1>3. ASSUME RtcInv, [Rtc!Next]_Rtc!vars
      PROVE  [Rtc!MillisIsTime /\ Rtc!TimeForward /\ Rtc!SetTakes]_Rtc!vars
  <2>1. Rtc!MillisIsTime
    BY <1>3 DEF Rtc!MillisIsTime, Rtc!MillisReturn, RtcInv, RtcRead
  <2>2. Rtc!TimeForward
    BY <1>3, RtcForward DEF Rtc!TimeForward
  <2>3. Rtc!SetTakes
    <3> SUFFICES ASSUME Rtc!SetMillisCount
                 PROVE  rtcmillis' + (IF ovf' THEN Rtc!MILLIS_INC ELSE 0) + Rtc!Scaled(rtccnt)' = base'
      BY DEF Rtc!SetTakes, Rtc!Scaled
    <3>1. ~ovf' /\ rtccnt' = 0 /\ rtcmillis' = rtcmillis /\ base' = rtcmillis /\ rtcmillis \in Nat
      BY <1>3 DEF Rtc!SetMillisCount, Rtc!CountReset, RtcInv, RtcPrompt, RtcTypes
    <3>2. Rtc!Scaled(rtccnt)' = 0
      BY <3>1 DEF Rtc!Scaled
    <3>3. QED
      BY <3>1, <3>2
  <2>4. QED
    BY <2>1, <2>2, <2>3
<1>4. QED
  BY <1>1, <1>2, <1>3, PTL DEF Rtc!Spec, Rtc!RtcKeepsTime

----------------------------------------------------------------------------
(* Quotients, remainders and multiples *)

LEMMA ModIs ==
    ASSUME NEW n \in Nat \ {0}, NEW a \in Int
    PROVE  /\ a % n \in 0..n-1
           /\ a \in 0..n-1 => a % n = a
           /\ n <= a /\ a < n + n => a % n = a - n
<1>1. a % n \in 0..n-1
  OBVIOUS
<1>2. a \in 0..n-1 => a % n = a
  OBVIOUS
<1>3. n <= a /\ a < n + n => a % n = a - n
  OBVIOUS
<1>5. QED
  BY <1>1, <1>2, <1>3

LEMMA DivMod ==
    ASSUME NEW n \in Nat, NEW b \in Nat \ {0}
    PROVE  /\ n \div b \in Nat /\ n % b \in Nat /\ n % b < b
           /\ n = (n \div b) * b + (n % b)
<1>1. n \div b \in Nat /\ n % b \in Nat /\ n % b < b
  OBVIOUS
<1>2. n = (n \div b) * b + (n % b)
  BY Z3
<1> QED
  BY <1>1, <1>2

(* A number has one quotient and one remainder.                            *)
LEMMA Unique ==
    ASSUME NEW w \in Nat \ {0}, NEW q \in Nat, NEW r \in Nat, r < w,
           NEW p \in Nat, NEW s \in Nat, s < w,
           q * w + r = p * w + s
    PROVE  p = q /\ r = s
<1>1. ASSUME p < q PROVE FALSE
  <2>1. PICK k \in Nat : q = p + 1 + k
    <3>1. q - p - 1 \in Nat /\ q = p + 1 + (q - p - 1)
      BY <1>1
    <3>2. QED
      BY <3>1
  <2>2. q * w = p * w + w + k * w /\ k * w \in Nat /\ p * w \in Nat
    BY <2>1
  <2>3. QED
    BY <2>2
<1>2. ASSUME q < p PROVE FALSE
  <2>1. PICK k \in Nat : p = q + 1 + k
    <3>1. p - q - 1 \in Nat /\ p = q + 1 + (p - q - 1)
      BY <1>2
    <3>2. QED
      BY <3>1
  <2>2. p * w = q * w + w + k * w /\ k * w \in Nat /\ q * w \in Nat
    BY <2>1
  <2>3. QED
    BY <2>2
<1>3. p = q
  BY <1>1, <1>2
<1>4. q * w \in Nat
  OBVIOUS
<1>5. QED
  BY <1>3, <1>4

LEMMA PartsOf ==
    ASSUME NEW w \in Nat \ {0}, NEW q \in Nat, NEW r \in Nat, r < w
    PROVE  (q * w + r) \div w = q /\ (q * w + r) % w = r
<1> DEFINE c == q * w + r
<1>1. c \in Nat
  OBVIOUS
<1> HIDE DEF c
<1>2. c \div w \in Nat /\ c % w \in Nat /\ c % w < w /\ c = (c \div w) * w + (c % w)
  BY <1>1, DivMod
<1> DEFINE p == c \div w
           s == c % w
<1>3. p \in Nat /\ s \in Nat /\ s < w /\ q * w + r = p * w + s
  BY <1>2 DEF c
<1> HIDE DEF p, s
<1>4. p = q /\ r = s
  BY <1>3, Unique
<1>5. QED
  BY <1>4 DEF p, s, c

(* What a clock of n times w counts, at c, shows of both when it is at t.  *)
AfterTick(n, w, c, t) ==
    /\ t \in Nat /\ t < n * w
    /\ c \div w \in Nat /\ c \div w < n /\ c % w \in Nat /\ c % w < w
    /\ \/ /\ (c % w) + 1 < w
          /\ t % w = (c % w) + 1 /\ t \div w = c \div w
       \/ /\ (c % w) + 1 = w /\ (c \div w) + 1 < n
          /\ t % w = 0 /\ t \div w = (c \div w) + 1
       \/ /\ (c % w) + 1 = w /\ (c \div w) + 1 = n
          /\ t % w = 0 /\ t \div w = 0

LEMMA WrapTick ==
    ASSUME NEW w \in Nat \ {0}, NEW n \in Nat \ {0}, NEW c \in Nat, c < n * w
    PROVE  AfterTick(n, w, c, (c + 1) % (n * w))
<1> DEFINE q == c \div w
           r == c % w
           N == n * w
           t == (c + 1) % N
<1>1. q \in Nat /\ r \in Nat /\ r < w /\ c = q * w + r
  BY DivMod
<1>2. n * w \in Nat \ {0}
  OBVIOUS
<1>3. /\ t \in Nat /\ t < N
      /\ c + 1 < N => t = c + 1
      /\ c + 1 = N => t = 0
  <2>1. N \in Nat \ {0} /\ c < N
    BY <1>2
  <2> HIDE DEF N
  <2>2. /\ t \in 0..N-1
        /\ c + 1 \in 0..N-1 => t = c + 1
        /\ N <= c + 1 /\ c + 1 < N + N => t = (c + 1) - N
    <3>1. c + 1 \in Int
      OBVIOUS
    <3>2. QED
      BY <2>1, <3>1, ModIs
  <2>3. QED
    BY <2>1, <2>2
<1> HIDE DEF q, r, t
<1>4. q < n
  <2> SUFFICES ASSUME n <= q PROVE FALSE
    BY <1>1
  <2>1. PICK k \in Nat : q = n + k
    <3>1. q - n \in Nat /\ q = n + (q - n)
      BY <1>1
    <3>2. QED
      BY <3>1
  <2>2. q * w = n * w + k * w /\ k * w \in Nat /\ n * w \in Nat
    BY <2>1
  <2>3. QED
    BY <1>1, <2>2
<1>5. PICK k \in Nat : n = q + 1 + k
  <2>1. n - q - 1 \in Nat /\ n = q + 1 + (n - q - 1)
    BY <1>1, <1>4
  <2>2. QED
    BY <2>1
<1>6. N = q * w + w + k * w /\ k * w \in Nat /\ q * w \in Nat
  BY <1>1, <1>5
<1>7. CASE r + 1 < w
  <2>1. c + 1 < N /\ c + 1 = q * w + (r + 1)
    BY <1>1, <1>6, <1>7
  <2>2. t = q * w + (r + 1) /\ r + 1 \in Nat
    BY <1>1, <1>3, <2>1
  <2>3. t \div w = q /\ t % w = r + 1
    BY <1>1, <1>7, <2>2, PartsOf
  <2>4. QED
    BY <1>1, <1>3, <1>4, <1>7, <2>3 DEF AfterTick, q, r, t
<1>8. CASE r + 1 = w
  <2>1. c + 1 = q * w + w
    BY <1>1, <1>6, <1>8
  <2>2. CASE q + 1 < n
    <3>1. k >= 1
      BY <1>1, <1>5, <2>2
    <3>2. k * w >= w
      BY <3>1
    <3>3. c + 1 < N
      BY <1>6, <2>1, <3>2
    <3>4. t = (q + 1) * w + 0
      BY <1>1, <1>3, <2>1, <3>3
    <3>5. t \div w = q + 1 /\ t % w = 0
      BY <1>1, <3>4, PartsOf
    <3>6. QED
      BY <1>1, <1>3, <1>4, <1>8, <2>2, <3>5 DEF AfterTick, q, r, t
  <2>3. CASE q + 1 = n
    <3>1. k = 0
      BY <1>1, <1>5, <2>3
    <3>2. c + 1 = N
      BY <1>6, <2>1, <3>1
    <3>3. t = 0 * w + 0
      BY <1>3, <3>2
    <3>4. t \div w = 0 /\ t % w = 0
      BY <3>3, PartsOf
    <3>5. QED
      BY <1>1, <1>3, <1>4, <1>8, <2>3, <3>4 DEF AfterTick, q, r, t
  <2>4. QED
    BY <1>1, <1>4, <2>2, <2>3
<1>9. QED
  BY <1>1, <1>3, <1>7, <1>8 DEF AfterTick, q, r, t

LEMMA Multiples ==
    ASSUME NEW w \in Nat \ {0}, NEW a \in Nat, NEW b \in Nat
    PROVE  /\ a * w \in Nat /\ (a + 1) * w = a * w + w
           /\ a <= b => a * w <= b * w
           /\ a < b => a * w + w <= b * w
<1>1. a * w \in Nat /\ (a + 1) * w = a * w + w
  OBVIOUS
<1>2. ASSUME a <= b PROVE a * w <= b * w
  <2>1. PICK k \in Nat : b = a + k
    <3>1. b - a \in Nat /\ b = a + (b - a)
      BY <1>2
    <3>2. QED
      BY <3>1
  <2>2. b * w = a * w + k * w /\ k * w \in Nat
    BY <2>1
  <2>3. QED
    BY <1>1, <2>2
<1>3. ASSUME a < b PROVE a * w + w <= b * w
  <2>1. PICK k \in Nat : b = a + 1 + k
    <3>1. b - a - 1 \in Nat /\ b = a + 1 + (b - a - 1)
      BY <1>3
    <3>2. QED
      BY <3>1
  <2>2. b * w = a * w + w + k * w /\ k * w \in Nat
    BY <2>1
  <2>3. QED
    BY <1>1, <2>2
<1>4. QED
  BY <1>1, <1>2, <1>3

LEMMA Product ==
    ASSUME NEW w \in Nat \ {0}, NEW a \in Nat
    PROVE  /\ 0 * w = 0 /\ (a - a) * w = 0 /\ a * w \in Nat
           /\ a > 0 => a * w >= w
<1>1. 0 * w = 0 /\ (a - a) * w = 0 /\ a * w \in Nat
  OBVIOUS
<1>2. ASSUME a > 0 PROVE a * w >= w
  <2>1. 0 * w + w <= a * w
    BY <1>2, Multiples
  <2>2. QED
    BY <1>1, <2>1
<1>3. QED
  BY <1>1, <1>2

----------------------------------------------------------------------------
(* delay() *)

CONSTANTS Variants, MS, Wrap, Grain, Delays, MaxGap, MaxElapsed
VARIABLES variant, clock, waitpc, ms, start, asked, elapsed, gap
Wait == INSTANCE Delay WITH pc <- waitpc

(* A gap is shorter than a millisecond, the readings wrap later than what  *)
(* delay() waits for, and millis() goes up by one.                         *)
WaitInTime ==
    /\ MS \in Nat \ {0} /\ Wrap \in Nat \ {0} /\ Grain \in Nat \ {0}
    /\ MaxGap \in Nat /\ MaxGap <= MS /\ MaxElapsed \in Nat
    /\ Delays \subseteq Nat
    /\ \A d \in Delays : d * MS + 2 * MaxGap < MaxElapsed
    /\ Variants \subseteq {"micros", "millis"}
    /\ "micros" \in Variants => MS + MaxGap < Wrap
    /\ "millis" \in Variants => Grain = 1 /\ \A d \in Delays : d < Wrap

WaitTypes ==
    /\ variant \in Variants /\ clock \in Nat /\ clock < Wait!Period
    /\ waitpc \in {"idle", "loop"}
    /\ ms \in Nat /\ start \in Nat /\ start < Wrap /\ elapsed \in Nat
    /\ gap \in Nat /\ gap <= MaxGap
    /\ waitpc = "loop" => asked \in Delays /\ ms <= asked

(* delay() on micros(): the microseconds it has not counted down yet are   *)
(* those from start to now, less than a millisecond when it looked last.   *)
Rest == elapsed - (asked - ms) * MS
MicrosWaits ==
    /\ Rest \in Nat
    /\ ms > 0 => /\ Rest < MS + gap
                 /\ (Wait!micros = start + Rest \/ Wait!micros = start + Rest - Wrap)
    /\ ms = 0 => Rest <= MaxGap + gap

(* delay() on millis(): it was called first microseconds after millis()    *)
(* went up, which has happened k times since, and not ms times when delay()*)
(* looked last.                                                            *)
Passed(first, k) ==
    /\ first + elapsed = k * MS + (clock % MS)
    /\ clock \div MS = start + k \/ clock \div MS = start + k - Wrap
    /\ first + elapsed < ms * MS + gap
MillisWaits == ms = asked /\ asked > 0 /\ \E first \in 0..MS-1, k \in 0..ms : Passed(first, k)

(* Inductive. *)
WaitInv ==
    /\ WaitTypes
    /\ waitpc = "loop" => /\ variant = "micros" => MicrosWaits
                          /\ variant = "millis" => MillisWaits

(* The readings before and after the clock goes on. *)
LEMMA WaitClock ==
    ASSUME WaitInTime, WaitTypes, Wait!Advance
    PROVE  /\ AfterTick(MS * Grain, Wrap, clock, clock')
           /\ clock' \in Nat /\ clock' < Wait!Period
           /\ variant = "millis" => AfterTick(Wrap, MS, clock, clock')
<1>1. clock' = (clock + 1) % Wait!Period
  BY DEF Wait!Advance
<1>2. Wait!Period = (MS * Grain) * Wrap /\ MS * Grain \in Nat \ {0}
  BY DEF Wait!Period, WaitInTime
<1>3. clock \in Nat /\ Wrap \in Nat \ {0} /\ MS \in Nat \ {0}
  BY DEF WaitInTime, WaitTypes
<1>4. AfterTick(MS * Grain, Wrap, clock, clock')
  <2> DEFINE n == MS * Grain
  <2>1. n \in Nat \ {0} /\ clock < n * Wrap /\ clock' = (clock + 1) % (n * Wrap)
    BY <1>1, <1>2 DEF WaitTypes
  <2> HIDE DEF n
  <2>2. AfterTick(n, Wrap, clock, clock')
    BY <1>3, <2>1, WrapTick
  <2>3. QED
    BY <2>2 DEF n
<1>5. ASSUME variant = "millis"
      PROVE  AfterTick(Wrap, MS, clock, clock')
  <2>1. Grain = 1
    BY <1>5 DEF WaitInTime, WaitTypes
  <2>2. Wait!Period = Wrap * MS
    BY <1>2, <1>3, <2>1
  <2>3. clock < Wrap * MS /\ clock' = (clock + 1) % (Wrap * MS)
    BY <1>1, <2>2 DEF WaitTypes
  <2>4. QED
    BY <1>3, <2>3, WrapTick
<1>6. clock' \in Nat /\ clock' < Wait!Period
  BY <1>2, <1>4 DEF AfterTick
<1>7. QED
  BY <1>4, <1>5, <1>6

(* The time since the call, and that it is not cut. *)
LEMMA WaitBounded ==
    ASSUME WaitInTime, WaitInv, waitpc = "loop"
    PROVE  /\ elapsed <= asked * MS + MaxGap + gap
           /\ gap < MaxGap => elapsed < MaxElapsed
<1>1. /\ asked \in Delays /\ asked \in Nat /\ ms \in Nat /\ ms <= asked
      /\ elapsed \in Nat /\ gap \in Nat /\ gap <= MaxGap /\ MaxGap \in Nat
      /\ MS \in Nat \ {0} /\ asked * MS + 2 * MaxGap < MaxElapsed /\ MaxElapsed \in Nat
  BY DEF WaitInTime, WaitInv, WaitTypes
<1>2. asked * MS \in Nat /\ ms * MS \in Nat /\ ms * MS <= asked * MS
  BY <1>1, Multiples
<1>3. elapsed <= asked * MS + MaxGap + gap
  <2>1. CASE variant = "micros"
    <3>1. Rest \in Nat /\ elapsed = asked * MS - ms * MS + Rest
      BY <1>1, <2>1 DEF WaitInv, MicrosWaits, Rest
    <3>2. CASE ms > 0
      <4>1. ms * MS >= MS
        BY <1>1, <3>2, Multiples
      <4>2. Rest < MS + gap
        BY <2>1, <3>2 DEF WaitInv, MicrosWaits
      <4>3. QED
        BY <1>1, <1>2, <3>1, <4>1, <4>2
    <3>3. CASE ms = 0
      <4>1. Rest <= MaxGap + gap /\ ms * MS = 0
        BY <1>1, <2>1, <3>3 DEF WaitInv, MicrosWaits
      <4>2. QED
        BY <1>1, <1>2, <3>1, <4>1
    <3>4. QED
      BY <1>1, <3>2, <3>3
  <2>2. CASE variant = "millis"
    <3>1. PICK first \in 0..MS-1, k \in 0..ms : Passed(first, k)
      BY <2>2 DEF WaitInv, MillisWaits
    <3>2. first + elapsed < ms * MS + gap
      BY <3>1 DEF Passed
    <3>3. QED
      BY <1>1, <1>2, <3>2
  <2>3. QED
    BY <2>1, <2>2 DEF WaitInTime, WaitInv, WaitTypes
<1>4. QED
  BY <1>1, <1>2, <1>3

(* Time passes, in delay() or outside.                                     *)
LEMMA WaitAdvances ==
    ASSUME WaitInTime, WaitInv, Wait!Advance
    PROVE  WaitInv'
<1>1. UNCHANGED <<variant, waitpc, ms, start, asked>>
  BY DEF Wait!Advance
<1>2. CASE waitpc # "loop"
  <2>1. elapsed' = elapsed /\ gap' = gap
    BY <1>2 DEF Wait!Advance
  <2>2. clock' \in Nat /\ clock' < Wait!Period
    BY WaitClock DEF WaitInv
  <2>3. QED
    BY <1>1, <1>2, <2>1, <2>2 DEF WaitInv, WaitTypes, Wait!Period
<1>3. CASE waitpc = "loop"
  <2>1. gap < MaxGap /\ gap' = gap + 1
    BY <1>3 DEF Wait!Advance
  <2>2. elapsed' = elapsed + 1
    BY <1>3, <2>1, WaitBounded DEF Wait!Advance
  <2>3. /\ asked \in Nat /\ ms \in Nat /\ ms <= asked /\ elapsed \in Nat
        /\ gap \in Nat /\ MaxGap \in Nat /\ MS \in Nat \ {0} /\ MaxGap <= MS
        /\ start \in Nat /\ start < Wrap /\ Wrap \in Nat
    BY <1>3 DEF WaitInTime, WaitInv, WaitTypes
  <2>4. WaitTypes'
    <3>1. clock' \in Nat /\ clock' < Wait!Period
      BY WaitClock DEF WaitInv
    <3>2. gap' \in Nat /\ gap' <= MaxGap /\ elapsed' \in Nat
      BY <2>1, <2>2, <2>3
    <3>3. QED
      BY <1>1, <3>1, <3>2 DEF WaitInv, WaitTypes, Wait!Period
  <2>5. CASE variant = "micros"
    <3>1. Rest \in Nat /\ Rest' = Rest + 1
      <4>1. Rest \in Nat
        BY <1>3, <2>5 DEF WaitInv, MicrosWaits
      <4>2. Rest' = Rest + 1
        BY <1>1, <2>2, <2>3 DEF Rest
      <4>3. QED
        BY <4>1, <4>2
    <3>2. ASSUME ms > 0
          PROVE  /\ Rest' < MS + gap'
                 /\ Wait!micros' = start + Rest' \/ Wait!micros' = start + Rest' - Wrap
      <4>1. /\ Rest < MS + gap /\ MS + MaxGap < Wrap
            /\ Wait!micros = start + Rest \/ Wait!micros = start + Rest - Wrap
        BY <1>3, <2>5, <3>2 DEF WaitInTime, WaitInv, WaitTypes, MicrosWaits
      <4>2. /\ Wait!micros \in Nat
            /\ \/ Wait!micros + 1 < Wrap /\ Wait!micros' = Wait!micros + 1
               \/ Wait!micros + 1 = Wrap /\ Wait!micros' = 0
        BY WaitClock DEF WaitInv, AfterTick, Wait!micros
      <4>3. QED
        BY <2>1, <2>3, <3>1, <4>1, <4>2
    <3>3. ms = 0 => Rest' <= MaxGap + gap'
      BY <1>3, <2>1, <2>3, <2>5, <3>1 DEF WaitInv, MicrosWaits
    <3>4. MicrosWaits'
      BY <1>1, <2>3, <3>1, <3>2, <3>3 DEF MicrosWaits
    <3>5. QED
      BY <1>1, <2>4, <2>5, <3>4 DEF WaitInv
  <2>6. CASE variant = "millis"
    <3>1. PICK first \in 0..MS-1, k \in 0..ms : Passed(first, k)
      BY <1>3, <2>6 DEF WaitInv, MillisWaits
    <3> DEFINE q == clock \div MS
               r == clock % MS
               q1 == clock' \div MS
               r1 == clock' % MS
    <3>2. /\ first + elapsed = k * MS + r /\ first + elapsed < ms * MS + gap
          /\ q = start + k \/ q = start + k - Wrap
      BY <3>1 DEF Passed
    <3>3. /\ q \in Nat /\ q < Wrap /\ r \in Nat /\ r < MS
          /\ \/ r + 1 < MS /\ r1 = r + 1 /\ q1 = q
             \/ r + 1 = MS /\ r1 = 0 /\ q + 1 < Wrap /\ q1 = q + 1
             \/ r + 1 = MS /\ r1 = 0 /\ q + 1 = Wrap /\ q1 = 0
      BY <2>6, WaitClock DEF WaitInv, AfterTick
    <3>4. ms < Wrap
      BY <1>3, <2>6 DEF WaitInTime, WaitInv, WaitTypes, MillisWaits
    <3>5. \A j \in 0..ms : Passed(first, j)' =
              (/\ first + elapsed' = j * MS + r1
               /\ q1 = start + j \/ q1 = start + j - Wrap
               /\ first + elapsed' < ms * MS + gap')
      BY <1>1 DEF Passed
    <3> HIDE DEF q, r, q1, r1
    <3>6. /\ k \in Nat /\ k * MS \in Nat /\ ms * MS \in Nat /\ (k + 1) * MS = k * MS + MS
          /\ ms <= k => ms * MS <= k * MS
      BY <2>3, Multiples
    <3>7. first + elapsed' < ms * MS + gap'
      BY <2>1, <2>2, <2>3, <3>2, <3>6
    <3>8. CASE r + 1 < MS
      <4>1. first + elapsed' = k * MS + r1
        BY <2>2, <2>3, <3>2, <3>3, <3>6, <3>8
      <4>2. q1 = start + k \/ q1 = start + k - Wrap
        BY <2>3, <3>2, <3>3, <3>8
      <4>3. Passed(first, k)'
        BY <3>1, <3>5, <3>7, <4>1, <4>2
      <4>4. QED
        BY <1>1, <1>3, <2>4, <2>6, <3>1, <4>3 DEF WaitInv, MillisWaits
    <3>9. CASE r + 1 = MS
      <4>1. first + elapsed' = (k + 1) * MS + r1
        BY <2>2, <2>3, <3>2, <3>3, <3>6, <3>9
      <4>2. k + 1 \in 0..ms
        BY <2>1, <2>3, <3>3, <3>6, <3>7, <3>9, <4>1
      <4>3. q1 = start + (k + 1) \/ q1 = start + (k + 1) - Wrap
        BY <2>3, <3>2, <3>3, <3>4, <3>6, <3>9, <4>2
      <4>4. Passed(first, k + 1)'
        BY <3>5, <3>7, <4>1, <4>2, <4>3
      <4>5. QED
        BY <1>1, <1>3, <2>4, <2>6, <3>1, <4>2, <4>4 DEF WaitInv, MillisWaits
    <3>10. QED
      BY <2>3, <3>3, <3>8, <3>9
  <2>7. QED
    BY <2>5, <2>6 DEF WaitInTime, WaitInv, WaitTypes
<1>4. QED
  BY <1>2, <1>3

(* The two readings are less than Wrap, and that of millis() is the number *)
(* of whole milliseconds.                                                  *)
LEMMA WaitReadings ==
    ASSUME WaitInTime, WaitTypes
    PROVE  /\ Wait!micros \in Nat /\ Wait!micros < Wrap
           /\ variant = "millis" => /\ Wait!millis = clock \div MS /\ Wait!millis \in Nat
                                    /\ Wait!millis < Wrap
                                    /\ clock % MS \in Nat /\ clock % MS < MS
<1>1. clock \in Nat /\ Wrap \in Nat \ {0} /\ MS \in Nat \ {0}
  BY DEF WaitInTime, WaitTypes
<1>2. Wait!micros \in Nat /\ Wait!micros < Wrap
  BY <1>1, DivMod DEF Wait!micros
<1>3. ASSUME variant = "millis"
      PROVE  /\ Wait!millis = clock \div MS /\ Wait!millis \in Nat /\ Wait!millis < Wrap
             /\ clock % MS \in Nat /\ clock % MS < MS
  <2> DEFINE q == clock \div MS
             t == (clock + 1) % (Wrap * MS)
  <2>1. Grain = 1
    BY <1>3 DEF WaitInTime, WaitTypes
  <2>2. clock < Wrap * MS
    BY <1>1, <2>1 DEF WaitTypes, Wait!Period
  <2>3. AfterTick(Wrap, MS, clock, t)
    BY <1>1, <2>2, WrapTick
  <2>4. q \in Nat /\ q < Wrap /\ clock % MS \in Nat /\ clock % MS < MS
    BY <2>3 DEF AfterTick
  <2>5. Wait!millis = q % Wrap
    BY <1>1, <2>1, <2>4 DEF Wait!millis
  <2> HIDE DEF q
  <2>6. q % Wrap = q
    BY <1>1, <2>4, ModIs
  <2>7. QED
    BY <2>4, <2>5, <2>6 DEF q
<1>4. QED
  BY <1>2, <1>3

(* What a call starts from. *)
LEMMA WaitCalled ==
    ASSUME WaitInTime, WaitInv, Wait!Call
    PROVE  WaitInv'
<1>1. /\ waitpc' = "loop" /\ ms' \in Delays /\ asked' = ms' /\ elapsed' = 0 /\ gap' = 0
      /\ start' = (IF variant = "micros" THEN Wait!micros ELSE Wait!millis)
      /\ variant' = variant /\ clock' = clock
      /\ variant # "micros" => ms' >= 16
  BY DEF Wait!Call, Wait!Shortest
<1>2. /\ MS \in Nat \ {0} /\ MaxGap \in Nat /\ ms' \in Nat /\ variant \in {"micros", "millis"}
  BY <1>1 DEF WaitInTime, WaitInv, WaitTypes
<1>3. start' \in Nat /\ start' < Wrap
  BY <1>1, <1>2, WaitReadings DEF WaitInv
<1>4. WaitTypes'
  BY <1>1, <1>2, <1>3 DEF WaitInv, WaitTypes, Wait!Period
<1>5. CASE variant = "micros"
  <2>1. Rest' = 0
    <3> DEFINE Done == (ms' - ms') * MS
    <3>1. Done = 0
      BY <1>2, Product
    <3>2. Rest' = 0 - Done
      BY <1>1, Zenon DEF Rest
    <3> HIDE DEF Done
    <3>3. QED
      BY <3>1, <3>2
  <2>2. Wait!micros' = Wait!micros /\ start' = Wait!micros
    BY <1>1, <1>5 DEF Wait!micros
  <2>3. MicrosWaits'
    BY <1>1, <1>2, <1>3, <2>1, <2>2 DEF MicrosWaits
  <2>4. QED
    BY <1>1, <1>4, <1>5, <2>3 DEF WaitInv
<1>6. CASE variant = "millis"
  <2> DEFINE q == clock \div MS
             L == ms' * MS
             Z == 0 * MS
  <2>1. /\ start' = q /\ q \in Nat
        /\ clock % MS \in Nat /\ clock % MS < MS
    BY <1>1, <1>6, WaitReadings DEF WaitInv
  <2>2. PICK first \in 0..MS-1 : first = clock % MS
    BY <1>2, <2>1
  <2>3. ms' > 0
    BY <1>1, <1>2, <1>6
  <2>4. L \in Nat /\ L >= MS /\ Z = 0
    BY <1>2, <2>3, Product
  <2>5. Passed(first, 0)'
    <3>1. Passed(first, 0)' = (/\ first + 0 = Z + first
                               /\ q = q + 0 \/ q = q + 0 - Wrap
                               /\ first + 0 < L + 0)
      BY <1>1, <2>1, <2>2, Zenon DEF Passed
    <3> HIDE DEF q, L, Z
    <3>2. first + 0 = Z + first /\ q = q + 0 /\ first + 0 < L + 0
      BY <1>2, <2>1, <2>4, <2>2
    <3>3. QED
      BY <3>1, <3>2
  <2>6. MillisWaits'
    <3>1. ms' = asked' /\ asked' > 0
      BY <1>1, <2>3
    <3>2. \E f \in 0..MS-1, k \in 0..ms' : Passed(f, k)'
      BY <1>2, <2>5, <2>2
    <3>3. QED
      BY <3>1, <3>2 DEF MillisWaits
  <2>7. QED
    BY <1>1, <1>4, <1>6, <2>6 DEF WaitInv
<1>7. QED
  BY <1>2, <1>5, <1>6

(* A millisecond less to wait for, if one has passed since start.          *)
LEMMA WaitPollsMicros ==
    ASSUME WaitInTime, WaitInv, Wait!PollMicros
    PROVE  WaitInv'
<1>1. /\ variant = "micros" /\ waitpc = "loop" /\ ms > 0 /\ gap' = 0
      /\ UNCHANGED <<variant, clock, waitpc, asked, elapsed>>
  BY DEF Wait!PollMicros
<1>2. /\ asked \in Nat /\ ms \in Nat /\ ms <= asked /\ elapsed \in Nat /\ gap \in Nat
      /\ gap <= MaxGap /\ MaxGap \in Nat /\ MS \in Nat \ {0} /\ MaxGap <= MS
      /\ start \in Nat /\ start < Wrap /\ Wrap \in Nat \ {0} /\ MS + MaxGap < Wrap
  BY <1>1 DEF WaitInTime, WaitInv, WaitTypes
<1>3. /\ Rest \in Nat /\ Rest < MS + gap
      /\ Wait!micros = start + Rest \/ Wait!micros = start + Rest - Wrap
  BY <1>1 DEF WaitInv, MicrosWaits
<1>4. Wait!micros \in Nat /\ Wait!micros < Wrap /\ Wait!micros' = Wait!micros
  BY <1>1, WaitReadings DEF WaitInv, Wait!micros
<1>5. Wait!Since = Rest
  <2>1. /\ Wait!micros + Wrap - start = Rest + Wrap \/ Wait!micros + Wrap - start = Rest
        /\ Rest < Wrap
    BY <1>2, <1>3, <1>4
  <2>2. (Rest + Wrap) % Wrap = Rest /\ Rest % Wrap = Rest
    <3>1. Rest + Wrap \in Int /\ Rest \in Int /\ Rest \in 0..Wrap-1
          /\ Wrap <= Rest + Wrap /\ Rest + Wrap < Wrap + Wrap
          /\ (Rest + Wrap) - Wrap = Rest
      BY <1>2, <1>3, <2>1
    <3>2. QED
      BY <1>2, <3>1, ModIs
  <2>3. QED
    BY <2>1, <2>2 DEF Wait!Since
<1>6. CASE Wait!WholeMs
  <2>1. Rest >= MS /\ ms' = ms - 1 /\ start' = (start + MS) % Wrap
    BY <1>5, <1>6 DEF Wait!PollMicros, Wait!WholeMs, Wait!Restarted
  <2>2. start' \in Nat /\ start' < Wrap /\ (start' = start + MS \/ start' = start + MS - Wrap)
    <3>1. start + MS \in Int /\ start + MS < Wrap + Wrap /\ start + MS >= 0
      BY <1>2
    <3>2. /\ (start + MS) % Wrap \in 0..Wrap-1
          /\ start + MS \in 0..Wrap-1 => (start + MS) % Wrap = start + MS
          /\ Wrap <= start + MS => (start + MS) % Wrap = (start + MS) - Wrap
      BY <1>2, <3>1, ModIs
    <3>3. QED
      BY <1>2, <2>1, <3>1, <3>2
  <2>3. Rest' = Rest - MS
    BY <1>1, <1>2, <2>1 DEF Rest
  <2>4. Wait!micros' = start' + Rest' \/ Wait!micros' = start' + Rest' - Wrap
    BY <1>2, <1>3, <1>4, <2>1, <2>2, <2>3
  <2>5. Rest' \in Nat /\ Rest' <= MaxGap + gap' /\ Rest' < MS + gap'
    BY <1>1, <1>2, <1>3, <2>1, <2>3
  <2>6. ms' \in Nat /\ ms' <= asked /\ gap' \in Nat /\ gap' <= MaxGap
    BY <1>1, <1>2, <2>1
  <2>7. WaitTypes'
    BY <1>1, <2>2, <2>6 DEF WaitInv, WaitTypes, Wait!Period
  <2>8. MicrosWaits'
    BY <2>4, <2>5 DEF MicrosWaits
  <2>9. QED
    BY <1>1, <2>7, <2>8 DEF WaitInv
<1>7. CASE ~Wait!WholeMs
  <2>1. Rest < MS /\ ms' = ms /\ start' = start
    BY <1>2, <1>3, <1>5, <1>7 DEF Wait!PollMicros, Wait!WholeMs
  <2>2. Rest' = Rest
    BY <1>1, <2>1 DEF Rest
  <2>3. gap' \in Nat /\ gap' <= MaxGap /\ Rest' < MS + gap'
    BY <1>1, <1>2, <1>3, <2>1, <2>2
  <2>4. WaitTypes'
    BY <1>1, <2>1, <2>3 DEF WaitInv, WaitTypes, Wait!Period
  <2>5. MicrosWaits'
    BY <1>1, <1>2, <1>3, <1>4, <2>1, <2>2, <2>3 DEF MicrosWaits
  <2>6. QED
    BY <1>1, <2>4, <2>5 DEF WaitInv
<1>8. QED
  BY <1>6, <1>7

(* What the loop on millis() compares. *)
LEMMA WaitReached ==
    ASSUME WaitInTime, WaitInv, waitpc = "loop", variant = "millis",
           NEW first \in 0..MS-1, NEW k \in 0..ms, Passed(first, k)
    PROVE  Wait!Reached <=> k = ms
<1>1. /\ ms \in Nat /\ ms < Wrap /\ Wrap \in Nat \ {0} /\ start \in Nat /\ start < Wrap
  BY DEF WaitInTime, WaitInv, WaitTypes, MillisWaits
<1>2. /\ Wait!millis = start + k \/ Wait!millis = start + k - Wrap
      /\ Wait!millis \in Nat
  BY WaitReadings DEF WaitInv, Passed
<1>3. (Wait!millis + Wrap - start) % Wrap = k
  <2>1. Wait!millis + Wrap - start = k + Wrap \/ Wait!millis + Wrap - start = k
    BY <1>1, <1>2
  <2>2. k + Wrap \in Int /\ k \in Int /\ k \in 0..Wrap-1
        /\ Wrap <= k + Wrap /\ k + Wrap < Wrap + Wrap /\ (k + Wrap) - Wrap = k
    BY <1>1
  <2>3. (k + Wrap) % Wrap = k /\ k % Wrap = k
    BY <1>1, <2>2, ModIs
  <2>4. QED
    BY <2>1, <2>3
<1>4. QED
  BY <1>1, <1>3 DEF Wait!Reached

LEMMA WaitPollsMillis ==
    ASSUME WaitInTime, WaitInv, Wait!PollMillis
    PROVE  WaitInv'
<1>1. /\ variant = "millis" /\ waitpc = "loop" /\ ~Wait!Reached /\ gap' = 0
      /\ UNCHANGED <<variant, clock, waitpc, ms, start, asked, elapsed>>
  BY DEF Wait!PollMillis
<1>2. PICK first \in 0..MS-1, k \in 0..ms : Passed(first, k)
  BY <1>1 DEF WaitInv, MillisWaits
<1>3. k # ms
  BY <1>1, <1>2, WaitReached
<1>4. clock % MS \in Nat /\ clock % MS < MS
  BY <1>1, WaitReadings DEF WaitInv
<1>5. /\ MS \in Nat \ {0} /\ ms \in Nat /\ elapsed \in Nat /\ MaxGap \in Nat
  BY DEF WaitInTime, WaitInv, WaitTypes
<1>6. k \in Nat /\ k * MS \in Nat /\ ms * MS \in Nat /\ k * MS + MS <= ms * MS
  BY <1>2, <1>3, <1>5, Multiples
<1>7. first + elapsed < ms * MS
  <2> DEFINE r == clock % MS
  <2>1. first + elapsed = k * MS + r /\ r \in Nat /\ r < MS
    BY <1>2, <1>4 DEF Passed
  <2> HIDE DEF r
  <2>2. QED
    BY <1>5, <1>6, <2>1
<1>8. Passed(first, k)'
  BY <1>1, <1>2, <1>5, <1>6, <1>7 DEF Passed
<1>9. WaitTypes'
  BY <1>1, <1>5 DEF WaitInv, WaitTypes, Wait!Period
<1>10. QED
  BY <1>1, <1>2, <1>8, <1>9 DEF WaitInv, MillisWaits

LEMMA WaitKept ==
    ASSUME WaitInTime, WaitInv, [Wait!Next]_Wait!vars
    PROVE  WaitInv'
<1>1. CASE Wait!Advance
  BY <1>1, WaitAdvances
<1>2. CASE Wait!Call
  BY <1>2, WaitCalled
<1>3. CASE Wait!PollMicros
  BY <1>3, WaitPollsMicros
<1>4. CASE Wait!PollMillis
  BY <1>4, WaitPollsMillis
<1>5. CASE Wait!Return
  <2>1. /\ waitpc' = "idle" /\ gap' = 0
        /\ UNCHANGED <<variant, clock, ms, start, asked, elapsed>>
    BY <1>5 DEF Wait!Return, Wait!ReturnMicros, Wait!ReturnMillis
  <2>2. QED
    BY <2>1 DEF WaitInTime, WaitInv, WaitTypes, Wait!Period
<1>6. CASE UNCHANGED Wait!vars
  BY <1>6
  DEF Wait!vars, Wait!call, WaitInv, WaitTypes, MicrosWaits, MillisWaits, Rest, Passed,
      Wait!micros, Wait!Period
<1>7. QED
  BY <1>1, <1>2, <1>3, <1>4, <1>5, <1>6 DEF Wait!Next

LEMMA WaitLasts ==
    ASSUME WaitInTime, WaitInv
    PROVE  Wait!DelayLasts
<1>1. /\ MS \in Nat \ {0} /\ ms \in Nat /\ elapsed \in Nat
      /\ waitpc = "loop" => asked \in Nat
  BY DEF WaitInTime, WaitInv, WaitTypes
<1>2. ASSUME Wait!ReturnMicros
      PROVE  elapsed >= asked * MS
  <2>1. ms = 0 /\ waitpc = "loop" /\ Rest \in Nat
    BY <1>2 DEF Wait!ReturnMicros, WaitInv, MicrosWaits
  <2>2. asked * MS \in Nat /\ elapsed = asked * MS + Rest
    BY <1>1, <2>1 DEF Rest
  <2>3. QED
    BY <1>1, <2>1, <2>2
<1>3. ASSUME Wait!ReturnMillis
      PROVE  elapsed > (asked - 1) * MS
  <2>1. variant = "millis" /\ waitpc = "loop" /\ Wait!Reached
    BY <1>3 DEF Wait!ReturnMillis
  <2>2. PICK first \in 0..MS-1, k \in 0..ms : Passed(first, k)
    BY <2>1 DEF WaitInv, MillisWaits
  <2>3. k = ms /\ ms = asked
    BY <2>1, <2>2, WaitReached DEF WaitInv, MillisWaits
  <2> DEFINE r == clock % MS
  <2>4. first + elapsed = asked * MS + r /\ r \in Nat
    BY <2>1, <2>2, <2>3, WaitReadings DEF WaitInv, Passed
  <2> HIDE DEF r
  <2>5. asked * MS \in Nat /\ (asked - 1) * MS = asked * MS - MS
    BY <1>1, <2>1
  <2>6. QED
    BY <1>1, <2>2, <2>4, <2>5
<1>4. QED
  BY <1>2, <1>3 DEF Wait!DelayLasts

LEMMA WaitEnds ==
    ASSUME WaitInTime, WaitInv
    PROVE  Wait!DelayEnds
<1> SUFFICES ASSUME waitpc = "loop" PROVE elapsed <= asked * MS + 2 * MaxGap
  BY DEF Wait!DelayEnds
<1>1. /\ asked \in Nat /\ MS \in Nat /\ elapsed \in Nat /\ gap \in Nat /\ MaxGap \in Nat
      /\ gap <= MaxGap
  BY DEF WaitInTime, WaitInv, WaitTypes
<1>2. elapsed <= asked * MS + MaxGap + gap /\ asked * MS \in Nat
  BY <1>1, WaitBounded
<1>3. QED
  BY <1>1, <1>2

(* delay(ms) lasts at least ms milliseconds, or more than ms - 1 where it  *)
(* reads millis(), for every ms, however the readings wrap, and what holds *)
(* it up for less than a millisecond at each step does not add up.         *)
THEOREM DelayLastsAsAsked == ASSUME WaitInTime PROVE Wait!Spec => Wait!DelayIsKept
<1>1. Wait!Init => WaitInv
  <2> SUFFICES ASSUME Wait!Init PROVE WaitInv
    OBVIOUS
  <2>1. Wait!Period \in Nat /\ clock \in 0..Wait!Period-1
    BY DEF Wait!Init, WaitInTime, Wait!Period
  <2>2. clock \in Nat /\ clock < Wait!Period
    BY <2>1
  <2>3. QED
    BY <2>2 DEF Wait!Init, WaitInTime, WaitInv, WaitTypes
<1>2. WaitInv /\ [Wait!Next]_Wait!vars => WaitInv'
  BY WaitKept
<1>3. ASSUME WaitInv, [Wait!Next]_Wait!vars
      PROVE  [Wait!DelayLasts /\ Wait!DelayEnds]_Wait!vars
  BY <1>3, WaitLasts, WaitEnds
<1>4. QED
  BY <1>1, <1>2, <1>3, PTL DEF Wait!Spec, Wait!DelayIsKept
=============================================================================
