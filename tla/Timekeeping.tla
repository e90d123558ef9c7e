---------------------------- MODULE Timekeeping ----------------------------
(***************************************************************************)
(* Timekeeping: the overflow interrupt of the timer chosen for millis, and *)
(* millis(), micros(), nudge_millis() and set_millis(), which share the    *)
(* interrupt's variables (wiring.c, wiring_micros_ISR.h).  The timer ticks *)
(* between any two accesses of a function, and the interrupt comes between *)
(* any two unless interrupts are off.                                      *)
(*                                                                         *)
(* A TCA or TCD keeps an overflow count, a millisecond count and a         *)
(* fraction.  A TCB overflows once per millisecond (or two) and keeps the  *)
(* milliseconds only: its overflow count is timer_millis.                  *)
(***************************************************************************)
EXTENDS Integers

CONSTANTS
    Kinds,        \* of timers: "TCA" (a TCD works alike), "TCB"
    Ticks,        \* TIME_TRACKING_TICKS_PER_OVF
    OvfMicros,    \* microseconds between two overflows, for each kind
    Near,         \* counts below this are taken for "just overflowed"
    Uses,         \* the functions the program calls, for each kind
    Nudges, Settings,  \* arguments of nudge_millis(), set_millis()
    Word,         \* values of the part of timer_millis read in one access
    MaxLatency,   \* ticks an overflow may wait for its interrupt
    MaxSection,   \* ticks the interrupts-off part of a function may take
    MaxWraps, MaxNudged  \* bounds on the overflows and on the nudges' sum

ASSUME KindsAssumption == Kinds \subseteq {"TCA", "TCB"}
ASSUME TicksAssumption ==
    /\ Ticks \in Nat \ {0} /\ Near \in 1..Ticks
    /\ MaxLatency \in Nat /\ MaxSection \in Nat
    /\ MaxWraps \in Nat /\ MaxNudged \in Nat
ASSUME OvfMicrosAssumption ==
    /\ OvfMicros \in [Kinds -> Nat \ {0}]
    /\ "TCB" \in Kinds => OvfMicros["TCB"] \in {1000, 2000}
ASSUME ArgumentsAssumption ==
    Nudges \subseteq Nat /\ Settings \subseteq Nat /\ Word \in Nat \ {0}

VARIABLES
    kind,         \* the timer the build has chosen for millis
    cnt,          \* the timer's count; a TCA counts down, read PERIOD - HCNT
    flag,         \* its overflow flag
    overflows,    \* timer_overflow_count, or timer_millis of a TCB
    millisTCA,    \* timer_millis of a TCA
    fract,        \* timer_fract
    ie, oldSREG,  \* SREG.I and the copy a function keeps of it
    pc,           \* the next access of the function being executed
    ticks, flags, count,  \* the locals of micros()
    word,         \* the part of timer_millis a function has read, or ...
    target,       \* ... the argument set_millis() is storing
    section,      \* ticks since the function turned interrupts off
    wraps,        \* what the timer has really counted, in overflows' unit
    nudged,       \* what nudge_millis() and set_millis() have added to them
    sampled,      \* the instant at which micros() read the timer
    reading,      \* the instant micros() returned last
    returned      \* the milliseconds millis() returned last, since set_millis()

timer    == <<cnt, flag, wraps>>
counters == <<overflows, millisTCA, fract>>
locals   == <<ticks, flags, count, word, target>>
ghosts   == <<nudged, sampled, reading, returned>>
vars     == <<kind, timer, counters, ie, oldSREG, pc, locals, section, ghosts>>

FRACT_MAX  == 1000
FRACT_INC  == OvfMicros[kind] % 1000
MILLIS_INC == OvfMicros[kind] \div 1000
U16 == 65536

Unit == IF kind = "TCB" THEN MILLIS_INC ELSE 1
Overflowed == wraps + (IF kind = "TCB" THEN nudged ELSE 0)
timer_millis == IF kind = "TCB" THEN overflows ELSE millisTCA

(* Assignment to timer_millis. *)
SetTimerMillis(m) ==
    IF kind = "TCB" THEN overflows' = m /\ UNCHANGED <<millisTCA, fract>>
                    ELSE millisTCA' = m /\ UNCHANGED <<overflows, fract>>
ByProgram(m) == SetTimerMillis(m) /\ nudged' = nudged + (m - timer_millis)

Init ==
    /\ kind \in Kinds
    /\ cnt = 0 /\ flag = FALSE /\ wraps = 0
    /\ overflows = 0 /\ millisTCA = 0 /\ fract = 0
    /\ ie = TRUE /\ oldSREG = TRUE /\ pc = "idle"
    /\ ticks = 0 /\ flags = FALSE /\ count = 0 /\ word = 0 /\ target = 0
    /\ section = 0 /\ nudged = 0
    /\ sampled = <<0, 0>> /\ reading = <<0, 0>> /\ returned = 0

----------------------------------------------------------------------------
(* The timer, and how long the program may keep its interrupt waiting. *)

InSection == pc \in {"mcTicks", "mcFlags", "mcCount", "msLow", "msHigh"}

Tick ==
    /\ cnt + 1 = Ticks => wraps < MaxWraps * Unit
    /\ flag => cnt < MaxLatency
    /\ InSection => section < MaxSection
    /\ IF cnt + 1 = Ticks
       THEN cnt' = 0 /\ flag' = TRUE /\ wraps' = wraps + Unit
       ELSE cnt' = cnt + 1 /\ UNCHANGED <<flag, wraps>>
    /\ section' = IF InSection THEN section + 1 ELSE section
    /\ UNCHANGED <<counters, ie, oldSREG, pc, locals, ghosts>>

(* The fraction and the milliseconds to add.  Where MILLIS_INC is not 0    *)
(* the fraction counts up from -FRACT_MAX, in 16 bits.                     *)
Sum == (fract + FRACT_INC) % U16
Carried == (Sum + U16 - FRACT_MAX) % U16
FractNotCarried == Sum
FractAfterOverflow ==
    IF MILLIS_INC = 0
    THEN IF Sum < FRACT_MAX THEN Sum ELSE Carried
    ELSE IF Sum < FRACT_MAX THEN Carried ELSE Sum
MillisAfterOverflow ==
    IF MILLIS_INC = 0
    THEN IF Sum < FRACT_MAX THEN 0 ELSE 1
    ELSE IF Sum < FRACT_MAX THEN MILLIS_INC + 1 ELSE MILLIS_INC

(* ISR(MILLIS_TIMER_VECTOR) *)
Overflow ==
    /\ ie /\ flag
    /\ flag' = FALSE
    /\ overflows' = overflows + Unit
    /\ IF kind = "TCB"
       THEN UNCHANGED <<millisTCA, fract>>
       ELSE /\ fract' = FractAfterOverflow
            /\ millisTCA' = millisTCA + MillisAfterOverflow
    /\ UNCHANGED <<cnt, wraps, ie, oldSREG, pc, locals, section, ghosts>>

----------------------------------------------------------------------------
(* The functions. *)

Goto(from, to) == pc = from /\ pc' = to

(* oldSREG = SREG; cli() ... SREG = oldSREG *)
CliForgotten == oldSREG' = ie /\ UNCHANGED ie /\ section' = 0
Cli == oldSREG' = ie /\ ie' = FALSE /\ section' = 0
Restore == ie' = oldSREG /\ UNCHANGED <<oldSREG, section>>

(* The program, or a handler, runs with interrupts off. *)
SetInterrupts ==
    /\ pc = "idle" /\ ie' = ~ie
    /\ UNCHANGED <<timer, counters, oldSREG, pc, locals, section, ghosts>>

Micros ==
    /\ "micros" \in Uses[kind]
    /\ Goto("idle", "mcTicks")
    /\ Cli
    /\ UNCHANGED <<timer, counters, locals, ghosts>>

MicrosTicks ==
    /\ Goto("mcTicks", "mcFlags")
    /\ ticks' = cnt
    /\ section' = 0
    /\ sampled' = <<Overflowed, cnt>>
    /\ UNCHANGED <<timer, counters, ie, oldSREG, flags, count, word, target, nudged,
                   reading, returned>>

MicrosFlags ==
    /\ Goto("mcFlags", "mcCount")
    /\ flags' = flag
    /\ UNCHANGED <<timer, counters, ie, oldSREG, ticks, count, word, target, section,
                   ghosts>>

MicrosCount ==
    /\ Goto("mcCount", "mcScale")
    /\ count' = overflows
    /\ Restore
    /\ UNCHANGED <<timer, counters, ticks, flags, word, target, ghosts>>

(* An overflow the interrupt has not counted yet, if the count is low. *)
MissedNever == FALSE
Missed == flags /\ ticks < Near

MicrosReturn ==
    /\ Goto("mcScale", "idle")
    /\ reading' = <<IF Missed THEN count + Unit ELSE count, ticks>>
    /\ UNCHANGED <<timer, counters, ie, oldSREG, locals, section, nudged, sampled,
                   returned>>

Millis ==
    /\ "millis" \in Uses[kind]
    /\ Goto("idle", "msLow")
    /\ Cli
    /\ UNCHANGED <<timer, counters, locals, ghosts>>

MillisLow ==
    /\ Goto("msLow", "msHigh")
    /\ word' = timer_millis % Word
    /\ UNCHANGED <<timer, counters, ie, oldSREG, ticks, flags, count, target, section,
                   ghosts>>

MillisHigh ==
    /\ Goto("msHigh", "idle")
    /\ returned' = (timer_millis \div Word) * Word + word
    /\ Restore
    /\ UNCHANGED <<timer, counters, locals, nudged, sampled, reading>>

(* One read-modify-write with interrupts off. *)
NudgeMillis ==
    /\ "nudge_millis" \in Uses[kind] /\ pc = "idle"
    /\ \E n \in Nudges : nudged + n <= MaxNudged /\ ByProgram(timer_millis + n)
    /\ UNCHANGED <<timer, ie, oldSREG, pc, locals, section, sampled, reading,
                   returned>>

(* timer_millis = newmillis: several stores, interrupts as they are. *)
SetMillis ==
    /\ "set_millis" \in Uses[kind]
    /\ Goto("idle", "stLow")
    /\ target' \in Settings
    /\ returned' = 0
    /\ UNCHANGED <<timer, counters, ie, oldSREG, ticks, flags, count, word, section,
                   nudged, sampled, reading>>

SetMillisLow ==
    /\ Goto("stLow", "stHigh")
    /\ ByProgram((timer_millis \div Word) * Word + (target % Word))
    /\ UNCHANGED <<timer, ie, oldSREG, locals, section, sampled, reading, returned>>

SetMillisHigh ==
    /\ Goto("stHigh", "idle")
    /\ ByProgram((target \div Word) * Word + (timer_millis % Word))
    /\ UNCHANGED <<timer, ie, oldSREG, locals, section, sampled, reading, returned>>

----------------------------------------------------------------------------
Next ==
    /\ \/ Tick \/ Overflow \/ SetInterrupts
       \/ Micros \/ MicrosTicks \/ MicrosFlags \/ MicrosCount \/ MicrosReturn
       \/ Millis \/ MillisLow \/ MillisHigh
       \/ NudgeMillis
       \/ SetMillis \/ SetMillisLow \/ SetMillisHigh
    /\ UNCHANGED kind

Spec == Init /\ [][Next]_vars
----------------------------------------------------------------------------
(* Properties *)

Instant(i) == i[1] \in Nat /\ i[2] \in 0..Ticks-1 /\ i = <<i[1], i[2]>>

(* The type of every variable: the count stays below TICKS_PER_OVF, the    *)
(* fraction in 16 bits.                                                    *)
TypeOK ==
    /\ kind \in Kinds
    /\ cnt \in 0..Ticks-1 /\ flag \in BOOLEAN /\ wraps \in Nat
    /\ overflows \in Nat /\ millisTCA \in Nat /\ fract \in 0..U16-1
    /\ ie \in BOOLEAN /\ oldSREG \in BOOLEAN
    /\ pc \in {"idle", "mcTicks", "mcFlags", "mcCount", "mcScale", "msLow",
               "msHigh", "stLow", "stHigh"}
    /\ ticks \in 0..Ticks-1 /\ flags \in BOOLEAN /\ count \in Nat
    /\ word \in Nat /\ target \in Nat /\ section \in Nat
    /\ nudged \in Int
    /\ Instant(sampled) /\ Instant(reading) /\ returned \in Nat

(* micros() never runs backwards and never runs ahead (wiring.c:157, "All  *)
(* time time travel ... should no longer be possible"), if HeardInTime.    *)
TimeOf == <<Overflowed, cnt>>
MicrosClock == INSTANCE Clock WITH time <- TimeOf, reading <- reading
MicrosIsClock == MicrosClock!Spec

(* What that takes: no overflow waits until the count reaches Near, the    *)
(* part of micros() with interrupts off is short, and set_millis() does    *)
(* not change the count it reads.                                          *)
HeardInTime ==
    /\ MaxLatency < Near /\ MaxSection + Near <= Ticks
    /\ "TCB" \in Kinds => "set_millis" \notin Uses["TCB"]

(* Why it is one.  The counter lacks at most the overflow that is pending; *)
(* what micros() adds to the counter is the overflow that was pending when *)
(* it read the timer, and not one that came after.                         *)
Counted == overflows + (IF flag THEN Unit ELSE 0) = Overflowed
Prompt == flag => cnt <= MaxLatency
Excluded == InSection => ~ie
Since ==
    pc \in {"mcFlags", "mcCount"} =>
        /\ ticks = sampled[2] /\ section <= MaxSection
        /\ \/ /\ Overflowed = sampled[1]
              /\ cnt <= ticks + section
           \/ /\ Overflowed = sampled[1] + Unit /\ flag
              /\ Ticks <= ticks + section
        /\ \/ overflows = sampled[1]
           \/ /\ overflows + Unit = sampled[1]
              /\ flag /\ Overflowed = sampled[1] /\ ticks <= MaxLatency
Compensated ==
    /\ pc = "mcCount" =>
           sampled[1] = IF Missed THEN overflows + Unit ELSE overflows
    /\ pc = "mcScale" =>
           sampled = <<IF Missed THEN count + Unit ELSE count, ticks>>
InOrder ==
    MicrosClock!NotAfter(reading, sampled) /\ MicrosClock!NotAfter(sampled, TimeOf)
MicrosInv == Counted /\ Prompt /\ Excluded /\ Since /\ Compensated /\ InOrder

(* The milliseconds and the fraction together are exactly the overflows    *)
(* counted, and what the program has added: however long it runs, no part  *)
(* of a millisecond is lost or counted twice (wiring_micros_ISR.h, the     *)
(* ISR's timer_fract).                                                     *)
SignedFract == IF fract < U16 \div 2 THEN fract ELSE fract - U16
MillisExact ==
    kind = "TCA" =>
        (millisTCA - nudged) * FRACT_MAX + SignedFract = overflows * OvfMicros[kind]

(* What millis() returns is no less than what it returned before, since    *)
(* set_millis(), and no more than the count: the interrupt cannot come     *)
(* between its loads and make it jump ahead and back (wiring.c:118-132),   *)
(* whatever the byte boundaries the count crosses.                         *)
MillisHonest == [][MillisHigh => returned' \in returned..timer_millis]_vars
=============================================================================
