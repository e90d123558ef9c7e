----------------------------- MODULE ServoTimes -----------------------------
(***************************************************************************)
(* The parameters of Servo, in a module of their own so that what is       *)
(* assumed of them can be evaluated where Servo is instantiated: how many  *)
(* servos there are, and all lengths, in ticks of the timer.               *)
(***************************************************************************)
EXTENDS Integers

CONSTANTS
    ServoCount,   \* servos constructed, MAX_SERVOS at most
    Base,         \* values of a byte, of which ticks has two
    Widths,       \* what the program sets, and usToTicks() of
    Shortest, Longest, Default,  \* SERVO_MIN(), SERVO_MAX(), DEFAULT_PULSE_WIDTH
    Trim,         \* TRIM_DURATION
    Interval,     \* REFRESH_INTERVAL
    Top,          \* 65535
    Slack,        \* 100
    Latency,      \* ticks from the interrupt to the write of CCMP
    ReAttach      \* attach() is called for attached servos, too

ASSUME CountAssumption == ServoCount \in Nat \ {0}
ASSUME WidthAssumption ==
    /\ Widths \subseteq Nat /\ {Shortest, Longest, Default, Trim} \subseteq Nat
    /\ Shortest <= Default /\ Default <= Longest /\ Trim + Latency <= Shortest
    /\ Longest <= Top /\ Longest < Base * Base /\ Base \in Nat \ {0, 1}
ASSUME TimerAssumption ==
    {Interval, Top, Slack, Latency} \subseteq Nat \ {0} /\ ReAttach \in BOOLEAN
=============================================================================
