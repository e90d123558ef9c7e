--------------------------- MODULE MCTimekeeping ---------------------------
(***************************************************************************)
(* Timekeeping with a TCA or a TCB, the RTC's millis(), delay(), and the   *)
(* sums of micros(), for TLC: four models that share no state, each with   *)
(* behaviours of its own.  `part' says of which; the other three stay as   *)
(* they are.                                                               *)
(***************************************************************************)
EXTENDS Timekeeping

(* The TCA of a 10 MHz part; a TCB below 3 MHz, whose program does not     *)
(* call set_millis().                                                      *)
MCOvfMicros == [TCA |-> 1632, TCB |-> 2000]
MCUses == [TCA |-> {"micros", "millis", "nudge_millis", "set_millis"},
           TCB |-> {"micros", "millis", "nudge_millis"}]

VARIABLE part

(* The RTC, its counter as wide as it is. *)
VARIABLES rtcCnt, rtcFlag, rtcMillis, rtcPc, rtccount, m, rtcSection, base, turns,
          rtcSampled
rtcVars == <<rtcCnt, rtcFlag, rtcMillis, rtcPc, rtccount, m, rtcSection, base, turns,
             rtcSampled>>
R == INSTANCE RtcMillis WITH
        cnt <- rtcCnt, flag <- rtcFlag, timer_millis <- rtcMillis, pc <- rtcPc,
        section <- rtcSection, sampled <- rtcSampled,
        MaxLatency <- 3, MaxSection <- 1, Settings <- {0}, AtOverflow <- FALSE,
        MaxTurns <- 1

(* delay(), a millisecond being three microseconds. *)
VARIABLES variant, clock, delayPc, ms, start, asked, elapsed, gap
delayVars == <<variant, clock, delayPc, ms, start, asked, elapsed, gap>>
D == INSTANCE Delay WITH
        pc <- delayPc,
        Variants <- {"micros", "millis"}, MS <- 3, Wrap <- 32, Grain <- 1,
        Delays <- {0, 1, 7, 16, 19}, MaxGap <- 3, MaxElapsed <- 64
ASSUME DelayIsSound == D!DelayAssumption

(* micros() of every timer and speed.  With a TCB there is a sum for every *)
(* one; with a TCA it does not hold at 10, 24, 25 and 28 MHz; with a TCD   *)
(* it does from the 16 MHz oscillator.  restart_millis() sets another      *)
(* prescaler on a TCA at 30 MHz.                                           *)
TCBSpeeds == {1, 2, 3, 4, 5, 6, 8, 10, 12, 14, 16, 20, 24, 25, 27, 28, 30, 32,
              36, 40, 44, 48}
TCASpeeds == {1, 4, 5, 8, 12, 16, 20, 30, 32}
TCDSpeeds == {1, 4, 8, 16}
SoundBuilds ==
    ({"TCB"} \X TCBSpeeds) \cup ({"TCA"} \X TCASpeeds) \cup ({"TCD"} \X TCDSpeeds)
SoundRestarts == SoundBuilds \ {<<"TCA", 30>>}

VARIABLES scaleTimer, mhz, divider, scaleOverflows, scaleTicks, cycles
scaleVars == <<scaleTimer, mhz, divider, scaleOverflows, scaleTicks, cycles>>
M == INSTANCE MicrosScale WITH
        timer <- scaleTimer, overflows <- scaleOverflows, ticks <- scaleTicks,
        Builds <- SoundBuilds, RestartBuilds <- SoundRestarts,
        MaxOverflows <- 2, Slack <- 1, MaxError <- 4
ASSUME BuildsAreSound == M!BuildsAssumption

----------------------------------------------------------------------------
MCInit ==
    /\ part \in {"timer", "rtc", "delay", "scale"}
    /\ Init /\ R!Init /\ D!Init /\ M!Init
    /\ part # "timer" => kind = "TCB"
    /\ part # "delay" => clock = 0 /\ variant = "micros"
    /\ part # "scale" => scaleTimer = "TCB" /\ mhz = 1

Of(p, step, others) == part = p /\ step /\ UNCHANGED <<part, others>>

MCNext ==
    \/ Of("timer", Next, <<rtcVars, delayVars, scaleVars>>)
    \/ Of("rtc", R!Next, <<vars, delayVars, scaleVars>>)
    \/ Of("delay", D!Next, <<vars, rtcVars, scaleVars>>)
    \/ Of("scale", M!Next, <<vars, rtcVars, delayVars>>)

MCSpec == MCInit /\ [][MCNext]_<<part, vars, rtcVars, delayVars, scaleVars>>

RtcKeepsTime == R!RtcKeepsTime
DelayIsKept  == D!DelayIsKept
MicrosIsTime == M!MicrosIsTime
=============================================================================
