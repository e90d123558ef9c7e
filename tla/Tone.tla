-------------------------------- MODULE Tone --------------------------------
(***************************************************************************)
(* tone(), noTone() and the interrupt of their type B timer (Tone.cpp).    *)
(* tone() sets up timer, pin and counts with interrupts on: it stops the   *)
(* timer first, and an interrupt of the tone that played until then may    *)
(* still run at that moment.  An interrupt that may run does so before the *)
(* program's next step.                                                    *)
(***************************************************************************)
EXTENDS Integers

CONSTANTS
    Ports, Masks, \* a pin is a port and a bit mask
    NotAPin,
    FCPU,         \* F_CPU
    Frequencies,  \* in Hz, not 0
    Counts,       \* toggle counts: -1 for a tone without end
    MaskedCalls   \* tone() is called with interrupts off, too

Pins == Ports \X Masks

ASSUME PinAssumption == NotAPin \notin Pins
ASSUME FCPUAssumption == FCPU \in Nat \ {0}
ASSUME FrequenciesAssumption == Frequencies \subseteq Nat \ {0}
ASSUME CountsAssumption == Counts \subseteq Nat \cup {-1}
ASSUME MaskedAssumption == MaskedCalls \in BOOLEAN

VARIABLES
    clk,          \* CTRLA.CLKSEL: the timer counts every clk-th CPU cycle
    enabled,      \* CTRLA.ENABLE
    ccmp,         \* CCMP
    captei, capt, \* INTCTRL.CAPTEI, INTFLAGS.CAPT
    pin,          \* _pin
    toggleCount,  \* timer_toggle_count
    reg, mask,    \* timer_outtgl_reg (its port), timer_bit_mask
    cycles, left, \* timer_cycle_per_tgl, timer_cycle_per_tgl_count
    out,          \* the pins' levels
    pc, call,     \* where the program is in tone() or noTone(), its locals
    ie,           \* SREG.I
    playing,      \* the call that started the tone
    length,       \* periods of the timer a limited tone has lasted
    cut           \* the tone before ended of itself inside this call

timer   == <<clk, enabled, ccmp, captei, capt>>
driver  == <<pin, toggleCount, reg, mask, cycles, left>>
program == <<pc, call, ie>>
history == <<playing, length, cut>>
vars    == <<timer, driver, out, program, history>>

----------------------------------------------------------------------------
(* The timer's setting for a frequency: half a wave is cycles times        *)
(* ccmp + 1 counts of the timer.                                           *)

Half(frequency) == (FCPU \div frequency) \div 2
Prescaled(half) == half >= 65536

(* The loop halves the count until it fits, six times at most from 0 on.   *)
FactorHigh(half) == 0
FirstFactor(half) == IF Prescaled(half) THEN -1 ELSE 0
Halvings(half) ==
    CHOOSE k \in 0..7 :
        /\ half \div 2^k <= 65536 \/ FirstFactor(half) + k = 6
        /\ \A j \in 0..k-1 : half \div 2^j > 65536

Setting(frequency) ==
    LET half == Half(frequency)
        k    == Halvings(half)
        top  == half \div 2^k - 1
    IN  [clk    |-> IF Prescaled(half) THEN 2 ELSE 1,
         cycles |-> 2^(FirstFactor(half) + k),
         ccmp   |-> IF top > 65535 THEN 65535 ELSE top]

(* Half a wave is 0 where the 16 bits of a frequency exceed F_CPU / 2, and *)
(* at 65536 the shift count is negative: no clock and frequency of the     *)
(* boards do either (boards.txt, 1 to 32 MHz).                             *)
ASSUME HalfAssumption == \A f \in Frequencies : Half(f) \notin {0, 65536}

Calls == [pin : Pins, frequency : Frequencies, count : Counts]
NoCall == [pin |-> NotAPin, frequency |-> 0, count |-> -1]

Init ==
    /\ clk = 1 /\ enabled = FALSE /\ ccmp = 0 /\ captei = FALSE /\ capt = FALSE
    /\ pin = NotAPin /\ toggleCount = 0 /\ reg \in Ports /\ mask \in Masks
    /\ cycles = 0 /\ left = 0
    /\ out = [p \in Pins |-> FALSE]
    /\ pc = "idle" /\ call = NoCall /\ ie = TRUE
    /\ playing = NoCall /\ length = 0 /\ cut = FALSE

Low(p) == [out EXCEPT ![p] = FALSE]

----------------------------------------------------------------------------
(* The interrupt. *)

PeriodEnds ==
    /\ enabled /\ ~capt
    /\ capt' = TRUE
    /\ length' = IF playing.count = -1 THEN 0 ELSE length + 1

Capture ==
    /\ PeriodEnds
    /\ UNCHANGED <<clk, enabled, ccmp, captei, driver, out, program, playing, cut>>

Pending == ie /\ captei /\ capt

LeaveHigh == out' = out
OutClr == out' = [out EXCEPT ![<<reg, mask>>] = FALSE]
DisableTimer ==
    /\ clk' = 1 /\ enabled' = FALSE /\ captei' = FALSE /\ capt' = FALSE
    /\ pin' = NotAPin
    /\ OutClr

Toggle == out' = [out EXCEPT ![<<reg, mask>>] = ~@]
CountDown == toggleCount' = IF toggleCount > 0 THEN toggleCount - 1 ELSE toggleCount

(* The pin is toggled every cycles-th time, ... *)
InterruptSkips ==
    /\ Pending /\ left # 1
    /\ left' = (left + 255) % 256
    /\ capt' = FALSE
    /\ UNCHANGED <<clk, enabled, ccmp, captei, pin, toggleCount, reg, mask, cycles,
                   out, program, history>>

InterruptToggles ==
    /\ Pending /\ left = 1 /\ toggleCount # 0
    /\ left' = cycles
    /\ Toggle /\ CountDown
    /\ capt' = FALSE
    /\ UNCHANGED <<clk, enabled, ccmp, captei, pin, reg, mask, cycles, program, history>>

(* ... and once more at the end, where it is put low at once. *)
InterruptEnds ==
    /\ Pending /\ left = 1 /\ toggleCount = 0
    /\ left' = cycles
    /\ DisableTimer
    /\ cut' = (pc # "idle")
    /\ UNCHANGED <<ccmp, toggleCount, reg, mask, cycles, program, playing, length>>

Interrupt == InterruptSkips \/ InterruptToggles \/ InterruptEnds

----------------------------------------------------------------------------
(* tone(), statement by statement where an interrupt can tell. *)

At(where) == pc = where /\ ~Pending
Goto(where) == pc' = where /\ UNCHANGED <<call, ie>>

Tone(p, frequency, count) ==
    /\ At("idle") /\ (ie \/ MaskedCalls)
    /\ call' = [pin |-> p, frequency |-> frequency, count |-> count]
    /\ pc' = "stop" /\ cut' = FALSE
    /\ UNCHANGED <<timer, driver, out, ie, playing, length>>

(* The timer is stopped.  A period may end with that very store, and then  *)
(* there is one more interrupt.                                            *)
SetClockOnly == clk' = Setting(call.frequency).clk /\ UNCHANGED enabled
SetClock == clk' = Setting(call.frequency).clk /\ enabled' = FALSE
StopTimer ==
    /\ At("stop") /\ Goto("release")
    /\ SetClock
    /\ PeriodEnds \/ UNCHANGED <<capt, length>>
    /\ UNCHANGED <<ccmp, captei, driver, out, playing, cut>>

ReleasePin ==
    /\ At("release")
    /\ Goto(IF pin = call.pin THEN "store" ELSE "mask")
    /\ out' = IF pin \in {call.pin, NotAPin} THEN out ELSE Low(<<reg, mask>>)
    /\ UNCHANGED <<timer, driver, history>>

SetMask ==
    /\ At("mask") /\ Goto("reg")
    /\ mask' = call.pin[2]
    /\ UNCHANGED <<timer, pin, toggleCount, reg, cycles, left, out, history>>

SetReg ==
    /\ At("reg") /\ Goto("store")
    /\ reg' = call.pin[1] /\ out' = Low(<<reg', mask>>)
    /\ UNCHANGED <<timer, pin, toggleCount, mask, cycles, left, history>>

KeepLeft(n) == cycles' = n /\ left' = IF left = 0 THEN n ELSE left
SetCycles(n) == cycles' = n /\ left' = n
Store ==
    /\ At("store") /\ Goto("pin")
    /\ toggleCount' = call.count /\ SetCycles(Setting(call.frequency).cycles)
    /\ ccmp' = Setting(call.frequency).ccmp
    /\ UNCHANGED <<clk, enabled, captei, capt, pin, reg, mask, out, history>>

SetPin ==
    /\ At("pin") /\ Goto("intctrl")
    /\ pin' = call.pin
    /\ UNCHANGED <<timer, toggleCount, reg, mask, cycles, left, out, history>>

EnableInterrupt ==
    /\ At("intctrl") /\ Goto("enable")
    /\ captei' = TRUE
    /\ UNCHANGED <<clk, enabled, ccmp, capt, driver, out, history>>

Enable ==
    /\ At("enable")
    /\ pc' = "idle" /\ call' = NoCall /\ UNCHANGED ie
    /\ enabled' = TRUE
    /\ playing' = call /\ length' = 0
    /\ UNCHANGED <<clk, ccmp, captei, capt, driver, out, cut>>

ToneSteps ==
    \/ StopTimer \/ ReleasePin \/ SetMask \/ SetReg \/ Store \/ SetPin
    \/ EnableInterrupt \/ Enable

(* noTone(), or tone() with frequency 0: the pin is looked at with         *)
(* interrupts on.                                                          *)
NoTone(p) ==
    /\ At("idle") /\ p = pin
    /\ Goto("quiet")
    /\ UNCHANGED <<timer, driver, out, history>>

Quiet ==
    /\ At("quiet") /\ Goto("idle")
    /\ toggleCount' = 0 /\ DisableTimer
    /\ UNCHANGED <<ccmp, reg, mask, cycles, left, history>>

SetInterrupts ==
    /\ pc = "idle"
    /\ ie' = ~ie
    /\ UNCHANGED <<timer, driver, out, pc, call, history>>

AnyTone ==
    \E p \in Pins, frequency \in Frequencies, count \in Counts :
        Tone(p, frequency, count)
Program ==
    \/ AnyTone
    \/ \E p \in Pins : NoTone(p)
    \/ SetInterrupts

Next == Capture \/ Interrupt \/ ToneSteps \/ Quiet \/ Program

(* The timer runs, the CPU takes its interrupts and executes; nobody calls *)
(* anything.                                                               *)
Fairness ==
    WF_vars(Capture) /\ WF_vars(Interrupt) /\ WF_vars(ToneSteps \/ Quiet)

Spec == Init /\ [][Next]_vars
FairSpec == Spec /\ Fairness
----------------------------------------------------------------------------
(* Properties *)

TypeOK ==
    /\ clk \in {1, 2} /\ enabled \in BOOLEAN /\ ccmp \in 0..65535
    /\ captei \in BOOLEAN /\ capt \in BOOLEAN
    /\ pin \in Pins \cup {NotAPin} /\ toggleCount \in Nat \cup {-1}
    /\ reg \in Ports /\ mask \in Masks
    /\ cycles \in 0..64 /\ left \in 0..64
    /\ out \in [Pins -> BOOLEAN]
    /\ pc \in {"idle", "stop", "release", "mask", "reg", "store", "pin", "intctrl",
               "enable", "quiet"}
    /\ call \in Calls \cup {NoCall} /\ playing \in Calls \cup {NoCall}
    /\ ie \in BOOLEAN /\ length \in Nat /\ cut \in BOOLEAN

(* No pin is left high where no tone plays, it damages speakers            *)
(* (Tone.cpp:35-43): whatever calls and interrupts came in which order, a  *)
(* pin is high only while the timer plays a tone on it.                    *)
SilentIsLow ==
    pc = "idle" => \A p \in Pins : out[p] => enabled /\ p = pin

(* The interrupt toggles the pin of the tone that plays, also where tone() *)
(* is on its way from one pin to another: never the old port with the new  *)
(* mask.                                                                   *)
TogglesItsPin ==
    [][Interrupt => \A p \in Pins : out'[p] # out[p] => p = playing.pin]_vars

(* Half a wave lasts what the frequency asks for, up to the timer's        *)
(* resolution or its longest period.  It is what Tone.cpp:211 says of the  *)
(* interrupt that tone() may still meet when it stops the timer: "There    *)
(* may be one final interrupt at the moment we do so but that's not a      *)
(* problem".                                                               *)
HalfWave == clk * cycles * (ccmp + 1)
Near(n, half) == n <= half /\ (half - n < 128 \/ n = 65536 * 128)
PitchIsRight ==
    enabled /\ pc = "idle" => Near(HalfWave, Half(playing.frequency))

(* What is left of it: that interrupt does harm only where it ends the old *)
(* tone inside the call, for disableTimer() then puts back the prescaler   *)
(* tone() has just chosen.  The new tone is an octave high at worst; the   *)
(* interrupt's count, the longest period and the skipped interrupts are    *)
(* right in any case, and after every other interleaving all is.           *)
PitchOrOctave ==
    enabled /\ pc = "idle" =>
        LET half == Half(playing.frequency)
        IN  Near(HalfWave, half) \/ (cut /\ clk = 1 /\ Near(2 * HalfWave, half))

(* A tone of limited duration ends after exactly one toggle more than it   *)
(* was asked for, counted in whole periods of the timer ...                *)
LengthAsAsked ==
    [][(InterruptEnds /\ playing.count # -1) =>
           length = (playing.count + 1) * cycles]_vars

(* ... and it does end, unless the program keeps interrupts off.           *)
Limited == enabled /\ toggleCount >= 0
LengthIsRight ==
    /\ Limited ~> (~Limited \/ ~ie)
    /\ LengthAsAsked
=============================================================================
