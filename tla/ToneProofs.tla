----------------------------- MODULE ToneProofs -----------------------------
(***************************************************************************)
(* Proofs about Tone, for every set of pins, every clock, frequencies and  *)
(* counts, with tone() called with interrupts on or off: which pin the     *)
(* interrupt toggles, that no pin is left high, and the pitch; and, for    *)
(* calls with interrupts on, the length of a limited tone.                 *)
(***************************************************************************)
EXTENDS Tone, TLAPS

Calm    == pc \in {"idle", "stop", "quiet"}
Holding == pc \in {"store", "pin", "intctrl", "enable"}

Typed ==
    /\ pc \in {"idle", "stop", "quiet", "release", "mask", "reg", "store", "pin",
               "intctrl", "enable"}
    /\ enabled \in BOOLEAN /\ captei \in BOOLEAN /\ capt \in BOOLEAN /\ ie \in BOOLEAN
    /\ pin \in Pins \cup {NotAPin} /\ reg \in Ports /\ mask \in Masks
    /\ out \in [Pins -> BOOLEAN]

(* Outside the middle of tone() the timer runs and interrupts if and only  *)
(* if a pin is claimed, and port and mask are that pin's.                  *)
Settled ==
    Calm => /\ enabled <=> pin # NotAPin
            /\ captei <=> enabled
            /\ ~enabled => ~capt
            /\ enabled => pin = <<reg, mask>> /\ playing.pin = pin

(* Where tone() has just stopped the timer one interrupt of the tone that  *)
(* played may be pending, and it finds port and mask as they were; from    *)
(* there on none is.                                                       *)
Stopped ==
    /\ pc \notin {"idle", "quiet"} => call.pin \in Pins
    /\ ~Calm => ~enabled /\ (ie /\ capt => pc = "release" /\ captei)
    /\ pc = "release" /\ pin # NotAPin => pin = <<reg, mask>>
    /\ pc = "release" /\ captei => pin # NotAPin /\ playing.pin = pin
    /\ pc = "reg" => mask = call.pin[2]
    /\ Holding => <<reg, mask>> = call.pin
    /\ pc \in {"intctrl", "enable"} => pin = call.pin
    /\ pc = "enable" => captei

(* The pin that may be high. *)
Highs ==
    \A p \in Pins :
        out[p] => \/ (Calm \/ pc = "release") /\ p = pin
                  \/ Holding /\ p = call.pin

TInv == Typed /\ Settled /\ Stopped /\ Highs

----------------------------------------------------------------------------
(* Lemmas *)

(* A pin is a port and a mask, and none is NOT_A_PIN.                      *)
LEMMA APin ==
    /\ NotAPin \notin Pins
    /\ \A r \in Ports, m \in Masks : <<r, m>> \in Pins
    /\ \A p \in Pins : p = <<p[1], p[2]>> /\ p[1] \in Ports /\ p[2] \in Masks
  BY PinAssumption DEF Pins

(* The types are inductive by themselves but for the pin that is called for. *)
LEMMA TypedStep ==
    ASSUME Typed, Stopped, [Next]_vars
    PROVE  Typed'
<1> USE DEF Typed, Stopped, Holding, Calm, Pins, NoCall, timer, driver, program, history
<1>1. CASE Capture
  BY <1>1 DEF Capture, PeriodEnds
<1>2. CASE InterruptSkips
  BY <1>2 DEF InterruptSkips, Pending
<1>3. CASE InterruptToggles
  BY <1>3 DEF InterruptToggles, Pending, Toggle, CountDown
<1>4. CASE InterruptEnds
  BY <1>4 DEF InterruptEnds, Pending, DisableTimer, OutClr
<1>5. CASE StopTimer
  BY <1>5 DEF StopTimer, PeriodEnds, At, Goto, Pending, SetClock
<1>6. CASE ReleasePin
  BY <1>6 DEF ReleasePin, At, Goto, Pending, Low
<1>7. CASE SetMask
  BY <1>7 DEF SetMask, At, Goto, Pending
<1>8. CASE SetReg
  BY <1>8 DEF SetReg, At, Goto, Pending, Low
<1>9. CASE Store
  BY <1>9 DEF Store, At, Goto, Pending, SetCycles
<1>10. CASE SetPin
  BY <1>10 DEF SetPin, At, Goto, Pending
<1>11. CASE EnableInterrupt
  BY <1>11 DEF EnableInterrupt, At, Goto, Pending
<1>12. CASE Enable
  BY <1>12 DEF Enable, At, Goto, Pending
<1>13. CASE Quiet
  BY <1>13 DEF Quiet, At, Goto, Pending, DisableTimer, OutClr
<1>14. ASSUME NEW p \in Pins, NEW frequency \in Frequencies, NEW count \in Counts,
             Tone(p, frequency, count)
      PROVE  Typed'
  BY <1>14 DEF Tone, At, Pending
<1>15. ASSUME NEW p \in Pins, NoTone(p)
      PROVE  Typed'
  BY <1>15 DEF NoTone, At, Goto, Pending
<1>16. CASE SetInterrupts
  BY <1>16 DEF SetInterrupts
<1>17. CASE UNCHANGED vars
  BY <1>17 DEF vars
<1> QED
  BY <1>1, <1>2, <1>3, <1>4, <1>5, <1>6, <1>7, <1>8, <1>9,
     <1>10, <1>11, <1>12, <1>13, <1>14, <1>15, <1>16, <1>17
  DEF Next, Interrupt, ToneSteps, Program, AnyTone

(* Timer, interrupt, pin, port and mask agree again when tone() is done.   *)
LEMMA SettledStep ==
    ASSUME TInv, [Next]_vars
    PROVE  Settled'
<1> USE PinAssumption, APin DEF TInv, Typed, Settled, Stopped, Calm, Holding,
         timer, driver, program, history
<1>1. CASE Capture
  BY <1>1 DEF Capture, PeriodEnds
<1>2. CASE InterruptSkips
  BY <1>2 DEF InterruptSkips, Pending
<1>3. CASE InterruptToggles
  BY <1>3 DEF InterruptToggles, Pending, Toggle, CountDown
<1>4. CASE InterruptEnds
  BY <1>4 DEF InterruptEnds, Pending, DisableTimer, OutClr
<1>5. CASE StopTimer
  BY <1>5 DEF StopTimer, PeriodEnds, At, Goto, Pending, SetClock
<1>6. CASE ReleasePin
  BY <1>6 DEF ReleasePin, At, Goto, Pending, Low
<1>7. CASE SetMask
  BY <1>7 DEF SetMask, At, Goto, Pending
<1>8. CASE SetReg
  BY <1>8 DEF SetReg, At, Goto, Pending, Low
<1>9. CASE Store
  BY <1>9 DEF Store, At, Goto, Pending, SetCycles
<1>10. CASE SetPin
  BY <1>10 DEF SetPin, At, Goto, Pending
<1>11. CASE EnableInterrupt
  BY <1>11 DEF EnableInterrupt, At, Goto, Pending
<1>12. CASE Enable
  BY <1>12 DEF Enable, At, Goto, Pending
<1>13. CASE Quiet
  BY <1>13 DEF Quiet, At, Goto, Pending, DisableTimer, OutClr
<1>14. ASSUME NEW p \in Pins, NEW frequency \in Frequencies, NEW count \in Counts,
             Tone(p, frequency, count)
      PROVE  Settled'
  BY <1>14 DEF Tone, At, Pending
<1>15. ASSUME NEW p \in Pins, NoTone(p)
      PROVE  Settled'
  BY <1>15 DEF NoTone, At, Goto, Pending
<1>16. CASE SetInterrupts
  BY <1>16 DEF SetInterrupts
<1>17. CASE UNCHANGED vars
  BY <1>17 DEF vars
<1> QED
  BY <1>1, <1>2, <1>3, <1>4, <1>5, <1>6, <1>7, <1>8, <1>9,
     <1>10, <1>11, <1>12, <1>13, <1>14, <1>15, <1>16, <1>17
  DEF Next, Interrupt, ToneSteps, Program, AnyTone

(* tone() changes port and mask while nothing can interrupt it.            *)
LEMMA StoppedStep ==
    ASSUME TInv, [Next]_vars
    PROVE  Stopped'
<1> USE PinAssumption, APin DEF TInv, Typed, Settled, Stopped, Calm, Holding, NoCall,
         timer, driver, program, history
<1>1. CASE Capture
  BY <1>1 DEF Capture, PeriodEnds
<1>2. CASE InterruptSkips
  BY <1>2 DEF InterruptSkips, Pending
<1>3. CASE InterruptToggles
  BY <1>3 DEF InterruptToggles, Pending, Toggle, CountDown
<1>4. CASE InterruptEnds
  BY <1>4 DEF InterruptEnds, Pending, DisableTimer, OutClr
<1>5. CASE StopTimer
  BY <1>5 DEF StopTimer, PeriodEnds, At, Goto, Pending, SetClock
<1>6. CASE ReleasePin
  BY <1>6 DEF ReleasePin, At, Goto, Pending, Low
<1>7. CASE SetMask
  BY <1>7 DEF SetMask, At, Goto, Pending
<1>8. CASE SetReg
  BY <1>8 DEF SetReg, At, Goto, Pending, Low
<1>9. CASE Store
  BY <1>9 DEF Store, At, Goto, Pending, SetCycles
<1>10. CASE SetPin
  BY <1>10 DEF SetPin, At, Goto, Pending
<1>11. CASE EnableInterrupt
  BY <1>11 DEF EnableInterrupt, At, Goto, Pending
<1>12. CASE Enable
  BY <1>12 DEF Enable, At, Goto, Pending
<1>13. CASE Quiet
  BY <1>13 DEF Quiet, At, Goto, Pending, DisableTimer, OutClr
<1>14. ASSUME NEW p \in Pins, NEW frequency \in Frequencies, NEW count \in Counts,
             Tone(p, frequency, count)
      PROVE  Stopped'
  BY <1>14 DEF Tone, At, Pending
<1>15. ASSUME NEW p \in Pins, NoTone(p)
      PROVE  Stopped'
  BY <1>15 DEF NoTone, At, Goto, Pending
<1>16. CASE SetInterrupts
  BY <1>16 DEF SetInterrupts
<1>17. CASE UNCHANGED vars
  BY <1>17 DEF vars
<1> QED
  BY <1>1, <1>2, <1>3, <1>4, <1>5, <1>6, <1>7, <1>8, <1>9,
     <1>10, <1>11, <1>12, <1>13, <1>14, <1>15, <1>16, <1>17
  DEF Next, Interrupt, ToneSteps, Program, AnyTone

(* No pin is high but the one that port and mask are for.                  *)
LEMMA HighsStep ==
    ASSUME TInv, [Next]_vars
    PROVE  Highs'
<1> USE PinAssumption, APin DEF TInv, Typed, Settled, Stopped, Calm, Holding, Highs,
         timer, driver, program, history
<1>1. CASE Capture
  BY <1>1 DEF Capture, PeriodEnds
<1>2. CASE InterruptSkips
  BY <1>2 DEF InterruptSkips, Pending
<1>3. CASE InterruptToggles
  BY <1>3 DEF InterruptToggles, Pending, Toggle, CountDown
<1>4. CASE InterruptEnds
  BY <1>4 DEF InterruptEnds, Pending, DisableTimer, OutClr
<1>5. CASE StopTimer
  BY <1>5 DEF StopTimer, PeriodEnds, At, Goto, Pending, SetClock
<1>6. CASE ReleasePin
  BY <1>6 DEF ReleasePin, At, Goto, Pending, Low
<1>7. CASE SetMask
  BY <1>7 DEF SetMask, At, Goto, Pending
<1>8. CASE SetReg
  BY <1>8 DEF SetReg, At, Goto, Pending, Low
<1>9. CASE Store
  BY <1>9 DEF Store, At, Goto, Pending, SetCycles
<1>10. CASE SetPin
  BY <1>10 DEF SetPin, At, Goto, Pending
<1>11. CASE EnableInterrupt
  BY <1>11 DEF EnableInterrupt, At, Goto, Pending
<1>12. CASE Enable
  BY <1>12 DEF Enable, At, Goto, Pending
<1>13. CASE Quiet
  BY <1>13 DEF Quiet, At, Goto, Pending, DisableTimer, OutClr
<1>14. ASSUME NEW p \in Pins, NEW frequency \in Frequencies, NEW count \in Counts,
             Tone(p, frequency, count)
      PROVE  Highs'
  BY <1>14 DEF Tone, At, Pending
<1>15. ASSUME NEW p \in Pins, NoTone(p)
      PROVE  Highs'
  BY <1>15 DEF NoTone, At, Goto, Pending
<1>16. CASE SetInterrupts
  BY <1>16 DEF SetInterrupts
<1>17. CASE UNCHANGED vars
  BY <1>17 DEF vars
<1> QED
  BY <1>1, <1>2, <1>3, <1>4, <1>5, <1>6, <1>7, <1>8, <1>9,
     <1>10, <1>11, <1>12, <1>13, <1>14, <1>15, <1>16, <1>17
  DEF Next, Interrupt, ToneSteps, Program, AnyTone

----------------------------------------------------------------------------
(* The pitch. *)

(* The timer is set for the call c, but for the prescaler where the tone   *)
(* before took it with it.                                                 *)
Prepared(c) ==
    cycles = Setting(c.frequency).cycles /\ ccmp = Setting(c.frequency).ccmp
Clocked(c) == clk = Setting(c.frequency).clk \/ (cut /\ clk = 1)

PitchInv ==
    /\ pc \notin {"idle", "quiet"} => call.frequency \in Frequencies
    /\ ~Calm => Clocked(call)
    /\ pc \in {"pin", "intctrl", "enable"} => Prepared(call)
    /\ pc = "idle" /\ enabled =>
          playing.frequency \in Frequencies /\ Prepared(playing) /\ Clocked(playing)

LEMMA PitchStep ==
    ASSUME TInv, PitchInv, [Next]_vars
    PROVE  PitchInv'
<1> USE DEF TInv, Typed, Settled, Stopped, Calm, Holding, PitchInv, Prepared, Clocked,
            timer, driver, program, history
<1>1. CASE Capture
  BY <1>1 DEF Capture, PeriodEnds
<1>2. CASE InterruptSkips
  BY <1>2 DEF InterruptSkips, Pending
<1>3. CASE InterruptToggles
  BY <1>3 DEF InterruptToggles, Pending, Toggle, CountDown
<1>4. CASE InterruptEnds
  BY <1>4 DEF InterruptEnds, Pending, DisableTimer, OutClr
<1>5. CASE StopTimer
  BY <1>5 DEF StopTimer, PeriodEnds, At, Goto, Pending, SetClock
<1>6. CASE ReleasePin
  BY <1>6 DEF ReleasePin, At, Goto, Pending, Low
<1>7. CASE SetMask
  BY <1>7 DEF SetMask, At, Goto, Pending
<1>8. CASE SetReg
  BY <1>8 DEF SetReg, At, Goto, Pending, Low
<1>9. CASE Store
  BY <1>9 DEF Store, At, Goto, Pending, SetCycles
<1>10. CASE SetPin
  BY <1>10 DEF SetPin, At, Goto, Pending
<1>11. CASE EnableInterrupt
  BY <1>11 DEF EnableInterrupt, At, Goto, Pending
<1>12. CASE Enable
  BY <1>12 DEF Enable, At, Goto, Pending
<1>13. CASE Quiet
  BY <1>13 DEF Quiet, At, Goto, Pending, DisableTimer, OutClr
<1>14. ASSUME NEW p \in Pins, NEW frequency \in Frequencies, NEW count \in Counts,
             Tone(p, frequency, count)
      PROVE  PitchInv'
  BY <1>14 DEF Tone, At, Pending
<1>15. ASSUME NEW p \in Pins, NoTone(p)
      PROVE  PitchInv'
  BY <1>15 DEF NoTone, At, Goto, Pending
<1>16. CASE SetInterrupts
  BY <1>16 DEF SetInterrupts
<1>17. CASE UNCHANGED vars
  BY <1>17 DEF vars
<1> QED
  BY <1>1, <1>2, <1>3, <1>4, <1>5, <1>6, <1>7, <1>8, <1>9,
     <1>10, <1>11, <1>12, <1>13, <1>14, <1>15, <1>16, <1>17
  DEF Next, Interrupt, ToneSteps, Program, AnyTone

(* The powers of two there are, as a table. *)
Weight(k) ==
    IF k = 0 THEN 1 ELSE IF k = 1 THEN 2 ELSE IF k = 2 THEN 4 ELSE IF k = 3 THEN 8
    ELSE IF k = 4 THEN 16 ELSE IF k = 5 THEN 32 ELSE IF k = 6 THEN 64 ELSE 128
Weights == {1, 2, 4, 8, 16, 32, 64, 128}

LEMMA Power ==
    ASSUME NEW k \in 0..7
    PROVE  2^k = Weight(k)
<1>1. /\ 2^0 = 1 /\ 2^1 = 2 /\ 2^2 = 4 /\ 2^3 = 8
      /\ 2^4 = 16 /\ 2^5 = 32 /\ 2^6 = 64 /\ 2^7 = 128
  OBVIOUS
<1>2. k \in {0, 1, 2, 3, 4, 5, 6, 7}
  OBVIOUS
<1>3. QED
  BY <1>1, <1>2 DEF Weight

LEMMA PowerOf ==
    ASSUME NEW n, NEW k \in 0..7, n = k
    PROVE  2^n = Weight(k)
  BY Power

LEMMA WeightIs ==
    ASSUME NEW k \in 0..7
    PROVE  /\ Weight(k) \in Weights
           /\ k > 0 => Weight(k) > 1 /\ 2 * Weight(k - 1) = Weight(k)
  BY DEF Weight, Weights

LEMMA DivBy ==
    ASSUME NEW h \in Nat, NEW w \in Weights
    PROVE  h \div w \in Nat /\ w * (h \div w) <= h /\ h - w * (h \div w) < w
  BY Z3 DEF Weights

(* The first number of a set, or the last there is. *)
LEMMA FirstOf ==
    ASSUME NEW F
    PROVE  \E k \in 0..7 : (k \in F \/ k = 7) /\ \A j \in 0..k-1 : j \notin F
<1> DEFINE First(k) == (k \in F \/ k = 7) /\ \A j \in 0..k-1 : j \notin F
<1>1. CASE \E k \in 0..3 : k \in F
  <2>1. First(0) \/ First(1) \/ First(2) \/ First(3)
    BY <1>1
  <2>2. QED
    BY <2>1
<1>2. CASE \A k \in 0..3 : k \notin F
  <2>1. First(4) \/ First(5) \/ First(6) \/ First(7)
    BY <1>2
  <2>2. QED
    BY <2>1
<1>3. QED
  BY <1>1, <1>2

(* Where the loop stops. *)
Shifted(h, k) == h \div Weight(k)
Stops(h, k) ==
    /\ Shifted(h, k) <= 65536 \/ FirstFactor(h) + k = 6
    /\ \A j \in 0..k-1 : Shifted(h, j) > 65536

LEMMA ShiftedIs == \A h \in Nat, k \in 0..7 : h \div 2^k = Shifted(h, k)
  BY Power DEF Shifted

LEMMA ShiftedNat == \A h \in Nat, k \in 0..7 : Shifted(h, k) \in Nat
  BY WeightIs, DivBy DEF Shifted

LEMMA ShiftedByNone ==
    ASSUME NEW h \in Nat
    PROVE  Shifted(h, 0) = h
<1>1. Weight(0) = 1 /\ h \div 1 = h
  BY DEF Weight
<1>2. QED
  BY <1>1 DEF Shifted

LEMMA HalvingsStop ==
    ASSUME NEW h \in Nat
    PROVE  Halvings(h) \in 0..7 /\ Stops(h, Halvings(h))
<1> DEFINE F == {k \in 0..7 : Shifted(h, k) <= 65536}
<1>1. \E k \in 0..7 : Stops(h, k)
  <2>1. CASE h < 65536
    <3>1. Stops(h, 0)
      BY <2>1, ShiftedByNone DEF Stops
    <3>2. QED
      BY <3>1
  <2>2. CASE h >= 65536
    <3>1. FirstFactor(h) = -1
      BY <2>2 DEF FirstFactor, Prescaled
    <3>2. PICK k \in 0..7 : (k \in F \/ k = 7) /\ \A j \in 0..k-1 : j \notin F
      <4> HIDE DEF F
      <4>1. QED
        BY FirstOf
    <3>3. ASSUME NEW j \in 0..k-1 PROVE Shifted(h, j) > 65536
      <4>1. j \in 0..7
        OBVIOUS
      <4>2. Shifted(h, j) \in Nat
        BY <4>1, ShiftedNat
      <4>3. QED
        BY <3>2, <4>1, <4>2
    <3>4. Shifted(h, k) <= 65536 \/ FirstFactor(h) + k = 6
      BY <3>1, <3>2
    <3>5. Stops(h, k)
      BY <3>3, <3>4 DEF Stops
    <3>6. QED
      BY <3>5
  <2>3. QED
    BY <2>1, <2>2
<1> DEFINE Loop(k) == /\ h \div 2^k <= 65536 \/ FirstFactor(h) + k = 6
                      /\ \A j \in 0..k-1 : h \div 2^j > 65536
<1>2. ASSUME NEW k \in 0..7
      PROVE  Stops(h, k) <=> Loop(k)
  <2>1. \A j \in 0..k-1 : h \div 2^j = Shifted(h, j)
    <3>1. \A j \in 0..k-1 : j \in 0..7
      OBVIOUS
    <3>2. QED
      BY <3>1, ShiftedIs
  <2>2. h \div 2^k = Shifted(h, k)
    BY ShiftedIs
  <2>3. QED
    BY <2>1, <2>2 DEF Stops
<1>3. \E k \in 0..7 : Loop(k)
  BY <1>1, <1>2
<1>4. Halvings(h) = CHOOSE k \in 0..7 : Loop(k)
  BY SMT DEF Halvings
<1>5. Loop(Halvings(h)) /\ Halvings(h) \in 0..7
  <2> HIDE DEF Loop
  <2>1. QED
    BY <1>3, <1>4
<1> HIDE DEF Loop
<1>6. QED
  BY <1>2, <1>5

LEMMA SettingParts ==
    ASSUME NEW f, NEW h \in Nat, h = Half(f), NEW k \in 0..7, k = Halvings(h)
    PROVE  /\ Setting(f).clk = (IF Prescaled(h) THEN 2 ELSE 1)
           /\ Setting(f).cycles = 2^(FirstFactor(h) + k)
           /\ Setting(f).ccmp = IF Shifted(h, k) - 1 > 65535 THEN 65535
                                ELSE Shifted(h, k) - 1
<1>1. h \div 2^k = Shifted(h, k)
  BY ShiftedIs
<1>2. QED
  BY <1>1 DEF Setting

(* Half a wave of the setting, in cycles of the CPU: never more than was   *)
(* asked for, and less by the timer's resolution at most.                  *)
LEMMA SettingIsNear ==
    ASSUME NEW f, Half(f) \in Nat \ {0, 65536}
    PROVE  /\ Setting(f).clk \in {1, 2}
           /\ Setting(f).cycles \in 1..64 /\ Setting(f).ccmp \in Nat
           /\ Near(Setting(f).clk * Setting(f).cycles * (Setting(f).ccmp + 1), Half(f))
<1> DEFINE h == Half(f)
           k == Halvings(h)
           t == Shifted(h, k)
           top == IF t - 1 > 65535 THEN 65535 ELSE t - 1
<1>1. k \in 0..7 /\ Stops(h, k) /\ h \in Nat \ {0, 65536}
  BY HalvingsStop
<1> HIDE DEF h, k
<1>2. /\ Setting(f).clk = (IF Prescaled(h) THEN 2 ELSE 1)
      /\ Setting(f).cycles = 2^(FirstFactor(h) + k) /\ Setting(f).ccmp = top
  BY <1>1, SettingParts DEF h, k
<1>3. CASE h < 65536
  <2>1. k = 0
    BY <1>1, <1>3, ShiftedByNone DEF Stops
  <2>2. t = h /\ top = h - 1
    BY <1>1, <1>3, <2>1, ShiftedByNone
  <2>3. Setting(f).clk = 1 /\ Setting(f).cycles = 1 /\ Setting(f).ccmp = h - 1
    <3>1. FirstFactor(h) + k = 0 /\ ~Prescaled(h) /\ Weight(0) = 1
      BY <1>1, <1>3, <2>1 DEF Prescaled, FirstFactor, Weight
    <3>2. 2^(FirstFactor(h) + k) = 1
      BY <3>1, PowerOf
    <3>3. QED
      BY <1>2, <2>2, <3>1, <3>2
  <2>4. QED
    BY <1>1, <2>3 DEF Near, h
<1>4. CASE h > 65536
  <2>1. Prescaled(h) /\ FirstFactor(h) = -1
    BY <1>1, <1>4 DEF Prescaled, FirstFactor
  <2>2. k \in 1..7
    BY <1>1, <1>4, <2>1, ShiftedByNone DEF Stops
  <2> DEFINE w == Weight(k)
  <2>3. w \in Weights /\ w > 1 /\ 2 * Weight(k - 1) = w /\ Weight(k - 1) \in Weights
    BY <2>2, WeightIs
  <2>4. 2^(FirstFactor(h) + k) = Weight(k - 1)
    <3>1. FirstFactor(h) + k = k - 1 /\ k - 1 \in 0..7
      BY <2>1, <2>2
    <3>2. QED
      BY <3>1, PowerOf
  <2>5. Setting(f).clk = 2 /\ Setting(f).cycles = Weight(k - 1) /\ Setting(f).ccmp = top
    BY <1>2, <2>1, <2>4
  <2>6. t <= 65536 \/ k = 7
    BY <1>1, <2>1 DEF Stops
  <2>7. t \in Nat /\ w * t <= h /\ h - w * t < w
    BY <1>1, <2>3, DivBy DEF Shifted
  <2>8. t > 0
    <3>1. w \in Int /\ w <= 128
      BY <2>3 DEF Weights
    <3>2. ASSUME t = 0 PROVE FALSE
      BY <1>1, <1>4, <2>7, <3>1, <3>2
    <3>3. QED
      BY <2>7, <3>2
  <2> HIDE DEF t
  <2>9. CASE t <= 65536
    <3>1. top \in Nat /\ top + 1 = t
      BY <2>7, <2>8, <2>9
    <3>2. Near(w * t, h)
      BY <1>1, <2>3, <2>7 DEF Near, Weights
    <3>3. QED
      BY <2>3, <2>5, <3>1, <3>2 DEF h, Weights
  <2>10. CASE t > 65536
    <3>1. w = 128 /\ top = 65535 /\ 128 * 65536 <= h
      BY <1>1, <2>6, <2>7, <2>10 DEF Weight
    <3>2. QED
      BY <1>1, <2>3, <2>5, <3>1 DEF Near, h, Weights
  <2>11. QED
    BY <2>7, <2>9, <2>10
<1>5. QED
  BY <1>1, <1>3, <1>4

----------------------------------------------------------------------------
(* How long a tone of limited duration lasts. *)

(* Periods of the timer from the start until only t of n toggles and the   *)
(* last l of c periods are left.                                           *)
Passed(n, t, c, l) == (n - t) * c + (c - l)

LEMMA OneMore ==
    ASSUME NEW d \in Int, NEW c \in Int
    PROVE  d * c \in Int /\ (d + 1) * c = d * c + c
  OBVIOUS

LEMMA PassedNone ==
    ASSUME NEW n \in Nat, NEW c \in Nat
    PROVE  Passed(n, n, c, c) = 0
<1>1. (n - n) * c = 0
  BY n - n = 0
<1>2. QED
  BY <1>1 DEF Passed

LEMMA PassedStep ==
    ASSUME NEW n \in Nat, NEW t \in 0..n, NEW c \in 1..64, NEW l \in 1..c
    PROVE  /\ Passed(n, t, c, l) \in Int
           /\ Passed(n, t, c, l - 1) = Passed(n, t, c, l) + 1
<1> DEFINE product == (n - t) * c
<1>1. product \in Int
  BY OneMore
<1> HIDE DEF product
<1>2. \A m : Passed(n, t, c, m) = product + (c - m)
  BY DEF Passed, product
<1>3. QED
  BY <1>1, <1>2

LEMMA PassedToggle ==
    ASSUME NEW n \in Nat, NEW t \in 1..n, NEW c \in 1..64
    PROVE  Passed(n, t - 1, c, c) = Passed(n, t, c, 1) + 1
<1>1. n - (t - 1) = (n - t) + 1 /\ n - t \in Int
  OBVIOUS
<1>2. (n - (t - 1)) * c = (n - t) * c + c /\ (n - t) * c \in Int
  BY <1>1, OneMore
<1>3. QED
  BY <1>2 DEF Passed

LEMMA PassedAll ==
    ASSUME NEW n \in Nat, NEW c \in 1..64
    PROVE  Passed(n, 0, c, 1) + 1 = (n + 1) * c
<1>1. n - 0 = n /\ (n + 1) * c = n * c + c /\ n * c \in Int
  BY OneMore
<1>2. QED
  BY <1>1 DEF Passed

LEMMA HalfIs ==
    ASSUME NEW f \in Frequencies
    PROVE  Half(f) \in Nat \ {0, 65536}
<1>1. f \in Nat \ {0}
  BY FrequenciesAssumption
<1>2. (FCPU \div f) \div 2 \in Nat
  BY <1>1, FCPUAssumption, Z3
<1>3. QED
  BY <1>2, HalfAssumption DEF Half

(* Where the interrupt of the tone that plays still counts.                *)
Playing == captei /\ pc \in {"idle", "stop", "release", "quiet"}

LengthInv ==
    /\ pc \notin {"idle", "quiet"} => ie /\ call.count \in Counts
    /\ pc \in {"pin", "intctrl", "enable"} =>
          toggleCount = call.count /\ left = cycles /\ cycles \in 1..64
    /\ Playing /\ playing.count # -1 =>
          /\ playing.count \in Nat /\ toggleCount \in 0..playing.count
          /\ cycles \in 1..64 /\ left \in 1..cycles
          /\ length = Passed(playing.count, toggleCount, cycles, left)
                      + (IF capt THEN 1 ELSE 0)

LEMMA LengthStep ==
    ASSUME ~MaskedCalls, TInv, PitchInv, LengthInv, [Next]_vars
    PROVE  LengthInv'
<1> USE DEF TInv, Typed, Settled, Stopped, Calm, Holding, PitchInv, LengthInv, Playing,
            timer, driver, program, history
<1>1. CASE Capture
  <2>1. enabled /\ ~capt /\ capt' = TRUE
    BY <1>1 DEF Capture, PeriodEnds
  <2>2. length' = IF playing.count = -1 THEN 0 ELSE length + 1
    BY <1>1 DEF Capture, PeriodEnds
  <2>3. UNCHANGED <<captei, toggleCount, left, cycles, pc, call, ie, playing>>
    BY <1>1 DEF Capture
  <2>4. playing.count # -1 /\ Playing
          => Passed(playing.count, toggleCount, cycles, left) \in Int
    BY PassedStep
  <2>5. QED
    BY <2>1, <2>2, <2>3, <2>4
<1>2. CASE InterruptSkips
  <2>1. Playing /\ capt /\ left # 1
    BY <1>2 DEF InterruptSkips, Pending
  <2>2. /\ capt' = FALSE /\ left' = (left + 255) % 256
        /\ UNCHANGED <<captei, toggleCount, cycles, pc, call, ie, playing, length>>
    BY <1>2 DEF InterruptSkips
  <2>3. CASE playing.count # -1
    <3>1. left' = left - 1
      BY <2>1, <2>2, <2>3
    <3>2. Passed(playing.count, toggleCount, cycles, left - 1)
            = Passed(playing.count, toggleCount, cycles, left) + 1
      BY <2>1, <2>3, PassedStep
    <3>3. length' = Passed(playing'.count, toggleCount', cycles', left') + 0
      <4>1. Passed(playing.count, toggleCount, cycles, left) \in Int
        BY <2>1, <2>3, PassedStep
      <4>2. QED
        BY <2>1, <2>2, <2>3, <3>1, <3>2, <4>1
    <3>4. /\ playing'.count \in Nat /\ toggleCount' \in 0..playing'.count
          /\ cycles' \in 1..64 /\ left' \in 1..cycles'
      BY <2>1, <2>2, <2>3, <3>1
    <3>5. /\ pc \notin {"pin", "intctrl", "enable"}
          /\ pc' \notin {"idle", "quiet"} => ie' /\ call'.count \in Counts
      BY <2>1, <2>2
    <3>6. QED
      BY <2>2, <3>3, <3>4, <3>5
  <2>4. CASE playing.count = -1
    BY <2>1, <2>2, <2>4
  <2>5. QED
    BY <2>3, <2>4
<1>3. CASE InterruptToggles
  <2>1. Playing /\ capt /\ left = 1 /\ toggleCount # 0
    BY <1>3 DEF InterruptToggles, Pending
  <2>2. /\ capt' = FALSE /\ left' = cycles
        /\ toggleCount' = IF toggleCount > 0 THEN toggleCount - 1 ELSE toggleCount
        /\ UNCHANGED <<captei, cycles, pc, call, ie, playing, length>>
    BY <1>3 DEF InterruptToggles, CountDown
  <2>3. CASE playing.count # -1
    <3>1. toggleCount' = toggleCount - 1
      BY <2>1, <2>2, <2>3
    <3>2. Passed(playing.count, toggleCount - 1, cycles, cycles)
            = Passed(playing.count, toggleCount, cycles, 1) + 1
      BY <2>1, <2>3, PassedToggle
    <3>3. length' = Passed(playing'.count, toggleCount', cycles', left') + 0
      <4>1. Passed(playing.count, toggleCount, cycles, left) \in Int
        BY <2>1, <2>3, PassedStep
      <4>2. QED
        BY <2>1, <2>2, <2>3, <3>1, <3>2, <4>1
    <3>4. /\ playing'.count \in Nat /\ toggleCount' \in 0..playing'.count
          /\ cycles' \in 1..64 /\ left' \in 1..cycles'
      BY <2>1, <2>2, <2>3, <3>1
    <3>5. /\ pc \notin {"pin", "intctrl", "enable"}
          /\ pc' \notin {"idle", "quiet"} => ie' /\ call'.count \in Counts
      BY <2>1, <2>2
    <3>6. QED
      BY <2>2, <3>3, <3>4, <3>5
  <2>4. CASE playing.count = -1
    BY <2>1, <2>2, <2>4
  <2>5. QED
    BY <2>3, <2>4
<1>4. CASE InterruptEnds
  BY <1>4 DEF InterruptEnds, Pending, DisableTimer, OutClr
<1>5. CASE StopTimer
  <2>1. /\ pc = "stop" /\ pc' = "release"
        /\ UNCHANGED <<captei, toggleCount, left, cycles, call, ie, playing>>
    BY <1>5 DEF StopTimer, At, Goto
  <2>2. CASE PeriodEnds
    <3>1. enabled /\ ~capt /\ capt' = TRUE
      BY <2>2 DEF PeriodEnds
    <3>2. length' = IF playing.count = -1 THEN 0 ELSE length + 1
      BY <2>2 DEF PeriodEnds
    <3>3. playing.count # -1 /\ Playing
            => Passed(playing.count, toggleCount, cycles, left) \in Int
      BY PassedStep
    <3>4. QED
      BY <2>1, <3>1, <3>2, <3>3
  <2>3. CASE UNCHANGED <<capt, length>>
    BY <2>1, <2>3
  <2>4. QED
    BY <1>5, <2>2, <2>3 DEF StopTimer
<1>6. CASE ReleasePin
  BY <1>6 DEF ReleasePin, At, Goto, Pending, Low
<1>7. CASE SetMask
  BY <1>7 DEF SetMask, At, Goto, Pending
<1>8. CASE SetReg
  BY <1>8 DEF SetReg, At, Goto, Pending, Low
<1>9. CASE Store
  <2>1. call.count \in Counts /\ Setting(call.frequency).cycles \in 1..64
    <3>1. call.frequency \in Frequencies
      BY <1>9 DEF Store, At
    <3>2. Half(call.frequency) \in Nat \ {0, 65536}
      BY <3>1, HalfIs
    <3>3. QED
      BY <1>9, <3>2, SettingIsNear DEF Store, At
  <2>2. /\ pc' = "pin" /\ toggleCount' = call.count
        /\ cycles' = Setting(call.frequency).cycles /\ left' = cycles'
        /\ UNCHANGED <<call, ie, playing, length>>
    BY <1>9 DEF Store, Goto, SetCycles
  <2>3. ie
    BY <1>9 DEF Store, At
  <2>4. QED
    BY <2>1, <2>2, <2>3
<1>10. CASE SetPin
  BY <1>10 DEF SetPin, At, Goto, Pending
<1>11. CASE EnableInterrupt
  BY <1>11 DEF EnableInterrupt, At, Goto, Pending
<1>12. CASE Enable
  <2>1. /\ ie /\ call.count \in Counts /\ captei /\ ~capt
        /\ toggleCount = call.count /\ left = cycles /\ cycles \in 1..64
    BY <1>12 DEF Enable, At
  <2>2. /\ pc' = "idle" /\ playing' = call /\ length' = 0
        /\ UNCHANGED <<captei, capt, toggleCount, left, cycles, ie>>
    BY <1>12 DEF Enable
  <2>3. CASE call.count # -1
    <3>1. call.count \in Nat
      BY <2>1, <2>3, CountsAssumption
    <3>2. Passed(call.count, call.count, cycles, cycles) = 0
      BY <2>1, <3>1, PassedNone
    <3>3. QED
      BY <2>1, <2>2, <3>1, <3>2
  <2>4. CASE call.count = -1
    BY <2>1, <2>2, <2>4
  <2>5. QED
    BY <2>3, <2>4
<1>13. CASE Quiet
  BY <1>13 DEF Quiet, At, Goto, Pending, DisableTimer, OutClr
<1>14. ASSUME NEW p \in Pins, NEW frequency \in Frequencies, NEW count \in Counts,
             Tone(p, frequency, count)
      PROVE  LengthInv'
  BY <1>14 DEF Tone, At, Pending
<1>15. ASSUME NEW p \in Pins, NoTone(p)
      PROVE  LengthInv'
  BY <1>15 DEF NoTone, At, Goto, Pending
<1>16. CASE SetInterrupts
  BY <1>16 DEF SetInterrupts
<1>17. CASE UNCHANGED vars
  BY <1>17 DEF vars
<1> QED
  BY <1>1, <1>2, <1>3, <1>4, <1>5, <1>6, <1>7, <1>8, <1>9,
     <1>10, <1>11, <1>12, <1>13, <1>14, <1>15, <1>16, <1>17
  DEF Next, Interrupt, ToneSteps, Program, AnyTone

----------------------------------------------------------------------------
(* Theorems *)

LEMMA Invariance == Spec => []TInv
<1>1. Init => TInv
  BY APin DEF Init, TInv, Typed, Settled, Stopped, Highs, Calm, Holding, NoCall
<1>2. TInv /\ [Next]_vars => TInv'
  BY TypedStep, SettledStep, StoppedStep, HighsStep DEF TInv
<1> QED
  BY <1>1, <1>2, PTL DEF Spec

(* No pin is left high where no tone plays on it, whatever calls and       *)
(* interrupts came in which order (Tone.cpp:35-43).                        *)
THEOREM NoPinLeftHigh == Spec => []SilentIsLow
<1>1. TInv => SilentIsLow
  BY APin DEF TInv, Typed, SilentIsLow, Settled, Highs, Calm, Holding
<1> QED
  BY <1>1, Invariance, PTL

(* The interrupt toggles, or puts low, the pin of the tone that plays: it  *)
(* never meets the port of one tone with the mask of another.              *)
THEOREM InterruptKeepsToItsPin == Spec => TogglesItsPin
<1>1. ASSUME TInv, Pending
      PROVE  <<reg, mask>> = playing.pin
  BY <1>1 DEF TInv, Typed, Settled, Stopped, Pending, Calm
<1>2. ASSUME TInv, Interrupt, NEW p \in Pins, out'[p] # out[p]
      PROVE  p = playing.pin
  <2>1. Pending
    BY <1>2 DEF Interrupt, InterruptSkips, InterruptToggles, InterruptEnds
  <2>2. p = <<reg, mask>>
    BY <1>2 DEF TInv, Typed, Interrupt, InterruptSkips, InterruptToggles, InterruptEnds,
       Toggle, DisableTimer, OutClr
  <2> QED
    BY <1>2, <1>1, <2>1, <2>2
<1>3. TInv /\ [Next]_vars
      => [Interrupt => \A p \in Pins : out'[p] # out[p] => p = playing.pin]_vars
  BY <1>2
<1> QED
  BY <1>3, Invariance, PTL DEF Spec, TogglesItsPin

(* Half a wave of the tone that plays lasts what the frequency asks for,   *)
(* up to the timer's resolution or its longest period, and half as long    *)
(* where the tone before ended inside the call and reset the prescaler: no *)
(* other interleaving touches it.  The loop of tone() that halves the      *)
(* count is part of it, for every clock and frequency.                     *)
THEOREM PitchWithinAnOctave == Spec => []PitchOrOctave
<1>1. Init => PitchInv
  BY DEF Init, PitchInv, Calm
<1>2. ASSUME TInv, PitchInv, enabled, pc = "idle"
      PROVE  \/ Near(HalfWave, Half(playing.frequency))
             \/ cut /\ clk = 1 /\ Near(2 * HalfWave, Half(playing.frequency))
  <2> DEFINE f == playing.frequency
             n == Setting(f).clk * Setting(f).cycles * (Setting(f).ccmp + 1)
  <2>1. f \in Frequencies /\ Prepared(playing) /\ Clocked(playing)
    BY <1>2 DEF PitchInv
  <2>2. Half(f) \in Nat \ {0, 65536}
    BY <2>1, HalfIs
  <2>3. /\ Setting(f).clk \in {1, 2} /\ Near(n, Half(f))
        /\ Setting(f).cycles \in 1..64 /\ Setting(f).ccmp \in Nat
    BY <2>2, SettingIsNear
  <2>4. cycles = Setting(f).cycles /\ ccmp = Setting(f).ccmp
    BY <2>1 DEF Prepared
  <2>5. CASE clk = Setting(f).clk
    BY <2>3, <2>4, <2>5 DEF HalfWave
  <2>6. CASE clk # Setting(f).clk
    <3>1. cut /\ clk = 1 /\ Setting(f).clk = 2
      BY <2>1, <2>3, <2>6 DEF Clocked
    <3>2. 2 * HalfWave = n
      BY <2>3, <2>4, <3>1 DEF HalfWave
    <3>3. QED
      BY <2>3, <3>1, <3>2
  <2>7. QED
    BY <2>5, <2>6
<1>3. TInv /\ PitchInv => PitchOrOctave
  BY <1>2 DEF PitchOrOctave
<1>4. TInv /\ PitchInv /\ [Next]_vars => PitchInv'
  BY PitchStep
<1> QED
  BY <1>1, <1>3, <1>4, Invariance, PTL DEF Spec

(* A tone of limited duration ends after exactly one toggle more than it   *)
(* was asked for, counted in whole periods of the timer, whatever calls    *)
(* came before it, where tone() is called with interrupts on.  A period    *)
(* that ends while the interrupt of another is still pending is lost, to   *)
(* the handler and to the count.                                           *)
THEOREM LengthAsCounted == ASSUME ~MaskedCalls PROVE Spec => LengthAsAsked
<1>1. Init => PitchInv /\ LengthInv
  BY DEF Init, PitchInv, LengthInv, Calm, Playing
<1>2. TInv /\ PitchInv /\ [Next]_vars => PitchInv'
  BY PitchStep
<1>3. TInv /\ PitchInv /\ LengthInv /\ [Next]_vars => LengthInv'
  BY LengthStep
<1>4. ASSUME TInv, LengthInv, InterruptEnds, playing.count # -1
      PROVE  length = (playing.count + 1) * cycles
  <2>1. Playing /\ capt /\ left = 1 /\ toggleCount = 0
    BY <1>4 DEF InterruptEnds, Pending, Playing, TInv, Typed, Stopped, Calm
  <2>2. /\ playing.count \in Nat /\ cycles \in 1..64
        /\ length = Passed(playing.count, 0, cycles, 1) + 1
    BY <1>4, <2>1 DEF LengthInv
  <2>3. QED
    BY <2>2, PassedAll
<1>5. TInv /\ LengthInv /\ [Next]_vars
      => [(InterruptEnds /\ playing.count # -1) =>
              length = (playing.count + 1) * cycles]_vars
  BY <1>4
<1> QED
  BY <1>1, <1>2, <1>3, <1>5, Invariance, PTL DEF Spec, LengthAsAsked
=============================================================================
