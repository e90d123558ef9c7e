----------------------------- MODULE ServoProofs ----------------------------
(***************************************************************************)
(* Proofs about Servo, for any number of servos and any values of the      *)
(* timing: which pin is high, and for how long, where attach() is called   *)
(* for servos that are not attached; and when the first turn comes again.  *)
(***************************************************************************)
EXTENDS Servo, TLAPS

Attaching == pc \in {"port", "init", "activate"}

Typed ==
    /\ index \in -1..ServoCount-1
    /\ port \in [Servos -> Ports] /\ mask \in [Servos -> Masks]
    /\ isActive \in [Servos -> BOOLEAN] /\ out \in [Pins -> BOOLEAN]
    /\ low \in [Servos -> Nat] /\ high \in [Servos -> Nat]
    /\ pc \in {"idle", "port", "init", "activate", "fin", "write"}
    /\ pc # "idle" => call.servo \in Servos
    /\ pc = "port" => call.pin \in Pins
    /\ pc = "write" => call.ticks \in Nat

(* A servo that is being attached is not yet active. *)
NotYet == Attaching => ~isActive[call.servo]

(* Whole ticks are within the limits, and so at least as long as the       *)
(* handler takes.                                                          *)
LongEnough(ticks) ==
    /\ ticks \in Nat /\ ticks >= Latency
    /\ ticks \in Shortest - Trim..Longest
Whole ==
    /\ \A s \in Servos : ~Writing(s) => LongEnough(Ticks(s))
    /\ pc = "write" => /\ LongEnough(call.ticks)
                       /\ low[call.servo] = call.ticks % Base

(* The pulse that is on ends when the timer has counted what was promised. *)
Kept ==
    promised # 0 => /\ due = promised
                    /\ index \in Servos /\ isActive[index]

(* During a turn, frame and due together are the ticks the handler has     *)
(* counted up to the turn's end; in the wait they are so, or the timer has *)
(* been set for the last time.                                             *)
Turn ==
    /\ ccmp = due /\ frame + due = cycleTicks
    /\ due \in Shortest - Trim..Longest
    /\ cycleTicks <= (index + 1) * Longest
Rest ==
    \/ cycleTicks <= Interval /\ frame + due = cycleTicks
    \/ cycleTicks = Interval /\ FrameIsRight(frame + due)
Framed ==
    frame # -1 => /\ frame \in Nat /\ due \in Nat /\ cycleTicks \in Nat
                  /\ index >= 0 => Turn
                  /\ index = -1 => Rest

SInv == Typed /\ NotYet /\ HighInTurn
PInv == Typed /\ NotYet /\ Whole /\ Kept

----------------------------------------------------------------------------
(* Lemmas *)

LEMMA DivMod ==
    ASSUME NEW n \in Nat, NEW b \in Nat \ {0}
    PROVE  /\ n \div b \in Nat /\ n % b \in Nat
           /\ n = (n \div b) * b + (n % b)
<1>1. n \div b \in Nat /\ n % b \in Nat
  OBVIOUS
<1>2. n = (n \div b) * b + (n % b)
  BY Z3
<1> QED
  BY <1>1, <1>2

(* A pin's two parts. *)
LEMMA APin == \A p \in Pins : p[1] \in Ports /\ p[2] \in Masks /\ p = <<p[1], p[2]>>
  BY DEF Pins

(* What is stored is at least SERVO_MIN() - TRIM_DURATION.                 *)
LEMMA LimitedLongEnough ==
    ASSUME NEW width \in Widths
    PROVE  LongEnough(Limited(width) - Trim)
  BY WidthAssumption, TimerAssumption DEF Limited, LongEnough

(* The types are inductive by themselves.                                  *)
LEMMA TypedStep ==
    ASSUME Typed, [Next]_vars
    PROVE  Typed'
<1> USE CountAssumption DEF Typed, Servos, NoCall, servo, timer, program, history
<1>1. CASE WaitOn
  BY <1>1 DEF WaitOn, Wait, Compare, Least
<1>2. CASE NextServo
  BY <1>2 DEF NextServo, TurnEnds, Compare
<1>3. CASE StartWait
  BY <1>3 DEF StartWait, TurnEnds, Wait, Compare, Least, Again
<1>4. ASSUME NEW s \in Servos, NEW p \in Pins, Attach(s, p)
      PROVE  Typed'
  BY <1>4, APin DEF Attach, Leave
<1>5. CASE SetPort
  BY <1>5, APin DEF SetPort, Goto
<1>6. CASE InitISR
  BY <1>6 DEF InitISR, Goto, NoneActive
<1>7. CASE Activate
  BY <1>7 DEF Activate
<1>8. ASSUME NEW s \in Servos, Detach(s)
      PROVE  Typed'
  BY <1>8 DEF Detach, Leave
<1>9. CASE FinISR
  BY <1>9 DEF FinISR
<1>10. ASSUME NEW s \in Servos, NEW width \in Widths, WriteLow(s, width)
      PROVE  Typed'
  <2>1. Limited(width) - Trim \in Nat
    BY LimitedLongEnough DEF LongEnough
  <2>2. (Limited(width) - Trim) % Base \in Nat
    BY <2>1, DivMod, WidthAssumption
  <2> QED
    BY <1>10, <2>1, <2>2 DEF WriteLow
<1>11. CASE WriteHigh
  <2>1. call.ticks \div Base \in Nat
    BY <1>11, DivMod, WidthAssumption DEF WriteHigh
  <2> QED
    BY <1>11, <2>1 DEF WriteHigh
<1>12. CASE UNCHANGED vars
  BY <1>12 DEF vars
<1> QED
  BY <1>1, <1>2, <1>3, <1>4, <1>5, <1>6, <1>7, <1>8, <1>9,
     <1>10, <1>11, <1>12
  DEF Next, Handler, Calls, Steps

(* Nothing activates a servo but the end of its attach().                  *)
LEMMA NotYetStep ==
    ASSUME ~ReAttach, Typed, NotYet, [Next]_vars
    PROVE  NotYet'
<1> USE DEF Typed, NotYet, Attaching, NoCall, servo, timer, program, history
<1>1. CASE WaitOn
  BY <1>1 DEF WaitOn, Wait, Compare, Least
<1>2. CASE NextServo
  BY <1>2 DEF NextServo, TurnEnds, Compare
<1>3. CASE StartWait
  BY <1>3 DEF StartWait, TurnEnds, Wait, Compare, Least, Again
<1>4. ASSUME NEW s \in Servos, NEW p \in Pins, Attach(s, p)
      PROVE  NotYet'
  BY <1>4 DEF Attach, Leave
<1>5. CASE SetPort
  BY <1>5 DEF SetPort, Goto
<1>6. CASE InitISR
  BY <1>6 DEF InitISR, Goto, NoneActive
<1>7. CASE Activate
  BY <1>7 DEF Activate
<1>8. ASSUME NEW s \in Servos, Detach(s)
      PROVE  NotYet'
  BY <1>8 DEF Detach, Leave
<1>9. CASE FinISR
  BY <1>9 DEF FinISR
<1>10. ASSUME NEW s \in Servos, NEW width \in Widths, WriteLow(s, width)
      PROVE  NotYet'
  BY <1>10 DEF WriteLow
<1>11. CASE WriteHigh
  BY <1>11 DEF WriteHigh
<1>12. CASE UNCHANGED vars
  BY <1>12 DEF vars
<1> QED
  BY <1>1, <1>2, <1>3, <1>4, <1>5, <1>6, <1>7, <1>8, <1>9,
     <1>10, <1>11, <1>12
  DEF Next, Handler, Calls, Steps

(* A servo's end and the next's beginning leave no other pin high.         *)
LEMMA HighStep ==
    ASSUME ~ReAttach, SInv, [Next]_vars
    PROVE  HighInTurn'
<1> USE DEF SInv, Typed, NotYet, Attaching, HighInTurn, PinOf, servo, timer, program, history
<1>1. CASE WaitOn
  BY <1>1 DEF WaitOn, Wait, Compare, Least
<1>2. CASE NextServo
  <2>1. /\ index' = index + 1 /\ index + 1 < ServoCount
        /\ out' = [p \in Pins |-> p \in Begun(index') \/ (out[p] /\ p \notin Ended)]
        /\ abandoned' = abandoned \ (Ended \cup Begun(index'))
        /\ UNCHANGED <<isActive, port, mask>>
    BY <1>2 DEF NextServo
  <2>2. index' \in Servos
    BY <2>1, CountAssumption DEF Servos
  <2>3. ASSUME NEW p \in Pins \ abandoned', out'[p]
        PROVE  p \in Begun(index')
    <3>1. p \in Begun(index') \/ (out[p] /\ p \notin Ended)
      BY <2>1, <2>3
    <3>2. CASE out[p] /\ p \notin Ended /\ p \notin Begun(index')
      <4>1. p \in Pins \ abandoned
        BY <2>1, <2>3, <3>2
      <4>2. index \in Servos /\ isActive[index] /\ p = <<port[index], mask[index]>>
        BY <3>2, <4>1
      <4> QED
        BY <3>2, <4>2 DEF Ended, PinOf
    <3> QED
      BY <3>1, <3>2
  <2> QED
    BY <2>1, <2>2, <2>3 DEF Begun
<1>3. CASE StartWait
  BY <1>3 DEF StartWait, TurnEnds, Wait, Compare, Least, Again, Ended, PinOf
<1>4. ASSUME NEW s \in Servos, NEW p \in Pins, Attach(s, p)
      PROVE  HighInTurn'
  BY <1>4, APin DEF Attach, Leave
<1>5. CASE SetPort
  BY <1>5, APin DEF SetPort, Goto
<1>6. CASE InitISR
  BY <1>6 DEF InitISR, Goto, NoneActive
<1>7. CASE Activate
  BY <1>7 DEF Activate
<1>8. ASSUME NEW s \in Servos, Detach(s)
      PROVE  HighInTurn'
  BY <1>8 DEF Detach, Leave
<1>9. CASE FinISR
  BY <1>9 DEF FinISR
<1>10. ASSUME NEW s \in Servos, NEW width \in Widths, WriteLow(s, width)
      PROVE  HighInTurn'
  BY <1>10 DEF WriteLow
<1>11. CASE WriteHigh
  BY <1>11 DEF WriteHigh
<1>12. CASE UNCHANGED vars
  BY <1>12 DEF vars
<1> QED
  BY <1>1, <1>2, <1>3, <1>4, <1>5, <1>6, <1>7, <1>8, <1>9,
     <1>10, <1>11, <1>12
  DEF Next, Handler, Calls, Steps

(* Between the two bytes of a write the other servos' are whole.           *)
LEMMA WholeStep ==
    ASSUME Typed, Whole, [Next]_vars
    PROVE  Whole'
<1> USE DEF Typed, Whole, Writing, Ticks, LongEnough, NoCall, servo, timer, program, history
<1>1. CASE WaitOn
  BY <1>1 DEF WaitOn, Wait, Compare, Least
<1>2. CASE NextServo
  BY <1>2 DEF NextServo, TurnEnds, Compare
<1>3. CASE StartWait
  BY <1>3 DEF StartWait, TurnEnds, Wait, Compare, Least, Again
<1>4. ASSUME NEW s \in Servos, NEW p \in Pins, Attach(s, p)
      PROVE  Whole'
  BY <1>4 DEF Attach, Leave
<1>5. CASE SetPort
  BY <1>5 DEF SetPort, Goto
<1>6. CASE InitISR
  BY <1>6 DEF InitISR, Goto, NoneActive
<1>7. CASE Activate
  BY <1>7 DEF Activate
<1>8. ASSUME NEW s \in Servos, Detach(s)
      PROVE  Whole'
  BY <1>8 DEF Detach, Leave
<1>9. CASE FinISR
  BY <1>9 DEF FinISR
<1>10. ASSUME NEW s \in Servos, NEW width \in Widths, WriteLow(s, width)
      PROVE  Whole'
  <2>1. LongEnough(Limited(width) - Trim)
    BY LimitedLongEnough
  <2> QED
    BY <1>10, <2>1 DEF WriteLow
<1>11. CASE WriteHigh
  <2>1. /\ call.servo \in Servos /\ call.ticks \in Nat /\ pc' = "idle"
        /\ low' = low /\ low[call.servo] = call.ticks % Base
        /\ high' = [high EXCEPT ![call.servo] = call.ticks \div Base]
    BY <1>11 DEF WriteHigh
  <2>2. high'[call.servo] * Base + low'[call.servo] = call.ticks
    <3>1. /\ high'[call.servo] = call.ticks \div Base
          /\ low'[call.servo] = call.ticks % Base
      BY <2>1
    <3>2. call.ticks = (call.ticks \div Base) * Base + (call.ticks % Base)
      BY <2>1, DivMod, WidthAssumption
    <3> QED
      BY ONLY <3>1, <3>2, Zenon
  <2>3. LongEnough(call.ticks)
    BY <1>11 DEF WriteHigh
  <2>4. ASSUME NEW s \in Servos
        PROVE  LongEnough(high'[s] * Base + low'[s])
    <3>1. CASE s = call.servo
      BY <2>2, <2>3, <3>1
    <3>2. CASE s # call.servo
      <4>1. high'[s] = high[s] /\ low'[s] = low[s]
        BY <2>1, <3>2
      <4> QED
        BY <1>11, <3>2, <4>1 DEF WriteHigh
    <3> QED
      BY <3>1, <3>2
  <2> QED
    BY <2>1, <2>4
<1>12. CASE UNCHANGED vars
  BY <1>12 DEF vars
<1> QED
  BY <1>1, <1>2, <1>3, <1>4, <1>5, <1>6, <1>7, <1>8, <1>9,
     <1>10, <1>11, <1>12
  DEF Next, Handler, Calls, Steps

(* Once begun, a pulse's end does not move.                                *)
LEMMA KeptStep ==
    ASSUME ~ReAttach, PInv, [Next]_vars
    PROVE  Kept'
<1> USE DEF PInv, Typed, NotYet, Attaching, Kept, servo, timer, program, history
<1>1. CASE WaitOn
  BY <1>1 DEF WaitOn, Servos
<1>2. CASE NextServo
  <2>1. /\ Compare(Ticks(index')) /\ UNCHANGED <<isActive, program>>
        /\ index' = index + 1 /\ index + 1 < ServoCount
        /\ promised' = IF Begun(index') = {} \/ Writing(index') THEN 0 ELSE Ticks(index')
    BY <1>2 DEF NextServo
  <2>2. index' \in Servos
    BY <2>1, CountAssumption DEF Servos
  <2>3. ASSUME promised' # 0
        PROVE  Kept'
    <3>1. Begun(index') # {} /\ ~Writing(index') /\ promised' = Ticks(index')
      BY <2>1, <2>3
    <3>2. isActive[index']
      BY <3>1 DEF Begun
    <3>3. LongEnough(Ticks(index'))
      BY <2>2, <3>1 DEF Whole
    <3>4. due' = Ticks(index')
      BY <2>1, <3>3, TimerAssumption DEF Compare, LongEnough
    <3> QED
      BY <2>1, <2>2, <3>1, <3>2, <3>4
  <2> QED
    BY <2>3
<1>3. CASE StartWait
  BY <1>3 DEF StartWait, TurnEnds, Wait, Compare, Least, Again
<1>4. ASSUME NEW s \in Servos, NEW p \in Pins, Attach(s, p)
      PROVE  Kept'
  BY <1>4 DEF Attach, Leave
<1>5. CASE SetPort
  BY <1>5 DEF SetPort, Goto
<1>6. CASE InitISR
  BY <1>6 DEF InitISR, Goto, NoneActive
<1>7. CASE Activate
  BY <1>7 DEF Activate
<1>8. ASSUME NEW s \in Servos, Detach(s)
      PROVE  Kept'
  BY <1>8 DEF Detach, Leave
<1>9. CASE FinISR
  BY <1>9 DEF FinISR
<1>10. ASSUME NEW s \in Servos, NEW width \in Widths, WriteLow(s, width)
      PROVE  Kept'
  BY <1>10 DEF WriteLow
<1>11. CASE WriteHigh
  BY <1>11 DEF WriteHigh
<1>12. CASE UNCHANGED vars
  BY <1>12 DEF vars
<1> QED
  BY <1>1, <1>2, <1>3, <1>4, <1>5, <1>6, <1>7, <1>8, <1>9,
     <1>10, <1>11, <1>12
  DEF Next, Handler, Calls, Steps

(* A turn begins where the one before ends, and the last wait lasts as     *)
(* long as the others left it.  After a last turn that ends too late to    *)
(* wait, the timer runs for that turn once more, which has to be long      *)
(* enough.                                                                 *)
LEMMA OneMore ==
    ASSUME NEW n \in Nat, NEW l \in Nat
    PROVE  (n + 1) * l = n * l + l
  OBVIOUS

LEMMA WaitEnds ==
    ASSUME NEW spent \in Nat, spent < Interval, Wait(Interval - spent),
           frame' \in Nat, frame' = spent, cycleTicks = spent
    PROVE  due' \in Nat /\ cycleTicks' \in Nat /\ Rest'
<1> USE WidthAssumption, TimerAssumption
<1>1. Latency <= Top /\ Top \in Nat /\ Interval \in Nat /\ Latency \in Nat
  OBVIOUS
<1>2. CASE Interval - spent < Top
  <2>1. cycleTicks' = Interval
    BY <1>1, <1>2 DEF Wait, Least
  <2>2. due' = Interval - spent \/ due' = Top + 1 + (Interval - spent)
    BY <1>1, <1>2 DEF Wait, Least, Compare
  <2>3. frame' + due' = Interval \/ frame' + due' = Interval + Top + 1
    BY <1>1, <2>2
  <2>4. QED
    BY <1>1, <2>1, <2>2, <2>3 DEF Rest, FrameIsRight
<1>3. CASE Interval - spent >= Top
  <2>1. cycleTicks' = spent + Top /\ due' = Top
    BY <1>1, <1>3 DEF Wait, Least, Compare
  <2>2. QED
    BY <1>1, <1>3, <2>1 DEF Rest
<1>4. QED
  BY <1>1, <1>2, <1>3

LEMMA FramedStep ==
    ASSUME Slack <= Shortest - Trim, Typed, Whole, Framed, [Next]_vars
    PROVE  Framed'
<1> USE DEF Framed, servo, timer, program, history
<1>1. CASE WaitOn
  <2>1. SUFFICES ASSUME frame # -1 PROVE Framed'
    BY <1>1 DEF WaitOn, Past
  <2>2. index = -1 /\ index' = -1 /\ cycleTicks < Interval /\ cycleTicks \in Nat
    BY <1>1, <2>1 DEF WaitOn, Typed
  <2>3. frame' = cycleTicks
    BY <1>1, <2>1, <2>2, TimerAssumption DEF WaitOn, Past, Rest
  <2>4. Wait(Interval - cycleTicks)
    BY <1>1 DEF WaitOn
  <2>5. due' \in Nat /\ cycleTicks' \in Nat /\ Rest'
    BY <2>2, <2>3, <2>4, WaitEnds
  <2>6. QED
    BY <2>2, <2>3, <2>5
<1>2. CASE NextServo
  <2>1. SUFFICES ASSUME frame' # -1 PROVE Framed'
    OBVIOUS
  <2>2. /\ index \in Int /\ index >= -1 /\ index' = index + 1 /\ index' \in Servos
    BY <1>2, CountAssumption DEF NextServo, Typed, Servos
  <2>3. LongEnough(Ticks(index'))
    BY <1>2, <2>1, <2>2 DEF NextServo, Whole, Writing, Ticks, program, servo
  <2>4. DEFINE t == Ticks(index')
  <2>5. /\ ccmp' = t /\ due' = t /\ t \in Nat /\ t \in Shortest - Trim..Longest
        /\ Longest \in Nat
    BY <1>2, <2>3, TimerAssumption, WidthAssumption DEF NextServo, Compare, LongEnough
  <2>6. cycleTicks' = Elapsed + t
    BY <1>2 DEF NextServo
  <2> HIDE DEF t
  <2>7. CASE index = -1
    <3>1. frame' = 0 /\ Elapsed = 0 /\ index' = 0
      BY <1>2, <2>1, <2>2, <2>7 DEF NextServo, Elapsed
    <3>2. QED
      BY <2>5, <2>6, <3>1 DEF Turn
  <2>8. CASE index >= 0
    <3>1. ~(index < 0)
      BY <2>2, <2>8
    <3>2. frame' = (IF Writing(index') THEN -1 ELSE IF index < 0 THEN 0 ELSE Past(due))
      BY <1>2 DEF NextServo
    <3>3. frame # -1 /\ frame' = frame + due /\ Elapsed = cycleTicks
      BY <2>1, <3>1, <3>2 DEF Elapsed, Past
    <3>4. frame \in Nat /\ due \in Nat /\ cycleTicks \in Nat /\ Turn
      BY <2>8, <3>3
    <3>5. (index' + 1) * Longest = (index + 1) * Longest + Longest
      BY <2>2, <2>5, <2>8, OneMore
    <3>6. (index + 1) * Longest \in Nat
      BY <2>2, <2>5, <2>8
    <3>7. cycleTicks' <= (index' + 1) * Longest
      BY <2>5, <2>6, <3>3, <3>4, <3>5, <3>6 DEF Turn
    <3>8. frame' + due' = cycleTicks' /\ frame' \in Nat /\ cycleTicks' \in Nat
      BY <2>5, <2>6, <3>3, <3>4 DEF Turn
    <3>9. Turn'
      BY ONLY <2>5, <3>7, <3>8, Zenon DEF Turn
    <3>10. index' # -1 /\ due' \in Nat
      BY <2>2, <2>5, <2>8
    <3>11. QED
      BY ONLY <3>8, <3>9, <3>10, Zenon DEF Framed
  <2>9. QED
    BY <2>2, <2>7, <2>8
<1>3. CASE StartWait
  <2>1. SUFFICES ASSUME frame # -1 PROVE Framed'
    BY <1>3 DEF StartWait, Past
  <2>2. index >= 0 /\ index + 1 = ServoCount /\ index' = -1
    BY <1>3, CountAssumption DEF StartWait, Typed
  <2>3. /\ frame \in Nat /\ due \in Nat /\ cycleTicks \in Nat /\ Turn
        /\ Elapsed = cycleTicks
    BY <2>1, <2>2, CountAssumption DEF Elapsed, Typed
  <2>4. frame' = cycleTicks
    BY <1>3, <2>1, <2>3 DEF StartWait, Past, Turn
  <2>5. CASE cycleTicks + Slack < Interval
    <3>1. Wait(Interval - cycleTicks) /\ cycleTicks < Interval
      BY <1>3, <2>3, <2>5, TimerAssumption DEF StartWait
    <3>2. due' \in Nat /\ cycleTicks' \in Nat /\ Rest'
      BY <2>3, <2>4, <3>1, WaitEnds
    <3>3. QED
      BY <2>2, <2>3, <2>4, <3>2
  <2>6. CASE ~(cycleTicks + Slack < Interval)
    <3>1. due' = due /\ cycleTicks' = Interval
      BY <1>3, <2>3, <2>6 DEF StartWait, Again, Turn
    <3>2. cycleTicks <= ServoCount * Longest
      BY <2>2, <2>3 DEF Turn
    <3>3. ServoCount * Longest \in Nat
      BY CountAssumption, WidthAssumption
    <3>4. FrameIsRight(cycleTicks + due)
      BY <2>3, <2>6, <3>2, <3>3, TimerAssumption, WidthAssumption DEF Turn, FrameIsRight
    <3>5. Rest'
      BY <2>4, <3>1, <3>4 DEF Rest, FrameIsRight
    <3>6. QED
      BY <2>2, <2>3, <2>4, <3>1, <3>5, TimerAssumption
  <2>7. QED
    BY <2>5, <2>6
<1>4. ASSUME UNCHANGED <<ccmp, due, frame, cycleTicks, index>>
      PROVE  Framed'
  BY <1>4 DEF Turn, Rest, FrameIsRight
<1>5. CASE InitISR
  <2>1. CASE NoneActive
    BY <1>5, <2>1 DEF InitISR
  <2>2. CASE ~NoneActive
    BY <1>4, <1>5, <2>2 DEF InitISR
  <2>3. QED
    BY <2>1, <2>2
<1>6. CASE Calls
  BY <1>4, <1>6 DEF Calls, Attach, Detach, WriteLow, Leave
<1>7. CASE SetPort \/ Activate \/ FinISR \/ WriteHigh
  BY <1>4, <1>7 DEF SetPort, Activate, FinISR, WriteHigh
<1>8. CASE UNCHANGED vars
  BY <1>4, <1>8 DEF vars
<1>9. QED
  BY <1>1, <1>2, <1>3, <1>5, <1>6, <1>7, <1>8 DEF Next, Handler, Steps

----------------------------------------------------------------------------
(* Theorems *)

LEMMA TypesAtFirst == Init => Typed /\ Whole
<1> SUFFICES ASSUME Init
             PROVE  Typed /\ Whole
  OBVIOUS
<1>1. /\ Default \in Nat /\ Base \in Nat \ {0}
      /\ LongEnough(Default)
  BY WidthAssumption, TimerAssumption DEF LongEnough
<1>2. Default % Base \in Nat /\ Default \div Base \in Nat
      /\ Default = (Default \div Base) * Base + (Default % Base)
  BY <1>1, DivMod
<1>3. Typed
  BY <1>2, CountAssumption DEF Init, Typed, Servos
<1>4. Whole
  BY <1>1, <1>2 DEF Init, Whole, Ticks, LongEnough
<1> QED
  BY <1>3, <1>4

LEMMA Invariance == ~ReAttach => (Spec => [](SInv /\ PInv))
<1>1. Init => SInv /\ PInv
  <2>1. Init => NotYet /\ HighInTurn /\ Kept
    BY DEF Init, NotYet, HighInTurn, Kept, Attaching
  <2>2. QED
    BY <2>1, TypesAtFirst DEF SInv, PInv
<1>2. (~ReAttach /\ SInv /\ PInv) /\ [Next]_vars => (~ReAttach /\ SInv /\ PInv)'
  BY TypedStep, NotYetStep, HighStep, WholeStep, KeptStep DEF SInv, PInv
<1> QED
  BY <1>1, <1>2, PTL DEF Spec

(* A pin is high only in the turn of the servo it is attached to, whatever *)
(* is attached, detached and written between two interrupts.               *)
THEOREM HighOnlyInTurn == ~ReAttach => (Spec => []HighInTurn)
<1>1. SInv /\ PInv => HighInTurn
  BY DEF SInv
<1> QED
  BY <1>1, Invariance, PTL

(* A pulse ends when the timer has counted the ticks that were asked for   *)
(* when it began, and the handler was not too late to ask for them.        *)
THEOREM PulsesAsAsked == ~ReAttach => (Spec => PulseIsRight)
<1>1. SInv /\ PInv /\ [Next]_vars
      => [(promised # 0 /\ \E p \in Pins : Ends(p)) => due = promised]_vars
  BY DEF PInv, Kept
<1> QED
  BY <1>1, Invariance, PTL DEF Spec, PulseIsRight

(* The first servo's turn comes again when the refresh interval is over or *)
(* all turns are, and at most one round of the counter later; its pulse is *)
(* never repeated early.  The shortest pulse is not shorter than the wait  *)
(* the handler does not bother to begin (100 ticks,                        *)
(* Servo_megaTinyCore.cpp:89).                                             *)
THEOREM FramesInTime ==
    ASSUME Slack <= Shortest - Trim
    PROVE  Spec => FramesRight
<1> DEFINE Inv == Typed /\ Whole /\ Framed
<1>1. Init => Inv
  BY TypesAtFirst DEF Init, Framed
<1>2. Inv /\ [Next]_vars => Inv'
  BY TypedStep, WholeStep, FramedStep
<1>3. Inv /\ [Next]_vars
      => [(FrameStarts /\ frame # -1) => FrameIsRight(frame + due)]_vars
  <2> SUFFICES ASSUME Inv, FrameStarts, frame # -1
               PROVE  FrameIsRight(frame + due)
    OBVIOUS
  <2>1. index = -1 /\ cycleTicks >= Interval
    BY DEF FrameStarts, NextServo, TurnEnds
  <2>2. frame + due \in Nat /\ cycleTicks \in Nat /\ Rest
    BY <2>1 DEF Framed
  <2>3. CASE frame + due = Interval
    BY <2>3, TimerAssumption DEF FrameIsRight
  <2>4. QED
    BY <2>1, <2>2, <2>3, TimerAssumption DEF Rest
<1> QED
  BY <1>1, <1>2, <1>3, PTL DEF Spec, FramesRight
=============================================================================
