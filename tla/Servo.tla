------------------------------- MODULE Servo --------------------------------
(***************************************************************************)
(* The Servo library of this core (Servo_megaTinyCore.cpp): one timer      *)
(* gives the servos their pulses one after another and then waits until    *)
(* the refresh interval is over, while the program attaches, detaches and  *)
(* sets servos with interrupts on.                                         *)
(*                                                                         *)
(* Time is the timer's: the handler runs when what it wrote to CCMP has    *)
(* been counted (the tick in which the counter is cleared is left out).  A *)
(* value the counter has passed by the time it is written is reached after *)
(* a whole round of the counter.                                           *)
(***************************************************************************)
EXTENDS ServoTimes, FiniteSets

CONSTANTS Ports, Masks  \* a pin is a port and a bit mask

Servos == 0..ServoCount-1
Pins   == Ports \X Masks

VARIABLES
    index,        \* currentServoIndex, -1 while the interval is waited for
    cycleTicks,   \* currentCycleTicks
    port, mask,   \* Pin.port and Pin.bitmask of every servo
    low, high,    \* the bytes of its ticks
    isActive,
    ccmp, captei, \* CCMP, INTCTRL.CAPTEI
    due,          \* ticks until the next interrupt
    out,          \* the pins' levels
    pc, call,     \* the program: in which step of which call
    promised,     \* ticks asked for the pulse that is on, 0 if there is no saying
    frame,        \* ticks since the first servo's turn, -1 if there is no saying
    abandoned     \* pins whose servo was taken away during its pulse

servo   == <<port, mask, low, high, isActive>>
timer   == <<ccmp, captei, due>>
program == <<pc, call>>
history == <<promised, frame, abandoned>>
vars    == <<index, cycleTicks, servo, timer, out, program, history>>

PinOf(s) == <<port[s], mask[s]>>
Ticks(s) == high[s] * Base + low[s]

NoCall == [servo |-> 0]

Init ==
    /\ index = 0 /\ cycleTicks = 0
    /\ port \in [Servos -> Ports] /\ mask \in [Servos -> Masks]
    /\ low = [s \in Servos |-> Default % Base]
    /\ high = [s \in Servos |-> Default \div Base]
    /\ isActive = [s \in Servos |-> FALSE]
    /\ ccmp = 0 /\ captei = FALSE /\ due = 0
    /\ out = [p \in Pins |-> FALSE]
    /\ pc = "idle" /\ call = NoCall
    /\ promised = 0 /\ frame = -1 /\ abandoned = {}

----------------------------------------------------------------------------
(* ServoHandler() *)

Least(m, n) == IF m < n THEN m ELSE n

CompareLate(ticks) == ccmp' = ticks /\ due' = ccmp
Compare(ticks) ==
    /\ ccmp' = ticks
    /\ due' = IF ticks < Latency THEN Top + 1 + ticks ELSE ticks
Again == ccmp' = ccmp /\ due' = ccmp

Wait(ticks) ==
    /\ Compare(Least(ticks, Top))
    /\ cycleTicks' = cycleTicks + Least(ticks, Top)

Past(ticks) == IF frame = -1 THEN -1 ELSE frame + ticks

(* The interval is not yet over. *)
WaitOn ==
    /\ captei /\ index < 0 /\ cycleTicks < Interval
    /\ Wait(Interval - cycleTicks)
    /\ frame' = Past(due)
    /\ UNCHANGED <<index, servo, captei, out, program, promised, abandoned>>

(* A servo's turn ends, or the interval, ... *)
TurnEnds == captei /\ (index < 0 => cycleTicks >= Interval)
KeepElapsed == cycleTicks
Elapsed == IF index < 0 THEN 0 ELSE cycleTicks
NeverEnded == {}
Ended == {p \in Pins : index \in Servos /\ isActive[index] /\ p = PinOf(index)}

(* ... and the next servo's begins, ... *)
Begun(s) == {p \in Pins : isActive[s] /\ p = PinOf(s)}
Writing(s) == pc = "write" /\ call.servo = s
NextServo ==
    /\ TurnEnds /\ index + 1 < ServoCount
    /\ index' = index + 1
    /\ out' = [p \in Pins |-> p \in Begun(index') \/ (out[p] /\ p \notin Ended)]
    /\ Compare(Ticks(index'))
    /\ cycleTicks' = Elapsed + Ticks(index')
    /\ promised' = IF Begun(index') = {} \/ Writing(index') THEN 0 ELSE Ticks(index')
    /\ frame' = IF Writing(index') THEN -1 ELSE IF index < 0 THEN 0 ELSE Past(due)
    /\ abandoned' = abandoned \ (Ended \cup Begun(index'))
    /\ UNCHANGED <<servo, captei, program>>

(* ... or, after the last, the wait. *)
StartWait ==
    /\ TurnEnds /\ index + 1 >= ServoCount
    /\ index' = -1
    /\ out' = [p \in Pins |-> out[p] /\ p \notin Ended]
    /\ IF Elapsed + Slack < Interval
       THEN Wait(Interval - Elapsed)
       ELSE Again /\ cycleTicks' = Interval
    /\ promised' = 0 /\ frame' = Past(due)
    /\ abandoned' = abandoned \ Ended
    /\ UNCHANGED <<servo, captei, program>>

Handler == WaitOn \/ NextServo \/ StartWait

----------------------------------------------------------------------------
(* attach(): pin and port, the timer if no servo is active, at last the    *)
(* flag for the handler.                                                   *)

Goto(where) == pc' = where /\ UNCHANGED call
NoneActive == \A s \in Servos : ~isActive[s]

(* The pin that is high for this servo is its no longer. *)
Leave(s) ==
    /\ abandoned' = abandoned \cup {p \in Pins : out[p] /\ p = PinOf(s) /\ isActive[s]}
    /\ promised' = IF index = s THEN 0 ELSE promised

Attach(s, p) ==
    /\ pc = "idle" /\ (~isActive[s] \/ ReAttach)
    /\ \A other \in Servos \ {s} : ~isActive[other] \/ PinOf(other) # p
    /\ pc' = "port" /\ call' = [servo |-> s, pin |-> p]
    /\ mask' = [mask EXCEPT ![s] = p[2]]
    /\ Leave(s)
    /\ UNCHANGED <<index, cycleTicks, port, low, high, isActive, timer, out, frame>>

SetPort ==
    /\ pc = "port" /\ Goto("init")
    /\ port' = [port EXCEPT ![call.servo] = call.pin[1]]
    /\ UNCHANGED <<index, cycleTicks, mask, low, high, isActive, timer, out, history>>

(* The counter goes on from where it is, and the flag may be set. *)
InitISR ==
    /\ pc = "init" /\ Goto("activate")
    /\ IF NoneActive
       THEN /\ ccmp' = (Top + 1) \div 2 /\ captei' = TRUE
            /\ due' \in {0, (Top + 1) \div 2} /\ frame' = -1
       ELSE UNCHANGED <<timer, frame>>
    /\ UNCHANGED <<index, cycleTicks, servo, out, promised, abandoned>>

Activate ==
    /\ pc = "activate"
    /\ pc' = "idle" /\ call' = NoCall
    /\ isActive' = [isActive EXCEPT ![call.servo] = TRUE]
    /\ UNCHANGED <<index, cycleTicks, port, mask, low, high, timer, out, history>>

(* detach() *)
Detach(s) ==
    /\ pc = "idle" /\ pc' = "fin" /\ call' = [servo |-> s]
    /\ isActive' = [isActive EXCEPT ![s] = FALSE]
    /\ Leave(s)
    /\ UNCHANGED <<index, cycleTicks, port, mask, low, high, timer, out, frame>>

Fin == captei' = (captei /\ ~NoneActive)
FinISR ==
    /\ pc = "fin" /\ pc' = "idle" /\ call' = NoCall
    /\ Fin
    /\ UNCHANGED <<index, cycleTicks, servo, ccmp, due, out, history>>

(* writeMicroseconds(): the width is limited, and stored byte by byte. *)
Limited(width) ==
    IF width < Shortest THEN Shortest ELSE IF width > Longest THEN Longest ELSE width
WriteLow(s, width) ==
    /\ pc = "idle" /\ pc' = "write"
    /\ call' = [servo |-> s, ticks |-> Limited(width) - Trim]
    /\ low' = [low EXCEPT ![s] = call'.ticks % Base]
    /\ UNCHANGED <<index, cycleTicks, port, mask, high, isActive, timer, out, history>>

WriteHigh ==
    /\ pc = "write" /\ pc' = "idle" /\ call' = NoCall
    /\ high' = [high EXCEPT ![call.servo] = call.ticks \div Base]
    /\ UNCHANGED <<index, cycleTicks, port, mask, low, isActive, timer, out, history>>

Calls ==
    \E s \in Servos :
        \/ \E p \in Pins : Attach(s, p)
        \/ \E width \in Widths : WriteLow(s, width)
        \/ Detach(s)
Steps == SetPort \/ InitISR \/ Activate \/ FinISR \/ WriteHigh

Next == Handler \/ Calls \/ Steps

(* The timer counts and the CPU executes; nobody calls anything. *)
Fairness == WF_vars(Handler) /\ WF_vars(Steps)

Spec == Init /\ [][Next]_vars
FairSpec == Spec /\ Fairness
----------------------------------------------------------------------------
(* Properties *)

TypeOK ==
    /\ index \in -1..ServoCount-1 /\ cycleTicks \in Nat
    /\ port \in [Servos -> Ports] /\ mask \in [Servos -> Masks]
    /\ low \in [Servos -> 0..Base-1] /\ high \in [Servos -> 0..Base-1]
    /\ isActive \in [Servos -> BOOLEAN]
    /\ ccmp \in 0..Base * Base /\ captei \in BOOLEAN /\ due \in Nat
    /\ out \in [Pins -> BOOLEAN]
    /\ pc \in {"idle", "port", "init", "activate", "fin", "write"}
    /\ promised \in {0} \cup Shortest-Trim..Longest
    /\ frame \in Nat \cup {-1} /\ abandoned \subseteq Pins

(* A pin is high only during the pulse of the active servo whose turn it   *)
(* is, unless that servo was detached during its pulse: then the handler   *)
(* no longer knows the pin (Servo_megaTinyCore.cpp:67).                    *)
HighInTurn ==
    \A p \in Pins \ abandoned :
        out[p] => index \in Servos /\ isActive[index] /\ p = PinOf(index)

(* A pulse lasts as long as the program asked for when it began, unless    *)
(* the two bytes were just being written.                                  *)
Ends(p) == out[p] /\ ~out'[p]
PulseIsRight ==
    [][(promised # 0 /\ \E p \in Pins : Ends(p)) => due = promised]_vars

(* The first servo's turn comes again when the refresh interval is over,   *)
(* or all turns are, and no more than a round of the counter later         *)
(* (Servo_megaTinyCore.cpp:88).                                            *)
FrameStarts == NextServo /\ index = -1
FrameIsRight(length) ==
    /\ length >= Interval
    /\ \/ length <= Interval + Top + 1
       \/ length <= ServoCount * Longest + Top + 1
FramesRight == [][(FrameStarts /\ frame # -1) => FrameIsRight(frame + due)]_vars

(* An attached servo is given its pulses, and all turns come in time.      *)
PulsedInTime ==
    /\ \A s \in Servos :
           isActive[s] ~> (~isActive[s] \/ (index = s /\ out[PinOf(s)]))
    /\ FramesRight
=============================================================================
