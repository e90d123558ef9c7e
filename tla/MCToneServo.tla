---------------------------- MODULE MCToneServo ----------------------------
(***************************************************************************)
(* Tone and Servo for TLC: two drivers of type B timers that share no      *)
(* state, each with behaviours of its own.  In those of one the other has  *)
(* not been called yet, and has nothing to do.                             *)
(***************************************************************************)
EXTENDS MCTone, ServoTimes

VARIABLE part

VARIABLES index, cycleTicks, port, bitmask, low, high, isActive, compare, compareIe,
          due, levels, servoPc, servoCall, promised, frame, abandoned
servoVars == <<index, cycleTicks, port, bitmask, low, high, isActive, compare,
               compareIe, due, levels, servoPc, servoCall, promised, frame, abandoned>>

(* Servos on pins of one mask and two ports. *)
S == INSTANCE Servo WITH
        mask <- bitmask, ccmp <- compare, captei <- compareIe, out <- levels,
        pc <- servoPc, call <- servoCall,
        Ports <- {"A", "B"}, Masks <- {1}

----------------------------------------------------------------------------
MCInit ==
    /\ part \in {"tone", "servo"}
    /\ Init /\ S!Init
    /\ part = "servo" => reg = "A" /\ mask = 1
    /\ part = "tone" => \A s \in {0, 1} : port[s] = "A"

MCNext ==
    /\ \/ part = "tone" /\ Next /\ UNCHANGED servoVars
       \/ part = "servo" /\ S!Next /\ UNCHANGED vars
    /\ UNCHANGED part

MCSpec == MCInit /\ [][MCNext]_<<part, vars, servoVars>> /\ Fairness /\ S!Fairness

HighInTurn   == S!HighInTurn
PulseIsRight == S!PulseIsRight
PulsedInTime == S!PulsedInTime
=============================================================================
