-------------------------------- MODULE Ptc --------------------------------
(***************************************************************************)
(* The PTC library: it measures the capacitance of touch sensors with ADC0 *)
(* one after the other, by interrupts, and ptc_process(), called from the  *)
(* sketch's loop(), runs the state machine of every node that has a new    *)
(* measurement and calls the sketch back.  In low power one node is        *)
(* measured at every event, and the CPU woken when it is touched (ptc.c).  *)
(***************************************************************************)
EXTENDS Integers, FiniteSetsExt

CONSTANTS
    N,            \* nodes, numbered in the order of the list
    Types,        \* ptc_node_type_t
    Type,         \* the type of each node
    Sketches,     \* the calls of a sketch, the nodes they are about, and what
                  \* each node measures
    touch_in_th, touch_out_th,
    touched_detect_nom, untouched_detect_nom, touched_max_nom,
    drift_up_nom, drift_down_nom, force_recal_delta,
    CalibrationMax,   \* 10 in the code: conversions a calibration may take
    RecalNom,         \* 3 in the code: low conversions before a calibration
    CountWrap,        \* lastStateChange counts modulo this, 256 in the code
    Care              \* which conditions of "Calls" the sketch keeps to

Nodes == 1..N

ASSUME ListAssumption ==
    N \in Nat \ {0} /\ Type \in [Nodes -> Types] /\ "none" \notin Types
ASSUME SketchesAssumption ==
    \A s \in Sketches :
        s.nodes \subseteq Nodes /\ \A n \in Nodes : s.readings[n] \subseteq 0..1023
ASSUME SettingsAssumption ==
    /\ touch_in_th \in Nat /\ touch_out_th \in 0..touch_in_th
    /\ CountWrap \in Nat
    /\ {touched_detect_nom, untouched_detect_nom} \subseteq 0..CountWrap-1
    /\ {touched_max_nom, drift_up_nom, drift_down_nom, force_recal_delta,
        CalibrationMax, RecalNom} \subseteq Nat
    /\ Care \subseteq {"documented", "cautious"}

None == 0         \* NULL; and, as the owner of a conversion, the sketch
NoCopy == [node |-> None, bits |-> {}]

VARIABLES
    \* the library
    ptc_lib_state, lowPowerNode, currConvNode, currConvType, nextConvType,
    \* the nodes; state is the byte of flags, as the set of those that are set
    stateMachine, lastStateChange, reference, sensorData, state,
    \* ADC0: interrupt enables and flags are sets, busy is a conversion, and
    \* owner whom it is for
    CTRLA, EVCTRL, INTCTRL, INTFLAGS, RES, CTRLE, WINHT, busy, owner,
    \* the CPU: where it is, where a callback returns to, the node ptc_process()
    \* is at and its locals, and the flags that are being changed
    sketch, pc, back, at, waking, nodeSM, copy,
    \* for each node, how many measurements in a row have reached touch_in_th
    above

lib == <<ptc_lib_state, lowPowerNode, currConvNode, currConvType, nextConvType>>
nodes == <<stateMachine, lastStateChange, reference, sensorData, state>>
adc == <<CTRLA, EVCTRL, INTCTRL, INTFLAGS, RES, CTRLE, WINHT, busy, owner>>
cpu == <<sketch, pc, back, at, waking, nodeSM, copy>>
vars == <<lib, nodes, adc, cpu, above>>

Init ==
    /\ ptc_lib_state = "idle" /\ lowPowerNode = None /\ currConvNode = None
    /\ currConvType = "none" /\ nextConvType = "none"
    /\ stateMachine = [n \in Nodes |-> "noinit_cal"]
    /\ lastStateChange = [n \in Nodes |-> 0]
    /\ reference = [n \in Nodes |-> 0] /\ sensorData = [n \in Nodes |-> 0]
    /\ state = [n \in Nodes |-> {}]
    /\ CTRLA = FALSE /\ EVCTRL = FALSE /\ INTCTRL = {} /\ INTFLAGS = {} /\ RES = 0
    /\ CTRLE = "none" /\ WINHT = 0 /\ busy = FALSE /\ owner = None
    /\ pc = "loop" /\ back = "none" /\ at = 1 /\ waking = FALSE
    /\ nodeSM = "none" /\ copy = NoCopy /\ sketch \in Sketches
    /\ above = [n \in Nodes |-> 0]
----------------------------------------------------------------------------
(* Conversions *)

Oversampling == 16
Window(ref) == (ref + touch_in_th) * Oversampling

(* ptc_start_conversion(): the next node of the type that is not disabled. *)
Candidates(first, type, flags) ==
    {n \in first..N : "disabled" \notin flags[n] /\ Type[n] = type}
ReleasedNever == {"RESRDY"}
Released == {}
OnEvent(n, flags) == "low_power" \in flags[n]
StartConversion(first, type, flags) ==
    IF Candidates(first, type, flags) = {}
    THEN /\ INTCTRL' = Released /\ ptc_lib_state' = "conv_compl"
         /\ CTRLA' = FALSE /\ busy' = FALSE /\ owner' = None
         /\ UNCHANGED <<currConvNode, EVCTRL>>
    ELSE LET n == Min(Candidates(first, type, flags))
         IN  /\ currConvNode' = n /\ owner' = n /\ CTRLA' = TRUE
             /\ EVCTRL' = (EVCTRL \/ OnEvent(n, flags))
             /\ busy' = ~OnEvent(n, flags)

(* ptc_init_conversion(), with low power's node and the flags of the nodes *)
(* as its caller has set them.                                             *)
Occupied == {"conv_prog", "conv_lp", "conv_wcmp", "suspended"}
InitConversion(type, low, flags) ==
    IF ptc_lib_state \in Occupied
    THEN UNCHANGED <<ptc_lib_state, currConvNode, currConvType, adc>>
    ELSE /\ currConvType' = type /\ INTFLAGS' = {} /\ RES' = 0
         /\ IF low # None
            THEN /\ CTRLE' = "above" /\ WINHT' = Window(reference[low])
                 /\ StartConversion(low, type, flags)
                 /\ Candidates(low, type, flags) # {} =>
                        INTCTRL' = {"WCMP"} /\ ptc_lib_state' = "event"
            ELSE /\ CTRLE' = "none" /\ UNCHANGED WINHT
                 /\ StartConversion(1, type, flags)
                 /\ Candidates(1, type, flags) # {} =>
                        INTCTRL' = {"RESRDY"} /\ ptc_lib_state' = "conv_prog"

(* The peripheral. *)
Event ==
    /\ EVCTRL /\ CTRLA /\ ~busy /\ busy' = TRUE
    /\ UNCHANGED <<lib, nodes, CTRLA, EVCTRL, INTCTRL, INTFLAGS, RES, CTRLE, WINHT,
                   owner, cpu, above>>

Measures == IF owner = None THEN {0} ELSE sketch.readings[owner]
Exceeds(reading) == CTRLE = "above" /\ reading * Oversampling > WINHT
Convert ==
    /\ busy /\ busy' = FALSE
    /\ RES' \in Measures
    /\ INTFLAGS' = INTFLAGS \cup {"RESRDY"} \cup (IF Exceeds(RES') THEN {"WCMP"} ELSE {})
    /\ UNCHANGED <<lib, nodes, CTRLA, EVCTRL, INTCTRL, CTRLE, WINHT, owner, cpu, above>>

(* ptc_eoc(): the result is the current node's, and the next node's        *)
(* conversion starts, or low power has something to tell.                  *)
Pending == INTFLAGS \cap INTCTRL # {}
Eoc ==
    /\ Pending /\ currConvNode # None
    /\ LET n == currConvNode
           woken == IF "WCMP" \in INTFLAGS THEN {"win_comp"} ELSE {}
           ready == state[n] \cup {"data_ready"}
       IN  /\ sensorData' = [sensorData EXCEPT ![n] = RES]
           /\ IF "low_power" \in state[n]
              THEN /\ state' = [state EXCEPT ![n] = (ready \ {"win_comp"}) \cup woken]
                   /\ ptc_lib_state' = IF woken # {} THEN "conv_wcmp" ELSE "conv_lp"
                   /\ CTRLA' = FALSE /\ busy' = FALSE
                   /\ UNCHANGED <<currConvNode, EVCTRL, INTCTRL, owner>>
              ELSE /\ state' = [state EXCEPT ![n] = ready]
                   /\ StartConversion(n + 1, currConvType, state)
                   /\ Candidates(n + 1, currConvType, state) # {} =>
                          UNCHANGED <<INTCTRL, ptc_lib_state>>
    /\ INTFLAGS' = {} /\ RES' = 0
    /\ UNCHANGED <<lowPowerNode, currConvType, nextConvType, stateMachine,
                   lastStateChange, reference, CTRLE, WINHT, cpu, above>>
----------------------------------------------------------------------------
(* The state machine of a node, ptc_process_node_sm() *)

Delta(n) == sensorData[n] - reference[n]
Collapsed(n) == Delta(n) < -150

(* ptc_process_calibrate() is done within 3 of 0x1FF.  Otherwise it steps  *)
(* the compensation, which may be at its end.                              *)
Settled(n) == sensorData[n] \in 508..514
Calibrated(n) == IF "low_power" \in state[n] THEN "low_power" ELSE "no_touch"
OutOfReach(n) == reference[n] <= 512 - force_recal_delta \/ reference[n] >= 512 + force_recal_delta

Filtered(n, nom) == lastStateChange[n] >= nom
NextStates(n) ==
    LET delta == Delta(n)
        last == lastStateChange[n]
    IN  CASE stateMachine[n] = "noinit_cal" ->
               IF Settled(n) THEN {Calibrated(n)}
               ELSE IF last > CalibrationMax THEN {"error"} ELSE {"error", "noinit_cal"}
          [] stateMachine[n] = "recal_flt" ->
               {IF delta > -150 THEN "no_touch"
                ELSE IF last > RecalNom THEN "noinit_cal" ELSE "recal_flt"}
          [] stateMachine[n] = "nt_low_flt" ->
               {IF delta > 0 THEN "no_touch"
                ELSE IF Collapsed(n) THEN "recal_flt"
                ELSE IF last > drift_down_nom THEN "no_touch" ELSE "nt_low_flt"}
          [] stateMachine[n] = "no_touch" ->
               {IF Collapsed(n) THEN "recal_flt"
                ELSE IF delta >= touch_in_th THEN "touch_in_flt"
                ELSE IF OutOfReach(n) THEN "noinit_cal"
                ELSE IF delta < -1 THEN "nt_low_flt"
                ELSE IF delta > 1 THEN "nt_high_flt" ELSE "no_touch"}
          [] stateMachine[n] = "nt_high_flt" ->
               {IF delta < 0 THEN "no_touch"
                ELSE IF delta >= touch_in_th THEN "touch_in_flt"
                ELSE IF last > drift_up_nom THEN "no_touch" ELSE "nt_high_flt"}
          [] stateMachine[n] = "touch_in_flt" ->
               {IF Filtered(n, touched_detect_nom) THEN "touch_detect"
                ELSE IF delta < touch_in_th THEN "no_touch" ELSE "touch_in_flt"}
          [] stateMachine[n] = "touch_out_flt" ->
               {IF Filtered(n, untouched_detect_nom) THEN "no_touch"
                ELSE IF delta > touch_in_th THEN "touch_detect" ELSE "touch_out_flt"}
          [] stateMachine[n] = "touch_detect" ->
               {IF last > touched_max_nom THEN "noinit_cal"
                ELSE IF delta < touch_out_th THEN "touch_out_flt" ELSE "touch_detect"}
          [] stateMachine[n] = "low_power" ->
               {IF "low_power" \in state[n] THEN "low_power"
                ELSE IF delta > touch_in_th THEN "touch_detect" ELSE "no_touch"}

DriftsDown(n) ==
    \/ /\ stateMachine[n] = "nt_low_flt" /\ Delta(n) <= 0 /\ ~Collapsed(n)
       /\ lastStateChange[n] > drift_down_nom
    \/ stateMachine[n] = "low_power" /\ Delta(n) < -1
DriftsUp(n) ==
    \/ /\ stateMachine[n] = "nt_high_flt" /\ Delta(n) \in 0..touch_in_th-1
       /\ lastStateChange[n] > drift_up_nom
    \/ stateMachine[n] = "low_power" /\ Delta(n) > 1
Drift(n) == IF DriftsDown(n) THEN -1 ELSE IF DriftsUp(n) THEN 1 ELSE 0

Detects(n, next) == stateMachine[n] = "touch_in_flt" /\ next = "touch_detect"
Releases(n, next) == stateMachine[n] = "touch_out_flt" /\ next = "no_touch"
Calibrates(n, next) == stateMachine[n] = "noinit_cal" /\ next # "noinit_cal"

CallBack(return) == pc' = "callback" /\ back' = return

(* The next node of the list, the end of the acquisition, or of the node   *)
(* that woke the CPU.                                                      *)
NextNode ==
    \/ waking /\ pc' = "woken" /\ back' = "none" /\ UNCHANGED at
    \/ ~waking /\ at < N /\ pc' = "measurement" /\ at' = at + 1 /\ back' = "none"
    \/ ~waking /\ at = N /\ CallBack("acquire") /\ at' = 1

(* ptc_process_measurement().  sensorData is kept until here. *)
Ready(n) == "error" \notin state[n] /\ "data_ready" \in state[n]
PassOver ==
    /\ pc = "measurement" /\ ~Ready(at)
    /\ NextNode
    /\ UNCHANGED <<lib, nodes, adc, waking, nodeSM, copy, sketch, above>>

Longest == touched_detect_nom + 1
Longer(count) == IF count < Longest THEN count + 1 ELSE count
Leaves(n) == stateMachine[n] = "low_power" /\ "low_power" \notin state[n]
Judge ==
    /\ pc = "measurement" /\ Ready(at)
    /\ \E next \in NextStates(at) :
        /\ nodeSM' = next
        /\ IF Detects(at, next) \/ Releases(at, next) \/ Calibrates(at, next)
           THEN CallBack("settle")
           ELSE pc' = "settle" /\ UNCHANGED back
        /\ state' = [state EXCEPT ![at] = (@ \ {"data_ready"})
                            \cup (IF next = "error" THEN {"error"} ELSE {})]
        /\ reference' = [reference EXCEPT ![at] =
               IF Calibrates(at, next) /\ next # "error" THEN sensorData[at]
                                                          ELSE @ + Drift(at)]
    /\ sensorData' = [sensorData EXCEPT ![at] = 0]
    /\ WINHT' = IF stateMachine[at] = "low_power" THEN WINHT + Drift(at) ELSE WINHT
    /\ lowPowerNode' = IF Leaves(at) THEN None ELSE lowPowerNode
    /\ above' = [above EXCEPT ![at] = IF Delta(at) >= touch_in_th THEN Longer(@) ELSE 0]
    /\ UNCHANGED <<ptc_lib_state, currConvNode, currConvType, nextConvType, stateMachine,
                   lastStateChange, CTRLA, EVCTRL, INTCTRL, INTFLAGS, RES, CTRLE, busy,
                   owner, at, waking, copy, sketch>>

(* Back from the callback, with what was decided before it. *)
CountedOn(n, next) == (lastStateChange[n] + 1) % CountWrap
Counted(n, next) ==
    IF stateMachine[n] # next THEN 0 ELSE (lastStateChange[n] + 1) % CountWrap
Settle ==
    /\ pc = "settle" /\ CallBack("next")
    /\ IF nodeSM = "error" THEN UNCHANGED <<stateMachine, lastStateChange>>
       ELSE /\ stateMachine' = [stateMachine EXCEPT ![at] = nodeSM]
            /\ lastStateChange' = [lastStateChange EXCEPT ![at] = Counted(at, nodeSM)]
    /\ nodeSM' = "none"
    /\ UNCHANGED <<lib, reference, sensorData, state, adc, at, waking, copy, sketch, above>>
----------------------------------------------------------------------------
(* ptc_process() *)

Running == pc \in {"loop", "called"} /\ copy = NoCopy

ProcessWake ==
    /\ Running /\ ptc_lib_state \in {"conv_wcmp", "conv_lp"} /\ lowPowerNode # None
    /\ CallBack("wake") /\ at' = lowPowerNode /\ waking' = TRUE
    /\ UNCHANGED <<lib, nodes, adc, nodeSM, copy, sketch, above>>

CompletedLate == "conv_compl"
Completed == "idle"
ProcessComplete ==
    /\ Running /\ ptc_lib_state = "conv_compl"
    /\ ptc_lib_state' = Completed
    /\ pc' = "measurement" /\ at' = 1 /\ waking' = FALSE
    /\ UNCHANGED <<lowPowerNode, currConvNode, currConvType, nextConvType, nodes, adc,
                   back, nodeSM, copy, sketch, above>>

ProcessNothing ==
    /\ Running /\ pc' = "acquire"
    /\ \/ ptc_lib_state \notin {"conv_wcmp", "conv_lp", "conv_compl"}
       \/ ptc_lib_state \in {"conv_wcmp", "conv_lp"} /\ lowPowerNode = None
    /\ UNCHANGED <<lib, nodes, adc, back, at, waking, nodeSM, copy, sketch, above>>

(* After the node that woke the CPU. *)
Woken ==
    /\ pc = "woken" /\ pc' = "acquire"
    /\ IF lowPowerNode = None
       THEN /\ currConvType' = "none" /\ ptc_lib_state' = "idle" /\ UNCHANGED INTCTRL
       ELSE /\ INTCTRL' = {"WCMP"} /\ ptc_lib_state' = "event" /\ UNCHANGED currConvType
    /\ at' = 1 /\ waking' = FALSE
    /\ UNCHANGED <<lowPowerNode, currConvNode, nextConvType, nodes, CTRLA, EVCTRL, INTFLAGS,
                   RES, CTRLE, WINHT, busy, owner, back, nodeSM, copy, sketch, above>>

(* The next acquisition starts once the period is over. *)
AcquiredType == IF nextConvType = "none" THEN Type[1] ELSE nextConvType
Acquire ==
    /\ pc = "acquire" /\ pc' = "loop"
    /\ IF ptc_lib_state = "idle" THEN InitConversion(AcquiredType, lowPowerNode, state)
       ELSE UNCHANGED <<ptc_lib_state, currConvNode, currConvType, adc>>
    /\ UNCHANGED <<lowPowerNode, nextConvType, nodes, back, at, waking, nodeSM, copy,
                   sketch, above>>
NotYet ==
    /\ pc = "acquire" /\ pc' = "loop"
    /\ UNCHANGED <<lib, nodes, adc, back, at, waking, nodeSM, copy, sketch, above>>
----------------------------------------------------------------------------
(* Calls: one in each turn of loop() and in each callback.  The documented *)
(* condition on low power is a node that is enabled and calibrated         *)
(* (README.md:81).  A cautious sketch also enters low power only between   *)
(* acquisitions, leaves its node alone then, and leaves low power when it  *)
(* is woken.                                                               *)
Careful == "cautious" \in Care

NextTurn ==
    \/ pc = "loop" /\ pc' = "called"
    \/ pc = "callback" /\ pc' = "left"
Turn == copy = NoCopy /\ NextTurn
Waking == pc = "callback" /\ back = "wake"
Call == Turn /\ (Careful => ~Waking)

(* ptc_enable_node(), ptc_disable_node(): the byte of flags is loaded and  *)
(* stored; conversions may end in between.                                 *)
Enabled(n) == state[n] \ {"disabled"}
Disabled(n) == state[n] \cup {"disabled"}
LoadFlags(n) ==
    /\ pc \in {"loop", "callback"} /\ copy = NoCopy
    /\ Careful => n # lowPowerNode /\ ~Waking
    /\ copy' \in {[node |-> n, bits |-> Enabled(n)], [node |-> n, bits |-> Disabled(n)]}
    /\ UNCHANGED <<lib, nodes, adc, pc, back, at, waking, nodeSM, sketch, above>>
StoreFlags ==
    /\ copy # NoCopy /\ copy' = NoCopy /\ NextTurn
    /\ state' = [state EXCEPT ![copy.node] = copy.bits]
    /\ UNCHANGED <<lib, stateMachine, lastStateChange, reference, sensorData, adc,
                   back, at, waking, nodeSM, sketch, above>>

RequestRecal(n) ==
    /\ Call /\ (Careful => n # lowPowerNode)
    /\ stateMachine' = [stateMachine EXCEPT ![n] = "noinit_cal"]
    /\ lastStateChange' = [lastStateChange EXCEPT ![n] = 0]
    /\ UNCHANGED <<lib, reference, sensorData, state, adc, back, at, waking, nodeSM,
                   copy, sketch, above>>

SetNextConversionType(type) ==
    /\ Call /\ nextConvType' = type
    /\ UNCHANGED <<ptc_lib_state, lowPowerNode, currConvNode, currConvType, nodes, adc,
                   back, at, waking, nodeSM, copy, sketch, above>>

Suspend ==
    /\ Call /\ ptc_lib_state = "idle" /\ ptc_lib_state' = "suspended"
    /\ UNCHANGED <<lowPowerNode, currConvNode, currConvType, nextConvType, nodes, adc,
                   back, at, waking, nodeSM, copy, sketch, above>>
Resume ==
    /\ Call /\ ptc_lib_state = "suspended" /\ ptc_lib_state' = "idle"
    /\ UNCHANGED <<lowPowerNode, currConvNode, currConvType, nextConvType, nodes, adc,
                   back, at, waking, nodeSM, copy, sketch, above>>

(* What suspending is for: ptc_init_ADC0(), and a conversion of the        *)
(* sketch's own, whose flag it waits for and whose result it reads.        *)
AnalogRead ==
    /\ pc = "loop" /\ copy = NoCopy /\ ptc_lib_state = "suspended"
    /\ pc' = "reading" /\ CTRLA' = TRUE /\ busy' = TRUE /\ owner' = None
    /\ UNCHANGED <<lib, nodes, EVCTRL, INTCTRL, INTFLAGS, RES, CTRLE, WINHT,
                   back, at, waking, nodeSM, copy, sketch, above>>
AnalogResult ==
    /\ pc = "reading" /\ "RESRDY" \in INTFLAGS
    /\ pc' = "called" /\ INTFLAGS' = {} /\ RES' = 0
    /\ UNCHANGED <<lib, nodes, CTRLA, EVCTRL, INTCTRL, CTRLE, WINHT, busy, owner,
                   back, at, waking, nodeSM, copy, sketch, above>>

Fit(n) == state[n] \cap {"disabled", "error"} = {} /\ stateMachine[n] # "noinit_cal"
BetweenAcquisitions ==
    (pc = "loop" \/ back = "acquire") /\ ptc_lib_state \in {"idle", "conv_compl"}
LpInit(n) ==
    /\ Call /\ lowPowerNode = None
    /\ "documented" \in Care => Fit(n)
    /\ Careful => BetweenAcquisitions
    /\ state' = [state EXCEPT ![n] = @ \cup {"low_power"}]
    /\ stateMachine' = [stateMachine EXCEPT ![n] = "low_power"]
    /\ lowPowerNode' = n
    /\ InitConversion(Type[n], n, state')
    /\ UNCHANGED <<nextConvType, lastStateChange, reference, sensorData, back, at,
                   waking, nodeSM, copy, sketch, above>>

LpDisable ==
    /\ Turn /\ lowPowerNode # None
    /\ Careful => ptc_lib_state \in {"conv_lp", "conv_wcmp"}
    /\ INTCTRL' = {} /\ EVCTRL' = FALSE
    /\ state' = [state EXCEPT ![lowPowerNode] = @ \ {"low_power", "win_comp"}]
    /\ UNCHANGED <<lib, stateMachine, lastStateChange, reference, sensorData, CTRLA,
                   INTFLAGS, RES, CTRLE, WINHT, busy, owner, back, at, waking, nodeSM,
                   copy, sketch, above>>

LpForceDrift ==
    /\ Call /\ lowPowerNode # None /\ INTCTRL = {"WCMP"}
    /\ INTCTRL' = {"RESRDY", "WCMP"}
    /\ UNCHANGED <<lib, nodes, CTRLA, EVCTRL, INTFLAGS, RES, CTRLE, WINHT, busy, owner,
                   back, at, waking, nodeSM, copy, sketch, above>>

(* A callback returns. *)
Return ==
    /\ pc \in {"callback", "left"} /\ copy = NoCopy
    /\ \/ /\ back = "wake" /\ pc' = "measurement"
          /\ Careful => "low_power" \notin state[at]
          /\ back' = "none" /\ UNCHANGED <<at, currConvType>>
       \/ back = "settle" /\ pc' = "settle" /\ back' = "none" /\ UNCHANGED <<at, currConvType>>
       \/ back = "next" /\ NextNode /\ UNCHANGED currConvType
       \/ back = "acquire" /\ pc' = "acquire" /\ currConvType' = "none"
          /\ back' = "none" /\ UNCHANGED at
    /\ UNCHANGED <<ptc_lib_state, lowPowerNode, currConvNode, nextConvType, nodes, adc,
                   waking, nodeSM, copy, sketch, above>>
----------------------------------------------------------------------------
Process == ProcessWake \/ ProcessComplete \/ ProcessNothing \/ PassOver \/ Judge \/ Settle
           \/ Woken \/ Acquire \/ NotYet
Uses(call) == call \in sketch.calls
Calls ==
    \/ \E n \in sketch.nodes :
        \/ Uses("flags") /\ LoadFlags(n)
        \/ Uses("recal") /\ RequestRecal(n)
        \/ Uses("low power") /\ LpInit(n)
    \/ \E type \in Types : Uses("type") /\ SetNextConversionType(type)
    \/ Uses("suspend") /\ (Suspend \/ Resume \/ AnalogRead)
    \/ LpDisable
    \/ Uses("drift") /\ LpForceDrift
Peripheral == Event \/ Convert
Next == Peripheral \/ Eoc \/ Process \/ Calls \/ StoreFlags \/ AnalogResult \/ Return

Spec == Init /\ [][Next]_vars

(* Conversions end, interrupts are on, the period passes, and the sketch   *)
(* calls ptc_process() in every turn of loop() and returns from callbacks. *)
Fairness ==
    /\ WF_vars(Convert) /\ WF_vars(Eoc) /\ SF_vars(Acquire)
    /\ WF_vars(Process \/ StoreFlags \/ AnalogResult \/ Return)
FairSpec == Spec /\ Fairness
----------------------------------------------------------------------------
(* Properties *)

(* A touch is reported only after more than touched_detect_nom             *)
(* measurements in a row that reach the threshold, whatever the sketch     *)
(* does in between (README.md:140, ptc.c:628).                             *)
TouchIsFiltered ==
    [][\A n \in Nodes :
           Judge /\ at = n /\ Detects(n, nodeSM') => above[n] > touched_detect_nom]_vars

(* The interrupt puts a result into the node that was measured, and never  *)
(* takes one that the sketch has asked for while the library is suspended. *)
OwnMeasurement == [][Eoc => owner = currConvNode]_vars

(* A node that stays enabled, and of the type that is acquired, is         *)
(* measured again and again, and no result is left waiting, unless the     *)
(* library is suspended or in low power.                                   *)
Acquired(n) ==
    /\ "disabled" \notin state[n] /\ "error" \notin state[n]
    /\ AcquiredType = Type[n]
    /\ ptc_lib_state # "suspended" /\ lowPowerNode = None
Waits(n) == "data_ready" \in state[n]
AcquisitionsGoOn ==
    \A n \in Nodes : <>[]Acquired(n) => []<><<Waits(n)' # Waits(n)>>_vars

(* As long as the library waits for an event in low power, the next event  *)
(* starts a conversion of low power's node and a touch wakes the CPU, for  *)
(* any node that is enabled and calibrated (README.md:38, 79-81).  The     *)
(* code does not keep this: ptc_process() waits for events again (ptc.c:   *)
(* 505) with the ADC still switched off by ptc_eoc() (:1085).              *)
LowPowerListens ==
    ptc_lib_state = "event" => \A n \in Nodes : "low_power" \in state[n] =>
        /\ CTRLA /\ EVCTRL /\ "WCMP" \in INTCTRL /\ CTRLE = "above"
        /\ owner = n /\ currConvNode = n
=============================================================================
