----------------------------- MODULE PtcProofs -----------------------------
(***************************************************************************)
(* Proofs about Ptc, for any number of nodes, sketches, readings and       *)
(* settings, cautious or not: touches are filtered, and a result is the    *)
(* measured node's.                                                        *)
(***************************************************************************)
EXTENDS Ptc, WellFoundedInduction, TLAPS

SM == {"noinit_cal", "recal_flt", "nt_low_flt", "no_touch", "nt_high_flt",
       "touch_in_flt", "touch_out_flt", "touch_detect", "low_power"}

Typed ==
    /\ sketch \in Sketches /\ at \in Nodes
    /\ {lowPowerNode, currConvNode, owner} \subseteq 0..N
    /\ RES \in Int
    /\ sensorData \in [Nodes -> Int] /\ reference \in [Nodes -> Int]
    /\ stateMachine \in [Nodes -> SM] /\ nodeSM \in SM \cup {"none", "error"}
    /\ lastStateChange \in [Nodes -> Nat]
    /\ above \in [Nodes -> Nat]

(* Between Judge and Settle, a node's next state is in nodeSM; a callback  *)
(* comes in between for states that are no filters.                        *)
InSettle == pc = "settle" \/ (pc \in {"callback", "left"} /\ back = "settle")
Filters == {"touch_in_flt"}
Pends ==
    /\ nodeSM # "none" <=> InSettle
    /\ nodeSM \in Filters => pc = "settle"
    /\ nodeSM = "error" => stateMachine[at] \notin Filters

(* A node that has counted k measurements in a filter has counted one more *)
(* measurement that passes it: the first led into the filter.              *)
Counts(seen, k) == seen >= k + 1 \/ seen >= Longest
AtRest(n) == n # at \/ nodeSM = "none"
Behind ==
    \A n \in Nodes : AtRest(n) /\ stateMachine[n] = "touch_in_flt" =>
        Counts(above[n], lastStateChange[n])
Ahead == nodeSM = "touch_in_flt" => Counts(above[at], Counted(at, nodeSM))

FInv == Typed /\ Pends /\ Behind /\ Ahead

----------------------------------------------------------------------------
(* Lemmas *)

(* A node that is not NULL; the first node, and the next one.              *)
LEMMA ANode == \A n \in 0..N : n # None => n \in Nodes
  BY ListAssumption DEF Nodes, None

LEMMA AFirst == 1 \in Nodes
  BY ListAssumption DEF Nodes

LEMMA NodeAfter ==
    ASSUME at \in Nodes, NextNode
    PROVE  at' \in Nodes
<1>1. N \in Nat \ {0} /\ at \in 1..N
  BY ListAssumption DEF Nodes
<1>2. at' = at \/ (at < N /\ at' = at + 1) \/ at' = 1
  BY DEF NextNode
<1> QED
  BY <1>1, <1>2 DEF Nodes

(* A set of natural numbers has a least element.                           *)
LEMMA Least ==
    ASSUME NEW S \in SUBSET Nat, S # {}
    PROVE  Min(S) \in S
<1> DEFINE R == OpToRel(<, Nat)
<1>1. PICK x \in S : \A y \in S : ~(<<y, x>> \in R)
  <2>1. IsWellFoundedOn(R, Nat)
    BY NatLessThanWellFounded
  <2> HIDE DEF R
  <2> QED
    BY <2>1, WFMin
<1>2. \A y \in S : x <= y
  <2>1. R = {ss \in Nat \X Nat : ss[1] < ss[2]}
    BY Zenon DEF OpToRel
  <2> HIDE DEF R
  <2> SUFFICES ASSUME NEW y \in S, ~(x <= y)
               PROVE  FALSE
    OBVIOUS
  <2>2. <<y, x>> \in Nat \X Nat /\ <<y, x>>[1] < <<y, x>>[2]
    OBVIOUS
  <2>3. <<y, x>> \in R
    BY <2>1, <2>2
  <2> QED
    BY <1>1, <2>3
<1> QED
  BY <1>2 DEF Min

(* A conversion is a node's, or nobody's.                                  *)
LEMMA ACandidate ==
    ASSUME NEW first \in Nat, NEW type, NEW flags, Candidates(first, type, flags) # {}
    PROVE  Min(Candidates(first, type, flags)) \in 0..N
<1>1. Candidates(first, type, flags) \in SUBSET (0..N)
  BY ListAssumption DEF Candidates
<1>2. Candidates(first, type, flags) \in SUBSET Nat
  BY <1>1, ListAssumption
<1> QED
  BY <1>1, <1>2, Least

LEMMA Starts ==
    ASSUME NEW first \in Nat, NEW type, NEW flags, StartConversion(first, type, flags),
           {currConvNode, owner} \subseteq 0..N
    PROVE  {currConvNode', owner'} \subseteq 0..N
<1>1. CASE Candidates(first, type, flags) = {}
  BY <1>1, ListAssumption DEF StartConversion, None
<1>2. CASE Candidates(first, type, flags) # {}
  <2> DEFINE n == Min(Candidates(first, type, flags))
  <2>1. n \in 0..N
    BY <1>2, ACandidate
  <2>2. currConvNode' = n /\ owner' = n
    BY <1>2 DEF StartConversion
  <2> QED
    BY <2>1, <2>2
<1> QED
  BY <1>1, <1>2

LEMMA Inits ==
    ASSUME NEW type, NEW low \in 0..N, NEW flags, InitConversion(type, low, flags),
           {currConvNode, owner} \subseteq 0..N, RES \in Int
    PROVE  {currConvNode', owner'} \subseteq 0..N /\ RES' \in Int
<1>1. CASE ptc_lib_state \in Occupied
  BY <1>1 DEF InitConversion, adc
<1>2. CASE ptc_lib_state \notin Occupied /\ low # None
  <2>1. StartConversion(low, type, flags) /\ RES' = 0
    BY <1>2 DEF InitConversion
  <2> QED
    BY <2>1, Starts, ListAssumption
<1>3. CASE ptc_lib_state \notin Occupied /\ low = None
  <2>1. StartConversion(1, type, flags) /\ RES' = 0
    BY <1>3 DEF InitConversion
  <2> QED
    BY <2>1, Starts
<1> QED
  BY <1>1, <1>2, <1>3

LEMMA LongestIs == Longest \in Nat /\ Longest > touched_detect_nom
  BY SettingsAssumption DEF Longest

LEMMA Wraps ==
    ASSUME NEW k \in Nat
    PROVE  (k + 1) % CountWrap \in Nat /\ (k + 1) % CountWrap <= k + 1
<1> DEFINE w == CountWrap
           j == k + 1
<1>1. w \in Nat \ {0} /\ j \in Nat
  BY SettingsAssumption
<1> HIDE DEF w, j
<1>2. j % w \in Nat /\ j \div w \in Nat
  BY <1>1
<1>3. j = (j \div w) * w + (j % w)
  BY <1>1, Z3
<1>4. (j \div w) * w \in Nat
  BY <1>1, <1>2
<1>5. j % w <= j
  BY <1>1, <1>2, <1>3, <1>4
<1> QED
  BY <1>2, <1>5 DEF w, j

(* The next count, by what the state becomes.                              *)
LEMMA NextCount ==
    ASSUME Typed, NEW n \in Nodes, NEW next
    PROVE  /\ Counted(n, next) \in Nat
           /\ stateMachine[n] # next => Counted(n, next) = 0
           /\ stateMachine[n] = next => Counted(n, next) <= lastStateChange[n] + 1
<1>1. lastStateChange[n] \in Nat
  BY DEF Typed
<1> QED
  BY <1>1, Wraps DEF Counted

LEMMA NextIsState ==
    ASSUME Typed, NEW n \in Nodes, NEW next \in NextStates(n)
    PROVE  next \in SM \cup {"error"}
<1>1. stateMachine[n] \in SM
  BY DEF Typed
<1> QED
  BY <1>1 DEF NextStates, SM, Calibrated

(* What leads into the filter, and what stays in it.                       *)
LEMMA IntoFilter ==
    ASSUME Typed, NEW n \in Nodes, NEW next \in NextStates(n), next = "touch_in_flt"
    PROVE  Delta(n) >= touch_in_th
<1>1. stateMachine[n] \in SM /\ Delta(n) \in Int /\ touch_in_th \in Nat
  BY SettingsAssumption DEF Typed, Delta
<1> QED
  BY <1>1 DEF NextStates, SM, Calibrated

(* What a callback may not be about, and what an error comes from.         *)
LEMMA NoFilterInCallback ==
    ASSUME Typed, NEW n \in Nodes, NEW next \in NextStates(n)
    PROVE  /\ next \in Filters =>
                  ~(Detects(n, next) \/ Releases(n, next) \/ Calibrates(n, next))
           /\ next = "error" => stateMachine[n] = "noinit_cal"
<1>1. stateMachine[n] \in SM
  BY DEF Typed
<1>2. ASSUME next = "error" PROVE stateMachine[n] = "noinit_cal"
  BY <1>1, <1>2 DEF NextStates, SM, Calibrated
<1>3. ASSUME next \in Filters
      PROVE  ~(Detects(n, next) \/ Releases(n, next) \/ Calibrates(n, next))
  BY <1>1, <1>3 DEF NextStates, SM, Calibrated, Filters, Detects, Releases, Calibrates
<1> QED
  BY <1>2, <1>3

----------------------------------------------------------------------------
(* Types *)

LEMMA TypedInit == Init => Typed
  BY ListAssumption DEF Init, Typed, Nodes, SM, None

(* Every step keeps the types.                                             *)
LEMMA TypedStep ==
    ASSUME Typed, Pends, [Next]_vars
    PROVE  Typed'
<1> USE DEF Typed
<1>1. CASE Event
  BY <1>1 DEF Event, lib, nodes, adc, cpu
<1>2. CASE Convert
  <2>1. Measures \subseteq Int
    <3>1. CASE owner = None
      BY <3>1 DEF Measures
    <3>2. CASE owner # None
      <4>1. owner \in Nodes
        BY <3>2, ANode
      <4>2. sketch.readings[owner] \subseteq 0..1023
        BY <4>1, SketchesAssumption
      <4> SUFFICES ASSUME NEW x \in Measures
                   PROVE  x \in Int
        OBVIOUS
      <4>3. x \in 0..1023
        BY <4>2, <3>2 DEF Measures
      <4> QED
        BY <4>3
    <3> QED
      BY <3>1, <3>2
  <2>2. RES' \in Int
    BY <1>2, <2>1 DEF Convert
  <2> QED
    BY <1>2, <2>2 DEF Convert, lib, nodes, cpu
<1>3. CASE Eoc
  <2>1. {currConvNode', owner'} \subseteq 0..N
    <3>1. CASE "low_power" \in state[currConvNode]
      BY <1>3, <3>1 DEF Eoc
    <3>2. CASE "low_power" \notin state[currConvNode]
      <4>1. StartConversion(currConvNode + 1, currConvType, state)
        BY <1>3, <3>2 DEF Eoc
      <4>2. currConvNode + 1 \in Nat
        BY ListAssumption
      <4> QED
        BY <4>1, <4>2, Starts
    <3> QED
      BY <3>1, <3>2
  <2>2. sensorData' \in [Nodes -> Int] /\ RES' \in Int
    <3>1. sensorData' = [sensorData EXCEPT ![currConvNode] = RES] /\ RES' = 0
      BY <1>3 DEF Eoc
    <3>2. currConvNode \in Nodes
      BY <1>3, ANode DEF Eoc
    <3> QED
      BY <3>1, <3>2
  <2>3. UNCHANGED <<lowPowerNode, stateMachine, lastStateChange, reference, cpu, above>>
    BY <1>3 DEF Eoc
  <2> QED
    BY <2>1, <2>2, <2>3 DEF cpu
<1>4. CASE ProcessWake
  BY <1>4, ANode DEF ProcessWake, lib, nodes, adc, cpu, CallBack
<1>5. CASE ProcessComplete
  BY <1>5, AFirst DEF ProcessComplete, lib, nodes, adc, cpu
<1>6. CASE ProcessNothing
  BY <1>6 DEF ProcessNothing, lib, nodes, adc, cpu
<1>7. CASE PassOver
  <2>1. at' \in Nodes
    BY <1>7, NodeAfter DEF PassOver
  <2> QED
    BY <1>7, <2>1 DEF PassOver, lib, nodes, adc
<1>8. CASE Judge
  <2>1. at \in Nodes /\ sensorData' \in [Nodes -> Int]
    BY <1>8 DEF Judge
  <2>2. nodeSM' \in SM \cup {"none", "error"}
    BY <1>8, NextIsState DEF Judge
  <2>3. reference' \in [Nodes -> Int]
    BY <1>8 DEF Judge, Drift
  <2>4. above' \in [Nodes -> Nat]
    <3>1. \A c \in Nat : Longer(c) \in Nat
      BY LongestIs DEF Longer
    <3> QED
      BY <1>8, <3>1 DEF Judge
  <2>5. lowPowerNode' \in 0..N
    BY <1>8, ListAssumption DEF Judge, None
  <2> QED
    BY <1>8, <2>1, <2>2, <2>3, <2>4, <2>5 DEF Judge
<1>9. CASE Settle
  <2>1. Counted(at, nodeSM) \in Nat
    BY NextCount
  <2>2. stateMachine' \in [Nodes -> SM]
    <3>1. CASE nodeSM = "error"
      BY <1>9, <3>1 DEF Settle
    <3>2. CASE nodeSM # "error"
      BY <1>9, <3>2 DEF Settle, Pends, InSettle
    <3> QED
      BY <3>1, <3>2
  <2>3. lastStateChange' \in [Nodes -> Nat]
    BY <1>9, <2>1 DEF Settle
  <2>4. /\ UNCHANGED <<lib, reference, sensorData, adc, at, sketch, above>>
        /\ nodeSM' = "none"
    BY <1>9 DEF Settle
  <2> QED
    BY <2>2, <2>3, <2>4 DEF lib, adc
<1>10. CASE Woken
  BY <1>10, AFirst DEF Woken, lib, nodes, adc, cpu
<1>11. CASE Acquire
  <2>1. {currConvNode', owner'} \subseteq 0..N /\ RES' \in Int
    BY <1>11, Inits DEF Acquire, adc
  <2> QED
    BY <1>11, <2>1 DEF Acquire, nodes
<1>12. CASE NotYet
  BY <1>12 DEF NotYet, lib, nodes, adc, cpu
<1>13. ASSUME NEW n \in sketch.nodes, LoadFlags(n)
      PROVE  Typed'
  BY <1>13 DEF LoadFlags, lib, nodes, adc, cpu
<1>14. ASSUME NEW n \in sketch.nodes, RequestRecal(n)
      PROVE  Typed'
  BY <1>14, SketchesAssumption DEF RequestRecal, lib, nodes, adc, cpu, SM
<1>15. ASSUME NEW n \in sketch.nodes, LpInit(n)
      PROVE  Typed'
  <2>1. n \in Nodes /\ n \in 0..N
    BY SketchesAssumption, ListAssumption DEF Nodes
  <2>2. {currConvNode', owner'} \subseteq 0..N /\ RES' \in Int
    BY <1>15, <2>1, Inits DEF LpInit
  <2>3. stateMachine' \in [Nodes -> SM]
    BY <1>15, <2>1 DEF LpInit, SM
  <2> QED
    BY <1>15, <2>1, <2>2, <2>3 DEF LpInit
<1>16. ASSUME NEW type \in Types, SetNextConversionType(type)
      PROVE  Typed'
  BY <1>16 DEF SetNextConversionType, lib, nodes, adc, cpu
<1>17. CASE Suspend
  BY <1>17 DEF Suspend, lib, nodes, adc, cpu
<1>18. CASE Resume
  BY <1>18 DEF Resume, lib, nodes, adc, cpu
<1>19. CASE AnalogRead
  BY <1>19, ListAssumption DEF AnalogRead, lib, nodes, adc, cpu, None
<1>20. CASE LpDisable
  BY <1>20 DEF LpDisable, lib, nodes, adc, cpu
<1>21. CASE LpForceDrift
  BY <1>21 DEF LpForceDrift, lib, nodes, adc, cpu
<1>22. CASE StoreFlags
  BY <1>22 DEF StoreFlags, lib, nodes, adc, cpu
<1>23. CASE AnalogResult
  BY <1>23 DEF AnalogResult, lib, nodes, adc, cpu
<1>24. CASE Return
  <2>1. at' \in Nodes
    BY <1>24, NodeAfter DEF Return
  <2> QED
    BY <1>24, <2>1 DEF Return, Typed, lib, nodes, adc
<1>25. CASE UNCHANGED vars
  BY <1>25 DEF vars, lib, nodes, adc, cpu
<1> QED
  BY <1>1, <1>2, <1>3, <1>4, <1>5, <1>6, <1>7, <1>8, <1>9, <1>10,
     <1>11, <1>12, <1>13, <1>14, <1>15, <1>16, <1>17, <1>18, <1>19, <1>20,
     <1>21, <1>22, <1>23, <1>24, <1>25
  DEF Next, Peripheral, Process, Calls

----------------------------------------------------------------------------
(* The filters *)

(* What concerns neither the filters nor the program.                      *)
LEMMA Elsewhere ==
    ASSUME Pends, Behind, Ahead,
           UNCHANGED <<stateMachine, lastStateChange, above, at, nodeSM, pc, back>>
    PROVE  (Pends /\ Behind /\ Ahead)'
  BY DEF Pends, InSettle, Behind, Ahead, AtRest, Counts, Counted

(* A step of the program while no node's next state waits.                 *)
LEMMA NobodyWaits ==
    ASSUME Pends, Behind, Ahead, nodeSM = "none", nodeSM' = "none", ~InSettle',
           UNCHANGED <<stateMachine, lastStateChange, above>>
    PROVE  (Pends /\ Behind /\ Ahead)'
  BY DEF Pends, Behind, Ahead, AtRest, Counts, Filters

(* A call of the sketch, from loop() or from a callback.                   *)
LEMMA Called ==
    ASSUME Pends, Behind, Ahead, Turn,
           UNCHANGED <<stateMachine, lastStateChange, above, at, nodeSM, back>>
    PROVE  (Pends /\ Behind /\ Ahead)'
  BY DEF Pends, Behind, Ahead, AtRest, Counts, Turn, NextTurn, Filters, Counted, InSettle

(* One that gives a node another state, which is no filter.                *)
LEMMA Restarted ==
    ASSUME Typed, Pends, Behind, Ahead, Turn, NEW n \in Nodes, NEW to \in SM \ Filters,
           stateMachine' = [stateMachine EXCEPT ![n] = to],
           \A m \in Nodes \ {n} : lastStateChange'[m] = lastStateChange[m],
           UNCHANGED <<above, at, nodeSM, back>>
    PROVE  (Pends /\ Behind /\ Ahead)'
<1>1. at \in Nodes /\ stateMachine \in [Nodes -> SM]
  BY DEF Typed
<1>2. pc' \in {"called", "left"} /\ pc \in {"loop", "callback"} /\ nodeSM \notin Filters
  BY DEF Turn, NextTurn, Pends, InSettle
<1>3. Pends'
  BY <1>1, <1>2 DEF Pends, Turn, NextTurn, InSettle, Filters
<1>4. Behind'
  BY <1>1 DEF Behind, AtRest, Counts, Filters
<1>5. Ahead'
  BY <1>2 DEF Ahead, Filters
<1> QED
  BY <1>3, <1>4, <1>5

LEMMA FInit == Init => Pends /\ Behind /\ Ahead
  BY DEF Init, Pends, Behind, Ahead, AtRest, Filters, InSettle

(* Judging a node: what it has counted so far, plus this measurement.      *)
LEMMA JudgeFilters ==
    ASSUME FInv, Judge
    PROVE  (Pends /\ Behind /\ Ahead)'
<1> USE DEF FInv
<1>1. at \in Nodes /\ at' = at /\ nodeSM = "none"
  BY DEF Judge, Typed, Pends, InSettle
<1>2. PICK next \in NextStates(at) :
        /\ nodeSM' = next
        /\ IF Detects(at, next) \/ Releases(at, next) \/ Calibrates(at, next)
           THEN CallBack("settle") ELSE pc' = "settle" /\ UNCHANGED back
  BY DEF Judge
<1>3. next \in SM \cup {"error"} /\ next # "none"
  BY <1>1, NextIsState DEF SM
<1>4. UNCHANGED <<stateMachine, lastStateChange>>
  BY DEF Judge
<1>5. Pends'
  BY <1>1, <1>2, <1>3, <1>4, NoFilterInCallback DEF Pends, CallBack, Filters, InSettle
<1>6. Behind'
  <2>1. \A n \in Nodes \ {at} : above'[n] = above[n]
    BY DEF Judge, Typed
  <2> QED
    BY <1>1, <1>2, <1>3, <1>4, <2>1 DEF Behind, AtRest, Counts
<1>7. Counted(at, next)' = Counted(at, next)
  BY <1>1, <1>4 DEF Counted
<1>8. Longest \in Nat /\ Counted(at, next) \in Nat
  BY <1>1, LongestIs, NextCount
<1>9. ASSUME next = "touch_in_flt"
      PROVE  Counts(above[at], Counted(at, next))'
  <2>1. above'[at] = Longer(above[at])
    BY <1>1, <1>9, IntoFilter DEF Judge, Typed
  <2>2. above[at] \in Nat /\ lastStateChange[at] \in Nat
    BY <1>1 DEF Typed
  <2>3. CASE stateMachine[at] # next
    BY <1>1, <1>7, <1>8, <2>1, <2>2, <2>3, NextCount DEF Counts, Longer, Longest
  <2>4. CASE stateMachine[at] = next
    <3>1. Counts(above[at], lastStateChange[at])
      BY <1>1, <1>9, <2>4 DEF Behind, AtRest
    <3>2. Counted(at, next) <= lastStateChange[at] + 1
      BY <1>1, <2>4, NextCount
    <3> QED
      BY <1>1, <1>7, <1>8, <2>1, <2>2, <3>1, <3>2 DEF Counts, Longer, Longest
  <2> QED
    BY <2>3, <2>4
<1>10. Ahead'
  BY <1>2, <1>9 DEF Ahead, Counts, Counted
<1> QED
  BY <1>5, <1>6, <1>10

(* Settling: what was promised is now counted.                             *)
LEMMA SettleFilters ==
    ASSUME FInv, Settle
    PROVE  (Pends /\ Behind /\ Ahead)'
<1> USE DEF FInv
<1>1. at \in Nodes /\ at' = at /\ nodeSM' = "none"
  BY DEF Settle, Typed
<1>2. Pends' /\ Ahead'
  BY <1>1 DEF Pends, Ahead, Filters, Settle, CallBack, InSettle
<1>3. UNCHANGED <<above>>
  BY DEF Settle
<1>4. CASE nodeSM = "error"
  <2>1. UNCHANGED <<stateMachine, lastStateChange>>
    BY <1>4 DEF Settle
  <2> QED
    BY <1>1, <1>2, <1>3, <1>4, <2>1 DEF Behind, AtRest, Counts, Pends, Filters
<1>5. CASE nodeSM # "error"
  <2>1. /\ stateMachine' = [stateMachine EXCEPT ![at] = nodeSM]
        /\ lastStateChange' = [lastStateChange EXCEPT ![at] = Counted(at, nodeSM)]
    BY <1>5 DEF Settle
  <2>2. stateMachine'[at] = nodeSM /\ lastStateChange'[at] = Counted(at, nodeSM)
    BY <1>1, <2>1 DEF Typed
  <2>3. \A n \in Nodes \ {at} :
            stateMachine'[n] = stateMachine[n] /\ lastStateChange'[n] = lastStateChange[n]
    BY <1>1, <2>1 DEF Typed
  <2>4. Behind'
    <3> SUFFICES ASSUME NEW n \in Nodes
                 PROVE  stateMachine'[n] = "touch_in_flt" =>
                               Counts(above[n], lastStateChange'[n])
      BY <1>3 DEF Behind, Counts
    <3>1. CASE n = at
      BY <2>2, <3>1 DEF Ahead
    <3>2. CASE n # at
      BY <2>3, <3>2 DEF Behind, AtRest
    <3> QED
      BY <3>1, <3>2
  <2> QED
    BY <1>2, <2>4
<1> QED
  BY <1>4, <1>5

(* Every step keeps the counts.                                            *)
LEMMA FStep ==
    ASSUME FInv, [Next]_vars
    PROVE  FInv'
<1> USE DEF FInv
<1> SUFFICES (Pends /\ Behind /\ Ahead)'
  BY TypedStep
<1>1. CASE Event
  BY <1>1, Elsewhere DEF Event, lib, nodes, adc, cpu
<1>2. CASE Convert
  BY <1>2, Elsewhere DEF Convert, lib, nodes, adc, cpu
<1>3. CASE Eoc
  BY <1>3, Elsewhere DEF Eoc, lib, nodes, adc, cpu
<1>4. CASE ProcessWake
  <2>1. nodeSM = "none"
    BY <1>4 DEF ProcessWake, Pends, InSettle, Running
  <2> QED
    BY <1>4, <2>1, NobodyWaits DEF ProcessWake, nodes, CallBack, cpu, InSettle
<1>5. CASE ProcessComplete
  <2>1. nodeSM = "none"
    BY <1>5 DEF ProcessComplete, Pends, InSettle, Running
  <2> QED
    BY <1>5, <2>1, NobodyWaits DEF ProcessComplete, nodes, CallBack, cpu, InSettle
<1>6. CASE ProcessNothing
  <2>1. nodeSM = "none"
    BY <1>6 DEF ProcessNothing, Pends, InSettle, Running
  <2> QED
    BY <1>6, <2>1, NobodyWaits DEF ProcessNothing, nodes, CallBack, cpu, InSettle
<1>7. CASE PassOver
  <2>1. nodeSM = "none"
    BY <1>7 DEF PassOver, Pends, InSettle
  <2> QED
    BY <1>7, <2>1, NobodyWaits DEF PassOver, nodes, NextNode, CallBack, Nodes, InSettle
<1>8. CASE Judge
  BY <1>8, JudgeFilters
<1>9. CASE Settle
  BY <1>9, SettleFilters
<1>10. CASE Woken
  <2>1. nodeSM = "none"
    BY <1>10 DEF Woken, Pends, InSettle
  <2> QED
    BY <1>10, <2>1, NobodyWaits DEF Woken, nodes, cpu, InSettle
<1>11. CASE Acquire
  <2>1. nodeSM = "none"
    BY <1>11 DEF Acquire, Pends, InSettle
  <2> QED
    BY <1>11, <2>1, NobodyWaits DEF Acquire, nodes, cpu, InSettle
<1>12. CASE NotYet
  <2>1. nodeSM = "none"
    BY <1>12 DEF NotYet, Pends, InSettle
  <2> QED
    BY <1>12, <2>1, NobodyWaits DEF NotYet, nodes, cpu, InSettle
<1>13. ASSUME NEW n \in sketch.nodes, LoadFlags(n)
      PROVE  (Pends /\ Behind /\ Ahead)'
  BY <1>13, Elsewhere DEF LoadFlags, nodes
<1>14. ASSUME NEW n \in sketch.nodes, RequestRecal(n)
      PROVE  (Pends /\ Behind /\ Ahead)'
  <2>1. n \in Nodes
    BY SketchesAssumption DEF Typed
  <2>2. "noinit_cal" \in SM \ Filters
    BY DEF SM, Filters
  <2>3. \A m \in Nodes \ {n} : lastStateChange'[m] = lastStateChange[m]
    BY <1>14 DEF RequestRecal, Typed
  <2> QED
    BY <1>14, <2>1, <2>2, <2>3, Restarted DEF RequestRecal, Call
<1>15. ASSUME NEW n \in sketch.nodes, LpInit(n)
      PROVE  (Pends /\ Behind /\ Ahead)'
  <2>1. n \in Nodes
    BY SketchesAssumption DEF Typed
  <2>2. "low_power" \in SM \ Filters
    BY DEF SM, Filters
  <2>3. \A m \in Nodes \ {n} : lastStateChange'[m] = lastStateChange[m]
    BY <1>15 DEF LpInit, Typed
  <2> QED
    BY <1>15, <2>1, <2>2, <2>3, Restarted DEF LpInit, Call
<1>16. ASSUME NEW type \in Types, SetNextConversionType(type)
      PROVE  (Pends /\ Behind /\ Ahead)'
  BY <1>16, Called DEF SetNextConversionType, Call, nodes
<1>17. CASE Suspend
  BY <1>17, Called DEF Suspend, Call, nodes
<1>18. CASE Resume
  BY <1>18, Called DEF Resume, Call, nodes
<1>19. CASE AnalogRead
  <2>1. nodeSM = "none"
    BY <1>19 DEF AnalogRead, Pends, InSettle
  <2> QED
    BY <1>19, <2>1, NobodyWaits DEF AnalogRead, nodes, cpu, InSettle
<1>20. CASE LpDisable
  BY <1>20, Called DEF LpDisable
<1>21. CASE LpForceDrift
  BY <1>21, Called DEF LpForceDrift, Call, nodes
<1>22. CASE StoreFlags
  <2>1. UNCHANGED <<stateMachine, lastStateChange, above, at, nodeSM, back>>
    BY <1>22 DEF StoreFlags
  <2>2. Behind'
    BY <2>1 DEF Behind, AtRest, Counts
  <2>3. Ahead'
    BY <2>1 DEF Ahead, Counts, Counted
  <2>4. Pends'
    BY <1>22, <2>1 DEF StoreFlags, NextTurn, Pends, InSettle, Filters
  <2> QED
    BY <2>2, <2>3, <2>4
<1>23. CASE AnalogResult
  <2>1. nodeSM = "none"
    BY <1>23 DEF AnalogResult, Pends, InSettle
  <2> QED
    BY <1>23, <2>1, NobodyWaits DEF AnalogResult, nodes, cpu, InSettle
<1>24. CASE Return
  <2>1. CASE back = "settle"
    BY <1>24, <2>1 DEF Return, nodes, Pends, Behind, Ahead, AtRest, Counts, Counted, InSettle
  <2>2. CASE back # "settle"
    <3>1. nodeSM = "none"
      BY <1>24, <2>2 DEF Return, Pends, InSettle
    <3> QED
      BY <1>24, <2>2, <3>1, NobodyWaits DEF Return, nodes, InSettle, NextNode, CallBack
  <2> QED
    BY <2>1, <2>2
<1>25. CASE UNCHANGED vars
  BY <1>25, Elsewhere DEF vars, lib, nodes, adc, cpu
<1> QED
  BY <1>1, <1>2, <1>3, <1>4, <1>5, <1>6, <1>7, <1>8, <1>9, <1>10,
     <1>11, <1>12, <1>13, <1>14, <1>15, <1>16, <1>17, <1>18, <1>19, <1>20,
     <1>21, <1>22, <1>23, <1>24, <1>25
  DEF Next, Peripheral, Process, Calls

----------------------------------------------------------------------------
(* Theorems *)

(* In every state a node that is in the filter has seen as many            *)
(* measurements that reach the threshold as its count says, and one more   *)
(* (ptc.c:626-634).                                                        *)
THEOREM FiltersCount == Spec => []FInv
<1>1. Init => FInv
  BY TypedInit, FInit DEF FInv
<1>2. FInv /\ [Next]_vars => FInv'
  BY FStep
<1> QED
  BY <1>1, <1>2, PTL DEF Spec

(* Hence a touch is reported only after more than touched_detect_nom       *)
(* measurements in a row that reach the threshold: for any nodes,          *)
(* readings, settings and calls.                                           *)
THEOREM TouchesFiltered == Spec => TouchIsFiltered
<1>1. ASSUME FInv, [Next]_vars, NEW n \in Nodes, Judge, at = n, Detects(n, nodeSM')
      PROVE  above[n] > touched_detect_nom
  <2>1. nodeSM' \in NextStates(n) /\ nodeSM = "none"
    BY <1>1 DEF Judge, FInv, Pends, InSettle
  <2>2. lastStateChange[n] \in Nat /\ above[n] \in Nat /\ touched_detect_nom \in Nat
    BY <1>1, SettingsAssumption DEF FInv, Typed
  <2>3. lastStateChange[n] >= touched_detect_nom
    BY <1>1, <2>1 DEF Detects, NextStates, Filtered
  <2>4. Counts(above[n], lastStateChange[n])
    BY <1>1, <2>1 DEF Detects, FInv, Behind, AtRest
  <2> QED
    BY <2>2, <2>3, <2>4, LongestIs DEF Counts
<1>2. FInv /\ [Next]_vars =>
          [\A n \in Nodes :
              Judge /\ at = n /\ Detects(n, nodeSM') => above[n] > touched_detect_nom]_vars
  BY <1>1
<1> QED
  BY <1>2, FiltersCount, PTL DEF Spec, TouchIsFiltered
----------------------------------------------------------------------------
(* Whose measurement it is *)

StateFlags == {"disabled", "low_power", "win_comp", "data_ready", "error"}
Interrupts == {"RESRDY", "WCMP"}
OwnTypes ==
    /\ state \in [Nodes -> SUBSET StateFlags]
    /\ copy = NoCopy \/ copy \in [node : Nodes, bits : SUBSET StateFlags]
    /\ CTRLA \in BOOLEAN /\ EVCTRL \in BOOLEAN /\ busy \in BOOLEAN /\ waking \in BOOLEAN
    /\ INTCTRL \subseteq Interrupts /\ INTFLAGS \subseteq Interrupts

(* While the library is at rest the ADC interrupts nobody; from the start  *)
(* of a conversion on, what it measures is for the current node.           *)
Resting == {"idle", "suspended", "conv_compl"}
Owned ==
    /\ ptc_lib_state \in Resting => INTCTRL = {}
    /\ ptc_lib_state \notin Resting => owner = currConvNode

(* Only low power's node has its flag, also across a load and a store.     *)
LowFlags ==
    /\ \A n \in Nodes : "low_power" \in state[n] => n = lowPowerNode
    /\ copy # NoCopy =>
          ("low_power" \in copy.bits <=> "low_power" \in state[copy.node])

(* When low power's node has been measured the ADC stands still until the  *)
(* program has dealt with it, and interrupts nobody once low power ends.   *)
Measured == {"conv_lp", "conv_wcmp"}
Still ==
    /\ ptc_lib_state \in Measured =>
          /\ INTFLAGS = {} /\ ~busy /\ ~CTRLA
          /\ lowPowerNode = None => INTCTRL = {}
          /\ lowPowerNode # None =>
                "low_power" \in state[lowPowerNode] \/ INTCTRL = {}
    /\ waking => ptc_lib_state \in Measured
    /\ pc = "woken" => waking

(* A node whose state is low power is low power's node, until it leaves    *)
(* this state.                                                             *)
LowState ==
    /\ \A n \in Nodes : stateMachine[n] = "low_power" =>
          n = lowPowerNode \/ (n = at /\ pc = "settle" /\ nodeSM \notin {"low_power", "error"})
    /\ nodeSM = "low_power" => at = lowPowerNode

OwnKept == OwnTypes /\ Owned /\ LowFlags /\ Still
OwnInv == OwnKept /\ LowState

(* A conversion that starts is the current node's; where no node is left   *)
(* the library rests.                                                      *)
LEMMA StartOwns ==
    ASSUME NEW first, NEW type, NEW flags, StartConversion(first, type, flags)
    PROVE  /\ CTRLA' \in BOOLEAN /\ busy' \in BOOLEAN
           /\ EVCTRL \in BOOLEAN => EVCTRL' \in BOOLEAN
           /\ \/ /\ Candidates(first, type, flags) = {}
                 /\ INTCTRL' = {} /\ ptc_lib_state' = "conv_compl"
              \/ Candidates(first, type, flags) # {} /\ owner' = currConvNode'
<1>1. CASE Candidates(first, type, flags) = {}
  BY <1>1 DEF StartConversion, Released
<1>2. CASE Candidates(first, type, flags) # {}
  <2> DEFINE n == Min(Candidates(first, type, flags))
  <2>1. /\ currConvNode' = n /\ owner' = n /\ CTRLA' = TRUE
        /\ EVCTRL' = (EVCTRL \/ OnEvent(n, flags)) /\ busy' = ~OnEvent(n, flags)
    BY <1>2 DEF StartConversion
  <2>2. OnEvent(n, flags) \in BOOLEAN
    BY DEF OnEvent
  <2> HIDE DEF n
  <2>3. QED
    BY <1>2, <2>1, <2>2
<1> QED
  BY <1>1, <1>2

LEMMA InitOwns ==
    ASSUME NEW type, NEW low, NEW flags, InitConversion(type, low, flags),
           ptc_lib_state \notin Occupied
    PROVE  /\ CTRLA' \in BOOLEAN /\ busy' \in BOOLEAN
           /\ EVCTRL \in BOOLEAN => EVCTRL' \in BOOLEAN
           /\ INTCTRL' \subseteq Interrupts /\ INTFLAGS' = {}
           /\ \/ INTCTRL' = {} /\ ptc_lib_state' = "conv_compl"
              \/ ptc_lib_state' \in {"event", "conv_prog"} /\ owner' = currConvNode'
<1>1. CASE low # None
  <2>1. /\ StartConversion(low, type, flags) /\ INTFLAGS' = {}
        /\ Candidates(low, type, flags) # {} =>
              INTCTRL' = {"WCMP"} /\ ptc_lib_state' = "event"
    BY <1>1 DEF InitConversion
  <2> QED
    BY <2>1, StartOwns DEF Interrupts
<1>2. CASE low = None
  <2>1. /\ StartConversion(1, type, flags) /\ INTFLAGS' = {}
        /\ Candidates(1, type, flags) # {} =>
              INTCTRL' = {"RESRDY"} /\ ptc_lib_state' = "conv_prog"
    BY <1>2 DEF InitConversion
  <2> QED
    BY <2>1, StartOwns DEF Interrupts
<1> QED
  BY <1>1, <1>2

LEMMA OwnElsewhere ==
    ASSUME OwnKept, pc' = "woken" => pc = "woken" \/ waking,
           UNCHANGED <<ptc_lib_state, lowPowerNode, currConvNode, state, adc, waking, copy>>
    PROVE  OwnKept'
  BY DEF OwnKept, OwnTypes, Owned, LowFlags, Still, adc

LEMMA OwnInitially == Init => OwnInv
  BY ListAssumption DEF Init, OwnInv, OwnKept, LowState, OwnTypes, Owned, LowFlags, Still, Resting,
     Measured, Interrupts, StateFlags

LEMMA OwnStep ==
    ASSUME Typed, OwnInv, [Next]_vars
    PROVE  OwnKept'
<1>0. OwnKept /\ LowState
  BY DEF OwnInv
<1> USE <1>0 DEF lib, nodes, cpu
<1>1. CASE Event
  BY <1>1 DEF Event, OwnKept, OwnTypes, Owned, LowFlags, Still
<1>2. CASE Convert
  <2>1. INTFLAGS' \subseteq Interrupts
    BY <1>2 DEF Convert, OwnKept, OwnTypes, Interrupts
  <2> QED
    BY <1>2, <2>1 DEF Convert, OwnKept, OwnTypes, Owned, LowFlags, Still
<1>3. CASE Eoc
  <2> DEFINE n == currConvNode
  <2>1. n \in Nodes /\ INTCTRL # {} /\ INTFLAGS # {}
    BY <1>3, ANode DEF Eoc, Typed, Pending
  <2>2. ptc_lib_state \notin Resting \cup Measured /\ ~waking /\ pc # "woken"
    BY <2>1 DEF OwnKept, Owned, Still
  <2>3. CASE "low_power" \in state[n]
    <3>1. n = lowPowerNode
      BY <2>1, <2>3 DEF OwnKept, LowFlags
    <3>2. PICK woken \in SUBSET {"win_comp"} :
            /\ state' = [state EXCEPT ![n] =
                           ((state[n] \cup {"data_ready"}) \ {"win_comp"}) \cup woken]
            /\ ptc_lib_state' \in Measured
            /\ CTRLA' = FALSE /\ busy' = FALSE
            /\ UNCHANGED <<currConvNode, EVCTRL, INTCTRL, owner>>
      BY <1>3, <2>3 DEF Eoc, Measured
    <3>3. /\ INTFLAGS' = {} /\ UNCHANGED <<lowPowerNode, copy, waking, pc>>
      BY <1>3 DEF Eoc
    <3>4. \A m \in Nodes : "low_power" \in state'[m] <=> "low_power" \in state[m]
      BY <2>1, <3>2 DEF OwnKept, OwnTypes
    <3>5. state' \in [Nodes -> SUBSET StateFlags]
      BY <2>1, <3>2 DEF OwnKept, OwnTypes, StateFlags
    <3>6. OwnTypes' /\ LowFlags'
      BY <3>2, <3>3, <3>4, <3>5 DEF OwnKept, OwnTypes, LowFlags
    <3>7. Owned'
      BY <2>2, <3>2 DEF OwnKept, Owned, Measured, Resting
    <3>8. lowPowerNode' # None /\ "low_power" \in state'[lowPowerNode']
      BY <1>3, <2>1, <2>3, <3>1, <3>3, <3>4 DEF Eoc
    <3>9. Still'
      BY <2>2, <3>2, <3>3, <3>8 DEF Still
    <3> QED
      BY <3>6, <3>7, <3>9 DEF OwnKept
  <2>4. CASE "low_power" \notin state[n]
    <3>1. /\ state' = [state EXCEPT ![n] = state[n] \cup {"data_ready"}]
          /\ StartConversion(n + 1, currConvType, state)
          /\ Candidates(n + 1, currConvType, state) # {} =>
                UNCHANGED <<INTCTRL, ptc_lib_state>>
          /\ INTFLAGS' = {} /\ UNCHANGED <<lowPowerNode, copy, waking, pc>>
      BY <1>3, <2>4 DEF Eoc
    <3>2. \A m \in Nodes : "low_power" \in state'[m] <=> "low_power" \in state[m]
      BY <2>1, <3>1 DEF OwnKept, OwnTypes
    <3>3. state' \in [Nodes -> SUBSET StateFlags]
      BY <2>1, <3>1 DEF OwnKept, OwnTypes, StateFlags
    <3>4. LowFlags'
      BY <3>1, <3>2 DEF OwnKept, OwnTypes, LowFlags
    <3>5. /\ CTRLA' \in BOOLEAN /\ busy' \in BOOLEAN /\ EVCTRL' \in BOOLEAN
          /\ \/ INTCTRL' = {} /\ ptc_lib_state' = "conv_compl"
             \/ owner' = currConvNode' /\ UNCHANGED <<INTCTRL, ptc_lib_state>>
      BY <3>1, StartOwns DEF OwnKept, OwnTypes
    <3>6. OwnTypes'
      BY <3>1, <3>3, <3>5 DEF OwnKept, OwnTypes
    <3>7. Owned' /\ Still'
      BY <2>2, <3>1, <3>5 DEF Owned, Still, Measured, Resting
    <3> QED
      BY <3>4, <3>6, <3>7 DEF OwnKept
  <2> QED
    BY <2>3, <2>4
<1>4. CASE ProcessWake
  BY <1>4 DEF ProcessWake, CallBack, adc, OwnKept, OwnTypes, Owned, LowFlags, Still, Measured
<1>5. CASE ProcessComplete
  BY <1>5 DEF ProcessComplete, adc, OwnKept, OwnTypes, Owned, LowFlags, Still, Measured,
     Resting, Completed
<1>6. CASE ProcessNothing \/ NotYet \/ PassOver \/ Settle \/ Return
  BY <1>6, OwnElsewhere DEF ProcessNothing, NotYet, PassOver, Settle, Return, NextNode,
     CallBack
<1>7. CASE Judge
  <2>1. /\ at \in Nodes /\ pc = "measurement" /\ pc' # "woken"
        /\ UNCHANGED <<ptc_lib_state, currConvNode, CTRLA, EVCTRL, INTCTRL, INTFLAGS,
                       busy, owner, waking, copy>>
    BY <1>7 DEF Judge, CallBack, Typed
  <2>2. PICK more \in SUBSET {"error"} :
            state' = [state EXCEPT ![at] = (state[at] \ {"data_ready"}) \cup more]
    BY <1>7 DEF Judge
  <2>3. \A m \in Nodes : "low_power" \in state'[m] <=> "low_power" \in state[m]
    BY <2>1, <2>2 DEF OwnKept, OwnTypes
  <2>4. state' \in [Nodes -> SUBSET StateFlags]
    BY <2>1, <2>2 DEF OwnKept, OwnTypes, StateFlags
  <2>5. lowPowerNode' = IF Leaves(at) THEN None ELSE lowPowerNode
    BY <1>7 DEF Judge
  <2>6. OwnTypes' /\ Owned'
    BY <2>1, <2>4, <1>0 DEF OwnKept, OwnTypes, Owned
  <2>7. Leaves(at) => at = lowPowerNode /\ "low_power" \notin state[at]
    BY <2>1, <1>0 DEF LowState, Leaves
  <2>8. LowFlags'
    BY <2>1, <2>3, <2>5, <2>7, <1>0 DEF OwnKept, OwnTypes, LowFlags
  <2>9. lowPowerNode # None => lowPowerNode \in Nodes
    BY ANode DEF Typed
  <2>10. Still'
    BY <2>1, <2>3, <2>5, <2>7, <2>9, <1>0 DEF OwnKept, Still
  <2> QED
    BY <2>6, <2>8, <2>10 DEF OwnKept
<1>8. CASE Woken
  BY <1>8 DEF Woken, OwnKept, OwnTypes, Owned, LowFlags, Still, Measured, Resting, Interrupts
<1>9. CASE Acquire
  <2>1. CASE ptc_lib_state = "idle"
    <3>1. InitConversion(AcquiredType, lowPowerNode, state) /\ pc' = "loop"
          /\ UNCHANGED <<lowPowerNode, state, waking, copy>>
      BY <1>9, <2>1 DEF Acquire
    <3>2. ptc_lib_state \notin Occupied /\ ~waking
      BY <2>1 DEF Occupied, OwnKept, Still, Measured
    <3> QED
      BY <3>1, <3>2, InitOwns
      DEF OwnKept, OwnTypes, Owned, LowFlags, Still, Measured, Resting
  <2>2. CASE ptc_lib_state # "idle"
    BY <1>9, <2>2, OwnElsewhere DEF Acquire
  <2> QED
    BY <2>1, <2>2
<1>10. ASSUME NEW n \in sketch.nodes, LoadFlags(n)
       PROVE  OwnKept'
  <2>1. n \in Nodes
    BY SketchesAssumption DEF Typed
  <2>2. /\ copy' \in [node : Nodes, bits : SUBSET StateFlags]
        /\ copy'.node = n /\ ("low_power" \in copy'.bits <=> "low_power" \in state[n])
    BY <1>10, <2>1 DEF LoadFlags, Enabled, Disabled, OwnKept, OwnTypes, StateFlags
  <2> QED
    BY <1>10, <2>2 DEF LoadFlags, adc, OwnKept, OwnTypes, Owned, LowFlags, Still
<1>11. ASSUME NEW n \in sketch.nodes, RequestRecal(n)
       PROVE  OwnKept'
  BY <1>11, OwnElsewhere DEF RequestRecal, Call, Turn, NextTurn
<1>12. ASSUME NEW n \in sketch.nodes, LpInit(n)
       PROVE  OwnKept'
  <2>0. n \in Nodes /\ n # None
    BY SketchesAssumption, ListAssumption DEF Typed, Nodes, None
  <2>1. /\ n \in Nodes /\ n # None /\ lowPowerNode = None /\ lowPowerNode' = n
        /\ copy = NoCopy /\ copy' = NoCopy /\ waking' = waking /\ pc' # "woken"
        /\ state' = [state EXCEPT ![n] = state[n] \cup {"low_power"}]
        /\ InitConversion(Type[n], n, state')
    BY <1>12, <2>0 DEF LpInit, Call, Turn, NextTurn
  <2>2. state' \in [Nodes -> SUBSET StateFlags]
    <3>1. state[n] \cup {"low_power"} \in SUBSET StateFlags
      BY <2>0 DEF OwnKept, OwnTypes, StateFlags
    <3> QED
      BY <2>1, <3>1 DEF OwnKept, OwnTypes
  <2>3. LowFlags' /\ "low_power" \in state'[n]
    <3>1. \A m \in Nodes : m # None
      BY ListAssumption DEF Nodes, None
    <3>2. \A m \in Nodes : "low_power" \notin state[m]
      BY <2>1, <3>1 DEF OwnKept, LowFlags
    <3>3. \A m \in Nodes : "low_power" \in state'[m] <=> m = n
      BY <2>1, <3>2 DEF OwnKept, OwnTypes
    <3> QED
      BY <2>1, <3>3 DEF LowFlags
  <2>4. CASE ptc_lib_state \in Occupied
    <3>1. UNCHANGED <<ptc_lib_state, currConvNode, adc>>
      BY <2>1, <2>4 DEF InitConversion
    <3> QED
      BY <2>1, <2>2, <2>3, <3>1 DEF adc, OwnKept, OwnTypes, Owned, Still
  <2>5. CASE ptc_lib_state \notin Occupied
    <3>1. ~waking
      BY <2>5 DEF Occupied, OwnKept, Still, Measured
    <3>2. OwnTypes' /\ Owned'
      BY <2>1, <2>2, <2>5, InitOwns DEF OwnKept, OwnTypes, Owned, Resting
    <3>3. Still'
      BY <2>1, <2>5, <3>1, InitOwns DEF Still, Measured
    <3> QED
      BY <2>3, <3>2, <3>3 DEF OwnKept
  <2> QED
    BY <2>4, <2>5
<1>13. ASSUME NEW type \in Types, SetNextConversionType(type)
       PROVE  OwnKept'
  BY <1>13, OwnElsewhere DEF SetNextConversionType, Call, Turn, NextTurn
<1>14. CASE Suspend \/ Resume
  <2>1. /\ {ptc_lib_state, ptc_lib_state'} \subseteq {"idle", "suspended"}
        /\ UNCHANGED <<lowPowerNode, currConvNode, state, adc, waking, copy>>
        /\ pc' # "woken"
    BY <1>14 DEF Suspend, Resume, Call, Turn, NextTurn
  <2> QED
    BY <2>1 DEF adc, OwnKept, OwnTypes, Owned, LowFlags, Still, Measured, Resting
<1>15. CASE AnalogRead \/ AnalogResult
  <2>1. CASE AnalogRead
    BY <2>1 DEF AnalogRead, OwnKept, OwnTypes, Owned, LowFlags, Still, Measured, Resting
  <2>2. CASE AnalogResult
    BY <2>2 DEF AnalogResult, OwnKept, OwnTypes, Owned, LowFlags, Still
  <2> QED
    BY <1>15, <2>1, <2>2
<1>16. CASE LpDisable
  <2>1. /\ lowPowerNode \in Nodes /\ INTCTRL' = {} /\ EVCTRL' = FALSE
        /\ copy = NoCopy /\ copy' = NoCopy /\ pc' # "woken"
        /\ state' = [state EXCEPT ![lowPowerNode] = @ \ {"low_power", "win_comp"}]
        /\ UNCHANGED <<ptc_lib_state, lowPowerNode, currConvNode, CTRLA, INTFLAGS, busy,
                       owner, waking>>
    BY <1>16, ANode DEF LpDisable, Turn, NextTurn, Typed
  <2>2. state' \in [Nodes -> SUBSET StateFlags]
    BY <2>1 DEF OwnKept, OwnTypes
  <2>3. LowFlags'
    BY <2>1 DEF OwnKept, OwnTypes, LowFlags
  <2> QED
    BY <2>1, <2>2, <2>3 DEF OwnKept, OwnTypes, Owned, Still
<1>17. CASE LpForceDrift
  BY <1>17 DEF LpForceDrift, Call, Turn, NextTurn, OwnKept, OwnTypes, Owned, LowFlags,
     Still, Interrupts
<1>18. CASE StoreFlags
  <2>1. /\ copy \in [node : Nodes, bits : SUBSET StateFlags] /\ copy # NoCopy
        /\ copy' = NoCopy /\ pc' # "woken"
        /\ state' = [state EXCEPT ![copy.node] = copy.bits]
        /\ UNCHANGED <<ptc_lib_state, lowPowerNode, currConvNode, adc, waking>>
    BY <1>18 DEF StoreFlags, NextTurn, OwnKept, OwnTypes
  <2>2. state' \in [Nodes -> SUBSET StateFlags]
    BY <2>1 DEF OwnKept, OwnTypes
  <2>3. \A m \in Nodes : "low_power" \in state'[m] <=> "low_power" \in state[m]
    BY <2>1 DEF OwnKept, OwnTypes, LowFlags
  <2>4. lowPowerNode # None => lowPowerNode \in Nodes
    BY ANode DEF Typed
  <2> QED
    BY <2>1, <2>2, <2>3, <2>4 DEF adc, OwnKept, OwnTypes, Owned, LowFlags, Still
<1>19. CASE UNCHANGED vars
  BY <1>19, OwnElsewhere DEF vars
<1> QED
  BY <1>1, <1>2, <1>3, <1>4, <1>5, <1>6, <1>7, <1>8, <1>9, <1>10, <1>11, <1>12, <1>13,
     <1>14, <1>15, <1>16, <1>17, <1>18, <1>19
  DEF Next, Peripheral, Process, Calls

(* The state of low power is low power's node's alone.                     *)
LEMMA LowStateStep ==
    ASSUME Typed, Pends, LowFlags, LowState, [Next]_vars
    PROVE  LowState'
<1> USE DEF lib, nodes, cpu
<1>1. CASE Judge
  <2>1. /\ pc = "measurement" /\ at \in Nodes /\ at' = at /\ nodeSM' \in NextStates(at)
        /\ stateMachine' = stateMachine
        /\ lowPowerNode' = IF Leaves(at) THEN None ELSE lowPowerNode
    BY <1>1 DEF Judge, Typed
  <2>2. at # None /\ stateMachine[at] \in SM
    BY <2>1, ListAssumption DEF Nodes, None, Typed
  <2>3. ASSUME Leaves(at)
        PROVE  /\ at = lowPowerNode /\ pc' = "settle"
               /\ nodeSM' \notin {"low_power", "error"}
    <3>1. nodeSM' \in {"touch_detect", "no_touch"}
      BY <2>1, <2>3 DEF NextStates, Leaves
    <3>2. pc' = "settle"
      BY <1>1, <2>3 DEF Judge, Leaves, Detects, Releases, Calibrates
    <3> QED
      BY <2>1, <2>3, <3>1, <3>2 DEF LowState, Leaves
  <2>4. ASSUME nodeSM' = "low_power"
        PROVE  at = lowPowerNode /\ ~Leaves(at)
    <3>1. "low_power" \in state[at]
      BY <2>1, <2>2, <2>4 DEF NextStates, Calibrated, SM
    <3> QED
      BY <2>1, <3>1 DEF LowFlags, Leaves
  <2> QED
    BY <2>1, <2>3, <2>4 DEF LowState
<1>2. CASE Settle
  <2>1. /\ pc = "settle" /\ nodeSM' = "none" /\ lowPowerNode' = lowPowerNode
        /\ \A n \in Nodes : stateMachine'[n] =
               IF n = at /\ nodeSM # "error" THEN nodeSM ELSE stateMachine[n]
    BY <1>2 DEF Settle, Typed
  <2> QED
    BY <2>1 DEF LowState
<1>3. ASSUME NEW n \in sketch.nodes, RequestRecal(n)
      PROVE  LowState'
  <2>1. /\ pc # "settle" /\ UNCHANGED <<lowPowerNode, at, nodeSM>>
        /\ stateMachine' = [stateMachine EXCEPT ![n] = "noinit_cal"]
    BY <1>3 DEF RequestRecal, Call, Turn, NextTurn
  <2> QED
    BY <2>1 DEF LowState, Typed
<1>4. ASSUME NEW n \in sketch.nodes, LpInit(n)
      PROVE  LowState'
  <2>1. /\ pc # "settle" /\ UNCHANGED <<at, nodeSM>>
        /\ lowPowerNode = None /\ lowPowerNode' = n
        /\ stateMachine' = [stateMachine EXCEPT ![n] = "low_power"]
    BY <1>4 DEF LpInit, Call, Turn, NextTurn
  <2>2. n # None /\ at # None /\ \A m \in Nodes : m # None
    BY SketchesAssumption, ListAssumption DEF Typed, Nodes, None
  <2> QED
    BY <2>1, <2>2 DEF LowState, Typed
<1>5. CASE UNCHANGED <<lowPowerNode, stateMachine, nodeSM>> /\ pc # "settle" /\ nodeSM = "none"
  BY <1>5 DEF LowState
<1>6. CASE ProcessWake \/ ProcessComplete \/ ProcessNothing \/ PassOver \/ Woken
           \/ Acquire \/ NotYet
  <2>1. pc # "settle" /\ nodeSM = "none" /\ UNCHANGED <<lowPowerNode, stateMachine, nodeSM>>
    BY <1>6 DEF ProcessWake, ProcessComplete, ProcessNothing, PassOver, Woken, Acquire,
       NotYet, Running, Pends, InSettle
  <2> QED
    BY <1>5, <2>1
<1>7. CASE UNCHANGED <<lowPowerNode, stateMachine, nodeSM, at>> /\ (pc = "settle" => pc' = pc)
  BY <1>7 DEF LowState
<1>8. CASE Event \/ Convert \/ Eoc \/ StoreFlags \/ AnalogResult \/ AnalogRead
           \/ Suspend \/ Resume \/ LpDisable \/ LpForceDrift \/ UNCHANGED vars
  BY <1>7, <1>8 DEF Event, Convert, Eoc, StoreFlags, AnalogResult, AnalogRead, Suspend,
     Resume, LpDisable, LpForceDrift, NextTurn, Turn, Call, vars
<1>9. ASSUME NEW n \in sketch.nodes, LoadFlags(n)
      PROVE  LowState'
  BY <1>7, <1>9 DEF LoadFlags
<1>10. ASSUME NEW type \in Types, SetNextConversionType(type)
       PROVE  LowState'
  BY <1>7, <1>10 DEF SetNextConversionType, Call, Turn, NextTurn
<1>11. CASE Return
  <2>1. CASE back \in {"next", "wake", "acquire"}
    <3>1. pc # "settle" /\ nodeSM = "none" /\ UNCHANGED <<lowPowerNode, stateMachine, nodeSM>>
      BY <1>11, <2>1 DEF Return, Pends, InSettle
    <3> QED
      BY <1>5, <3>1
  <2>2. CASE back \notin {"next", "wake", "acquire"}
    BY <1>7, <1>11, <2>2 DEF Return
  <2> QED
    BY <2>1, <2>2
<1> QED
  BY <1>1, <1>2, <1>3, <1>4, <1>6, <1>8, <1>9, <1>10, <1>11
  DEF Next, Peripheral, Process, Calls

(* Whatever the sketch does, the ADC measures for the current node, or     *)
(* interrupts nobody.                                                      *)
LEMMA OwnAlways == Spec => []OwnInv
<1>1. OwnInv /\ FInv /\ [Next]_vars => OwnInv'
  BY OwnStep, LowStateStep DEF FInv, OwnInv, OwnKept
<1> QED
  BY OwnInitially, <1>1, FiltersCount, PTL DEF Spec

(* The interrupt of the ADC takes the result of the node whose conversion  *)
(* the library has started, also around a sketch's own conversions.        *)
THEOREM MeasuresItsNode == Spec => OwnMeasurement
<1>1. ASSUME OwnInv, Eoc PROVE owner = currConvNode
  BY <1>1 DEF Eoc, Pending, OwnInv, OwnKept, Owned
<1>2. OwnInv /\ [Next]_vars => [Eoc => owner = currConvNode]_vars
  BY <1>1
<1> QED
  BY OwnAlways, <1>2, PTL DEF Spec, OwnMeasurement
=============================================================================
