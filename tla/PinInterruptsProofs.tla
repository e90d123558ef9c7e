------------------------ MODULE PinInterruptsProofs ------------------------
(***************************************************************************)
(* Proofs about PinInterrupts on PORTA, where the flag that                *)
(* detachInterrupt() clears is the pin's: for every set of pins and of     *)
(* functions, and for late and early clearing.                             *)
(***************************************************************************)
EXTENDS PinInterrupts, TLAPS

Attaching == pc \in {"atLow", "atHigh", "atSense"}
Detaching == pc \in {"dtFlag", "dtLow", "dtHigh"}

(* What a call of the program has done, and what it still has to do.       *)
AttachStep ==
    /\ Attaching => /\ func \in Funcs
                    /\ attached[pin] = NULL \/ ~ie
                    /\ pin \in isc <=> attached[pin] # NULL
    /\ pc = "atLow" => intFunc[pin] = Bytes(attached[pin])
    /\ pc = "atHigh" => intFunc[pin].lo = func
    /\ pc = "atSense" => intFunc[pin] = Bytes(func)
DetachStep ==
    /\ Detaching => attached[pin] = NULL /\ pin \notin isc \cup unheard
    /\ pc \in {"dtLow", "dtHigh"} => pin \notin INTFLAGS \cup left
    /\ pc = "dtHigh" => intFunc[pin].lo = NULL

(* A pending edge is for the pin's function; only between the first two    *)
(* steps of detachInterrupt() is it for one the pin no longer has.         *)
Owned ==
    \A p \in INTFLAGS \cup left :
        /\ edgeFor[p] # NULL
        /\ \/ edgeFor[p] = attached[p]
           \/ pc = "dtFlag" /\ pin = p /\ intFunc[p] = Bytes(edgeFor[p])

(* The handler runs with interrupts on, and has seen nothing before.       *)
HandlerInv ==
    /\ handling => ie
    /\ ~handling => flags = {}

(* Whatever flag the loop has come to, the pin's function has been called, *)
(* so that what is cleared late has been heard once.                       *)
HeardInv == flags \ left \subseteq heard

(* Cleared early, no flag takes an edge with it that no function heard.    *)
Kept == clear = "early" => NotForgotten

IInv ==
    /\ TypeOK /\ ArmedIffAttached /\ AttachStep /\ DetachStep /\ Owned
    /\ HandlerInv /\ HeardInv /\ Kept

----------------------------------------------------------------------------
(* Lemmas *)

(* The types are inductive by themselves, on every port.                   *)
LEMMA TypeStep ==
    ASSUME TypeOK, [Next]_vars
    PROVE  TypeOK'
<1> USE FuncAssumption DEF build, table, call, handler, history,
         TypeOK, Labels, Pointers, Bytes, Null
<1>1. CASE EnablePort
  BY <1>1 DEF EnablePort
<1>2. CASE SetInterrupts
  BY <1>2 DEF SetInterrupts
<1>3. ASSUME NEW p \in Pins, NEW f \in Funcs, AttachInterrupt(p, f)
      PROVE  TypeOK'
  BY <1>3 DEF AttachInterrupt, Goto
<1>4. ASSUME NEW p \in Pins, DetachInterrupt(p)
      PROVE  TypeOK'
  BY <1>4 DEF DetachInterrupt, Goto
<1>5. ASSUME NEW p \in Pins, Edge(p)
      PROVE  TypeOK'
  BY <1>5 DEF Edge
<1>6. CASE AttachLow
  BY <1>6 DEF AttachLow, Goto, StoreLow
<1>7. CASE AttachHigh
  BY <1>7 DEF AttachHigh, Goto, StoreHigh
<1>8. CASE AttachSense
  BY <1>8 DEF AttachSense, Goto
<1>9. CASE DetachFlag
  BY <1>9 DEF DetachFlag, Goto, FlagClear
<1>10. CASE DetachLow
  BY <1>10 DEF DetachLow, Goto, StoreLow
<1>11. CASE DetachHigh
  BY <1>11 DEF DetachHigh, Goto, StoreHigh
<1>12. CASE Handler
  BY <1>12 DEF Handler, Interrupt, Seen, ClearEarly
<1>13. ASSUME NEW p \in Pins, CallFunction(p)
      PROVE  TypeOK'
  <2>1. UNCHANGED <<build, enabled, ie, call, handling, flags>>
    BY <1>13 DEF CallFunction
  <2>2. left' \subseteq flags /\ unheard' \subseteq Pins /\ heard' \subseteq Pins
    BY <1>13 DEF CallFunction
  <2>3. isc' \subseteq Pins /\ INTFLAGS' \subseteq Pins
    BY <1>13 DEF CallFunction, FlagClear
  <2>4. /\ intFunc' \in [Pins -> Pointers]
        /\ attached' \in [Pins -> Funcs \cup {NULL}]
        /\ edgeFor' \in [Pins -> Funcs \cup {NULL}]
    <3>1. CASE intFunc[p].lo \in OneShots
      <4>1. /\ intFunc' = [intFunc EXCEPT ![p] = Null]
            /\ attached' = [attached EXCEPT ![p] = NULL]
            /\ edgeFor' = [edgeFor EXCEPT ![p] = NULL]
        BY <1>13, <3>1 DEF CallFunction
      <4>2. Null \in Pointers
        OBVIOUS
      <4> QED
        BY <4>1, <4>2
    <3>2. CASE intFunc[p].lo \notin OneShots
      BY <1>13, <3>2 DEF CallFunction
    <3> QED
      BY <3>1, <3>2
  <2> QED
    BY <2>1, <2>2, <2>3, <2>4
<1>14. CASE EndHandler
  BY <1>14 DEF EndHandler, ClearSeen
<1>15. CASE UNCHANGED vars
  BY <1>15 DEF vars
<1> QED
  BY <1>1, <1>2, <1>3, <1>4, <1>5, <1>6, <1>7, <1>8,
     <1>9, <1>10, <1>11, <1>12, <1>13, <1>14, <1>15
  DEF Next, Attach, Detach, Edges, InCall, InHandler

(* On PORTA the address that detachInterrupt() writes to is the flags'.    *)
LEMMA ClearsFlag == ASSUME port = 0, NEW p
                    PROVE  FlagClear(p) = INTFLAGS \ {p}
  BY DEF FlagClear, FlagAddress, VPORTINTFLAGS

(* The function that is called is whole, and the one the edge is for; its  *)
(* pin is not in the middle of attachInterrupt().                          *)
LEMMA CalledForItsEdge ==
    ASSUME IInv, NEW p \in Pins, CallFunction(p)
    PROVE  /\ intFunc[p] = Bytes(edgeFor[p]) /\ edgeFor[p] # NULL
           /\ handling /\ p \in left /\ ~(Attaching /\ pin = p)
<1>1. handling /\ p \in left
  BY DEF CallFunction, Lowest
<1>2. edgeFor[p] # NULL
  BY <1>1 DEF IInv, Owned
<1>3. CASE edgeFor[p] = attached[p]
  BY <1>1, <1>2, <1>3 DEF IInv, TypeOK, Labels, HandlerInv, ArmedIffAttached,
     AttachStep, DetachStep, Attaching, Detaching
<1>4. CASE pc = "dtFlag" /\ pin = p /\ intFunc[p] = Bytes(edgeFor[p])
  BY <1>1, <1>2, <1>4 DEF Attaching
<1> QED
  BY <1>1, <1>3, <1>4 DEF IInv, Owned

(* What the call changes: a one-shot function leaves its pin detached.     *)
LEMMA CallEffect ==
    ASSUME port = 0, IInv, NEW p \in Pins, CallFunction(p)
    PROVE  /\ left' = left \ {p} /\ unheard' = unheard \ {p}
           /\ heard' = heard \cup {p}
           /\ UNCHANGED <<build, enabled, ie, call, handling, flags>>
           /\ \/ UNCHANGED <<isc, INTFLAGS, intFunc, attached, edgeFor>>
              \/ /\ isc' = isc \ {p} /\ INTFLAGS' = INTFLAGS \ {p}
                 /\ intFunc' = [intFunc EXCEPT ![p] = Null]
                 /\ attached' = [attached EXCEPT ![p] = NULL]
                 /\ edgeFor' = [edgeFor EXCEPT ![p] = NULL]
<1>1. intFunc[p] = Bytes(edgeFor[p]) /\ edgeFor[p] # NULL
  BY CalledForItsEdge
<1>2. intFunc[p] # Null
  BY <1>1 DEF Bytes, Null
<1> QED
  BY <1>2, ClearsFlag DEF CallFunction

(* Sensing, pointer and function agree on every pin no call is about.      *)
LEMMA ArmedStep ==
    ASSUME port = 0, IInv, TypeOK', [Next]_vars
    PROVE  ArmedIffAttached'
<1> USE FuncAssumption DEF build, table, call, handler, history,
         IInv, TypeOK, Labels, Pointers, Bytes, Null, ArmedIffAttached,
         AttachStep, DetachStep, Attaching, Detaching
<1>1. CASE EnablePort
  BY <1>1 DEF EnablePort
<1>2. CASE SetInterrupts
  BY <1>2 DEF SetInterrupts
<1>3. ASSUME NEW p \in Pins, NEW f \in Funcs, AttachInterrupt(p, f)
      PROVE  ArmedIffAttached'
  BY <1>3 DEF AttachInterrupt, Goto
<1>4. ASSUME NEW p \in Pins, DetachInterrupt(p)
      PROVE  ArmedIffAttached'
  BY <1>4 DEF DetachInterrupt, Goto
<1>5. ASSUME NEW p \in Pins, Edge(p)
      PROVE  ArmedIffAttached'
  BY <1>5 DEF Edge
<1>6. CASE AttachLow
  BY <1>6 DEF AttachLow, Goto, StoreLow
<1>7. CASE AttachHigh
  BY <1>7 DEF AttachHigh, Goto, StoreHigh
<1>8. CASE AttachSense
  BY <1>8 DEF AttachSense, Goto
<1>9. CASE DetachFlag
  BY <1>9, ClearsFlag DEF DetachFlag, Goto
<1>10. CASE DetachLow
  BY <1>10 DEF DetachLow, Goto, StoreLow
<1>11. CASE DetachHigh
  BY <1>11 DEF DetachHigh, Goto, StoreHigh
<1>12. CASE Handler
  BY <1>12 DEF Handler, Interrupt, Seen, ClearEarly
<1>13. ASSUME NEW p \in Pins, CallFunction(p)
      PROVE  ArmedIffAttached'
  BY <1>13, CalledForItsEdge, CallEffect
<1>14. CASE EndHandler
  BY <1>14 DEF EndHandler, ClearSeen
<1>15. CASE UNCHANGED vars
  BY <1>15 DEF vars
<1> QED
  BY <1>1, <1>2, <1>3, <1>4, <1>5, <1>6, <1>7, <1>8,
     <1>9, <1>10, <1>11, <1>12, <1>13, <1>14, <1>15
  DEF Next, Attach, Detach, Edges, InCall, InHandler

(* Nothing disturbs attachInterrupt(): its pin cannot interrupt, or no     *)
(* interrupt comes.                                                        *)
LEMMA AttachStepKept ==
    ASSUME port = 0, IInv, TypeOK', [Next]_vars
    PROVE  AttachStep'
<1> USE DEF build, table, call, handler, history,
         IInv, TypeOK, Labels, Pointers, Bytes, Null, ArmedIffAttached,
         AttachStep, Attaching
<1>1. CASE EnablePort
  BY <1>1 DEF EnablePort
<1>2. CASE SetInterrupts
  BY <1>2 DEF SetInterrupts
<1>3. ASSUME NEW p \in Pins, NEW f \in Funcs, AttachInterrupt(p, f)
      PROVE  AttachStep'
  BY <1>3 DEF AttachInterrupt, Goto
<1>4. ASSUME NEW p \in Pins, DetachInterrupt(p)
      PROVE  AttachStep'
  BY <1>4 DEF DetachInterrupt, Goto
<1>5. ASSUME NEW p \in Pins, Edge(p)
      PROVE  AttachStep'
  BY <1>5 DEF Edge
<1>6. CASE AttachLow
  BY <1>6 DEF AttachLow, Goto, StoreLow
<1>7. CASE AttachHigh
  BY <1>7 DEF AttachHigh, Goto, StoreHigh
<1>8. CASE AttachSense
  BY <1>8 DEF AttachSense, Goto
<1>9. CASE DetachFlag
  BY <1>9, ClearsFlag DEF DetachFlag, Goto
<1>10. CASE DetachLow
  BY <1>10 DEF DetachLow, Goto, StoreLow
<1>11. CASE DetachHigh
  BY <1>11 DEF DetachHigh, Goto, StoreHigh
<1>12. CASE Handler
  BY <1>12 DEF Handler, Interrupt, Seen, ClearEarly
<1>13. ASSUME NEW p \in Pins, CallFunction(p)
      PROVE  AttachStep'
  BY <1>13, CalledForItsEdge, CallEffect
<1>14. CASE EndHandler
  BY <1>14 DEF EndHandler, ClearSeen
<1>15. CASE UNCHANGED vars
  BY <1>15 DEF vars
<1> QED
  BY <1>1, <1>2, <1>3, <1>4, <1>5, <1>6, <1>7, <1>8,
     <1>9, <1>10, <1>11, <1>12, <1>13, <1>14, <1>15
  DEF Next, Attach, Detach, Edges, InCall, InHandler

(* Nothing disturbs detachInterrupt(): once its flag is cleared the pin    *)
(* has no other.                                                           *)
LEMMA DetachStepKept ==
    ASSUME port = 0, IInv, TypeOK', [Next]_vars
    PROVE  DetachStep'
<1> USE DEF build, table, call, handler, history,
         IInv, TypeOK, Labels, Pointers, Bytes, Null, DetachStep, Detaching,
         HandlerInv
<1>1. CASE EnablePort
  BY <1>1 DEF EnablePort
<1>2. CASE SetInterrupts
  BY <1>2 DEF SetInterrupts
<1>3. ASSUME NEW p \in Pins, NEW f \in Funcs, AttachInterrupt(p, f)
      PROVE  DetachStep'
  BY <1>3 DEF AttachInterrupt, Goto
<1>4. ASSUME NEW p \in Pins, DetachInterrupt(p)
      PROVE  DetachStep'
  BY <1>4 DEF DetachInterrupt, Goto
<1>5. ASSUME NEW p \in Pins, Edge(p)
      PROVE  DetachStep'
  BY <1>5 DEF Edge
<1>6. CASE AttachLow
  BY <1>6 DEF AttachLow, Goto, StoreLow
<1>7. CASE AttachHigh
  BY <1>7 DEF AttachHigh, Goto, StoreHigh
<1>8. CASE AttachSense
  BY <1>8 DEF AttachSense, Goto
<1>9. CASE DetachFlag
  BY <1>9, ClearsFlag DEF DetachFlag, Goto
<1>10. CASE DetachLow
  BY <1>10 DEF DetachLow, Goto, StoreLow
<1>11. CASE DetachHigh
  BY <1>11 DEF DetachHigh, Goto, StoreHigh
<1>12. CASE Handler
  BY <1>12 DEF Handler, Interrupt, Seen, ClearEarly
<1>13. ASSUME NEW p \in Pins, CallFunction(p)
      PROVE  DetachStep'
  BY <1>13, CalledForItsEdge, CallEffect
<1>14. CASE EndHandler
  BY <1>14 DEF EndHandler, ClearSeen
<1>15. CASE UNCHANGED vars
  BY <1>15 DEF vars
<1> QED
  BY <1>1, <1>2, <1>3, <1>4, <1>5, <1>6, <1>7, <1>8,
     <1>9, <1>10, <1>11, <1>12, <1>13, <1>14, <1>15
  DEF Next, Attach, Detach, Edges, InCall, InHandler

(* A pending edge stays with the function it is for.                       *)
LEMMA OwnedStep ==
    ASSUME port = 0, IInv, TypeOK', [Next]_vars
    PROVE  Owned'
<1> USE FuncAssumption DEF build, table, call, handler, history,
         IInv, TypeOK, Labels, Pointers, Bytes, Null, Owned,
         ArmedIffAttached, HandlerInv, AttachStep, DetachStep, Attaching, Detaching
<1>1. CASE EnablePort
  BY <1>1 DEF EnablePort
<1>2. CASE SetInterrupts
  BY <1>2 DEF SetInterrupts
<1>3. ASSUME NEW p \in Pins, NEW f \in Funcs, AttachInterrupt(p, f)
      PROVE  Owned'
  BY <1>3 DEF AttachInterrupt, Goto
<1>4. ASSUME NEW p \in Pins, DetachInterrupt(p)
      PROVE  Owned'
  BY <1>4 DEF DetachInterrupt, Goto
<1>5. ASSUME NEW p \in Pins, Edge(p)
      PROVE  Owned'
  BY <1>5 DEF Edge
<1>6. CASE AttachLow
  BY <1>6 DEF AttachLow, Goto, StoreLow
<1>7. CASE AttachHigh
  BY <1>7 DEF AttachHigh, Goto, StoreHigh
<1>8. CASE AttachSense
  BY <1>8 DEF AttachSense, Goto
<1>9. CASE DetachFlag
  <2>1. INTFLAGS' \cup left' \subseteq (INTFLAGS \cup left) \ {pin}
    BY <1>9, ClearsFlag DEF DetachFlag, Goto
  <2>2. pc = "dtFlag" /\ UNCHANGED <<pin, edgeFor, attached>>
    BY <1>9 DEF DetachFlag, Goto
  <2> QED
    BY <2>1, <2>2
<1>10. CASE DetachLow
  BY <1>10 DEF DetachLow, Goto, StoreLow
<1>11. CASE DetachHigh
  BY <1>11 DEF DetachHigh, Goto, StoreHigh
<1>12. CASE Handler
  BY <1>12 DEF Handler, Interrupt, Seen, ClearEarly
<1>13. ASSUME NEW p \in Pins, CallFunction(p)
      PROVE  Owned'
  BY <1>13, CalledForItsEdge, CallEffect
<1>14. CASE EndHandler
  BY <1>14 DEF EndHandler, ClearSeen
<1>15. CASE UNCHANGED vars
  BY <1>15 DEF vars
<1> QED
  BY <1>1, <1>2, <1>3, <1>4, <1>5, <1>6, <1>7, <1>8,
     <1>9, <1>10, <1>11, <1>12, <1>13, <1>14, <1>15
  DEF Next, Attach, Detach, Edges, InCall, InHandler

(* Interrupts stay on in the handler.                                      *)
LEMMA HandlerStep ==
    ASSUME port = 0, IInv, TypeOK', [Next]_vars
    PROVE  HandlerInv'
<1> USE DEF build, table, call, handler, history,
         IInv, TypeOK, Labels, Pointers, Bytes, Null, HandlerInv
<1>1. CASE EnablePort
  BY <1>1 DEF EnablePort
<1>2. CASE SetInterrupts
  BY <1>2 DEF SetInterrupts
<1>3. ASSUME NEW p \in Pins, NEW f \in Funcs, AttachInterrupt(p, f)
      PROVE  HandlerInv'
  BY <1>3 DEF AttachInterrupt, Goto
<1>4. ASSUME NEW p \in Pins, DetachInterrupt(p)
      PROVE  HandlerInv'
  BY <1>4 DEF DetachInterrupt, Goto
<1>5. ASSUME NEW p \in Pins, Edge(p)
      PROVE  HandlerInv'
  BY <1>5 DEF Edge
<1>6. CASE AttachLow
  BY <1>6 DEF AttachLow, Goto, StoreLow
<1>7. CASE AttachHigh
  BY <1>7 DEF AttachHigh, Goto, StoreHigh
<1>8. CASE AttachSense
  BY <1>8 DEF AttachSense, Goto
<1>9. CASE DetachFlag
  BY <1>9, ClearsFlag DEF DetachFlag, Goto
<1>10. CASE DetachLow
  BY <1>10 DEF DetachLow, Goto, StoreLow
<1>11. CASE DetachHigh
  BY <1>11 DEF DetachHigh, Goto, StoreHigh
<1>12. CASE Handler
  BY <1>12 DEF Handler, Interrupt, Seen, ClearEarly
<1>13. ASSUME NEW p \in Pins, CallFunction(p)
      PROVE  HandlerInv'
  BY <1>13, CalledForItsEdge, CallEffect
<1>14. CASE EndHandler
  BY <1>14 DEF EndHandler, ClearSeen
<1>15. CASE UNCHANGED vars
  BY <1>15 DEF vars
<1> QED
  BY <1>1, <1>2, <1>3, <1>4, <1>5, <1>6, <1>7, <1>8,
     <1>9, <1>10, <1>11, <1>12, <1>13, <1>14, <1>15
  DEF Next, Attach, Detach, Edges, InCall, InHandler

(* Whose flag the loop has come to has been called.                        *)
LEMMA HeardStep ==
    ASSUME port = 0, IInv, TypeOK', [Next]_vars
    PROVE  HeardInv'
<1> USE DEF build, table, call, handler, history,
         IInv, TypeOK, Labels, Pointers, Bytes, Null, HeardInv, HandlerInv
<1>1. CASE EnablePort
  BY <1>1 DEF EnablePort
<1>2. CASE SetInterrupts
  BY <1>2 DEF SetInterrupts
<1>3. ASSUME NEW p \in Pins, NEW f \in Funcs, AttachInterrupt(p, f)
      PROVE  HeardInv'
  BY <1>3 DEF AttachInterrupt, Goto
<1>4. ASSUME NEW p \in Pins, DetachInterrupt(p)
      PROVE  HeardInv'
  BY <1>4 DEF DetachInterrupt, Goto
<1>5. ASSUME NEW p \in Pins, Edge(p)
      PROVE  HeardInv'
  BY <1>5 DEF Edge
<1>6. CASE AttachLow
  BY <1>6 DEF AttachLow, Goto, StoreLow
<1>7. CASE AttachHigh
  BY <1>7 DEF AttachHigh, Goto, StoreHigh
<1>8. CASE AttachSense
  BY <1>8 DEF AttachSense, Goto
<1>9. CASE DetachFlag
  BY <1>9, ClearsFlag DEF DetachFlag, Goto
<1>10. CASE DetachLow
  BY <1>10 DEF DetachLow, Goto, StoreLow
<1>11. CASE DetachHigh
  BY <1>11 DEF DetachHigh, Goto, StoreHigh
<1>12. CASE Handler
  BY <1>12 DEF Handler, Interrupt, Seen, ClearEarly
<1>13. ASSUME NEW p \in Pins, CallFunction(p)
      PROVE  HeardInv'
  BY <1>13, CalledForItsEdge, CallEffect
<1>14. CASE EndHandler
  BY <1>14 DEF EndHandler, ClearSeen
<1>15. CASE UNCHANGED vars
  BY <1>15 DEF vars
<1> QED
  BY <1>1, <1>2, <1>3, <1>4, <1>5, <1>6, <1>7, <1>8,
     <1>9, <1>10, <1>11, <1>12, <1>13, <1>14, <1>15
  DEF Next, Attach, Detach, Edges, InCall, InHandler

(* Cleared early, a flag or the handler remembers every edge not yet heard.*)
LEMMA KeptStep ==
    ASSUME port = 0, IInv, TypeOK', [Next]_vars
    PROVE  Kept'
<1> USE DEF build, table, call, handler, history,
         IInv, TypeOK, Labels, Pointers, Bytes, Null, Kept, NotForgotten,
         HandlerInv, DetachStep, Detaching
<1>1. CASE EnablePort
  BY <1>1 DEF EnablePort
<1>2. CASE SetInterrupts
  BY <1>2 DEF SetInterrupts
<1>3. ASSUME NEW p \in Pins, NEW f \in Funcs, AttachInterrupt(p, f)
      PROVE  Kept'
  BY <1>3 DEF AttachInterrupt, Goto
<1>4. ASSUME NEW p \in Pins, DetachInterrupt(p)
      PROVE  Kept'
  BY <1>4 DEF DetachInterrupt, Goto
<1>5. ASSUME NEW p \in Pins, Edge(p)
      PROVE  Kept'
  BY <1>5 DEF Edge
<1>6. CASE AttachLow
  BY <1>6 DEF AttachLow, Goto, StoreLow
<1>7. CASE AttachHigh
  BY <1>7 DEF AttachHigh, Goto, StoreHigh
<1>8. CASE AttachSense
  BY <1>8 DEF AttachSense, Goto
<1>9. CASE DetachFlag
  BY <1>9, ClearsFlag DEF DetachFlag, Goto
<1>10. CASE DetachLow
  BY <1>10 DEF DetachLow, Goto, StoreLow
<1>11. CASE DetachHigh
  BY <1>11 DEF DetachHigh, Goto, StoreHigh
<1>12. CASE Handler
  BY <1>12 DEF Handler, Interrupt, Seen, ClearEarly
<1>13. ASSUME NEW p \in Pins, CallFunction(p)
      PROVE  Kept'
  BY <1>13, CalledForItsEdge, CallEffect
<1>14. CASE EndHandler
  BY <1>14 DEF EndHandler, ClearSeen
<1>15. CASE UNCHANGED vars
  BY <1>15 DEF vars
<1> QED
  BY <1>1, <1>2, <1>3, <1>4, <1>5, <1>6, <1>7, <1>8,
     <1>9, <1>10, <1>11, <1>12, <1>13, <1>14, <1>15
  DEF Next, Attach, Detach, Edges, InCall, InHandler

----------------------------------------------------------------------------
(* Theorems *)

(* All variables stay in their types, on every port.                       *)
THEOREM TypeCorrect == Spec => []TypeOK
<1>1. ASSUME Init PROVE TypeOK
  BY <1>1, FuncAssumption DEF Init, TypeOK, Labels, Pointers, Bytes, Null
<1> QED
  BY <1>1, TypeStep, PTL DEF Spec

(* The invariant, on PORTA.                                                *)
LEMMA Invariance == Ports = {0} => (Spec => [](port = 0 /\ IInv))
<1> SUFFICES ASSUME Ports = {0}
             PROVE  Spec => [](port = 0 /\ IInv)
  OBVIOUS
<1>1. Init => port = 0 /\ IInv
  <2> SUFFICES ASSUME Init PROVE port = 0 /\ IInv
    OBVIOUS
  <2>1. port = 0 /\ TypeOK
    BY FuncAssumption DEF Init, TypeOK, Labels, Pointers, Bytes, Null
  <2>2. ArmedIffAttached /\ AttachStep /\ DetachStep
    BY DEF Init, ArmedIffAttached, AttachStep, DetachStep, Attaching, Detaching,
           Bytes, Null
  <2>3. Owned /\ HandlerInv /\ HeardInv /\ Kept
    BY DEF Init, Owned, HandlerInv, HeardInv, Kept, NotForgotten
  <2> QED
    BY <2>1, <2>2, <2>3 DEF IInv
<1>2. (port = 0 /\ IInv) /\ [Next]_vars => (port = 0 /\ IInv)'
  <2> SUFFICES ASSUME port = 0, IInv, [Next]_vars
               PROVE  (port = 0 /\ IInv)'
    OBVIOUS
  <2>1. TypeOK'
    BY TypeStep DEF IInv
  <2>2. port' = port
    BY DEF Next, vars, build, Attach, Detach, Edges, InCall, InHandler,
       EnablePort, SetInterrupts, AttachInterrupt, DetachInterrupt, Edge,
       AttachLow, AttachHigh, AttachSense, DetachFlag, DetachLow, DetachHigh,
       Handler, CallFunction, EndHandler
  <2> QED
    BY <2>1, <2>2, ArmedStep, AttachStepKept, DetachStepKept, OwnedStep,
       HandlerStep, HeardStep, KeptStep DEF IInv
<1> QED
  BY <1>1, <1>2, PTL DEF Spec

(* Between calls a pin of PORTA is armed if and only if it has the function *)
(* the program attached.                                                   *)
THEOREM ArmedRight == Ports = {0} => (Spec => []ArmedIffAttached)
<1>1. IInv => ArmedIffAttached
  BY DEF IInv
<1> QED
  BY <1>1, Invariance, PTL

(* Where PORTA's flags are cleared before the functions are called, no     *)
(* edge of an attached pin is forgotten.                                   *)
THEOREM NothingForgotten ==
    Ports = {0} /\ Clears = {"early"} => (Spec => []NotForgotten)
<1> SUFFICES ASSUME Ports = {0}, Clears = {"early"}
             PROVE  Spec => []NotForgotten
  OBVIOUS
<1>1. IInv => NotForgotten
  BY DEF IInv, Kept, TypeOK
<1> QED
  BY <1>1, Invariance, PTL

(* In either build no step on PORTA takes the flag of an unheard edge      *)
(* away, but the end of a handler that clears late, for a pin whose        *)
(* function it has called.                                                 *)
LEMMA ForgetsStep ==
    ASSUME port = 0, IInv, [Next]_vars, NEW q \in Pins, Forgets(q)
    PROVE  clear = "late" /\ EndHandler /\ q \in heard
<1> USE DEF build, table, call, handler, history, Forgets
<1>1. CASE EnablePort
  BY <1>1 DEF EnablePort
<1>2. CASE SetInterrupts
  BY <1>2 DEF SetInterrupts
<1>3. ASSUME NEW p \in Pins, NEW f \in Funcs, AttachInterrupt(p, f)
      PROVE  FALSE
  BY <1>3 DEF AttachInterrupt, Goto
<1>4. ASSUME NEW p \in Pins, DetachInterrupt(p)
      PROVE  FALSE
  BY <1>4 DEF DetachInterrupt, Goto
<1>5. ASSUME NEW p \in Pins, Edge(p)
      PROVE  FALSE
  BY <1>5 DEF Edge
<1>6. CASE AttachLow
  BY <1>6 DEF AttachLow, Goto
<1>7. CASE AttachHigh
  BY <1>7 DEF AttachHigh, Goto
<1>8. CASE AttachSense
  BY <1>8 DEF AttachSense, Goto
<1>9. CASE DetachFlag
  <2>1. pin \notin unheard
    BY <1>9 DEF DetachFlag, Goto, IInv, DetachStep, Detaching
  <2> QED
    BY <1>9, <2>1, ClearsFlag DEF DetachFlag, Goto
<1>10. CASE DetachLow
  BY <1>10 DEF DetachLow, Goto
<1>11. CASE DetachHigh
  BY <1>11 DEF DetachHigh, Goto
<1>12. CASE Handler
  BY <1>12 DEF Handler, Interrupt, Seen, ClearEarly, IInv, TypeOK, HandlerInv
<1>13. ASSUME NEW p \in Pins, CallFunction(p)
      PROVE  FALSE
  BY <1>13, CallEffect
<1>14. CASE EndHandler
  BY <1>14 DEF EndHandler, ClearSeen, IInv, HeardInv
<1>15. CASE UNCHANGED vars
  BY <1>15 DEF vars
<1> QED
  BY <1>1, <1>2, <1>3, <1>4, <1>5, <1>6, <1>7, <1>8,
     <1>9, <1>10, <1>11, <1>12, <1>13, <1>14, <1>15
  DEF Next, Attach, Detach, Edges, InCall, InHandler

(* What is forgotten on PORTA, in either build: an edge that came after    *)
(* its pin's function was called in this pass of a handler that clears     *)
(* late, and no other.                                                     *)
THEOREM ForgetsOnlyRepeats == Ports = {0} => (Spec => ForgetsRepeatsOnly)
<1>1. port = 0 /\ IInv /\ [Next]_vars
      => [\A p \in Pins :
            Forgets(p) => clear = "late" /\ EndHandler /\ p \in heard]_vars
  BY ForgetsStep
<1> QED
  BY <1>1, Invariance, PTL DEF Spec, ForgetsRepeatsOnly

(* A function attached to a pin of PORTA is called for its own edges only, *)
(* and never through half a pointer.                                       *)
THEOREM OwnEdgeOnly == Ports = {0} => (Spec => OwnEdge)
<1>1. IInv => \A p \in Pins : CallFunction(p) => intFunc[p] = Bytes(edgeFor[p])
  BY CalledForItsEdge
<1>2. IInv /\ [Next]_vars
      => [\A p \in Pins : CallFunction(p) => intFunc[p] = Bytes(edgeFor[p])]_vars
  BY <1>1
<1> QED
  BY <1>2, Invariance, PTL DEF Spec, OwnEdge
=============================================================================
