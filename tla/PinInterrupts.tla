--------------------------- MODULE PinInterrupts ---------------------------
(***************************************************************************)
(* attachInterrupt(), detachInterrupt() and the interrupt handler of one   *)
(* port (WInterrupts.c).  The table of functions is read by the handler    *)
(* and written by the program in stores of one byte; an edge sets the      *)
(* pin's flag at any time.  The handler is not interrupted; the program's  *)
(* functions run inside it and may detach their own pin.                   *)
(***************************************************************************)
EXTENDS Integers

CONSTANTS
    Ports,       \* numbers of the ports: 0 is PORTA
    Clears,      \* "late", "early": when the handler clears the flags
    Pins,        \* bit positions of pins
    Funcs,       \* functions of the program that can be attached, ...
    OneShots,    \* ... and those that detach their pin when called
    NULL

ASSUME PortAssumption == Ports \subseteq 0..2 /\ Clears \subseteq {"late", "early"}
ASSUME PinAssumption == Pins \subseteq 0..7
ASSUME FuncAssumption == OneShots \subseteq Funcs /\ NULL \notin Funcs

VARIABLES
    port, clear,    \* the port, the build
    enabled,        \* intFunc[port] # NULL: attachPortXEnable() was called
    intFunc,        \* for each pin the two bytes of its pointer
    isc,            \* pins whose PINnCTRL lets an edge set the flag
    INTFLAGS,       \* the flags that are set
    ie,             \* SREG.I of the program
    pc, pin, func,  \* the next access of the program's call, its arguments
    handling,       \* is the handler running?
    flags, left,    \* the flags it read, and those it has not come to
    attached,       \* for each pin the function the program has attached
    edgeFor,        \* the one its latest edge is for
    unheard,        \* pins with an edge that no function has been called for
    heard           \* pins whose function this pass of the handler has called

build   == <<port, clear>>
table   == <<enabled, intFunc>>
call    == <<pc, pin, func>>
handler == <<handling, flags, left>>
history == <<attached, edgeFor, unheard, heard>>
vars    == <<build, table, isc, INTFLAGS, ie, call, handler, history>>

----------------------------------------------------------------------------
Bytes(f) == [lo |-> f, hi |-> f]
Null == Bytes(NULL)
Whole(p) == intFunc[p].lo = intFunc[p].hi

(* The address detachInterrupt() writes to, and that of VPORTx.INTFLAGS as *)
(* the handler reckons it.  What lies between the VPORTs is not there.     *)
FlagAddress == port * 16 + 3
VPORTINTFLAGS == 4 * port + 3
FlagClearNowhere(p) == INTFLAGS
FlagClear(p) == IF FlagAddress = VPORTINTFLAGS THEN INTFLAGS \ {p} ELSE INTFLAGS

Init ==
    /\ port \in Ports /\ clear \in Clears
    /\ enabled \in BOOLEAN
    /\ intFunc = [p \in Pins |-> Null] /\ isc = {} /\ INTFLAGS = {}
    /\ ie = TRUE
    /\ pc = "ready" /\ pin \in Pins /\ func = NULL
    /\ handling = FALSE /\ flags = {} /\ left = {}
    /\ attached = [p \in Pins |-> NULL] /\ edgeFor = [p \in Pins |-> NULL]
    /\ unheard = {} /\ heard = {}

(* An edge on a pin. *)
Edge(p) ==
    /\ p \in isc
    /\ INTFLAGS' = INTFLAGS \cup {p}
    /\ edgeFor' = [edgeFor EXCEPT ![p] = attached[p]]
    /\ unheard' = unheard \cup {p}
    /\ UNCHANGED <<build, table, isc, ie, call, handler, attached, heard>>

----------------------------------------------------------------------------
(* The program.  Where a pin has a function it attaches another only with  *)
(* interrupts off, for the pointer is stored in two halves; an edge that   *)
(* is pending then goes to the new function.                               *)

Goto(from, to) == ~handling /\ pc = from /\ pc' = to

(* attachPortXEnable() *)
EnablePort ==
    /\ ~handling /\ pc = "ready"
    /\ enabled' = TRUE
    /\ UNCHANGED <<build, intFunc, isc, INTFLAGS, ie, call, handler, history>>

SetInterrupts ==
    /\ ~handling /\ pc = "ready"
    /\ ie' = ~ie
    /\ UNCHANGED <<build, table, isc, INTFLAGS, call, handler, history>>

AttachInterrupt(p, f) ==
    /\ Goto("ready", "atLow")
    /\ enabled /\ (attached[p] = NULL \/ ~ie)
    /\ pin' = p /\ func' = f
    /\ UNCHANGED <<build, table, isc, INTFLAGS, ie, handler, history>>

(* One half of intFunc[port][bitpos] is stored. *)
StoreFuncLow(f) ==
    /\ intFunc' = IF f = NULL THEN intFunc ELSE [intFunc EXCEPT ![pin].lo = f]
    /\ UNCHANGED enabled
StoreLow(f) == intFunc' = [intFunc EXCEPT ![pin].lo = f] /\ UNCHANGED enabled
StoreHigh(f) == intFunc' = [intFunc EXCEPT ![pin].hi = f] /\ UNCHANGED enabled

AttachLow ==
    /\ Goto("atLow", "atHigh")
    /\ StoreLow(func)
    /\ UNCHANGED <<build, isc, INTFLAGS, ie, pin, func, handler, history>>
AttachHigh ==
    /\ Goto("atHigh", "atSense")
    /\ StoreHigh(func)
    /\ UNCHANGED <<build, isc, INTFLAGS, ie, pin, func, handler, history>>

(* PINnCTRL is set, with interrupts off. *)
AttachSense ==
    /\ Goto("atSense", "ready")
    /\ isc' = isc \cup {pin}
    /\ attached' = [attached EXCEPT ![pin] = func]
    /\ edgeFor' = IF attached[pin] = NULL THEN edgeFor
                                         ELSE [edgeFor EXCEPT ![pin] = func]
    /\ func' = NULL
    /\ UNCHANGED <<build, table, INTFLAGS, ie, pin, handler, unheard, heard>>

(* PINnCTRL &= 0xF8 *)
DetachInterrupt(p) ==
    /\ Goto("ready", "dtFlag")
    /\ enabled
    /\ pin' = p
    /\ isc' = isc \ {p}
    /\ attached' = [attached EXCEPT ![p] = NULL]
    /\ unheard' = unheard \ {p}
    /\ UNCHANGED <<build, table, INTFLAGS, ie, func, handler, edgeFor, heard>>

DetachFlag ==
    /\ Goto("dtFlag", "dtLow")
    /\ INTFLAGS' = FlagClear(pin)
    /\ UNCHANGED <<build, table, isc, ie, pin, func, handler, history>>

(* intFunc[port][bitpos] = 0 *)
DetachLow ==
    /\ Goto("dtLow", "dtHigh")
    /\ StoreLow(NULL)
    /\ UNCHANGED <<build, isc, INTFLAGS, ie, pin, func, handler, history>>
DetachHigh ==
    /\ Goto("dtHigh", "ready")
    /\ StoreHigh(NULL)
    /\ edgeFor' = [edgeFor EXCEPT ![pin] = NULL]
    /\ UNCHANGED <<build, isc, INTFLAGS, ie, pin, func, handler, attached, unheard,
                   heard>>

----------------------------------------------------------------------------
(* The handler, isrBody().  Its loop takes the flags of a copy, r17.       *)
SeenFirst == {p \in INTFLAGS : \A q \in INTFLAGS : p <= q}
Seen == INTFLAGS
(* Early clearing. *)
ClearEarly == IF clear = "early" THEN {} ELSE INTFLAGS

(* PORTx_PORT_vect *)
Interrupt == ie /\ ~handling /\ INTFLAGS # {}

Handler ==
    /\ Interrupt
    /\ handling' = TRUE
    /\ flags' = INTFLAGS /\ left' = Seen
    /\ INTFLAGS' = ClearEarly
    /\ UNCHANGED <<build, table, isc, ie, call, history>>

(* The lowest flag that is left. *)
Lowest(p) == p \in left /\ \A q \in left : p <= q

(* icall, unless the pointer is null.  A one-shot function calls           *)
(* detachInterrupt() on its pin.                                           *)
CallFunction(p) ==
    /\ handling /\ Lowest(p)
    /\ left' = left \ {p}
    /\ IF intFunc[p] = Null
       THEN UNCHANGED <<unheard, heard>>
       ELSE unheard' = unheard \ {p} /\ heard' = heard \cup {p}
    /\ IF intFunc[p].lo \in OneShots
       THEN /\ isc' = isc \ {p}
            /\ INTFLAGS' = FlagClear(p)
            /\ intFunc' = [intFunc EXCEPT ![p] = Null]
            /\ attached' = [attached EXCEPT ![p] = NULL]
            /\ edgeFor' = [edgeFor EXCEPT ![p] = NULL]
       ELSE UNCHANGED <<isc, INTFLAGS, intFunc, attached, edgeFor>>
    /\ UNCHANGED <<build, enabled, ie, call, handling, flags>>

ClearAll == INTFLAGS \ Pins
ClearSeen == INTFLAGS \ flags
EndHandler ==
    /\ handling /\ left = {}
    /\ handling' = FALSE
    /\ INTFLAGS' = IF clear = "late" THEN ClearSeen ELSE INTFLAGS
    /\ flags' = {} /\ left' = {} /\ heard' = {}
    /\ UNCHANGED <<build, table, isc, ie, call, attached, edgeFor, unheard>>

----------------------------------------------------------------------------
Attach == \E p \in Pins, f \in Funcs : AttachInterrupt(p, f)
Detach == \E p \in Pins : DetachInterrupt(p)
Edges  == \E p \in Pins : Edge(p)
InCall ==
    \/ AttachLow \/ AttachHigh \/ AttachSense
    \/ DetachFlag \/ DetachLow \/ DetachHigh
InHandler == (\E p \in Pins : CallFunction(p)) \/ EndHandler

Next ==
    \/ EnablePort \/ SetInterrupts \/ Attach \/ Detach \/ Edges
    \/ InCall \/ Handler \/ InHandler

(* The CPU executes, and takes a pending interrupt. *)
Fairness == WF_vars(InCall) /\ WF_vars(Handler) /\ WF_vars(InHandler)

Spec == Init /\ [][Next]_vars
FairSpec == Spec /\ Fairness
----------------------------------------------------------------------------
(* Properties *)

(* The type of every variable. *)
Labels == {"ready", "atLow", "atHigh", "atSense", "dtFlag", "dtLow", "dtHigh"}
Pointers == [lo : Funcs \cup {NULL}, hi : Funcs \cup {NULL}]
TypeOK ==
    /\ port \in Ports /\ clear \in Clears /\ enabled \in BOOLEAN
    /\ intFunc \in [Pins -> Pointers]
    /\ isc \subseteq Pins /\ INTFLAGS \subseteq Pins /\ ie \in BOOLEAN
    /\ pc \in Labels /\ pin \in Pins /\ func \in Funcs \cup {NULL}
    /\ handling \in BOOLEAN /\ flags \subseteq Pins /\ left \subseteq flags
    /\ attached \in [Pins -> Funcs \cup {NULL}]
    /\ edgeFor \in [Pins -> Funcs \cup {NULL}]
    /\ unheard \subseteq Pins /\ heard \subseteq Pins

(* Between the program's calls a pin is armed if and only if it has a      *)
(* function, the one the program thinks it has: no race of detachInterrupt *)
(* in a function with the program's calls leaves a pin that interrupts for *)
(* nothing, or one that is attached and deaf.                              *)
ArmedIffAttached ==
    \A p \in Pins : (pc = "ready" \/ pin # p) =>
        /\ intFunc[p] = Bytes(attached[p])
        /\ p \in isc <=> attached[p] # NULL

(* A function is only called for an edge that came while it was attached,  *)
(* and the handler never jumps through half a pointer: whatever was        *)
(* pending when the pin was detached is gone (WInterrupts.c:295, "flag     *)
(* clear").                                                                *)
OwnEdge ==
    [][\A p \in Pins : CallFunction(p) => intFunc[p] = Bytes(edgeFor[p])]_vars

(* No edge of an attached pin is forgotten: its flag, or the copy the      *)
(* handler works on, remembers it until its function is called.  That is   *)
(* so where flags are cleared before the functions are called, as          *)
(* Ref_PinInterrupts.md:17 says the default build does.                    *)
NotForgotten == \A p \in unheard : p \in INTFLAGS \cup left

(* What is forgotten in either build: only the handler that clears late    *)
(* (WInterrupts.c:170) ever takes a flag away with an edge in it that no   *)
(* function has been called for, and only that of a pin whose function it  *)
(* has called in this pass, before the edge.  Other pins' edges, those the *)
(* loop has not come to, and all that the sketch's detachInterrupt() does  *)
(* in a function or outside leave every other edge where it is.            *)
Forgets(p) ==
    /\ p \in unheard \cap unheard'
    /\ p \in INTFLAGS \cup left /\ p \notin INTFLAGS' \cup left'
ForgetsRepeatsOnly ==
    [][\A p \in Pins :
        Forgets(p) => clear = "late" /\ EndHandler /\ p \in heard]_vars

(* With interrupts on, an edge leads to a call of its pin's function,      *)
(* whatever the other pins do; only one that comes after the call of this  *)
(* pass may be lost, as above.                                             *)
EdgeServed ==
    \A p \in Pins :
        p \in (unheard \cap INTFLAGS) \ heard ~> (p \notin unheard \/ ~ie)
=============================================================================
