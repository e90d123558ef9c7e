--------------------------- MODULE HardwareSerial ---------------------------
(***************************************************************************)
(* The class HardwareSerial (UART.cpp, HardwareSerial.h) on one USART, with *)
(* its three interrupt handlers in the assembly form the default build     *)
(* uses.  The program's calls run one volatile access at a time, pc naming *)
(* the next one, so that interrupts and the serial line fall between any   *)
(* two of them.  A handler of interrupt priority level 0 runs to its end   *)
(* before the program goes on.                                             *)
(***************************************************************************)
EXTENDS Usart, RingBuffer

CONSTANTS
    RxSize, TxSize,     \* SERIAL_RX_BUFFER_SIZE, SERIAL_TX_BUFFER_SIZE
    Contexts,           \* may the program run with interrupts on (TRUE), off?
    Calls,              \* the member functions the program uses
    Modes,              \* the options given to begin(): full or half duplex
    MaxTx, MaxRx,       \* bounds on the bytes written, the frames received
    MaxBoth,            \* frames a program receives that also writes
    FramesPerWindow     \* frames that may end while the CPU is still busy,
                        \* with interrupts off and with interrupts on

ASSUME SizeAssumption ==
    /\ RxSize \in Sizes
    /\ TxSize \in Sizes
ASSUME ContextsAssumption == Contexts \subseteq BOOLEAN /\ Contexts # {}
ASSUME BoundsAssumption ==
    MaxTx \in Nat /\ MaxRx \in Nat /\ MaxBoth \in 0..MaxRx
    /\ FramesPerWindow \in [BOOLEAN -> Nat]
ASSUME ModesAssumption == Modes \subseteq {"full", "half"}

VARIABLES
    state,              \* _state: the flags that are set (0bvV__fphw)
    rxHead, rxTail, rxBuf,
    txHead, txTail, txBuf,
    ie,                 \* SREG.I; FALSE also inside a handler (CPUINT.STATUS)
    isr,                \* the DRE routine, entered as a handler or by a poll
    fresh,              \* a handler has just returned: one instruction is due
    pc,                 \* the program's next access
    call, mode,         \* the member function being executed, begin()'s option
    reg, idx, chr,      \* its locals: a loaded register, an index, a byte
    frames,             \* frames ended since the CPU last had nothing to do
    written,            \* bytes given to write()
    lastRead,           \* the byte read() returned last
    rxPromise, txPromise,  \* calls available(), availableForWrite() vouch for
    unreported          \* errors the RXC handler saw since the last getStatus()

rxRing  == <<rxHead, rxTail, rxBuf>>
txRing  == <<txHead, txTail, txBuf>>
rings   == <<rxRing, txRing>>
locals  == <<reg, idx, chr>>
callers == <<call, mode>>
history == <<written, lastRead, rxPromise, txPromise, unreported>>
promises == <<rxPromise, txPromise>>
usart   == <<config, txWire, rxWire>>
cpu     == <<ie, isr, fresh, pc, frames>>
vars    == <<usart, state, rings, cpu, callers, locals, history>>

Flags == {"w", "h", "p", "f", "V", "v"}
Errors == {"p", "f", "V", "v"}

----------------------------------------------------------------------------
(* Interrupts.  The vector table puts RXC before DRE before TXC. *)

RxcPending == "RXCIE" \in ctrla /\ RXCIF
DrePending == "DREIE" \in ctrla /\ DREIF
TxcPending == "TXCIE" \in ctrla /\ txcif
Pending == ie /\ (RxcPending \/ DrePending \/ TxcPending)

(* A pending interrupt is taken before the next instruction, except that   *)
(* one instruction follows every RETI.                                     *)
CpuFree == isr = "none" /\ (fresh \/ ~Pending)

(* Would _poll_tx_data_empty() change anything? *)
PollIdle == ie \/ ~DREIF \/ (txHead = txTail /\ "DREIE" \notin ctrla)

(* The CPU can only wait for the line or for the program's next call. *)
Quiescent ==
    /\ isr = "none" /\ ~Pending
    /\ \/ pc = "ready"
       \/ pc = "slowWait" /\ idx = txTail /\ PollIdle
       \/ pc \in {"flDreie", "flTxcif"} /\ PollIdle
          /\ ("DREIE" \in ctrla \/ ~txcif)

Tick == frames' = IF Quiescent THEN 0 ELSE frames

(* The program performs the access at "from" and goes on to "to". *)
Step(from, to) ==
    /\ pc = from /\ CpuFree
    /\ pc' = to
    /\ fresh' = FALSE
    /\ Tick
    /\ UNCHANGED ie

Return == call' = "none" /\ UNCHANGED mode
Called(name) == /\ name \in Calls
                /\ call' = name
                /\ UNCHANGED mode

Init ==
    /\ UsartInit
    /\ state = {}
    /\ rxHead = 0 /\ rxTail = 0 /\ rxBuf = [i \in Slots(RxSize) |-> 0]
    /\ txHead = 0 /\ txTail = 0 /\ txBuf = [i \in Slots(TxSize) |-> 0]
    /\ ie \in Contexts
    /\ isr = "none" /\ fresh = FALSE /\ frames = 0
    /\ pc = "ready" /\ call = "none" /\ mode = "full"
    /\ reg = {} /\ idx = 0 /\ chr = 0
    /\ written = 0 /\ lastRead = 0 /\ unreported = {}
    /\ rxPromise = 0 /\ txPromise = 0

----------------------------------------------------------------------------
(* _poll_tx_data_empty(): with interrupts on it leaves the work to them;   *)
(* otherwise it stands in for the DRE interrupt, whose code it jumps into. *)
(* That code begins by clearing TXCIF.                                     *)
PollNever == UNCHANGED <<ctrla, txcif, isr>>
Poll ==
    \/ /\ ie \/ ~DREIF
       /\ UNCHANGED <<ctrla, txcif, isr>>
    \/ /\ ~ie /\ DREIF /\ txHead = txTail
       /\ ctrla' = ctrla \ {"DREIE"}
       /\ UNCHANGED <<txcif, isr>>
    \/ /\ ~ie /\ DREIF /\ txHead # txTail
       /\ isr' = "poll"
       /\ ClearTXCIF
       /\ UNCHANGED ctrla

----------------------------------------------------------------------------
(* write() *)

Write ==
    /\ written < MaxTx /\ arrived <= MaxBoth
    /\ "TXEN" \in ctrlb
    /\ Called("write")
    /\ Step("ready", "wrLoadState")
    /\ written' = written + 1
    /\ txPromise' = IF txPromise > 0 THEN txPromise - 1 ELSE 0
    /\ UNCHANGED <<usart, state, rings, isr, locals, lastRead, rxPromise,
                   unreported>>

(* _state |= 1 is a load and a store. *)
WriteLoadState ==
    /\ Step("wrLoadState", "wrStoreState")
    /\ reg' = state
    /\ UNCHANGED <<usart, state, rings, isr, callers, idx, chr, history>>

WriteStoreState ==
    /\ Step("wrStoreState", "wrEmpty")
    /\ state' = reg \cup {"w"}
    /\ UNCHANGED <<usart, rings, isr, callers, locals, history>>

ShortcutAlways == TRUE
Shortcut == txHead = txTail

WriteTestEmpty ==
    /\ Step("wrEmpty", IF Shortcut THEN "wrDreif" ELSE "slowWait")
    /\ idx' = Succ(txHead, TxSize)
    /\ UNCHANGED <<usart, state, rings, isr, callers, reg, chr, history>>

WriteTestDREIF ==
    /\ Step("wrDreif", CASE ~DREIF -> "slowWait"
                         [] DREIF /\ "h" \in state -> "fastLoadCtrla"
                         [] OTHER -> "fastClear")
    /\ UNCHANGED <<usart, state, rings, isr, callers, locals, history>>

(* The shortcut around the ring. *)
FastLoadCtrla ==
    /\ Step("fastLoadCtrla", "fastClear")
    /\ reg' = (ctrla \ {"RXCIE"}) \cup {"TXCIE"}
    /\ UNCHANGED <<usart, state, rings, isr, callers, idx, chr, history>>

FastClear ==
    /\ Step("fastClear", IF "h" \in state THEN "fastStoreCtrla" ELSE "fastSend")
    /\ ClearTXCIF
    /\ UNCHANGED <<config, txdata, shift, sent, last, rxWire, state, rings, isr,
                   callers, locals, history>>

FastStoreCtrla ==
    /\ Step("fastStoreCtrla", "fastSend")
    /\ ctrla' = reg
    /\ UNCHANGED <<ctrlb, loopback, txWire, rxWire, state, rings, isr, callers,
                   locals, history>>

FastSend ==
    /\ Step("fastSend", "ready")
    /\ PutTXDATA(written)
    /\ Return
    /\ UNCHANGED <<config, txcif, sent, last, rxWire, state, rings, isr, locals,
                   history>>

(* Through the ring: wait for room, store, publish, enable the interrupt. *)
SlowWait ==
    /\ Step("slowWait", IF HasRoom(idx, txTail) THEN "slowStore" ELSE "slowWait")
    /\ IF HasRoom(idx, txTail) THEN UNCHANGED <<ctrla, txcif, isr>> ELSE Poll
    /\ UNCHANGED <<ctrlb, loopback, txdata, shift, sent, last, rxWire, state,
                   rings, callers, locals, history>>

SlowStore ==
    /\ Step("slowStore", "slowPublish")
    /\ txBuf' = [txBuf EXCEPT ![txHead] = written]
    /\ UNCHANGED <<usart, state, rxRing, txHead, txTail, isr, callers, locals,
                   history>>

SlowPublish ==
    /\ Step("slowPublish", "slowLoadCtrla")
    /\ txHead' = idx
    /\ UNCHANGED <<usart, state, rxRing, txTail, txBuf, isr, callers, locals,
                   history>>

EnablesLeftAlone(enables) == enables
WithDREIE(enables) == enables \cup {"DREIE"}

SlowLoadCtrla ==
    /\ Step("slowLoadCtrla",
            IF "h" \in state THEN "slowClear" ELSE "slowStoreCtrla")
    /\ reg' = WithDREIE(IF "h" \in state
                        THEN (ctrla \ {"RXCIE"}) \cup {"TXCIE"}
                        ELSE ctrla)
    /\ UNCHANGED <<usart, state, rings, isr, callers, idx, chr, history>>

SlowClear ==
    /\ Step("slowClear", "slowStoreCtrla")
    /\ ClearTXCIF
    /\ UNCHANGED <<config, txdata, shift, sent, last, rxWire, state, rings, isr,
                   callers, locals, history>>

SlowStoreCtrla ==
    /\ Step("slowStoreCtrla", "ready")
    /\ ctrla' = reg
    /\ Return
    /\ UNCHANGED <<ctrlb, loopback, txWire, rxWire, state, rings, isr, locals,
                   history>>

availableForWriteAll ==
    IF txHead >= txTail THEN TxSize - txHead + txTail ELSE txTail - txHead
availableForWrite ==
    IF txHead >= txTail THEN TxSize - 1 - txHead + txTail ELSE txTail - txHead - 1

AvailableForWrite ==
    /\ "availableForWrite" \in Calls
    /\ Step("ready", "ready")
    /\ txPromise' = availableForWrite
    /\ UNCHANGED <<usart, state, rings, isr, callers, locals, written, lastRead,
                   rxPromise, unreported>>

----------------------------------------------------------------------------
(* flush() and end(); end() begins with flush(), begin() with end() if     *)
(* anything has been written.                                              *)

AfterFlush == IF call = "flush" THEN "ready" ELSE "endCtrlb"
AfterEnd   == IF call = "end" THEN "ready" ELSE "bgMode"

Flush ==
    /\ Called("flush")
    /\ Step("ready", "flTest")
    /\ UNCHANGED <<usart, state, rings, isr, locals, history>>

End ==
    /\ Called("end")
    /\ Step("ready", "flTest")
    /\ UNCHANGED <<usart, state, rings, isr, locals, history>>

FlushTestSkipsDREIE ==
    /\ Step("flTest", IF "w" \in state THEN "flTxcif" ELSE AfterFlush)
    /\ IF "w" \notin state /\ call = "flush" THEN Return ELSE UNCHANGED callers
    /\ UNCHANGED <<usart, state, rings, isr, locals, history>>
FlushTest ==
    /\ Step("flTest", IF "w" \in state THEN "flDreie" ELSE AfterFlush)
    /\ IF "w" \notin state /\ call = "flush" THEN Return ELSE UNCHANGED callers
    /\ UNCHANGED <<usart, state, rings, isr, locals, history>>

FlushTestDREIE ==
    /\ Step("flDreie", IF "DREIE" \in ctrla THEN "flDreie" ELSE "flTxcif")
    /\ IF "DREIE" \in ctrla THEN Poll ELSE UNCHANGED <<ctrla, txcif, isr>>
    /\ UNCHANGED <<ctrlb, loopback, txdata, shift, sent, last, rxWire, state,
                   rings, callers, locals, history>>

FlushTestTXCIF ==
    /\ Step("flTxcif", IF txcif THEN AfterFlush ELSE "flDreie")
    /\ IF txcif THEN UNCHANGED <<ctrla, txcif, isr>> ELSE Poll
    /\ IF txcif /\ call = "flush" THEN Return ELSE UNCHANGED callers
    /\ UNCHANGED <<ctrlb, loopback, txdata, shift, sent, last, rxWire, state,
                   rings, locals, history>>

EndCTRLB ==
    /\ Step("endCtrlb", "endCtrla")
    /\ ctrlb' = {}
    /\ DiscardRx
    /\ UNCHANGED <<ctrla, loopback, txWire, arrived, state, rings, isr, callers,
                   locals, history>>

EndCTRLA ==
    /\ Step("endCtrla", "endFlags")
    /\ ctrla' = {}
    /\ loopback' = FALSE
    /\ UNCHANGED <<ctrlb, txWire, rxWire, state, rings, isr, callers, locals,
                   history>>

EndFlags ==
    /\ Step("endFlags", "endRx")
    /\ ClearTXCIF
    /\ UNCHANGED <<config, txdata, shift, sent, last, rxWire, state, rings, isr,
                   callers, locals, history>>

EndRx ==
    /\ Step("endRx", "endState")
    /\ rxHead' = rxTail
    /\ rxPromise' = 0
    /\ UNCHANGED <<usart, state, rxTail, rxBuf, txRing, isr, callers, locals,
                   written, lastRead, txPromise, unreported>>

EndState ==
    /\ Step("endState", AfterEnd)
    /\ state' = {}
    /\ unreported' = {}
    /\ IF call = "end" THEN Return ELSE UNCHANGED callers
    /\ UNCHANGED <<usart, rings, isr, locals, written, lastRead, promises>>

----------------------------------------------------------------------------
(* begin() *)

Begin ==
    /\ "begin" \in Calls
    /\ call' = "begin"
    /\ mode' \in Modes
    /\ Step("ready", "bgPoll")
    /\ UNCHANGED <<usart, state, rings, isr, locals, history>>

BeginPoll ==
    /\ Step("bgPoll", "bgTest")
    /\ Poll
    /\ UNCHANGED <<ctrlb, loopback, txdata, shift, sent, last, rxWire, state,
                   rings, callers, locals, history>>

BeginTest ==
    /\ Step("bgTest", IF "w" \in state THEN "flTest" ELSE "bgMode")
    /\ UNCHANGED <<usart, state, rings, isr, callers, locals, history>>

(* Open drain and loopback together: _state |= 2. *)
BeginMode ==
    /\ Step("bgMode", IF mode = "half" THEN "bgHalf" ELSE "bgConfig")
    /\ reg' = state
    /\ UNCHANGED <<usart, state, rings, isr, callers, idx, chr, history>>

BeginHalf ==
    /\ Step("bgHalf", "bgConfig")
    /\ state' = reg \cup {"h"}
    /\ UNCHANGED <<usart, rings, isr, callers, locals, history>>

(* From cli() to the restored SREG. *)
BeginConfig ==
    /\ Step("bgConfig", "ready")
    /\ EnableBoth
    /\ ctrla' = {"RXCIE"}
    /\ loopback' = (mode = "half")
    /\ Return
    /\ UNCHANGED <<txcif, sent, last, arrived, state, rings, isr, locals, history>>

----------------------------------------------------------------------------
(* available(), read() and getStatus() *)

availableUnmasked == RxSize + rxHead - rxTail
available == (RxSize + rxHead - rxTail) % RxSize

Available ==
    /\ "available" \in Calls
    /\ Step("ready", "ready")
    /\ rxPromise' = available
    /\ UNCHANGED <<usart, state, rings, isr, callers, locals, written, lastRead,
                   txPromise, unreported>>

(* read() finds the ring empty and returns -1 ... *)
ReadNothing ==
    /\ "read" \in Calls
    /\ Step("ready", "ready")
    /\ rxHead = rxTail
    /\ UNCHANGED <<usart, state, rings, isr, callers, locals, history>>

(* ... or takes the byte at the tail. *)
Read ==
    /\ rxHead # rxTail
    /\ Called("read")
    /\ Step("ready", "rdFetch")
    /\ UNCHANGED <<usart, state, rings, isr, locals, history>>

ReadFetch ==
    /\ Step("rdFetch", "rdAdvance")
    /\ chr' = rxBuf[rxTail]
    /\ UNCHANGED <<usart, state, rings, isr, callers, reg, idx, history>>

ReadAdvance ==
    /\ Step("rdAdvance", "ready")
    /\ rxTail' = Succ(rxTail, RxSize)
    /\ lastRead' = chr
    /\ rxPromise' = IF rxPromise > 0 THEN rxPromise - 1 ELSE 0
    /\ Return
    /\ UNCHANGED <<usart, state, rxHead, rxBuf, txRing, isr, locals, written,
                   txPromise, unreported>>

(* ret = _statuscheck(...) reports what _state holds now ... *)
GetStatus ==
    /\ Called("getStatus")
    /\ Step("ready", "gsLoad")
    /\ unreported' = {}
    /\ UNCHANGED <<usart, state, rings, isr, locals, written, lastRead, promises>>

(* ... and _state &= 3 is another load and a store. *)
GetStatusLoad ==
    /\ Step("gsLoad", "gsStore")
    /\ reg' = state
    /\ UNCHANGED <<usart, state, rings, isr, callers, idx, chr, history>>

ErrorsKept(flags) == flags
ErrorsCleared(flags) == flags \ Errors

GetStatusStore ==
    /\ Step("gsStore", "ready")
    /\ state' = ErrorsCleared(reg)
    /\ Return
    /\ UNCHANGED <<usart, rings, isr, locals, history>>

----------------------------------------------------------------------------
(* The interrupt handlers, and what goes on around the program. *)

Handler == isr = "none" /\ ie /\ UNCHANGED <<ie, pc, callers, locals>>

(* _do_rxc: a byte with a parity error is not stored, a full ring drops    *)
(* the byte; either way, and for a framing error or a hardware overflow,   *)
(* _state keeps a record.                                                  *)
RxcHandler ==
    LET errs == rxfifo[1].errs \cup (IF bufovf THEN {"v"} ELSE {})
        next == Succ(rxHead, RxSize)
        room == HasRoom(next, rxTail)
        seen == IF room \/ "p" \in errs THEN errs ELSE errs \cup {"V"}
    IN /\ RxcPending
       /\ Handler
       /\ ReadRXDATA
       /\ IF "p" \in errs \/ ~room
          THEN UNCHANGED <<rxBuf, rxHead>>
          ELSE /\ rxBuf' = [rxBuf EXCEPT ![rxHead] = rxfifo[1].byte]
               /\ rxHead' = next
       /\ state' = state \cup seen
       /\ unreported' = unreported \cup seen
       /\ fresh' = TRUE
       /\ Tick
       /\ UNCHANGED <<config, txWire, arrived, rxTail, txRing, isr, written,
                      lastRead, promises>>

(* _do_dre up to its store to STATUS ... *)
DreHandler ==
    /\ DrePending /\ ~RxcPending
    /\ Handler
    /\ isr' = "dre"
    /\ ClearTXCIF
    /\ Tick
    /\ UNCHANGED <<config, txdata, shift, sent, last, rxWire, state, rings, fresh,
                   history>>

(* The CTRLA to leave behind: no DRE interrupt once the ring is empty. *)
AfterSend(next) == IF txHead = next THEN ctrla \ {"DREIE"} ELSE ctrla

(* ... and from the store to TXDATAL on; nothing asks whether the ring     *)
(* holds a byte.  _poll_tx_data_empty() comes through here too.            *)
DreSend ==
    LET next == Succ(txTail, TxSize)
    IN /\ isr \in {"dre", "poll"}
       /\ PutTXDATA(txBuf[txTail])
       /\ ctrla' = AfterSend(next)
       /\ txTail' = next
       /\ isr' = "none"
       /\ fresh' = (isr = "dre")
       /\ Tick
       /\ UNCHANGED <<ctrlb, loopback, txcif, sent, last, rxWire, state, rxRing,
                      txHead, txBuf, ie, pc, callers, locals, history>>

(* _do_txc, half duplex only: throw our echo away and listen again. *)
EchoDiscarded == DiscardRx

AfterTxcStillDeaf == ctrla \ {"TXCIE"}
AfterTxc == (ctrla \ {"TXCIE"}) \cup {"RXCIE"}

TxcHandler ==
    /\ TxcPending /\ ~RxcPending /\ ~DrePending
    /\ Handler
    /\ EchoDiscarded
    /\ ctrla' = AfterTxc
    /\ fresh' = TRUE
    /\ Tick
    /\ UNCHANGED <<ctrlb, loopback, txWire, arrived, state, rings, isr, history>>

(* The line finishes a frame.  FramesPerWindow bounds how many it may      *)
(* finish while the CPU still has something to do.                         *)
FrameEnds ==
    /\ Quiescent \/ frames < FramesPerWindow[ie]
    /\ frames' = IF Quiescent THEN 0 ELSE frames + 1
    /\ EndOfFrame
    /\ UNCHANGED <<state, rings, ie, isr, fresh, pc, callers, locals, history>>

FrameArrives ==
    /\ arrived < IF written = 0 THEN MaxRx ELSE MaxBoth
    /\ \E errs \in LineErrors : Arrival(errs)
    /\ UNCHANGED <<state, rings, cpu, callers, locals, history>>

(* The program masks or unmasks interrupts between two calls. *)
SetInterrupts ==
    /\ pc = "ready" /\ CpuFree
    /\ ie' \in Contexts \ {ie}
    /\ fresh' = FALSE
    /\ Tick
    /\ UNCHANGED <<usart, state, rings, isr, pc, callers, locals, history>>

----------------------------------------------------------------------------
NewCall ==
    \/ Write \/ AvailableForWrite \/ Flush \/ End \/ Begin
    \/ Available \/ ReadNothing \/ Read \/ GetStatus
    \/ SetInterrupts

InWrite ==
    \/ WriteLoadState \/ WriteStoreState \/ WriteTestEmpty \/ WriteTestDREIF
    \/ FastLoadCtrla \/ FastClear \/ FastStoreCtrla \/ FastSend
    \/ SlowWait \/ SlowStore \/ SlowPublish \/ SlowLoadCtrla \/ SlowClear
    \/ SlowStoreCtrla

InCall ==
    \/ InWrite
    \/ FlushTest \/ FlushTestDREIE \/ FlushTestTXCIF
    \/ EndCTRLB \/ EndCTRLA \/ EndFlags \/ EndRx \/ EndState
    \/ BeginPoll \/ BeginTest \/ BeginMode \/ BeginHalf \/ BeginConfig
    \/ ReadFetch \/ ReadAdvance
    \/ GetStatusLoad \/ GetStatusStore

Handlers == RxcHandler \/ DreHandler \/ DreSend \/ TxcHandler

Line == FrameEnds \/ FrameArrives

Next == NewCall \/ InCall \/ Handlers \/ Line

(* The CPU executes what it has to execute and a frame takes a bounded     *)
(* time; nothing makes the program call anything or the other end send.    *)
Fairness ==
    /\ WF_vars(InCall)
    /\ WF_vars(Handlers)
    /\ WF_vars(FrameEnds)

Spec == Init /\ [][Next]_vars
FairSpec == Spec /\ Fairness
----------------------------------------------------------------------------
(* Properties *)

Labels ==
    {"ready", "wrLoadState", "wrStoreState", "wrEmpty", "wrDreif",
     "fastLoadCtrla", "fastClear", "fastStoreCtrla", "fastSend",
     "slowWait", "slowStore", "slowPublish", "slowLoadCtrla", "slowClear",
     "slowStoreCtrla", "flTest", "flDreie", "flTxcif",
     "endCtrlb", "endCtrla", "endFlags", "endRx", "endState",
     "bgPoll", "bgTest", "bgMode", "bgHalf", "bgConfig",
     "rdFetch", "rdAdvance", "gsLoad", "gsStore"}

(* The type of every variable: ring indices stay below the sizes the       *)
(* index masks of UART.cpp assume, _state and CTRLA hold known bits.       *)
TypeOK ==
    /\ UsartTypeOK
    /\ state \subseteq Flags
    /\ rxHead \in Slots(RxSize) /\ rxTail \in Slots(RxSize)
    /\ rxBuf \in Buffers(RxSize)
    /\ txHead \in Slots(TxSize) /\ txTail \in Slots(TxSize)
    /\ txBuf \in Buffers(TxSize)
    /\ ie \in BOOLEAN /\ isr \in {"none", "dre", "poll"} /\ fresh \in BOOLEAN
    /\ pc \in Labels
    /\ call \in {"none", "write", "flush", "end", "begin", "read", "getStatus"}
    /\ mode \in {"full", "half"}
    /\ reg \subseteq IntEnables \cup Flags
    /\ idx \in Slots(TxSize) /\ chr \in Nat
    /\ frames \in Nat
    /\ written \in Nat /\ lastRead \in Nat
    /\ rxPromise \in Nat /\ txPromise \in Nat
    /\ unreported \subseteq Errors

(* flush() and the flush in end() return only when every byte written is   *)
(* out of the shift register.  It is what the comment at UART.cpp:756      *)
(* says, "nothing is queued anymore ... and the hardware finished          *)
(* transmission".                                                          *)
FlushReturns == pc \in {"flTest", "flTxcif"} /\ pc' \in {"ready", "endCtrlb"}
FlushDone == [][FlushReturns => sent = written /\ shift = NoByte]_vars

(* The first half of that comment: when flush() returns, with interrupts   *)
(* on or off and however the handler, the poll and the line took turns,    *)
(* the ring is empty and the DRE interrupt off, so that end() may close    *)
(* the port without leaving a byte in the ring.                            *)
QueueFlushed ==
    [][FlushReturns => txHead = txTail /\ "DREIE" \notin ctrla]_vars

(* flush() waits for nothing that does not come: what it polls (UART.cpp:  *)
(* 749) is set, or a frame is going out that will set it, though write()'s *)
(* shortcut, the DRE handler and the poll all clear it.                    *)
Coming == txcif \/ shift # NoByte
FlushAnswered ==
    /\ pc = "flDreie" => Coming \/ "DREIE" \in ctrla
    /\ pc = "flTxcif" => Coming

(* An open port that does not listen, as in half duplex while it sends     *)
(* (HardwareSerial.h:319, "disable RX while TX"), has the TXC interrupt    *)
(* enabled instead, and a frame on its way whose end raises it.            *)
AboutToSend == pc \in {"slowStoreCtrla", "fastStoreCtrla", "fastSend"}
EarKept ==
    ctrlb # {} /\ "RXCIE" \notin ctrla
        => "TXCIE" \in ctrla /\ (Coming \/ "DREIE" \in ctrla \/ AboutToSend)

(* read() does not come back empty-handed while bytes that available()     *)
(* counted are due, and write() does not wait while room that              *)
(* availableForWrite() counted is left.                                    *)
ReadPromise == rxPromise <= Count(rxHead, rxTail, RxSize)
WritePromise == txPromise <= TxSize - 1 - Count(txHead, txTail, TxSize)

(* Received bytes that can be read are those the RXC handler stored, in    *)
(* that order and once each: the receive ring is a bounded queue.          *)
Rx == INSTANCE BoundedQueue WITH
    Capacity <- RxSize - 1, Clearable <- TRUE,
    queue <- Ring(rxBuf, rxHead, rxTail, RxSize), out <- lastRead
RxIsQueue == Rx!Spec

(* Ring, data register and shift register together are a bounded queue     *)
(* from write() to the line: nothing is lost, repeated, reordered or sent  *)
(* from a stale slot of the ring, whichever of the shortcut, the DRE       *)
(* handler and the poll sent it.                                           *)
Register(r) == IF r = NoByte THEN <<>> ELSE <<r>>
Tx == INSTANCE BoundedQueue WITH
    Capacity <- TxSize + 1, Clearable <- FALSE,
    queue <- Register(shift) \o Register(txdata)
             \o Ring(txBuf, txHead, txTail, TxSize),
    out <- last
TxIsQueue == Tx!Spec

(* getStatus() does not report an error twice: the error bits of _state    *)
(* are errors the RXC handler has seen since it last reported, wherever in *)
(* the load and store of _state the handler came in between                *)
(* (HardwareSerial.h:415, "Clear the errors we just reported").            *)
ReportedOnce ==
    pc \notin {"gsLoad", "gsStore"} => state \cap Errors \subseteq unreported

(* Every call returns: flush() and write() into a full ring do not hang,   *)
(* with interrupts on or off.                                              *)
CallsReturn == call # "none" ~> call = "none"

(* With interrupts on every byte written gets onto the line, with no       *)
(* further call.                                                           *)
Drains == \A n \in 1..MaxTx : written >= n ~> (sent >= n \/ ~ie)

(* Half duplex: with interrupts on the receiver is listened to again after *)
(* the last byte.                                                          *)
ListensAgain ==
    "TXCIE" \in ctrla ~> ("RXCIE" \in ctrla \/ ctrlb = {} \/ ~ie)
=============================================================================
