----------------------------- MODULE WireProofs -----------------------------
(***************************************************************************)
(* Proofs about Wire, for every length of the buffers, all messages and    *)
(* all answers, however many operations a program leaves over: the sleep   *)
(* guard of the client, what its onReceive() is given, what the host is    *)
(* told of a transmission, and what it reads.  As in the run, the client   *)
(* was not a host before, and no START comes while it handles a STOP.      *)
(***************************************************************************)
EXTENDS Wire, SequenceTheorems, TLAPS

Octets == Bytes \cup {Released}

Untouched == HeadAtBegin = {0} /\ Overlap = FALSE

(* What the host has in its buffer, by the loop it is in. *)
HostInv ==
    /\ data \in Octets /\ hostBuffer \in Seq(Octets)
    /\ head \in Nat /\ left \in Nat /\ loop \in {"none", "transmit", "receive"}
    /\ loop \in {"none", "transmit"} => Len(hostBuffer) = head
    /\ loop = "transmit" => left <= head
    /\ loop = "receive" => left > 0 /\ Len(hostBuffer) + left = head

ClientTyped ==
    /\ APIF \in BOOLEAN /\ AP \in BOOLEAN /\ DIR \in BOOLEAN /\ DIF \in BOOLEAN
    /\ listening \in BOOLEAN /\ open \in BOOLEAN
    /\ hostDataSent \in BOOLEAN /\ handling \in BOOLEAN /\ called \in BOOLEAN
    /\ CTRLA \in Modes /\ sleepStack \in Modes /\ wanted \in Modes
    /\ clientBuffer \in Seq(Octets) /\ headS = Len(clientBuffer) /\ tailS \in Nat

(* Whatever the bus tells the client comes after an address match, handled *)
(* or to be handled next; a STOP closes it.                                *)
Ordered ==
    /\ DIF \/ listening \/ open => called \/ (APIF /\ AP)
    /\ APIF /\ ~AP => called /\ ~DIF /\ ~listening /\ ~open
    /\ handling => APIF /\ ~AP /\ ~hostDataSent

(* The guard is set with the first match, and taken back with the STOP.    *)
Guarded ==
    /\ ~called => sleepStack = "off" /\ CTRLA = wanted /\ headS = 0
    /\ called => sleepStack = wanted /\ CTRLA = Lighter(wanted)

(* What is to be reported is what was written. *)
Reportable ==
    hostDataSent => /\ clientBuffer = written
                    /\ (APIF /\ AP) \/ ~DIR

ClientInv == ClientTyped /\ Ordered /\ Guarded /\ Reportable
WInv == HostInv /\ ClientInv

----------------------------------------------------------------------------
(* Lemmas *)

(* The host's calls and loops do not touch the client.                     *)
LEMMA HostLeavesClient ==
    ASSUME HostNext
    PROVE  UNCHANGED <<clientTwi, clientVars>>
  BY DEF HostNext, HostCall, HostLoop, Transmit, Receive, BeginTransmission, Write,
     EndTransmission, RequestFrom, Enter, SendAddress, TransmitRefused, TransmitByte,
     TransmitDone, TransmitTimeout, ReceiveRefused, ReceiveByte, ReceiveTimeout,
     hostTwi, clientTwi, bus

(* Neither does what the client does touch the host, but for the byte.     *)
LEMMA BusLeavesHost ==
    ASSUME Wires \/ Interrupts \/ Sketch
    PROVE  UNCHANGED hostVars
  BY DEF Wires, Interrupts, Sketch

(* The buffer is as long as the index says, in every loop.                 *)
LEMMA HostCallStep ==
    ASSUME HostInv, HostCall
    PROVE  HostInv'
<1> USE HostLengthAssumption DEF HostInv, Octets, bus, hostTwi, Idle
<1>1. CASE BeginTransmission
  BY <1>1 DEF BeginTransmission
<1>2. ASSUME NEW byte \in Bytes, Write(byte)
      PROVE  HostInv'
  BY <1>2 DEF Write
<1>3. CASE EndTransmission
  BY <1>3 DEF EndTransmission, Enter
<1>4. ASSUME NEW quantity \in 1..HostLength+1, RequestFrom(quantity)
      PROVE  HostInv'
  BY <1>4 DEF RequestFrom, Enter, Capped
<1> QED
  BY <1>1, <1>2, <1>3, <1>4 DEF HostCall

LEMMA Beginning ==
    ASSUME NEW S, NEW s \in Seq(S), NEW n \in Nat, n <= Len(s)
    PROVE  SubSeq(s, 1, n) \in Seq(S) /\ Len(SubSeq(s, 1, n)) = n
  BY SubSeqProperties

(* A loop that is left leaves the buffer as long as what was transferred.  *)
LEMMA LeaveStep ==
    ASSUME HostInv, loop \in {"transmit", "receive"}, NEW error, Leave(error)
    PROVE  /\ hostBuffer' \in Seq(Octets) /\ head' \in Nat /\ left' \in Nat
           /\ loop' = "none" /\ Len(hostBuffer') = head'
<1>1. head' \in Nat /\ head' <= Len(hostBuffer) /\ left' \in Nat /\ loop' = "none"
  BY DEF HostInv, Leave, LeaveWith
<1>2. hostBuffer' = SubSeq(hostBuffer, 1, head')
  BY DEF Leave
<1>3. hostBuffer' \in Seq(Octets) /\ Len(hostBuffer') = head'
  BY <1>1, <1>2, Beginning DEF HostInv
<1> QED
  BY <1>1, <1>3

LEMMA HostLoopStep ==
    ASSUME HostInv, HostLoop
    PROVE  HostInv'
<1> USE HostLengthAssumption DEF In, Poll
<1>1. ASSUME NEW which \in {"transmit", "receive"}, NEW dir, SendAddress(which, dir)
      PROVE  HostInv'
  BY <1>1 DEF SendAddress, Address, Order, HostInv, Octets
<1>2. CASE TransmitRefused
  <2>1. data' = data /\ Leave(Refusal)
    BY <1>2 DEF TransmitRefused, StopOr, Stop, hostTwi
  <2> QED
    BY <1>2, <2>1, LeaveStep DEF TransmitRefused, HostInv
<1>3. CASE TransmitByte
  <2>1. left # 0 /\ loop = "transmit"
    BY <1>3 DEF TransmitByte
  <2>2. head - left + 1 \in 1..Len(hostBuffer)
    BY <2>1 DEF HostInv
  <2>3. hostBuffer[head - left + 1] \in Octets
    BY <2>2 DEF HostInv
  <2> QED
    BY <1>3, <2>1, <2>3 DEF TransmitByte, Send, HostInv
<1>4. CASE TransmitDone
  <2>1. data' = data /\ Leave("SUCCESS")
    BY <1>4 DEF TransmitDone, StopOr, Stop, hostTwi
  <2> QED
    BY <1>4, <2>1, LeaveStep DEF TransmitDone, HostInv
<1>5. CASE TransmitTimeout
  <2>1. data' = data /\ Leave("TIMEOUT")
    BY <1>5 DEF TransmitTimeout, Stop
  <2> QED
    BY <1>5, <2>1, LeaveStep DEF TransmitTimeout, HostInv
<1>6. CASE ReceiveRefused
  <2>1. data' = data /\ Leave("ACK_ADR")
    BY <1>6 DEF ReceiveRefused, Stop
  <2> QED
    BY <1>6, <2>1, LeaveStep DEF ReceiveRefused, HostInv
<1>7. CASE ReceiveByte
  <2>1. /\ loop = "receive" /\ left' = left - 1
        /\ hostBuffer' = Append(hostBuffer, data)
        /\ data' = data
    BY <1>7 DEF ReceiveByte, AckAndGet, StopOr, Stop, hostTwi
  <2>2. hostBuffer' \in Seq(Octets) /\ Len(hostBuffer') = Len(hostBuffer) + 1
    BY <2>1 DEF HostInv
  <2>3. \/ left' # 0 /\ head' = head /\ loop' = loop
        \/ left' = 0 /\ head' = head - left' /\ loop' = "none"
    BY <1>7 DEF ReceiveByte, LeaveWith
  <2> QED
    BY <2>1, <2>2, <2>3 DEF HostInv
<1>8. CASE ReceiveTimeout
  <2>1. data' = data /\ Leave("TIMEOUT")
    BY <1>8 DEF ReceiveTimeout, bus, hostTwi
  <2> QED
    BY <1>8, <2>1, LeaveStep DEF ReceiveTimeout, HostInv
<1> QED
  BY <1>1, <1>2, <1>3, <1>4, <1>5, <1>6, <1>7, <1>8 DEF HostLoop, Transmit, Receive

(* What a command to the peripheral leaves behind.                         *)
LEMMA CommandStep ==
    ASSUME NEW goOn \in BOOLEAN, NEW ack \in BOOLEAN, NEW byte \in Octets,
           data \in Octets, DIF \in BOOLEAN, Command(goOn, ack, byte)
    PROVE  /\ APIF' = FALSE /\ listening' = goOn /\ data' \in Octets
           /\ UNCHANGED <<AP, DIR, RXACK, open>>
           /\ DIF' = \/ APIF /\ AP /\ DIR /\ goOn
                     \/ DIF /\ APIF /\ ~AP
  BY DEF Command, Written, Received, hostTwi, Octets

(* What the bus does by itself keeps the order of things.                  *)
LEMMA WiresStep ==
    ASSUME Untouched, WInv, Wires
    PROVE  ClientInv' /\ data' \in Octets
<1> USE DEF Untouched, WInv, ClientInv, ClientTyped, Ordered, Guarded, Reportable, Held,
         hostTwi, clientVars, buffer, driver, guard, cpu, transfer
<1>1. CASE Call /\ (handling => Overlap)
  BY <1>1 DEF Wires, Call, Doing, HostInv
<1>2. CASE Transfer
  BY <1>2 DEF Wires, Transfer, Written, Octets, HostInv
<1>3. CASE Fetch
  BY <1>3 DEF Wires, Fetch, Received, Octets, HostInv
<1>4. CASE Refuse
  BY <1>4 DEF Wires, Refuse, HostInv
<1>5. CASE Free
  BY <1>5 DEF Wires, Free, HostInv
<1> QED
  BY <1>1, <1>2, <1>3, <1>4, <1>5 DEF Wires

(* An address match sets the guard, if it is the transaction's first.      *)
LEMMA MatchStep ==
    ASSUME WInv, NEW filled \in Seq(Octets), NEW goOn \in BOOLEAN,
           AddressMatch(filled), Command(goOn, goOn, Released),
           hostDataSent' = ~DIR, ~DIR => filled = <<>>
    PROVE  ClientInv' /\ data' \in Octets
<1>1. /\ ~handling /\ APIF /\ AP
      /\ clientBuffer' = filled /\ headS' = Len(filled) /\ tailS' = 0 /\ called'
      /\ written' = (IF DIR THEN NoWrite ELSE <<>>)
      /\ IF headS = 0 THEN PauseDeepSleep ELSE UNCHANGED guard
      /\ UNCHANGED <<handling, wanted>>
  BY DEF AddressMatch, Interrupt, Entered
<1>2. /\ APIF' = FALSE /\ listening' = goOn /\ data' \in Octets
      /\ UNCHANGED <<AP, DIR, RXACK, open>>
      /\ DIF' \in BOOLEAN
  <2>1. data \in Octets /\ DIF \in BOOLEAN
    BY DEF WInv, HostInv, ClientInv, ClientTyped
  <2>2. Released \in Octets
    BY DEF Octets
  <2> QED
    BY <2>1, <2>2, CommandStep, <1>1
<1>3. sleepStack' = wanted /\ CTRLA' = Lighter(wanted) /\ wanted \in Modes
      /\ CTRLA' \in Modes
  BY <1>1 DEF WInv, ClientInv, ClientTyped, Guarded, PauseDeepSleep, guard, Lighter, Modes
<1>4. ClientTyped'
  BY <1>1, <1>2, <1>3 DEF WInv, ClientInv, ClientTyped
<1>5. Ordered' /\ Guarded' /\ Reportable'
  BY <1>1, <1>2, <1>3 DEF WInv, ClientInv, ClientTyped, Ordered, Guarded, Reportable
<1> QED
  BY <1>2, <1>4, <1>5 DEF ClientInv

(* The handler, one lemma's step for each way through it.                  *)
LEMMA HandlerStep ==
    ASSUME WInv, Handler
    PROVE  ClientInv' /\ data' \in Octets
<1>0. /\ data \in Octets /\ DIF \in BOOLEAN /\ APIF \in BOOLEAN /\ AP \in BOOLEAN
      /\ DIR \in BOOLEAN /\ Released \in Octets /\ <<>> \in Seq(Octets)
  BY DEF WInv, HostInv, ClientInv, ClientTyped, Octets
<1>1. CASE HandleWrite
  BY <1>0, <1>1, MatchStep DEF HandleWrite, Respond
<1>2. ASSUME NEW filled \in Answers, HandleRead(filled)
      PROVE  ClientInv' /\ data' \in Octets
  <2>1. filled \in Seq(Octets)
    <3>1. filled \in Seq(Bytes)
      BY AnswersAssumption
    <3> QED
      BY <3>1 DEF Octets
  <2>2. DIR /\ AddressMatch(filled) /\ hostDataSent' = FALSE
    BY <1>2 DEF HandleRead
  <2>3. \E goOn \in BOOLEAN : Command(goOn, goOn, Released)
    BY <1>2 DEF HandleRead, Reject, Respond
  <2> QED
    BY <1>0, <2>1, <2>2, <2>3, MatchStep
<1>3. CASE HandleStop
  <2>1. /\ APIF /\ ~AP /\ ~handling
        /\ handling' /\ hostDataSent' = FALSE
        /\ UNCHANGED <<bus, buffer, guard, transfer, wanted>>
    BY <1>3 DEF HandleStop, Interrupt
  <2> QED
    BY <1>0, <2>1 DEF WInv, ClientInv, ClientTyped, Ordered, Guarded, Reportable,
       bus, hostTwi, clientTwi, buffer, guard, transfer
<1>4. CASE FinishStop
  <2>1. /\ handling /\ handling' = FALSE /\ called' = FALSE
        /\ CTRLA' = sleepStack /\ sleepStack' = "off"
        /\ clientBuffer' = <<>> /\ headS' = 0 /\ tailS' = 0
        /\ UNCHANGED <<hostDataSent, wanted>>
    BY <1>4 DEF FinishStop, RestoreSleep, driver
  <2>2. Command(FALSE, TRUE, Released)
    BY <1>4 DEF FinishStop, Complete
  <2>3. /\ APIF' = FALSE /\ listening' = FALSE /\ data' \in Octets
        /\ UNCHANGED <<AP, DIR, RXACK, open>>
        /\ DIF' = (DIF /\ APIF /\ ~AP)
    BY <1>0, <2>2, CommandStep
  <2> QED
    BY <1>0, <2>1, <2>3 DEF WInv, ClientInv, ClientTyped, Ordered, Guarded, Reportable, Modes
<1>5. CASE HandleByte
  <2>1. /\ ~APIF /\ DIF /\ ~DIR /\ ~handling
        /\ clientBuffer' = Append(clientBuffer, data) /\ headS' = headS + 1
        /\ written' = Append(written, data)
        /\ UNCHANGED <<tailS, hostDataSent, CTRLA, sleepStack, called, handling, wanted>>
    BY <1>5 DEF HandleByte, Data, Interrupt, Entered, driver, guard
  <2>2. \E goOn \in BOOLEAN : Command(goOn, goOn, Released)
    BY <1>5 DEF HandleByte, Reject, Respond
  <2>3. /\ APIF' = FALSE /\ listening' \in BOOLEAN /\ data' \in Octets
        /\ UNCHANGED <<AP, DIR, RXACK, open>>
        /\ DIF' = FALSE
    BY <1>0, <2>1, <2>2, CommandStep
  <2>4. clientBuffer' \in Seq(Octets) /\ headS' = Len(clientBuffer')
    BY <1>0, <2>1 DEF WInv, ClientInv, ClientTyped
  <2>5. ClientTyped' /\ Ordered' /\ Guarded'
    BY <1>0, <2>1, <2>3, <2>4 DEF WInv, ClientInv, ClientTyped, Ordered, Guarded
  <2>6. Reportable'
    BY <2>1, <2>3 DEF WInv, ClientInv, Reportable
  <2> QED
    BY <2>3, <2>5, <2>6 DEF ClientInv
<1>6. CASE HandleRefused
  <2>1. /\ ~APIF /\ DIF /\ DIR /\ ~handling
        /\ clientBuffer' = <<>> /\ headS' = 0 /\ tailS' = 0
        /\ UNCHANGED <<hostDataSent, CTRLA, sleepStack, called, written, handling, wanted>>
    BY <1>6 DEF HandleRefused, Data, Interrupt, Entered, guard, transfer
  <2>2. Command(FALSE, TRUE, Released)
    BY <1>6 DEF HandleRefused, Complete
  <2>3. /\ APIF' = FALSE /\ listening' = FALSE /\ data' \in Octets
        /\ UNCHANGED <<AP, DIR, RXACK, open>>
        /\ DIF' = FALSE
    BY <1>0, <2>1, <2>2, CommandStep
  <2> QED
    BY <1>0, <2>1, <2>3 DEF WInv, ClientInv, ClientTyped, Ordered, Guarded, Reportable
<1>7. CASE HandleGet
  <2>1. /\ ~APIF /\ DIF /\ DIR /\ ~handling
        /\ UNCHANGED <<hostDataSent, CTRLA, sleepStack, called, written, handling, wanted>>
    BY <1>7 DEF HandleGet, Data, Interrupt, Entered, guard, transfer
  <2>2. /\ clientBuffer' \in Seq(Octets) /\ headS' = Len(clientBuffer') /\ tailS' \in Nat
    <3>1. CASE tailS < headS
      BY <1>7, <3>1 DEF HandleGet, WInv, ClientInv, ClientTyped
    <3>2. CASE ~(tailS < headS)
      <4>1. clientBuffer' = <<>> /\ headS' = 0 /\ tailS' = 0
        BY <1>7, <3>2 DEF HandleGet
      <4> QED
        BY <4>1
    <3> QED
      BY <3>1, <3>2
  <2>3. \E goOn \in BOOLEAN, byte \in Octets : Command(goOn, TRUE, byte)
    <3>1. CASE tailS < headS
      <4>1. clientBuffer[tailS + 1] \in Octets
        BY <3>1 DEF WInv, ClientInv, ClientTyped
      <4> QED
        BY <1>7, <3>1, <4>1 DEF HandleGet, Give
    <3>2. CASE ~(tailS < headS)
      BY <1>0, <1>7, <3>2 DEF HandleGet, Complete
    <3> QED
      BY <3>1, <3>2
  <2>4. /\ APIF' = FALSE /\ listening' \in BOOLEAN /\ data' \in Octets
        /\ UNCHANGED <<AP, DIR, RXACK, open>>
        /\ DIF' = FALSE
    BY <1>0, <2>1, <2>3, CommandStep
  <2>5. called
    BY <2>1 DEF WInv, ClientInv, Ordered
  <2> QED
    BY <1>0, <2>1, <2>2, <2>4, <2>5
    DEF WInv, ClientInv, ClientTyped, Ordered, Guarded, Reportable
<1> QED
  BY <1>1, <1>2, <1>3, <1>4, <1>5, <1>6, <1>7 DEF Handler, HandleRequest

(* The program of the client sets its sleep mode between transactions.     *)
LEMMA SketchStep ==
    ASSUME WInv, Sketch
    PROVE  ClientInv' /\ data' \in Octets
<1> USE DEF WInv, HostInv, ClientInv, ClientTyped, Ordered, Guarded, Reportable,
         bus, hostTwi, clientTwi, buffer, driver, guard, cpu, transfer
<1>1. CASE SetInterrupts
  BY <1>1 DEF SetInterrupts
<1>2. CASE SetSleep
  BY <1>2 DEF SetSleep, Modes
<1>3. CASE SleepCpu
  BY <1>3 DEF SleepCpu
<1>4. CASE GetBytesRead
  BY <1>4 DEF GetBytesRead
<1> QED
  BY <1>1, <1>2, <1>3, <1>4 DEF Sketch, ClientProgram

LEMMA InvariantStep ==
    ASSUME Untouched, WInv, [Next]_vars
    PROVE  WInv'
<1>1. CASE HostNext
  <2>1. HostInv'
    BY <1>1, HostCallStep, HostLoopStep DEF HostNext, WInv
  <2>2. ClientInv'
    BY <1>1, HostLeavesClient DEF WInv, ClientInv, ClientTyped, Ordered, Guarded,
       Reportable, clientTwi, clientVars, buffer, driver, guard, cpu, transfer
  <2> QED
    BY <2>1, <2>2 DEF WInv
<1>2. CASE Wires \/ Interrupts \/ Sketch
  <2>1. ClientInv' /\ data' \in Octets
    BY <1>2, WiresStep, HandlerStep, SketchStep DEF Interrupts
  <2>2. HostInv'
    BY <1>2, <2>1, BusLeavesHost DEF WInv, HostInv, hostVars
  <2> QED
    BY <2>1, <2>2 DEF WInv
<1>3. CASE UNCHANGED vars
  BY <1>3 DEF vars, bus, hostTwi, clientTwi, hostVars, clientVars, buffer, driver, guard,
     cpu, transfer, WInv, HostInv, ClientInv, ClientTyped, Ordered, Guarded, Reportable
<1> QED
  BY <1>1, <1>2, <1>3 DEF Next

----------------------------------------------------------------------------
(* The sleep guard and the report *)

LEMMA Invariance == Untouched => (Spec => []WInv)
<1>1. Untouched /\ Init => WInv
  <2> SUFFICES ASSUME Untouched, Init
               PROVE  WInv
    OBVIOUS
  <2>1. <<>> \in Seq(Octets) /\ Len(<<>>) = 0
    OBVIOUS
  <2>2. HostInv
    BY <2>1 DEF Init, BusInit, HostInit, HostInv, Octets
  <2>3. ClientInv
    BY <2>1 DEF Untouched, Init, BusInit, ClientInit, ClientInv, ClientTyped, Ordered,
       Guarded, Reportable, Modes
  <2> QED
    BY <2>2, <2>3 DEF WInv
<1>2. (Untouched /\ WInv) /\ [Next]_vars => (Untouched /\ WInv)'
  BY InvariantStep DEF Untouched
<1> QED
  BY <1>1, <1>2, PTL DEF Spec

(* From the address match to the STOP the client's CPU cannot enter a      *)
(* sleep from which a byte does not wake it, and after the STOP the        *)
(* program's sleep mode is back.                                           *)
THEOREM NeverDeepAsleep == Untouched => (Spec => []SleepKept)
<1>1. WInv => SleepKept
  BY DEF WInv, ClientInv, ClientTyped, Guarded, SleepKept, Lighter, Modes
<1> QED
  BY <1>1, Invariance, PTL

(* onReceive() is given what the host wrote in this write, and all of it.  *)
THEOREM ReportIsWhatWasWritten == Untouched => (Spec => ReportsWhatWasWritten)
<1>1. ASSUME WInv, OnReceive
      PROVE  ReceivedData = written
  <2>1. clientBuffer = written /\ clientBuffer \in Seq(Octets) /\ headS = Len(clientBuffer)
    BY <1>1 DEF OnReceive, WInv, ClientInv, ClientTyped, Reportable
  <2>2. SubSeq(clientBuffer, 1, Len(clientBuffer)) = clientBuffer
    BY <2>1
  <2> QED
    BY <2>1, <2>2 DEF ReceivedData
<1>2. WInv /\ [Next]_vars => [(Interrupts /\ OnReceive) => ReceivedData = written]_vars
  BY <1>1
<1> QED
  BY <1>2, Invariance, PTL DEF Spec, ReportsWhatWasWritten
----------------------------------------------------------------------------
(* What is on its way between the two ends                                 *)

Ops == {"write", "read", "send", "get", "stop"}

(* A byte is ordered only when everything before it has been done.         *)
Lines == {l \in Seq(Ops) : \A i \in 2..Len(l) : l[i] \notin {"send", "get"}}
First(l) == IF l = <<>> THEN "none" ELSE l[1]
Final(l) == IF l = <<>> THEN "none" ELSE l[Len(l)]

(* What the flags at either end say of the operation in hand.              *)
FlagsTyped ==
    /\ line \in Lines
    /\ WIF \in BOOLEAN /\ RIF \in BOOLEAN /\ NACK \in BOOLEAN /\ unacked \in BOOLEAN
    /\ RXACK \in BOOLEAN /\ checkNack \in BOOLEAN
    /\ transmitted \in 0..CountWrap-1 /\ base \in 0..CountWrap-1
    /\ answer \in Seq(Octets)

InHand ==
    /\ WIF \/ RIF => line = <<>>
    /\ APIF /\ AP => /\ ~DIF /\ ~unacked
                     /\ First(line) = IF DIR THEN "read" ELSE "write"
    /\ DIF => listening /\ ~unacked /\ line # <<>>
    /\ DIF /\ ~DIR => First(line) = "send"
    /\ listening => /\ First(line) = "get" => DIR
                    /\ First(line) = "send" => ~DIR

(* The client looks for a refusal exactly when there may be one: the flag  *)
(* in the status may be of the read before.                                *)
Refusals ==
    /\ unacked => First(line) # "get"
    /\ unacked /\ listening => DIR /\ checkNack
    /\ DIF /\ DIR => (Refused <=> First(line) # "get")
    /\ Refused => listening /\ ((DIF /\ DIR) \/ unacked \/ First(line) = "get")
    /\ DIF /\ DIR /\ RXACK /\ First(line) = "get" => tailS < headS

(* A transmission: its address is on its way, has been answered, a byte is *)
(* on its way, has been answered.                                          *)
Writing == ~APIF /\ ~DIR
Transmitting(sent) ==
    \/ /\ stat = 1 /\ left = head /\ Final(line) = "write"
    \/ /\ stat = 1 /\ left = head /\ line = <<>>
       /\ WIF /\ ~NACK => Writing /\ listening /\ written = <<>>
    \/ /\ stat = 3 /\ sent > 0 /\ Len(line) = 1 /\ First(line) = "send"
       /\ Writing /\ listening
       /\ data = hostBuffer[sent] /\ written = SubSeq(hostBuffer, 1, sent - 1)
    \/ /\ stat = 3 /\ sent > 0 /\ line = <<>>
       /\ Writing /\ (~NACK => listening)
       /\ written = SubSeq(hostBuffer, 1, sent)

(* A read: its address is on its way, or was refused, the next byte is on  *)
(* its way, has come.                                                      *)
Progress(n) ==
    /\ ~APIF /\ DIR
    /\ listening => clientBuffer = answer /\ tailS = n /\ n <= Len(answer) /\ Given = n
    /\ ~listening => n > Len(answer) /\ Given = Len(answer) + 1
Reading(got) ==
    /\ head <= HostLength
    /\ \/ Final(line) = "read" /\ hostBuffer = <<>>
       \/ line = <<>> /\ WIF
       \/ /\ Len(line) = 1 /\ First(line) = "get" /\ ~WIF
          /\ Progress(got) /\ hostBuffer = Expected(got)
       \/ /\ line = <<>> /\ RIF /\ ~WIF /\ unacked
          /\ Progress(got + 1) /\ hostBuffer = Expected(got)
          /\ data = Expected(got + 1)[got + 1]

BusInv == FlagsTyped /\ InHand /\ Refusals
TransferInv ==
    /\ loop = "transmit" /\ stat = 0 => left = head
    /\ loop = "transmit" /\ stat # 0 => Transmitting(head - left)
    /\ loop = "receive" => head <= HostLength
    /\ loop = "receive" /\ stat = 0 => hostBuffer = <<>>
    /\ loop = "receive" /\ stat # 0 => Reading(Len(hostBuffer))
DInv == BusInv /\ TransferInv
----------------------------------------------------------------------------
(* Operations on the line *)

LEMMA LineEnds ==
    ASSUME NEW l \in Lines
    PROVE  /\ l = <<>> <=> First(l) = "none"
           /\ l = <<>> <=> Final(l) = "none"
           /\ l = <<>> <=> Len(l) = 0
           /\ Len(l) = 1 => Final(l) = First(l)
           /\ l # <<>> => Head(l) = First(l)
           /\ Len(l) \in Nat
<1>1. l \in Seq(Ops) /\ Len(l) \in Nat
  BY DEF Lines
<1>2. l = <<>> <=> Len(l) = 0
  BY <1>1
<1>3. l # <<>> => l[1] \in Ops /\ l[Len(l)] \in Ops /\ Head(l) = l[1]
  BY <1>1, <1>2
<1> QED
  BY <1>1, <1>2, <1>3 DEF First, Final, Ops

LEMMA LineOrder ==
    ASSUME NEW l \in Lines, NEW op \in Ops, op \in {"send", "get"} => l = <<>>
    PROVE  /\ Append(l, op) \in Lines /\ Append(l, op) # <<>>
           /\ First(Append(l, op)) = IF l = <<>> THEN op ELSE First(l)
           /\ Final(Append(l, op)) = op
           /\ l = <<>> => Len(Append(l, op)) = 1
<1>1. l \in Seq(Ops) /\ Len(l) \in Nat
  BY DEF Lines
<1>2. /\ Append(l, op) \in Seq(Ops) /\ Len(Append(l, op)) = Len(l) + 1
      /\ Append(l, op)[Len(l) + 1] = op
      /\ \A i \in 1..Len(l) : Append(l, op)[i] = l[i]
  BY <1>1
<1>3. l = <<>> <=> Len(l) = 0
  BY <1>1
<1>4. \A i \in 2..Len(Append(l, op)) : Append(l, op)[i] \notin {"send", "get"}
  BY <1>1, <1>2, <1>3 DEF Lines
<1>5. Append(l, op) # <<>> /\ op \in Ops
  BY <1>1, <1>2
<1>6. First(Append(l, op)) = IF l = <<>> THEN op ELSE First(l)
  BY <1>1, <1>2, <1>3, <1>5 DEF First
<1>7. Final(Append(l, op)) = op
  BY <1>1, <1>2, <1>5 DEF Final
<1>8. Append(l, op) \in Lines
  BY <1>2, <1>4 DEF Lines
<1>9. l = <<>> => Len(Append(l, op)) = 1
  BY <1>2, <1>3
<1> QED
  BY <1>5, <1>6, <1>7, <1>8, <1>9

LEMMA LineDone ==
    ASSUME NEW l \in Lines, l # <<>>
    PROVE  /\ Tail(l) \in Lines
           /\ Len(l) = 1 <=> Tail(l) = <<>>
           /\ First(Tail(l)) \notin {"send", "get"}
           /\ Len(l) # 1 => Final(Tail(l)) = Final(l)
<1>1. l \in Seq(Ops) /\ Len(l) \in Nat \ {0}
  BY DEF Lines
<1>2. /\ Tail(l) \in Seq(Ops) /\ Len(Tail(l)) = Len(l) - 1
      /\ \A i \in 1..Len(Tail(l)) : Tail(l)[i] = l[i + 1]
  BY <1>1
<1>3. Tail(l) = <<>> <=> Len(Tail(l)) = 0
  <2>1. \A s \in Seq(Ops) : s = <<>> <=> Len(s) = 0
    OBVIOUS
  <2> QED
    BY <1>2, <2>1
<1>4. \A i \in 1..Len(Tail(l)) : Tail(l)[i] \notin {"send", "get"}
  <2> TAKE i \in 1..Len(Tail(l))
  <2>1. i + 1 \in 2..Len(l) /\ Tail(l)[i] = l[i + 1]
    <3>1. i \in Nat /\ 1 <= i /\ i <= Len(l) - 1
      BY <1>2
    <3> QED
      BY <3>1, <1>1, <1>2
  <2>2. \A j \in 2..Len(l) : l[j] \notin {"send", "get"}
    BY DEF Lines
  <2> QED
    BY <2>1, <2>2
<1>5. First(Tail(l)) \notin {"send", "get"}
  BY <1>2, <1>3, <1>4 DEF First
<1>6. Len(l) # 1 => Final(Tail(l)) = Final(l)
  BY <1>1, <1>2, <1>3 DEF Final
<1>7. \A i \in 2..Len(Tail(l)) : Tail(l)[i] \notin {"send", "get"}
  BY <1>2, <1>4
<1>8. Tail(l) \in Lines
  BY <1>2, <1>7 DEF Lines
<1>9. Len(l) = 1 <=> Tail(l) = <<>>
  BY <1>1, <1>2, <1>3
<1> QED
  BY <1>5, <1>6, <1>8, <1>9

LEMMA LineGet ==
    ASSUME NEW l \in Lines, l # <<>>
    PROVE  /\ <<"get">> \o Tail(l) \in Lines /\ <<"get">> \o Tail(l) # <<>>
           /\ First(<<"get">> \o Tail(l)) = "get"
           /\ Len(<<"get">> \o Tail(l)) = Len(l)
           /\ Len(l) # 1 => Final(<<"get">> \o Tail(l)) = Final(l)
<1> DEFINE g == <<"get">> \o Tail(l)
<1>1. l \in Seq(Ops) /\ Len(l) \in Nat \ {0}
  BY DEF Lines
<1>2. /\ Tail(l) \in Seq(Ops) /\ Len(Tail(l)) = Len(l) - 1
      /\ \A i \in 1..Len(Tail(l)) : Tail(l)[i] = l[i + 1]
  BY <1>1
<1>3. <<"get">> \in Seq(Ops) /\ Len(<<"get">>) = 1 /\ <<"get">>[1] = "get"
  BY DEF Ops
<1>4. /\ g \in Seq(Ops) /\ Len(g) = Len(l)
      /\ g[1] = "get" /\ \A i \in 2..Len(l) : g[i] = l[i]
  BY <1>1, <1>2, <1>3
<1>5. g # <<>>
  BY <1>1, <1>4
<1> HIDE DEF g
<1>6. g \in Lines /\ g # <<>> /\ First(g) = "get" /\ Len(g) = Len(l)
  BY <1>1, <1>4, <1>5 DEF Lines, First
<1>7. Len(l) # 1 => Final(g) = Final(l)
  BY <1>1, <1>4, <1>5 DEF Final
<1> QED
  BY <1>6, <1>7 DEF g
----------------------------------------------------------------------------
(* The count of bytes, and what a read expects *)

LEMMA Difference ==
    ASSUME NEW t \in 0..CountWrap-1, NEW b \in 0..CountWrap-1
    PROVE  (t + CountWrap - b) % CountWrap = IF t >= b THEN t - b ELSE t + CountWrap - b
<1>1. CountWrap \in Nat \ {0} /\ t \in Nat /\ b \in Nat /\ t < CountWrap /\ b < CountWrap
  BY WrapAssumption
<1>2. \A n \in 0..CountWrap-1 : n % CountWrap = n /\ (n + CountWrap) % CountWrap = n
  BY <1>1, Z3
<1>3. CASE t >= b
  <2>1. t - b \in 0..CountWrap-1 /\ t + CountWrap - b = (t - b) + CountWrap
    BY <1>1, <1>3
  <2> QED
    BY <1>2, <1>3, <2>1
<1>4. CASE ~(t >= b)
  <2>1. t + CountWrap - b \in 0..CountWrap-1
    BY <1>1, <1>4
  <2> QED
    BY <1>2, <1>4, <2>1
<1> QED
  BY <1>3, <1>4

LEMMA Successor ==
    ASSUME NEW t \in 0..CountWrap-1
    PROVE  (t + 1) % CountWrap = IF t + 1 = CountWrap THEN 0 ELSE t + 1
<1>1. CountWrap \in Nat \ {0} /\ t \in Nat /\ t < CountWrap
  BY WrapAssumption
<1>2. \A n \in 0..CountWrap-1 : n % CountWrap = n /\ CountWrap % CountWrap = 0
  BY <1>1, Z3
<1> QED
  BY <1>1, <1>2

(* A byte handed out counts one, as long as the count does not come round. *)
LEMMA CountStep ==
    ASSUME transmitted \in 0..CountWrap-1, base \in 0..CountWrap-1, base' = base,
           Count, Given + 1 < CountWrap
    PROVE  Given' = Given + 1 /\ transmitted' \in 0..CountWrap-1
<1>1. CountWrap \in Nat \ {0}
  BY WrapAssumption
<1>2. transmitted' = IF transmitted + 1 = CountWrap THEN 0 ELSE transmitted + 1
  BY Successor DEF Count
<1>3. transmitted' \in 0..CountWrap-1
  BY <1>1, <1>2
<1>4. Given = IF transmitted >= base THEN transmitted - base
              ELSE transmitted + CountWrap - base
  BY Difference DEF Given
<1>5. Given' = IF transmitted' >= base THEN transmitted' - base
               ELSE transmitted' + CountWrap - base
  BY <1>3, Difference DEF Given
<1> HIDE DEF Given
<1> QED
  BY <1>1, <1>2, <1>3, <1>4, <1>5

(* Reading the count does not change what has been given since the match.  *)
LEMMA CountRead ==
    ASSUME transmitted \in 0..CountWrap-1, base \in 0..CountWrap-1,
           transmitted' = 0, base' = (base + CountWrap - transmitted) % CountWrap
    PROVE  Given' = Given /\ transmitted' \in 0..CountWrap-1 /\ base' \in 0..CountWrap-1
<1>1. CountWrap \in Nat \ {0}
  BY WrapAssumption
<1>2. base' = IF base >= transmitted THEN base - transmitted
              ELSE base + CountWrap - transmitted
  BY Difference
<1>3. base' \in 0..CountWrap-1 /\ transmitted' \in 0..CountWrap-1
  BY <1>1, <1>2
<1>4. Given = IF transmitted >= base THEN transmitted - base
              ELSE transmitted + CountWrap - base
  BY Difference DEF Given
<1>5. Given' = IF transmitted' >= base' THEN transmitted' - base'
               ELSE transmitted' + CountWrap - base'
  BY <1>3, Difference DEF Given
<1> HIDE DEF Given
<1> QED
  BY <1>1, <1>2, <1>3, <1>4, <1>5

(* From a match on, nothing has been given.                                *)
LEMMA CountMatch ==
    ASSUME transmitted \in 0..CountWrap-1, transmitted' = transmitted, base' = transmitted
    PROVE  Given' = 0 /\ base' \in 0..CountWrap-1
<1>1. Given' = IF transmitted' >= base' THEN transmitted' - base'
               ELSE transmitted' + CountWrap - base'
  BY Difference DEF Given
<1> HIDE DEF Given
<1> QED
  BY <1>1
----------------------------------------------------------------------------
(* The steps of the host *)

LEMMA CallDelivers ==
    ASSUME WInv, DInv, HostCall, UNCHANGED clientVars
    PROVE  DInv'
<1> USE HostLengthAssumption DEF DInv
<1>1. UNCHANGED <<bus, clientVars>> /\ loop = "none"
  BY DEF HostCall, BeginTransmission, Write, EndTransmission, RequestFrom, Enter, Idle
<1>2. BusInv'
  BY <1>1 DEF BusInv, FlagsTyped, InHand, Refusals, Refused, bus, hostTwi, clientTwi,
     clientVars, driver, transfer, buffer
<1>3. CASE BeginTransmission \/ \E byte \in Bytes : Write(byte)
  BY <1>2, <1>3, <1>1 DEF BeginTransmission, Write, TransferInv
<1>4. CASE EndTransmission
  BY <1>2, <1>4 DEF EndTransmission, Enter, TransferInv
<1>5. ASSUME NEW quantity \in 1..HostLength+1, RequestFrom(quantity)
      PROVE  DInv'
  BY <1>2, <1>5 DEF RequestFrom, Enter, Capped, TransferInv
<1> QED
  BY <1>3, <1>4, <1>5 DEF HostCall

(* An operation is ordered.                                                *)
LEMMA OrderStep ==
    ASSUME WInv, BusInv, NEW op \in Ops, Order(op), op \in {"send", "get"} => line = <<>>,
           UNCHANGED <<clientTwi, clientVars>>, unacked' = (unacked /\ op # "get"),
           listening => (op = "get" => DIR) /\ (op = "send" => ~DIR),
           op = "get" => unacked
    PROVE  /\ BusInv' /\ line' # <<>> /\ ~WIF' /\ Final(line') = op
           /\ line = <<>> => Len(line') = 1 /\ First(line') = op
<1>1. line \in Lines /\ line' = Append(line, op)
  BY DEF BusInv, FlagsTyped, Order
<1>2. /\ line' \in Lines /\ line' # <<>>
      /\ First(line') = IF line = <<>> THEN op ELSE First(line)
      /\ Final(line') = op /\ (line = <<>> => Len(line') = 1)
  BY <1>1, LineOrder
<1>3. /\ line = <<>> <=> First(line) = "none"
      /\ line' = <<>> <=> First(line') = "none"
  BY <1>1, <1>2, LineEnds
<1>4. /\ ~WIF' /\ ~RIF' /\ ~NACK'
      /\ UNCHANGED <<APIF, AP, DIR, DIF, RXACK, listening, checkNack, transmitted, base,
                     answer, tailS, headS>>
  BY DEF Order, clientTwi, clientVars, driver, transfer, buffer
<1>5. FlagsTyped'
  <2>1. unacked' \in BOOLEAN
    OBVIOUS
  <2>2. WIF' \in BOOLEAN /\ RIF' \in BOOLEAN /\ NACK' \in BOOLEAN
    BY DEF Order
  <2> QED
    BY <1>2, <1>4, <2>1, <2>2 DEF BusInv, FlagsTyped
<1>6. InHand'
  <2>1. APIF \in BOOLEAN /\ AP \in BOOLEAN /\ DIF \in BOOLEAN /\ DIR \in BOOLEAN
        /\ unacked \in BOOLEAN /\ listening \in BOOLEAN
    BY DEF BusInv, FlagsTyped, WInv, ClientInv, ClientTyped
  <2>2. /\ APIF /\ AP => /\ ~DIF /\ ~unacked
                         /\ First(line) = IF DIR THEN "read" ELSE "write"
        /\ DIF => listening /\ ~unacked /\ line # <<>>
        /\ DIF /\ ~DIR => First(line) = "send"
        /\ listening => /\ First(line) = "get" => DIR
                        /\ First(line) = "send" => ~DIR
    BY DEF BusInv, InHand
  <2>3. DIF => First(line') = First(line) /\ ~unacked'
    BY <1>2, <2>1, <2>2
  <2>4. APIF /\ AP => First(line') = First(line) /\ ~unacked'
    BY <1>2, <1>3, <2>1, <2>2
  <2>5. listening => /\ First(line') = "get" => DIR
                     /\ First(line') = "send" => ~DIR
    BY <1>2, <2>1, <2>2
  <2> QED
    BY <1>2, <1>4, <2>2, <2>3, <2>4, <2>5 DEF InHand
<1>7. Refusals'
  BY <1>2, <1>3, <1>4 DEF BusInv, FlagsTyped, Refusals, Refused, InHand
<1> QED
  BY <1>2, <1>4, <1>5, <1>6, <1>7 DEF BusInv

(* A loop is left, with a STOP or without.                                 *)
LEMMA LeaveDelivers ==
    ASSUME WInv, DInv, loop' = "none", UNCHANGED <<clientTwi, clientVars>>,
           Stop \/ UNCHANGED <<line, hostTwi>>
    PROVE  DInv'
<1>1. TransferInv'
  BY DEF TransferInv
<1>2. CASE Stop
  <2>1. Order("stop") /\ unacked' = unacked /\ "stop" \in Ops
    BY <1>2 DEF Stop, Ops
  <2>2. unacked \in BOOLEAN
    BY DEF DInv, BusInv, FlagsTyped
  <2>3. BusInv'
    BY <2>1, <2>2, OrderStep DEF DInv
  <2> QED
    BY <1>1, <2>3 DEF DInv
<1>3. CASE UNCHANGED <<line, hostTwi>>
  BY <1>1, <1>3 DEF DInv, BusInv, FlagsTyped, InHand, Refusals, Refused, hostTwi, clientTwi,
     clientVars, driver, transfer, buffer
<1> QED
  BY <1>2, <1>3

LEMMA AddressDelivers ==
    ASSUME WInv, DInv, NEW which \in {"transmit", "receive"},
           NEW dir \in {"write", "read"}, which = "transmit" <=> dir = "write",
           SendAddress(which, dir), UNCHANGED clientVars
    PROVE  DInv'
<1>1. /\ Order(dir) /\ unacked' = unacked /\ dir \in Ops \ {"send", "get"}
      /\ loop = which /\ stat = 0 /\ stat' = 1
      /\ UNCHANGED <<hostBuffer, head, loop, left>> /\ UNCHANGED clientTwi
  BY DEF SendAddress, Address, Ops, In
<1>2. unacked \in BOOLEAN
  BY DEF DInv, BusInv, FlagsTyped
<1>3. BusInv' /\ Final(line') = dir
  BY <1>1, <1>2, OrderStep DEF DInv
<1>4. CASE which = "transmit"
  <2>1. left = head
    BY <1>1, <1>4 DEF DInv, TransferInv
  <2> QED
    BY <1>1, <1>3, <1>4, <2>1 DEF DInv, TransferInv, Transmitting
<1>5. CASE which = "receive"
  BY <1>1, <1>3, <1>5 DEF DInv, TransferInv, Reading
<1> QED
  BY <1>4, <1>5

(* Acknowledged: what has been sent is what the client has.                *)
LEMMA SendDelivers ==
    ASSUME WInv, DInv, TransmitByte, UNCHANGED clientVars
    PROVE  DInv'
<1> DEFINE sent == head - left
<1>1. /\ loop = "transmit" /\ stat # 0 /\ WIF /\ ~NACK /\ left # 0
      /\ Order("send") /\ data' = hostBuffer[sent + 1] /\ unacked' = unacked
      /\ left' = left - 1 /\ stat' = 3
      /\ UNCHANGED <<clientTwi, hostBuffer, head, loop>>
  BY DEF TransmitByte, Poll, In, Send
<1>2. line = <<>> /\ "send" \in Ops /\ unacked \in BOOLEAN
  BY <1>1 DEF DInv, BusInv, InHand, FlagsTyped, Ops
<1>3. Final(line) # "write" /\ Len(line) # 1
  BY <1>2 DEF Final
<1>4. /\ left \in Nat /\ head \in Nat /\ left <= head /\ Len(hostBuffer) = head
      /\ hostBuffer \in Seq(Octets)
  BY <1>1 DEF WInv, HostInv
<1>5. /\ Writing /\ listening
      /\ written = SubSeq(hostBuffer, 1, sent)
  <2>1. Transmitting(sent)
    BY <1>1 DEF DInv, TransferInv
  <2>2. CASE stat = 1
    <3>1. Writing /\ listening /\ written = <<>> /\ left = head
      BY <1>1, <1>3, <2>1, <2>2 DEF Transmitting
    <3>2. SubSeq(hostBuffer, 1, 0) = <<>>
      BY <1>4
    <3> QED
      BY <1>4, <3>1, <3>2
  <2>3. CASE stat # 1
    BY <1>1, <1>3, <2>1, <2>3 DEF Transmitting
  <2> QED
    BY <2>2, <2>3
<1>6. BusInv' /\ Len(line') = 1 /\ First(line') = "send"
  BY <1>1, <1>2, <1>5, OrderStep DEF DInv, Writing
<1>7. UNCHANGED <<APIF, DIR, listening, written>>
  BY <1>1 DEF clientTwi, clientVars, transfer
<1>8. head' - left' = sent + 1 /\ sent + 1 > 0
  BY <1>1, <1>4
<1>9. Transmitting(head - left)'
  BY <1>1, <1>4, <1>5, <1>6, <1>7, <1>8 DEF Transmitting, Writing
<1> QED
  BY <1>1, <1>6, <1>9 DEF DInv, TransferInv

(* The answer as far as it goes, and the idle line.                        *)
LEMMA ExpectedStep ==
    ASSUME NEW n \in Nat
    PROVE  /\ Append(Expected(n), Expected(n + 1)[n + 1]) = Expected(n + 1)
           /\ Expected(n + 1)[n + 1] = IF n + 1 <= Len(answer) THEN answer[n + 1] ELSE Released
           /\ Expected(0) = <<>>
  BY DEF Expected

LEMMA GetDelivers ==
    ASSUME WInv, DInv, ReceiveByte, UNCHANGED clientVars, left' # 0
    PROVE  DInv'
<1> DEFINE got == Len(hostBuffer)
<1>1. /\ loop = "receive" /\ stat # 0 /\ RIF /\ ~WIF
      /\ hostBuffer' = Append(hostBuffer, data)
      /\ Order("get") /\ unacked' = FALSE
      /\ UNCHANGED <<clientTwi, head, loop, stat>>
  BY DEF ReceiveByte, Poll, In, AckAndGet
<1>2. line = <<>> /\ "get" \in Ops
  BY <1>1 DEF DInv, BusInv, InHand, Ops
<1>3. Final(line) # "read" /\ Len(line) # 1
  BY <1>2 DEF Final
<1>4. hostBuffer \in Seq(Octets) /\ got \in Nat /\ data \in Octets
  BY DEF WInv, HostInv
<1>5. /\ head <= HostLength /\ unacked /\ Progress(got + 1) /\ hostBuffer = Expected(got)
      /\ data = Expected(got + 1)[got + 1]
  BY <1>1, <1>3 DEF DInv, TransferInv, Reading
<1>6. Len(hostBuffer') = got + 1 /\ hostBuffer' = Expected(got + 1)
  <2>1. Len(Append(hostBuffer, data)) = got + 1
    BY <1>4
  <2> QED
    BY <1>1, <1>4, <1>5, <2>1, ExpectedStep
<1>7. BusInv' /\ ~WIF' /\ Len(line') = 1 /\ First(line') = "get"
  <2>1. listening => DIR
    BY <1>5 DEF Progress
  <2> QED
    BY <1>1, <1>2, <1>5, <2>1, OrderStep DEF DInv
<1>8. UNCHANGED <<APIF, DIR, listening, clientBuffer, tailS, answer, transmitted, base>>
  BY <1>1 DEF clientTwi, clientVars, transfer, buffer, driver
<1>9. Progress(Len(hostBuffer))' /\ hostBuffer' = Expected(Len(hostBuffer))'
  <2>1. Given' = Given
    BY <1>8 DEF Given
  <2>2. Progress(Len(hostBuffer))'
    BY <1>5, <1>6, <1>8, <2>1 DEF Progress
  <2>3. hostBuffer' = Expected(Len(hostBuffer))'
    BY <1>6, <1>8 DEF Expected
  <2> QED
    BY <2>2, <2>3
<1>10. Reading(Len(hostBuffer))'
  BY <1>1, <1>5, <1>7, <1>9 DEF Reading
<1> QED
  BY <1>1, <1>5, <1>7, <1>10 DEF DInv, TransferInv

LEMMA LoopDelivers ==
    ASSUME WInv, DInv, HostLoop, UNCHANGED clientVars
    PROVE  DInv'
<1>1. CASE SendAddress("transmit", "write") \/ SendAddress("receive", "read")
  BY <1>1, AddressDelivers
<1>2. CASE TransmitByte
  BY <1>2, SendDelivers
<1>3. CASE TransmitRefused \/ TransmitDone
  <2>1. loop' = "none" /\ UNCHANGED clientTwi /\ (Stop \/ UNCHANGED <<line, hostTwi>>)
    BY <1>3 DEF TransmitRefused, TransmitDone, Leave, LeaveWith, StopOr
  <2> QED
    BY <2>1, LeaveDelivers
<1>4. CASE TransmitTimeout \/ ReceiveRefused \/ ReceiveTimeout
  <2>1. loop' = "none" /\ UNCHANGED clientTwi /\ (Stop \/ UNCHANGED <<line, hostTwi>>)
    BY <1>4 DEF TransmitTimeout, ReceiveRefused, ReceiveTimeout, Leave, LeaveWith, bus
  <2> QED
    BY <2>1, LeaveDelivers
<1>5. CASE ReceiveByte
  <2>1. CASE left' # 0
    BY <1>5, <2>1, GetDelivers
  <2>2. CASE left' = 0
    <3>1. loop' = "none" /\ UNCHANGED clientTwi /\ (Stop \/ UNCHANGED <<line, hostTwi>>)
      BY <1>5, <2>2 DEF ReceiveByte, LeaveWith, StopOr
    <3> QED
      BY <3>1, LeaveDelivers
  <2> QED
    BY <2>1, <2>2
<1> QED
  BY <1>1, <1>2, <1>3, <1>4, <1>5 DEF HostLoop, Transmit, Receive
----------------------------------------------------------------------------
(* The steps of the bus *)

(* The transfer under way, if any, waits for its address to be answered.   *)
Waiting ==
    /\ loop = "transmit" => left = head
    /\ loop = "transmit" /\ stat # 0 => stat = 1 /\ Final(line) = "write"
    /\ loop = "receive" => head <= HostLength /\ hostBuffer = <<>>
    /\ loop = "receive" /\ stat # 0 => Final(line) = "read"

LEMMA IsWaiting ==
    ASSUME DInv, line # <<>>, Len(line) # 1 \/ First(line) \notin {"send", "get"}
    PROVE  Waiting
  BY DEF DInv, TransferInv, Transmitting, Reading, Waiting

LEMMA StillWaiting ==
    ASSUME Waiting, UNCHANGED hostVars,
           Final(line') = Final(line) \/ Final(line) \notin {"write", "read"}
    PROVE  TransferInv'
<1>1. UNCHANGED <<loop, stat, head, left, hostBuffer>>
  BY DEF hostVars
<1>2. Final(line)' = Final(line) \/ Final(line) \notin {"write", "read"}
  BY DEF Final
<1> HIDE DEF Final
<1> QED
  BY <1>1, <1>2 DEF Waiting, TransferInv, Transmitting, Reading

(* Nothing that the transfer depends on has changed.                       *)
LEMMA TransferKept ==
    ASSUME DInv, UNCHANGED hostVars,
           UNCHANGED <<line, data, WIF, NACK, RIF, APIF, DIR, listening, clientBuffer,
                       tailS, written, answer, transmitted, base>>,
           line = <<>> => unacked' = unacked
    PROVE  TransferInv'
<1>1. UNCHANGED <<loop, stat, head, left, hostBuffer>>
  BY DEF hostVars
<1>2. loop = "transmit" /\ stat # 0 => Transmitting(head - left)'
  BY <1>1 DEF DInv, TransferInv, Transmitting, Writing
<1>3. ASSUME NEW n PROVE Progress(n) => Progress(n)'
  BY DEF Progress, Given
<1>4. ASSUME NEW n PROVE Expected(n)' = Expected(n)
  BY DEF Expected
<1>5. loop = "receive" /\ stat # 0 => Reading(Len(hostBuffer))'
  <2> DEFINE got == Len(hostBuffer)
  <2>1. SUFFICES ASSUME loop = "receive", stat # 0
                 PROVE  Reading(Len(hostBuffer))'
    OBVIOUS
  <2>2. Reading(got) /\ Len(hostBuffer)' = got
    BY <1>1, <2>1 DEF DInv, TransferInv
  <2>3. Progress(got) => Progress(Len(hostBuffer))'
    BY <1>1 DEF Progress, Given
  <2>4. Progress(got + 1) => Progress(Len(hostBuffer) + 1)'
    BY <1>1 DEF Progress, Given
  <2>5. /\ Expected(Len(hostBuffer))' = Expected(got)
        /\ Expected(Len(hostBuffer) + 1)' = Expected(got + 1)
    BY <1>1 DEF Expected
  <2>6. line # <<>> \/ unacked' = unacked
    OBVIOUS
  <2> QED
    BY <1>1, <2>2, <2>3, <2>4, <2>5, <2>6 DEF Reading
<1> QED
  BY <1>1, <1>2, <1>5 DEF DInv, TransferInv

(* An operation of the host's is done.                                     *)
LEMMA WrittenStep ==
    ASSUME DInv, line # <<>>, NEW nack \in BOOLEAN, Written(nack)
    PROVE  /\ line' \in Lines /\ First(line') \notin {"send", "get"}
           /\ Len(line) # 1 => line' # <<>> /\ Final(line') = Final(line) /\ ~WIF'
           /\ Len(line) = 1 => line' = <<>> /\ WIF' /\ NACK' = nack
           /\ ~RIF' /\ unacked' = unacked
           /\ WIF' \in BOOLEAN /\ NACK' \in BOOLEAN
<1>1. line \in Lines /\ line' = Tail(line)
  BY DEF DInv, BusInv, FlagsTyped, Written
<1>2. WIF = FALSE /\ RIF = FALSE /\ NACK \in BOOLEAN
  BY DEF DInv, BusInv, InHand, FlagsTyped
<1>3. /\ line' \in Lines /\ (Len(line) = 1 <=> line' = <<>>)
      /\ First(line') \notin {"send", "get"}
      /\ Len(line) # 1 => Final(line') = Final(line)
  BY <1>1, LineDone
<1>4. IF Len(line) = 1 THEN WIF' = TRUE /\ NACK' = nack ELSE WIF' = WIF /\ NACK' = NACK
  BY DEF Written, Last
<1>5. RIF' = RIF /\ unacked' = unacked
  BY DEF Written
<1> QED
  BY <1>2, <1>3, <1>4, <1>5

LEMMA ReceivedStep ==
    ASSUME DInv, line # <<>>, NEW byte, Received(byte)
    PROVE  /\ line' \in Lines /\ First(line') \notin {"send", "get"}
           /\ Len(line) # 1 => line' # <<>> /\ Final(line') = Final(line) /\ ~RIF'
           /\ Len(line) = 1 => line' = <<>> /\ RIF' /\ data' = byte
           /\ ~WIF' /\ unacked' /\ unacked' \in BOOLEAN
           /\ RIF' \in BOOLEAN /\ NACK' \in BOOLEAN
<1>1. line \in Lines /\ line' = Tail(line)
  BY DEF DInv, BusInv, FlagsTyped, Received
<1>2. WIF = FALSE /\ RIF = FALSE /\ NACK \in BOOLEAN
  BY DEF DInv, BusInv, InHand, FlagsTyped
<1>3. /\ line' \in Lines /\ (Len(line) = 1 <=> line' = <<>>)
      /\ First(line') \notin {"send", "get"}
      /\ Len(line) # 1 => Final(line') = Final(line)
  BY <1>1, LineDone
<1>4. IF Len(line) = 1 THEN RIF' = TRUE /\ data' = byte ELSE RIF' = RIF
  BY DEF Received, Last
<1>5. WIF' = WIF /\ NACK' = NACK /\ unacked' = TRUE
  BY DEF Received
<1> QED
  BY <1>2, <1>3, <1>4, <1>5

(* What the client's variables and flags may be.                           *)
FlagTypes ==
    /\ APIF \in BOOLEAN /\ AP \in BOOLEAN /\ DIR \in BOOLEAN /\ DIF \in BOOLEAN
    /\ listening \in BOOLEAN /\ WIF \in BOOLEAN /\ RIF \in BOOLEAN /\ NACK \in BOOLEAN
    /\ unacked \in BOOLEAN /\ RXACK \in BOOLEAN /\ checkNack \in BOOLEAN
    /\ line \in Lines /\ transmitted \in 0..CountWrap-1 /\ base \in 0..CountWrap-1
    /\ answer \in Seq(Octets)

LEMMA FlagTypesHold ==
    ASSUME WInv, DInv
    PROVE  FlagTypes
  BY DEF WInv, ClientInv, ClientTyped, DInv, BusInv, FlagsTyped, FlagTypes

LEMMA CallStep ==
    ASSUME WInv, DInv, Call, UNCHANGED <<hostVars, clientVars>>
    PROVE  DInv'
<1>0. FlagTypes
  BY FlagTypesHold
<1>1. /\ ~DIF /\ ~unacked /\ line # <<>> /\ Head(line) \in {"write", "read"}
      /\ APIF' = TRUE /\ AP' = TRUE /\ (DIR' <=> Head(line) = "read") /\ DIR' \in BOOLEAN
      /\ listening' = TRUE
      /\ UNCHANGED <<line, data, WIF, RIF, NACK, unacked, DIF, RXACK>>
  BY DEF Call, Held, Doing, hostTwi
<1>2. First(line) = Head(line) /\ line \in Lines
  BY <1>0, <1>1, LineEnds DEF FlagTypes
<1>3. UNCHANGED <<checkNack, transmitted, base, answer, headS, tailS>>
  BY DEF clientVars, driver, transfer, buffer
<1>4. FlagsTyped'
  BY <1>0, <1>1, <1>3 DEF FlagTypes, FlagsTyped
<1>5. InHand'
  BY <1>0, <1>1, <1>2 DEF FlagTypes, DInv, BusInv, InHand
<1>6. Refusals'
  BY <1>0, <1>1, <1>2, <1>3 DEF FlagTypes, DInv, BusInv, Refusals, Refused
<1>7. Waiting
  BY <1>1, <1>2, IsWaiting
<1>8. TransferInv'
  BY <1>1, <1>7, StillWaiting
<1> QED
  BY <1>4, <1>5, <1>6, <1>8 DEF DInv, BusInv

LEMMA TransferStep ==
    ASSUME WInv, DInv, Transfer, UNCHANGED <<hostVars, clientVars>>
    PROVE  DInv'
<1>0. FlagTypes
  BY FlagTypesHold
<1>1. /\ ~DIF /\ ~(APIF /\ AP) /\ line # <<>> /\ First(line) = "send"
      /\ UNCHANGED <<APIF, AP, DIR, RXACK, listening>>
  <2>1. ~DIF /\ ~(APIF /\ AP) /\ line # <<>> /\ Head(line) = "send"
        /\ UNCHANGED <<APIF, AP, DIR, RXACK, listening>>
    BY DEF Transfer, Held, Doing
  <2> QED
    BY <1>0, <2>1, LineEnds DEF FlagTypes
<1>2. UNCHANGED <<checkNack, transmitted, base, answer, clientBuffer, headS, tailS, written>>
  BY DEF clientVars, driver, transfer, buffer
<1>3. CASE listening
  <2>1. DIF' = TRUE /\ UNCHANGED <<line, data, WIF, RIF, NACK, unacked>>
    BY <1>3 DEF Transfer, hostTwi
  <2>2. ~DIR /\ ~unacked
    BY <1>1, <1>3 DEF DInv, BusInv, InHand, Refusals
  <2>3. FlagsTyped'
    BY <1>0, <1>1, <1>2, <2>1 DEF FlagTypes, FlagsTyped
  <2>4. InHand'
    BY <1>0, <1>1, <1>3, <2>1, <2>2 DEF FlagTypes, DInv, BusInv, InHand
  <2>5. Refusals'
    BY <1>0, <1>1, <1>2, <1>3, <2>1, <2>2 DEF FlagTypes, DInv, BusInv, Refusals, Refused
  <2>6. TransferInv'
    BY <1>1, <1>2, <2>1, TransferKept
  <2> QED
    BY <2>3, <2>4, <2>5, <2>6 DEF DInv, BusInv
<1>4. CASE ~listening
  <2>1. Written(TRUE) /\ DIF' = DIF
    BY <1>4 DEF Transfer
  <2>2. /\ line' \in Lines /\ First(line') \notin {"send", "get"}
        /\ Len(line) # 1 => line' # <<>> /\ Final(line') = Final(line) /\ ~WIF'
        /\ Len(line) = 1 => line' = <<>> /\ WIF' /\ NACK' = TRUE
        /\ ~RIF' /\ unacked' = unacked
        /\ WIF' \in BOOLEAN /\ NACK' \in BOOLEAN
    BY <1>1, <2>1, WrittenStep
  <2>3. RIF' \in BOOLEAN
    BY <1>0, <2>1 DEF Written, FlagTypes
  <2>4. FlagsTyped'
    BY <1>0, <1>1, <1>2, <2>2, <2>3 DEF FlagTypes, FlagsTyped
  <2>5. InHand'
    <3>1. WIF' => line' = <<>>
      BY <2>2
    <3> QED
      BY <1>0, <1>1, <1>4, <2>1, <2>2, <3>1 DEF FlagTypes, DInv, BusInv, InHand
  <2>6. Refusals'
    BY <1>0, <1>1, <1>2, <1>4, <2>1, <2>2 DEF FlagTypes, DInv, BusInv, Refusals, Refused
  <2>7. TransferInv'
    <3>1. CASE Len(line) # 1
      BY <1>1, <2>2, <3>1, IsWaiting, StillWaiting
    <3>2. CASE Len(line) = 1
      <4>1. Final(line) = "send"
        BY <1>0, <1>1, <3>2, LineEnds DEF FlagTypes
      <4>2. Waiting
        BY <1>1, <1>4, <3>2, <4>1 DEF DInv, TransferInv, Transmitting, Reading, Waiting
      <4> QED
        BY <4>1, <4>2, StillWaiting
    <3> QED
      BY <3>1, <3>2
  <2> QED
    BY <2>4, <2>5, <2>6, <2>7 DEF DInv, BusInv
<1> QED
  BY <1>3, <1>4

LEMMA FetchStep ==
    ASSUME WInv, DInv, Fetch, UNCHANGED <<hostVars, clientVars>>
    PROVE  DInv'
<1>0. FlagTypes
  BY FlagTypesHold
<1>1. /\ ~DIF /\ ~(APIF /\ AP) /\ line # <<>> /\ First(line) = "get"
      /\ UNCHANGED <<APIF, AP, DIR, listening>>
  <2>1. ~DIF /\ ~(APIF /\ AP) /\ line # <<>> /\ Head(line) = "get"
        /\ UNCHANGED <<APIF, AP, DIR, listening>>
    BY DEF Fetch, Held, Doing
  <2> QED
    BY <1>0, <2>1, LineEnds DEF FlagTypes
<1>2. UNCHANGED <<checkNack, transmitted, base, answer, clientBuffer, headS, tailS, written>>
  BY DEF clientVars, driver, transfer, buffer
<1>3. CASE listening
  <2>1. DIF' = TRUE /\ RXACK' = FALSE /\ UNCHANGED <<line, data, WIF, RIF, NACK, unacked>>
    BY <1>3 DEF Fetch, hostTwi
  <2>2. DIR /\ ~unacked
    BY <1>1, <1>3 DEF DInv, BusInv, InHand, Refusals
  <2>3. FlagsTyped'
    BY <1>0, <1>1, <1>2, <2>1 DEF FlagTypes, FlagsTyped
  <2>4. InHand'
    BY <1>0, <1>1, <1>3, <2>1, <2>2 DEF FlagTypes, DInv, BusInv, InHand
  <2>5. Refusals'
    BY <1>0, <1>1, <1>2, <1>3, <2>1, <2>2 DEF FlagTypes, DInv, BusInv, Refusals, Refused
  <2>6. TransferInv'
    BY <1>1, <1>2, <2>1, TransferKept
  <2> QED
    BY <2>3, <2>4, <2>5, <2>6 DEF DInv, BusInv
<1>4. CASE ~listening
  <2>1. Received(Released) /\ DIF' = DIF /\ RXACK' = RXACK
    BY <1>4 DEF Fetch
  <2>2. /\ line' \in Lines /\ First(line') \notin {"send", "get"}
        /\ Len(line) # 1 => line' # <<>> /\ Final(line') = Final(line) /\ ~RIF'
        /\ Len(line) = 1 => line' = <<>> /\ RIF' /\ data' = Released
        /\ ~WIF' /\ unacked' /\ unacked' \in BOOLEAN
        /\ RIF' \in BOOLEAN /\ NACK' \in BOOLEAN
    BY <1>1, <2>1, ReceivedStep
  <2>3. WIF' \in BOOLEAN
    BY <1>0, <2>1 DEF Received, FlagTypes
  <2>4. FlagsTyped'
    BY <1>0, <1>1, <1>2, <2>1, <2>2, <2>3 DEF FlagTypes, FlagsTyped
  <2>5. InHand'
    <3>1. RIF' => line' = <<>>
      BY <2>2
    <3> QED
      BY <1>0, <1>1, <1>4, <2>1, <2>2, <3>1 DEF FlagTypes, DInv, BusInv, InHand
  <2>6. Refusals'
    BY <1>0, <1>1, <1>2, <1>4, <2>1, <2>2 DEF FlagTypes, DInv, BusInv, Refusals, Refused
  <2>7. TransferInv'
    <3>1. CASE Len(line) # 1
      BY <1>1, <2>2, <3>1, IsWaiting, StillWaiting
    <3>2. CASE Len(line) = 1
      <4>1. Final(line) = "get"
        BY <1>0, <1>1, <3>2, LineEnds DEF FlagTypes
      <4>2. CASE loop = "receive" /\ stat # 0
        <5> DEFINE got == Len(hostBuffer)
        <5>1. Progress(got) /\ hostBuffer = Expected(got) /\ head <= HostLength
          BY <1>1, <3>2, <4>1, <4>2 DEF DInv, TransferInv, Reading
        <5>2. got \in Nat /\ got > Len(answer)
          BY <1>4, <5>1 DEF Progress, WInv, HostInv
        <5>3. Expected(got + 1)[got + 1] = Released
          <6>1. ~(got + 1 <= Len(answer)) /\ Len(answer) \in Nat
            BY <1>0, <5>2 DEF FlagTypes
          <6> QED
            BY <5>2, <6>1, ExpectedStep
        <5>4. got + 1 > Len(answer)
          BY <1>0, <5>2 DEF FlagTypes
        <5>5. UNCHANGED <<loop, stat, hostBuffer, head>> /\ Given' = Given
          BY <1>2 DEF hostVars, Given
        <5>6. /\ Progress(Len(hostBuffer) + 1)'
              /\ hostBuffer' = Expected(Len(hostBuffer))'
              /\ (Expected(Len(hostBuffer) + 1)[Len(hostBuffer) + 1])' = Released
          <6>1. Progress(Len(hostBuffer) + 1)'
            BY <1>1, <1>2, <1>4, <5>1, <5>4, <5>5 DEF Progress
          <6>2. hostBuffer' = Expected(Len(hostBuffer))'
            BY <1>2, <5>1, <5>5 DEF Expected
          <6>3. (Expected(Len(hostBuffer) + 1)[Len(hostBuffer) + 1])' = Released
            BY <1>2, <5>3, <5>5 DEF Expected
          <6> QED
            BY <6>1, <6>2, <6>3
        <5>7. Reading(Len(hostBuffer))'
          BY <2>2, <3>2, <5>1, <5>5, <5>6 DEF Reading
        <5> QED
          BY <4>2, <5>1, <5>5, <5>7 DEF TransferInv
      <4>3. CASE ~(loop = "receive" /\ stat # 0)
        <5>1. Waiting
          BY <1>1, <1>4, <3>2, <4>1, <4>3 DEF DInv, TransferInv, Transmitting, Reading, Waiting
        <5> QED
          BY <4>1, <5>1, StillWaiting
      <4> QED
        BY <4>2, <4>3
    <3> QED
      BY <3>1, <3>2
  <2> QED
    BY <2>4, <2>5, <2>6, <2>7 DEF DInv, BusInv
<1> QED
  BY <1>3, <1>4

LEMMA RefuseStep ==
    ASSUME WInv, DInv, Refuse, UNCHANGED <<hostVars, clientVars>>
    PROVE  DInv'
<1>0. FlagTypes
  BY FlagTypesHold
<1>1. /\ ~DIF /\ ~(APIF /\ AP) /\ line # <<>> /\ unacked /\ unacked' = FALSE
      /\ IF listening THEN DIF' = TRUE /\ RXACK' = TRUE ELSE DIF' = DIF /\ RXACK' = RXACK
      /\ UNCHANGED <<line, data, WIF, RIF, NACK, APIF, AP, DIR, listening>>
  BY DEF Refuse, Held
<1>2. UNCHANGED <<checkNack, transmitted, base, answer, clientBuffer, headS, tailS, written>>
  BY DEF clientVars, driver, transfer, buffer
<1>3. First(line) # "get" /\ (listening => DIR /\ checkNack)
  BY <1>1 DEF DInv, BusInv, Refusals
<1>4. FlagsTyped'
  BY <1>0, <1>1, <1>2 DEF FlagTypes, FlagsTyped
<1>5. InHand'
  BY <1>0, <1>1, <1>3 DEF FlagTypes, DInv, BusInv, InHand
<1>6. Refusals'
  BY <1>0, <1>1, <1>2, <1>3 DEF FlagTypes, DInv, BusInv, Refusals, Refused
<1>7. TransferInv'
  BY <1>1, <1>2, TransferKept
<1> QED
  BY <1>4, <1>5, <1>6, <1>7 DEF DInv, BusInv

LEMMA FreeStep ==
    ASSUME WInv, DInv, Free, UNCHANGED <<hostVars, clientVars>>
    PROVE  DInv'
<1>0. FlagTypes
  BY FlagTypesHold
<1>1. /\ ~DIF /\ ~(APIF /\ AP) /\ ~unacked /\ line # <<>> /\ First(line) = "stop"
      /\ line' = Tail(line) /\ APIF' = (APIF \/ open) /\ AP' = FALSE /\ DIR' = FALSE
      /\ listening' = FALSE
      /\ UNCHANGED <<data, WIF, RIF, NACK, unacked, DIF, RXACK>>
  <2>1. /\ ~DIF /\ ~(APIF /\ AP) /\ ~unacked /\ line # <<>> /\ Head(line) = "stop"
        /\ line' = Tail(line) /\ APIF' = (APIF \/ open) /\ AP' = FALSE /\ DIR' = FALSE
        /\ listening' = FALSE
        /\ UNCHANGED <<data, WIF, RIF, NACK, unacked, DIF, RXACK>>
    BY DEF Free, Held, Doing, hostTwi
  <2> QED
    BY <1>0, <2>1, LineEnds DEF FlagTypes
<1>2. UNCHANGED <<checkNack, transmitted, base, answer, headS, tailS>>
  BY DEF clientVars, driver, transfer, buffer
<1>3. /\ line' \in Lines /\ First(line') \notin {"send", "get"}
      /\ Len(line) # 1 => Final(line') = Final(line)
  BY <1>0, <1>1, LineDone DEF FlagTypes
<1>4. ~WIF /\ ~RIF
  BY <1>1 DEF DInv, BusInv, InHand
<1>5. FlagsTyped'
  BY <1>0, <1>1, <1>2, <1>3 DEF FlagTypes, FlagsTyped
<1>6. InHand'
  BY <1>0, <1>1, <1>3, <1>4 DEF FlagTypes, DInv, BusInv, InHand
<1>7. Refusals'
  BY <1>0, <1>1, <1>2, <1>3 DEF FlagTypes, DInv, BusInv, Refusals, Refused
<1>8. TransferInv'
  <2>1. Waiting
    BY <1>1, IsWaiting
  <2>2. Len(line) = 1 => Final(line) = "stop"
    BY <1>0, <1>1, LineEnds DEF FlagTypes
  <2> QED
    BY <1>3, <2>1, <2>2, StillWaiting
<1> QED
  BY <1>5, <1>6, <1>7, <1>8 DEF DInv, BusInv

LEMMA WiresDeliver ==
    ASSUME WInv, DInv, Wires
    PROVE  DInv'
  BY CallStep, TransferStep, FetchStep, RefuseStep, FreeStep DEF Wires
----------------------------------------------------------------------------
(* The steps of the client *)

LEMMA WriteStep ==
    ASSUME WInv, DInv, HandleWrite, UNCHANGED hostVars
    PROVE  DInv'
<1>0. FlagTypes
  BY FlagTypesHold
<1>1. /\ APIF /\ AP /\ ~DIR /\ Respond
      /\ written' = <<>> /\ answer' = <<>> /\ base' = transmitted
      /\ UNCHANGED <<checkNack, transmitted>>
  BY DEF HandleWrite, AddressMatch
<1>2. ~DIF /\ ~unacked /\ First(line) = "write" /\ line # <<>>
  BY <1>0, <1>1, LineEnds DEF DInv, BusInv, InHand, FlagTypes
<1>3. /\ APIF' = FALSE /\ listening' = TRUE /\ DIF' = FALSE
      /\ UNCHANGED <<AP, DIR, RXACK>> /\ Written(FALSE)
  <2>1. Written(DIR \/ ~TRUE) /\ (DIR \/ ~TRUE) = FALSE
    BY <1>0, <1>1 DEF Respond, Command, FlagTypes
  <2> QED
    BY <1>1, <2>1 DEF Respond, Command
<1>4. /\ line' \in Lines /\ First(line') \notin {"send", "get"}
      /\ Len(line) # 1 => line' # <<>> /\ Final(line') = Final(line) /\ ~WIF'
      /\ Len(line) = 1 => line' = <<>> /\ WIF' /\ NACK' = FALSE
      /\ ~RIF' /\ unacked' = unacked
      /\ WIF' \in BOOLEAN /\ NACK' \in BOOLEAN
  BY <1>2, <1>3, WrittenStep
<1>5. RIF' \in BOOLEAN /\ base' \in 0..CountWrap-1 /\ answer' \in Seq(Octets)
  BY <1>0, <1>1, <1>3 DEF Written, FlagTypes
<1>6. FlagsTyped'
  BY <1>0, <1>1, <1>3, <1>4, <1>5 DEF FlagTypes, FlagsTyped
<1>7. InHand'
  <2>1. WIF' => line' = <<>>
    BY <1>4
  <2> QED
    BY <1>0, <1>2, <1>3, <1>4, <2>1 DEF FlagTypes, InHand
<1>8. Refusals'
  BY <1>0, <1>1, <1>2, <1>3, <1>4 DEF FlagTypes, DInv, BusInv, Refusals, Refused
<1>9. Waiting
  BY <1>2, IsWaiting
<1>10. TransferInv'
  <2>1. CASE Len(line) # 1
    BY <1>4, <1>9, <2>1, StillWaiting
  <2>2. CASE Len(line) = 1
    <3>1. Final(line) = "write"
      BY <1>0, <1>2, <2>2, LineEnds DEF FlagTypes
    <3>2. UNCHANGED <<loop, stat, head, left, hostBuffer>>
      BY DEF hostVars
    <3> QED
      BY <1>1, <1>3, <1>4, <1>9, <2>2, <3>1, <3>2
      DEF Waiting, TransferInv, Transmitting, Writing
  <2> QED
    BY <2>1, <2>2
<1> QED
  BY <1>6, <1>7, <1>8, <1>10 DEF DInv, BusInv

(* The address is refused where there is no answer.                        *)
LEMMA NoAnswerStep ==
    ASSUME WInv, DInv, HandleRead(<<>>), UNCHANGED hostVars
    PROVE  DInv'
<1>0. FlagTypes
  BY FlagTypesHold
<1>1. /\ APIF /\ AP /\ DIR /\ Reject
      /\ answer' = <<>> /\ base' = transmitted
      /\ UNCHANGED <<checkNack, transmitted>>
  BY DEF HandleRead, AddressMatch
<1>2. ~DIF /\ ~unacked /\ First(line) = "read" /\ line # <<>>
  BY <1>0, <1>1, LineEnds DEF DInv, BusInv, InHand, FlagTypes
<1>3. /\ APIF' = FALSE /\ listening' = FALSE /\ DIF' = FALSE
      /\ UNCHANGED <<AP, DIR, RXACK>> /\ Written(TRUE)
  <2>1. Written(DIR \/ ~FALSE) /\ (DIR \/ ~FALSE) = TRUE
    BY <1>0, <1>1 DEF Reject, Command, FlagTypes
  <2> QED
    BY <1>1, <2>1 DEF Reject, Command
<1>4. /\ line' \in Lines /\ First(line') \notin {"send", "get"}
      /\ Len(line) # 1 => line' # <<>> /\ Final(line') = Final(line) /\ ~WIF'
      /\ Len(line) = 1 => line' = <<>> /\ WIF' /\ NACK' = TRUE
      /\ ~RIF' /\ unacked' = unacked
      /\ WIF' \in BOOLEAN /\ NACK' \in BOOLEAN
  BY <1>2, <1>3, WrittenStep
<1>5. RIF' \in BOOLEAN /\ base' \in 0..CountWrap-1 /\ answer' \in Seq(Octets)
  BY <1>0, <1>1, <1>3 DEF Written, FlagTypes
<1>6. FlagsTyped'
  BY <1>0, <1>1, <1>3, <1>4, <1>5 DEF FlagTypes, FlagsTyped
<1>7. InHand'
  <2>1. WIF' => line' = <<>>
    BY <1>4
  <2> QED
    BY <1>0, <1>2, <1>3, <1>4, <2>1 DEF FlagTypes, InHand
<1>8. Refusals'
  BY <1>0, <1>1, <1>2, <1>3, <1>4 DEF FlagTypes, DInv, BusInv, Refusals, Refused
<1>9. Waiting
  BY <1>2, IsWaiting
<1>10. TransferInv'
  <2>1. CASE Len(line) # 1
    BY <1>4, <1>9, <2>1, StillWaiting
  <2>2. CASE Len(line) = 1
    <3>1. Final(line) = "read"
      BY <1>0, <1>2, <2>2, LineEnds DEF FlagTypes
    <3>2. UNCHANGED <<loop, stat, head, left, hostBuffer>>
      BY DEF hostVars
    <3> QED
      BY <1>4, <1>9, <2>2, <3>1, <3>2 DEF Waiting, TransferInv, Reading
  <2> QED
    BY <2>1, <2>2
<1> QED
  BY <1>6, <1>7, <1>8, <1>10 DEF DInv, BusInv

(* The first byte of the answer is asked for at once.                      *)
LEMMA AnswerStep ==
    ASSUME WInv, DInv, NEW filled \in Answers, filled # <<>>, HandleRead(filled),
           UNCHANGED hostVars
    PROVE  DInv'
<1>0. FlagTypes
  BY FlagTypesHold
<1>1. /\ APIF /\ AP /\ DIR /\ Respond
      /\ clientBuffer' = filled /\ headS' = Len(filled) /\ tailS' = 0
      /\ answer' = filled /\ base' = transmitted
      /\ UNCHANGED <<checkNack, transmitted>>
  BY DEF HandleRead, AddressMatch
<1>2. ~DIF /\ ~unacked /\ First(line) = "read" /\ line # <<>>
  BY <1>0, <1>1, LineEnds DEF DInv, BusInv, InHand, FlagTypes
<1>3. /\ APIF' = FALSE /\ listening' = TRUE /\ DIF' = TRUE
      /\ line' = <<"get">> \o Tail(line)
      /\ UNCHANGED <<AP, DIR, RXACK, data, WIF, RIF, NACK, unacked>>
  BY <1>1 DEF Respond, Command, hostTwi
<1>4. /\ line' \in Lines /\ line' # <<>> /\ First(line') = "get" /\ Len(line') = Len(line)
      /\ Len(line) # 1 => Final(line') = Final(line)
  BY <1>0, <1>2, <1>3, LineGet DEF FlagTypes
<1>5. ~WIF /\ ~RIF
  BY <1>2 DEF DInv, BusInv, InHand
<1>6. filled \in Seq(Octets) /\ Len(filled) \in Nat /\ Len(filled) > 0
  <2>1. filled \in Seq(Bytes)
    BY AnswersAssumption
  <2> QED
    BY <2>1 DEF Octets
<1>7. Given' = 0 /\ base' \in 0..CountWrap-1
  BY <1>0, <1>1, CountMatch DEF FlagTypes
<1>8. FlagsTyped'
  BY <1>0, <1>1, <1>3, <1>4, <1>6, <1>7 DEF FlagTypes, FlagsTyped
<1>9. InHand'
  BY <1>0, <1>1, <1>2, <1>3, <1>4, <1>5 DEF FlagTypes, InHand
<1>10. ~Refused
  BY <1>2 DEF DInv, BusInv, Refusals
<1>11. Refusals'
  BY <1>0, <1>1, <1>2, <1>3, <1>4, <1>6, <1>10 DEF FlagTypes, Refusals, Refused
<1>12. Waiting
  BY <1>2, IsWaiting
<1>13. TransferInv'
  <2>1. CASE Len(line) # 1
    BY <1>4, <1>12, <2>1, StillWaiting
  <2>2. CASE Len(line) = 1
    <3>1. Final(line) = "read"
      BY <1>0, <1>2, <2>2, LineEnds DEF FlagTypes
    <3>2. UNCHANGED <<loop, stat, head, left, hostBuffer>>
      BY DEF hostVars
    <3>3. CASE loop = "receive" /\ stat # 0
      <4>1. hostBuffer = <<>> /\ head <= HostLength
        BY <1>12, <3>3 DEF Waiting
      <4>2. Len(hostBuffer)' = 0
        BY <3>2, <4>1
      <4>3. Progress(Len(hostBuffer))'
        BY <1>1, <1>3, <1>6, <1>7, <4>2 DEF Progress
      <4>4. hostBuffer' = Expected(Len(hostBuffer))'
        BY <3>2, <4>1, <4>2 DEF Expected
      <4>5. Reading(Len(hostBuffer))'
        BY <1>3, <1>4, <1>5, <2>2, <3>2, <4>1, <4>3, <4>4 DEF Reading
      <4> QED
        BY <3>2, <3>3, <4>1, <4>5 DEF TransferInv
    <3>4. CASE ~(loop = "receive" /\ stat # 0)
      BY <1>12, <3>1, <3>2, <3>4 DEF Waiting, TransferInv
    <3> QED
      BY <3>3, <3>4
  <2> QED
    BY <2>1, <2>2
<1> QED
  BY <1>8, <1>9, <1>11, <1>13 DEF DInv, BusInv

LEMMA StopStep ==
    ASSUME WInv, DInv, HandleStop \/ FinishStop, UNCHANGED hostVars
    PROVE  DInv'
<1>0. FlagTypes
  BY FlagTypesHold
<1>1. CASE HandleStop
  <2>1. UNCHANGED <<line, data, WIF, RIF, NACK, unacked, APIF, AP, DIR, DIF, RXACK, listening,
                    clientBuffer, headS, tailS, checkNack, transmitted, written, answer, base>>
    BY <1>1 DEF HandleStop, bus, hostTwi, clientTwi, buffer, transfer
  <2>2. BusInv'
    BY <2>1 DEF DInv, BusInv, FlagsTyped, InHand, Refusals, Refused
  <2> QED
    BY <2>1, <2>2, TransferKept DEF DInv
<1>2. CASE FinishStop
  <2>1. APIF /\ ~AP /\ ~DIF /\ ~listening
    BY <1>2 DEF FinishStop, WInv, ClientInv, Ordered
  <2>2. /\ Complete /\ answer' = <<>> /\ base' = 0 /\ UNCHANGED <<checkNack, transmitted>>
    BY <1>2 DEF FinishStop, driver
  <2>3. /\ APIF' = FALSE /\ listening' = FALSE
        /\ UNCHANGED <<line, data, WIF, RIF, NACK, unacked, AP, DIR, DIF, RXACK>>
    BY <2>1, <2>2 DEF Complete, Command, hostTwi
  <2>4. base' \in 0..CountWrap-1 /\ answer' \in Seq(Octets)
    BY <2>2, WrapAssumption
  <2>5. FlagsTyped'
    BY <1>0, <2>2, <2>3, <2>4 DEF FlagTypes, FlagsTyped
  <2>6. InHand'
    BY <1>0, <2>1, <2>3 DEF FlagTypes, DInv, BusInv, InHand
  <2>7. Refusals'
    BY <1>0, <2>1, <2>2, <2>3 DEF FlagTypes, DInv, BusInv, Refusals, Refused
  <2>8. UNCHANGED <<loop, stat, head, left, hostBuffer>>
    BY DEF hostVars
  <2>9. TransferInv'
    BY <2>1, <2>3, <2>8 DEF DInv, TransferInv, Transmitting, Reading, Progress, Writing
  <2> QED
    BY <2>5, <2>6, <2>7, <2>9 DEF DInv, BusInv
<1> QED
  BY <1>1, <1>2

(* A byte is in the client's hands whether or not another is wanted.       *)
LEMMA ByteStep ==
    ASSUME WInv, DInv, HandleByte, UNCHANGED hostVars
    PROVE  DInv'
<1>0. FlagTypes
  BY FlagTypesHold
<1>1. /\ ~APIF /\ DIF /\ ~DIR /\ written' = Append(written, data)
      /\ UNCHANGED <<checkNack, transmitted, answer, base>>
  BY DEF HandleByte, Data, driver
<1>2. PICK goOn \in BOOLEAN : Command(goOn, goOn, Released)
  BY DEF HandleByte, Reject, Respond
<1>3. listening /\ ~unacked /\ First(line) = "send" /\ line # <<>>
  BY <1>0, <1>1 DEF DInv, BusInv, InHand, FlagTypes
<1>4. /\ APIF' = FALSE /\ listening' = goOn /\ DIF' = FALSE
      /\ UNCHANGED <<AP, DIR, RXACK>> /\ Written(~goOn)
  BY <1>0, <1>1, <1>2 DEF Command, FlagTypes
<1>5. /\ line' \in Lines /\ First(line') \notin {"send", "get"}
      /\ Len(line) # 1 => line' # <<>> /\ Final(line') = Final(line) /\ ~WIF'
      /\ Len(line) = 1 => line' = <<>> /\ WIF' /\ NACK' = ~goOn
      /\ ~RIF' /\ unacked' = unacked
      /\ WIF' \in BOOLEAN /\ NACK' \in BOOLEAN
  <2>1. (~goOn) \in BOOLEAN
    OBVIOUS
  <2> QED
    BY <1>3, <1>4, <2>1, WrittenStep
<1>6. RIF' \in BOOLEAN
  BY <1>0, <1>4 DEF Written, FlagTypes
<1>7. FlagsTyped'
  BY <1>0, <1>1, <1>4, <1>5, <1>6 DEF FlagTypes, FlagsTyped
<1>8. InHand'
  <2>1. WIF' => line' = <<>>
    BY <1>5
  <2> QED
    BY <1>0, <1>1, <1>3, <1>4, <1>5, <2>1 DEF FlagTypes, InHand
<1>9. Refusals'
  <2>1. ~Refused
    BY <1>0, <1>1, <1>3 DEF DInv, BusInv, Refusals, FlagTypes
  <2> QED
    BY <1>0, <1>1, <1>3, <1>4, <1>5, <2>1 DEF FlagTypes, Refusals, Refused
<1>10. TransferInv'
  <2>1. CASE Len(line) # 1
    BY <1>3, <1>5, <2>1, IsWaiting, StillWaiting
  <2>2. CASE Len(line) = 1
    <3>1. Final(line) = "send"
      BY <1>0, <1>3, <2>2, LineEnds DEF FlagTypes
    <3>2. UNCHANGED <<loop, stat, head, left, hostBuffer>>
      BY DEF hostVars
    <3>3. CASE loop = "transmit" /\ stat # 0
      <4> DEFINE sent == head - left
      <4>1. /\ stat = 3 /\ sent > 0 /\ data = hostBuffer[sent]
            /\ written = SubSeq(hostBuffer, 1, sent - 1)
        BY <1>3, <2>2, <3>1, <3>3 DEF DInv, TransferInv, Transmitting
      <4>2. /\ head \in Nat /\ left \in Nat /\ Len(hostBuffer) = head
            /\ hostBuffer \in Seq(Octets)
        BY <3>3 DEF WInv, HostInv
      <4>3. written' = SubSeq(hostBuffer, 1, sent)
        <5>1. sent \in 1..Len(hostBuffer)
          BY <4>1, <4>2
        <5>2. \A s \in Seq(Octets) : \A n \in 1..Len(s) :
                 Append(SubSeq(s, 1, n - 1), s[n]) = SubSeq(s, 1, n)
          OBVIOUS
        <5> HIDE DEF sent
        <5> QED
          BY <1>1, <4>1, <4>2, <5>1, <5>2
      <4>4. NACK' \/ listening'
        BY <1>4, <1>5, <2>2
      <4>5. Transmitting(head - left)'
        BY <1>1, <1>4, <1>5, <2>2, <3>2, <4>1, <4>3, <4>4 DEF Transmitting, Writing
      <4> QED
        BY <3>2, <3>3, <4>5 DEF TransferInv
    <3>4. CASE ~(loop = "transmit" /\ stat # 0)
      <4>1. Waiting
        BY <1>3, <2>2, <3>1, <3>4 DEF DInv, TransferInv, Reading, Waiting
      <4> QED
        BY <3>1, <4>1, StillWaiting
    <3> QED
      BY <3>3, <3>4
  <2> QED
    BY <2>1, <2>2
<1> QED
  BY <1>7, <1>8, <1>9, <1>10 DEF DInv, BusInv

LEMMA RefusedStep ==
    ASSUME WInv, DInv, HandleRefused, UNCHANGED hostVars
    PROVE  DInv'
<1>0. FlagTypes
  BY FlagTypesHold
<1>1. /\ ~APIF /\ DIF /\ DIR /\ Refused /\ Complete /\ checkNack' = FALSE
      /\ UNCHANGED <<transmitted, answer, base>>
  BY DEF HandleRefused, Data, transfer
<1>2. listening /\ ~unacked /\ First(line) # "get" /\ First(line) # "send" /\ line # <<>>
  BY <1>0, <1>1 DEF DInv, BusInv, InHand, Refusals, FlagTypes
<1>3. Head(line) = First(line)
  BY <1>0, <1>2, LineEnds DEF FlagTypes
<1>4. /\ APIF' = FALSE /\ listening' = FALSE /\ DIF' = FALSE
      /\ UNCHANGED <<AP, DIR, RXACK, line, data, WIF, RIF, NACK, unacked>>
  BY <1>1, <1>2, <1>3 DEF Complete, Command, Doing, hostTwi
<1>5. FlagsTyped'
  BY <1>0, <1>1, <1>4 DEF FlagTypes, FlagsTyped
<1>6. InHand'
  BY <1>0, <1>2, <1>4 DEF FlagTypes, DInv, BusInv, InHand
<1>7. Refusals'
  BY <1>0, <1>1, <1>2, <1>4 DEF FlagTypes, Refusals, Refused
<1>8. TransferInv'
  BY <1>2, <1>4, IsWaiting, StillWaiting
<1> QED
  BY <1>5, <1>6, <1>7, <1>8 DEF DInv, BusInv

(* What a read has got so far, and the byte it gets next.                  *)
LEMMA NextByte ==
    ASSUME WInv, DInv, HandleGet, loop = "receive", stat # 0, Len(line) = 1,
           First(line) = "get", listening
    PROVE  LET got == Len(hostBuffer) IN
           /\ got \in Nat /\ head <= HostLength /\ hostBuffer = Expected(got)
           /\ clientBuffer = answer /\ tailS = got /\ got <= Len(answer)
           /\ Len(answer) \in Nat /\ headS = Len(answer)
           /\ Given' = got + 1 /\ transmitted' \in 0..CountWrap-1
<1> DEFINE got == Len(hostBuffer)
<1>0. FlagTypes
  BY FlagTypesHold
<1>1. Final(line) = "get" /\ line # <<>>
  BY <1>0, LineEnds DEF FlagTypes
<1>2. /\ head <= HostLength /\ hostBuffer = Expected(got) /\ Progress(got)
  BY <1>1 DEF DInv, TransferInv, Reading
<1>3. /\ clientBuffer = answer /\ tailS = got /\ got <= Len(answer) /\ Given = got
  BY <1>2 DEF Progress
<1>4. got \in Nat /\ left \in Nat /\ left > 0 /\ got + left = head /\ head \in Nat
  BY DEF WInv, HostInv
<1>5. headS = Len(clientBuffer) /\ Len(answer) \in Nat
  BY <1>0 DEF WInv, ClientInv, ClientTyped, FlagTypes
<1>6. got + 1 < CountWrap
  BY <1>2, <1>4, CountAssumption, HostLengthAssumption, WrapAssumption
<1>7. Count /\ base' = base
  BY DEF HandleGet, transfer
<1>8. Given' = got + 1 /\ transmitted' \in 0..CountWrap-1
  BY <1>0, <1>3, <1>6, <1>7, CountStep DEF FlagTypes
<1> HIDE DEF got
<1>9. /\ got \in Nat /\ head <= HostLength /\ hostBuffer = Expected(got)
      /\ clientBuffer = answer /\ tailS = got /\ got <= Len(answer)
      /\ Len(answer) \in Nat /\ headS = Len(answer)
      /\ Given' = got + 1 /\ transmitted' \in 0..CountWrap-1
  BY <1>2, <1>3, <1>4, <1>5, <1>8
<1> QED
  BY <1>9 DEF got

LEMMA GetStep ==
    ASSUME WInv, DInv, HandleGet, UNCHANGED hostVars
    PROVE  DInv'
<1> DEFINE got == Len(hostBuffer)
<1>0. FlagTypes
  BY FlagTypesHold
<1>1. /\ ~APIF /\ DIF /\ DIR /\ ~Refused /\ checkNack' = TRUE /\ Count
      /\ UNCHANGED <<answer, base>>
  BY DEF HandleGet, Data, transfer
<1>2. listening /\ ~unacked /\ First(line) = "get" /\ line # <<>>
  BY <1>0, <1>1 DEF DInv, BusInv, InHand, Refusals, FlagTypes
<1>3. Doing("get")
  BY <1>0, <1>2, LineEnds DEF FlagTypes, Doing
<1>4. transmitted' \in 0..CountWrap-1
  <2>1. CountWrap \in Nat \ {0}
    BY WrapAssumption
  <2> QED
    BY <1>0, <1>1, <2>1, Successor DEF Count, FlagTypes
<1>5. PICK byte : /\ Received(byte) /\ APIF' = FALSE /\ DIF' = FALSE
                  /\ UNCHANGED <<AP, DIR, RXACK>>
                  /\ IF tailS < headS
                     THEN /\ byte = clientBuffer[tailS + 1] /\ listening' = TRUE
                          /\ tailS' = tailS + 1 /\ clientBuffer' = clientBuffer
                     ELSE byte = Released /\ listening' = FALSE
  <2>1. CASE tailS < headS
    <3>1. /\ Command(TRUE, TRUE, clientBuffer[tailS + 1])
          /\ tailS' = tailS + 1 /\ clientBuffer' = clientBuffer
      BY <2>1 DEF HandleGet, Give
    <3>2. /\ Received(clientBuffer[tailS + 1]) /\ APIF' = FALSE /\ DIF' = FALSE
          /\ UNCHANGED <<AP, DIR, RXACK>> /\ listening' = TRUE
      BY <1>1, <1>3, <3>1 DEF Command
    <3> QED
      BY <2>1, <3>1, <3>2
  <2>2. CASE ~(tailS < headS)
    <3>1. Command(FALSE, TRUE, Released)
      BY <2>2 DEF HandleGet, Complete
    <3>2. /\ Received(Released) /\ APIF' = FALSE /\ DIF' = FALSE
          /\ UNCHANGED <<AP, DIR, RXACK>> /\ listening' = FALSE
      BY <1>1, <1>3, <3>1 DEF Command
    <3> QED
      BY <2>2, <3>2
  <2> QED
    BY <2>1, <2>2
<1>6. /\ line' \in Lines /\ First(line') \notin {"send", "get"}
      /\ Len(line) # 1 => line' # <<>> /\ Final(line') = Final(line) /\ ~RIF'
      /\ Len(line) = 1 => line' = <<>> /\ RIF' /\ data' = byte
      /\ ~WIF' /\ unacked' /\ unacked' \in BOOLEAN
      /\ RIF' \in BOOLEAN /\ NACK' \in BOOLEAN
  BY <1>2, <1>5, ReceivedStep
<1>7. WIF' \in BOOLEAN /\ listening' \in BOOLEAN
  BY <1>0, <1>5 DEF Received, FlagTypes
<1>8. FlagsTyped'
  BY <1>0, <1>1, <1>4, <1>5, <1>6, <1>7 DEF FlagTypes, FlagsTyped
<1>9. InHand'
  <2>1. RIF' => line' = <<>>
    BY <1>6
  <2> QED
    BY <1>0, <1>1, <1>5, <1>6, <2>1 DEF FlagTypes, InHand
<1>10. Refusals'
  <2>1. ~listening' => ~RXACK
    BY <1>0, <1>1, <1>2, <1>5 DEF DInv, BusInv, Refusals, FlagTypes
  <2> QED
    BY <1>0, <1>1, <1>5, <1>6, <1>7, <2>1 DEF FlagTypes, Refusals, Refused
<1>11. TransferInv'
  <2>1. CASE Len(line) # 1
    BY <1>2, <1>6, <2>1, IsWaiting, StillWaiting
  <2>2. CASE Len(line) = 1
    <3>1. Final(line) = "get"
      BY <1>0, <1>2, <2>2, LineEnds DEF FlagTypes
    <3>2. UNCHANGED <<loop, stat, head, left, hostBuffer>>
      BY DEF hostVars
    <3>3. CASE loop = "receive" /\ stat # 0
      <4>1. /\ got \in Nat /\ head <= HostLength /\ hostBuffer = Expected(got)
            /\ clientBuffer = answer /\ tailS = got /\ got <= Len(answer)
            /\ Len(answer) \in Nat /\ headS = Len(answer)
            /\ Given' = got + 1
        BY <1>2, <2>2, <3>3, NextByte
      <4>2. Len(hostBuffer)' = got
        BY <3>2
      <4>3. Progress(Len(hostBuffer) + 1)'
        <5>1. CASE tailS < headS
          BY <1>1, <1>5, <4>1, <4>2, <5>1 DEF Progress
        <5>2. CASE ~(tailS < headS)
          BY <1>1, <1>5, <4>1, <4>2, <5>2 DEF Progress
        <5> QED
          BY <5>1, <5>2
      <4>4. byte = Expected(got + 1)[got + 1]
        <5>1. Expected(got + 1)[got + 1]
                 = IF got + 1 <= Len(answer) THEN answer[got + 1] ELSE Released
          BY <4>1, ExpectedStep
        <5>2. byte = IF got + 1 <= Len(answer) THEN answer[got + 1] ELSE Released
          BY <1>5, <4>1
        <5> QED
          BY <5>1, <5>2
      <4>5. /\ hostBuffer' = Expected(Len(hostBuffer))'
            /\ (Expected(Len(hostBuffer) + 1)[Len(hostBuffer) + 1])' = byte
        <5>1. hostBuffer' = Expected(Len(hostBuffer))'
          BY <1>1, <3>2, <4>1 DEF Expected
        <5>2. (Expected(Len(hostBuffer) + 1)[Len(hostBuffer) + 1])' = byte
          BY <1>1, <3>2, <4>4 DEF Expected
        <5> QED
          BY <5>1, <5>2
      <4>6. Reading(Len(hostBuffer))'
        BY <1>6, <2>2, <3>2, <4>1, <4>3, <4>5 DEF Reading
      <4> QED
        BY <3>2, <3>3, <4>1, <4>6 DEF TransferInv
    <3>4. CASE ~(loop = "receive" /\ stat # 0)
      <4>1. Waiting
        BY <1>2, <2>2, <3>1, <3>4 DEF DInv, TransferInv, Transmitting, Waiting
      <4> QED
        BY <3>1, <4>1, StillWaiting
    <3> QED
      BY <3>3, <3>4
  <2> QED
    BY <2>1, <2>2
<1> QED
  BY <1>8, <1>9, <1>10, <1>11 DEF DInv, BusInv

LEMMA HandlerDelivers ==
    ASSUME WInv, DInv, Handler, UNCHANGED hostVars
    PROVE  DInv'
<1>1. ASSUME NEW filled \in Answers, HandleRead(filled)
      PROVE  DInv'
  <2>1. CASE filled = <<>>
    BY <1>1, <2>1, NoAnswerStep
  <2>2. CASE filled # <<>>
    BY <1>1, <2>2, AnswerStep
  <2> QED
    BY <2>1, <2>2
<1> QED
  BY <1>1, WriteStep, StopStep, ByteStep, RefusedStep, GetStep DEF Handler, HandleRequest

(* The client's program only reads the count.                              *)
LEMMA SketchDelivers ==
    ASSUME WInv, DInv, Sketch
    PROVE  DInv'
<1>0. FlagTypes
  BY FlagTypesHold
<1>1. UNCHANGED <<bus, buffer, hostVars, checkNack, written, answer>>
  BY DEF Sketch, ClientProgram, SetInterrupts, SetSleep, SleepCpu, GetBytesRead, driver,
     transfer
<1>2. UNCHANGED <<line, data, WIF, RIF, NACK, unacked, APIF, AP, DIR, DIF, RXACK, listening,
                  clientBuffer, headS, tailS, loop, stat, head, left, hostBuffer>>
  BY <1>1 DEF bus, hostTwi, clientTwi, buffer, hostVars
<1>3. Given' = Given /\ transmitted' \in 0..CountWrap-1 /\ base' \in 0..CountWrap-1
  <2>1. CASE GetBytesRead
    BY <1>0, <2>1, CountRead DEF GetBytesRead, FlagTypes
  <2>2. CASE SetInterrupts \/ SetSleep \/ SleepCpu
    <3>1. UNCHANGED <<transmitted, base>>
      BY <2>2 DEF SetInterrupts, SetSleep, SleepCpu, driver, transfer
    <3> QED
      BY <1>0, <3>1 DEF Given, FlagTypes
  <2> QED
    BY <2>1, <2>2 DEF Sketch, ClientProgram
<1>4. BusInv'
  BY <1>1, <1>2, <1>3 DEF DInv, BusInv, FlagsTyped, InHand, Refusals, Refused
<1>5. TransferInv'
  <2>1. loop = "transmit" /\ stat # 0 => Transmitting(head - left)'
    BY <1>1, <1>2 DEF DInv, TransferInv, Transmitting, Writing
  <2>2. loop = "receive" /\ stat # 0 => Reading(Len(hostBuffer))'
    <3> DEFINE got == Len(hostBuffer)
    <3>1. SUFFICES ASSUME loop = "receive", stat # 0
                   PROVE  Reading(Len(hostBuffer))'
      OBVIOUS
    <3>2. Reading(got)
      BY <3>1 DEF DInv, TransferInv
    <3>3. /\ Progress(got) => Progress(Len(hostBuffer))'
          /\ Progress(got + 1) => Progress(Len(hostBuffer) + 1)'
      BY <1>1, <1>2, <1>3 DEF Progress
    <3>4. /\ Expected(Len(hostBuffer))' = Expected(got)
          /\ Expected(Len(hostBuffer) + 1)' = Expected(got + 1)
      BY <1>1, <1>2 DEF Expected
    <3> QED
      BY <1>2, <3>2, <3>3, <3>4 DEF Reading
  <2> QED
    BY <1>2, <2>1, <2>2 DEF DInv, TransferInv
<1> QED
  BY <1>4, <1>5 DEF DInv

LEMMA DeliveryStep ==
    ASSUME WInv, DInv, [Next]_vars
    PROVE  DInv'
<1>1. CASE HostNext
  BY <1>1, CallDelivers, LoopDelivers DEF HostNext
<1>2. CASE Wires
  BY <1>2, WiresDeliver
<1>3. CASE Interrupts
  BY <1>3, HandlerDelivers DEF Interrupts
<1>4. CASE Sketch
  BY <1>4, SketchDelivers
<1>5. CASE UNCHANGED vars
  <2>1. UNCHANGED <<line, data, WIF, RIF, NACK, unacked, APIF, AP, DIR, DIF, RXACK, listening,
                    clientBuffer, headS, tailS, checkNack, transmitted, written, answer, base>>
    BY <1>5 DEF vars, bus, hostTwi, clientTwi, clientVars, buffer, driver, transfer
  <2>2. BusInv'
    BY <2>1 DEF DInv, BusInv, FlagsTyped, InHand, Refusals, Refused
  <2>3. UNCHANGED hostVars
    BY <1>5 DEF vars
  <2> QED
    BY <2>1, <2>2, <2>3, TransferKept DEF DInv
<1> QED
  BY <1>1, <1>2, <1>3, <1>4, <1>5 DEF Next

LEMMA Delivery == Untouched => (Spec => []DInv)
<1>1. Init => DInv
  <2> SUFFICES ASSUME Init
               PROVE  DInv
    OBVIOUS
  <2>1. <<>> \in Lines /\ <<>> \in Seq(Octets) /\ First(<<>>) = "none"
    BY DEF Lines, First
  <2>2. 0 \in 0..CountWrap-1
    BY WrapAssumption
  <2>3. FlagsTyped
    BY <2>1, <2>2 DEF Init, BusInit, ClientInit, FlagsTyped
  <2> QED
    BY <2>1, <2>3 DEF Init, BusInit, HostInit, ClientInit, DInv, BusInv, InHand, Refusals,
       Refused, TransferInv
<1>2. WInv /\ DInv /\ [Next]_vars => DInv'
  BY DeliveryStep
<1> QED
  BY <1>1, <1>2, Invariance, PTL DEF Spec

----------------------------------------------------------------------------
(* What the host is told, and what it reads *)

(* endTransmission() returns 0 only if the client has every byte of the    *)
(* message, in order: a NACK that the loop lets pass was for the last byte *)
(* and the client kept it.                                                 *)
THEOREM SuccessMeansDelivered == Untouched => (Spec => SuccessIsDelivery)
<1>1. ASSUME WInv, DInv, Transmit, result' = "SUCCESS", loop' = "none"
      PROVE  written = hostBuffer
  <2>1. /\ loop = "transmit" /\ stat # 0 /\ WIF /\ left = 0
        /\ stat = 1 => ~NACK
    <3>1. CASE TransmitRefused
      BY <1>1, <3>1 DEF TransmitRefused, Poll, In, Leave, LeaveWith, Refusal
    <3>2. CASE TransmitDone
      BY <3>2 DEF TransmitDone, Poll, In
    <3>3. CASE TransmitTimeout
      BY <1>1, <3>3 DEF TransmitTimeout, Leave, LeaveWith
    <3>4. CASE SendAddress("transmit", "write") \/ TransmitByte
      BY <1>1, <3>4 DEF SendAddress, TransmitByte, Poll, In
    <3> QED
      BY <1>1, <3>1, <3>2, <3>3, <3>4 DEF Transmit
  <2>2. line = <<>> /\ Final(line) # "write" /\ Len(line) # 1
    BY <1>1, <2>1 DEF DInv, BusInv, InHand, Final
  <2>3. hostBuffer \in Seq(Octets) /\ Len(hostBuffer) = head /\ head \in Nat
    BY <1>1, <2>1 DEF WInv, HostInv
  <2>4. Transmitting(head - left)
    BY <1>1, <2>1 DEF DInv, TransferInv
  <2>5. CASE stat = 1
    <3>1. written = <<>> /\ head = 0
      BY <2>1, <2>2, <2>4, <2>5 DEF Transmitting
    <3> QED
      BY <2>3, <3>1
  <2>6. CASE stat # 1
    <3>1. written = SubSeq(hostBuffer, 1, head - left)
      BY <2>2, <2>4, <2>6 DEF Transmitting
    <3>2. \A s \in Seq(Octets) : SubSeq(s, 1, Len(s)) = s
      OBVIOUS
    <3> QED
      BY <2>1, <2>3, <3>1, <3>2
  <2> QED
    BY <2>5, <2>6
<1>2. WInv /\ DInv /\ [Next]_vars
      => [(Transmit /\ result' = "SUCCESS" /\ loop' = "none") => written = hostBuffer]_vars
  BY <1>1
<1> QED
  BY <1>2, Invariance, Delivery, PTL DEF Spec, SuccessIsDelivery

(* requestFrom() fills the host's buffer with what onRequest() wrote, and  *)
(* with what an idle line reads after that; and the client counts the      *)
(* bytes the host has read, and one more where it read on.                 *)
THEOREM HostReadsTheAnswer == Untouched => (Spec => ReadsTheAnswer)
<1>1. ASSUME WInv, DInv, ReceiveByte
      PROVE  /\ hostBuffer' = Expected(Len(hostBuffer) + 1)
             /\ loop' = "none" => Given = Least(head', Len(answer) + 1)
  <2> DEFINE got == Len(hostBuffer)
  <2>1. loop = "receive" /\ stat # 0 /\ RIF /\ ~WIF /\ hostBuffer' = Append(hostBuffer, data)
    BY <1>1 DEF ReceiveByte, Poll, In
  <2>2. line = <<>> /\ Final(line) # "read" /\ Len(line) # 1
    BY <1>1, <2>1 DEF DInv, BusInv, InHand, Final
  <2>3. /\ Progress(got + 1) /\ hostBuffer = Expected(got)
        /\ data = Expected(got + 1)[got + 1]
    BY <1>1, <2>1, <2>2 DEF DInv, TransferInv, Reading
  <2>4. got \in Nat /\ left \in Nat /\ got + left = head /\ head \in Nat
    BY <1>1, <2>1 DEF WInv, HostInv
  <2>5. Len(answer) \in Nat
    BY <1>1 DEF DInv, BusInv, FlagsTyped
  <2>6. hostBuffer' = Expected(got + 1)
    BY <2>1, <2>3, <2>4, ExpectedStep
  <2>7. loop' = "none" => Given = Least(head', Len(answer) + 1)
    <3> SUFFICES ASSUME loop' = "none"
                 PROVE  Given = Least(head', Len(answer) + 1)
      OBVIOUS
    <3>1. head' = got + 1
      BY <1>1, <2>1, <2>4 DEF ReceiveByte, LeaveWith
    <3>2. CASE listening
      BY <2>3, <2>4, <2>5, <3>1, <3>2 DEF Progress, Least
    <3>3. CASE ~listening
      BY <2>3, <2>4, <2>5, <3>1, <3>3 DEF Progress, Least
    <3> QED
      BY <3>2, <3>3
  <2> QED
    BY <2>6, <2>7
<1>2. WInv /\ DInv /\ [Next]_vars
      => [ReceiveByte =>
             /\ hostBuffer' = Expected(Len(hostBuffer) + 1)
             /\ loop' = "none" => Given = Least(head', Len(answer) + 1)]_vars
  BY <1>1
<1> QED
  BY <1>2, Invariance, Delivery, PTL DEF Spec, ReadsTheAnswer
=============================================================================
