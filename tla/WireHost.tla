------------------------------ MODULE WireHost ------------------------------
(***************************************************************************)
(* The host half of TwoWire (Wire.cpp): a transfer is one polling loop on  *)
(* MSTATUS, which goes round until the last byte, an error or a timeout.   *)
(* One buffer with its two indices serves both directions.                 *)
(***************************************************************************)
EXTENDS TwiBus

CONSTANTS
    HostLength,   \* TWI_BUFFER_LENGTH of the host
    Messages,     \* what the program writes, with all beginnings of it
    MaxOrders     \* bound: operations left over when the program goes on

ASSUME HostLengthAssumption == HostLength \in Nat \ {0} /\ MaxOrders \in Nat

VARIABLES
    hostBuffer, head,   \* _hostBuffer as far as it is used, _bytesToReadWrite
    loop,         \* "none", or the loop the program is in
    stat,         \* bits 0 and 1: the address, and data, have been sent
    left,         \* dataToWrite or dataToRead
    sendStop,     \* the program's argument
    result        \* what the last loop returned

hostVars == <<hostBuffer, head, loop, stat, left, sendStop, result>>

Errors == {"SUCCESS", "ACK_ADR", "ACK_DAT", "TIMEOUT"}

HostInit ==
    /\ hostBuffer = <<>> /\ head = 0
    /\ loop = "none" /\ stat = 0 /\ left = 0 /\ sendStop = TRUE
    /\ result = "SUCCESS"

Idle == loop = "none"

----------------------------------------------------------------------------
(* The program's calls. *)

BeginTransmission ==
    /\ Idle
    /\ head' = 0 /\ hostBuffer' = <<>>
    /\ UNCHANGED <<bus, loop, stat, left, sendStop, result>>

Write(byte) ==
    /\ Idle /\ head < HostLength
    /\ hostBuffer' = Append(hostBuffer, byte) /\ head' = head + 1
    /\ hostBuffer' \in Messages
    /\ UNCHANGED <<bus, loop, stat, left, sendStop, result>>

Enter(which, count) ==
    /\ Idle /\ Len(line) <= MaxOrders
    /\ loop' = which /\ stat' = 0 /\ left' = count
    /\ sendStop' \in BOOLEAN /\ result' = "SUCCESS"
    /\ UNCHANGED bus

EndTransmission == Enter("transmit", head) /\ UNCHANGED <<hostBuffer, head>>

(* The buffer is filled from its start. *)
Capped(quantity) == IF quantity > HostLength THEN HostLength ELSE quantity
RequestFrom(quantity) ==
    /\ Enter("receive", Capped(quantity))
    /\ head' = Capped(quantity) /\ hostBuffer' = <<>>

(* *length -= what is left. *)
LeaveWith(error) ==
    /\ loop' = "none" /\ stat' = 0 /\ result' = error
    /\ head' = head - left'
    /\ sendStop' = TRUE
Leave(error) ==
    /\ left' = left
    /\ LeaveWith(error)
    /\ hostBuffer' = SubSeq(hostBuffer, 1, head')

----------------------------------------------------------------------------
(* masterTransmit(): one action for each way through the loop. *)

In(which) == loop = which
Poll(which) == In(which) /\ stat # 0

SendAddress(which, dir) ==
    /\ In(which) /\ stat = 0
    /\ Address(dir) /\ stat' = 1
    /\ UNCHANGED <<clientTwi, hostBuffer, head, loop, left, sendStop, result>>

StopOr(end) == IF end THEN Stop ELSE UNCHANGED <<line, hostTwi>>

(* A NACK for the last byte is no error. *)
NeverRefused == "SUCCESS"
Refusal == IF stat = 1 THEN "ACK_ADR" ELSE IF left = 0 THEN "SUCCESS" ELSE "ACK_DAT"
TransmitRefused ==
    /\ Poll("transmit") /\ WIF /\ NACK
    /\ Leave(Refusal)
    /\ StopOr(sendStop \/ result' # "SUCCESS")
    /\ UNCHANGED clientTwi

TransmitByte ==
    /\ Poll("transmit") /\ WIF /\ ~NACK /\ left # 0
    /\ Send(hostBuffer[head - left + 1])
    /\ left' = left - 1 /\ stat' = 3
    /\ UNCHANGED <<clientTwi, hostBuffer, head, loop, sendStop, result>>

TransmitDone ==
    /\ Poll("transmit") /\ WIF /\ ~NACK /\ left = 0
    /\ Leave("SUCCESS")
    /\ StopOr(sendStop)
    /\ UNCHANGED clientTwi

(* The loop has gone round too often, since it last sent something. *)
TransmitTimeout ==
    /\ Poll("transmit")
    /\ Leave("TIMEOUT")
    /\ Stop
    /\ UNCHANGED clientTwi

----------------------------------------------------------------------------
(* masterReceive() *)

ReceiveRefused ==
    /\ Poll("receive") /\ WIF
    /\ Leave("ACK_ADR")
    /\ Stop
    /\ UNCHANGED clientTwi

ReceiveByte ==
    /\ Poll("receive") /\ RIF /\ ~WIF
    /\ left' = left - 1
    /\ hostBuffer' = Append(hostBuffer, data)
    /\ IF left' # 0
       THEN AckAndGet /\ UNCHANGED <<head, loop, stat, sendStop, result>>
       ELSE LeaveWith("SUCCESS") /\ StopOr(sendStop)
    /\ UNCHANGED clientTwi

(* No STOP is sent: the bus stays the host's. *)
WaitForEver == FALSE
ReceiveTimeout ==
    /\ Poll("receive")
    /\ Leave("TIMEOUT")
    /\ UNCHANGED bus

----------------------------------------------------------------------------
HostCall ==
    \/ BeginTransmission \/ EndTransmission
    \/ \E byte \in Bytes : Write(byte)
    \/ \E quantity \in 1..HostLength+1 : RequestFrom(quantity)
Transmit ==
    \/ SendAddress("transmit", "write") \/ TransmitRefused \/ TransmitByte
    \/ TransmitDone \/ TransmitTimeout
Receive ==
    SendAddress("receive", "read") \/ ReceiveRefused \/ ReceiveByte \/ ReceiveTimeout
HostLoop == Transmit \/ Receive

HostTypeOK ==
    /\ hostBuffer \in Seq(Bytes \cup {Released}) /\ head \in 0..HostLength
    /\ loop \in {"none", "transmit", "receive"}
    /\ stat \in {0, 1, 3} /\ left \in 0..HostLength
    /\ sendStop \in BOOLEAN /\ result \in Errors
=============================================================================
