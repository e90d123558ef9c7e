------------------------------- MODULE TwiBus -------------------------------
(***************************************************************************)
(* The two-wire bus and the TWI peripherals at its ends, as far as Wire.cpp *)
(* uses them: one host, one client whose address the host calls.  The host *)
(* gives its peripheral one operation after another; the client holds the  *)
(* clock from an address match, and from a byte, until it is commanded.    *)
(***************************************************************************)
EXTENDS Integers, Sequences

CONSTANTS
    Bytes,        \* what a byte may be
    Released      \* what the host reads where nobody drives the data line

ASSUME BytesAssumption == Released \notin Bytes

VARIABLES
    line,         \* the host's operations: "write" and "read" send the address,
                  \* "send" and "get" transfer a byte, "stop" frees the bus
    data,         \* the byte on the bus: MDATA here, SDATA there
    WIF, RIF, NACK,  \* MSTATUS: written, received, not acknowledged
    unacked,      \* the host has yet to answer the byte it received
    APIF, AP, DIR, DIF, RXACK,  \* SSTATUS; DIR: the host reads
    listening,    \* the client takes part in what follows
    open          \* its address was called and no STOP was seen since

hostTwi   == <<data, WIF, RIF, NACK, unacked>>
clientTwi == <<APIF, AP, DIR, DIF, RXACK, listening, open>>
bus       == <<line, hostTwi, clientTwi>>

BusInit ==
    /\ line = <<>> /\ data = Released
    /\ WIF = FALSE /\ RIF = FALSE /\ NACK = FALSE /\ unacked = FALSE
    /\ APIF = FALSE /\ AP = FALSE /\ DIR = FALSE /\ DIF = FALSE /\ RXACK = FALSE
    /\ listening = FALSE /\ open = FALSE

----------------------------------------------------------------------------
(* The host's side: MADDR, MDATA and MCTRLB are written. *)

Doing(op) == line # <<>> /\ Head(line) = op
Order(op) ==
    line' = Append(line, op) /\ WIF' = FALSE /\ RIF' = FALSE /\ NACK' = FALSE
Address(dir) == Order(dir) /\ UNCHANGED <<data, unacked>>
Send(byte) == Order("send") /\ data' = byte /\ UNCHANGED unacked
AckAndGet == Order("get") /\ unacked' = FALSE /\ UNCHANGED data
Stop == Order("stop") /\ UNCHANGED <<data, unacked>>

(* The operation in hand ends.  Flags are of the operation ordered last.   *)
Last == Len(line) = 1
Written(nack) ==
    /\ line' = Tail(line)
    /\ IF Last THEN WIF' = TRUE /\ NACK' = nack ELSE UNCHANGED <<WIF, NACK>>
    /\ data' = Released
    /\ UNCHANGED <<RIF, unacked>>
Received(byte) ==
    /\ line' = Tail(line)
    /\ IF Last THEN RIF' = TRUE /\ data' = byte ELSE UNCHANGED <<RIF, data>>
    /\ unacked' = TRUE
    /\ UNCHANGED <<WIF, NACK>>

----------------------------------------------------------------------------
(* The client's side: its commands (SCTRLB) answer an address match or a   *)
(* byte.  Respond goes on, Give does so with a byte for the host, Complete *)
(* and Reject wait for the next START.                                     *)

Held == DIF \/ (APIF /\ AP)

(* A byte the host has refused leaves nothing in hand: its next operation  *)
(* waits until the client has seen it.                                     *)
Command(goOn, ack, byte) ==
    /\ APIF' = FALSE /\ listening' = goOn
    /\ CASE APIF /\ AP /\ DIR /\ goOn ->
                DIF' = TRUE /\ line' = <<"get">> \o Tail(line) /\ UNCHANGED hostTwi
         [] APIF /\ AP /\ ~(DIR /\ goOn) ->
                DIF' = FALSE /\ Written(DIR \/ ~ack)
         [] DIF /\ ~APIF /\ DIR ->
                /\ DIF' = FALSE
                /\ IF Doing("get") THEN Received(byte) ELSE UNCHANGED <<line, hostTwi>>
         [] DIF /\ ~APIF /\ ~DIR ->
                DIF' = FALSE /\ Written(~ack)
         [] OTHER -> UNCHANGED <<DIF, line, hostTwi>>
    /\ UNCHANGED <<AP, DIR, RXACK, open>>
Respond    == Command(TRUE, TRUE, Released)
Give(byte) == Command(TRUE, TRUE, byte)
Complete   == Command(FALSE, TRUE, Released)
Reject     == Command(FALSE, FALSE, Released)

----------------------------------------------------------------------------
(* What the bus does by itself, while nobody holds the clock. *)

(* START, or START again, and the address. *)
Call ==
    /\ ~Held /\ ~unacked /\ (Doing("write") \/ Doing("read"))
    /\ APIF' = TRUE /\ AP' = TRUE /\ DIR' = Doing("read")
    /\ listening' = TRUE /\ open' = TRUE
    /\ UNCHANGED <<line, hostTwi, DIF, RXACK>>

Transfer ==
    /\ ~Held /\ Doing("send")
    /\ IF listening
       THEN DIF' = TRUE /\ UNCHANGED <<line, hostTwi>>
       ELSE Written(TRUE) /\ UNCHANGED DIF
    /\ UNCHANGED <<APIF, AP, DIR, RXACK, listening, open>>

(* The host has acknowledged a byte and wants another. *)
Fetch ==
    /\ ~Held /\ Doing("get")
    /\ IF listening
       THEN DIF' = TRUE /\ RXACK' = FALSE /\ UNCHANGED <<line, hostTwi>>
       ELSE Received(Released) /\ UNCHANGED <<DIF, RXACK>>
    /\ UNCHANGED <<APIF, AP, DIR, listening, open>>

(* The host does not want another. *)
Refuse ==
    /\ ~Held /\ unacked /\ line # <<>>
    /\ unacked' = FALSE
    /\ IF listening THEN DIF' = TRUE /\ RXACK' = TRUE ELSE UNCHANGED <<DIF, RXACK>>
    /\ UNCHANGED <<line, data, WIF, RIF, NACK, APIF, AP, DIR, listening, open>>

(* STOP does not hold the clock, and is told to a client that was called. *)
Free ==
    /\ ~Held /\ ~unacked /\ Doing("stop")
    /\ line' = Tail(line)
    /\ APIF' = (APIF \/ open) /\ AP' = FALSE /\ DIR' = FALSE
    /\ open' = FALSE /\ listening' = FALSE
    /\ UNCHANGED <<hostTwi, DIF, RXACK>>

BusTypeOK ==
    /\ line \in Seq({"write", "read", "send", "get", "stop"})
    /\ data \in Bytes \cup {Released}
    /\ {WIF, RIF, NACK, unacked} \subseteq BOOLEAN
    /\ {APIF, AP, DIR, DIF, RXACK, listening, open} \subseteq BOOLEAN
=============================================================================
