------------------------------- MODULE Usart -------------------------------
(***************************************************************************)
(* One USART peripheral of the chip, as far as UART.cpp drives it: the     *)
(* interrupt enables of CTRLA, the enables of CTRLB, the transmit data     *)
(* register in front of the shift register, the transmit-complete flag     *)
(* and the receive FIFO.  The peripheral is not part of the repository: it *)
(* is modelled from the way the driver uses its registers and from what    *)
(* Ref_Serial.md says of its buffers.                                      *)
(*                                                                         *)
(* A byte is the ordinal of the frame that carries it: the n-th byte given *)
(* to write(), the n-th frame sent by the other end.  The history          *)
(* variables sent, last and arrived are the serial line's own record.      *)
(***************************************************************************)
EXTENDS Integers, Sequences

CONSTANTS
    RxDepth,     \* frames the receiver holds: its FIFO and its shift register
    LineErrors   \* the sets of error bits a frame may arrive with

ASSUME RxDepthAssumption == RxDepth \in Nat \ {0}
ASSUME LineErrorsAssumption == LineErrors \subseteq SUBSET {"p", "f"}

VARIABLES
    ctrla,       \* CTRLA: the interrupt enables that are set
    ctrlb,       \* CTRLB: receiver and transmitter enables
    loopback,    \* LBME and ODME: the receiver hears our own frames
    txdata,      \* TXDATAL, or NoByte when DREIF is set
    shift,       \* the byte being shifted out, or NoByte
    txcif,       \* STATUS.TXCIF
    rxfifo,      \* frames received and not read from RXDATA
    bufovf,      \* RXDATAH.BUFOVF of the next read
    sent,        \* number of frames shifted out
    last,        \* the byte of the latest of them
    arrived      \* number of frames the other end has sent

txWire == <<txdata, shift, txcif, sent, last>>
rxWire == <<rxfifo, bufovf, arrived>>
config == <<ctrla, ctrlb, loopback>>

IntEnables == {"RXCIE", "DREIE", "TXCIE"}
NoByte == -1     \* an empty transmit register
Echo   == 0      \* the receiver's copy of a frame of our own

DREIF == txdata = NoByte
RXCIF == rxfifo # <<>>

Frame == [byte : Nat, errs : SUBSET {"p", "f"}]

----------------------------------------------------------------------------
(* Register accesses of the driver. *)

(* A write to TXDATAL: straight into an idle shift register, ignored when  *)
(* the data register is full.                                              *)
PutTXDATA(c) ==
    IF ~DREIF
    THEN UNCHANGED <<txdata, shift>>
    ELSE IF shift = NoByte /\ "TXEN" \in ctrlb
         THEN shift' = c /\ UNCHANGED txdata
         ELSE txdata' = c /\ UNCHANGED shift

ClearTXCIF == txcif' = FALSE

ReadRXDATA == rxfifo' = Tail(rxfifo) /\ bufovf' = FALSE

(* Reading RXDATAL until RXCIF is clear, or switching the receiver off. *)
DiscardRx == rxfifo' = <<>> /\ bufovf' = FALSE

(* CTRLB = TXEN | RXEN after CTRLB = 0: what was received is gone, and a   *)
(* byte left in the data register starts to go out.                        *)
EnableBoth ==
    /\ ctrlb' = {"RXEN", "TXEN"}
    /\ DiscardRx
    /\ IF shift = NoByte /\ ~DREIF
       THEN shift' = txdata /\ txdata' = NoByte
       ELSE UNCHANGED <<shift, txdata>>

----------------------------------------------------------------------------
(* What the hardware does by itself. *)

Receive(frame) ==
    IF Len(rxfifo) < RxDepth
    THEN rxfifo' = Append(rxfifo, frame) /\ UNCHANGED bufovf
    ELSE bufovf' = TRUE /\ UNCHANGED rxfifo

(* The stop bit of the byte in the shift register: the next byte follows   *)
(* it, or transmission is complete.  A transmitter that has been disabled  *)
(* still finishes what it holds.                                           *)
EndOfFrame ==
    /\ shift # NoByte
    /\ sent' = sent + 1
    /\ last' = shift
    /\ shift' = txdata
    /\ txdata' = NoByte
    /\ txcif' = (txcif \/ DREIF)
    /\ IF loopback /\ "RXEN" \in ctrlb
       THEN Receive([byte |-> Echo, errs |-> {}])
       ELSE UNCHANGED <<rxfifo, bufovf>>
    /\ UNCHANGED <<config, arrived>>

(* A frame from the other end. *)
Arrival(errs) ==
    /\ "RXEN" \in ctrlb
    /\ arrived' = arrived + 1
    /\ Receive([byte |-> arrived + 1, errs |-> errs])
    /\ UNCHANGED <<config, txWire>>

UsartInit ==
    /\ ctrla = {} /\ ctrlb = {} /\ loopback = FALSE
    /\ txdata = NoByte /\ shift = NoByte /\ txcif = FALSE
    /\ rxfifo = <<>> /\ bufovf = FALSE
    /\ sent = 0 /\ last = 0 /\ arrived = 0

UsartTypeOK ==
    /\ ctrla \subseteq IntEnables
    /\ ctrlb \subseteq {"RXEN", "TXEN"}
    /\ loopback \in BOOLEAN
    /\ txdata \in Nat \cup {NoByte}
    /\ shift \in Nat \cup {NoByte}
    /\ txcif \in BOOLEAN
    /\ rxfifo \in Seq(Frame)
    /\ Len(rxfifo) <= RxDepth
    /\ bufovf \in BOOLEAN
    /\ sent \in Nat /\ last \in Nat /\ arrived \in Nat
============================================================================
