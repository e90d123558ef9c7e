----------------------------- MODULE WireClient -----------------------------
(***************************************************************************)
(* The client half of TwoWire (Wire.cpp): HandleSlaveIRQ() with the        *)
(* program's onReceive() and onRequest() functions, which run inside it,   *)
(* and the guard that keeps the CPU out of deep sleep during a transaction.*)
(* The handler holds the clock while it answers an address or a byte; a    *)
(* STOP does not, and the next transaction may begin while it is handled.  *)
(***************************************************************************)
EXTENDS TwiBus

CONSTANTS
    ClientLength,  \* TWI_BUFFER_LENGTH of the client
    Answers,       \* what onRequest() writes: sequences of bytes
    HeadAtBegin,   \* what an earlier use as a host has left in the index
    CountWrap      \* values of twi_buf_index_t, for the count of bytes read

ASSUME ClientLengthAssumption == ClientLength \in Nat \ {0}
ASSUME AnswersAssumption == \A a \in Answers : a \in Seq(Bytes) /\ Len(a) <= ClientLength
ASSUME WrapAssumption == CountWrap \in Nat \ {0}

VARIABLES
    clientBuffer,  \* the buffer: what the host wrote, or what it will read
    headS, tailS,  \* its indices
    hostDataSent,  \* a write to the client is open, or not yet reported
    checkNack,     \* client_irq_mask has RXACK in it
    transmitted,   \* _bytesTransmittedS
    CTRLA,         \* SLPCTRL.CTRLA: "off", "idle" or "deep"
    sleepStack,
    asleep,        \* the CPU sleeps, how deep
    ieS,           \* the client program's SREG.I
    handling,      \* a STOP is being handled
    called,        \* an address match was handled, and no STOP since
    written,       \* bytes the host has sent since that match, or NoWrite
    answer,        \* what onRequest() wrote last
    base,          \* transmitted, as it was at that moment
    wanted         \* the sleep mode the program set last

buffer     == <<clientBuffer, headS, tailS>>
driver     == <<hostDataSent, checkNack, transmitted>>
guard      == <<CTRLA, sleepStack>>
cpu        == <<ieS, asleep, handling>>
transfer   == <<called, written, answer, base>>
clientVars == <<buffer, driver, guard, cpu, transfer, wanted>>

NoWrite == <<Released>>

ClientInit ==
    /\ clientBuffer = <<>> /\ headS \in HeadAtBegin /\ tailS = 0
    /\ hostDataSent = FALSE /\ checkNack = FALSE /\ transmitted = 0
    /\ CTRLA = "off" /\ sleepStack = "off" /\ asleep = "off" /\ ieS = TRUE
    /\ handling = FALSE
    /\ called = FALSE /\ written = NoWrite /\ answer = <<>>
    /\ base = 0
    /\ wanted = "off"

----------------------------------------------------------------------------
(* The sleep guard. *)

Lighter(mode) == IF mode = "deep" THEN "idle" ELSE mode
PauseAgain == sleepStack' = CTRLA /\ CTRLA' = Lighter(CTRLA)
PauseDeepSleep ==
    IF sleepStack = "off" THEN sleepStack' = CTRLA /\ CTRLA' = Lighter(CTRLA)
                          ELSE UNCHANGED guard
RestoreSleep == CTRLA' = sleepStack /\ sleepStack' = "off"

(* An interrupt wakes the CPU; from deep sleep an address match only does. *)
Interrupt == ieS /\ ~handling /\ (asleep = "deep" => APIF /\ AP)
Entered == asleep' = "off" /\ UNCHANGED <<ieS, handling>>

----------------------------------------------------------------------------
(* The handler. *)

(* A write has come to its end: onReceive() is called, and may read this.  *)
OnReceive == APIF /\ hostDataSent
ReceivedData == SubSeq(clientBuffer, 1, headS)

(* An address match.  What onRequest() writes is in the buffer afterwards. *)
AddressMatch(filled) ==
    /\ Interrupt /\ APIF /\ AP
    /\ IF headS = 0 THEN PauseDeepSleep ELSE UNCHANGED guard
    /\ clientBuffer' = filled /\ headS' = Len(filled) /\ tailS' = 0
    /\ called' = TRUE /\ written' = (IF DIR THEN NoWrite ELSE <<>>) /\ answer' = filled /\ base' = transmitted
    /\ Entered
    /\ UNCHANGED <<checkNack, transmitted, wanted>>

HandleWrite ==
    /\ AddressMatch(<<>>) /\ ~DIR
    /\ hostDataSent' = TRUE
    /\ Respond

StillSent(filled) ==
    /\ AddressMatch(filled) /\ DIR
    /\ UNCHANGED hostDataSent
    /\ IF filled = <<>> THEN Reject ELSE Respond
HandleRead(filled) ==
    /\ AddressMatch(filled) /\ DIR
    /\ hostDataSent' = FALSE
    /\ IF filled = <<>> THEN Reject ELSE Respond

(* A STOP: the status is read, onReceive() called, ... *)
HandleStop ==
    /\ Interrupt /\ APIF /\ ~AP
    /\ hostDataSent' = FALSE
    /\ handling' = TRUE /\ asleep' = "off"
    /\ UNCHANGED <<bus, buffer, checkNack, transmitted, guard, ieS, transfer, wanted>>

(* ... and the peripheral told to wait for a START, whatever has come. *)
FinishStop ==
    /\ handling
    /\ RestoreSleep
    /\ clientBuffer' = <<>> /\ headS' = 0 /\ tailS' = 0
    /\ Complete
    /\ handling' = FALSE /\ UNCHANGED <<ieS, asleep>>
    /\ called' = FALSE /\ written' = NoWrite /\ answer' = <<>> /\ base' = 0
    /\ UNCHANGED <<driver, wanted>>

Data == Interrupt /\ ~APIF /\ DIF

(* A byte from the host; the one that fills the buffer is refused, too. *)
Full == headS + 1 = ClientLength
HandleByte ==
    /\ Data /\ ~DIR /\ headS < ClientLength
    /\ clientBuffer' = Append(clientBuffer, data) /\ headS' = headS + 1
    /\ IF Full THEN Reject ELSE Respond
    /\ written' = Append(written, data)
    /\ Entered
    /\ UNCHANGED <<tailS, driver, guard, called, answer, base, wanted>>

(* The host has refused another byte ... *)
RefusedStale == RXACK
Refused == checkNack /\ RXACK
HandleRefused ==
    /\ Data /\ DIR /\ Refused
    /\ checkNack' = FALSE
    /\ headS' = 0 /\ clientBuffer' = <<>> /\ tailS' = 0
    /\ Complete
    /\ Entered
    /\ UNCHANGED <<hostDataSent, transmitted, guard, transfer, wanted>>

(* ... or wants one, which there may not be. *)
Count == transmitted' = (transmitted + 1) % CountWrap
HandleGet ==
    /\ Data /\ DIR /\ ~Refused
    /\ Count
    /\ checkNack' = TRUE
    /\ IF tailS < headS
       THEN tailS' = tailS + 1 /\ Give(clientBuffer[tailS + 1])
            /\ UNCHANGED <<clientBuffer, headS>>
       ELSE tailS' = 0 /\ headS' = 0 /\ clientBuffer' = <<>> /\ Complete
    /\ Entered
    /\ UNCHANGED <<hostDataSent, guard, transfer, wanted>>

----------------------------------------------------------------------------
(* The client's program, between interrupts. *)

Running == ~handling /\ asleep = "off"

SetInterrupts ==
    /\ Running
    /\ ieS' = ~ieS
    /\ UNCHANGED <<bus, buffer, driver, guard, asleep, handling, transfer, wanted>>

(* set_sleep_mode() and sleep_enable(), or sleep_disable(), between the    *)
(* transactions.                                                           *)
SetSleep ==
    /\ Running /\ ~called /\ ~APIF
    /\ CTRLA' \in {"off", "deep"} /\ wanted' = CTRLA'
    /\ UNCHANGED <<bus, buffer, driver, sleepStack, cpu, transfer>>

SleepCpu ==
    /\ Running /\ ieS /\ CTRLA # "off"
    /\ asleep' = CTRLA
    /\ UNCHANGED <<bus, buffer, driver, guard, ieS, handling, transfer, wanted>>

(* getBytesRead(), called with interrupts off. *)
GetBytesRead ==
    /\ Running
    /\ transmitted' = 0 /\ base' = (base + CountWrap - transmitted) % CountWrap
    /\ UNCHANGED <<bus, buffer, hostDataSent, checkNack, guard, cpu, called, written,
                   answer, wanted>>

HandleRequest == \E filled \in Answers : HandleRead(filled)
Handler ==
    \/ HandleWrite \/ HandleRequest \/ HandleStop \/ FinishStop
    \/ HandleByte \/ HandleRefused \/ HandleGet
ClientProgram == SetInterrupts \/ SetSleep \/ SleepCpu \/ GetBytesRead

Modes == {"off", "idle", "deep"}
ClientTypeOK ==
    /\ clientBuffer \in Seq(Bytes \cup {Released})
    /\ {headS, tailS} \subseteq 0..ClientLength
    /\ {hostDataSent, checkNack, ieS, handling, called} \subseteq BOOLEAN
    /\ {transmitted, base} \subseteq 0..CountWrap-1
    /\ {CTRLA, sleepStack, asleep, wanted} \subseteq Modes
    /\ {written, answer} \subseteq Seq(Bytes \cup {Released})
=============================================================================
