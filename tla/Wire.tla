-------------------------------- MODULE Wire --------------------------------
(***************************************************************************)
(* Two parts with this library at the ends of one bus, the one as host and *)
(* the other as client: what a transfer promises from end to end.          *)
(***************************************************************************)
EXTENDS WireHost, WireClient

CONSTANT
    Overlap       \* a START may come while the client handles the STOP before

ASSUME OverlapAssumption == Overlap \in BOOLEAN
(* The count of bytes has the type of the buffers' indices (Wire.h:127).   *)
ASSUME CountAssumption == HostLength < CountWrap

vars == <<bus, hostVars, clientVars>>

Init == BusInit /\ HostInit /\ ClientInit

HostNext == (HostCall \/ HostLoop) /\ UNCHANGED clientVars
Wires ==
    /\ \/ Call /\ (handling => Overlap)
       \/ Transfer \/ Fetch \/ Refuse \/ Free
    /\ UNCHANGED <<hostVars, clientVars>>
Interrupts == Handler /\ UNCHANGED hostVars
Sketch == ClientProgram /\ UNCHANGED hostVars

Next == HostNext \/ Wires \/ Interrupts \/ Sketch

(* Both CPUs execute, and the bus works.  Nobody calls anything, and the   *)
(* client's program may leave its interrupts off.                          *)
Fairness ==
    /\ WF_vars(HostLoop /\ UNCHANGED clientVars)
    /\ WF_vars(Wires) /\ WF_vars(Interrupts)

Spec == Init /\ [][Next]_vars
FairSpec == Spec /\ Fairness
----------------------------------------------------------------------------
(* Properties *)

(* endTransmission() returns 0 only if the client has every byte of the    *)
(* message, in order (README.md:451, "Success ... Yes"): a NACK that the   *)
(* loop lets pass was for a byte the client kept.                          *)
SuccessIsDelivery ==
    [][(Transmit /\ result' = "SUCCESS" /\ loop' = "none") =>
           written = hostBuffer]_vars

(* onReceive() is given exactly what the host wrote since it called the    *)
(* client, with a write: no byte of another, none twice, and not at all    *)
(* after a read.                                                           *)
ReportsWhatWasWritten ==
    [][(Interrupts /\ OnReceive) => ReceivedData = written]_vars

(* requestFrom() fills the host's buffer with what onRequest() wrote, from *)
(* its start, and with what an idle line reads after that; and the client  *)
(* counts the bytes the host has read, and one more where the host read on *)
(* (Wire.cpp:1363).                                                        *)
Least(m, n) == IF m < n THEN m ELSE n
Expected(n) ==
    [i \in 1..n |-> IF i <= Len(answer) THEN answer[i] ELSE Released]
Given == (transmitted + CountWrap - base) % CountWrap
ReadsTheAnswer ==
    [][ReceiveByte =>
           /\ hostBuffer' = Expected(Len(hostBuffer) + 1)
           /\ loop' = "none" => Given = Least(head', Len(answer) + 1)]_vars

(* From the address match to the STOP the CPU cannot enter a sleep from    *)
(* which a byte does not wake it; after the STOP the program's setting is  *)
(* back (README.md:530).                                                   *)
SleepKept ==
    /\ called => CTRLA # "deep"
    /\ (~called /\ ~handling) => CTRLA = wanted

(* No transfer hangs, and the client does not hold the clock for ever      *)
(* unless its program turns interrupts off.                                *)
BusGoesOn ==
    /\ loop # "none" ~> loop = "none"
    /\ Held ~> (~Held \/ ~ieS)
=============================================================================
