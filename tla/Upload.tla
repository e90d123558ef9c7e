------------------------------- MODULE Upload -------------------------------
(***************************************************************************)
(* A host (avrdude with the protocol stk500v1) uploads an image to the     *)
(* bootloader and reads it back, over a line that loses bytes and changes  *)
(* them, to a part that may be reset at any moment.  The host sends a      *)
(* message, waits for what it expects in reply, and gives up on any other  *)
(* reply and on none.  A session may be followed by another.               *)
(***************************************************************************)
EXTENDS Optiboot

CONSTANTS
    Image,        \* what is uploaded, by page
    Order,        \* the pages in the order in which they are sent
    MaxSessions,
    MaxLosses, MaxGarbles,   \* bytes lost and changed, in either direction
    Garbles,      \* what a byte may be changed to
    MaxResets,    \* resets and entries from outside
    MaxFaults     \* all of these

ASSUME ImageAssumption == Image \in [Pages -> [0..PageSize-1 -> 0..255]]
ASSUME OrderAssumption == Order \in Seq(Pages)
ASSUME FaultAssumption ==
    /\ {MaxSessions, MaxLosses, MaxGarbles, MaxResets, MaxFaults} \subseteq Nat
    /\ Garbles \subseteq 0..255

VARIABLES
    host,         \* what the host does
    message,      \* its place in the session
    expected,     \* what is still to come in reply
    written, verified,                  \* pages acknowledged in this session
    sessions, losses, garbles, outside, \* how often each has happened
    misled        \* a byte has changed that was a command or its argument

hostVars == <<host, message, expected, written, verified, sessions>>
counts   == <<losses, garbles, outside, misled>>
vars     == <<boot, hostVars, counts>>

AddressOf(p) == <<(p * PageSize) % 256, (p * PageSize) \div 256>>
Data(p) == [i \in 1..PageSize |-> Image[p][i - 1]]

Message(does, page, bytes, data) ==
    [does |-> does, page |-> page, bytes |-> bytes \o <<CRC_EOP>>,
     reply |-> <<STK_INSYNC>> \o data \o <<STK_OK>>]
Load(p) == Message("load", p, <<STK_LOAD_ADDRESS>> \o AddressOf(p), <<>>)
Prog(p) == Message("prog", p, <<STK_PROG_PAGE, 0, PageSize, Flash>> \o Data(p), <<>>)
Read(p) == Message("read", p, <<STK_READ_PAGE, 0, PageSize, Flash>>, Data(p))

Simple(c) == Message("other", 0, <<c>>, <<>>)
Version   == Message("other", 0, <<STK_GET_PARAMETER, STK_SW_MAJOR>>, <<OPTIBOOT_MAJVER>>)
Universal == Message("other", 0, <<STK_UNIVERSAL, 48, 0, 0, 0>>, <<0>>)
Signed    == Message("other", 0, <<STK_READ_SIGN>>, Signature)

Paged(Second(_)) ==
    [i \in 1..2 * Len(Order) |->
        LET p == Order[(i + 1) \div 2] IN IF i % 2 = 1 THEN Load(p) ELSE Second(p)]
Session ==
    <<Simple(STK_GET_SYNC), Version, Signed, Universal>>
    \o Paged(Prog) \o Paged(Read) \o <<Simple(STK_LEAVE_PROGMODE)>>

Current == Session[message]

Init ==
    /\ BootInit
    /\ host = "idle" /\ message = 1 /\ expected = <<>>
    /\ written = {} /\ verified = {} /\ sessions = 0
    /\ losses = 0 /\ garbles = 0 /\ outside = 0 /\ misled = FALSE

----------------------------------------------------------------------------
(* The host *)

(* Nothing is on its way, and nothing will be. *)
Quiet == line = <<>> /\ replies = <<>> /\ pc \notin {"start", "write"}

(* Opening the port resets the part, if it is wired so. *)
Begin ==
    /\ host = "idle" /\ sessions < MaxSessions /\ Quiet
    /\ host' = "send" /\ sessions' = sessions + 1
    /\ message' = 1 /\ written' = {} /\ verified' = {}
    /\ Restart("EXT") \/ UNCHANGED boot
    /\ UNCHANGED <<expected, counts>>

Send ==
    /\ host = "send" /\ host' = "wait"
    /\ line' = line \o Current.bytes /\ expected' = Current.reply
    /\ UNCHANGED <<command, memory, resets, replies, message, written, verified,
                   sessions, counts>>

Anyhow(byte) == TRUE
Expects(byte) == byte = Head(expected)
Done(does) == IF Current.does = does THEN {Current.page} ELSE {}

Receive ==
    /\ host = "wait" /\ replies # <<>> /\ Expects(Head(replies))
    /\ replies' = Tail(replies) /\ expected' = Tail(expected)
    /\ IF expected' # <<>>
       THEN UNCHANGED <<host, message, written, verified>>
       ELSE /\ written' = written \cup Done("prog")
            /\ verified' = verified \cup Done("read")
            /\ IF message < Len(Session)
               THEN host' = "send" /\ message' = message + 1
               ELSE host' = "idle" /\ UNCHANGED message
    /\ UNCHANGED <<command, memory, resets, line, sessions, counts>>

GiveUp ==
    /\ host = "wait"
    /\ Quiet \/ (replies # <<>> /\ ~Expects(Head(replies)))
    /\ host' = "idle" /\ expected' = <<>>
    /\ UNCHANGED <<boot, message, written, verified, sessions, counts>>

(* What no session waits for. *)
Stale ==
    /\ host = "idle" /\ replies # <<>>
    /\ replies' = Tail(replies)
    /\ UNCHANGED <<command, memory, resets, line, hostVars, counts>>

Host == Begin \/ Send \/ Receive \/ GiveUp \/ Stale

----------------------------------------------------------------------------
(* The line, and what is done to the part from outside *)

(* The bound on what goes wrong. *)
Another == losses + garbles + outside < MaxFaults

Lose ==
    /\ Another /\ losses < MaxLosses /\ losses' = losses + 1
    /\ \/ line # <<>> /\ line' = Tail(line) /\ UNCHANGED replies
       \/ replies # <<>> /\ replies' = Tail(replies) /\ UNCHANGED line
    /\ UNCHANGED <<command, memory, resets, hostVars, garbles, outside, misled>>

(* The next byte is a page's data or a terminator. *)
Plain == pc = "data" \/ (pc = "verify" /\ Len(line) = 1)

Garble ==
    /\ Another /\ garbles < MaxGarbles /\ garbles' = garbles + 1
    /\ \E byte \in Garbles :
        \/ line # <<>> /\ line' = <<byte>> \o Tail(line) /\ UNCHANGED replies
        \/ replies # <<>> /\ replies' = <<byte>> \o Tail(replies) /\ UNCHANGED line
    /\ misled' = (misled \/ (line' # line /\ ~Plain))
    /\ UNCHANGED <<command, memory, resets, hostVars, losses, outside>>

(* Neither another reset before the first has been looked at, nor one      *)
(* while a page is written.                                                *)
Outside ==
    /\ Another /\ outside < MaxResets /\ outside' = outside + 1
    /\ \/ /\ pc \notin {"start", "write"}
          /\ \E why \in {"POR", "BOD", "EXT", "UPDI"} : Restart(why)
       \/ Enter
    /\ UNCHANGED <<hostVars, losses, garbles, misled>>

Runs == Start \/ Loop \/ Watchdog \/ Unread
Bootloader == Runs /\ UNCHANGED <<hostVars, counts>>

Next == Bootloader \/ Host \/ Lose \/ Garble \/ Outside

(* The CPU executes, the watchdog counts, and a host that waits receives   *)
(* or gives up.                                                            *)
Spec == Init /\ [][Next]_vars
FairSpec == Spec /\ WF_vars(Bootloader) /\ WF_vars(Host)
----------------------------------------------------------------------------
(* Properties *)

(* One byte lost: a page the bootloader has acknowledged is in the flash,  *)
(* and none is torn or written elsewhere, whichever byte it is: the length *)
(* and the terminator are what the protocol has for a checksum             *)
(* (optiboot_x.c:496).  Not so if the part is reset: the end of a page     *)
(* that comes just when the bootloader listens again is a command.  Nor    *)
(* where a page has 128 bytes: without the high byte of its length "F", 70,*)
(* is the length, and so many are written if a terminator comes then.      *)
AckedIsWritten ==
    (losses <= 1 /\ garbles = 0 /\ outside = 0) =>
        /\ \A p \in written : flash[p] = Image[p]
        /\ \A p \in Pages : flash[p] \in {Old[p], Image[p]}
        /\ ~stray

(* A page the host has read back in this session is in the flash, also if  *)
(* a byte of its data, a terminator or an answer changes.  Not so if it is *)
(* a command or an argument that changes, the length of a page say: the    *)
(* rest of the data can then be commands that answer in place of the host's*)
(* next; nor if the part is reset as well.                                 *)
VerifiedIsImage ==
    (losses + garbles <= 1 /\ outside = 0 /\ ~misled) =>
        \A p \in verified : flash[p] = Image[p]

(* The watchdog's reset always leads to the application, and no other but  *)
(* a brown-out does: after the rest the bootloader listens first.  And     *)
(* only after a reset does it use the peripherals: an application that     *)
(* ends up in it has them configured (optiboot_x.c:380).                   *)
ResetDecides ==
    /\ [][pc = "start" /\ pc' # "start" =>
              /\ cause = "WDT" => pc' = "app"
              /\ pc' = "app" => cause \in {"WDT", "BOD"}]_vars
    /\ [](pc \in Waiting \cup {"write", "spin"} => ~configured)

(* Whatever the host sends or fails to send, the application runs again.   *)
AppStarts == []<>(pc = "app")
=============================================================================
