------------------------------ MODULE Optiboot ------------------------------
(***************************************************************************)
(* The serial bootloader (optiboot_x.c): what it decides by the cause of   *)
(* the reset, the commands it obeys, and the watchdog that ends it.  The   *)
(* bytes it waits for come on `line', and it answers on `replies'.         *)
(*                                                                         *)
(* A byte that arrives is taken with all that is done before the next is   *)
(* waited for; the write of a page is a step of its own.                   *)
(***************************************************************************)
EXTENDS Integers, Sequences, FiniteSets

CONSTANTS
    Pages,        \* pages of the application, by number
    PageSize,     \* MAPPED_PROGMEM_PAGE_SIZE
    Old           \* what the flash holds at first, by page

ASSUME PageAssumption ==
    /\ Pages \subseteq Nat /\ PageSize \in {1, 2, 4, 8, 16, 32, 64, 128}
    /\ Old \in [Pages -> [0..PageSize-1 -> 0..255]]

(* stk500.h *)
STK_OK == 16
STK_INSYNC == 20
CRC_EOP == 32
STK_GET_PARAMETER == 65
STK_SET_DEVICE == 66
STK_SET_DEVICE_EXT == 69
STK_LOAD_ADDRESS == 85
STK_UNIVERSAL == 86
STK_PROG_PAGE == 100
STK_READ_PAGE == 116
STK_READ_SIGN == 117
STK_LEAVE_PROGMODE == 81
STK_GET_SYNC == 48
STK_SW_MAJOR == 129
STK_SW_MINOR == 130
OPTIBOOT_MAJVER == 9
OPTIBOOT_MINVER == 1

Flash == 70                \* 'F'
MAPPED_PROGMEM_START == 32768
MAPPED_EEPROM_START  == 5120
DataSpace == 65536         \* what an address reaches
Erased == 255

Causes == {"POR", "BOD", "EXT", "WDT", "SW", "UPDI"}
ENTRYCOND_REQUIRE == {"POR", "EXT", "SW", "UPDI"}

VARIABLES
    pc, ch, args,     \* where it is, the command, the bytes read after it
    address, length,
    buffer,           \* the page buffer of the NVM controller
    flash, stray,     \* the pages, and whether anything else was written
    rstfr,            \* RSTCTRL.RSTFR
    cause,            \* why it was last reset
    configured,       \* the application has configured peripherals
    line, replies

command == <<pc, ch, args, address, length, buffer>>
memory  == <<flash, stray>>
resets  == <<rstfr, cause, configured>>
boot    == <<command, memory, resets, line, replies>>

EmptyBuffer == [i \in 0..PageSize-1 |-> Erased]

BootInit ==
    /\ pc = "app" /\ ch = 0 /\ args = <<>>
    /\ address = 0 /\ length = 0 /\ buffer = EmptyBuffer
    /\ flash = Old /\ stray = FALSE
    /\ rstfr = {} /\ cause = "POR" /\ configured = TRUE
    /\ line = <<>> /\ replies = <<>>

----------------------------------------------------------------------------
(* Resets *)

(* A power-on clears the other flags.  What is on the line is missed, and  *)
(* what comes until the bootloader listens, the end of it perhaps not.     *)
Restart(why) ==
    /\ pc' = "start" /\ cause' = why
    /\ rstfr' = IF why = "POR" THEN {why} ELSE rstfr \cup {why}
    /\ configured' = FALSE /\ buffer' = EmptyBuffer
    /\ line' = <<>>
    /\ UNCHANGED <<ch, args, address, length, memory, replies>>

(* The application runs off its end, or jumps to 0. *)
Enter ==
    /\ pc = "app" /\ pc' = "start"
    /\ UNCHANGED <<ch, args, address, length, buffer, memory, resets, line, replies>>

ToAppUnasked(flags) == flags \cap ENTRYCOND_REQUIRE = {}
ToApp(flags) == "WDT" \in flags \/ flags \cap ENTRYCOND_REQUIRE = {}

FlagsKept == UNCHANGED rstfr
FlagsCleared == rstfr' = {}

ResetItself == Restart("SW")
SoftwareReset == pc = "start" /\ rstfr = {} /\ ResetItself

StartApp ==
    /\ pc = "start" /\ rstfr # {} /\ ToApp(rstfr)
    /\ pc' = "app" /\ FlagsCleared /\ configured' = TRUE
    /\ UNCHANGED <<ch, args, address, length, buffer, memory, cause, line, replies>>

StartLoop ==
    /\ pc = "start" /\ rstfr # {} /\ ~ToApp(rstfr)
    /\ pc' = "command"
    /\ \E missed \in 0..Len(line) : line' = SubSeq(line, missed + 1, Len(line))
    /\ UNCHANGED <<ch, args, address, length, buffer, memory, resets, replies>>

Start == SoftwareReset \/ StartApp \/ StartLoop

(* Bytes keep the watchdog from its end; while the bootloader waits for    *)
(* one, or spins, it comes.                                                *)
Waiting == {"command", "args", "data", "verify"}
BitesWhenIdle == pc \in Waiting /\ line = <<>>
Bites == (pc \in Waiting /\ line = <<>>) \/ pc = "spin"
Watchdog == Bites /\ Restart("WDT")

----------------------------------------------------------------------------
(* Commands *)

Arguments(c) ==
    CASE c = STK_GET_PARAMETER -> 1
      [] c = STK_SET_DEVICE -> 20
      [] c = STK_SET_DEVICE_EXT -> 5
      [] c = STK_LOAD_ADDRESS -> 2
      [] c = STK_UNIVERSAL -> 4
      [] c \in {STK_PROG_PAGE, STK_READ_PAGE} -> 3
      [] OTHER -> 0

Getch == line # <<>> /\ line' = Tail(line)
Byte  == Head(line)

GetCommand ==
    /\ pc = "command" /\ Getch
    /\ ch' = Byte /\ args' = <<>>
    /\ pc' = IF Arguments(Byte) = 0 THEN "verify" ELSE "args"
    /\ UNCHANGED <<address, length, buffer, memory, resets, replies>>

Mapped(dest) ==
    (address + IF dest = Flash THEN MAPPED_PROGMEM_START ELSE MAPPED_EEPROM_START)
        % DataSpace

LengthOf(high, low) == low

(* The last argument decides: an address is complete, a page's data come,  *)
(* or the terminator.  PROG_PAGE's length and kind of memory are used      *)
(* before the terminator is seen.                                          *)
GetArgument ==
    /\ pc = "args" /\ Getch
    /\ args' = Append(args, Byte)
    /\ LET all == Len(args') = Arguments(ch)
       IN  /\ pc' = IF ~all THEN "args" ELSE IF ch = STK_PROG_PAGE THEN "data" ELSE "verify"
           /\ address' = CASE ch = STK_LOAD_ADDRESS /\ ~all -> (256 * (address \div 256)) + Byte
                           [] ch = STK_LOAD_ADDRESS /\ all  -> 256 * Byte + (address % 256)
                           [] ch = STK_PROG_PAGE /\ all     -> Mapped(Byte)
                           [] OTHER                         -> address
           /\ length' = IF ch \in {STK_PROG_PAGE, STK_READ_PAGE} /\ Len(args') = 2
                        THEN LengthOf(args[1], Byte) ELSE length
    /\ UNCHANGED <<ch, buffer, memory, resets, replies>>

(* The page buffer takes a byte where the address' low bits say; a length  *)
(* of 0 is one of 256.                                                     *)
GetData ==
    /\ pc = "data" /\ Getch
    /\ buffer' = [buffer EXCEPT ![address % PageSize] = Byte]
    /\ address' = (address + 1) % DataSpace
    /\ length' = (length - 1) % 256
    /\ pc' = IF length' = 0 THEN "verify" ELSE "data"
    /\ UNCHANGED <<ch, args, memory, resets, replies>>

PageOf(a) == ((a - MAPPED_PROGMEM_START) % DataSpace) \div PageSize
Contents(a) ==
    IF PageOf(a) \in Pages THEN flash[PageOf(a)][a % PageSize] ELSE Erased

Memory == [i \in 1..(IF length = 0 THEN 256 ELSE length) |->
              Contents((Mapped(args[3]) + i - 1) % DataSpace)]
Parameter(which) ==
    IF which = STK_SW_MINOR THEN OPTIBOOT_MINVER
    ELSE IF which = STK_SW_MAJOR THEN OPTIBOOT_MAJVER ELSE 3
Signature == <<30, 147, 33>>
Answer ==
    CASE ch = STK_GET_PARAMETER -> <<Parameter(args[1])>>
      [] ch = STK_UNIVERSAL -> <<0>>
      [] ch = STK_READ_PAGE -> Memory
      [] ch = STK_READ_SIGN -> Signature
      [] OTHER -> <<>>

(* verifySpace(): no terminator, and the watchdog is all that is left.     *)
Terminates(byte) == byte = CRC_EOP
VerifySpace ==
    /\ pc = "verify" /\ Getch
    /\ IF ~Terminates(Byte)
       THEN /\ pc' = "spin"
            /\ UNCHANGED <<address, length, replies>>
       ELSE IF ch = STK_PROG_PAGE
       THEN /\ pc' = "write"
            /\ replies' = Append(replies, STK_INSYNC)
            /\ UNCHANGED <<address, length>>
       ELSE /\ pc' = "command"
            /\ replies' = Append(replies, STK_INSYNC) \o Answer \o <<STK_OK>>
            /\ IF ch = STK_READ_PAGE
               THEN /\ address' = (Mapped(args[3]) + Len(Memory)) % DataSpace
                    /\ length' = 0
               ELSE UNCHANGED <<address, length>>
    /\ UNCHANGED <<ch, args, buffer, memory, resets>>

(* The page the last byte went to is erased and written. *)
NextPage == PageOf(address)
LastPage == PageOf((address - 1) % DataSpace)
WritePage ==
    /\ pc = "write" /\ pc' = "command"
    /\ IF LastPage \in Pages
       THEN flash' = [flash EXCEPT ![LastPage] = buffer] /\ UNCHANGED stray
       ELSE stray' = TRUE /\ UNCHANGED flash
    /\ buffer' = EmptyBuffer
    /\ replies' = Append(replies, STK_OK)
    /\ UNCHANGED <<ch, args, address, length, resets, line>>

Loop == GetCommand \/ GetArgument \/ GetData \/ VerifySpace \/ WritePage

(* Nobody reads what comes while the application runs, or in the spin. *)
Unread ==
    /\ pc \in {"app", "spin"} /\ Getch
    /\ UNCHANGED <<command, memory, resets, replies>>
----------------------------------------------------------------------------
BootTypeOK ==
    /\ pc \in Waiting \cup {"app", "start", "write", "spin"}
    /\ ch \in 0..255 /\ args \in Seq(0..255) /\ Len(args) <= Arguments(ch)
    /\ address \in 0..DataSpace-1 /\ length \in 0..255
    /\ buffer \in [0..PageSize-1 -> 0..255]
    /\ flash \in [Pages -> [0..PageSize-1 -> 0..255]] /\ stray \in BOOLEAN
    /\ rstfr \subseteq Causes /\ cause \in Causes /\ configured \in BOOLEAN
    /\ line \in Seq(0..255) /\ replies \in Seq(0..255)
=============================================================================
