-------------------------- MODULE MCHardwareSerial --------------------------
(* HardwareSerial on small rings, for TLC. *)
EXTENDS HardwareSerial

OnOff == BOOLEAN   \* the program masks interrupts between two calls

Clean == {{}}
Noisy == {{}, {"p"}}

TxCalls == {"begin", "end", "write", "flush", "availableForWrite"}
BothCalls == {"begin", "end", "write", "flush", "read", "available", "getStatus"}

(* Frames that end while the CPU is busy: one with interrupts on and any   *)
(* number that makes a difference with interrupts off.                     *)
OneFrame == [on \in BOOLEAN |-> IF on THEN 1 ELSE 3]
=============================================================================
