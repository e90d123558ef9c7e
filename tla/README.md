# A verification of megaTinyCore in TLA+

megaTinyCore is the Arduino core for the tinyAVR 0/1/2-series: the runtime under
every sketch (timekeeping, the serial ports, pins and their interrupts, tone) with
its libraries (Wire, SPI, Servo, EEPROM, ...), its bootloader and its uploader. The
programs are small and the hard part is always the same: a sketch without an
operating system shares single bytes with interrupt handlers and with peripherals
that go on by themselves, and most of the code that does so is hand-written assembler
that no test of the repository reaches.

This directory holds TLA+ modules translated from that code, TLC configurations that
check them on small instances, and proofs for all instances checked by TLAPS.
`PROJECT.json` lists the runs, says which lines each definition stands for, gives for
every property that holds a plausible change of the code that breaks it, and under
"findings" what the four runs show in which a claim of the code's own does not hold. In what
follows file names without a directory are those of
`src/megaavr/cores/megatinycore/`.

    tlc -config UartTransmit.cfg MCHardwareSerial.tla     # any run of the table below
    tlapm HardwareSerialProofs.tla                        # any *Proofs.tla

## The system

### Components, their state and operations

| component | state | operations | hard behaviours | what makes it correct |
|---|---|---|---|---|
| **Serial port** `UART.cpp`, `HardwareSerial.h`, `UART0.cpp`, `UART1.cpp` | two rings, `_state`; the USART's CTRLA, CTRLB, STATUS, data registers | begin, end, write, flush, read, available, availableForWrite, getStatus; handlers RXC, DRE, TXC; `_poll_tx_data_empty()` | load-modify-store of CTRLA and `_state` against handlers that change them; a shortcut past the ring; work done by polling where interrupts are off; half duplex | bytes leave and arrive once and in order; flush leaves nothing queued; no call hangs; errors are reported once |
| **Timekeeping** `wiring.c`, `wiring_micros_ISR.h`, `timers.h` | `timingStruct`: millisecond count, overflow count, 16-bit fraction; the timer | millis, micros, nudge_millis, set_millis, stop_millis, restart_millis; overflow interrupt | overflow at any point of a reading; interrupts held up; carries in assembler | time never runs backwards nor ahead, and none is lost |
| **Scaling** of the count, `wiring_micros_ISR.h` | - | one sum of shifts per timer and clock speed | truncation, one-byte intermediate results | close to the time, never back |
| **delay()** `wiring.c` | `start`, `ms` | one loop per size of part | 16-bit readings wrap; held up by interrupts | lasts as long as asked, and ends |
| **tone()** `Tone.cpp` | the timer; pin, port, mask, counts of toggles and of periods | tone, noTone, toggle interrupt | reconfigured with interrupts on while the old tone ends | the tone asked for sounds on its pin as long as asked, and no pin is left high |
| **Pin interrupts** `WInterrupts*.c` | three tables of functions; PINnCTRL, INTFLAGS | attachInterrupt, detachInterrupt, the port handlers | flags cleared late or early, functions changed meanwhile | no edge of an attached pin is forgotten, no detached function called |
| **Wire** `libraries/Wire` | buffers and indices of host and client, flags in a bit field | begin ... endTransmission, requestFrom, read, write, onReceive, onRequest; the client's handler | handler and program share buffers; the client may hold the clock, the host gives up; sleep is postponed during a transaction | what the other side sent is what the callback reads; a transfer ends |
| **Servo** `libraries/Servo_megaTinyCore` | table of servos, index in the cycle | attach, detach, write; the handler | a servo attached, detached or written in mid-cycle; 16-bit values stored in two steps | each active servo gets one pulse of its length per cycle |
| **SPI** `libraries/SPI` | interruptMode, old_sreg, in_transaction | begin/endTransaction, usingInterrupt, transfer | SREG saved and restored across the sketch's calls | a transaction is not interrupted, and interrupts come back as they were |
| **SoftwareSerial** | receive ring, active object | listen, write, read; pin interrupt | one ring for several objects, counted cycles | as for the serial port, for the object that listens |
| **EEPROM, USERSIG** | the memory | read, write, update, put | wait for the controller with interrupts on, start with them off; a reset in mid-object | a byte is old or new, and writes do not halt the CPU |
| **PTC** `libraries/PTC` | list of nodes with flags, state machine and reference; the library's state | ptc_process with callbacks, enable, disable, request_recal, suspend, resume, low power; conversion interrupt | flags shared with the interrupt; calls in callbacks; the CPU sleeps and only one node is listened to | a touch is reported after the measurements it needs; every node is measured; low power wakes up |
| **Optiboot** `bootloaders/optiboot_x` | address, length, page buffer, reset flags, watchdog | STK500 commands | bytes lost or changed; resets at any moment | a page that was acknowledged has been written; the application runs again |
| **SerialUPDI** `tools/libs/pymcuprog` | link session | read, write, erase | retries on one wire | not a concurrent program |
| **Comparator, Event, Logic** | one object per peripheral | init, start, stop, attachInterrupt | assignment of event channels | registers hold what the object says |
| **Digital, PWM, ADC, pulse, shift** | peripheral registers | Arduino's functions | read-modify-write of registers shared with handlers | - |
| **Print, Stream, String, new, main** | - | Arduino's API | none: one thread, no shared state | - |
| NeoPixel drivers, SD, vendor headers, `boards.txt`, documentation | - | - | counted cycles, third-party code, data | - |

### How they interact

- The sketch calls the core; **interrupt handlers** run between any two of its
  instructions while `SREG.I` is set. The core leaves all vectors at priority level 0
  (`extras/Ref_Interrupts.md`), so a handler is not interrupted by another; the lower
  vector number goes first when two are due, and after a handler returns one instruction
  of the program is executed before the next handler.
- **Peripherals** run on their own: a timer counts, the serial line shifts, whatever
  the CPU does.
- delay() is built on micros() or millis(); they rest on the overflow interrupt, so
  everything that turns interrupts off (write() inside a handler, SPI transactions,
  EEPROM, the NeoPixel drivers) delays that interrupt: Timekeeping's `MaxLatency`.
- Streams call the serial port's read(), available() and their own timeouts, by millis().
- tone(), Servo and millis each need a timer of type B for themselves.
- Wire's client, PTC and the pin interrupts call the sketch back: Wire's callbacks and the functions
  of pins run inside the handler, PTC's inside ptc_process(). Two of these libraries change what the
  CPU can wake from: Wire keeps it out of deep sleep during a transaction, PTC wakes it by a window
  comparison of the ADC.
- The bootloader and the application share the flash and the reset flags, and nothing else.
- Nothing is allocated behind the sketch's back and there is no persistent state but flash
  and EEPROM; a reset starts everything anew, so recovery is an issue for EEPROM and the
  bootloader alone.

## The modules

| module | models | extends / uses |
|---|---|---|
| `RingBuffer` | index arithmetic of both rings, and the sequence a ring stands for | - |
| `Usart` | the peripheral: data, shift and control registers, TXCIF, receive FIFO, the line | external |
| `BoundedQueue` | abstract: a bounded first-in first-out queue | - |
| `HardwareSerial` | the class and its handlers | `Usart`, `RingBuffer`; `BoundedQueue` twice by refinement |
| `Clock` | abstract: a clock that never runs backwards nor ahead | - |
| `Timekeeping` | overflow interrupt (TCA, TCB), millis, micros, nudge_millis, set_millis | `Clock` by refinement |
| `MicrosScale` | the scaling sums with the real numbers of every build | - |
| `RtcMillis` | the overflow interrupt, millis and set_millis with the RTC | - |
| `Delay` | the two loops that read a timer | - |
| `PinInterrupts` | attachInterrupt(), detachInterrupt(), the port's handler | - |
| `TwiBus` | the bus and the two TWI peripherals at its ends | external |
| `WireHost` | host half of TwoWire | `TwiBus` |
| `WireClient` | client half of TwoWire with callbacks and sleep guard | `TwiBus` |
| `Wire` | the two halves on one bus | composes `WireHost`, `WireClient` |
| `Tone` | tone(), noTone(), the interrupt | - |
| `Servo` | attach, detach, writeMicroseconds, the handler | `ServoTimes`, its parameters |
| `Optiboot` | the bootloader | - |
| `Upload` | uploading host, faulty line, resets | composes with `Optiboot` |
| `Ptc` | conversions, ptc_process(), node state machine, low power, the sketch's calls | - |
| `MCHardwareSerial`, `MCWire`, `MCTone`, `MCUpload`, `MCPtc` | values of constants for TLC | the module of that name |
| `MCTimekeeping` | `Timekeeping`, `RtcMillis`, `Delay` and `MicrosScale` in one run: `part`, chosen at the start, says which of the four a behaviour is of; TLC counts each of the four as one action, and every action in them has been seen to fire | `Timekeeping`; the others by INSTANCE |
| `MCToneServo` | `Tone` and `Servo` in one run, likewise | `MCTone`; `Servo` by INSTANCE |
| `HardwareSerial-`, `Timekeeping-`, `PinInterrupts-`, `Wire-`, `Tone-`, `Servo-`, `Upload-`, `PtcProofs` | lemmas and theorems | the module of that name; `TimekeepingProofs` also `RtcMillis` and `Delay`, by INSTANCE |

### Serial port

`HardwareSerial` runs a member function one **volatile access** at a time. `pc` names the
access that comes next; `reg`, `idx` and `chr` are the locals that live from one access to
the next (`reg` is the loaded CTRLA or `_state` of a read-modify-write). So
`_state |= 1` at UART.cpp:762 is `WriteLoadState` and `WriteStoreState`, and a handler may
run between. The action names follow the functions: `Write`..., `Flush`..., `End`...,
`Begin`..., `Read`..., `GetStatus`...; `Fast...` is write()'s shortcut into the data
register, `Slow...` its way through the ring. `flush()` inside `end()` and `end()` inside
`begin()` are the same actions, `call` remembering where to go on.

The handlers are one action each, except `_do_dre`, which is split in two at its store to
STATUS because `_poll_tx_data_empty()` jumps into it (`isr` is `"dre"` or `"poll"`) and
the line may move in between. `SetInterrupts` is the sketch's cli() and sei() between two calls;
`ie = FALSE` also stands for running inside a handler, which is where the driver polls.

`Usart` is the hardware as far as the driver depends on it: writing TXDATAL puts a byte into
an idle shift register or the data register, and nowhere if that is full; a frame's end
takes the next byte or sets TXCIF; the receiver holds `RxDepth` frames and reports an overflow
with the next. A byte is modelled by its ordinal: the n-th byte written, the n-th frame received.

Timing. The line is slow and the CPU fast, and some of the driver's correctness rests on
it. `FramesPerWindow[ie]` is the number of frames that may end while the CPU still has
something to do (a *busy window*: from the moment it starts until it can only wait, `Quiescent`).
A pending interrupt is taken before the next instruction of the program (`CpuFree`). What holds
for which bound is a result of the runs:

- sending with interrupts on: the transmit properties hold if at most one frame ends per busy window, and fail
  with two, see "Limits" below (at the fastest baud rate, F_CPU/8, a frame of ten bits lasts 80 clock cycles);
- sending with interrupts off: they hold with any number (3 is more than the registers hold);
- receiving, flush() and half duplex: what `uart_both` checks holds at this pace and is proved for any; what flush() says of itself fails at it (`uart_flush`).

The proofs of the transmit side name what they need of this: `Paced`, explained under "What is proved".

### Timekeeping

`Timekeeping` splits micros() and millis() at their accesses to the timer and to
`timingStruct` (`MicrosTicks`, `MicrosFlags`, `MicrosCount`; `MillisLow`, `MillisHigh`) and
lets the timer `Tick` between any two. `Overflow` is the interrupt with its whole effect.
Instants are pairs <<overflow, tick>>; the scaling is left to `MicrosScale`. A TCB has one
counter, `timer_millis`, that goes up by `Unit`; a TCA (and a TCD, which runs the same
interrupt code with a window of 7 counts in place of 4) keeps overflows, milliseconds and the
fraction. The fraction is kept in 16 bits as the assembler does, where it counts
up from -1000 if an overflow lasts more than a millisecond.

Ghost variables: `wraps` is what the timer has really counted, `sampled` the instant at
which micros() read the count, `reading` what it returned, `nudged` what nudge_millis() and
set_millis() have changed in the millisecond count.

`MaxLatency` is the number of ticks the interrupt may be held up, `MaxSection` the number
of ticks the interrupts-off part of micros() may last, `Near` the window in which micros()
takes a pending overflow for one that came before its reading.

`MicrosScale` has the real numbers: `timer` and `mhz` are chosen once, the timer counts through whole
overflows and `micros` is the value the sum of shifts gives, byte arithmetic of the
assembler included. `RestartMillis` sets the prescaler again, from the conditions of
restart_millis(), which are not those of timers.h.

`RtcMillis` has the real 16-bit counter. `Delay` has both loops over a scaled-down
millisecond (`MS` microseconds) and width (`Wrap`).

### Pin interrupts

`PinInterrupts` is one port with its table `intFunc[port]`, of which each pointer is two
bytes stored one after the other (`AttachLow`, `AttachHigh`; `DetachLow`, `DetachHigh`). `isc`
stands for PINnCTRL, `INTFLAGS` for the flags. The handler reads the flags (`Handler`),
comes to them from the lowest (`CallFunction`) and returns (`EndHandler`); edges come at any moment, the
program's steps only between two handlers. `clear` is the build: by default the flags the
handler has read are cleared at its end, with CORE_ATTACH_EARLYCLEAR at its start. A function in
`OneShots` calls detachInterrupt() on its own pin. `enabled` starts TRUE where all ports are enabled
(CORE_ATTACH_ALL), and becomes TRUE by attachPortXEnable() otherwise.

History variables: `attached` is what the program has attached, `edgeFor` the function that
the latest edge of a pin is for, `unheard` the pins with an edge that is still owed a call, `heard` the pins
whose function the handler has called in this pass.
`FlagClear` keeps the address that detachInterrupt() reckons, which is the flag register's for port 0 only.

### Wire

Two parts with this library at the ends of one bus. `WireHost` is a polling loop: an action is one way through the
body of masterTransmit() or masterReceive() (`SendAddress`, `TransmitByte`, `TransmitRefused`, `ReceiveByte`, ...). `loop` is the loop
the program is in, `stat` what has been sent, `left` the bytes to go. It does not wait for the bus: each operation
it orders is appended to `line`, which the bus works off. A timeout may come in every round of a loop, so the client may be as
slow as it likes.

`WireClient` is HandleSlaveIRQ(), one action for each interrupt and case: an address match (`HandleWrite`,
`HandleRead`), data (`HandleByte`, `HandleGet`, `HandleRefused`), and a STOP in two steps (`HandleStop`, `FinishStop`), since a STOP
does not hold the clock and the next START may come in between (`Overlap`). The program's onRequest() writes one of
`Answers`, onReceive() reads `ReceivedData`. The guard `PauseDeepSleep`, `RestoreSleep` and the CPU's sleep are in it;
from deep sleep an address match alone wakes the CPU.

`TwiBus` is the hardware as Wire.cpp uses it: the clock is held (`Held`) from an address match, or a byte, until the client's command; the flags
at either end are of the last operation.

History variables of the client: `called` from match to STOP, `written` what the host has sent since then, `answer` what onRequest()
has written, `base` the count of bytes then, `wanted` the sleep mode the program has set.

### tone()

`Tone` runs tone() one **statement** at a time from the stop of the timer to its start: `StopTimer`, `ReleasePin`, `SetMask`,
`SetReg`, `Store`, `SetPin`, `EnableInterrupt`, `Enable`. A pending interrupt is taken before the program's next step, and an interrupt of the old tone may still come with the store that stops the timer. `Setting` is the calculation of
prescaler, factor and period, with the real 16-bit limit. The interrupt is one of `InterruptSkips` (not every period toggles), `InterruptToggles`, `InterruptEnds`.
`playing` is the call that started the tone, `length` the periods it has lasted, and `cut` says that the tone before ended of itself
inside the call, the one case in which a tone may be an octave too high: `PitchIsRight` has no exception for it and fails, `PitchOrOctave` has.

### Servo

Time is the timer's: the handler runs when what it wrote to CCMP has been counted, `due` ticks after the last time, and a value the
counter has passed by then (`Latency`) is reached after a whole round. The handler is `WaitOn`, `NextServo` or `StartWait`; the
program's calls are split at their stores: attach() at pin, port, timer and flag, writeMicroseconds() at the two bytes of `ticks`.
`promised` is what the pulse that is on was asked to last, `frame` the ticks since the first servo's turn, `abandoned` the pins whose servo was
taken away in the middle of its pulse.

### Optiboot

`Optiboot` takes a byte with everything that is done before it waits for the next; writing a page is a step of its own. `Start...` is the decision by the reset flags,
`GetCommand`, `GetArgument`, `GetData`, `VerifySpace`, `WritePage` are the loop, `Watchdog` ends each wait without a byte and the spin after a missing terminator.
Commands, addresses and the page buffer have the real numbers (16-bit addresses, one-byte length, the page buffer indexed by the low bits of the address).

`Upload` puts a host in front of it, which does what avrdude does with this protocol (external: it is modelled from what the bootloader answers): a session
synchronises, asks for version and signature, loads and writes every page, reads every page back, leaves. Each message waits for its reply and any other, or none, ends the session; another
may follow. The pages go in the order `Order`. The line loses and changes bytes in either direction (`Lose`, `Garble`), and the part may be reset from outside (`Outside`); `MaxFaults` bounds the three together. `misled` remembers that a byte has changed on its
way to the part that was neither a page's data nor a terminator. Bytes that come between reset and start of the loop are missed, all or the first of them.

### PTC

`Ptc` has three actors: the ADC (`Event`, `Convert`), the interrupt ptc_eoc() (`Eoc`, atomic) and the program, which is in loop(), in ptc_process() or in one of its callbacks (`pc`, and `back` where the
callback returns to). ptc_process() is split where it calls back: `Judge` is the state machine of a node up to its callback, `Settle` what it does with the local `nodeSM` afterwards. `StartConversion` and `InitConversion` are the functions
that choose the next node and set the ADC up; they are part of each action that calls them. ptc_enable_node() and ptc_disable_node() load and store the byte of flags, and `Eoc` may come between.
Readings are chosen from a set per node; the compensation search of a calibration is a nondeterministic number of steps, or an error.

A **sketch** (`Sketches`) is a choice of calls, nodes and readings, made at the start: that keeps the product of all calls out of the run. `Care` says which of the conditions at "Calls" in the module
sketches keep to: what the library's documentation asks for (`"documented"`), and what low power needs to be entered and left as the code can (`"cautious"`).
History: `above` counts the measurements in a row that reach the threshold, as far as the filter looks back.

## The runs

Every run as configured finishes within a few minutes. A run whose result is *fails* states what a comment or a document of the
repository says, and TLC finds the behaviour of the code that does not keep it; it is listed under "findings".

| run | module, cfg | checks | shows |
|---|---|---|---|
| `uart_transmit` | `MCHardwareSerial`, `UartTransmit` | `WritePromise TxIsQueue CallsReturn Drains` | ring, data register and shift register are one bounded queue from write() to the line, whichever of shortcut, handler and poll moves the byte; write() never waits for room that availableForWrite() promised; no call hangs with interrupts on or off; with them on the ring drains without further calls |
| `uart_both` | `MCHardwareSerial`, `UartBoth` | `ReadPromise ReportedOnce RxIsQueue QueueFlushed FlushAnswered EarKept ListensAgain` | receiving while sending, frames ending between the CPU's accesses: the RXC handler and read() share a bounded queue, whatever errors frames bring; getStatus() reports an error once; flush() returns with the ring empty and its interrupt off, and waits for nothing that does not come; in half duplex the port listens again after its last byte |
| `uart_flush` | `MCHardwareSerial`, `UartFlush` | `FlushDone` | *fails*: flush() may return while a byte is still going out, by a TXCIF that a frame has left between write()'s two stores |
| `time` | `MCTimekeeping`, `Time` | `MillisExact MicrosIsClock MillisHonest RtcKeepsTime DelayIsKept MicrosIsTime` | micros() implements `Clock` with a TCA at 10 MHz and with a TCB whose interrupt adds two milliseconds; the TCA's fraction loses nothing; millis() is never torn; with the RTC it is the time at which it read the counter, never goes back, and set_millis() takes; both loops of delay(), from every reading at which a call may start, last as long as asked and end in time; in 35 builds micros() is within 4 us of the time, back by 1 us at most from one count to the next |
| `pins` | `PinInterrupts`, `PinInterrupts` | `ArmedIffAttached ForgetsRepeatsOnly OwnEdge EdgeServed` | PORTA, both ways of clearing: the only edge that is ever forgotten is a second one on a pin whose function the handler, clearing late, has already called; each other is served while interrupts are on; a function is called for its own edges only and never through half a pointer |
| `pins_late` | `PinInterrupts`, `PinsLate` | `NotForgotten` | *fails*: the default build forgets that second edge |
| `wire` | `MCWire`, `Wire` | `SleepKept SuccessIsDelivery ReportsWhatWasWritten ReadsTheAnswer BusGoesOn` | a transfer from end to end: success means the client has every byte, the callback is given exactly what was written, the host reads exactly what onRequest() wrote; no sleep that misses a byte; no transfer hangs |
| `tone_servo` | `MCToneServo`, `ToneServo` | `SilentIsLow PitchOrOctave TogglesItsPin LengthIsRight HighInTurn PulseIsRight PulsedInTime` | tone() over a playing tone, on the same or another pin or port: no pin left high, none toggled for another's tone, length as asked, pitch as asked but for an octave in one case; servo pulses of the right pin, width and rate whatever is attached, detached and written in mid-cycle |
| `tone_pitch` | `MCTone`, `TonePitch` | `PitchIsRight` | *fails*: that octave |
| `optiboot` | `MCUpload`, `Upload` | `AckedIsWritten VerifiedIsImage ResetDecides AppStarts` | whichever byte is lost, an acknowledged page is in the flash and no page is torn; what was read back is right; the watchdog's reset leads to the application, and the application always runs again |
| `touch` | `MCPtc`, `Ptc` | `TouchIsFiltered OwnMeasurement AcquisitionsGoOn` | touches are filtered, results are of the node that was measured, acquisitions go on whatever is enabled, disabled, suspended or recalibrated, or has slept |
| `touch_sleep` | `MCPtc`, `PtcSleep` | `LowPowerListens` | *fails*: low power, entered as documented, waits for events with the ADC off once it has been woken |

The type invariants (`TypeOK` and its like) are left out of the runs; most are part of the proofs.

### Bounds and why they are enough

- **Serial, transmit**: a ring of 4 slots (three bytes), 6 bytes written: the indices go round, the
  ring, the data and the shift register fill up, and bytes are written while others leave.
  Ring sizes 2 to 2^n go through the same code; the receive side is proved for all.
- **Serial, both**: a receive ring of 4 slots, an RxDepth of 3 (two in the FIFO, one in the shift register), 4 frames received, any of them with or without an error, so that the receive ring overflows
  and its indices go round; 3 bytes written through a ring of 2 slots, which fill the shift register, the data register and the ring, in full or half duplex. Of the 4 frames one comes to a program that also writes (`MaxBoth`), so the other end sends while we do:
  the product of both would be out of reach. The receive side, `QueueFlushed`, `FlushAnswered` and `EarKept` are proved for every size and mixture; `uart_transmit` has the larger ring.
- **Serial, flush**: 3 bytes are enough for the last to be written while the one before goes out.
- **Timekeeping**: 5 ticks per overflow and up to 3 overflows. The code compares the count
  with `Near` and no other number, so a tick before it, some after it and a
  wrap during the call are all the cases. set_millis() sets one value, above the count as it starts. Words of `timer_millis` have two values so that a carry
  from one to the next happens every other time. The proofs cover every other size.
- **Scaling**: two overflows with the real numbers. The error repeats with every overflow that is
  a whole number of microseconds, which are all that are left in the run; the second
  overflow is there to show a drift. 12 overflows pass as well.
- **RTC**: the real 65536 counts and one overflow, which is where all the cases are; interrupts off for one count, set_millis(0).
- **delay()**: `MS = 3`, readings cut at 32: a delay of 19 milliseconds, 57 microseconds here, goes round them
  almost twice, from each of the 96 readings at which a call may start; 16 is where the small variant begins. `MaxGap` is what another handler may hold the
  loop up between two steps; the code needs it to be below a wrap of the readings and the upper bound of `DelayEnds` needs a millisecond.
- **Pin interrupts**: two pins and two functions, of which one detaches itself: the handler has a pin before and
  one after the one it is at, and a function can be replaced by another. The proofs cover every number of both.
- **Wire**: two values of bytes, a host's buffer of 3 and a client's of 2, so that the client is written one byte too many and read beyond its answer,
  which is of 0, 1 or 2 bytes. `MaxOrders = 1`: the host may begin the next transfer while one operation of the last, as a rule its STOP, is still to be done. `CountWrap = 4` lets the count of bytes wrap.
- **tone()**: two ports with two pins each (same port, same mask, neither); at 1 MHz the frequencies 1, 7 and 8 Hz are one with prescaler and several toggles to a count, one just above and one just below
  the 16 bits; counts -1, 0, 1, 2.
- **Servo**: two servos and two pins, bytes of 4 values. The widths that are set lie below and beyond the limits, the default between them; two pulses fill the interval almost, so that the wait is of several rounds, of one, or left out.
- **Optiboot**: two pages of two bytes; page 256 holds a command's code and the terminator, page 4097 the codes of two commands; two sessions, and up to two of: a byte lost, a byte changed to 'F', a reset or an entry from outside. One lost byte is the bound of what the protocol can tell, see "Limits".
- **PTC**: two nodes, all filters two measurements long (the count is compared before it goes up), and readings that calibrate, drift, touch and collapse. The proof covers all numbers.
  In `touch` sketches are cautious: `AcquisitionsGoOn` is about a library that can be left to itself. In `touch_sleep` they do what is documented.

### Fairness

- `WF(InCall)`, `WF(Handlers)` of `HardwareSerial`: the CPU goes on executing; there is no
  scheduler that could starve a function. Nothing makes the sketch call anything: `NewCall` has no fairness.
- `WF(FrameEnds)`: a frame takes a fixed time. Nothing makes the other end send: `FrameArrives` has none.
- `WF(InCall)`, `WF(Handler)`, `WF(InHandler)` of `PinInterrupts`: the CPU executes, and takes an interrupt that is pending.
  Edges and calls have none.
- `Wire`: weak fairness of the host's loop, the bus and the client's interrupts. The calls and the client's `SetInterrupts` have none.
- `Tone`: weak fairness of the timer, the interrupt and the steps of a call; `Servo`: of the handler and the steps of a call.
- `Upload`: weak fairness of the bootloader, its watchdog included, and of the host, which gives up on silence.
- `Ptc`: weak fairness of conversions, the interrupt and ptc_process(); **strong** fairness of `Acquire`, the one place that has it: ptc_process() starts the next acquisition
  if the period is over and passes otherwise, in every turn of loop(), so a period that passes at last is an action enabled again and again.
- `Timekeeping`, `MicrosScale`, `RtcMillis` and `Delay` have none: their properties are about safety, "delay() ends" among them, as a bound on the time it takes.

`Drains`, `ListensAgain`, `EdgeServed`, `LengthIsRight` and `BusGoesOn` give way when the sketch turns interrupts off (`\/ ~ie`): without
them nothing moves until the next call polls, or they come back.
Deadlock is checked in every run but `time` and `optiboot`, where overflows and sessions are bounded.

## What is proved

Checked by `tlapm`, for every value of the constants that satisfies the named ASSUMEs.

**Serial port, receiving** (`HardwareSerialProofs`), for every ring size, receiver depth, frame and choice of calls.

- `TypeCorrect`: `Spec => []TypeOK`. `TypeOK` is not inductive: a register loaded from
  `_state` must not be stored to CTRLA. `TypeInv` adds what `reg` may hold at each `pc`
  (`RegParts`), and that ring variables are well typed where an index is on its way.
  The step is proved in four lemmas, by kind of variable: Booleans and labels,
  peripheral, driver, `reg`.
- `ReceiveRingIsQueue`: `Spec => RxIsQueue`. Each of the actions that touch the
  receive ring is a Put, Get or Clear of `BoundedQueue` or a stutter. `RxInv` is the strengthening: between `ReadFetch` and
  `ReadAdvance` the ring holds a byte and `chr` is the oldest, which the RXC handler
  does not change, since it stores at the head only where `HasRoom` holds.
  `RingPut`, `RingGet`, `RingEmpty` say what the modular arithmetic of
  indices does to the sequence the ring stands for, for every size.
- `ReadPromiseKept`: `Spec => []ReadPromise`, from the same invariant: only read() and
  end() take bytes out.
- `ErrorsReportedOnce`: `Spec => []ReportedOnce`. `ErrInv` adds that what write() and begin() are about to put back into
  `_state` has no error in it that getStatus() has reported in the meantime.

**Serial port, transmitting** (the same module), under `Paced`. A handler between write()'s load and store of CTRLA may empty the
ring and disable the DRE interrupt, which the store enables again, and the next handler sends a slot nobody has filled. That takes two frames within one
write(), or one frame and other handlers; see "Limits". `Paced` excludes it: a program with interrupts on only transmits, in
full duplex, and at most one frame ends while the CPU is busy; or no frame does, and either interrupts are never off or nothing is received
while it transmits. With interrupts off all the time it asks for nothing: the poll alone moves the bytes then, at any pace. `uart_transmit`'s instance satisfies it.

- `TransmitPathIsQueue`: `Paced |- Spec => TxIsQueue`. `RingInv`: the DRE interrupt is enabled only for a ring that holds a byte (also what is about to be stored in CTRLA),
  the shortcut is taken past an empty one only, and the slot write() waits for stays the one after the head. It is inductive with an invariant that says how far the handler can get
  while write() is on its way, one for each way of being paced: `PaceInv` counts the bytes the handler can still take before the program waits (`Takes`), `PromptInv` says that with
  interrupts always on the handler has refilled the data register, `ModeInv` and `DeafInv` that no receive handler comes in between
  (`DeafInv`: in half duplex, where no frame ends while the CPU is busy, the port listens only while nothing is on its way; `QuietInv` says when that is).
- `WritePromiseKept`: `Paced |- Spec => []WritePromise`, with `ReserveInv`: a write() in progress has a slot of its own besides those promised.

**Serial port, at any pace** (the same module), without `Paced`: for every mixture of modes, any number of frames per busy window, interrupts masked or not. What may go wrong outside `Paced` is that a
byte is sent too many; nothing is ever left waiting for something that will not come.

- `NothingStranded`: `Spec => []NoneStranded`: a byte in the transmit ring has the DRE interrupt enabled, or write() is about to enable it. `EnableInv` says what the loaded CTRLA of each read-modify-write carries, and where ring and interrupt are both done with.
- `QueueIsFlushed`: `Spec => QueueFlushed`: when flush() returns, to the program or to end(), the ring is empty and the DRE interrupt off, from `EnableInv`. That the last byte has also left the shift register does not hold, see `uart_flush`.
- `FlushIsAnswered`: `Spec => []FlushAnswered`: whenever flush() waits for TXCIF (UART.cpp:771) the flag is set or a frame is going out that will set it, although write()'s shortcut, the DRE handler and the poll all clear it.
- `ReceiverReturns`: `Spec => []EarKept`: an open port that does not listen has the TXC interrupt enabled instead, and the frame under way that raises it. `EarInv`: CTRLA, and what write() is about to store in it, always has one of the two enabled while the port is open;
  `ComingInv`: what has been written is out, going out, or in the hands of an interrupt that is enabled; one that is enabled over an empty ring comes before the program can mask it.

These are the safety that `Drains`, `CallsReturn` and `ListensAgain` rest on; with them what remains to the fairness is that a frame ends and a pending interrupt is taken. TLC has checked the three invariants on rings of 2 and 4 with three frames per window before they were proved.

**Timekeeping** (`TimekeepingProofs`).

- `CounterMadeUp`: `HeardInTime => (Spec => []MicrosInv)`, and
  `MicrosImplementsClock`: `HeardInTime => (Spec => MicrosIsClock)`. `HeardInTime` says
  `MaxLatency < Near`, `MaxSection + Near <= Ticks`, and no set_millis() on a TCB. The
  invariant: the counter lacks at most the pending overflow (`Counted`), which is recent (`Prompt`);
  between reading the count and the flag the timer overflows at most once and then the count read was too high for `Missed` (`Since`), so what
  micros() adds is the overflow that was pending when it read the count and not one that came later (`Compensated`).
- `NoMicrosecondLost`: for a TCA, `Spec => []MillisExact`, whatever the length of an overflow
  and whatever the latency: milliseconds and fraction are exactly the overflows counted.
- `MillisNeverJumps`: `Spec => MillisHonest`, for every timer, latency and width of a word. `HonestInv`: between the loads of millis() interrupts are off, so
  the low part that was read is still the count's, and only set_millis() lets the count fall below what was returned.
- `RtcTellsTime`: `RtcInTime |- Rtc!Spec => Rtc!RtcKeepsTime`. `RtcInTime`: the overflow's interrupt and any time with interrupts off are shorter than half a turn of the 16-bit counter, 32 seconds, and set_millis() meets no overflow that is pending (see "Limits").
  `RtcInv`: milliseconds and pending overflow together are the turns of the counter since it was set (`RtcCounted`), and between reading the count and the flag (`RtcRead`) the counter turned at most once, with a count that is then too high for millis() to add the overflow.
- `DelayLastsAsAsked`: `WaitInTime |- Wait!Spec => Wait!DelayIsKept`. `WaitInTime`: the loop looks at least once per millisecond, and the 16-bit readings wrap later than the time between two looks that matter (for the loop on millis(): than the longest delay, with millis() going up by one).
  `WaitInv`, for the loop on micros(): `start` is behind the reading by the time that has passed and has not yet been counted down from `ms`, which is less than a millisecond and a gap after each look (`MicrosWaits`, `Rest`); for the one on millis(): millis() has gone up `k` times since the call, which is what the readings differ by (`MillisWaits`, `Passed`); both also where the reading has wrapped below `start`.

**Pin interrupts** (`PinInterruptsProofs`), for PORTA (`Ports = {0}`), every set of pins and functions, late and early clearing.

- `OwnEdgeOnly`: `Spec => OwnEdge`; `ForgetsOnlyRepeats`: `Spec => ForgetsRepeatsOnly`; `ArmedRight`:
  `Spec => []ArmedIffAttached`; and, where flags are cleared early (`Clears = {"early"}`), `NothingForgotten`: `Spec => []NotForgotten`. The invariant `IInv` adds what is half done in a call (`AttachStep`, `DetachStep`:
  while a pointer is stored the pin cannot interrupt, or interrupts are off; once its flag is cleared a detached pin has none) and what a
  pending flag means (`Owned`: the edge is for the function the pin has, or, between the first two
  steps of detachInterrupt(), for the pointer that is still in the table). `Heard` is for late
  clearing: of the flags the handler has read, those it has come to have been heard.
- `TypeCorrect`: `Spec => []TypeOK`, on every port.

**Wire** (`WireProofs`), for every buffer length, set of bytes and answers, under `Untouched`: the part was not a host before, and no START comes while a STOP is handled.

- `NeverDeepAsleep`: `Spec => []SleepKept`; `ReportIsWhatWasWritten`: `Spec => ReportsWhatWasWritten`. The invariant `WInv` says what the host's indices mean in each loop (`HostInv`), that whatever the
  bus tells the client comes after an address match and before a STOP (`Ordered`), that the guard is set exactly in between (`Guarded`), and that what is to be reported is what was written (`Reportable`).
- `SuccessMeansDelivered`: `Spec => SuccessIsDelivery`, and `HostReadsTheAnswer`: `Spec => ReadsTheAnswer`, end to end. `DInv` says for every place in the host's two loops, for every operation that is
  still on the line, what the client has by then: the bytes it was sent, one less, or a refusal under way. The hard part is the acknowledge bit, which the host reads before the operation it belongs
  to has been carried out: `Refusals` says when a bit left over from the operation before may be taken for the first byte's. The number of bytes asked for is below the wrap of the client's count (`CountAssumption`; the code counts in 8 bits and its buffers are shorter).

**tone()** (`ToneProofs`), for every set of pins, clock, frequencies and counts, called with interrupts on or off.

- `NoPinLeftHigh`: `Spec => []SilentIsLow`; `InterruptKeepsToItsPin`: `Spec => TogglesItsPin`. The invariant says that outside the middle of tone() timer, pin, port and mask agree
  (`Settled`), that once tone() has stopped the timer at most one interrupt is pending, which is taken before the old pin is released, and none after that (`Stopped`), which is why port and mask may be changed one after the other, and which pin alone may be high at each step (`Highs`).
- `PitchWithinAnOctave`: `Spec => []PitchOrOctave`: the half wave that sounds is never longer than asked for and shorter by less than 128 cycles, or is the timer's longest, or half of this where the tone before has ended inside the call (`cut`). `PitchInv` says at each step of tone() which of prescaler, factor and period is the new call's
  already; `SettingIsNear` is the arithmetic, for every clock and frequency whose half wave is neither 0 nor exactly 65536 cycles (`HalfAssumption`; no board has such a pair): prescaler and halvings together lose less than one count of the timer.
- `LengthAsCounted`: `~MaskedCalls |- Spec => LengthAsAsked`, the safety half of `LengthIsRight`. `LengthInv`: the periods that have passed, the toggles left and the periods left of the half wave always add up to the length asked for, a pending interrupt being a period that is not yet counted;
  and what tone() has stored by then is all there when it starts the timer, since no interrupt that is left over comes after the counts are stored.

**Servo** (`ServoProofs`), for any number of servos and any timing, where attach() is called for detached servos.

- `HighOnlyInTurn`: `Spec => []HighInTurn`; `PulsesAsAsked`: `Spec => PulseIsRight`. The first needs that a servo that is being attached is not yet active (`NotYet`); the second that
  ticks are long enough for the handler to be in time unless they are half written (`Whole`), so that the timer is set to what was promised (`Kept`).
- `FramesInTime`: `Slack <= Shortest - Trim |- Spec => FramesRight`, the safety half of `PulsedInTime`, for attached servos that are attached again as well: the first servo's turn comes again after the interval, or after all turns, and at most a round of the counter later. `Framed`: the time since the frame
  began is what the handler has added up (`Turn`, `Rest`), so that the wait it sets is the rest of the interval. The hypothesis is that the shortest pulse is not shorter than the 100 ticks the handler does not bother to wait for (Servo_megaTinyCore.cpp:89). Without it a frame might end early:
  the least minimum that `attach(pin, min, max)` takes is far below SERVO_MIN's 544 us, and at 1 MHz its pulse is shorter than 100 ticks.

**PTC** (`PtcProofs`), for any nodes, readings, settings and sketches, whatever their `Care`, if `touch_out_th <= touch_in_th`.

- `FiltersCount`: `Spec => []FInv`, and `TouchesFiltered`: `Spec => TouchIsFiltered`. `FInv` relates the count of each node's state machine to what it has measured: a node in the touch
  filter with count k has seen k + 1 measurements in a row that reach the threshold (`Behind`), also for the state that is decided and waits for its callback to return (`Pends`, `Ahead`). The property is not inductive without the latter, because a callback may ask for a calibration in between.
- `MeasuresItsNode`: `Spec => OwnMeasurement`. `OwnInv` says whose conversion is under way or done in each state of the library (`Owned`), what a change of flags that is half done can have loaded (`Still`, `LowFlags`), and that a node whose state is low power is low power's (`LowState`).

**Optiboot and its host** (`UploadProofs`).

- `ResetsDecide`: `Spec => ResetDecides`, for every part, host and line, whatever is lost, changed or reset. `ResetInv`: the application runs with the flags cleared, the loop with those of a reset, the watchdog's is seen at once, and a part that was reset
  and has not left for the application is as a reset leaves it.
- `AcknowledgedIsWritten`: `RealPages => (Spec => []AckedIsWritten)`: for every image, order of pages and number of sessions, whichever byte is lost in whichever direction. `RealPages`: pages of 64 bytes, as the parts with up to 16 KB have, in the 32 KB that are mapped. It is not
  true of pages of 128 bytes, see "Limits". The invariant (`UploadInv`) is about the behaviours the property speaks of, with at most one byte lost and nothing else. It says that no more is answered than is waited for (`Owed`), that an STK_OK on its way
  in answer to a page's data means that the page is written (`FlashInv`), and, for each place in the loop, what is still on the line (`Modes`). In step with the host: `Fresh`, `Rested`, `Begun`, `Arg`, `Filling` (as many data bytes as the count says, and the buffer holds those before them), `End`, `Writing`, with the address
  set to the page's before its data come. Out of step, once a byte is lost: `NoCommand` (an argument is taken for the command), `Slip` (with the terminator in its place, which happens to messages without effect only), `ShortArgs`, `ShortProg` and `Hungry`
  (too few arguments or data, where the rest is never enough for the count), `Hung` (no terminator where it has to be, and the watchdog ends it), `Spare` (a terminator left over). Lemmas about lists say what is left of a message after k bytes; `SessionIs` says what every message of a session looks like.
  TLC has checked the invariant with pages of 64 bytes, two pages and five sessions before it was proved.
- `VerifiedIsRight`: `RealPages => (Spec => []VerifiedIsImage)`, from the same invariant, which is therefore about behaviours in which at most one byte is lost *or changed*, the changed one being no command or argument, and no reset comes from outside (`Calm`). A changed byte may have any of the 256 values: if it is data the page
  may be wrong, so what `FlashInv` says of the flash is for `garbles = 0` only; if it is a terminator the part is `Hung`, and if an answer the host starts again. What tells is reading back. `Progress`: a session writes all its pages before it reads one. `ReadBack`: of a page that is being read back, each byte that is still to come is the flash's, and each that
  has come was as expected (`Telling`, `Truthful`), since the only change there was is spent by then.

**Model-checked only.**

- All liveness (`CallsReturn`, `Drains`, `ListensAgain`, `EdgeServed`, `BusGoesOn`, `AppStarts`, `AcquisitionsGoOn`, and the first halves of `LengthIsRight` and `PulsedInTime`): fairness and ENABLED are out of the prover's reach. Of the serial port's three, the safety they rest on is proved, see "at any pace".
- `MicrosIsTime`: thousands of concrete sums of shifts, which TLC evaluates one by one.
- The transmit side outside `Paced` but where it still holds: no run mixes both modes with receiving and a full ring.

## Limits found while modelling

Not every property one would wish for holds. These are the cases in which one does not, with the change of a run's
constants that shows it where there is one. What contradicts a claim of the code or its documents has a run and a finding as far as it was the subject of a property.

### Serial port

- Two frames within one busy window: between the load and the store of CTRLA in write() (UART.cpp:813) the DRE handler may then run
  twice, empty the ring and clear DREIE, and the store sets DREIE over an empty ring: `uart_transmit` with 2 for 1 in
  `OneFrame` violates `TxIsQueue`.
- flush() may return early if a frame ends between the clearing of TXCIF (UART.cpp:775) and the store to
  TXDATAL in write()'s shortcut: `uart_flush`. On one wire the same stale TXCIF makes the TXC handler listen again while the byte is still going out, and the port hears it;
  where no frame ends while the CPU is busy neither happens.
- begin() in half duplex and then in full duplex without a write between leaves the half-duplex flag set: begin() calls end()
  only if something was written (UART.cpp:549), where HardwareSerial.h:456 says of the flag that it "indicates that half duplex mode is enabled". In the
  states of `uart_both`, `call = "none" /\ ctrlb # {} => ("h" \in state <=> loopback)` is violated.
- An error that the RXC handler records between getStatus()'s load of `_state` and the store at
  HardwareSerial.h:415 is never reported.
- write() before begin() makes the following begin() wait for ever in flush() (UART.cpp:762, 549);
  the model has no write to a port that was not begun.

### Timekeeping

- micros() goes back by one overflow if the interrupt is held up for 4 counts (16 us at 16 MHz with a TCA), where
  `extras/Ref_Functions.md:143` says 1 ms: `time` with `MaxLatency = 2` violates `MicrosIsClock`.
- With MILLIS_INC > 0 (an overflow longer than a millisecond) millis() runs up to a millisecond ahead, because the branch at
  wiring_micros_ISR.h:971 is taken the other way round; no time is lost over many overflows (`MillisExact`).
- set_millis() with the RTC leaves an overflow that is pending to be added (wiring.c:395), and the time is then 64 s ahead of what was set: `time`
  with `AtOverflow <- TRUE` violates `RtcKeepsTime`.
- set_millis() is not atomic except with the RTC (wiring.c:405): an overflow between its stores
  leaves something else than the argument.
- A TCA at 24 MHz: the sum of shifts has two signs the wrong way round (wiring_micros_ISR.h:775), and micros() goes back by 41 us at every overflow.
  At 10 MHz it is scaled with 5.6 us a count in place of 6.4 (:787); at 25 and 28 MHz it loses 0.1 %; restart_millis()
  at 30 MHz sets the prescaler to 256 in place of 64 (wiring.c:294). A TCD from the 20 MHz oscillator gains 0.06 % (:462). Added to `SoundBuilds`
  (or `SoundRestarts`), each violates `MicrosIsTime` in `time`, the TCA at 25 MHz and the TCD with `MaxOverflows <- 12` for 2.
- delay() on micros() relies on readings that never go back: one microsecond back at the wrong
  moment is a difference of 65535, and the inner loop counts down up to 65 ms at once, where the comment at wiring.c:154
  says one. MicrosScale's `NeverBack` allows one microsecond in one
  count, which is less than the time between two readings.
- delay() on millis() is short by up to 2 ms where millis() goes up by two: `time` with `Grain <- 2` violates `DelayIsKept`.

### Pin interrupts

- On PORTB and PORTC detachInterrupt() clears nothing (WInterrupts.c:295), since it reckons the address of INTFLAGS rightly for PORTA only: the flag of a detached pin stays for the function attached next, and
  may call one that detaches its pin while the pin is being attached, which leaves it armed with no function: `pins` with `Ports = {1}` violates `OwnEdge`,
  `ArmedIffAttached` and `ForgetsRepeatsOnly`.
- attachInterrupt() on a pin that has a function, with interrupts on, may let the handler call half a pointer (WInterrupts.c:102): the
  program of the model turns interrupts off for it.
- In the default build an edge on a pin whose function has been called and returned, before the handler ends, is cleared with
  the one before (WInterrupts.c:170). `extras/Ref_PinInterrupts.md:17` says of the default mode that flags are cleared before the functions are called.
  `pins_late` shows it.
- The handler's test for a table that is not there (WInterrupts.c:152) tests the address of INTFLAGS; nothing reaches it as long as only
  attachInterrupt() turns sensing on. detachInterrupt() on a port that was not enabled stores through a null pointer (WInterrupts.c:296).

### Wire

- The client's index is not reset when a part that was a host becomes a client: the guard is set with an index of 0 only, so the first transaction is not
  guarded, and its end restores a mode that was never saved: `wire` with `HeadAtBegin = {0, 1}` violates `SleepKept`.
- A START that comes while the handler is at a STOP: the handler's last command, which tells the peripheral to wait for a START, answers the new address match instead, and the host may be told
  success of a message of one byte that the client never saw: `wire` with `Overlap = TRUE` violates `SuccessIsDelivery`. The bus has to be slow against the handler and its callback.
- masterReceive() sends no STOP when it times out: the bus stays the host's until its next transfer. requestFrom() for 0 bytes counts down past zero; the model's program asks for at least one.
- getBytesRead() reads and clears the count in two steps (Wire.cpp:1166) and forgets what the handler counts in between; the model calls it with interrupts off.
- A sleep mode set during a transaction is lost at its STOP; the model's program sets it between transactions.

### tone()

- tone() called with interrupts off over a playing tone: a period that has passed by then is counted for the new tone: `tone_servo` with `MaskedCalls = TRUE` violates `LengthIsRight`.
- A limited tone that ends of itself just after tone() has stopped the timer resets the prescaler that tone() has just set: the new tone sounds an octave up: `tone_pitch`, where Tone.cpp:211 says that the final interrupt is not a problem.

### Servo

- detach() in the middle of the servo's pulse leaves its pin high until it is attached again, or another on the same pin is pulsed (`abandoned`; Servo_megaTinyCore.cpp:67, 194).
- attach() of an attached servo with another pin does the same with the old pin: `tone_servo` with `ReAttach = TRUE` violates `HighInTurn`.
- writeMicroseconds() stores two bytes with interrupts on: a pulse that begins in between has a width that was never asked for (`promised` is 0 then).
- A remainder of the interval shorter than the handler's latency is waited for a whole round of the counter longer: `PulsedInTime` allows for it.

### Optiboot

- Two lost bytes may write a page other than the one sent, one of the address and one of the message after it, say: with `MaxLosses = 2`, and 2 for 1 in `AckedIsWritten`, `optiboot` violates it. So does a changed byte, or a reset
  during a session, after which the rest of a page may be taken for a command. Reading back tells what a changed byte of data, terminator or answer has done
  (`VerifiedIsImage`); it does not after a reset and a changed byte, or a lost and a changed one.
- Nor does it tell what a changed command or argument has done: if the length of a page is changed to a smaller one, the rest of its data are commands, whose answers are on their way when the host asks for the page. With pages of 16 bytes, a length changed to 7, and data that go on
  with a terminator, `'U'`, another address, a terminator, `'t'` and its arguments, the part sets the address and reads there in place of the host's next two messages; if the same data are at that address from an earlier upload, the torn page is taken for right. Hence `~misled` in
  `VerifiedIsImage`; the pages of `optiboot` are too short for it.
- Pages of 128 bytes (the parts with 32 KB): if the high byte of the length is lost the low byte, 128, is taken for it, `'F'`, 70, for the length, and the first byte of data for the kind of memory. Of a page of 64 bytes there is then never enough for the count; of one of 128
  the next 70 bytes are taken, and if a terminator (a space, 32) follows they are written, to the EEPROM unless the first byte was an `'F'`, and acknowledged as the page; what is left of it are commands: one page with `PageSize = 128` whose byte 71 is 32 violates `AckedIsWritten`.
  `AcknowledgedIsWritten` is for pages of 64 bytes therefore.
- A brown-out after an external reset, whose flag the bootloader has left set, stays in the bootloader; by itself it starts the application.

### PTC

- ptc_eoc() switches the ADC off (ptc.c:1085), and nothing switches it on when ptc_process() waits for events again (:505): low power is deaf after the first wake-up, or
  after ptc_lp_force_drift(), unless the sketch leaves it and enters it anew: `touch_sleep`.
- ptc_lp_init() while an acquisition is under way, or from a node's callback, is ignored by ptc_init_conversion() (:854): the window comparator is never set up, and a loop that waits for ptc_lp_was_waken()
  does not end. The documentation asks only for an enabled, calibrated node, and examples/selfcap_shield_lowpower calls it right after ptc_process().
- ptc_lp_disable() while the library waits for an event: nothing will wake it.
- Enabling, disabling or recalibrating the low power node in low power: the flags are loaded and stored with interrupts on, and may lose `data_ready` or `win_comp`. Outside low power this loses
  one result at most, which `AcquisitionsGoOn` allows.
- ptc_node_request_recal() in the touch or calibration callback of the node is overwritten on return (ptc.c:673).
- The release filter counts measurements that do not exceed touch_in_th (ptc.c:640), where PTC's README:141 counts those below the no-touch threshold: one between the two thresholds goes towards a release
  that it should prevent. `TouchIsFiltered` is about touches only.
- In low power the reference drifts by one but the window by one sixteenth of that (ptc.c:664): a cautious sketch has left low power by the time it drifts.

## Assumptions of the models

- All handlers are at priority level 0; a handler is atomic (with the DRE handler and Wire's STOP in two steps).
- The sketch does not call the same object from a handler while it calls it from `loop()`.
- A transmitter that is disabled finishes the frames it holds.
- The default build: the handlers in assembler, `late clear`, no autobaud.
- Counters are unbounded: no wrap of 2^32 in `Timekeeping` and `RtcMillis`.
- One host on the bus, one client at the address it calls; the host's and the client's buffers are apart (TWI_MANDS).
- No reset comes while the bootloader writes a page, or before it has looked at the reset before.
- In `Servo` the tick in which the counter is cleared is left out.

## Not modelled, and why

- Pin interrupts: level mode, and the older implementation that CORE_ATTACH_OLD selects.
- Serial: peek(), autobaud (its state is an enumeration in `_state` that the default build leaves out of the handlers),
  pin multiplexing, printHex.
- Timekeeping: a timer stopped for a while, avr-libc's cycle-counted delays.
- Wire: lost arbitration and several hosts, begin(), end(), pins and baud rate, host and client in one buffer.
- tone(): the pin's direction, which is set with its level.
- Optiboot: the EEPROM's contents, LED, RS485, do_nvmctrl() and BIGBOOT.
- PTC: how a calibration searches the compensation, adding nodes (a node added twice, or with bad arguments, breaks the list), gain, resistor and prescaler, the registers of the DA-series.
- Everything that is not interrupt-driven or that only copies values into registers: digital pins,
  PWM, ADC, Comparator, Event, Logic, clock set-up. Text handling: Print, Stream, String. Third-party
  code (SD, vendor headers, pymcuprog) and cycle-counted drivers (NeoPixel, SoftwareSerial's
  bit timing). `PROJECT.json` "components" has the reason for each.

Most of the lines of the repository are tables: register definitions, boards, vendor code. The modules cover the
programs that share state with an interrupt, a peripheral or another part.

## Plan

Done: the serial port, timekeeping with delay(), pin interrupts, Wire, tone(), Servo, the bootloader with its host, PTC, each with its safety properties proved but for those under "Model-checked only".

1. `SpiTransactions`: SREG saved and restored around the sketch's calls, nested transactions.
2. `EepromPut`: writes of several bytes against a reset and against a handler that writes as well; USERSIG.
3. SoftwareSerial's receive ring and the change of the active object; Event's assignment of channels; the Optiboot_flasher library against `Optiboot`.
4. Proofs: the refinement of the transmit path where interrupts are masked and both modes are mixed, under a weaker condition than `Paced`; the bootloader's host after a reset in mid-session.

One run per component, with the build variants chosen in `Init`.
