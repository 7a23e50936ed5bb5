# A TLA+ model of the CAN gauge interface

The repository holds a device that drives analog gauges from a car's CAN bus
(firmware for a PIC16F1459 with an MCP2515 CAN controller, a 25LC160C EEPROM
and two MCP4912 DACs, `src/fw`) and a command-line tool that calibrates it
(Go, `src/sw/cal`). This directory holds TLA+ modules of its parts,
configurations that check them with TLC on small instances, and proofs for
every value of the constants checked with TLAPS. `PROJECT.json` lists, by name,
the runs, the source lines each definition stands for, the hazards and the
theorems.

## 1. The system

The PIC has one main loop, which is empty once it has booted, and one interrupt
routine. All the work is done in `isr()` with interrupts off; what runs
concurrently with it is hardware: the CAN controller, the EEPROM's write cycle,
the timers, the bus, and the power supply. The calibration tool is a
sequential program on top of two goroutines and their channels, which talks to
the device over a bus it shares with other nodes.

| Component | State | Operations | Talks to |
|---|---|---|---|
| CAN reception (`main.c`, `can.c`) | INTF latch, receive flags and buffers of the MCP2515, the ISR's copy of a frame | boot, `canRxStatus`, `canReadRxb0/1`, dispatch in `isr()` | handlers |
| CAN transmission (`can.c`) | transmit buffer 0, TXREQ, TXERR | `canTx` | bus |
| EEPROM driver (`eeprom.c`) | page latch, address counter, WIP and WEL of the chip, the memory | `eepromInit`, `eepromRead`, `eepromWrite` | chip |
| Signal formats (`main.c`, `serial.c`) | `sigFmts` in RAM, their stored form | `loadSigFmts`, `setSigFmt`, `respondSigCtrl` | EEPROM, transmission |
| Signal extraction (`signal.c`) | none | `sigPluck` | called for each matching signal |
| Calibration tables (`table.c`, `main.c`) | tables in the EEPROM | `tabRead`, `tabWrite`, `tabLookup`, `handleTblCtrlFrame` | EEPROM, transmission |
| Gauge outputs (`main.c`, `dac.c`) | timer registers, two counters, DAC levels | `driveGauge`, `driveTach`, `driveSpeed`, timer branches of `isr()` | pins |
| Calibration tool (`sw/cal`) | signal definitions, table rows, retry counter | `parseSignals`, `sendEncodings`, `sendTables`, `sendCtrlFrame`, `Insert` | device, over the bus |
| Bus access of the tool (`canbus.go`) | channels, two goroutines | `Connect`, `Send`, `Receive`, `TryReceive`, `Close` | socketcan |

What is hard about it, and what has to hold:

- *Reception.* INT is level-like at the controller and edge-triggered at the
  PIC; frames arrive between any two steps of the ISR and during boot. The ISR
  must not read an empty buffer, must give each frame to the handler its filter
  names, once, and must not stop receiving.
- *Transmission.* The controller keeps trying when `canTx()` has given up. A
  call must not take another frame's success for its own, and must return.
- *EEPROM.* A write returns while its cycle has just begun, a page boundary
  splits it, the chip ignores commands in a cycle, and the power may fail. The
  driver must never address a busy chip and must put every byte where it
  belongs.
- *Signal formats.* Two writes and a copy in RAM must stay together through
  failures, resets and power loss.
- *Extraction and lookup.* Boundaries of bytes, words and tables; fixed-width
  arithmetic; tables with any contents.
- *Gauge outputs.* The timers go on while the ISR handles a frame that changes
  what they generate, and the ISR serves them after the frame. Outputs must
  follow the signals, edges must be as far apart as was set, and neither may
  starve the other.
- *Bus access.* Two goroutines and their clients meet at unbuffered channels,
  with time limits, a kernel that runs out of buffers, a connection that breaks
  and a Bus that is closed. Answers must not be mixed up, frames neither lost
  nor doubled, and nobody left waiting.
- *Calibration.* Signals are missing from the DBC file, frames are lost, others'
  frames come between, answers are late, the device fails to store. Success must
  mean that the device has it.

## 2. Modules

| Module | Models | Status |
|---|---|---|
| `CanReceive`, `CanReceiveProofs` | reception | checked, safety proved |
| `CanTransmit`, `CanTransmitProofs` | transmission | checked, safety proved |
| `NvMemory` | what the EEPROM driver promises (abstract) | |
| `Eeprom`, `EepromProofs` | driver and chip | checked, safety and refinement proved |
| `SigConfig`, `SigConfigProofs` | signal formats | checked, safety proved |
| `SigPluck`, `SignalProofs` | extraction | checked, safety proved |
| `TableLookup`, `SignalProofs` | `tabLookup`, `interp` | checked, proved |
| `Gauges`, `GaugesProofs` | the timer outputs and DACs, with the handler of signal frames | checked, safety proved |
| `CalTool`, `CalToolProofs` | the tool from its arguments to the last table, and the device's table handler | checked, safety proved |
| `FrameQueue` | what the tool relies on when it receives (abstract) | |
| `CanBus`, `CanBusProofs` | the tool's goroutines, channels and clients | checked, safety and refinement proved |

`MC<Module>.tla` with its `.cfg` files holds the instance TLC checks.

### CanReceive

`pc` is where the PIC is: the boot steps `setup`, `load`, `arm`, then `idle`,
then the steps of the CAN branch of `isr()`: `status` (RX STATUS), `read` (READ
RX BUFFER), `serve` (the handler), `clear` (`INTF = 0`). `full` and `buf` are
the controller's receive flags and buffers, `intf` the edge latch. `Accept` and
`Overflow` are arrivals and may happen between any two steps; `Restart` is a
power failure, or the reset `main()` executes when the formats cannot be loaded.
`accepted`, `served`, `lost` and `overlap` are history.

The latch is modelled as a falling-edge detector once `INTEDG` is cleared and as
a rising-edge detector before. Turning it round while the line is low may set
it or not (`Arm`).

### CanTransmit

One action per register access of `canTx()` that matters: `WriteId`,
`WriteBody`, `RequestToSend`, then a poll with its four outcomes, and `Cancel`.
The controller, concurrently, starts an attempt with the identifier in the
registers, goes on with the body that is in them then, and completes, loses
arbitration or meets a bus error. So a frame that is still requested when the
next call rewrites the registers may go out mixed of both. `sent`, `last` and
`clean` are history.

### NvMemory and Eeprom

`Eeprom` has the driver's steps (`Poll`, `WaitOk`, `WaitFails`, `Enable`,
`EnableFails`, `SendByte`, `CrossPage`, `LastByte`, `Fetch`) and the chip: bytes
go to a page latch through an address counter that wraps within the page;
`WriteCycleEnds` copies them to the array at any later time; `PowerLoss` may
leave anything in the page being rewritten. `Reset` is a reset of the PIC alone.

`NvMemory` promises: a write stores its bytes in ascending order, some at a
time, and says OK when all are on their way; a failure leaves a prefix; a power
loss spoils only what has not settled. The refinement maps `cell` to what a read
would find at the end of the current write cycle, `unsettled` to the page being
rewritten, and `next` to the first address not yet handed to a cycle.

### SigConfig

Uses the promise of `NvMemory` at the grain of a format's two fields (none
crosses a page, two signals share one). Boot loads the formats one by one; a
Signal Control frame is accepted, then identifier and encoding are written, then
the copy in RAM is replaced; each write may fail. The conversions are modelled
by what they do to the bits that matter: `PackId` puts the standard/extended
flag where `serWriteCanId()` puts it, `PackWire` where an answer has it;
`UnpackWire` is how the device reads an identifier in a frame (it cuts a standard
one to 11 bits), `DecodeWire` how the tool does (it does not). Two variables are
history: `wanted` is the format of each signal last set with success, and `cut`
one of which, since then, only the identifier was stored. While `cut` is not
`Nothing` the EEPROM holds half of each, a restart takes them together, and RAM
goes on with the old one until then; the properties say what holds all the same.

### SigPluck

`sigPluck()` with the loops of `pluckLE()` and `pluckBE()`, one step per
iteration, on symbolic data: each bit of the result is the set of data bits
ORed into it, so one format stands for all frames. The reference `Value` places
each bit by counting the signal's bits of lower significance (`LessSignificant`),
from the lowest position of the first byte on, as the code and its unit test
have it. `isSigned` is part of a format and no step looks at it.
The specification's names are prefixed (`PluckInit`, `PluckNext`, `pluckPc`), so that
`SignalProofs` can extend this module and `TableLookup` at once.

### TableLookup

The scan of `tabLookup()`, a row per step, over *any* table, with the arithmetic
of `interp()` modulo the word (`Wrap`) and C's division (`Quotient`). A read may
fail at any step. `Fits` is the condition, on the key's two neighbours, that the
difference of their keys and the product are in the word's range; with the code's
widths the tables in `src/sw/cal/example` meet it at every key.

### Gauges

`pc` is the branch of `isr()`: `signals` (one step per signal of
`handleSigFrame()`, so `k` is the loop's `sig`), `tmr1`, `tmr2`, and `main`
outside of it. A frame is what it holds for each signal: the value found in the
table, `Bad` if it cannot be extracted or looked up, or `Absent` if the
identifier is another's (`canIdEq()`). `Tmr1Overflows`, `Tmr2Matches` and
`CanInterrupts` are the hardware and may happen between any two steps, with or
without the interrupt enabled; a second overflow before the first is served is
lost. After an overflow TMR1 goes on counting from 0 (`Tmr1Counts`, to any of
`Counts`) until `ServeTmr1` sets it again, in the CAN branch as elsewhere. `DriveTach`, `DriveSpeed` and `DriveAnalog` have the code's arithmetic at
its width; the DAC is the word `set()` transmits and what the chip makes of it.
`wanted`, `tachRun`, `tachLate`, `tachSteady`, `speedRun` and `speedSteady` are
history: the last value that came for a signal, how many counts or ticks have
gone into the current edge without a change of the setting, and how many of these
counts were thrown away when TMR1 was set again.

### CanBus and FrameQueue

`tpc` and `rpc` are the program counters of `transmit()` and `receive()`, `pc`
that of each client. A channel is unbuffered, so a send and its receive are one
action (`TakePort`, `GiveRequest`, `Answer`, `TakeFrame`). A `select` with two
ready cases is two enabled actions: `ReceiveTimesOut` does not ask whether a
frame is on offer. `TryReceive` may miss a frame that `receive()` has read but
not brought to the channel yet. The socket (`Arrive`, `Break`) is external;
`Close()` is `Cancel` and then `CloseConn`. `onWire`, `arrived` and `delivered`
are history. The tool itself has one client; the interface allows several, and
the questions about channels only come up with two.

`FrameQueue` promises that frames are delivered in order and once, and lost only
after `Close()`. The refinement maps `pending` to the frame `receive()` holds
followed by those in the socket.

### CalTool

The tool's `main()`: `parseSignals()` looks in each message of the DBC file for
each name in any order (`Search`, as Go iterates over a map), `SearchEnds` is its
check for missing signals; then come the encodings and the tables, with
`sendCtrlFrame()` as the steps `Write`, `Request` and one action per outcome of
`Receive()`. `Timeout` may come although a frame is there, as `CanBus` says. A
file is parsed line by line (`ParseRow` keeps the row number the code gives it)
and sent with the last row repeated. `dbc`, `found` and `rows` are emptied where
the code returns from the function that holds them. The device handles the
frames in order. Faults, bounded in number, are: a frame lost in either
direction, a frame of another node while the tool sends (with another identifier
or a wrong DLC; none with an identifier that only the tool's masks cannot tell
from a control frame's), a write or a read that fails. The device's end of signals is a
slot per signal; how it stores them is in `SigConfig`.

## 3. Runs

| Run | Instance | Shows |
|---|---|---|
| `can_receive` | 4 arrivals, 1 restart | wake-ups are real, dispatch is right, each accepted frame is in one place, and frames are lost or stall the device only when they overlap; a stall lasts until a restart |
| `can_receive_lost_wakeup` | the same | violated: a frame in its buffer while the ISR runs gets served |
| `can_transmit` | 2 x 2 frames, 2 retries | an OK from an idle controller means sent once and whole; at most one leftover; one success cleans up; calls return |
| `eeprom` | 4 bytes, pages of 2, requests of up to 3, 2 polls before the last | the driver implements `NvMemory`, never addresses a busy chip, gives up only on one that stayed busy, and returns |
| `sig_pluck` | 8-bit bytes, 32-bit word, up to 8 bytes (the code's widths) | the loops put the signal's bits in order and 0 above unsigned ones, or fail exactly when the signal is outside |
| `sig_config` | 2 signals, 2 encodings, 3 identifiers in frames | formats stay stored, survive, are answered as stored and change as a whole, as far as no other frame has replaced them in part |
| `sig_config_restart` | the same | violated: after a restart the device works with a format that was set |
| `table_lookup` | 3 rows, keys -6..5, values 0..2 | divisions are defined in any table; in an ordered one, at a key where nothing overflows, the scan finds the function |
| `gauges` | 4 frames with 2 and more signals, pulse rates and levels at every limit | outputs follow the last value, steady edges are as far apart as was set plus what `isr()` is late and never later, timers are served between frames |
| `can_bus` | 2 clients, 3 frames | each client gets its own answer; frames come in order and once; only a closed Bus misleads; calls return while it is open |
| `cal_tool` | 2 signals and their tables of 2 rows, 17 DBC files of 2 messages, 7 table files, 3 attempts, 2 faults | a signal missing ahead of one that was found is reported; verified means stored; success means all ordered tables are in the device; giving up has a cause; the tool ends |
| `cal_tool_rows` | the same, no faults | violated: a table whose file is in any order is stored |

Further configurations on the same instances are not among the runs of
`PROJECT.json`. Each states one more claim of a comment or a document, and TLC finds
it violated within seconds; "What the violations say" explains them.

| Configuration | Module | Violated |
|---|---|---|
| `MCSigPluckSigned.cfg` | `MCSigPluck` | `SignRespected`: a signed signal keeps its sign |
| `MCSigPluckStart.cfg` | `MCSigPluck` | `StartAsInDbc`: a big-endian signal starts at its highest bit |
| `MCSigConfigTorn.cfg` | `MCSigConfig` | `WorksWithOneFormat`: the device works with the identifier and the encoding of one frame |
| `MCSigConfigAnswer.cfg` | `MCSigConfig` | `AnswersStored`: an answer is what the EEPROM holds |
| `MCSigConfigOrder.cfg` | `MCSigConfig` | `OrderAsDocumented`: the stored order flag is 0 for little-endian |
| `MCTableLookupPromise.cfg` | `MCTableLookup` | `LookupAsPromised`: every ordered table is interpolated |
| `MCGaugesClamp.cfg` | `MCGauges` | `DacClamps`: levels are clamped to 5 V |
| `MCGaugesOff.cfg` | `MCGauges` | `OffIsSilent`: an output that is off has no edges |
| `MCGaugesTachRate.cfg` | `MCGauges` | `TachRateExact`: TMR1's counts between edges are what was set |
| `MCGaugesSpeedRate.cfg` | `MCGauges` | `SpeedRateExact`: two edges take a period of the speedometer |
| `MCCalToolMissing.cfg` | `MCCalTool` | `AllSignalsPresent`: all signals are found, or a missing one is reported |
| `MCCalToolSignals.cfg` | `MCCalTool` | `VerifiedSignalsStored`: a signal that was verified is in the device |

Why the bounds are enough. Reception: two buffers and the ISR's hands hold three
frames, the fourth is dropped. Transmission: three polls are a first, a middle
and a last; two by two frames tell a mixed frame from both. EEPROM: a request of
three bytes over pages of two starts at a boundary or inside a page and ends at
one or inside; the code's rows of 6 bytes in pages of 16 do no more. Signal
formats: two signals are one shared page; more pages are independent; two
encodings that differ in everything show any mix of two; the identifiers in
frames (`MCSent`) are one of either kind that the stored form does not keep and
one that it keeps, with bits that the device cuts off. Tables: three rows are a
first, a middle and a last, and the keys' range makes differences and products
overflow. Gauges: the frames hold the values on either
side of each limit (229 and 228, 1 and 35157, 10044, 4999 and 5000 mV), and a
second overflow before the first is served needs no more; the counters bound
themselves. `MCCounts` holds one count, so that each overflow is served at once or
late and six of them differ; which count it is only adds to a sum. TMR2's period
may be up to 35156 ticks; the instance goes up to 7, and the proofs cover the rest.
Bus access: two clients are one that holds the goroutine and one that waits; three frames are one in hand, one in the socket and one to come. Tool:
two messages put two signals together, apart in either order, twice or nowhere;
the table files are one for each order two rows can have, with a key twice, a bad
line and one line too many; two faults can meet in one command, be spread over
two, or exhaust three attempts between them.
What the proofs cover does not depend on these bounds.

Deadlock is not checked where the program really stops: the bus has no more
frames (`can_receive`), a calculation has returned (`sig_pluck`,
`table_lookup`), the tool has exited (`cal_tool`), every client waits on a closed
Bus (`can_bus`).

### Fairness

- `CanReceive`: the PIC executes its program (boot steps, ISR steps), and
  loading the formats succeeds in the end if it is tried again and again.
  Nothing is asked of the bus.
- `CanTransmit`, `Eeprom`: weak fairness of the driver's own steps only. That
  calls return even if the controller or the chip never does anything is the
  point of the poll limits.
- `SigPluck`: the loop runs.
- `Gauges`: `isr()` is executed when an enabled interrupt is pending. Nothing is
  asked of frames or timers.
- `CanBus`: the transmit goroutine goes on with a request, and time limits
  expire. For the clients that wait at its channel `SF(TakePort(c))`: the
  channel is ready again and again, and Go's runtime serves those who wait at a
  channel in the order in which they came. Nothing is asked of the socket: the
  kernel may be out of buffers for ever and no frame may come.
- `CalTool`: the tool's own steps; its receive timeout needs no device.

### What the violations say

The first three are the violated runs; the others are the configurations above.

- *Lost wake-up* (`main.c:449-471`). `isr()` serves one frame per edge and clears
  INTF at the end. A second frame keeps the line low, so no further edge comes:
  reception stops until a restart. `OnlyOverlapHurts` bounds it: it needs a
  frame that arrives before its predecessor is done with.
- *Bit 7* (`serial.c:46`). The stored form of an identifier has its
  standard/extended flag in bit 7 of the number instead of bit 31 (`serial.h:37`).
  The same property is violated by torn formats (below).
- *Row numbers* (`table.go:90`). A row inserted before others leaves their
  numbers as they were; the device then gets two rows with one number, and the
  tool reports success.
- *Sign* (`signal.c:79`). `calfmt.ms:203` says that a signal may be signed.
  `isSigned` is stored, answered and never used: the bits above a narrower signal
  are 0. `PlucksValue` says nothing of the bits above a signed one.
- *Start bit* (`signal.c:44`). `calfmt.ms:177-180` says that the start of a signal
  corresponds to DBC's start bit, and the tool sends it unchanged. For a big-endian
  signal that is its highest bit; the code takes it for the lowest position
  of its first byte, and so does its unit test.
- *Torn format* (`serial.c:83-93`). The identifier of a new format is stored and
  its encoding is not, because the write or the power fails: the next boot
  combines it with the encoding of the format before. `ConfigSurvives` and
  `ChangesAsWhole` say what holds in that case: the encoding is the old one's, and
  RAM keeps the old format until the restart.
- *Answers* (`main.c:250`). `calfmt.ms:107` says that an answer is retrieved from
  the EEPROM. It comes from RAM, which differs in the case just described.
  `AnswersConfirm` says that it does not in any other.
- *Order flag* (`serial.c:91`, `serial.c:114`). `serial.h:50` says 0 for
  little-endian; writer, reader, tool and `calfmt.ms` have 0 for big-endian.
- *Overflow* (`table.c:47`). `table.h:40` says that a value between two rows is
  interpolated. The difference of keys, or the product, wraps for rows far
  apart; `LookupInterpolates` holds where it does not (`Fits`).
- *Missing signals* (`dbc.go:36`). The comment says "Check all signals are
  present". The check compares the i-th signal found with the i-th name, so that
  missing signals behind those found, and a file with none of them, go
  unreported, and a signal found twice makes up for a missing one.
  `MissingReported` says what is left.
- *Another signal's answer* (`signal.go:56`). The tool takes an answer about any
  signal. One that a retry left over verifies the next signal if it has the same
  format, although its write failed. `VerifiedIsStored` covers signals without
  faults only.
- *Full scale* (`dac.c:41`). The comment says "clamp to 5V". From 5000 mV on the
  level is 1024, which the 10 bits of the converter cut to 0. `OutputsFollow` asks
  for levels below 5 V only.
- *Outputs switched off* (`main.c:473`, `main.c:482`). `driveTach()` and
  `driveSpeed()` clear the interrupt's enable bit, but `isr()` asks only for its
  flag, which the running timer sets: while CAN interrupts come the pin goes on
  toggling.
- *Pulse rates* (`main.c:478`, `main.c:483`). The formulas at `main.c:26-37` leave
  out that TMR1's counts between overflow and reload are lost, which takes as
  long as the CAN branch and its EEPROM scans, and that half of an odd period is
  rounded down, and of a period of 1 up. `EdgesOnTime` says what the edges are.

Nothing documents what `Send()` and `Receive()` do after `Close()`
(`canbus.go:58`, `canbus.go:97`): the first waits for ever, the second may
return an empty frame without an error. The tool closes its Bus last.

## 4. Proofs

All are invariance proofs: an inductive `IInv` is shown to hold initially and
to be kept by each action (a lemma per action or group of actions), and the
properties follow from it. Only the named `ASSUME`s on constants are used.

- `CanReceiveProofs`. `RightHandler` is not inductive: that the ISR reads a full
  buffer rests on how the latch follows the line (`LatchKnown`,
  `NoStaleWakeup`), and that no frame is served twice on frames being numbered
  in order (`Numbered`) and routed by kind (`Routed`). `OneAtATime` says what
  the state looks like without overlap. Theorems: `TypeCorrect`,
  `WakeupsAreReal`, `DispatchCorrect`, `ServedExactlyOnce`,
  `NoLossWithoutOverlap`, `StallsLast`.
- `CanTransmitProofs`. What TXREQ = 0 means depends on whose request it was.
  `Fresh` (registers and attempt hold the frame of the call) is followed from
  `RequestToSend` to the bus; `Leftover` says what an earlier request can still
  do. Theorems: `TypeCorrect`, `DeliversOnce`, `AtMostOneLeftover`,
  `OneSuccessCleansUp`.
- `EepromProofs`. `ReadyWhenAddressed` rests on `PollIsFresh`: a poll that found
  the chip ready stays right because only the driver starts cycles.
  `LatchInOrder` says that the page latch holds a segment of the request that
  ends at the chip's counter, which is what the boundary test is for.
  `Refinement` proves `Spec => IsNvMemory`: each step of the driver and chip
  is a step of `NvMemory` or leaves its variables alone. `TimeoutsAreEarned`
  rests on `PollsCounted`: a wait that goes on has found the chip busy at each of
  its polls.
- `SigConfigProofs`. `IInv` ties RAM, EEPROM and the history together at each
  step of a write and of the boot loop (`Pending`, `Loaded`), for formats as
  they were set and as a boot reads them back; round-trip lemmas state what each
  conversion keeps, and that what is read back would be stored as the same number
  again (`StoredAgain`), which is why an answer agrees with the EEPROM after a
  restart that changed the identifier. Theorems: `TypeCorrect`,
  `FormatsStayStored`, `ConfigurationSurvives`, `AnswersAreTrue`,
  `FormatsChangeAsWhole`.
- `SignalProofs`, the two calculations `handleSigFrame()` makes of a frame.
  - *Extraction*, for any width of byte and word and any length of frame.
    `PlucksValue` speaks of the end only. `Plucked` says what it takes to get there:
    after each iteration the result is the value of the part of the signal
    looked at so far (`Gathered`), with the place of each bit given by
    arithmetic (`Rank`) instead of a count. Big-endian bits are lifted by every
    byte that follows theirs: `Lifts` shows that the shift is right although the
    first and the last byte may be partial, which needs `Aligned` (every
    iteration but the first begins a byte) and that `Upto` is the nearer of
    the next byte and the signal's end (`Iteration`). `RankCounts` turns the
    arithmetic into the count of the reference: in a big-endian signal the less
    significant bits are the bytes that follow and the lower bits of the same
    byte. The width of the result matters to little-endian signals only, where a
    shift by too much is undefined; `raw << by` drops what does not fit.
    `WithinField`, what the preconditions leave of `start` and `size`, gives
    `OutsideFails` and `ReadsStayWithin`. Theorems: `PluckTypeCorrect`,
    `ValuePlucked`, `OutsideFails`, `ReadsStayWithin`.
  - *Lookup*, for any number of rows and any width of keys and values.
    `DivisionsDefined` holds of every table: the scan has passed the row below the
    key (`Passed`, `Bracketed`), so the two keys differ by at least 2, and modulo
    the word by neither 0 nor -1. `LookupCorrect` proves `LookupInterpolates`: in a
    table in order the row at which the scan stops splits the rows into those
    below the key and the others (`KeySplits`), so it and the one before are the
    key's neighbours; and `OnTheLine` shows what `interp()` makes of two rows for
    which nothing overflows: the division truncates towards the value of the upper row
    (`Truncates`), so the sum is between the two values, nothing on the way to it
    wraps, and what is cut off is less than a unit.
- `GaugesProofs`, for any set of frames, so for all 16-bit values: settings and
  levels follow `wanted` signal by signal through the loop (`InHand`,
  `Following`), which gives `OutputsAreTrue`; that an output's counter and its
  history agree (`TachInStep`: three overflows per edge; `SpeedInStep`: fewer
  ticks than half a period, also right after it shrank) gives `EdgesComeInTime`
  and `EdgesComeAsSet`, for any delays between an overflow and its service. The
  lemma `Word` keeps the numbers of the registers abstract.
- `CanBusProofs`, for any number of clients and frames: that `transmit()`
  and the client it works for agree on how far they are, and no other client waits
  for it (`InTouch`, `OnWire`), gives `AnswersAreOwn`; that the goroutines end at
  their channels only after a cancellation (`Told`) gives `OpenBusIsTrue`; and `Refinement` proves `Spec => IsFrameQueue` with the sequence
  laws of `Held \o inq`.

- `CalToolProofs`, for any signals, DBC files, table files, attempts and faults.
  Four arguments share `IInv`:
  - *Missing signals.* That all signals or the first ones are found (`FoundFit`) is
    what `SearchEnds` leaves, and gives `MissingNamesReported`.
  - *Rows.* Of a file in ascending order the lines parsed so far are the rows, each
    numbered with its place (`InPlace`), so a row of the device has one line that
    belongs to it (`LineFor`). Then it does not matter to which attempt an answer
    belongs: every write under way to a row, every answer about it, what is
    verified of it and what the device holds is that line, or the row is as it was
    or spoilt by a failure, and no answer has a content the row does not have any
    more (`Follows`, `RowsFollow`). That and `AllVerified`, which counts the
    rows through the repetitions of the last one, give `VerifiedCommandsStored`
    and `DoneTablesStored`.
  - *Signals.* A signal may be sent twice with two encodings, so an old answer can
    be wrong; as long as nothing fails there is none. `Lockstep` lists what can be
    under way at each stage of a command, `Undisturbed` says that no write to
    a verified slot is.
  - *Giving up.* An attempt that fails has read a frame that the command could
    not take. `Accounted` counts those there are and those to come: frames that
    are no answer, requests of earlier commands, and requests of this one whose
    write was lost or failed (`Useless`, `Unprepared`, `Owed`); a fault adds two at
    the most, and every other step takes one away for each it adds. When a
    command starts, all that is under way may be of that kind, which `Surplus`
    bounds by the faults so far. That gives `GivingUpHasCause`.

  The assumptions on constants say that signals are numbered from 0, that files are
  sequences of lines with a number for a key, and that `Junk` and `BadLine` are
  no contents.

The theorem `TypeCorrect` of each of these modules is its type invariant (`Typed` in
`CalToolProofs`, `PluckTypeCorrect` for extraction).

Every invariant, every action property and both refinements that a passing run
checks are proved. Only model-checked are the liveness properties
(`ServedOrStalled`, `CallReturns`, `CallsReturn`, `TimersServed`, `Ends`,
`Terminates`): fairness and `ENABLED` are beyond the prover. The properties
that a run finds violated have no proof, of course.

## 5. Assumptions about what is not in the repository

- MCP2515: rollover disabled means a frame for a full buffer is dropped; RX
  STATUS reports RXB0 before RXB1; filters 2 to 5 are taken to accept everything
  with the mask of zeros `main.c` sets; setting TXREQ clears TXERR; clearing
  TXREQ does not stop an attempt under way; canInit() resets all of it.
- 25LC160C: the address counter wraps within a page; during a write cycle only
  status reads are answered; a power loss in a cycle may spoil the whole page
  and nothing else.
- XC8: signed arithmetic wraps; a shift by the width or more gives 0 or is taken
  modulo the width (`SigPluck` allows both; it concerns only signals wider than
  the result).
- Frames on the bus have a DLC of at most 8. `readRxbn()` does not check it.
- An SPI transfer is one step; interrupts are off in `isr()`.
- PIC16F1459: TMR1 and TMR2 run and set their flags whether or not their
  interrupts are enabled. Setting TMR1 again and clearing its flag is one step.
- MCP4912: the top bit of a word selects the output, the next three configure
  it, ten are the level and the last two are ignored.
- Go: a `select` takes any of its ready cases; operations on a nil channel wait
  for ever; a closed channel gives zero values; waiters at a channel are served
  in turn.
- The bus delivers a sender's frames in order, or not at all. No other node
  transmits under an identifier that differs from a control frame's in bits 25
  to 28 only, which the tool's masks (`table.go:20`, `signal.go:16`) leave out.

## 6. Not modelled

- *SPI, clock, pin set-up*: register writes without a decision in them.
- *CAN controller registers*: the split of an identifier over four registers
  (`packId()`, `writeId()`) and the set-up of masks, filters and bit timing; an
  identifier is a model value. `canSetMode()` repeats its request until the
  controller has changed mode: the models start when it has, and a controller
  that never does keeps the device in its boot.
- *Bit timing calculator* (`bittiming.py`): an offline floating-point
  calculation nobody calls. *Tests, hardware, documents*: no behaviour, apart
  from what they say of the code.
- In `CalTool` the device holds a signal's encoding in one place; a failed write
  leaves it as it was, which is what the RAM copy it answers from does.
- A device that restarts during calibration is not in `CalTool`. Nor are the
  parsers of the DBC and CSV formats, which are libraries: a file is its messages
  or lines.
- Two flags of the tool that name the same signal.
- In `Gauges` the frames of control identifiers do nothing; what they change is in
  `SigConfig` and `CalTool`. The frame `driveGauge()` transmits "TODO: remove" is
  taken to return, which is what `CallReturns` of `CanTransmit` says.

## 7. Plan

Done in this order: reception, EEPROM with its abstract memory, extraction,
signal formats, table lookup, the tool's exchange, transmission, gauge outputs,
bus access, the search of the DBC file. What would come next:

1. Compositions: `CanReceive` with `CanTransmit` for a handler that answers and
   fails; `CalTool` with the device's row writes at the grain of `NvMemory`, so
   that a lookup between two commands sees a table that is part old, part new;
   `CalTool` on top of `CanBus` in place of its own queue.
2. Proofs: of those compositions. Each proof module covers one component (or, in
   `SignalProofs`, two that share the arithmetic), so that the invariants can be
   cited there.
