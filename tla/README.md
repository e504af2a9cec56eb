# stc-compiler: formal models

TLA+ models of `stc-compiler`: a compile service and a browser page that turn
BrickWright pseudocode, C or assembly into firmware images for small machines
(8051, AVR, ARM, 6502, Z80, RISC-V, ESP8266, MicroPython boards) and flash them.
Paths below are relative to the repository root; `app.py:460` is a file and a line.

1. [The system](#1-the-system): its parts, their state, what is hard about them
2. [Modules](#2-modules): which module models which part, and how
3. [Runs](#3-runs): what TLC checks, within which bounds
4. [Fairness](#4-fairness)
5. [Proofs](#5-proofs): what TLAPS proves and by which argument
6. [Where the code and its documentation part](#6-where-the-code-and-its-documentation-part)
7. [Not modelled, and the plan](#7-not-modelled-and-the-plan)

Run a check with `tlc -config <cfg> <module>` and a proof with
`tlapm <module>`, both in this directory; PROJECT.json lists the runs, the
source lines every definition stands for, the mutants and the hazards.

## 1. The system

```
 page (docs/index.html) --pseudocode--> stc_pseudocode.py --C / Python / TypeScript-->
 HTTP /compile --> guard --> stage_* --> build_* (sdcc, avr-gcc, ...) --> image
                  app.py                arduino_build.py, assemble.py       |
 board <-- serial / USB / SWD -- docs/flash.js <----------------------------+
```

The **front end** parses a program into an AST and prints it back, or lowers it
to C (8051, AVR, Arduino, ARM, ...), to MicroPython or to MakeCode TypeScript.
The C contains a small **run-time system**: a millisecond tick in an interrupt,
cooperative tasks, device drivers. C for the ESP8266 and sketches for AVR are linked
with libraries of the repository: a timer, waveforms and pin interrupts in one, the
Arduino core in the other. The **service** admits requests, stages a
vendored toolchain into `/tmp`, runs a chain of tools in a private directory and
answers with the image. The **page's flashers** speak each board's own protocol.

| Component | State it keeps | Operations | Talks to | What is hard | What makes it correct |
| --- | --- | --- | --- | --- | --- |
| 8051 tick, clock and waits (`stc_pseudocode.py` 1564-1633, 5246-5266) | `bw_ms`, `TF0`, `ET0`, a task's `until`, the locals of `delay_ms` | `bw_tick`, `bw_now`, arming and checking a wait, `delay_ms` | interrupt and main loop share `bw_ms` | byte-wise reads against an interrupt; wraparound every 65.5 s; ticks while the interrupt is off | a read is a value the counter had; no tick is lost; no wait ends early or hangs |
| ESP8266 runtime and Arduino layer (`esp8266/runtime.c`, `esp8266/arduino/arduino.c`) | `milliseconds`, two timers, `wave[16]`, `routines[16]`, the chip's latch of edges | `tick`, `delay`, `pulseIn`, `analogWrite`, `tone`, `reschedule`, `attachInterrupt`, `pin_interrupt` | three interrupts and the sketch share the tables and the counter | an alarm compared for equality; one timer for all waves; edges while others are served; two counters that wrap | the clock never drifts; calls last what they say; no wave and no pin loses an edge |
| Arduino core: serial port (`HardwareSerial.cpp`, `HardwareSerial_private.h`) | two rings, `_written`, the port's flags | `write`, `flush`, `begin`, `end`, `read`, `peek`, `available`, two interrupts | interrupts and the sketch share rings and flags | three ways into the port; TXC set and cleared by three parties; interrupts off | bytes leave and arrive once and in order; `flush` means sent; nobody waits for ever |
| Scheduler and lowering (`stmts_c` 5035, `stmts_task` 5200, `emit_c` 5390) | per task `state`, `until`, `prev`; REPEAT counters | a statement, a yield, a dispatch, a hat's edge | clock, pins | coming back into the middle of nested loops; edges while a body runs | what the scripts say, yields exactly at waits and back-edges, no script starves another |
| Other C targets | the same with another clock | the same lowering | | wider counters, `delay` of the vendor's library | the same |
| Parser, expression grammar, printer (`parse` 4030, `ExprParser` 3149, `emit_pseudocode` 4745) | the `Program`: declared pins, ports and parts, scripts | a declaration, an expression, a statement, a block; `/decompile` | boards' `resolve_pin`; service, page | each line checks only the lines before it, and the printer reorders them; precedence in two places; block structure by indentation | no two lines drive one pin; what is understood is what is meant; printing and parsing again changes nothing |
| Device helpers (matrix, seven-segment, keypad, 74HC595, lists, tone, PWM) | frame buffers, scan cursors, list lengths | refresh in the tick, verbs in the program | tick | a frame changed while it is scanned; bounds | every column lit in turn; no access outside a list |
| MicroPython back end (`bw_micropython.py` 165-436) | per generator its `yield`, `_deadline`, `_prev` | the same statements, `next()` | clock, pins | the same contract without a `goto`; a script without a yield | the same scheduling contract |
| Arcade back end | none | statement by statement to TypeScript | | | |
| STK500v1 flasher (`flash.js` 75-262) | offset, receive buffer, attempts | sync, set device, load address, program, read back | serial line | lost, late, duplicated answers; noise after reset | "verified" means written; a good board is flashed; it ends |
| STC ISP flasher (`flash.js` 416-610) | packet under way, baud rate | pulse, handshake, switch, erase, write, run | serial line reopened half way | cold start at any moment; nothing is read back | "done" means flashed; the old program survives a refusal |
| EEPROM, STK500v2, USBasp, STM32, SWD flashers (`flash.js` 631-1277) | position in a fixed sequence | erase, write, compare, start | serial, USB, SWD | page arithmetic; another attempt on a half-written board | success means written; a wrong part is untouched; nothing else is changed |
| MicroPython flasher (`flash.js` 284-394) | raw-REPL session, bytes sent | interrupt, raw mode, write by pieces, ask for the size, restart | serial | a program that catches the interrupt; a piece lost or cut short; what an earlier attempt left on the line | "done" means every byte is in its place; no board is restarted with half a program |
| Guard (`app.py` 369-440) | `_rl_hits`, `_rl_inflight` | `_rate_ok`, `_slot_acquire`, `_slot_release` | every build | eviction at 4096 addresses; a build that raises | at most 30 requests a window; the slots in use are counted |
| Staging (`app.py` 443-730, `bundle_xz.py`) | `/tmp/stc-bin`, `/tmp/stc-share`, `/tmp/<chain>` | copy, unpack, stamp, chmod, probe | every build | the process dies anywhere; `/tmp` outlives it and its deployment | what a build uses is complete, and from this bundle |
| Build pipelines (`app.py` 775-2151, `assemble.py`, `riscv_cc.py`, `/compile`, `/assemble`, `/translate-project`) | a work directory | route, refuse, call tools one after another, answer | vendored tools | every call is checked in its own way | refusals are reported; images are whole; optional extras never cost the image; the directory goes |
| Arduino builds (`arduino_build.py`) | object cache, core archive | look, compile in parallel, rename, archive, link | other processes | races for one key; death before the rename | the cache is whole and never changes; links only what is whole |
| Keil translation, disassembler, symbol tables, image formats, debug stages | none | pure functions of text or bytes | service | regular expressions, fixpoints over branch targets, checksums | round trips, offsets |
| Vendored toolchains, tests, scripts | | | | | |

A server process is one `uvicorn` worker (`Dockerfile`, `app.py` 2872 ff.). Its
handlers are `async def` and never await during a build, so requests of **one**
process do not interleave; requests of **several** processes (a redeployment, a
second instance on the same `/tmp`) do, and meet in the staged toolchains and in
the Arduino cache.

## 2. Modules

| Part | Specification | Composed / checked in | Proofs |
| --- | --- | --- | --- |
| clock | `BwClock`, with a caller `BwReader` | `BwWait`, `BwDelay` (both EXTEND `BwReader`) | `BwProofs` |
| wait of a task; `delay_ms` | `BwWait`; `BwDelay` | `MCClock` (EXTENDS both), `MCDevice` | `BwProofs` |
| ESP8266: millisecond clock | `EspClock` | `EspTime`, `EspWave` (both EXTEND it), `MCDevice` | `EspProofs` |
| ESP8266: `delay`, `pulseIn` | `EspTime` | `MCDevice` (EXTENDS it) | `EspProofs` |
| ESP8266: waveforms | `EspWave` | `MCDevice` (EXTENDS it), and itself (`MCWaveRestart.cfg`) | `EspProofs` |
| ESP8266: pin interrupts | `EspPins` | `MCDevice` | `EspProofs` |
| Arduino core: serial port | `SerialSend`, `SerialReceive` | `SerialPort` (EXTENDS both), `MCDevice` (EXTENDS that) | `SerialProofs` |
| the scheduling contract (abstract) | `ScratchContract` | `MCBwScheduler` | |
| lowering to C and to MicroPython | `TaskLowering` (recursive) | `MCBwScheduler` | |
| the program at run time | `BwScheduler` | `MCBwScheduler` | |
| declarations of a program | `Declarations` | `MCPseudocode`, `MCCompile` | `DeclarationsProofs` |
| expressions; statements and scripts as text | `ExpressionText` (recursive); `ProgramText` (EXTENDS it) | `MCPseudocode`, `MCCompile` | |
| flasher of the STC parts | `StcIsp` | `MCFlash` (EXTENDS it) | `FlashProofs` |
| the six flashers that never resend | `PagedFlash` | `MCFlash` (EXTENDS it) | `FlashProofs` |
| the STK500v1 and the MicroPython flasher | `StkFlash`, `ReplFlash` | `MCFlash`, `MCStkFlash` | |
| guard, SDCC stage, other stages | `RateGuard`, `SdccStage`, `BundleStage` | `CompileService` (EXTENDS the three), `MCCompileService` | `CompileServiceProofs` |
| build pipelines | `BuildPipeline` | `MCBuilds` (EXTENDS it), `MCCompile` | `BuildPipelineProofs` |
| Arduino cache | `ArduinoCache` | `MCBuilds` (EXTENDS it), `MCCompile` | `ArduinoCacheProofs` |

**`BwClock`.** One action per thing that can happen to the counter: the timer
overflows (`TimerOverflow`), the interrupt is taken (`TickIsr`, needs `TF0` and
`ET0`), `bw_now` masks the interrupt (`HoldTick`), copies a byte (`CopyByte`, in
either order, since the compiler chooses it), unmasks (`ReleaseTick`), returns
(`Taken`). `Base` is the number of values of a byte, 256 on the chip. `clock`
and `snap` are history: the true count, and the counter at the moment of the mask.

**`BwReader`** is what every caller of `bw_now` that waits has in common. `owed` is
history, the ticks the wait still lacks; `seen` is `owed` at
the last read, so that "early" means *the read the caller decided on was too
early*, and not that the clock ran on while the comparison was made. `lag` counts
the ticks since the last read and is what the assumption on round length is
about. **`BwWait`** adds the task: arm the deadline, check it, yield, be dispatched
again. **`BwDelay`** is the counting loop `delay_ms` of a lone script, which does
its own masked reads and has no deadline at all.

**`EspClock`** is the hardware counter (`Count`), its alarm, which is compared for
equality, and `tick`, which counts a millisecond and moves the alarm on from where it
was. `Hold` and `Release` are another interrupt's routine, or a stretch of the sketch
with interrupts off, of at most `MaxBusy` ticks; steps of the program take no time of
their own, so that time passes at any point the bounds allow. `wholeMs` and `intoMs`
are history: the time since `bw_millis_begin`. **`EspTime`** adds the two calls that
wait by reading a clock, one action per read and comparison (`DelayPolls`; of `pulseIn`
`Looks`, `GivesUp`, `Notes`, `Measures`), with a pin that changes its level at least
`MinLevel` ticks apart and a program that takes its next step within `MaxLag`.
**`EspWave`** adds the table `wave` and the timer FRC1. A call of the sketch is its part
with interrupts off up to `reschedule` (`StartWave`, `StopWave`), and `reschedule` is
three steps between which the counter goes on: the read of the counter (`ReadsCounter`),
the loop over the pins (`MakesEdges`; `CaughtUp` is its inner loop) and the load
(`LoadsTimer`). Interrupts are off for at most `MaxOff` ticks on end: the clock stands
`MaxBusy`, a waveform is late by whatever it is. `phase` is history, how far into its
period a wave is that began with its call. **`EspPins`** runs `attachInterrupt` and
`detachInterrupt` statement by statement, with `pin_interrupt` between any two of them,
its own read, clear and loop apart, routines that detach their own pin, and edges at any
moment.

**`SerialSend`** and **`SerialReceive`** are the two halves of `HardwareSerial`, with every
access of a flag or an index that the interrupt or the port may change as a step of its
own. Sending has the port's two registers (`Moves`, `ByteLeaves`), `write` and `flush`
(`Shortcut` after `Writes`, `LooksTXC` after `LooksUDRIE`) and the interrupt in two steps
(`Hands`, `Marks`), which the sketch also calls itself with interrupts off (`MakesRoom`,
`Polls`). In receiving a byte may arrive between any two statements of `read`, `peek`,
`available` and `end`. A byte is its number. **`SerialPort`** composes them: they share
no index and no flag, and its steps are those of the one or of the other.

**`ScratchContract`** says what a program promises: turns, yields, waits, hats,
`stop`, without state numbers, counters or `goto`. **`TaskLowering`** translates
a program to instruction sequences exactly as `stmts_task` (state numbers, case
labels, static counters) and `stmts_c` (straight-line) print C, and as `_stmts` of
`bw_micropython.py` prints generators and plain functions; every instruction also
carries what the contract has left to do there. **`BwScheduler`** runs the
instructions, with an action per kind of instruction, `Dispatch` (the call, and
the hat's sampling that precedes the switch) and inputs and ticks between any two.
The two kinds of program differ in three things that are visible in the model: what
a task's `state` is (the number of a `case`, or the `yield` a generator stands at),
when a hat looks at its pin (`watchful`: in C at every call, in MicroPython at the
head of its loop only, so not while its body runs), and what becomes of a task that
is over (called again for nothing, or dropped). The contract allows all three.
Variables count modulo `Width` in both, which stands for the C int's wrap and bounds
Python's integers.
`MCBwScheduler!Contract` is the refinement mapping, `ImplementsContract` the
claim.

**`Declarations`** reads the PIN, PORT and PART lines one after another (`Keep`,
`Refuse`, and `Escape` for a board whose `resolve_port` raises what is no error of
the language), goes on to the scripts (`Begin`, with the check of the console
against the tone) and may print the program (`Decompile`: parts, then ports, then
pins) and read it again. A board is a record of what its family asks: the 8051's,
the bare AVR's and the Arduino core's `resolve_pin` differ in *which* of the lines
before they look at, and the operators `PinRefused`, `PortRefused`,
`ShiftedRefused` and `BankRefused` keep those differences.

**`ExpressionText`** is `ExprParser` (`Parse`, `Climb`, `Atom`) and `expr_pseudo`
(`Printed`) on sequences of tokens; a name of each kind stands for all of them.
**`ProgramText`** adds the statements, the table `Verbs` in the order
`matrix_statement` and `simple_statement` try them, matched as their regular
expressions match (`Bindings`, and the shortest first slot, `Lazy`), and the scripts
(`ParseBlock`, `ScriptPrinted`). Its machine is `/decompile` and `/decompile` of its
answer: `Read`, `Emit`, `Read`. What a text *means* (`Meaning`, `WellFormed`,
`Indented`) is defined without the parser: an expression is split at the last of its
loosest operators, a line belongs to the last line before it that is further left.

These three modules were compared with the running code on more than 100,000
inputs (31,192 programs of declarations; 29,804 expression trees written, read,
printed and read again; 20,100 texts without parentheses; 4,501 statements; 15,080
scripts), without a difference.

**`StkFlash`** models both ends of the line and the two queues between them: a
command can be lost, an answer can be late, noise can precede the first answer.
The host is `sync`/`cmd`/`expect` of `flash.js` with their timeouts and retries.
**`StcIsp`** is a packet protocol against a part that is powered off and on, at
two baud rates; the erase counts its sectors in one byte and a write its address in two.
**`PagedFlash`** holds the six flashers that never resend: each is a sequence of
exchanges (`Eeprom`, `Mega`, `Usbasp`, `Stm32`, `Swd`, `Daplink`), with its chunking,
padding and comparison, and any exchange may be refused (`Refused`, which stands for a
serial read's deadline too); a second attempt starts on what the first left. The three
that flash over USB (`Usb`) have no deadline: a transfer that is not answered
(`FallsSilent`) is waited for until the user unplugs the board (`Unplug`). The
`disconnect` in their `finally` may wait in the same way, when the outcome is decided, and
is left out. **`ReplFlash`** is the raw REPL: one action
each for the interrupts, the drain, a block of code, the restart, and one for a
marker skipped or found by `readUntil` (`Skip`, `Found`; `stage` is the block of code
the host is at, `at` the marker it waits for). The board is busy with a program, at
its prompt or in raw mode, and runs a block only when it has arrived with its ctrl-d.
The boards are not in the repository: they
are modelled from the commands the code sends and the simulated boards of
`scripts/test-flash.mjs`, and marked external.

**`RateGuard`** is `_rate_ok` with its eviction and the slot counter.
**`SdccStage`** and **`BundleStage`** go file by file through
`stage_toolchain` and its five siblings; a file is absent, torn, old or new. `/tmp` may
hold an older bundle's stage of any toolchain at the start (`OldStage`). Only SDCC's and
AVR's are recognised as such; the others are taken as they are once the driver is there.
The driver may be one of the packed programs, as Xtensa's is; in the run it is not.
**`CompileService`** composes them: a request passes the guard (or not:
`/download`), stages, compiles and answers; `Crash` may fall between any two
steps and forgets everything but `/tmp`.

**`BuildPipeline`** makes the difference between the chains its data. A call is a
record: what the code looks at afterwards (`looks`: exit code, file, both, a
verdict in the output), what it does on a timeout (`slow`) and when the program
does not start (`gone`), what it answers from when it looked at nothing
(`without`), and whether the call is inside the `try` that removes the work
directory (`owned`). Its actions route the request (`Route`, with DEVICE
overriding the target), refuse what is refused before a tool runs (`Check`), make
a call that ends in any of the five ways, and answer. **`ArduinoCache`** is
`arduino_build.py`'s cache with several requests: look, compile in parallel into a
private directory, mark, rename, lose the race, archive, link; any request may die
anywhere and its process be replaced.

`MCBuilds`, `MCClock`, `MCFlash` and `MCPseudocode` choose one of several machines at the start
and run it alone, `MCDevice` (EXTENDS `MCClock`) and `MCCompile` (EXTENDS `MCPseudocode`
and `MCBuilds`) choose among theirs; the machines of one MC module do not share state,
the choice is only there to ask one question per run. Where a machine's properties are
also proved, the MC module EXTENDS its specification, so that what the run checks is the
very formula of the theorem; it instantiates the others. `MCBuilds` gives
`BuildPipeline` the requests of an endpoint as a definition (`Asked <- MCAsked`), of
which `AskedAssumption` says what the endpoints' own checks leave. A variable of a machine that
was not chosen keeps one value, so that no machine is run twice.

## 3. Runs

| Run | Shows | Bounds, and why they suffice |
| --- | --- | --- |
| `device` | no torn read, no lost tick, no early end, no end later than a round, no short delay; the ESP8266's clock never drifts, its calls last and measure what they say, its waves and pins lose no edge; serial bytes in order, `flush` means sent; every wait, call and service of a pin ends | 8051: `Base` = 4, a byte of 4 and a counter of 16 values wraps many times in a run, and a tick falls between the two bytes of a read at every alignment; waits 0, 1 and 8, the largest that fits the signed comparison; `MaxRound` 6, just under half the counter; delays 0 to 2 with rounds of at most 3 polls. ESP8266: `Turn` 40 and `MsTurn` 4, so that both counters wrap; a millisecond of 10 ticks, interrupts off for at most 2, so that a tick may come late, and with waves 1 (`MaxOff`); delays of 0 and 2 ms; levels of 7 ticks and more, read within 2, a timeout of 10. With `MaxOff` 1 and a least load of 2 an edge may be 4 ticks late. The waves are a PWM pin of 10 ticks, 9 of them high, and beside it a tone of 9 and 9 that lasts a millisecond: the parts of 9 ticks are more than twice as long as an edge may be late by, so that in the second half of each there is one level only that the pin may have and a missed edge shows, a tone stuck at either level and a PWM pin stuck LOW; the part of 1 tick is shorter than the least load, so that two edges of one pin may be due at once. Two pins, each with a routine that stays and one that detaches itself. Serial: rings that hold one byte (sending, where two more are in the registers) and two (receiving), and more numbers than bytes under way |
| `clock_wait_long` *(violation)* | a wait of `Half + 1` is over at its first check | one tick above what the comparison can express |
| `scheduler` | the lowered programs implement the contract, which includes that a hat starts on the edge it sees; every task is served for ever | ten programs, each lowered to C and to MicroPython, that hold every statement in every kind of nesting (a yield in each loop in each branch, nested REPEATs, procedures, hats, lone scripts); variables modulo 3; inputs and ticks at any instruction |
| `scheduler_stop_call` *(violation)* | `stop` in a procedure hangs every script | one two-script program |
| `wave_restart` *(violation)* | `analogWrite` called again and again keeps the pin HIGH | one pin, half of its period high |
| `flash` | "verified" and "done" are true; nothing else is written, on a board that is not this flasher's nothing at all; a refusal leaves the old program; no board is started with half of one; a good board is flashed; every flash ends, over USB unless the board falls silent | STK500: two images in pages of two, three bytes that start like answers (a full and a short page) and four of which the second page is such a start; a good cell or a worn one, three rates of which two are probed, 3 attempts, up to 2 noise bytes, 2 lost commands and late answers. STC: lengths 1, 512 and 513 on either side of the padding, and one that the part has no room for, 3 pulses, one packet lost, one power cycle. The others: 16 cells in pages of 4 and words of 2, images that end inside a page, have a gap, start late or run past the end, worn cells, a wrong part, two attempts. MicroPython: three bytes in pieces of two, a program that one interrupt stops, or two, or none, a prompt, raw mode left open; a full file system; an `os` without `size`; one loss, two attempts |
| `stk_noise` *(violation)* | one noise byte, and a board that answers everything is given up on | no losses, no delay, 5 attempts at one rate |
| `service` | the window, the slot count, complete stages where no death interrupted them (or the older stage of a toolchain without a stamp, as it was), a truthful stamp, an answer for every admitted request | two clients, a window of 2 with 2 requests, a table of one address (so that eviction happens at every second address), one slot, 3 time units; one crash at any step; two bundles, one stamped and one not, with two parts and two files, one of them compressed; every state an older bundle may have left, of either toolchain |
| `service_partial_stage` *(violation)* | a stage whose copying was interrupted is taken for complete | no clock, SDCC only |
| `compile`, its first half | no two accepted lines share a pin or the tone's timer, and a printed program is accepted again; expressions and scripts are read as they are meant; what is printed is read as the same tree, and exactly which trees are not | Four boards (two 8051s, with and without a baud-rate timer, AVR, Arduino core) over five pins in two ports; 23 lines, one or more of every kind and direction on pins that overlap; programs of up to 3 lines, since a clash takes two and the third may come between. Trees: all operators over all operators over leaves, `not`, `-`, `contains`, `pixel` and two binary operators one level deeper beside a name, a `not` or a `contains`, since who encloses whom is decided between a node, its parent and what follows. Texts without parentheses: all of up to 5 tokens out of 6, and all chains of three binary operators out of 8. Statements: every verb, every expression of a set of 16 in each slot, two slots varied together. Scripts: all of up to 4 lines with three indents. |
| and its second | refusals reported, images whole, extras harmless, directories removed; the cache whole and stable with two requests | one refusal and one mishap a request, for each tool of each chain; two Arduino requests over two keys and three objects, which race for both keys and fail or die anywhere |
| `printed_not` *(violation)* | `(not x) = 1` comes back as `not (x = 1)`, or `(l contains x) = y` as `l contains (x = y)` | the inputs of the first half |
| `builds_undefined_global` *(violation)* | `sdld` refuses and the answer is an image | only `sdld` refuses |

Bounds are named: `MaxLines`, `MaxRound`, `MaxNoise`, `MaxLost`, `MaxCycles`, `MaxPulses`,
`MaxRuns`, `Horizon` and `MaxCrashes` cap counters in guards; the others are sizes.
Every property of a passing run has a mutant, a plausible bug in one mapped
definition that makes TLC find the property violated (PROJECT.json `mutants`).
`CHECK_DEADLOCK FALSE` is set for the flashers and for `compile` and `printed_not`,
which really stop: a board is flashed, a program has been read.

The properties are stated with the exceptions the code makes:

- `OneOwner` excepts what no check asks: a PIN's location on AVR and Arduino boards,
  the timer of an Arduino pin with an analog label, a SEVENSEG8's select pins inside
  an earlier PORT, the ports that the banks drive, a print inside an ELSE.
- `ReprintAccepted` excepts a SEVENSEG8 on AVR, whose port is printed as no board
  spells it, and a PORT that is printed behind a SEVENSEG8 whose select pins it has.
- `ParsesBack` is an equivalence: a tree comes back if and only if `Survives` says so.
  `Fragile` and `FragileStatement` describe what does not: a `not` or a `contains`
  on the left of an operator, a compound coordinate of a pixel, an expression with a
  space in a slot for a word, a call whose arguments look enclosed, the variable `y`
  in the x of `arcade place`. `ParsesBackAlways`, without exceptions, is violated.
- `DoneMeansWritten` says of the STK500 also that no page lands at another page's
  address, but for an answer out of step *and* a lost LOAD_ADDRESS: two faults that
  together do write elsewhere. That "verified" means written has no exception for any
  image while answers are in step with their commands. Out of step (noise, or an answer
  after its deadline) a lost command may go unseen and other bytes be taken for the first
  page: an image that begins with 0x10 0x14, which is how one answer ends and the next
  begins, and one of which a later page is the first page again, or its start, may be
  reported verified and not be written (`Mistakable`). Both exceptions are
  real: with `<<ok, insync>>` or `<<a, b, a, b>>` as the image and without the exception
  TLC finds it. For all images of up to four bytes out of four values, in pages of two
  and of four, with one cell worn and three lost commands, there is no other. Of
  MicroPython it allows a byte that the line has exchanged for another: only the size
  is compared.
- `ImageWhole` excepts `objcopy`, `packihx`, `makebin`, `sdas` and `sdld`: the code
  ignores their exit codes, so one that dies with half a file is believed.
- `CleansUp` excepts the two places where the directory stays: a value refused
  after it has been made (`app.py` 2006, 2019) and a compiler that does not start
  (2026; the same in the AVR and ARM chains).

- `CallsKeepTime` allows `delay` to be short by less than a millisecond, as the code is
  (the millisecond under way counts), and measures a pulse to a microsecond and the
  three reads at its ends; a `pulseIn` in which the counter comes round is excepted,
  for its microseconds are a fifth of the counter's and do not wrap with it.
- `WavesKeepTime` allows an edge to be late by what interrupts may be off and the timer's
  least load; a tone with a duration ends at an edge, so up to half a period later.
- `EdgesKept` excepts (`undone`) a pin whose new routine detaches itself before
  `attachInterrupt`, called for an attached pin, is through with it.
- `FlushMeansSent` excepts a `flush` between `begin` and the first `write`, and
  `EveryCallEnds` a `write` that finds the ring full after `begin` was called with bytes
  in it (`Stranded`).

`UninterruptedComplete` and `CheckedComplete` are a pair: the first holds and says what
staging does when nothing kills it, with one exception: the ARM, RISC-V, Xtensa and cc65
stages have no stamp, and what an older bundle left of one is used as it is, without the
files that are new in this bundle (`app.py:611`, `:649`, `:687`, `:714`). The second is what
the comment at `app.py:443` claims of any stage, and is violated.

## 4. Fairness

- **Clock.** Weak fairness of the timer and of the task (`start_scheduler` never
  stops dispatching; the timer never stops), strong fairness of the interrupt: a
  program that polls masks it again and again for a few instructions, and it is
  taken in one of the gaps. `Timely` is an *assumption* and not fairness: a task in
  a wait reads the clock again within `MaxRound` ticks, fewer than half the
  counter. The code cannot enforce it: it holds as long as the other scripts do
  not keep the processor for 32.7 s.
- **ESP8266.** Weak fairness of the counter, of interrupts' ends (a routine of the
  sketch returns; `reschedule` is a bounded loop) and of the program, which has
  nothing to wait for but the counter. `MaxBusy < PerMs` is an assumption: interrupts
  are never off for a millisecond on end. The code cannot enforce it of a sketch.
- **Serial port.** Weak fairness of the port, which empties itself, of an interrupt
  that can be taken, and of the sketch within a call.
- `MCDevice` states each machine's conditions over that machine's own variables; a step
  of the machine chosen leaves the others' alone.
- **Scheduler.** Weak fairness of the processor and of the tick. Inputs may do
  nothing.
- **Flashers.** Weak fairness of the page's event loop, of the transport's pump
  and of the board. A board that is to answer and does not is a lost command, not
  an unfair one; the host's timeouts are steps of the host. Every read of a serial
  port has one (`flash.js:174`), and so an exchange ends. A USB transfer has none (955-959,
  1058-1060): `PagedFairSpec` is fair to the exchanges and not to `Unplug`, so that a
  silent USBasp or debug probe hangs the flash for ever, and `Ends` says of these three
  flashers that they end *or* wait for a board that has fallen silent.
- **Service, builds.** The process, while it lives, goes on with what it has begun:
  subprocesses are run with timeouts (`app.py`, `assemble.py`), copying ends.
  Death is never fair.

## 5. Proofs

TLAPS proves, for every value of the constants that satisfies the modules' assumptions:

**Clock** (`BwProofs`; any even `Base`). `ClockInv` is the type, `NoTickLost` and
`ReadHeldOff`: while a read is under way the interrupt is off, `bw_ms` stands still
and the bytes copied so far are its own. Without it `AtomicRead` is not
inductive: it speaks only of a read that has ended. Theorems
`ClockReadsAtomically`, `ClockCountsEveryOverflow`.

**Waits** (`BwProofs`; waits of at most half the counter, `WaitsFit`; for
promptness also `RoundFits`). `WaitUsesClock` shows every step of a waiting program
is a step of the clock or a stutter, so the clock's invariant comes for free.
`WaitInv` strengthens `NeverEarly` by `DeadlineAhead` (what is owed is exactly how
far the deadline is ahead, modulo the counter) and `SeenAtRead` (the same for the
value the check under way will decide on). `PromptInv` is its mirror: a deadline
that no check has seen passed is at most `lag` behind. The theorems
`WaitsNeverEndEarly` and `WaitsArePrompt` show that the two assumptions are what the
design needs; `clock_wait_long` shows what happens without the first.

**Delay** (`BwProofs`). `Accounted` relates the ticks owed to the rounds left;
`DelaysNeverShort` follows for every delay, with no condition on the length.

**ESP8266 clock and calls** (`EspProofs`; any widths of the two counters, any
`MaxBusy < PerMs`). `ClockKeepsTime` is not inductive: it does not say when the next
interrupt comes. `AlarmAhead` does: with no interrupt pending the alarm is where the
millisecond under way ends, with one pending it is where that began, and `off` and
`held` bound how long ago; it is here that an alarm passed by the counter is shown not
to happen.
`CallsUseClock` shows every step of a call is a step of the clock or a stutter, and
`DelaysInTime` needs one fact of the call, `Passed(d)`: `d` milliseconds have ended since
it began, and at the last poll fewer than were asked for. `CallsAlwaysKeepTime` adds
`pulseIn`. What it returns is the difference of two reads of a counter, and `PulseInv`
says where the pin stood at each: `RisesSince` and `FallsSince`, that an edge is no older
than the reads made since, because a level (`MinLevel`) outlasts three reads and no edge
passes between two of them unseen; `TimedFrom`, that `began` is the rise to within those
reads; and `Asked` the same of the timeout. The one exception is the code's: a call in
which the counter comes round (`turned`).

**ESP8266 waveforms** (`EspProofs`; any pins, duties and tones, under `WaveAssumption`:
no tone's half is longer than half a turn of the counter, no duration than half a turn
of the milliseconds, and `Late`, three stretches with interrupts off and the least load,
is far from either; a stretch takes at least a tick, at most `MaxOff`). `EdgesInTime`
compares a level with `phase`, and says nothing of `next` or of the timer. `WaveInv`
gives each wave a number `d`, how far ahead its next edge is or how long overdue:
`Ahead` ties it to `next`, to `phase` and to the half of the period it ends. What keeps
`d` above `-Late` is known at each step of `reschedule` in another way (`InPlace`): in
the sketch the timer expires by then (`Armed`); from the interrupt on, what the edge may
still be put off is bounded by how long interrupts have been off (`PutOff`); after the
read of the counter (`ReadAgo`) the edges due are made against that value; and what is
loaded is no further than the next edge was then (`Loading`). The one allowance of
`MaxOff` is shared by the time between the read and the load and by that for which a
tone whose time is up went on (`UpSince`), for both are the same stretch. `CatchesUp`
says of the inner loop, which `CaughtUp` gives as a CHOOSE, that it stops, at the first
edge ahead, a whole number of periods from where it was; the rest is arithmetic of
remainders (`SameRemainder`, `ReducedSum`). Theorem `WavesAlwaysKeepTime`.

**ESP8266 pins** (`EspProofs`; any pins and routines). `EdgesKept` says an edge not
yet served is in line for a routine; it is kept by `Guarded` (only the pin in the
hands of `attachInterrupt` or `detachInterrupt` may be enabled without a routine) and
`InStep` (what each statement of the two may rely on). Theorem `PinEdgesKept`.

**Serial port** (`SerialProofs`; a ring of any size). `SentInOrder` compares two
sequences and is not inductive. `Numbered` says the same of each register and each place
of the ring: it holds the number it should, counted from the byte that leaves next, and
`c` is the number after the last. It is kept only with `Ways`, what each of the three
ways into the port relies on between two of its steps: nobody comes into the shortcut,
because the ring is empty and the interrupt disabled; the place `write` has found stays
free; whoever does the interrupt's work finds a byte. `Flags` adds what TXC and UDRIE say
of the port and the ring, with the moments at which they are late, and `FlushMeansSent`
follows. The assumption on `Bytes` is the model's own: more numbers than bytes can be
under way. `RingIs`, `PlacesAre` and `NumbersAre` are the arithmetic of indices that
come round, of which all of this is made. Receiving needs two things (`ReceiveInv`).
`Held`: what waits in the ring, from its tail on, is what has been kept, in its order.
`Calls`: what a call relies on between two of its accesses, whatever arrives there: the
byte that waits longest stays where it is, and no fewer wait than did when the head was
read. `PortIsBoth` shows that `SerialSpec` implies the specification of either half, so
`AlwaysBytesInOrder` needs no argument of its own.

**STC flasher** (`FlashProofs`; images of any lengths, a part of any size, any number
of pulses, packets lost and power cycles). None of its properties is inductive: they
speak of the part, and the host knows of the part what the answers say. `OnePacket` is
what makes an answer mean something: one packet is under way at most, and it is the one
the host is about, for nothing is sent before the answer or its timeout. `NotYetErased`
follows it to the erase (`NothingErasedEarly`, with no condition), `Progress` from
there to the end: an answer on its way back says the command has been carried out, one
that does not come says nothing, so a failed flash has either written the chunk or not.
`AlwaysWritesErased` and `DoneMeansAllThere` ask `Countable`, images of at most
65024 bytes: the erase command has one byte for the sectors, and an image padded to
65536 would ask for none. An STC12 has 61440 bytes at most; nothing refuses the
longer image (`flash.js:564`).

**The flashers that never resend** (`FlashProofs`; any images, any sizes of page, word and
memory that `FlashAssumption` allows, any bad cells, any attempts). One invariant for six
sequences, in four parts, `PagedInv`. `KeepInv` holds of every flash: whoever is past the
identification has the right part (`IdentifiedAt`), the loops stand at multiples of what
they write and inside the image (`PlacedAt`), and a cell that has changed is one the flasher
may change (`KeptIn`); `NothingElseIsWritten` follows. The other properties are of the
image, of which the host knows only how far its loop has come. `WriteProgress`: before
`offset` the memory is the image (`WrittenTo`), and, where flash is erased first, from there
on it is blank (`ErasedFrom`; `PagesErased` while the nRF's pages are being erased). The
second half is what carries the first through a word or a page that is only partly the
image's: a write onto cells that are not blank spoils them, and an attempt starts on
whatever the last one left. `Compared` is the same of the loop that reads back, and holds on
bad cells too, which `WriteProgress` does not (`Unspoilt`). `EndsLast` says that success and
the start of the target come after all of this. `StartedIsWhole` follows with no condition
but the cells', `DoneIsWritten` for parts a USBasp reaches (`WithinReach`: its 16 bits of
word address are 128 KB; beyond, the image wraps onto itself, `flash.js:1003`), and
`GoodBoardsArePaged` (such a board's flash neither fails nor hangs), which also asks that no
erasure outlasts the transport's timeout (`Slow = {FALSE}`; it may on an STM32,
`flash.js:661`). `Remainders`, `NextMultiple`, `UpIs` and the like are the page arithmetic.

**Staging** (`CompileServiceProofs`; any bundle and any older stage that has its driver).
`CopyInv` says what the copying has done with is whole, and that a stage without this stamp
is wiped before use; `StampInv` that the stamp is written last. `StampAlwaysTells` follows
wherever processes have died, and `StampedNeverRaises`: unpacking never meets half a file
there.

**Service** (`CompileServiceProofs`; any number of clients, any window, budget and
toolchain, deaths at any step). Three invariants, each of the whole service. `RequestInv`
ties the slots taken to the place the request is at (`SlotsAlwaysCounted`). `StagingInv`
is `StageInv`, where `stage_toolchain` is and what it has put in place by then,
`CleanBundle`, the same of the bundle, and `AtWork`, which of the two the request is
in; both hold only until a process dies in a stage (`torn`). An older stage without a stamp
has an invariant of its own, `KeptBundle`: it stays what it was. That is what
`UninterruptedAlwaysComplete` says, complete or (`Unrenewed`) an older stage untouched,
and all it can: `service_partial_stage` shows the rest.
`ServiceStampTells` is the staging's theorem carried through requests and deaths.
`WindowInv` says `Budget` of every address: the times in its list that are still in the window
are the requests accepted of it in the window. The table itself says less: it may have
been evicted, and then says nothing of the address, which is right exactly because an
address is only dropped when its last time has left the window (`DropKeeps`).
`WindowAlwaysHolds` follows. The window is cut from a list by counting (`Over`), and the
lemmas `OverComesFirst`, `FreshFrom`, `FreshTimes`, `FreshLater`, `FreshAppend` say what
that leaves of a list in order of time.
Assumptions: `crt0` is among what a newer bundle changes, if it changes anything
(`StageAssumption`), windows and budgets are positive (`GuardAssumption`), and names
differ.

**Pipelines** (`BuildPipelineProofs`; every request the endpoints can be asked, any tools
that refuse). `Heard` is what all calls of all fourteen chains have in common: what is
optional cannot fail the build, and everything else is listened to in one way or another,
but for five tools. `Proper` adds that the first call of a chain cannot be passed over; that
every chain is proper is shown chain by chain. `PipeInv` then keeps the directory
(`AlwaysCleansUp`) and the extras (`ExtrasNeverCost`). `HearInv` adds what there is of an
image between two calls (`ImageSoFar`). It needs an assumption on the tools: `packihx`,
`makebin` and `sdld`, which are called without a look at their exit codes, refuse nothing.
Under it `RefusalsAlwaysReported` and `ImagesAreWhole` hold of all the other tools;
`builds_undefined_global` shows that of `sdld` it is not true.

**Declarations** (`DeclarationsProofs`; any boards, any set of lines, programs of any
length). `OneOwner` speaks of accepted programs only and of pairs in their order; the
inductive `Kept` says the same of every prefix that has been kept (pins apart, the
timer apart), `ConsoleApart` what `Begin` has decided. `PinsApart` and `TimersApart`
show that a line that is not refused has nothing in common with any line before it,
whatever kind the two are of; since both ways of ordering two lines are lines that
come one after the other, the printed program needs no argument of its own. Theorem
`DeclarationsHaveOneOwner`.

`ReprintsAreAccepted` does need the printed program. That is three selections of the one
read, parts, ports and pins, and what a selection holds, and in which order, is shown by
induction on the length of what has been selected from (`Select`, by a least length that
fails). A line is refused of a set of lines only if it is refused of one of them, so it is
enough to compare two: those printed in the order in which they were read ask what they
asked before; those that have changed places (`SwappedIsAccepted`) find that the one
printed last has already been looked for by the other, but for the two exceptions.
`ReprintInv` says so of each line still to be read. A PIN has its location
(`DeclarationAssumption`).

**Arduino cache** (`ArduinoCacheProofs`; any number of requests, keys, objects and
sketches). `CacheInv` adds to `CacheWhole` that a directory is marked as soon as it
exists, that an archive is never half made in place, and, per request, what its private
directory and its list of objects hold at each of its steps. Theorems `CacheTypeOK`,
`CacheAlwaysWhole`, `AlwaysLinksWhole`, `CacheAlwaysStays` (an action property).

Only model-checked:

- every liveness property: TLAPS has no ENABLED (`EveryCallEnds`, `Ends`, the service's
  and the scheduler's);
- the refinement of the scheduler, whose lowering is recursive over programs, and the
  text round trip (`ParsesBack`, `ReadsAsMeant`): `TaskLowering`, `ExpressionText` and
  `ProgramText` declare RECURSIVE operators, so no module with a theorem reaches them.
  Induction over numbers is no obstacle (a least member that fails, as in
  `ReprintsAreAccepted`); the library's induction theorems, which take an operator, are;
- the flashers `StkFlash` and `ReplFlash`, so also `DoneMeansWritten` and
  `GoodBoardIsFlashed` of `MCFlash`, of which two parts in four and one in three are
  theorems: within reach, and next in the plan.

## 6. Where the code and its documentation part

Shown by a run (PROJECT.json `findings`): waits over 32.7 s on the 8051
(`clock_wait_long`), `stop` in a procedure (`scheduler_stop_call`), noise before the
bootloader (`stk_noise`), interrupted SDCC stages (`service_partial_stage`), undefined
globals in assembly (`builds_undefined_global`), a printed `not` or `contains` (`printed_not`),
`analogWrite` in a short loop (`wave_restart`).

Observed while modelling, without a run:

- ESP8266: a routine that keeps interrupts off for more than a millisecond lets the
  counter pass the alarm (`runtime.c:37`), and the clock stands still for a turn of the
  counter, 14 minutes. `delay(n)` may be up to a millisecond short. A `pulseIn` across
  the counter's wrap gives 0 at once or a length no pulse had, since its microseconds
  jump from 858,993,459 to 0 (`arduino.c:50`, `:100`). A tone with a duration ends at
  the edge after it, and one whose half period is shorter than its interrupt takes
  leaves the sketch no time.
  `attachInterrupt` for a pin that is attached may call the new routine for an old
  edge; if that detaches itself, the pin is left enabled without a routine (72-79).
- Serial port: `begin` called again while bytes wait in the ring disables the
  interrupt that would send them (`HardwareSerial.cpp:149`), until the next `write`;
  if the ring is full, that `write` waits for ever (255). `write` is not to be called
  from an interrupt while the sketch is in `write`: two bytes share a place (268).
- More programs that /decompile changes or that its own answer makes unreadable:
  `pixel 1 2 is off = 1` and `(l contains 3) and y` come back with another meaning;
  `pixel (a + 1) 2 is on`, `light pixel a+1 2`, `draw row a+1 = 3`, `f ((a+1)*(b+1))`
  and `arcade place hero x (x + y) y 5` print texts that are refused. `wait Delay ms`
  lower-cases its variable, `wait ticks` is read as `wait tick seconds`, and a bare
  `or` or `and` is accepted as a variable.
- `uses_uart` looks for an ELSE under `otherwise` and the field is `orelse`
  (`stc_pseudocode.py` 3077-3089): a program that prints only in an ELSE calls
  `bw_print` without defining it, and its clash with a TONE over Timer 1 is not refused.
- Only the 8051 boards ask whether two PINs have one location; AVR and Arduino accept
  it, and a PIN inside an earlier PORT or PART. An Arduino pin with an analog label is
  asked about no PWM, tone or timer (2133-2150). The ports of a SEVENSEG8's segments
  and of a LEDBANK8 are claimed by nobody. SEVENSEG8 and LEDBANK8 on Arduino,
  micro:bit and Pico end in a NotImplementedError (1010), SEVENSEG8 on AVR prints
  `SEGMENTS PB`, which is refused.
- An image padded to 64 KB asks an STC part to erase 0 sectors: 256 of them do not fit
  the byte (`flash.js:567`), and the writes that follow are not refused.
- An STC15 or STC89 is sent three packets in STC12 before it is refused by name
  (`flash.js` 558), against the comment at 420.
- `makebin` refuses an image over 32 KB; `build` looks at neither its exit code nor the
  file and opens what is not there, `build_z80` answers with an empty image
  (`app.py` 2053).
- A decimal below 0.0001 is printed with an exponent, which is refused when it is read
  again; a number is one token in `ExpressionText`, so `ParsesBack` does not see it.
- `wait 0` is called a deliberate yield (`stc_pseudocode.py` 4936) and does not yield.
- A FOREVER inside a procedure never yields, whatever the docstring at 5206 says.
- `stop` in a hat's body costs one turn in which an edge is lost (5384).
- REPEAT evaluates its count once in a task (5302) and at every iteration in
  straight-line code (5307); a negative count is a large unsigned one in a task.
- MicroPython: a `wait until` of a lone script on a Pico calls `sleep(1)`, which only
  the micro:bit has (`bw_micropython.py` 390, the imports at 808-817): a NameError
  unless the condition holds at once. Whether a script needs a `yield` of its own is
  decided by the word "yield" in its text (309), so a lone `print "yield"` makes a
  function that is no generator. `stop` is `return`: in a procedure the script goes
  on after the call, and a hat that stops never fires again, where in C the one hangs
  and the other fires again.
- The 503 of `_slot_acquire` cannot happen in one process: handlers do not await.
- `stage_avr` writes its stamp before it sets the executable bits (584-591): a death
  between them leaves a stamped stage that does not run, for good. The ARM, RISC-V,
  Xtensa and cc65 stages have no stamp: a partial or an old one stays, and every compile
  uses it (`Unrenewed`).
- `_EXEC_PROBE` caches a failure for the life of the process.
- The Arduino key holds the compiler's path and not its version (632-636).
- `flashUsbasp` and `CmsisDap` await USB transfers without a deadline (955-959, 1058-1060):
  a board that falls silent hangs the flash until it is unplugged.
- `flashStm32` passes a 30 s erase timeout that its transport does not read (661, 635);
  USBasp addresses wrap over 128 KB (1003); the DAPLink flasher drops UICR records;
  `flashMicroPython` compares only the size, so that a byte taken for another on the way
  passes for written (`DoneMeansWritten` excepts it). It asks `os.size`, which
  `ReplFlash` lets a board lack: on such a board main.py is written whole, every flash
  is reported failed, and nothing restarts the board (379-383), although "one function
  serves both" (274).
- `packihx`, `objcopy`, `sdas`, `sdld`, `makebin` are called without a look at their exit
  codes; a Keil source that needs no change is given to any compiler.

## 7. Not modelled, and the plan

Done: clock, waits, the ESP8266's clock, calls, waves and pin interrupts, the Arduino
core's serial port, scheduler, C and MicroPython lowerings, declarations, expressions,
statements and blocks with their printer, the nine flashers, guard, staging, pipelines,
Arduino cache.

Next, in this order:

1. **The rest of a program's text**: TABLE and LIST lines, DEFINE and WHEN headers and
   the checks of the names a verb uses.
2. **Display and keypad**: the matrix, seven-segment and LED-bank scans added to the
   tick of `BwClock`, with a program that changes the frame; the keypad's debouncing.
3. **Staging and cache together**: a compiler replaced under the Arduino cache.
4. **Image formats**: `parseIntelHex`, UF2 and the ESP8266 image as operators against
   a reference on small images.
5. **Proofs**: `ReplFlash` and `StkFlash`, whose lines are queues and need an
   invariant like `OnePacket`; `CacheInv` under a replaced compiler.
6. **More of the Arduino core**: `tone`, `Wire` and `millis` of the AVR, which share
   their interrupts with the sketch as the serial port does.

Left out for good: the rest of the vendored code (compilers, headers, libraries, boards'
ROMs), most of the repository by size and none of it written for it; the page's forms,
the Arcade back end (statement by statement, no state), Keil translation, the
disassembler and the log parsers (regular expressions over text; nothing happens
between their steps).
