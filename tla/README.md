# TLA+ models of CE4303-Proyecto1

The repository decrypts an image with RSA and filters it with a Laplacian, on a
Cyclone V board with two processors: a Nios II soft core (`soft_core_cpu/`) that
decrypts and filters the first part of the image, and the ARM Cortex of the HPS
(`hard_core_cpu/`) that loads the image and filters the rest. `filtro/` is a
program for a PC, `verificar_filtro`, that emulates both processors with threads.
Under both programs lies code the repository brings along: the HAL of the Nios and
its drivers (`Proyecto1_bsp/`), and the sequencer that calibrates the SDRAM when the
HPS boots (`hps_isw_handoff/`). The modules of this directory model these programs
and the parts of that code that keep state of their own. TLC checks them on small
instances and TLAPS proves the main results for every value of the constants.

## 1. Inventory

| Part | State | Operations | Interacts with |
|---|---|---|---|
| `verificar_filtro` (`filtro/src/{main,process,memory,timer}.c`) | shared header (counts, done flags), decrypted and filtered sectors, two static counters, three threads | start timers, decrypt loop, two handlers, busy wait, save, free | threads over one memory, no lock |
| Laplacian filter (`filtro/src/filter.c`) | a static window `pixels[9]` | `filter_pixel`, `apply_filter` | called by both handlers |
| Command line (`filtro/src/parse.c`) | percentages | `parse_opt` | sets `filter_hps_start` |
| Handshake (`Proyecto1/main.c:217-231`, `hard_core_cpu/src/main.c:46-79`) | the register PIO_7SEG | publish, poll, map, acknowledge | the two processors, through one register |
| HPS loader (`hard_core_cpu/src/main.c:81-121`) | `shared_data`, `count` | open, read numbers, discard text | input file, `shared_data` |
| Nios firmware (`Proyecto1/main.c:231-251` and handlers) | key `d`, `n`, `current_7_seg`, `has_started`, `decrypt_px_count`, `width * height` | `main`, `btn_isr`, `sw_isr`, `timer1_100us_isr` | PIOs, timer, `shared_data` |
| `mod_exp` (`Proyecto1/main.c:59-75`) | locals | one call | called by `decrypt_px`, `decrypt_wh` |
| Dead code (`timer0_1ms_isr`; everything after line 121 of the HPS `main`, `proceso_periodico`) | | | never reached |
| System clock (`alt_tick.c`, `alt_alarm_start.c`, `alt_settod.c`, `alt_gettod.c`, `alt_llist.h`) | tick counter, list of alarms, time of day | `alt_tick`, `alt_alarm_start`, `alt_alarm_stop`, `settimeofday`, `gettimeofday` | timer interrupt; the timeout of the JTAG UART |
| JTAG UART driver (`altera_avalon_jtag_uart_{init,read,write,ioctl,fd}.c`) | two ring buffers, interrupt enables, `host_inactive` | `read`, `write`, `close`, interrupt routine, timeout alarm | host through the FIFOs; standard streams of the firmware |
| Descriptor table (`alt_open.c`, `alt_close.c`, `alt_get_fd.c`, `alt_fd_lock.c`, ...) | `alt_fd_list`, `alt_max_fd` | `open`, `close`, `ioctl`, `fcntl`, redirection | devices of the HAL |
| SDRAM calibration (`sequencer.c`) | delay chains of the PHY, `gbl_t`, register file | `mem_calibrate` and the searches it calls | preloader; PHY and memory of the board |
| Rest of the BSP, FPGA platform | vendor or generated | | environment |

What is hard, and what makes each part correct:

* **Threads without locks.** The emulator's threads share counters and flags. The
  saved image has to be complete, no pixel may be filtered twice or before it is
  decrypted, memory must not be freed while a handler may use it, and the last
  rows must not wait for ever.
* **One static window.** Both threads fill `pixels[9]`.
* **A handshake through a display register**, between programs that start, end
  and are started again independently.
* **Interrupts.** Presses, switch edges and timer interrupts arrive between any
  two steps; handlers read and clear edge registers in some order.
* **Integers.** 32-bit products before the reduction, a modulus 0, divisions by a
  count that may be 0, unsigned indices at the border of the image.
* **Order between processors.** The size is decrypted before a key is entered; the
  flag the Nios waits for is set after a `return`.

* **Ring buffers without critical sections.** `read` and `write` of the JTAG UART
  share indices and interrupt enables with an interrupt routine that may run
  between any two of their accesses, and wait for a host that may be gone.
* **Words that wrap.** The alarms of the HAL compare ticks modulo 2^32, and
  `alt_tick` takes alarms out of the list it is walking.
* **Long sequences of legal calls.** Two scans over the descriptor table, with
  different bounds, have to keep an exclusive lock exclusive together.
* **A search with retries.** The calibration moves several chains, carries between
  them, and restarts from where a failed try left off. What it publishes is all
  the preloader learns.

`PROJECT.json` lists each hazard at its line, with the properties that cover it.

## 2. Modules

| Module | What it is |
|---|---|
| `FilterPixel` | the indices `filter_pixel` reads, the nine branches as one tuple, and what it returns: the weighted sum in quarters, rounded, as a byte where it is one (any byte where the conversion is undefined in C) |
| `ApplyFilter`, `PixelProofs` | one call of `apply_filter` over any image and batch |
| `MCParts` | the parts that share no state with any other (`ModExp`, `ApplyFilter`, `FileTable`, `SystemClock`) for one run of TLC: `part` chooses which of them runs, the others rest |
| `ImageJob` | abstract specification: decrypt in order, filter each pixel once, save |
| `Filtro`, `MCFiltro`, `FiltroProofs` | `verificar_filtro`, one action per access to shared fields; implements `ImageJob` |
| `FiltroStatic`, `MCFiltroStatic`, `FiltroProofs` | `Filtro` with the loads and the sum of `filter_pixel` through the static window |
| `Boot`, `BootProofs` | both sides of the handshake, and the HPS program on to its return |
| `ModExp`, `PixelProofs` | `mod_exp`, an action per iteration, with wrapping words |
| `Firmware`, `FirmwareProofs` | the Nios after the handshake: `main`, three handlers, and the panel |
| `AlarmClock` | abstract specification of the alarms: ticks left, counted down |
| `SystemClock`, `HalProofs` | the tick counter, the linked list of alarms and the time of day; implements `AlarmClock` |
| `ByteStream` | abstract specification of one direction of the JTAG UART: a bounded queue of numbered bytes |
| `JtagUart`, `JtagUartProofs` | the driver, its interrupt routine and the host; implements `ByteStream` twice |
| `FileTable`, `HalProofs` | descriptors, devices and the exclusive lock |
| `DdrPhy` | delay chains, tests and globals of the calibration, and the board it has to discover |
| `DqsEnable`, `ReadDeskew`, `WriteDeskew` | its three searches: read gate, read side, write side and mask |
| `Sequencer`, `MCSequencer`, `SequencerProofs`, `GateProofs` | composition of the three: `sdram_calibration` from start to hand-off, and the boards it is checked on |
| `RwDelay`, `SequencerProofs` | how long `delay_for_n_mem_clocks` waits; proved, and in no run |

In all of them variables and actions keep the names of the code where they have
one. Definitions whose comment begins with "Mutant of" are altered copies of an
action, each with a bug somebody could write; a property that still held with it
would say nothing. No specification refers to them.

### Filtro

`pc[t]` says where each of the threads `main`, `nios`, `cortex` is. `NiosTick`,
`NiosReport`, `CortexTick`, `CortexCount`, `CortexDecide` and `CortexReport` are
the handlers cut at their accesses to fields another thread writes:
`decrypt_px_count` is read twice by the Cortex and once by the Nios, and
`decrypt_done` after it. `FilterNextPixel` is a turn of the loop of
`apply_filter`. A pixel of the filtered sector holds the name of the processor
that stored it. `StartTimerFails` is the failure of `pthread_create`, and
`NiosDivideFault` the division by `filter_hps_start = 0`, which either kills the
process or does not.

The model interleaves the accesses: each is to an aligned word or a bool,
performed as written. That is what the makefile's build does (no optimisation
option is given, so every access to the header is an access to memory) on
processors that keep the order of stores and of loads, such as x86. The C program
has data races, and another build or processor may do more than is modelled.
`image_w`, `image_h` and `filter_hps_start` are written before any thread starts.
The image is given by its size; the split is every value from 0 to the number of
pixels (`HpsStarts`), which covers every percentage `parse_opt` accepts.

### FiltroStatic

Each entry loaded into `pixels[9]` is a step (`LoadEntry`), each term of the sum
another (`AddEntry`). A value is represented by the nine indices it was summed
over, so a window torn by the other thread can be told from the right one.

### Boot

The register holds one of four kinds of content (zero, banner, the offset, digits
of the display) with or without the bits of the mask 0x420. The user may start the
HPS program at any moment, since nothing in it waits for the Nios; `early` remembers
that the present run was started before the offset was published. The
HPS program may be killed at any point (`HpsKilled`), fail (`HpsFails`,
`HpsOpenFails`), and be started again, `MaxRuns` times; `hps` is where it is.
Offset and mask are taken to be disjoint, as for an address aligned to 4 KB.

What the comment of the Nios says of its wait (`ConfirmedByReader`) does not hold: a
run started early maps what the register held after reset, and its second read
acknowledges the offset (`boot_early`). What does hold is stated of the runs started
after the publication, over every behaviour, also those in which early runs come first
and leave something behind: `WaitNotDisturbed` and `HandshakeCompletes`.

After its acknowledgement the program reads a file, a sequence of numbers and
text. `ReadNumber` stores where `count` says; `count` has no assignment in the
code, so it stays 0. How much of a line `fgets` discards is left open. What the
program writes reaches `image` when it has mapped the published offset; started
after the handshake it maps the page the display shows, and writes other memory
of the Nios, which is outside the model. The statements after the `return` of
line 121 are unreachable and have no action.

### ModExp

`Half` is half the word in bits (2^16 in the code), and products are taken modulo
`Half * Half`. The Nios has no divider and the remainder by 0 of the library does
not trap: what it returns is any member of `ByZero`.

### Firmware

`main` is cut where an interrupt makes a difference: setup of the edge registers,
`decrypt_wh`, the registrations. `isr` is the running handler; handlers do not
nest and the lowest interrupt number goes first, as in `alt_irq_handler`.
`btn_isr` has three steps (read the edges, clear them, act), `sw_isr` two (clear,
read and show), the timer handler two (body, clear of the status). Presses,
switches, the timer and the HPS move in between. Reads that lie between these
steps are merged into the step that uses them: what they read either cannot
change back (`image_copy_done`) or is read last (the switches).
`decrypt_wh` yields total 1 for `d = 0`, the value `OneForExponentZero` of
`PixelProofs` proves; for other keys the total is left open. A pixel is represented by the key
it was decrypted with. `CopyDone` is the statement of line 124 of the HPS program,
which lies after its `return` and is not reached (a finding of `boot_copy`); here it may
happen, so that what the handlers do with a copied image is checked.

### SystemClock

`alt_tick` runs at interrupt level and is cut at each alarm it visits (`Tick`, then
`Visit`), because a callback may end the alarm that is being visited. The foreground
(`Start`, `Stop`, `SetTimeOfDay`) disables interrupts or makes a single access, and
so never runs in between. The links `next` and `previous` are assigned as the macros
of `alt_llist.h` do, and a stopped alarm is left linked to itself. `W` is the number
of values of a word; `rollover` says, as in the code, that the due time lies beyond
the next wrap. `registered`, `seen` and `set` are history. A delay of `W - 1` ticks is
left out by an assumption: its due time `nticks + 1` falls together with the present.
Callbacks return a period and call nothing of the clock: one that stopped the next
alarm would leave the saved pointer on an unlinked node, for ever.

### JtagUart

Every access of `read` and `write` to what they share with the interrupt routine is a
step: look at the indices, copy, publish the index, switch the enable on, spin. The
interrupt routine is a sequence of steps too, but the foreground stands still while it
runs and it is not nested. The host fills, empties or ignores the FIFOs (`HostScan`);
the alarm counts the times it did not look (`HostCheck`). The BSP is compiled without
optimisation and for one thread, so accesses happen as written. The timers are
initialised before the JTAG UART (`alt_sys_init.c`), so the alarm starts and the
branch that gives up the timeout (`timeout = INT_MAX`) is not taken. Bytes are
numbers in the order in which they are sent.

### FileTable

The program has one thread, so a call is a step (`TableNext`; `HalProofs` extends this
module and `SystemClock`, whose `Next` has the plain name). `open` takes the first free
descriptor before it learns that the device is locked, and gives it back (`OpenLocked`);
`alt_max_fd` only grows. `alt_fd_lock` leaves that highest descriptor out of its scan, so
the lock is not what its comment promises (`LockIsExclusive`, violated in `lock_shared`);
two different scans nevertheless keep the holders of a device to one. `boot` is the stream `alt_io_redirect` is at. What callers do
wrong is left out: they use descriptors that were returned to them and not closed.

### Sequencer

The board is a constant of the behaviour and what calibration has to find out: when
the gate may open and for how long, with which differences of delay each bit and the
mask are captured, with which output delays patterns reach the memory, its latency
and the one declared for it. `phy` holds the settings written to the chains; a read or write test is the
set of bits the board captures with them (`ReadBits`, `WriteBits`). Each setting that
is tried is a step. `DqsEnable` counts gate times in picoseconds: FIFO place, phase and
tap are the digits of one number, and `Push` and `Pull` carry. The procedures keep
their locals in `en`, `rd`, `wr` and `vf`, and return to a step of `Sequencer`; the
`VFIFO` procedure tries further strobe delays and then further output delays.

The memory has a state in `phy.mem`: reset, initialised with its banks closed, rows open
for the tests, handed over to its user. Tests and patterns work with open rows only, so
that `ReleaseMemory` and `HandOff` have an order to keep. The latency starts at the one
the board declares plus a margin, clamped to the register (`InitialLatency`). The margin
added at the end of the latency search is not clamped: `RlatRegister` is what the 5 bits
of the register keep of the sum, and a board that needs the greatest latency is left with
one near 0 (`latency_wraps`). Where a property is about the latency, `LatencyFits` names
the other boards; nothing is assumed of the boards' latencies.

The configuration is that of `sequencer_defines.h`: DDR3, one group, one rank, hard
PHY, `ENABLE_ASSERT` 0, no second output chain (`OutDelayMax` 0), no output phase. What
it shows about the code without being a property: each retry starts at the strobe
delay the one before it left (`sequencer.c:5849`) and so tries fewer and fewer; the
search never tries phase 0; when the first phase in the window is 1, the step back of
lines 4308-4323 does not restore the phase exactly; an error of a deskew is
recorded with the index of a data bit where other errors have that of the group, which
an assertion the configuration leaves out would catch (line 593).

## 3. Runs

| Run | Shows |
|---|---|
| `filtro` | for 2 x 4 pixels and all nine splits: saved image complete, no use after free, batches in their half, `ImageJob` implemented (in particular each pixel filtered once, after its decryption); a pixel more than two rows behind is filtered even if `main` stops; the program ends if `main` runs too |
| `static_window` | 2 x 1: the window is right when one processor has the whole image; otherwise an entry may come from the other half, at the same position |
| `static_race` (violation) | the window of a pixel mixed with another's |
| `boot` | three starts of the HPS program at any moments, files up to three tokens: a run started after the publication never disturbs the wait, and the handshake completes after its acknowledgement, whatever early runs left; the loader ends |
| `boot_early` (violation) | a run started before the publication confirms an address it has not mapped |
| `boot_copy` (violation) | height and pixels of the file are not copied, `image_copy_done` is not set |
| `firmware` | three presses: one key, at most one act per press, display follows the falling switch, the timer stops at the total; presses are served although the timer is always pending; automatic mode reaches the total |
| `parts` | `mod_exp`: the power is computed, without overflow, for moduli up to half the word, and the loop ends. `apply_filter`, images up to 4 x 3, all batches: borders extended; away from them the nine-point Laplace operator, exact on quadratic images; 0 for a flat image. Descriptors, seven and two devices: a device has one exclusive holder, no descriptor is leaked. Clock, three alarms over a counter of four ticks: each callback at its tick, neither early, late, twice nor forgotten; the list stays whole; the time of day is the time set plus the ticks since |
| `jtag_uart` | four bytes out, three in, buffers of three cells: both directions are lossless bounded queues; writes, closes and reads with data return; what is written reaches a host that goes on scanning |
| `lock_shared` (violation) | a lock granted although the highest descriptor references the device |
| `sequencer` | boards that differ in gate, windows, mask and latency: what is published is true, phases and taps stay in range, the gate is centred, every deskew that passes leaves each bit in the middle of what it reaches of its window, figures of merit are earned, the latency is least plus one where that sum fits the register, calibration ends |
| `latency_wraps` (violation) | SUCCESS with a latency below the one the board needs, on a board that needs the greatest |

The four parts of `parts` share no variable. Checking them in one run changes nothing of
what each does: every behaviour runs one of them from all its initial states, with its own
next-state relation and its own fairness.

A run states properties that take several steps to violate. Type invariants and the
facts that support the others are not runs of their own where they are proved:
`TypeOK` of every module with a proof, `FilteredWereDecrypted` and `FilteredOnce` of
`Filtro`, `LateRunsSeeOffset` and `LastNumberIsWidth` of `Boot`,
`DecryptsCopiedImage` and `QuietUntilStarted` of `Firmware`, `ZeroExponent` of `ModExp`,
`SharesOnlyWithHighest` of the descriptor table (in `HalProofs`).

**Bounds.** The images have more than two rows on one side of the split, so that
both clauses of the batch rule (more than two rows, or up to the end) occur, and
several batches per handler. The window race needs one pixel per side. Files of
three tokens have a width, a height and a pixel; three starts allow a run that is
killed or started too early, one that completes the handshake and one after it. The
coefficients of the images of `IsLaplaceOperator` are -2, 0 and 3 in the run and any
integers in the theorem. A word of 6 bits has
moduli on both sides of half its bits and exponents of up to four bits. Three
presses allow a digit, a start and a step, or one that races with the others; two
digits let SHIFT wrap; the timer is bounded by `MaxCount` pixels, one more than
the image. Bounds are in guards of the environment only.

With `W = 4` every alarm lives across a wrap of the counter; delays 0 and 2 are the
ends of what `DelayAssumption` allows, and period 3 is the longest; three alarms make
a list with a first, an inner and a last entry. The rings of the JTAG UART hold two
bytes and its FIFOs one, so four bytes out and three in fill both and wrap the
indices; a write of four bytes has to wait. The timeout of two lets a call wait, see
the host come back, and give up. Seven descriptors leave four above the standard
streams: two on one device, one on the other and one free. The chains of the
calibration have six taps, the phase four values and the FIFO four places, with taps
per phase that do not divide evenly (5 / 2), as in the hardware (416 / 25). The boards
(`MCBoards`) vary one side at a time around one that calibrates: all positions of the
gate in the FIFO with lengths from nothing to most of the FIFO, windows of a bit and
the mask at, across and beyond both ends of the chains, and every latency from 0 to
one more than the register holds (7 in the run, 31 in the code), declared too low, right,
or so high that the margin does not fit the register.

**Fairness.** `Filtro`: the two timer threads are scheduled and `nanosleep`
returns (weak fairness per thread). `main` gets no fairness in the specification;
`Terminates` assumes it (`MainFairness`), `PipelineProgress` does without.
`Boot`: both processors run; the user need not start anything. `Firmware`: the
processor runs and the timer expires when it is on; neither the user nor the HPS
need do anything. `AutomaticDecrypts` assumes that the switches come to rest,
START was pressed and the image was copied. `SystemClock`: `alt_tick` goes on to the
next alarm; no tick has to come. `JtagUart`: the processor runs the interrupt routine
and the call (`Isr`, `CallStep`), and the alarm counts (`HostCheck`); the host need not
do anything, and `BytesReachHost` assumes one that goes on scanning. `Sequencer`: the
processor runs; the weak fairness of `Next` is written out with the fact that every
state but the last has a next one, as TLC would evaluate `ENABLED` of the tests again
and again. `FileTable` has no liveness property and no fairness. `parts` has the fairness of
`ModExp` and `SystemClock` (`ModExpStep`, `VisitStep`). Deadlock is not checked where the
program may stop: after `main` of the HPS returns, and when the bytes of `JtagUart` are
used up. In `parts` it is: a call of `mod_exp` or `apply_filter` that has returned
stutters (`Returned`).

## 4. Proofs

All are checked by TLAPS for every value of the constants that satisfies the
named assumptions (image sizes are positive, the split lies inside the image, a
word has at least four values, bounds are naturals).

* **Filtro.** `SavedImageComplete` and the rest are not inductive. `IInv` adds that
  the cursors `i["nios"]` and `i["cortex"]` split each half into stored and
  unstored pixels (`CursorsSplitImage`); where the cursors stand relative to the
  handlers' counters at each place (`NiosCursor`, `CortexCursor`); that a flag is
  the last thing its thread writes (`FlagsAreFinal`); what `main` may conclude
  from the flags (`MainFollowsFlags`). From it: `OnlyDecryptedFiltered`,
  `BatchesInsideHalves`, `FreedAfterLastUse`, `SavedComplete`, the action property
  `NoPixelTwice`, and `FiltroImplementsJob`, the refinement of `ImageJob`.
* **FiltroStatic.** `StaticRefinesFiltro`: with the static window the threads do nothing
  `Filtro` does not, so that every theorem above holds with the race. `RaceIsBounded`
  bounds the race itself: `SInv` adds to `IInv` that an entry once loaded, and then
  once summed, comes from the right pixel or from one in the other half at the same
  position of its window (`LoadedEntries`, `SummedEntries`, both over `TornEntry`),
  which the other thread may overwrite at any time but cannot break, as its cursor
  stays in its half. `OneProcessorIsExact` follows: one of the halves is empty.
* **ApplyFilter.** `ReadsStayInside` (of `ReadsInsideImage`, proved and in no run) and `BorderIsExtended`, from lemmas on
  division: the coordinates of an index, and that a clamped coordinate is in the
  image. For every width and height, with unsigned indices never below 0.
  `FilterIsLaplaceOperator` expands the weighted sum of a window on a quadratic whose
  coefficients are in `Coefficients`, of which only `Coefficients \subseteq Int` is
  assumed, so that `Int` itself is covered; every term but the second derivatives cancels.
  Where the Laplacian is no byte the conversion is undefined in C and nothing is stated.
* **Boot.** `NoDisturbance`, `WidthIsLast`, `BootTypeCorrect`, for starts at any moment.
  The strengthening is that while the Nios waits the register holds the offset unless the
  mask is in it, whoever wrote it: a run started after the publication finds the offset or
  a value `mmap` refuses, and what it reads again is the offset with or without the mask
  (`LateRunsSeeOffset`); and that what the loader has still to read
  is a suffix of its file, whose predecessor is the width (`ReadSoFarIsWidth`).
* **Firmware.** `KeyIsFixed`, `OnlyCopiedImage`, `PressesCountOnce`,
  `DisplayFollowsSwitch`, `TimerStops`, `QuietBeforeStart`. `OneKey` needs that nothing is decrypted
  before START (`QuietUntilStarted`); `AtMostOncePerPress` that what was read is
  still in the edge register until it is cleared (`EdgesKeptUntilCleared`) and
  the cardinality facts of the library.
* **ModExp.** `NoOverflowBelowHalf`: base and result are below the modulus (or the
  result is still 1), so a product is below the square of half the word.
  `PowerIsComputed`, under the same bound on the modulus: at each turn of the loop the
  result times the power still to be taken is the power asked for (`PowerLeft`). The laws
  of powers this needs are proved by contradiction from a least exponent that breaks
  them, as the set of those is well founded; the induction theorems of the library
  cannot be instantiated here.
  `OneForExponentZero`: with exponent 0 the loop is not entered, so neither the
  modulus nor the remainder by 0 matters.
* **SystemClock.** `ListCorrect`, `TimeKept` and `Implementation`. The links alone are
  not inductive while `alt_tick` removes entries under its own walk: `IInv` adds that
  from where it stands it still reaches every alarm it has not passed (`InTheList`),
  that alarms out of the list link to themselves (`SelfLinked`), and that every alarm
  is due within a word (`DueInRange`), with no flag of the last wrap left behind once it
  is passed (`PassedUnrolled`), which together make the comparison of two words the
  comparison of ticks left. `Implementation` is the refinement of `AlarmClock` but for
  its fairness; `SetOffset` is what `settimeofday` leaves for `gettimeofday`.
* **JtagUart.** `WritesImplementStream` and `ReadsImplementStream`: the driver implements
  `ByteStream` in both directions but for its fairness. The queue of a direction is
  what lies in the ring followed by what lies in the FIFO; looking, copying and the
  interrupt routine stutter, publishing an index sends or delivers as many bytes as
  were copied, and a byte the host takes or gives is delivered or sent. What makes it
  inductive (`IInv`) is that the room or the bytes a call measured are still there when it
  uses them, although the interrupt routine moves the other index at any step
  (`RoomToWrite`, `BytesToRead`); that what was copied and not published stays
  untouched (`Copied`, `Taken`); and that a full ring keeps one cell free.
* **Sequencer.** `SettingsFit`, `TruthfulVerdict`, `LeastLatency`, `FiguresAreEarned` and
  `DeskewIsCentred`, for every board, every length of the chains and every number of data bits, from `CalibrationInvariant`.
  The settings alone are not inductive, as what a step writes depends on what the search
  has seen before, and neither is the verdict, as the data bits are centred long before it
  is given. `IInv` has a part for each of these dependences:
  - `TypeOK`: every local and every register has its range;
  - `GateSearch`: the search of the gate is never at phase 0 where it would step back, and
    centres only what lies after time 0; `StrobeInChain`: the strobe is moved up from
    where it started to the end of its chain and no further;
  - `Control`: which stage a step belongs to, and who has the PHY and the memory;
    `ErrorOfStage`: the error that is recorded, if any, is of the stage where calibration
    will stop, and none is there in a stage that has not failed;
  - `EdgesSeen`: a left or right edge is known exactly when one of the delays tried so
    far captures the bit, so the deskew of the read side passes exactly when every bit is
    in reach;
  - `RetriesReachLess`: once a deskew has failed some bit is out of reach, and as every
    retry starts from a strobe delay no less than the one before, none can pass
    (`LaterReachesLess`). Without it SUCCESS could come with the recorded error of an
    earlier try;
  - `MaskWindows`: the mask passes at every place of the largest window and of the one that
    is being seen, so it does in the middle (`MaskCentred`);
  - `LatencyComesDown`: every latency above the present one has passed;
  - `SettingsWork`: what SUCCESS says, from the step that decides it to the end.

  `FiguresAreEarned` and `DeskewIsCentred` need more than whether an edge was seen: where
  it is. `FInv` is inductive on top of `IInv` (TLC checked both on the boards of the run
  before they were proved):
  - `InputEdges`, `OutputEdges`: every edge recorded so far is the place of a delay that
    captures the bit, and the values that are no edges yet (`Unseen`, or the negative
    number of the delays that failed) are told apart from those (`LeftPlaces` and
    `RightPlaces`, while the left and while the right edges are searched; `Held` at the
    end). Besides, no delay tried before captures the bit beyond its edges (`LeftOuter`,
    `RightOuter`), so that in the end the edges are the ends of what both searches reach of
    the window (`Outermost`, `WindowEnds`). A search stops at the first delay at which no
    bit passes any more, so the last part is for windows without holes;
  - `Figures`: what the figures are worth at each stage. They are 0 until the second read
    deskew or the write deskew is done. Then each is at most the room above and below the
    present delays (`Earned`), which the steps in between leave as they are.

  In a window with holes the room is counted to the farthest delay that captures the bit.
  From the outermost edges `DeskewIsCentred` is arithmetic: the skew of the worst bit, the
  two truncating divisions and the clamps leave each bit within one tap of the middle
  (`ShiftCentres`), and the strobe of the read side is never moved farther than the worst
  bit needs, since its edges are in reach (`StrobeMoves`).

  Module `GateProofs` proves the same of the read gate: `GateIsCentred`. The search reads
  words and learns only whether they pass, over a FIFO that wraps, with two chains whose taps
  do not divide each other; so what has to be inductive is where the opening lies, given what
  was seen (`GInv`, on top of `IInv`). It has a part for each step of the search:
  - `FailSought`: while two failing reads are looked for, how many places the search may have
    passed since it began in an opening or before one. As an opening shows in two places
    at most, the second failure comes in time;
  - `BeginSought`: some opening begins `g` picoseconds after the search of the beginning did,
    ends before the FIFO has turned, and is not yet passed by the present setting. The place
    of the FIFO is `g` and the number of pushes up to a turn (`Placed`);
  - `LeftSought`, `EndSought`, `RightSought`: the setting is within a phase or a tap of that
    edge, the work counted is the time moved, and the left edge is where it was found
    (`Found`): to a tap, or, when the first phase that passed is phase 1, to two phases.
    Then no taps are tried and `work_end` stays a phase behind (`lag`), as phase 0 is
    skipped without being counted;
  - `EdgesFound`: both ends, and for a lag what else is known of their distance (`EndSeen`).
    That is what keeps a middle that is computed from an end one phase too early inside the
    margin;
  - `FinalSought`: the middle lies in the opening at one place of the FIFO only (`Unique`),
    so the last turn of the FIFO stops there and not a clock before.

  The middle is rounded up to whole phases less one and whole taps (`SplitIs`), and
  `PhasesFit` and `EdgeFits` are the arithmetic of the margin for the two kinds of left edge.
  The upper bound on the opening is part of what `GateCentred` says: with
  `2 * Period - gateLength` of `OpaTap + EnTap - 1` or less, the setting a clock before the
  middle can lie inside the opening too, at its very edge, and `EnFinal`, which turns the
  FIFO until a read succeeds, keeps the first of the two it meets.

  Assumed: at least two data bits, numbered from 0; taps of the enable that span a phase
  (`EnTapsAssumption`, 31 taps of 25 ps and 416 ps in the code); output delays within the
  chains (`OutDelayAssumption`); latencies that are numbers, however large
  (`LatencyAssumption`). `TruthfulVerdict` and `LeastLatency` say of the latency nothing on
  the boards outside `LatencyFits`, where the code is wrong. A phase is worth at least two taps of the enable, a clock at least
  four phases, and the FIFO has at least four places (`GateAssumption`, for
  `GateIsCentred`; 416 and 25 ps, 8 phases and 16 places in the code).
  Each is checked by TLC for the values of the run. The windows are
  finite (`WindowsAssumption`, for `FiguresAreEarned` and `DeskewIsCentred`). Of the boards nothing else is
  assumed: the windows may have holes or be empty.
* **RwDelay.** `WaitsLongEnough`, from a lemma on division: what is stored of the counters
  in one and two bytes counts no fewer clocks than asked for.
* **FileTable.** `OneHolder`, `SharesOnce`, `NoLeak`. `alt_fd_lock` scans up to, not
  including, `alt_max_fd`. `SharesOnce` (of `SharesOnlyWithHighest`) is what is left of
  `LockIsExclusive`, which the run `lock_shared` refutes, and what `OneHolder` rests on; that the holder of a lock can share only with the highest
  descriptor needs that `alt_max_fd` covers every descriptor of a device (`Marked`) and
  that only such descriptors can be exclusive (`FlagsAgree`).

Only model-checked: all liveness (`Terminates`, `PipelineProgress`,
`HandshakeCompletes`, `LoaderReturns`, `PressesServed`, `AutomaticDecrypts`,
`CallsReturn`, `BytesReachHost`, the fairness of `ImplementsClock`), which needs
`ENABLED`. Every safety property of the passing runs is stated by a theorem.
Violations are of course shown by TLC only.

## 5. Not modelled

* The conversion of images to grey (its result is
  dropped in `memory.c:53`), the pitch of bitmaps and the 40 MiB sector bound.
* `parse.c`: argp; its effect is the constant `HpsStarts`.
* Dead code: `timer0_1ms_isr`, `proceso_periodico`, the filters of the boards.
* What is done with a split of 0 (`-c 1` of `verificar_filtro`): the progress report
  divides by it. `NiosDivideFault` keeps both outcomes, and `Terminates` is stated
  for the other splits.
* What the models show of the code that no run states, since it needs no particular
  order of steps: the last row of a batch is filtered before the row below is decrypted
  (`process.c:31`; a batch takes all that is decrypted); `mod_exp` gives wrong results
  for moduli above 2^16, whose squares wrap (`MaxModulus` above `Half` shows it), while
  `n` has up to six hexadecimal digits; the total of the firmware is always 1, as
  `decrypt_wh` runs before a key is entered, so automatic mode decrypts one pixel; STEP
  does not look at the total and decrypts past the image.
* What an early start of the HPS program does besides `boot_early`. It may leave the Nios
  waiting for ever, when its acknowledgement is overwritten by the publication or writes
  the mask over another value: `HandshakeCompletes` says nothing of such a run. A run after
  the handshake maps what the display shows, and what it writes there is not modelled.
* Presses that are lost (two edges at once, a press between the read and the clear
  of the edge register) happen in `Firmware`, but no text of the repository
  promises otherwise, so no property forbids it. The same holds for a rise of
  the key switch, which PIO_SW does not capture, and for digits, which UP raises
  by two, so that only even digits can be entered.
* Of the system clock: the time zone, which is only stored. Of the JTAG UART: its
  `ioctl` (`TIOCSTIMEOUT`, `TIOCGCONNECTED`) and the branches for an operating system
  and for no system clock. A `printf` from interrupt level with a full buffer would wait
  for ever in `write`; only the dead `timer0_1ms_isr` prints. Of the descriptor
  table: file systems, which the BSP has none of, and calls with descriptors that are
  not open.
* Of `sequencer.c`: what `sequencer_defines.h` compiles out, which is most of the
  file (QDR, RLDRAM and LPDDR memories, write levelling and its variants, debugging,
  the TCL reports, margining, the bring-up test); loading the instructions of the RW
  manager and the contents of the mode registers, which are writes of tables; the
  on-die termination; the write latency; the register of the sub-stage. The recovery
  of the memory after a violation of its clock timing is empty for DDR3.
* Rest of the BSP: start-up, caches, exceptions, logging, the timestamp timer and the
  stubs of system calls, straight-line code that keeps no state a later call depends on,
  and register macros. The FPGA platform: wiring; present as environment.

Most of the lines of the repository are of the last two kinds: headers of register
macros, tables, comments and code that is not compiled. They have no behaviour to
model, so the share of lines the models cover stays small however much of the
behaviour they cover.

## 6. Plan

Done: `Filtro` and its window, `ApplyFilter`, `Boot`, `ModExp`, `Firmware`; the system
clock, the JTAG UART, the descriptor table and the SDRAM calibration; the proofs above.
Next, in this order:

1. `Board`: composition of `Boot` and `Firmware` over one register and one
   `shared_data`, with an abstract specification of the board (`ImageJob` with a key),
   and what the early return of the HPS means for it.
2. `Connected`: `timer0_1ms_isr` and `proceso_periodico` as if they were started:
   `decrypt_px_count` of `shared_data` is never written (a static hides it), and the
   interrupt is cleared at the end only.
