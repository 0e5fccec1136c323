# TLA+ models of bkbtl-debugger

bkbtl-debugger is a console debugger built around an emulator of the
BK-0010/BK-0011M home computer. It is one single-threaded program: a command
either changes the emulated machine directly or lets it run for some frames, and
everything inside the machine (processor, keyboard, teletype, timer, floppy) is
stepped by one loop, `CMotherboard::SystemFrame()`. The hard part is therefore not
threads but the many orders in which devices, program and debugger can touch the
same registers, request flags and caches.

## 1. Inventory

| Part | State | Operations | What makes it correct |
|---|---|---|---|
| Processor, interrupts (`emubase/Processor.cpp` 169-500, 532-612) | PSW, wait mode, thirteen request flags, double-hangup flag, VIRQ count and sixteen VIRQ slots | device calls (`InterruptVIRQ`, `TickIRQ2`, `AssertIRQ1`, `TickTimer`), `MemoryError`, `Execute` with its delivery loop, WAIT, RTI/RTT, MTPS, RESET | every raised vector is delivered; faults are served first and before the next instruction; the loop ends; WAIT ends |
| Processor, instructions (614-2310) | registers, flags | about seventy `Execute...` methods | results and flags of each instruction |
| Board, interrupt sources (`emubase/Board.cpp`) | 177560-177566, 177660, 177662, the deferred key | `KeyboardEvent`, `Tick50`, the teletype countdown, register reads and writes, `ResetDevices` | no key press is lost or announced twice; a disabled device is silent |
| Board, timer | 177706-177712, divider | `TimerTick`, `SetTimerState`, `SetTimerReload` | a period takes the ticks its registers say, its end is signalled once |
| Board, frame | `SystemFrame()`'s locals: tick and call numbers, timer ticks, the teletype's countdown | `SystemFrame`, left early at a breakpoint | devices get their time at a fixed rate, a byte that is written is sent |
| Board, memory map | configuration, map bits of 177130, paging bits of 177716, RAM, ROM | `SetConfiguration`, `TranslateAddress`, `GetWord` ... `SetByte` | every address goes to one place, no word hides behind two addresses |
| Floppy controller (`emubase/Floppy.cpp`) | four drives with one cached raw track each, head position, dirty flag, shift registers | attach, detach, `SetCommand`, `GetData`, `WriteData`, `Periodic`, reset | written tracks reach their own place in their own image |
| Emulator shell (`Emulator.cpp`) | breakpoint array, temporary breakpoint, key queue, instruction history, frame counter, the state file | add/remove/test breakpoints, queue and drain keys, `Emulator_SystemFrame`, record and print history, reset, `Emulator_SaveImage`, `Emulator_LoadImage` | a set, a queue and a log kept in arrays with sentinels and wrap-around; a state that is loaded is the state that was saved |
| Commands (`commands.cpp`) | pager, continuation, paging of the listing | about ninety commands | stepping, running and typing do what their help says |
| Main loop (`bkbtldebug.cpp`) | stdin | options, prompt | pure I/O |
| Disassembler (`emubase/Disasm.cpp`) | none | `DisassembleInstruction`, hints | an instruction is as long as the processor takes it to be: a step over breaks behind it |
| AY sound, screenshots, formatting | none that others depend on | | text and signal output |

How they interact: the main loop reads a command; a run command calls
`Emulator_SystemFrame()`, which hands the breakpoints to the board, takes one key
event from the queue and calls `CMotherboard::SystemFrame()`. That loop calls
`CProcessor::Execute()` six or eight times per tick and, in fixed places between
those calls, the timer, the 50 Hz tick, the floppy controller and the teletype.
`Execute()` reaches the devices through `GetWord`/`SetWord`, and devices call back
into the processor (`InterruptVIRQ`, `MemoryError`, `ClearVIRQ`). The debugger's own
memory commands use the same `GetByte`/`SetWord` and have the same side effects.

Hard behaviours: two devices share VIRQ slot 1; the number of VIRQ requests and the
vectors are kept apart; faults can happen while a fault is being delivered; the
program can poll a key whose interrupt is pending; a floppy track is cached per drive
but the dirty flag is the controller's; a frame's counters are locals that a breakpoint
throws away, the devices' registers are not; a state file comes back in a session that
was configured otherwise; the debugger can act in any gap.

## 2. Modules

| Module | Models | Builds on |
|---|---|---|
| `Processor` | the interrupt system of `CProcessor`: request lines, VIRQ queue, the loop of `Execute()` | |
| `Processor_proofs` | theorems about it | `Processor` |
| `Board` | the interrupt sources of `CMotherboard`, each action a processor action plus what the device does in the same call | `Processor` |
| `Board_proofs` | the board's invariants, the key's request and its notice | `Board`, `Processor_proofs` |
| `Arithmetic` | result and flags of every computing instruction, for bytes and words by one parameter `h`, and what they mean for integers | |
| `Instructions` | addressing modes, memory with bus faults, and the instruction handlers as functions from machine to machine | `Arithmetic` |
| `Disasm` | the length of every instruction word and the conditions of branches, as the disassembler and as the processor's method table have them | `Instructions` |
| `MCInstructions` | a small memory, operands and start registers for TLC | `Disasm` |
| `Instructions_proofs` | arithmetic for every `h`; precise faults, types and stacks for every memory; both decoders agree | `Disasm` |
| `TrackStore` | abstract: images plus at most one unsaved track | |
| `Floppy` | drives, images and track cache of `CFloppyController` | `TrackStore` |
| `Floppy_proofs` | its invariants, and the refinement to `TrackStore` | `Floppy` |
| `WordQueue` | abstract: a program's words on their way to the disk, a queue of two | |
| `FloppyStream` | the shift and write registers, markers, search and `Periodic()` | `Floppy`, `WordQueue` |
| `FloppyStream_proofs` | handshake; refinements to `Floppy` and to `WordQueue` | `FloppyStream`, `Floppy_proofs` |
| `BreakpointSet` | abstract: a bounded set of addresses beside one temporary breakpoint | |
| `Breakpoints` | the breakpoint array with its sentinel and count | `BreakpointSet` |
| `EventQueue` | abstract: a bounded first-in first-out queue; all that leaves it but one silent event presses or releases the key | |
| `KeyQueue` | the ring of key events | `EventQueue` |
| `Debugger` | commands, runs, frames and calls of `Execute()` as steps of their own | `Breakpoints`, `KeyQueue` |
| `MCDebugger` | the one key that `mo` types | `Debugger` |
| `Debugger_proofs` | table, ring and runs | `Debugger` |
| `Countdown` | abstract: ticks to go, the next period's length, signals that wait | |
| `Timer` | the system timer: counter, prescaler, reload register, six mode bits, the VM1G's request | |
| `Frame` | `SystemFrame()`, one step per call it makes, with its local counters, the timer and the teletype's countdown | `Timer`, `Countdown` |
| `MCFrame` | prescalers and modes for TLC | `Frame` |
| `Frame_proofs` | types, prescaler, timer rate, and the refinement to `Countdown` | `Frame` |
| `MemoryMap` | configuration, what each of eight blocks shows, writes and the two paging registers | |
| `AddressSpace` | abstract: blocks that show pages, and one saved state | |
| `History` | the ring of executed instructions | |
| `InstructionLog` | abstract: the latest records, oldest first | |
| `Shell` | a session: accesses, history, reset, restart, the state file that outlives it | `MemoryMap`, `History`, `AddressSpace`, `InstructionLog` |
| `MCShell` | three machines, words that are written, paging words | `Shell` |
| `Shell_proofs` | types, no aliases, and the refinements to `AddressSpace` and `InstructionLog` | `Shell` |

### How state and actions correspond to the code

**Processor.** `rq` is the set of `m_XXXrq` flags that are true, `virq` the pair
`m_virqrq`, `m_virq[16]`, `armed` is `m_okDoubleHangupArmed`. The PSW is the set of
its bits that decide anything (P, T, HALT, M10, M11). `Execute()` is split where it
really has a decision: the instruction (`Fetching`, `ExecuteWaiting`), then one
`Polling` step per round of its `for(;;)`; `polling` is TRUE in between and excludes all
other actions, so one call stays one uninterrupted sequence. The else-if chain is a
`Rank` of the requests and a `Deliverable` set, from which the lowest rank is served. A
device is any call of `InterruptVIRQ`, `TickIRQ2`, `AssertIRQ1`, `TickTimer`. What the
program does is free: any request an instruction can raise, any fault, any popped PSW.

**Board.** The same variables and 177560-177566, 177660, 177662 as far as they carry
interrupts: `ready`, `masked`, `deferred` (the vector of the key behind the mask),
`ttyIE`, `ttyReady`, whether a byte's countdown is running (`sending`; it ends with its last tick or
with the frame, and does not look at the ready bit on the way), `evntOff`. Keys, debugger commands and
restarts come between frames, which the model tells from inside a frame only by `sending`. Each
action conjoins one processor action with the device's part, so that "program writes 177564" is one atomic instruction, as in the
code.

**Arithmetic, Instructions.** A machine is a record of registers, PSW, memory and
fault flag; `ExecuteMOV(m, ...)` is the machine after `CProcessor::ExecuteMOV`. A
handler's byte and word forms, which the code writes twice, are one operator with the
weight `h` of the sign bit (128 or 32768). The early returns on `m_RPLYrq` are the IFs on
`fault`; operands are read, and autoincrements made, in the code's order, whose side
effects stay after a fault as they do in the code.

**Floppy, FloppyStream.** `image`, `loaded` (`datatrack` and
`dataside` of a drive's buffer), `cache`, `changed` and the head's `track`, `side`, `drive`. A
raw track is where it came from and what it says; only whether it decodes matters
(`Garbled`). The word registers are `NoWord` when their flag is down.

**Breakpoints, KeyQueue, Debugger.** Arrays are functions on `0..n-1` with the
sentinel or the wrapped indices as in the code, not sets or sequences; those are what
the abstract modules use. A run is `Starts` (`Emulator_Start`), then frames of
`FrameTicks` calls of `Execute()`, each with a check for breakpoints, until `RunHits` or
`RunFrameEnds` (`RunUntilBreakpoint`). `script` is what is left of a key command: key
events to queue and frames to pump. The instruction executed at an address may lead to
any address: the program is free here too.

**Timer, Frame.** `timer`, `reload`, `divider`, `flags` are 177710, 177706, `m_timerdivider` and
177712 by its bits; `request` is the processor's `m_TIMERrq`, which only the VM1G has. A
tick first holds the counter (STOP, no RUN), then divides, then counts, and at zero
expires. `phase` says which call of `SystemFrame()` comes next: the processor's, the
timer's after every `TimerPeriod` calls, the devices' after `ProcTicks` of them. At a
breakpoint the frame returns from behind `Execute()`, before the timer's turn, and its
locals are gone; registers and prescaler stay.

**MemoryMap, History, Shell.** An address is a block of 8K and an offset in it. A
BK-0010 shows the RAM page with the block's number, a ROM bank or nothing, by
`m_MemoryMap` and `m_MemoryMapOnOff` (`romBlocks`, `validBlocks`), which 177130 changes with
the floppy block; a BK-0011 goes by 177716 and `memoryBlockMap`, whose 16K chunk is two
pages. ROM contents are named by the file they were read from. The ring is an array with
`head` and `length` as in the code, and not cleared with them. `image` is the file of
`statesave`: what `SaveToImage()` writes of the memory, and not what it leaves out (the
map bits, whether there is a controller). A `Restart` is the program started anew, with
any configuration, the file staying.

**Disasm.** Functions of the instruction word: the method table of `CProcessor::Init()`
with the operand fetches of `Address`, beside the masks of `DisassembleInstruction()`.

## 3. Runs

| Run | Question | States |
|---|---|---|
| `processor` | With fairness: do the request lines keep their books (VIRQ count and slots, single and double fault), are faults served before the next instruction, does the interrupt loop end, is WAIT left? | 14 000 |
| `board` | Do devices and queue stay in step, is the deferred key announced, does the key's request leave only by its own delivery or a reset? | 239 000 |
| `floppy` | Two drives, heads that move: is the loaded track the one under the head, does data stay in place, is the controller a store with one unsaved track? | 128 000 |
| `floppy_stream` | Any order of program accesses and turns of the disk: no word overwritten or reordered, does a search end? | 137 000 |
| `debugger` | Any sequence of commands: table a set, ring a queue, a run stops at breakpoints, moves, ends. | 624 000 |
| `instructions` | Every instruction on boundary operands: are results, flags, stacks, calls and faults right? Do disassembler and processor agree on the length of every word executed in line, but for eighteen MARKs, and on the branches' conditions? | 64 000 |
| `frame` | Any program, any breakpoints: does the timer tick at its rate and count down as its registers say, is the prescaler fresh, is a byte sent? | 51 000 |
| `shell` | Three machines, any paging, reset, restart, save and load: is the memory an address space, is the history a log? | 95 000 |
| `shared_slot` | *violated*: disabling the teletype withdraws the key's request. | |
| `floppy_attach` | *violated*: attaching to an empty drive drops another drive's unsaved track. | |
| `state_image` | *violated*: a state that is loaded is seen through the session's memory map. | |
| `typed_keys` | *violated*: no key waits in the queue when the command that pressed it is over. | |

### Bounds, and why they are enough

- `processor`: two VIRQ slots and one vector (slots are scanned in order; two are
  needed for "another one is still pending"), `MaxVirq` 3 so that the count can be more
  than the slots. T is kept out of the vectors' PSWs: with T in vector 014 the code's
  loop does not end (listed as a hazard).
- `board`: the one slot both devices share, all three vectors, `MaxVirq` 2: a request of
  each device. `shared_slot` leaves the debugger out, to show that the program alone
  suffices.
- The violated runs take the bounds of the passing run of their module or smaller ones.
- `floppy`: two drives (one selected, one not), one writable image that can be in either or in
  both, two tracks of two sides each, so that heads move and stop at both ends. An image that
  is read-only makes the run too long; the code saves nothing in it and reports nothing, which
  `ChangesSavedUnlessAttaching` exempts. The five proofs hold for read-only images too.
- `floppy_stream`: a track of two words with a mark on the first, two distinct words to
  see order. One drive: registers are the controller's.
- `debugger`: three addresses, an array of three cells (two breakpoints and the
  sentinel: first, last and only one can be removed), a ring of two, frames of two calls,
  runs of at most two frames, instructions of one or two calls. `FrameCounts = {0}`
  is `cf0`, which still runs one frame, beside the plain run's limit `MaxFrames`.
- `instructions`: the real word size. One instruction from each of 89 starts, with two
  settings of the flags: R0, R1 take all pairs of 0, 1, 128, 32767, 32768, 65535, which
  is where signs, carries and overflows change in bytes and words; pointers are even,
  odd, into ROM, to nowhere. A single step is enough because the program is free and
  every handler starts from nothing but registers and memory. `ListingAgrees`
  goes through all 65536 words and judges those that are executed in line, all but the eighteen
  MARKs of `CountedMarks`.
- `frame`: a counter of four values, prescalers of 1, 2 and 3 (in an order that makes a
  change of mode go up and down), nine modes, frames of five ticks of two calls, a timer
  tick at every third call, so that neither divides the other, a byte of two teletype
  ticks of two frame ticks each, which just fits a frame.
- `shell`: two offsets, one of which is a port in block 7 with the floppy block, two
  values, a ring of two; a BK-0010 with FOCAL (whose block 6 is denied), one with the
  floppy block, a BK-0011; words written in blocks 3, 5 and 7, pages 0 and 6, which are
  where the windows can meet each other and the fixed memory. The machine with BASIC differs
  from that with FOCAL in its ROM files and the denied block, the floppy block of a BK-0011
  in one ROM file and its ports.

### Fairness

`processor` uses `RunSpec`: weak fairness of `ExecuteWaiting` and `Polling`, since
`CMotherboard::SystemFrame()` calls `Execute()` six or eight times in every tick and a
call never waits; strong fairness of `CleanEntry`, an entry whose two pushes do not
fault: each faulting entry moves SP down by two words, so that after finitely many of
them it points into RAM. Nothing is assumed of devices: `WaitEnds` says that a
request that the PSW lets through ends the WAIT, not that one arrives. `floppy_stream`: weak fairness of `Periodic`, called every
32 ticks of a frame; `SearchEnds` speaks of times when the motor runs. `debugger`:
weak fairness of `Machine`; the loops of `RunUntilBreakpoint()` and `PumpFrames()` wait
for nothing. `frame`: weak fairness of `SystemFrame`, for the same reason, once it has begun;
that frames begin, and are completed rather than left at a breakpoint, is the
premise of `ByteSent`, not an assumption. No fairness for commands: the user may leave at any prompt.

## 4. Proofs

Everything here holds for all values of the constants that satisfy the named
assumptions beside their declarations (arrays of any size, frames of any length, any
number of drives, tracks, vectors, slots).

- **Processor.** `CpuInv` = `TypeOK`, the count covers the occupied slots
  (`Counted`), `armed` is FALSE between steps, `FaultLines`. `SlotsCounted` alone is not
  inductive: a round of the loop that finds no vector sets the count to zero, which is
  harmless only because the slots are then empty too. Three theorems: type, request
  lines, and from `FaultsInv` that faults are served before the next instruction.
- **Board.** Each action of `BoardSpec` is written as a `Processor` action and what the device does
  besides, so that the processor's theorems carry over (`BoardQueueCorrect`); that the devices use it
  so is how the module is built, and no result. `BoardInv` adds the
  deferred key and the teletype's request. Two action properties rest on both:
  `KeyRequestStays` (of all the steps but RESET and restart only the delivery of that very
  request, through `EnterVirq`, takes it from slot 1 while the teletype is silent:
  `AccessKeepsKeyRequest`, `CpuOnlyDelivers`) and `DeferredKeySurvives`.
- **Instructions.** `BranchesOrder`, `SumsExact`, `DoublesExact`, `RotationsRestore`
  are about numbers of every size. `MachineTyped` says that no instruction leaves a value
  behind that is not a word: one lemma per handler over one for `Address`, for any memory map,
  operands and start values that satisfy `MemoryAssumption` (the words lie at even addresses, RAM
  and ROM are apart, and the word behind one of the ROM is a word too, since a read of the ROM
  may be odd), `OperandAssumption` and `StartAssumption`. With it `ArithmeticExact` carries the
  numbers' theorems to the registers of every state. `StacksComeBack` does the same for
  stacks: a pushed word is popped (`PushedPops`); a call and its return leave PC behind the
  call (`CalledReturns`); MARK takes off up to two parameters that lie above each other
  (`Nested`) although SP goes by the modulus of addresses (`MarkedComesBack`). Each is proved
  under the property's own premise, that no access on the way faults. `FaultsPrecise` needs no
  invariant: one lemma per handler says that it either has no fault or keeps memory and flags.
- **Disassembler.** `ListingsAgree`, for any memory map and both processors, of the words executed
  in line except eighteen MARKs: the method
  table's ranges and the masks' ranges are compared by their bounds (`PlainListed`,
  `MarkListed`, `OneListed`, `TwoListed`), the operands' words by what `Address` does to PC in each of the eight
  modes (`FetchedWords`), the conditions by the bits of each branch (`BranchBits`).
- **Floppy.** `FloppyInv`: a trusted buffer was read from where its drive says
  (`Good`), unsaved changes have a home, and the selected drive's buffer is the
  track under the head. The last needs all the others: `PrepareTrack()` flushes after
  the head's numbers have moved. From it `DataInPlace`, `FloppySpec => StoreSpec`, and, with
  one lemma per operation that settles changes, `ChangesReachFile`: but for an image
  attached to another, empty drive, the dirty flag goes down only with the data saved.
- **FloppyStream.** `StreamInv`: the registers fill in order, the ready bit means
  room, no ready bit while searching. The three hold together by induction only.
  `StreamSpec => FloppySpec` gives `StoreSpec` at the register level as well;
  `StreamSpec => QueueSpec` is the order of words. `StreamTypeCorrect` needs none of the
  three, only the types of the drives below: heads stay on their tracks, and so do marks.
  `StreamKeepsTracks` brings the drives' own properties up to the registers.
- **Debugger.** `BpInv`: used cells are exactly those below the count, distinct, a
  temporary breakpoint is in the table and one cell stays free for it. `BpSpec => SetSpec`.
  `KeyInv` and `KeySpec => FifoSpec`. `RunInv` ties a run to the table (the board is armed
  iff there are breakpoints when the frame began; once moved, an instruction starts
  only off breakpoints; an instruction's time fits the frame), from which
  `NeverRunsPast` and `RunAlwaysMoves`. `DebuggerSpec => BpSpec` carries the table over,
  `DebuggerSpec => KeySpec` the ring, so that `FifoSpec` holds of ring and key flag in the whole debugger. The latter
  needs that a script queues nothing but key events (`ScriptOK`): `KeysAssumption` says
  that the keys, their modifiers and those "mo" types are scan codes, and `GotoMonitor` is a
  function of the position rather than a recursion so that it can be reasoned about.
- **Timer and frame.** `FrameInv` = types, `DividerFresh`, `TimerRegular`, and that the call
  number is zero when the devices have their turn (`DevicesAtZero`); the rate needs
  it, since the frame's call number is put together from tick and call. Its arithmetic is
  that of remainders with any divisor (`ModSucc`, `RemainderUnique`). `FrameSpec =>
  CountdownSpec`: a tick of the counter is a step of a countdown of
  `Divisor * counter - divider` ticks, for any width of the counter, any prescalers and any
  length of frames; `DividerFresh` is what keeps that number positive.
- **Shell.** `ShellInv` = `ShellTypeOK` and that a saved state shows what it was saved
  with (`ImageSeen`): `savedView` is what its configuration and paging word show, on a
  BK-0011. `NoHiddenAlias` follows from the types alone, for every paging word (`TypesAlias`).
  `ShellSpec => SpaceSpec` and `ShellSpec => LogSpec` take one lemma per operation; for the
  ring, that `Printed` is the log appended to, or its tail when the ring is full.

Every invariant and every action property the passing runs check is a theorem. Only model-checked is
liveness under fairness (`PollingEnds`, `WaitEnds`, `SearchEnds`, `PromptReturns`, `ByteSent`),
which the prover does not do. `And`, which BIT, BIC and the like rest on, is put together from
its bits level by level (`And1` to `And8`) instead of by recursion; proved of it is that the
result lies between 0 and both operands (`Within`), which the types of BIC, BIS and XOR need; no
property is about the single bits.

## 5. What the checks found

1. **Two devices, one slot** (`shared_slot`). Clearing the teletype's enable
   bit withdraws whatever is in slot 1, also the keyboard's request, while 177560's ready
   bit stays up: no further key is announced until the program polls.
2. **Attach loses changes** (`floppy_attach`). `AttachImage()` clears the controller's
   dirty flag, which belongs to the selected drive.
3. **A loaded state under another map** (`state_image`). Neither `SaveToImage()` nor
   `LoadFromImage()` knows `m_MemoryMap` and `m_MemoryMapOnOff`, and the configuration is
   assigned without `SetConfiguration()`: a BK-0010 program that was saved with the extra
   RAM in blocks 5 and 6 comes back with whatever the session shows there.

4. **Typed keys wait** (`typed_keys`). The frames that key commands pump are the board's, which does
   not read the queue: the events reach the board in the next run, one per frame.

Seen while modelling, without a run of their own:

- *Processor.* With `m_virqrq` positive and no vector in a slot, the loop clears the count and
  breaks as if nothing were left, and a software trap just requested waits for the next
  instruction. The count outlives its slot when one device raises twice before it is served.
- *Timer.* `timerTicks` is a local of `SystemFrame()`: of a BK-0010's 60000 calls of `Execute()`
  per frame the last 96 give no tick, and a frame that ends at a breakpoint forgets more. 80000
  is a multiple of 128, so the BK-0011 loses calls at breakpoints only.
- *Pumped frames.* `m_CPUbps` is set by the frames of a run and never cleared, so that key
  commands stop at the last run's breakpoints, which `commands.cpp:952` says are ignored.
- *SU is never released.* Its release is coded 0 (scan code 0, `commands.cpp:1054`), which
  `Emulator_ProcessKeyEvent()` takes for an empty queue. `EventQueue` calls it the silent event.
- *MARK's number is listed as an operand.* MARK 27, 37 and 60 to 77 hide the word behind them
  (`Disasm.cpp:204-210`; `CountedMarks`, which `ListingAgrees` leaves out). A step over at a MARK
  sets its breakpoint where no program goes on anyway.
- *Processor, board.* RTT with T set skips the interrupt loop also when its first pop faulted, and
  the fault is forgotten (`FaultsServed` exempts it). A RESET during a byte's countdown sets the
  ready bit and leaves the countdown running, which raises the teletype's request once more if the
  program enables it meanwhile. `GetROMWord()` reads an odd address across two words. Reset leaves
  the map bits of 177130 as they are.
- *Listings.* DIV, ASH and ASHC, and MUL on the VM1, which trap, are listed with operand words. The
  hint functions (`Disasm.cpp:369-807`) have no caller.
- *Memory commands.* `memsave` reads all of the I/O page through `GetByte()`: it consumes a
  waiting key and floppy data and raises bus faults. `memset` into ROM reports success.
  Change highlighting compares a BK-0011's RAM chunks in their order in `m_pRAM`, not
  the addresses of `README.md:172`, and its loop ends before the last byte (`Emulator.cpp:550-561`).
  The history callback's test for RAM (`Emulator.cpp:827`) holds for chunk 0 only.
- *State files.* `g_nEmulatorConfiguration` keeps the session's configuration after a
  `stateload`, and no floppy controller is created or deleted. A `statesave` that fails
  half-way leaves a shortened file in place of the old one.

## 6. What is simplified or left out

- The stack is in memory, not in the I/O page; an instruction accesses at most one
  device register. ACLO and the HALT pin are never asserted by the code.
- `Instructions` does not tie the opcode to memory: any instruction may come next.
  Instruction times are left out; a fault ends the modelled step, what it leads to is
  `Processor`'s.
- `Floppy` allows the same image in two drives. Failures of stdio are modelled only
  as a read-only file. The track codec is abstracted to whether it decodes.
- Key events: AR2's bit is left out; joystick and STOP keys are `Board`'s.
- `Debugger` does not tell a waiting processor from one that executes. Locals of
  `RunUntilBreakpoint()` are 0 between runs. `c177777`, whose
  address is the sentinel, sets no temporary breakpoint and is a plain run.
- `Frame` has the teletype's countdown and the timer; the other devices' turns in the loop
  change nothing these two read. The interrupts they raise are `Board`'s.
- `Shell` takes the accesses of an instruction, of `memset` and of `loadbin` one by one; an
  offset stands for a word, and a byte access goes the same way. Of the state file it has
  the memory's part; registers, ports and timer are copied field by field in the same order
  on both sides. A ROM file that is missing ends the program.
- `Disasm` has lengths and conditions, not the text. `JumpConditionHint` is the
  code's, although nothing calls it yet.
- Not modelled: AY sound (numeric synthesis that nothing depends on), screenshots,
  formatting, change tracking, option parsing, console modes, the command matcher and the
  pager: text or signal output without state other parts read.

## 7. Plan

Done, in this order: interrupt system, its devices, floppy cache and stream, shell and
runs, instructions, timer and frame, memory map with history and state file, disassembler.
What would add most next:

1. Proofs: that `And` is bit by bit what its numbers have in common, with a property of BIC, BIS
   and XOR over it; that the processor's faults are served under `BoardSpec` too.
2. `Debugger` with the length `Disasm` gives, so that a step over is a run to the
   word behind the instruction; a processor that waits, so that a WAIT at a breakpoint
   can be told from an instruction there.
3. `Commands` (`MatchCommand`): first match in the table's order, the pager's continuation.
4. The track codec: encode, decode and refuse, against the sector contents.
5. The rest of the state file: registers and ports with their width.
