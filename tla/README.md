# Verification of dimebox

dimebox is an instruction-set simulator for 32-bit RISC-V cores in machine (and, partly, user)
mode, with a memory-mapped timer and UART, a sparse physical memory, an ELF reader and writer and a
gdb server. This directory holds TLA+ models of it, the configurations that model-check them with
TLC, and theorems about them proved with TLAPS. Paths below are relative to the repository
(`src/src/*.C`, `src/include/*.h`).

## 1. Inventory

| part | source | state | operations | modelled by |
|---|---|---|---|---|
| simulation loop | `riscv_simulator.C`, `main.C` | cores, ready list, instruction count, error code | `Go`, `StepCores`, `StepCore`, `GetReadyCpus`, `ServiceDevices` | `Simulator`; `LoadTestImage`, `WriteTestSignature`, `DumpTest` in `TestImage` |
| core state, trap unit | `riscv_core_state.C/.h`, `core_state.h` | PC, privilege, low power, end of test, registers, CSRs | `ProcessException`, `Push/PopPrivilegeLevel`, `InterruptPending`, `Signal`, `Update`, setters | `RiscvState` (control), `CoreStep` (general registers) |
| instructions | `riscv_instruction.C/.h`, `rv32i_instrs.C` | decoded fields, pending memory operations | factory, `Step`, `Execute`, `Writeback` | `Simulator` (effect on control), `CoreStep` (effect on data) |
| machine timer | `timer.C/.h` | counter, compare value | `Write`, `AdvanceTimer`, `InterruptPending`; `Read`, which changes nothing, is left out | `MachineTimer` |
| UART | `uart.C/.h`, `uart_pl011.C/.h` | two queues, PL011 registers, stdin | `Read`, `Write`, `Transmit`, `Receive`, `ServiceIOs` | `Uart` |
| physical memory | `physical_memory.C` | map of 32-byte blocks, each byte free or defined | `Read`, `Write`, `AddressList`, `ReadInitialState` | `PhysicalMemory`, implements `ByteMemory` |
| memory interface | `memory.C` | address range, devices | `ReadMemory`, `WriteMemory`, validation, routing | `CoreStep`, `TestImage` |
| debug server | `debug_server.C`, `riscv_debug_server.h` | breakpoints, run/step flags, connection | pre- and post-step checks, `Poll`, request handlers | `DebugServer` (flow of control), `CoreStep` (registers and memory) |
| RSP, TCP | `rsp.C`, `tcp_server.C` | packet buffer, acknowledgement | decode, encode, dispatch | `DebugServer` |
| ELF | `elfio.C`, `libelf_interface.c` | sections, file blocks | `Load`, `Save` | `TestImage` |
| exclusive monitors | `exclusive_monitor.h` | tagged address per core | set, clear, check | not modelled: no instruction uses them |
| options | `program_options.C`, `sim_config.*` | configuration record | parse | its results are CONSTANTS |

**Interactions.** One thread runs everything. `Go` loads the image, then runs rounds: step each ready
core once in a random order, advance the clock, service timer and UART (which set `mip` bits of core
0), recompute the ready list. `StepCore` copies the core, lets a pending interrupt in on the copy,
fetches through memory, lets the debug server look at (and change) the copy, executes on the copy,
and writes the copy and the stores back. Stores may reach the timer or UART.

**What makes it hard.**

- A round uses a ready list computed before its first step.
- A step works on a copy which several early returns throw away.
- The copy is built by setters that read the (uninitialised) old value.
- Sleeping is a bit of the core, waking is a consequence of `mip`, `mie` and `mstatus` together, and
  ending a test is a third bit; `Go` decides from all of them whether to go on.
- 64-bit device registers are accessed in halves between which the clock ticks.
- The debugger stops between fetch and execute and may change PC, registers and memory.
- Memory is read and written in pieces across blocks; its storage comes uninitialised and is
  tracked byte by byte.
- An access is routed by its first address and only that one is wrapped; the result of a load is
  used whether or not the device accepted it.
- The UART's two queues hold characters in two places and one bit says which is in use.
- A TCP read returns whatever has arrived, so acknowledgement, interrupt and request can come
  together; an undecodable read lets the core run.
- A dump chooses its block size from an estimate that differs from what it writes.

## 2. Modules

**`RiscvState`** — operators on a record that holds what decides control in one core. A CSR is the
set of its one bits, so the masks of the C++ code are set differences. `MSTATUSafter` and
`MISACafter` are the setters with their dependence on the old value. `mcause`, `mtval` and the
counters are data that never decide control and are left out; general registers are in `CoreStep`.

**`MachineTimer`** — counter and compare value of `2 * WordBits` bits, wrap-around included.
`OrHi` is the `|=` of the code, by way of `BitOr`, the bitwise OR as a recursive function. Powers of
two are the recursive function `Pow2`, which can be reasoned about where `2^n` cannot.

**`Simulator`** — composes `RiscvState`, one `MachineTimer` and the loop. The variable `at` is the
program counter of `Go`:

    load -> loop -> step -> fetch -> [debug ->] execute -> step ... step -> loop ... -> returned -> exited

`StepCore` is cut exactly where it can return early or where the debug server may act. Actions and
code:

| action | code |
|---|---|
| `LoadTestImage`, `EnterRound`, `GoReturns` | `Go` |
| `Exit` | rest of `run_simulation` |
| `ServiceRound` | end of `StepCores`, `AdvanceClock`, `ServiceDevices`, `GetReadyCpus` |
| `BeginStep` | `StepCore` to the assignment of `pc` |
| `Fetch` | the `try` block |
| `DebugResume`, `DebugEnds` | `DebugPreStepChecks` |
| `ExecuteAndWriteback` | the rest of `StepCore` |

The program is arbitrary: a fetch returns any member of the constant `Instrs`. An instruction is a
record: a class of effect on control (`next`, `jump`, CSR writes, `ecall`, `mret`, `wfi`, ...), a
size, a value. This over-approximates every program that consists of such instructions. The ready
list is a set, since `random_shuffle` makes every order possible. Uninitialised registers are
chosen from constant sets in `Init`, and again for the fresh copy in `BeginStep`.

Memory ranges over the whole 32-bit space (`DefaultAddressRange` in `sim_config.h`). Upper address
bits are stripped and the simulator's own accesses pass `for_test` false, so the `catch` branches
around fetch, load and store are never taken and have no action. The UART's interrupt line is any
Boolean per round, which covers everything `Uart` can do to it. `instr_count` stays 0 when there is no limit, since it is then only printed.

**`PhysicalMemory`** — the block store. A block has current bytes, initial bytes and the set of
offsets that are free; `Garbage` is what `new` leaves in storage. A block is named by its number.
The map is keyed by 64-bit addresses, so an access that runs over the last address reaches a block
behind the last one, which the model has too.

| action | code |
|---|---|
| `AnyWrite` / `Write` | `PhysicalMemory::Write`, `BlockWrite`, `MemBlock::Write`; initial values only as the ELF reader writes them |
| `AnyRead` / `Read` | `PhysicalMemory::Read`, `BlockRead`, `MemBlock::Read`, both values of `init_if_free` |
| `RefusedRead`, `RefusedWrite` | a debugger's access that `ValidateAccess` refuses, because it is longer than a block or has no bytes; the entry of the map is there by then. The read is answered with an error, the write throws what nobody catches and the process ends |
| `Dump` | `AddressList`, `ReadInitialState` as called by the ELF writer |

**`ByteMemory`** — what the memory promises: a flat map from addresses to bytes. A byte nobody wrote
has a value that is open until the memory commits to it, and fixed from then on; a read reports
whether all, some or none of its bytes were defined. `PhysicalMemory` instantiates it with the
mapping `Contents`, `InitialContents`, `DefinedAddresses`.

**`CoreStep`** — one core at the level of its data: registers, memory behind the routing of class
`Memory`, one device, and the debugger that reads and writes while the core is stopped between
fetch and execution. A word is four bytes, least significant first; `Garbage` is a byte of the
instruction's buffer `mbuf` that nobody wrote. Memory is flat, which `BlocksImplementBytes` justifies.
`Validated` is the stripping of upper address bits, `InRange` the routing; the device takes words at
its registers and refuses everything else. The PC is any address, since a debugger may set any value;
instructions have two or four bytes and targets are aligned to two or four. The variables `stored`,
`lost`, `refused`, `set` and `pending` record history: `stored` is memory as the stores mean it, byte `i`
of a store at its address plus `i`, around the end of memory and whatever lies there; `lost` are the bytes
whose last store began in the window or went around; `pending` are the registers the debugger has set in
the copy, `set` those that have reached the core.

| action | code |
|---|---|
| `Fetch` | `StepCore` up to `PreStepChecks`: the copy, an interrupt that may be taken, the instruction |
| `Load`, `Store` | `MEMORY_READ`, `LB` ... `SW`, `Writeback`, `ReadMemory`, `WriteMemory` and below |
| `Other`, `Jump`, `Trap`, `ReadOnlyCSR` | instructions by what they do to registers and PC; a jump links, or traps on a misaligned target; the last one writes `rd` and then throws |
| `ReadRegister`, `WriteRegister` | the debug server's register requests, with their numbering (31 is the stack pointer, 32 the PC) |
| `ReadsMemory`, `WritesMemory` | its memory requests, malformed values included |
| `KillTarget` | the request `k` |
| `Continue`, `Abandon` | the end of `Poll`: execution goes on with the copy, or after `k` `StepCore` returns early and drops it |

**`Uart`** — both queues of the PL011, each with its FIFO and its holding register, between the cores'
accesses to the registers and a terminal. A character is the number of its arrival, so that losing,
repeating and reordering show. A round lets every core do one access; `ServiceIOs` is `Transmit`, then
`Receive`, then the interrupt line to core 0. `stdin` has two parts, what the terminal holds
(`kernel`, where `select` looks) and what `getchar` has read ahead (`stdio`). The terminal may type,
send the null character (which `Receive` drops) and close.

**`DebugServer`** — the debug server with its client (external) and connection, around a round of
`StepCore`s: `PreStepChecks`, `Poll` (`PollServes`, `PollFails`), `Execute` with `PostStepChecks`,
`EndRound`, `BrokenPipe`. The client sends one request at a time while it takes the target to be
stopped, acknowledges each packet, may interrupt a running target and may hang up at any moment. A
read returns any non-empty prefix of what has arrived; `Decodes` says which of them `Decode` accepts.
Requests that change neither the server's flags nor its breakpoints are one kind, `other`.

**`TestImage`** — the life of an image: `OpenFile`, `CannotOpen`, `LoadSection`, `ReadFails` and `Loaded`
(`LoadTestImage`, `ELFIO::Load`), `Load`, `Store` and `EndRun` (the program), `WriteTestSignature`, `Dump`
(`DumpTest`, `ELFIO::Save`: block size, sections, their bytes) and `Reload`, another run that loads
the dump. `SectionCount` is `e_shnum`, which is 0 from `MaxSections` sections on. `Ascending` is the order
of the blocks: they come from a sorted list, and masking keeps the order. `Storage` goes on one block
behind the last address, where an access at one of the last addresses ends; that block is dumped like any
other. A block of a section that begins in the window of a device (`Devices`) goes to the device, whole.
`ReadsBehindEnd` is the dump that reads the block behind the end byte by byte, and throws.

`Load` adjusts the address of a section that begins above memory and then only assumes, in its own
words, "all data addresses within this section will be okay" (`elfio.C:307`). `StaysInMemory` makes the
assumption precise: the section is no longer than memory, and if it passes the top of memory it does so
between two blocks. Otherwise the block at the top runs on into addresses above memory, which nothing
reads, and its last bytes are missing at the bottom. The assumption is on the files (`Images`).

**`SimulatorProofs`**, **`PhysicalMemoryProofs`**, **`CoreStepProofs`**, **`UartProofs`**,
**`DebugServerProofs`**, **`MachineTimerProofs`**, **`TestImageProofs`** — the theorems; **`Induction`** —
induction and recursion over the naturals, which the last two use. **`MCSimulator`**, **`MCMachineTimer`**,
**`MCPhysicalMemory`**, **`MCCoreStep`**, **`MCUart`**, **`MCTestImage`** — the instances for TLC;
`MCMachineTimer` adds history variables. Definitions called `Mutant...` are plausible errors in the
definition that follows them; nothing uses them. They show that each property can fail.

**How the modules meet.** `Simulator` composes `RiscvState` and `MachineTimer`. `CoreStep`, `Uart` and
`DebugServer` each contain the round or the step of `StepCore` they depend on, with everything else
in it arbitrary: composed in one state space they would be out of TLC's reach, and no property needs
the data of one together with the data of another. `CoreStep` and `TestImage` take memory to be flat,
which is what `PhysicalMemory` is proved to implement.

## 3. What is model-checked

| run | instance | shows |
|---|---|---|
| `sched` | 2 cores, limit 6, timer, UART, ISA test, `FairSpec`; 730,159 states | `ReadyListFresh`, `EndedCoresAreAwake`, `OthersSleepForEver`, `InterruptsAreTaken`, `EndsOrSleeps` |
| `trap` | 1 core, no limit, every reset value of the interrupt bits, half-word reset address, compressed instructions, debugger; 5,478,428 states | `TypeOK`, `TrapReturnRestores`, `WordAlignedWithoutC`, `NoLostInterrupt` |
| `timer` | 2-bit words, 4 writes; 3,920 states | `TimerTypeOK`, `LoThenHiPrograms`, `ArmedTimerFires` |
| `memory` | blocks of 4 bytes, split, single-byte and refused accesses; 19,881 states | `MemoryTypeOK`, `NoGarbage`, `ImplementsByteMemory`, `OnlyRefusedAccessesLeaveHoles` |
| `core` | 12 bytes of memory around a device's window, 3 instructions or requests; 3,164,627 states | `CoreStepTypeOK`, `LoadsGetWhatWasStored`, `GarbageComesFromRefusedLoads`, `DebuggerWritesStick` |
| `uart` | 2 cores, queues of 2, 2 characters in and 4 out, `FairSpec`; 1,009,084 states | `UartTypeOK`, `NoInputLost`, `OneDriverLosesNothing`, `InputInOrder`, `SentOnce`, `OverrunInterrupts`, `WrittenIsSent` |
| `debug` | 2 cores, 3 instructions, 2 breakpoint addresses, 1 interrupt, `FairSpec`; 809,142 states | `DebugTypeOK`, `BreakpointsAreExact`, `StoppedMeansStopped`, `BreakpointsStop`, `RequestsAreAnswered` |
| `image` | 32 bytes in blocks of 2, seven command lines, a device, at most 7 sections; 153,882 states | `LoadedImage`, `DumpReloads`, `SectionsFit` |

Runs that TLC refutes, each a disagreement between the code and its own text (`findings` in
`PROJECT.json`):

| run | the text | the code |
|---|---|---|
| `trap_mpp` | "clear bits 12,11,7,3 of mstatus" (`riscv_core_state.C:310`) | the mask `0xc88` leaves bit 12: a trap from user mode can return to machine mode |
| `exit_status` | "we expect all cores to be 'properly' halted" (`riscv_simulator.C:97`) | the error code is overwritten (`main.C:66`) |
| `uart_input` | "read from (unbuffered) stdin one char" (`uart.C:49`) | `getchar` reads ahead into a buffer that `select` does not see: a character that has arrived can stay there for ever |
| `debug_kill` | "signal its time to end simulation and shut down" (`debug_server.C:425`) | the end is recorded in the copy of the core that is thrown away; the cores run on |

Smaller disagreements which the models contain and no run is spent on:

- `--max_instrs` is the "Maximum number of instructions per core" in the help text
  (`program_options.C:43`, `:77`); the count is over all cores, and even one core alone executes one
  instruction more than the maximum. What holds is `InstrLimit`, which is proved (`LimitHolds`).
- A write of a timer register's high word "overwrites upper 32 bits" (`timer.C:130`); it ORs.
  `LoThenHiPrograms` states the order of writes that works.
- "how could the resulting memory block pointer be null???" (`physical_memory.C:114`): an
  access refused for its size leaves a map entry without storage, which is listed for the dump
  (`OnlyRefusedAccessesLeaveHoles` says that nothing else does).
- For data the dump should have "the initial values, not the current values" (`physical_memory.C:107`);
  it has the current ones, since no block is ever classified as data (`IsData`; in `ByteMemory` a dump
  has the current bytes). Another comment says as much: "Currently NOT tracking initial memory"
  (`memory.C:774`). A third says that "Blocks of memory containing data only are NOT written"
  (`elfio.C:390`); they are.
- A write to the UART's TICR "clears interrupt bits" (`uart_pl011.C:241`); it sets the bits that are
  written and clears the others (`WriteTICR`).
- A word stored at `0xfffffffe` ends in a block behind the last address. That block is dumped, and when the
  dump is loaded it lands over block 0 (`elfio.C:301`): the exception in `DumpReloads`.
- A register that the debugger sets before it sends `k` loses its value, since the core runs on without
  the copy: the exception in `DebuggerWritesStick`.
- A CSR instruction on a read-only register writes `rd` before it throws (`ReadOnlyCSR`).
- At end of file `getchar` returns EOF in every round, and each one is queued as a character (`Uart`,
  `EOF`).
- Nobody handles SIGPIPE: a client that hangs up before an answer ends the process (`BrokenPipe`).
- A dump of `0xff00` sections or more, the two the format adds included, reloads as an empty image:
  the premise of `DumpReloads`, and why `SectionsFit` does not mean that a dump can be loaded.

**Bounds.** Two cores are enough for one to disturb another; six instructions cover "enable
interrupts (two writes), arm the timer, sleep" on one core and steps of the other. `AddressSpace` is 48 in `sched` so
that interrupt vectors (28 and 44) are inside it, and 8 in `trap` so that they wrap.
`WordBits` is 1 in the composed runs and 2 in `timer`, where the high word needs two values to show
OR against overwrite. In `sched` software arms the timer by its high word, which with one-bit words makes
the compare value 2, so that there are rounds before the interrupt. In `memory`, one access is split 2 + 2 over two blocks, single bytes on either
side of the boundary make its halves differ in what is defined, and one access runs past the last
address. The split access is a block long, so it also occurs with initial values. `rand()` returns
one value and writes have two, which is enough to tell written from initial bytes. Refused sizes are 0
and one more than a block.

In `core` the window is the middle one of three words, so that accesses of each size stay in memory, reach
into the window, begin in it, leave it, or go past the end of memory, and one address has upper bits set;
three operations are enough for "fetch, debugger writes a register or memory, next instruction stores or
loads it", and for a store and a load with different sizes. The PC has four values, two of them
misaligned. In `uart` a FIFO of 2 is filled by two cores in
two rounds, of which one character is sent in between: the fourth character written is the first that
a full FIFO can refuse (`MaxWritten`). Two typed characters are what read-ahead needs. In `debug` three
messages may wait (`MaxSent`), enough for an acknowledgement, an interrupt and a request in one read;
address 6 is a breakpoint that lies across two instructions. Software writes
only 0 to TICR in `uart` (`Clears`); with a bit set the run would take longer than its time.
In `image` seven sections are exceeded by blocks of 2 bytes but never by blocks of 8; the last trial size, 32,
covers all of memory, as the last of the real ones does; the files overlap, end inside a block, wrap
around the top, cover the window of the device, cannot be read, or are missing; accesses begin in the
window, end behind it and go over the last address.

**Fairness.** One thread runs the simulator, so weak fairness is assumed of its next step and of nothing
else in it: in `Simulator`, of `Next`, whatever the devices and the choice of instruction; in
`MachineTimer`, of the tick, since `ServiceDevices` ticks in every round; in `Uart`, of the cores' steps and
`ServiceIOs` together. Software and the terminal owe nothing. `DebugServer` has it for the simulator's
step, and for `ClientReceives`: TCP delivers what was sent. The client need never send anything.

## 4. What is proved

Each theorem holds for every value of the constants that the module's named `ASSUME` allows.

`SimulatorProofs`: every number of cores, program, limit, address space, reset contents and width of a
word of the timer.

- `TypeCorrect`: `Spec => []TypeOK`. Each operator of `RiscvState` has a typing lemma, then one
  step per action.
- `SchedulingSafe` (`ReadyListFresh`) and `EndedCoresStayAwake` (`EndedCoresAreAwake`). They are
  inductive only together with `CopyConsistent`: during a step the copy has not ended its test, and
  lacks of the core's pending bits at most the one being serviced. The key lemma, `BeginStepWakes`,
  shows that a ready core's copy is awake after the interrupt test although `Update` filters
  `mstatus` through an uninitialised old value.
- `LimitHolds`: `InstrLimit`, the limit is overshot by at most one instruction per core, from `RoundBudget`:
  in a round the count plus the cores still to be
  stepped stays within the limit plus the number of cores.
- `InterruptsAreNotLost` and `OthersAreNotWoken`: action properties, from the same
  invariant and `CoreChanges`, which says which steps change a core.
- `TrapsReturn`: from the types and `PopAfterPush`, a fact about the two operators.
- `Alignment`: `WordAlignedWithoutC`, under `AlignedInputs`: the code never aligns `mtvec` or a PC
  written by the debugger, so these are assumed aligned. The invariant adds that while a core
  without C is stepped, the copy has no C either and `pc` is aligned.
- `SimulatorDrivesTimer`: `Spec => Timer!Spec`, the simulator implements `MachineTimer` by itself. Step by
  step, with `FetchedInv` (what is executed was fetched, so what is stored is a word, by
  `TimerStoresAssumption`). `TimerTyped` below therefore holds of the timer in the simulator.

`Induction`: the library's induction theorems take a predicate as a parameter and cannot be used, but
that every non-empty set of naturals has a least element is a statement about sets. `SetInduction` (a set
that contains 0 and successors contains every natural) and `Recursion` (a function on a set can be
iterated) follow from it, and with them a recursive function is proved to satisfy its equation.

`MachineTimerProofs`: every width of a word, advance, and any number of writes.

- `TimerTyped` (`TimerTypeOK`). `Pow2Equation` and `BitOrEquation` show that the two recursive functions
  exist; `BitOrType`, by induction on the number of bits, that an OR of `n` bits is below `2^n`.
- `ProgrammedLoThenHi` (`LoThenHiPrograms`), from `ProgramInv`, which adds the types. `BitOrZero` and
  `BitOrShifted`, both by induction, give `OrHiOfLo`: OR-ing a high word into a value that was just
  replaced by a low word is adding it, which is all that makes the code's `|=` correct.

`TestImageProofs`: every size of memory, block size, list of trial sizes that divide memory, are multiples
of the block size and end with all of memory, section limit, files as described under `StaysInMemory`,
signature range, devices and accesses. Loading and dumping rest on one inductive invariant, `Inv`: types; `Loading`,
that in the middle of loading some `f` files and `k` sections are done and memory is what these give
(`LoadedSoFar`); `DumpSaves`, that for each address with a value outside of windows the last section of the dump that has a byte for
it has the one that will be found; and which file the second run loads.

- `ImageLoaded` (`LoadedImage`). `TargetIsPlace` and `PlaceInverse` show that the address to which a byte is
  written, block by block, is its place counted around the top of memory, and `WrittenOnce` that no
  two bytes of a section meet; `LoadSectionEffect` is then one section's effect on one address.
- `DumpReloaded` (`DumpReloads`). `MaskedTwice` (masking with the block size first changes nothing),
  `AscendingFacts` (the sorted list has each block once) and `SectionFacts` give `DumpEffect`; the rest is
  `ImageLoaded` for the second run (`SavedIsFound`).
- `SectionsAreFew` (`SectionsFit`). `ChosenSize`: the estimate misses at most the block at address 0, and
  the limit is tested with `<`, so the number of sections is at most the maximum. `EstimateOfAll`: for the
  largest trial size the estimate is at most 1, so the search always ends with a size that fits and the error
  "footprint too large" (`elfio.C:457`) cannot occur.

`PhysicalMemoryProofs`: every block size, address space, byte type and set of accesses up to
a block long.

- `MemoryTypeCorrect`, `GarbageIsNotRead`: from the inductive invariant `MemoryInv`, which says of
  each block that it is either as the map created it, or has an initial value for every byte and a
  current one for every byte that is not free, and is in the map. It is the conjunction of the
  two (`InvMeans`), since `NoGarbage` by itself says nothing of the shape of a block.
- `BlocksImplementBytes`: `Spec => ImplementsByteMemory`. `Decomposition` relates addresses to
  block and offset; `OverwriteBytes`, `BlockWriteBytes` and `BlockReadBytes` say what one block
  operation does to each byte; `WriteStep` and `ReadStep` put the halves of a split access together;
  `OneBlockCode` and `CombinedCode` show that the code of a split read is that of the whole. One
  refinement lemma per action follows.
- `HolesComeFromRefusedAccesses` (`OnlyRefusedAccessesLeaveHoles`): every block an access touches has storage afterwards
  (`TouchedHaveStorage`).

`CoreStepProofs`: every size of memory, place and extent of the device's window, set of device
registers, addresses and values, any number of instructions and requests.

- `CoreTypeCorrect`, from `TypeInv`, which adds the shape of the fetched instruction.
- `MemoryKeepsWhatWasStored` (`LoadsGetWhatWasStored`): memory agrees with the history `stored` on every
  byte that is not `lost`, in the window too, and what a load puts into its register are bytes of memory;
  one lemma on `WritePhysicalMemory` carries it.
- `RegistersKeepWhatWasSet`, from `StickInv`: what the debugger has set is in the copy while the core is
  stopped or executes, and in the core before the next fetch; when the copy is dropped `pending` falls back
  to `set`.
- `GarbageIsContained`, from `CleanInv`: until a load was refused no register, copy, byte of memory or
  device register holds garbage. `MemorySteps` proves the memory part of both invariants at once, for an
  arbitrary set of words that instructions and debugger may store.

`UartProofs`: every number of cores, queue size, read-ahead, and number of characters.

- `UartTypeCorrect`: `UartInv` adds the types of stdin and of the history.
- `InputIsKept`: `Receive` takes a character only when the part of the queue in use has room
  (`PutCharKeeps`).
- `OutputIsKept`: `OneDriverLosesNothing`. Inductive is `DriverInv`: with one driver the transmit queue is
  idle, or holds one character in the part in use and the driver has had its step in this round.
- `OutputIsSentOnce`: `DistinctInv`: the characters sent and held are distinct and were all written.
- `InputIsInOrder`: `OrderInv`: what waits in stdin rises, everything in `getchar`'s buffer comes before
  what the terminal holds, and unless the FIFOs were switched over waiting characters the receive
  queue uses one of its parts only and comes before both.

`DebugServerProofs`: every number of cores, program, breakpoint and any number of requests and
interrupts.

- `BreakpointsMatchExactly` and `BreakpointsHold`, from `DebugInv` (types) and `PolledInv` (a
  core that is about to execute under a breakpoint has polled).
- `DebugTypeCorrect` and `StopsHold` (`StoppedMeansStopped`): from `Session`, the state of the
  conversation as long as every read decodes: at most one request or one reply is on its way, and whenever
  there is one, or the client takes the target to be stopped, the server is `Halted`, that is, it
  polls or will poll before it executes another instruction.

Only model-checked are the liveness properties `InterruptsAreTaken`, `EndsOrSleeps`, `ArmedTimerFires`,
`OverrunInterrupts`, `WrittenIsSent` and `RequestsAreAnswered`: fairness is beyond the prover.

## 5. Not modelled

- *Exclusive monitors*: classes without a caller.
- *Option parsing* and the configuration record: they give the constants their values.
- *The arithmetic and the encodings of single instructions, disassembly, logging*: sequential functions of
  their operands, of which a bounded model would be a second implementation. An instruction appears by
  what it does to control, registers and memory.
- *CSRs that nothing in the simulator looks at* (`mscratch`, `mcause`, `mtval`, counters,
  performance events): data.
- *The characters of RSP packets, checksums, ELF headers and libelf itself*: input and output, whose
  failures appear as results (`PollFails`, `CannotOpen`).
- *Watchpoints*: recorded by the debug server and never looked at.
- *`Memory`'s loops over blocks, page crossings and classification of blocks*: no caller makes an access
  longer than a block but the debugger's refused ones, the MMU reports no crossings, and the
  classification is compiled out.
- *Sockets before a client is connected*: the simulator waits for it and does nothing else.
