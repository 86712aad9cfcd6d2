-------------------------------- MODULE CoreStep --------------------------------
(***************************************************************************)
(* One core between its registers, memory and the memory-mapped devices,   *)
(* and the debugger that looks at it where it stops: StepCore at the level *)
(* of the data.  An instruction is fetched, the debugger may read and      *)
(* write while the core is stopped before it, then it is executed on a     *)
(* copy of the registers and written back; or the debugger has asked for   *)
(* the end of the session, and the copy is dropped.                        *)
(*                                                                         *)
(* A word is four bytes, least significant first.  A byte is a number or   *)
(* Garbage, the value of storage that nobody has written: the buffer mbuf  *)
(* of a new instruction.  Memory is the flat memory that PhysicalMemory    *)
(* implements.  The program is arbitrary; an instruction's address is what *)
(* RS1() + imm comes to, which may lie outside the 32-bit range.           *)
(***************************************************************************)
EXTENDS Integers, FiniteSets

CONSTANTS
    Bytes,              \* values of a byte, numbers from 0 to 255
    Garbage,
    Fills,              \* what memory may be filled with at the start
    Size,               \* size of the physical memory, pa_mask() + 1
    Base, Extent,       \* the device's window, InRange
    DeviceRegs,         \* addresses in it that are registers,
    PopRegs,            \*  ... those whose value a read takes (the uart's DR)
    Addresses,          \* addresses that instructions and the debugger use
    Words,              \* values that the debugger writes and CSRs hold
    Malformed,          \* a value in a packet that is not hexadecimal
    XRegs,              \* general registers other than x0
    CodeSize,           \* the PC wraps here
    Handlers,           \* where mtvec and mepc may point
    MaxOps              \* bound: instructions and debugger commands

Sizes == {1, 2, 4}
Zero  == [i \in 0 .. 3 |-> 0]
Word  == [0 .. 3 -> Bytes \cup {Garbage}]
Cells == 0 .. Size + 2      \* an access that starts at the last address goes past it
PCs   == 0 .. CodeSize - 1

ASSUME CoreStepAssumption ==
    /\ Bytes \subseteq 0 .. 255 /\ {0, 255} \subseteq Bytes /\ Garbage \notin Bytes
    /\ Fills \subseteq Bytes
    /\ Size \in Nat /\ Size >= 4 /\ Base \in Nat /\ Extent \in Nat
    /\ DeviceRegs \subseteq Base .. Base + Extent /\ PopRegs \subseteq DeviceRegs
    /\ Addresses \subseteq Int /\ Words \subseteq [0 .. 3 -> Bytes] /\ Malformed \notin Word
    /\ 2 \in XRegs /\ XRegs \subseteq 1 .. 31
    /\ CodeSize \in Nat \ {0} /\ PCs \subseteq Bytes /\ Handlers \subseteq PCs /\ MaxOps \in Nat

VARIABLES
    X, pc,              \* the core
    at,                 \* "fetch", "stopped" (in PreStepChecks) or "execute"
    instr,              \* the instruction fetched; its pc is instr_pc
    copy, copy_pc,      \* state_updates
    ram, free,          \* memory, and its bytes that were never given a value
    dev,                \* device registers
    response,           \* the debug server's response to the last request; E: any error
    do_shutdown,        \* the debugger has sent 'k'
    ops,
    \* history:
    stored,             \* memory as the stores mean it: byte i of each goes to address + i
    lost,               \* bytes whose last store began in the window, or wrapped around
    refused,            \* a load got no data: no register there, or not a word
    set,                \* registers the debugger set, until an instruction sets them
    pending             \*  ... those of the copy

core   == <<X, pc>>
step   == <<at, instr, copy, copy_pc>>
memory == <<ram, free, dev, stored, lost>>
vars   == <<core, step, memory, response, do_shutdown, ops, refused, set, pending>>

-----------------------------------------------------------------------------
(* Memory: from the interface of class Memory down to a device or the flat *)
(* memory.  The sizes are below PM_BLOCK_SIZE, so that the loops of        *)
(* ReadMemory and WriteMemory over blocks do not run.                      *)

\* ValidatePhysicalMemoryAddress strips the upper bits; nothing is out of range then
Validated(address) == address % Size

InRange(a) == Base <= a /\ a <= Base + Extent

Span(a, n) == a .. a + n - 1

\* the device takes only words, at the addresses of its registers
Accepts(a, n) == a \in DeviceRegs /\ n = 4

\* what the device puts into the buffer: nothing, if it refuses
ReadDeviceMemory(a, n, buffer) == IF Accepts(a, n) THEN dev[a] ELSE buffer

WriteDeviceMemory(a, n, word) == dev' = IF Accepts(a, n) THEN [dev EXCEPT ![a] = word] ELSE dev

MutantReadData(address, n, buffer) ==
    LET a == Validated(address)
    IN  IF InRange(a) THEN ReadDeviceMemory(a, n, buffer)
        ELSE [i \in 0 .. 3 |-> IF i < n - 1 THEN ram[a + i] ELSE buffer[i]]

\* what ReadPhysicalMemory puts into the buffer
ReadData(address, n, buffer) ==
    LET a == Validated(address)
    IN  IF InRange(a) THEN ReadDeviceMemory(a, n, buffer)
        ELSE [i \in 0 .. 3 |-> IF i < n THEN ram[a + i] ELSE buffer[i]]

\* whether its code is not 0: a device's error, or bytes that had no value
ReadFails(address, n) ==
    LET a == Validated(address)
    IN  IF InRange(a) THEN ~Accepts(a, n) ELSE Span(a, n) \cap free # {}

\* what it leaves behind: init_if_free gives bytes their value, a device may pop
ReadPhysicalMemory(address, n) ==
    LET a == Validated(address)
    IN  /\ free' = IF InRange(a) THEN free ELSE free \ Span(a, n)
        /\ dev' = IF a \in PopRegs /\ n = 4 THEN [dev EXCEPT ![a] = Zero] ELSE dev
        /\ UNCHANGED <<ram, stored, lost>>

Put(bytes, S, a, word) == [b \in DOMAIN bytes |-> IF b \in S THEN word[b - a] ELSE bytes[b]]

\* the history of a store: byte b of memory is byte b - address of the word, modulo Size
Records(address, n, word) ==
    LET offset(b) == (b - Validated(address)) % Size
    IN  /\ stored' = [b \in 0 .. Size - 1 |-> IF offset(b) < n THEN word[offset(b)] ELSE stored[b]]
        /\ lost' = {b \in 0 .. Size - 1 : IF offset(b) < n THEN InRange(Validated(address)) \/ b < Validated(address)
                                         ELSE b \in lost}

MutantWritePhysicalMemory(address, n, word) ==
    LET a == Validated(address)
    IN  /\ WriteDeviceMemory(a, n, word)
        /\ IF InRange(a) THEN UNCHANGED <<ram, free>>
           ELSE ram' = Put(ram, Span(a, 4), a, word) /\ free' = free \ Span(a, n)
        /\ Records(address, n, word)

\* the first address alone decides whether the device or memory gets the bytes
WritePhysicalMemory(address, n, word) ==
    LET a == Validated(address)
    IN  /\ WriteDeviceMemory(a, n, word)
        /\ IF InRange(a) THEN UNCHANGED <<ram, free>>
           ELSE ram' = Put(ram, Span(a, n), a, word) /\ free' = free \ Span(a, n)
        /\ Records(address, n, word)

\* the accesses of instructions: translation is the identity and no access crosses a
\* page, so that one RegionAccess is left of them
ReadMemoryBlock(address, n)        == ReadPhysicalMemory(address, n)
WriteMemoryBlock(address, n, word) == WritePhysicalMemory(address, n, word)

-----------------------------------------------------------------------------
(* Instructions *)

Instrs == [op : {"load", "loadu", "store"}, address : Addresses, size : Sizes, reg : XRegs]
              \cup [op : {"other", "jump", "trap", "csrw"}, address : {0}, size : {4}, reg : {0, 2}]

\* between two steps there is none
NoInstr == [op |-> "other", address |-> 0, size |-> 4, reg |-> 0, pc |-> 0]

GP(x, r)          == IF r = 0 THEN Zero ELSE x[r]
SetGP(x, r, word) == IF r = 0 THEN x ELSE [x EXCEPT ![r] = word]

\* MEMORY_READ takes n bytes of mbuf; LB and LH sign-extend them
Extended(word, n, signed) ==
    LET top == word[n - 1]
    IN  [i \in 0 .. 3 |-> IF i < n THEN word[i]
                          ELSE IF ~signed THEN 0
                          ELSE IF top = Garbage THEN Garbage
                          ELSE IF top >= 128 THEN 255 ELSE 0]

\* the low byte of a word is enough for the PC, and a PC is a byte of a word
PCOf(word) == word[0] % CodeSize
WordOf(p)  == [i \in 0 .. 3 |-> IF i = 0 THEN p ELSE 0]

\* memory is filled with some value; nothing of it has been accessed
Init ==
    /\ X = [r \in XRegs |-> Zero] /\ pc = 0
    /\ at = "fetch" /\ copy = X /\ copy_pc = pc
    /\ instr = NoInstr
    /\ \E v \in Fills : /\ ram = [b \in Cells |-> v]
                        /\ stored = [b \in 0 .. Size - 1 |-> v]
    /\ free = Cells
    /\ dev = [r \in DeviceRegs |-> Zero]
    /\ response = "none" /\ do_shutdown = FALSE /\ ops = 0
    /\ lost = {} /\ refused = FALSE /\ set = <<>> /\ pending = <<>>

\* the copy is made, a pending interrupt sends it to its handler, and the instruction is
\* constructed, which captures instr_pc.  The fetch gives no byte a value
Fetch ==
    /\ at = "fetch" /\ ops < MaxOps /\ ops' = ops + 1
    /\ copy' = X /\ copy_pc' \in {pc} \cup Handlers
    /\ \E i \in Instrs : instr' = [op |-> i.op, address |-> i.address, size |-> i.size, reg |-> i.reg, pc |-> copy_pc']
    /\ at' \in {"stopped", "execute"}
    /\ pending' = set
    /\ UNCHANGED <<core, memory, response, do_shutdown, refused, set>>

\* the address behind an instruction, which is compressed or not
InstrSizes == {2, 4}
next_pc(n) == (instr.pc + n) % CodeSize

\* Writeback: the core takes the copy's registers, of which rd was written, and its new PC
Retire(x, rd, new_pc) ==
    /\ at = "execute" /\ at' = "fetch" /\ instr' = NoInstr
    /\ X' = x /\ copy' = x /\ pc' = new_pc /\ copy_pc' = new_pc
    /\ pending' = [q \in DOMAIN pending \ {rd} |-> pending[q]]
    /\ set' = pending'
    /\ UNCHANGED <<response, do_shutdown, ops>>

\* the data arrive while the instruction executes, in a buffer that nobody cleared;
\* the code of the read is ignored
Load ==
    LET buffer == [i \in 0 .. 3 |-> Garbage]
        word   == ReadData(instr.address, instr.size, buffer)
    IN  /\ instr.op \in {"load", "loadu"}
        /\ \E n \in InstrSizes :
               Retire(SetGP(copy, instr.reg, Extended(word, instr.size, instr.op = "load")), instr.reg, next_pc(n))
        /\ ReadMemoryBlock(instr.address, instr.size)
        /\ refused' = (refused \/ (ReadFails(instr.address, instr.size) /\ InRange(Validated(instr.address))))

\* the bytes are queued while it executes and written back; the code is ignored
Store ==
    /\ instr.op = "store"
    /\ \E n \in InstrSizes : Retire(copy, 0, next_pc(n))
    /\ WriteMemoryBlock(instr.address, instr.size, GP(copy, instr.reg))
    /\ UNCHANGED refused

\* an instruction that stays in the registers: rd gets what it computes
Other ==
    /\ instr.op = "other"
    /\ \E word \in Words, n \in InstrSizes : Retire(SetGP(copy, instr.reg, word), instr.reg, next_pc(n))
    /\ UNCHANGED <<memory, refused>>

\* JAL, JALR and branches (rd is x0): relative to the PC that they find in the copy, and
\* linked to it; a target that is not aligned is an exception, before rd is written.
\* Targets are aligned to two bytes if misa.C is set, or to four
Jump ==
    /\ instr.op = "jump"
    /\ \E target \in PCs, alignment \in {2, 4}, n \in InstrSizes :
           IF target % alignment = 0
           THEN Retire(SetGP(copy, instr.reg, WordOf((copy_pc + n) % CodeSize)), instr.reg, target)
           ELSE \E handler \in Handlers : Retire(copy, 0, handler)
    /\ UNCHANGED <<memory, refused>>

\* ProcessException sends it to the handler, or back with MRET
Trap ==
    /\ instr.op = "trap"
    /\ \E handler \in Handlers : Retire(copy, 0, handler)
    /\ UNCHANGED <<memory, refused>>

\* CSRRW to a read-only CSR: rd has its value when SetCSR throws
ReadOnlyCSR ==
    /\ instr.op = "csrw"
    /\ \E handler \in Handlers, csr \in Words : Retire(SetGP(copy, instr.reg, csr), instr.reg, handler)
    /\ UNCHANGED <<memory, refused>>

Execute == Load \/ Store \/ Other \/ Jump \/ Trap \/ ReadOnlyCSR

-----------------------------------------------------------------------------
(* The debugger's requests while the core is stopped before the instruction.
   Registers are those of the copy; the PC it reads is the one of the fetch *)

Request == /\ at = "stopped" /\ ops < MaxOps /\ ops' = ops + 1
           /\ UNCHANGED <<core, at, instr, refused, set>>

\* ReadGPRegisters and ReadRegister change nothing, nor does a request that does not parse
ReadRegister ==
    /\ Request /\ response' \in {"data", "E"}
    /\ UNCHANGED <<copy, copy_pc, memory, do_shutdown, pending>>

\* RegType: gdb's register 31 is the stack pointer x2, 32 the PC
RegType(i) == IF i < 31 THEN "GP" ELSE IF i = 31 THEN "SP" ELSE IF i = 32 THEN "PC" ELSE "bad"

RegIndices == (XRegs \cap 0 .. 30) \cup {0, 31, 32, 33}

MutantWriteRegister(i, value) ==
    LET r == IF RegType(i) = "SP" THEN 2 ELSE i
    IN  /\ Request
        /\ response' = IF value = Malformed \/ RegType(i) = "bad" THEN "E" ELSE "OK"
        /\ copy' = IF RegType(i) \in {"GP", "SP"} THEN SetGP(copy, r, value) ELSE copy
        /\ pending' = IF response' = "OK" /\ r \in XRegs
                      THEN [q \in DOMAIN pending \cup {r} |-> IF q = r THEN value ELSE pending[q]] ELSE pending
        /\ copy_pc' = IF response' = "OK" /\ RegType(i) = "PC" THEN PCOf(value) ELSE copy_pc
        /\ UNCHANGED <<memory, do_shutdown>>

\* 'P': a value that does not decode is refused and sets nothing; any other is taken, for
\* the PC too
WriteRegister(i, value) ==
    LET r == IF RegType(i) = "SP" THEN 2 ELSE i
    IN  /\ Request
        /\ response' = IF value = Malformed \/ RegType(i) = "bad" THEN "E" ELSE "OK"
        /\ copy' = IF response' = "OK" /\ RegType(i) \in {"GP", "SP"} THEN SetGP(copy, r, value) ELSE copy
        /\ pending' = IF response' = "OK" /\ r \in XRegs
                      THEN [q \in DOMAIN pending \cup {r} |-> IF q = r THEN value ELSE pending[q]] ELSE pending
        /\ copy_pc' = IF response' = "OK" /\ RegType(i) = "PC" THEN PCOf(value) ELSE copy_pc
        /\ UNCHANGED <<memory, do_shutdown>>

\* 'm': an error if the device refuses, or if some byte had no value; it has one then
ReadsMemory(address, n) ==
    /\ Request
    /\ response' = IF ReadFails(address, n) THEN "E" ELSE "data"
    /\ ReadPhysicalMemory(address, n)
    /\ UNCHANGED <<copy, copy_pc, do_shutdown, pending>>

\* 'M': the device's refusal is not reported
WritesMemory(address, n, value) ==
    /\ Request
    /\ IF value = Malformed THEN response' = "E" /\ UNCHANGED memory
       ELSE response' = "OK" /\ WritePhysicalMemory(address, n, value)
    /\ UNCHANGED <<copy, copy_pc, do_shutdown, pending>>

\* 'k' is answered like a request; the loop of Poll goes on
KillTarget ==
    /\ Request /\ response' = "X00" /\ do_shutdown' = TRUE
    /\ UNCHANGED <<copy, copy_pc, memory, pending>>

MutantContinue ==
    /\ at = "stopped" /\ ~do_shutdown /\ at' = "execute"
    /\ copy' = X
    /\ response' = "none"
    /\ UNCHANGED <<core, instr, copy_pc, memory, do_shutdown, ops, refused, set, pending>>

\* Continue, Step or a lost connection: PreStepChecks returns and StepCore goes on with
\* the copy ...
Continue ==
    /\ at = "stopped" /\ ~do_shutdown /\ at' = "execute"
    /\ response' = "none"
    /\ UNCHANGED <<core, instr, copy, copy_pc, memory, do_shutdown, ops, refused, set, pending>>

\* ... or, after 'k', returns early: the end of the test is set in the copy, which is
\* dropped, and the core comes to the same instruction again
Abandon ==
    /\ at = "stopped" /\ do_shutdown /\ at' = "fetch"
    /\ copy' = X /\ copy_pc' = pc /\ pending' = set /\ instr' = NoInstr
    /\ response' = "none"
    /\ UNCHANGED <<core, memory, do_shutdown, ops, refused, set>>

Debugger ==
    \/ ReadRegister
    \/ \E i \in RegIndices, value \in Words \cup {Malformed} : WriteRegister(i, value)
    \/ \E address \in Addresses, n \in Sizes : ReadsMemory(address, n)
    \/ \E address \in Addresses, n \in Sizes, value \in Words \cup {Malformed} : WritesMemory(address, n, value)
    \/ KillTarget
    \/ Continue
    \/ Abandon

\* the bound is reached
Stopped == at = "fetch" /\ ops = MaxOps /\ UNCHANGED vars

Next == Fetch \/ Execute \/ Debugger \/ Stopped

Spec == Init /\ [][Next]_vars

-----------------------------------------------------------------------------
(* Properties *)

\* Type correctness: a register holds four bytes, and the PC an address, whatever an
\* instruction or a debugger's packet put there, and memory's bytes keep their addresses
CoreStepTypeOK ==
    /\ X \in [XRegs -> Word] /\ copy \in [XRegs -> Word]
    /\ pc \in PCs /\ copy_pc \in PCs /\ instr.pc \in PCs
    /\ at \in {"fetch", "stopped", "execute"}
    /\ ram \in [Cells -> Bytes \cup {Garbage}] /\ free \subseteq Cells
    /\ dev \in [DeviceRegs -> Word]
    /\ stored \in [0 .. Size - 1 -> Bytes \cup {Garbage}] /\ lost \subseteq 0 .. Size - 1
    /\ response \in {"none", "data", "OK", "E", "X00"} /\ do_shutdown \in BOOLEAN /\ ops \in 0 .. MaxOps
    /\ refused \in BOOLEAN
    /\ DOMAIN set \subseteq XRegs /\ DOMAIN pending \subseteq XRegs

LoadGetsWhatWasStored ==
    LET a == Validated(instr.address)
    IN  at = "execute" /\ at' = "fetch" /\ instr.op \in {"load", "loadu"} /\ ~InRange(a) =>
            \A b \in Span(a, instr.size) : b < Size /\ b \notin lost => X'[instr.reg][b - a] = stored[b]

\* A load that begins in memory gets, in each byte below the end of memory, what an
\* instruction or the debugger last stored at that address, whatever the sizes, alignment
\* and upper address bits of the two and whatever the debugger read in between.  Only a
\* byte is lost whose last store began in the device's window, or went around the end of
\* memory: Read- and WritePhysicalMemory route an access by its first address and wrap only
\* that one
LoadsGetWhatWasStored == [][LoadGetsWhatWasStored]_vars

\* An instruction's uninitialised buffer reaches a register, memory or a device only
\* through a load that a device refused: MEMORY_READ ignores the code of ReadMemory
GarbageComesFromRefusedLoads ==
    \/ refused
    \/ /\ \A r \in XRegs, i \in 0 .. 3 : X[r][i] # Garbage
       /\ \A b \in Cells : ram[b] # Garbage
       /\ \A d \in DeviceRegs, i \in 0 .. 3 : dev[d][i] # Garbage

\* A register that the debugger set keeps its value, from the execution of the instruction
\* the core was stopped at until an instruction writes it, also while the debugger sets
\* others and ends its session: SetGP goes to the copy, which Writeback moves to the core.
\* What it sets at a stop that ends with 'k' is lost with the copy
DebuggerWritesStick ==
    \A r \in DOMAIN set : X[r] = set[r]
=============================================================================
