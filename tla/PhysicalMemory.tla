---------------------------- MODULE PhysicalMemory ----------------------------
(***************************************************************************)
(* The physical memory (classes PhysicalMemory and MemBlock): a map from   *)
(* block numbers to blocks of BlockSize bytes, allocated when they are     *)
(* first touched.  An access that crosses the end of a block is split.     *)
(* Each byte of a block is free until it is given a value; a free byte     *)
(* reads as the random initial value it got at allocation.                 *)
(*                                                                         *)
(* A block is named by its number, not by its address.  Garbage is what    *)
(* storage holds that was allocated and never assigned.                    *)
(***************************************************************************)
EXTENDS Integers, FiniteSets

CONSTANTS
    BlockSize,           \* PM_BLOCK_SIZE
    NumBlocks,           \* blocks of the address space
    Values, Garbage, Unknown,
    RandomValues,        \* what rand() may return
    Accesses             \* address and size of the reads and writes that fit a block

\* the map is keyed by 64-bit addresses and nothing wraps: a split access at the
\* end of the address space reaches the block after the last
Blocks    == 0 .. NumBlocks
Offsets   == 0 .. BlockSize - 1
Addresses == 0 .. (NumBlocks + 1) * BlockSize - 1

ASSUME PhysicalMemoryAssumption ==
    /\ BlockSize \in Nat \ {0} /\ NumBlocks \in Nat \ {0}
    /\ RandomValues \subseteq Values
    /\ Unknown \notin Values /\ Garbage \notin Values
    /\ Accesses \subseteq (0 .. NumBlocks * BlockSize - 1) \X (1 .. BlockSize)

VARIABLES
    mapped,         \* keys of physical_memory_by_block
    block,          \* its entries
    reply           \* the last operation, its address and what it returned

vars == <<mapped, block, reply>>

-----------------------------------------------------------------------------
(* MemBlock *)

MemBlock ==
    [allocated  : BOOLEAN,                            \* mptr # NULL, and mptr_init with it
     mptr       : [Offsets -> Values \cup {Garbage}],
     mptr_init  : [Offsets -> Values \cup {Garbage}],
     free_bytes : SUBSET Offsets]

\* no storage yet, and no free bytes until there is
NewBlock ==
    [allocated |-> FALSE, mptr |-> [o \in Offsets |-> Garbage],
     mptr_init |-> [o \in Offsets |-> Garbage], free_bytes |-> {}]

BlockAddress(address) == address \div BlockSize

Offset(address) == address % BlockSize

MutantAllocate(m, random) ==
    IF m.allocated THEN m
    ELSE [NewBlock EXCEPT !.allocated = TRUE, !.mptr_init = random, !.free_bytes = 0 .. BlockSize]

\* random[o] is what rand() gives for the byte at o
Allocate(m, random) ==
    IF m.allocated THEN m
    ELSE [NewBlock EXCEPT !.allocated = TRUE, !.mptr_init = random, !.free_bytes = Offsets]

ByteCount(m) == Cardinality(Offsets \ m.free_bytes)

\* the bytes of a buffer from index k on
Rest(buffer, k, n) == [i \in 0 .. n - k - 1 |-> buffer[k + i]]

Overwrite(bytes, offset, n, buffer) ==
    [o \in Offsets |-> IF o \in offset .. offset + n - 1 THEN buffer[o - offset] ELSE bytes[o]]

BlockWrite(m, offset, n, buffer, initial_values) ==
    [allocated  |-> m.allocated,
     mptr       |-> Overwrite(m.mptr, offset, n, buffer),
     mptr_init  |-> IF initial_values THEN Overwrite(m.mptr_init, offset, n, buffer)
                                      ELSE m.mptr_init,
     free_bytes |-> m.free_bytes \ (offset .. offset + n - 1)]

ByteAt(m, o) == IF o \in m.free_bytes THEN m.mptr_init[o] ELSE m.mptr[o]

MutantBlockRead(m, offset, n, init_if_free) ==
    IF init_if_free THEN [m EXCEPT !.free_bytes = @ \ (offset .. offset + n - 1)] ELSE m

\* the block after a read: with init_if_free the bytes read are no longer free
BlockRead(m, offset, n, init_if_free) ==
    IF init_if_free
    THEN BlockWrite(m, offset, n, [i \in 0 .. n - 1 |-> ByteAt(m, offset + i)], FALSE)
    ELSE m

ALL_BYTES_DEFINED    == 0
SOME_BYTES_UNDEFINED == 1
ALL_BYTES_FREE       == 2

BlockReadCode(m, offset, n) ==
    LET S == offset .. offset + n - 1
    IN  IF S \subseteq m.free_bytes THEN ALL_BYTES_FREE
        ELSE IF S \cap m.free_bytes = {} THEN ALL_BYTES_DEFINED ELSE SOME_BYTES_UNDEFINED

-----------------------------------------------------------------------------
(* PhysicalMemory *)

Init ==
    /\ mapped = {}
    /\ block = [b \in Blocks |-> NewBlock]
    /\ reply = [kind |-> "none"]

Split(a, n) == Offset(a) + n > BlockSize

\* how much of the access falls into the first block
FirstPart(a, n) == IF Split(a, n) THEN BlockSize - Offset(a) ELSE n

MutantTouched(a, n) == {BlockAddress(a)} \cup (IF Offset(a) + n >= BlockSize THEN {BlockAddress(a) + 1} ELSE {})

Touched(a, n) == {BlockAddress(a)} \cup (IF Split(a, n) THEN {BlockAddress(a) + 1} ELSE {})

Write(a, n, buffer, initial_values, random) ==
    LET b  == BlockAddress(a)
        n1 == FirstPart(a, n)
        W1 == BlockWrite(Allocate(block[b], random[b]), Offset(a), n1, buffer, initial_values)
        W2 == BlockWrite(Allocate(block[b + 1], random[b + 1]), 0, n - n1,
                         Rest(buffer, n1, n), initial_values)
    IN  /\ mapped' = mapped \cup Touched(a, n)
        /\ block' = IF Split(a, n) THEN [block EXCEPT ![b] = W1, ![b + 1] = W2]
                                   ELSE [block EXCEPT ![b] = W1]
        /\ reply' = [kind |-> "written", address |-> a, data |-> buffer]

MutantCombine(rcode1, rcode2) == IF rcode1 = rcode2 THEN rcode1 ELSE ALL_BYTES_FREE

\* the code of a split read from those of its halves
Combine(rcode1, rcode2) == IF rcode1 = rcode2 THEN rcode1 ELSE SOME_BYTES_UNDEFINED

Read(a, n, init_if_free, random) ==
    LET b  == BlockAddress(a)
        o  == Offset(a)
        n1 == FirstPart(a, n)
        m1 == Allocate(block[b], random[b])
        m2 == Allocate(block[b + 1], random[b + 1])
        rcode1 == BlockReadCode(m1, o, n1)
    IN  /\ mapped' = mapped \cup Touched(a, n)
        /\ IF Split(a, n)
           THEN /\ block' = [block EXCEPT ![b] = BlockRead(m1, o, n1, init_if_free),
                                          ![b + 1] = BlockRead(m2, 0, n - n1, init_if_free)]
                /\ reply' = [kind  |-> "read", address |-> a,
                             data  |-> [i \in 0 .. n - 1 |-> IF i < n1 THEN ByteAt(m1, o + i)
                                                                       ELSE ByteAt(m2, i - n1)],
                             rcode |-> Combine(rcode1, BlockReadCode(m2, 0, n - n1))]
           ELSE /\ block' = [block EXCEPT ![b] = BlockRead(m1, o, n, init_if_free)]
                /\ reply' = [kind  |-> "read", address |-> a,
                             data  |-> [i \in 0 .. n - 1 |-> ByteAt(m1, o + i)],
                             rcode |-> rcode1]

\* ValidateAccess throws MEM_ERROR; only the debugger asks for such sizes
Refused(n) == n <= 0 \/ n > BlockSize

RefusedSizes == {n \in 0 .. BlockSize + 1 : Refused(n)}

\* the map creates the entry before the access is refused: of a read, the debugger
\* answers E0 ...
RefusedRead(a, n) ==
    /\ Refused(n)
    /\ mapped' = mapped \cup {BlockAddress(a)}
    /\ reply' = [kind |-> "refused"]
    /\ UNCHANGED block

\* ... but of a write it catches only SIM_EXCEPTIONS, and MEM_ERROR ends the process
RefusedWrite(a, n) ==
    /\ Refused(n)
    /\ mapped' = mapped \cup {BlockAddress(a)}
    /\ reply' = [kind |-> "terminated"]
    /\ UNCHANGED block

Terminated == reply.kind = "terminated"

\* the blocks a dump consists of
AddressList == {b \in mapped : ByteCount(block[b]) > 0}

\* InvalidRegionAccess is 0 for every block, and SaveToELF takes this for "not data"
IsData == FALSE

\* ReadInitialState: what the dump file gets of block b
Dump(b) ==
    /\ b \in AddressList
    /\ reply' = IF block[b].allocated
                THEN [kind |-> "dump", address |-> b * BlockSize,
                      data |-> IF IsData THEN block[b].mptr_init ELSE block[b].mptr]
                ELSE [kind |-> "error"]
    /\ UNCHANGED <<mapped, block>>

\* the random bytes of the blocks a step allocates
Random(S) == [{b \in S : ~block[b].allocated} -> [Offsets -> RandomValues]]

\* only the loader writes initial values, whole blocks at a time
AnyWrite(a, n) ==
    \E buffer \in [0 .. n - 1 -> Values], random \in Random(Touched(a, n)),
       initial_values \in {FALSE, n = BlockSize} :
          Write(a, n, buffer, initial_values, random)

AnyRead(a, n) ==
    \E init_if_free \in BOOLEAN, random \in Random(Touched(a, n)) :
        Read(a, n, init_if_free, random)

Operate ==
    \/ \E access \in Accesses : AnyWrite(access[1], access[2])
    \/ \E access \in Accesses : AnyRead(access[1], access[2])
    \/ \E access \in Accesses, n \in RefusedSizes : RefusedRead(access[1], n)
    \/ \E access \in Accesses, n \in RefusedSizes : RefusedWrite(access[1], n)
    \/ \E b \in Blocks : Dump(b)

Next ==
    \/ ~Terminated /\ Operate
    \/ Terminated /\ UNCHANGED vars

Spec == Init /\ [][Next]_vars

-----------------------------------------------------------------------------
(* Properties *)

(* Every block keeps its shape, and one without storage is as the map      *)
(* created it.                                                             *)
MemoryTypeOK ==
    /\ mapped \subseteq Blocks
    /\ block \in [Blocks -> MemBlock]
    /\ \A b \in Blocks : ~block[b].allocated => block[b] = NewBlock

(* Storage comes uninitialised from new: a byte is only ever marked as not *)
(* free together with a value, and every initial byte has one, whatever    *)
(* order reads, writes and splits touch a block in.                        *)
NoGarbage ==
    \A b \in Blocks : block[b].allocated =>
        /\ b \in mapped
        /\ \A o \in Offsets : /\ block[b].mptr_init[o] \in Values
                              /\ o \notin block[b].free_bytes => block[b].mptr[o] \in Values

BlockOf(x) == block[BlockAddress(x)]

Contents ==
    [x \in Addresses |-> IF BlockOf(x).allocated THEN ByteAt(BlockOf(x), Offset(x)) ELSE Unknown]

InitialContents ==
    [x \in Addresses |-> IF BlockOf(x).allocated THEN BlockOf(x).mptr_init[Offset(x)] ELSE Unknown]

DefinedAddresses ==
    {x \in Addresses : BlockOf(x).allocated /\ Offset(x) \notin BlockOf(x).free_bytes}

Memory ==
    INSTANCE ByteMemory WITH
        Sizes    <- 1 .. BlockSize,
        contents <- Contents,
        initial  <- InitialContents,
        defined  <- DefinedAddresses

(* The blocks together implement a flat memory: split accesses, lazy       *)
(* allocation and free bytes cannot be seen from outside, except that the  *)
(* value of a byte nobody wrote is settled when its block is allocated.    *)
ImplementsByteMemory == Memory!Spec

(* ReadInitialState finds a listed block without storage, and the dump     *)
(* fails ("how could the resulting memory block pointer be null???"), only *)
(* if the debugger has asked for no bytes or for more than a block at      *)
(* once: no other access lists a block before it has storage.              *)
OnlyRefusedAccessesLeaveHoles ==
    [][\A b \in AddressList' : \/ block'[b].allocated
                               \/ b \in AddressList /\ ~block[b].allocated
                               \/ reply'.kind \in {"refused", "terminated"}]_vars
=============================================================================
