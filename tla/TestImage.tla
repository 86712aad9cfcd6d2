------------------------------- MODULE TestImage -------------------------------
(***************************************************************************)
(* The life of a test image: LoadTestImage fills memory from ELF files, the *)
(* program changes it, WriteTestSignature reads a part of it, DumpTest      *)
(* saves it to an ELF file (ELFIO, libelf_interface), and another run of    *)
(* the simulator loads that file.                                           *)
(*                                                                          *)
(* Memory is flat: a byte is free until it is given a value.  It goes on    *)
(* one block behind the last address, where an access lands that begins at  *)
(* one of the last addresses.  A section is its kind, address and bytes;    *)
(* its name matters only in that Load skips symbols, strings, debug data    *)
(* and comments.                                                            *)
(***************************************************************************)
EXTENDS Integers, Sequences, FiniteSetsExt

CONSTANTS
    Size,               \* of the physical memory
    BlockSize,          \* PM_BLOCK_SIZE
    TrialSizes,         \* trial_block_sizes, in bytes
    MaxSections,        \* ELF_MAX_SECTIONS, from which on ELF counts sections otherwise
    RowSize,            \* bytes in a row of the signature
    Signatures,         \* the configured signature range, start and end; start 0: none
    Missing,            \* a file that is not there, or not in ELF format
    Images,             \* the sequences of files on the command line
    Devices,            \* the addresses in the windows of the devices
    Accesses            \* address and size of what the program loads and stores

Addresses == 0 .. Size - 1
Storage   == 0 .. Size + BlockSize - 1
Garbage   == -1         \* storage that was never assigned

Byte    == {Garbage} \cup 0 .. 255

\* libelf finds no header or no name for a section that is unreadable
Kinds == {"PROGBITS", "NOBITS", "INIT_ARRAY", "FINI_ARRAY", "other", "unreadable"}

Section == [kind : Kinds, skipped : BOOLEAN, address : Nat, data : Seq(Byte)]

\* what Load takes for granted: a section is no longer than memory, and passes its top
\* between two blocks if it does
StaysInMemory(s) ==
    /\ Len(s.data) <= Size
    /\ s.address % BlockSize = 0 \/ (s.address % Size) + Len(s.data) <= Size

ASSUME TestImageAssumption ==
    /\ {Size, BlockSize, RowSize} \subseteq Nat \ {0} /\ MaxSections \in Nat \ {0, 1}
    /\ Size % BlockSize = 0
    \* the last trial size is all of memory
    /\ TrialSizes \in Seq(Nat \ {0}) /\ TrialSizes # <<>> /\ TrialSizes[Len(TrialSizes)] = Size
    /\ \A i \in DOMAIN TrialSizes : Size % TrialSizes[i] = 0 /\ TrialSizes[i] % BlockSize = 0
    /\ Missing \notin Seq(Section)
    /\ Images \subseteq Seq({Missing} \cup Seq(Section))
    /\ \A file \in UNION {Range(files) : files \in Images} :
           file = Missing \/ \A i \in DOMAIN file : StaysInMemory(file[i])
    /\ Signatures \subseteq Nat \X Nat
    /\ Accesses \subseteq Addresses \X (1 .. BlockSize)

VARIABLES
    phase,              \* "load", "run", "signature", "dump", "reload" or "done"
    files,              \* the files still to be loaded
    sections,           \* what is left of the file being loaded
    ram, free,          \* memory, and its bytes that were never given a value
    dump,               \* the sections that DumpTest wrote
    rerun,              \* this is the run that loads the dump
    \* history:
    image,              \* the files this run was given
    saved               \* memory when it was dumped

memory == <<ram, free>>
others == <<dump, rerun, image, saved>>
vars   == <<phase, files, sections, memory, others>>

\* a new simulator; the random value of free bytes is of no interest here
NewMemory == ram = [a \in Storage |-> Garbage] /\ free = Storage

Init ==
    /\ phase = "load" /\ sections = <<>>
    /\ image \in Images /\ files = image
    /\ NewMemory
    /\ dump = <<>> /\ rerun = FALSE /\ saved = [ram |-> ram, free |-> free]

-----------------------------------------------------------------------------
(* LoadTestImage and ELFIO::Load *)

\* elfio_read_next_section finds no bytes in a NOBITS section, and Load skips empty ones
Loadable(s) == /\ ~s.skipped /\ s.kind \in {"PROGBITS", "INIT_ARRAY", "FINI_ARRAY"}
               /\ s.data # <<>>

\* a section is written in blocks: where the one with the i-th byte begins, once the
\* upper bits of its address are stripped
BlockStart(address, i) == (address + ((i - 1) \div BlockSize) * BlockSize) % Size

\* all of it goes to a device, or to memory, as its first address says
ToDevice(address, i) == BlockStart(address, i) \in Devices

Target(address, i) == BlockStart(address, i) + ((i - 1) % BlockSize)

MutantLoadSection ==
    /\ phase = "load" /\ sections # <<>> /\ Head(sections).kind # "unreadable"
    /\ LET s == Head(sections)
           n == (Len(s.data) \div BlockSize) * BlockSize
           T(a) == {i \in 1 .. n : ~ToDevice(s.address, i) /\ Target(s.address, i) = a}
       IN  IF Loadable(s)
           THEN /\ ram' = [a \in Storage |-> IF T(a) = {} THEN ram[a] ELSE s.data[Max(T(a))]]
                /\ free' = {a \in free : T(a) = {}}
           ELSE UNCHANGED memory
    /\ sections' = Tail(sections)
    /\ UNCHANGED <<phase, files, others>>

\* the blocks of a section, and then the bytes that do not fill a block
LoadSection ==
    /\ phase = "load" /\ sections # <<>> /\ Head(sections).kind # "unreadable"
    /\ LET s == Head(sections)
           T(a) == {i \in 1 .. Len(s.data) : ~ToDevice(s.address, i) /\ Target(s.address, i) = a}
       IN  IF Loadable(s)
           THEN /\ ram' = [a \in Storage |-> IF T(a) = {} THEN ram[a] ELSE s.data[Max(T(a))]]
                /\ free' = {a \in free : T(a) = {}}
           ELSE UNCHANGED memory
    /\ sections' = Tail(sections)
    /\ UNCHANGED <<phase, files, others>>

\* no more sections and no more files, and Go returns at once; what follows Go happens
ReadFails ==
    /\ phase = "load" /\ sections # <<>> /\ Head(sections).kind = "unreadable"
    /\ phase' = "signature"
    /\ UNCHANGED <<files, sections, memory, others>>

OpenFile ==
    /\ phase = "load" /\ sections = <<>> /\ files # <<>> /\ Head(files) # Missing
    /\ sections' = Head(files) /\ files' = Tail(files)
    /\ UNCHANGED <<phase, memory, others>>

\* elfio_init fails, with the same effect
CannotOpen ==
    /\ phase = "load" /\ sections = <<>> /\ files # <<>> /\ Head(files) = Missing
    /\ phase' = "signature"
    /\ UNCHANGED <<files, sections, memory, others>>

\* the second run is followed no further
Loaded ==
    /\ phase = "load" /\ sections = <<>> /\ files = <<>>
    /\ phase' = IF rerun THEN "done" ELSE "run"
    /\ UNCHANGED <<files, sections, memory, others>>

-----------------------------------------------------------------------------
(* The program, and what run_simulation does after it *)

\* a read with init_if_free: bytes without a value get a random one
ReadBytes(bytes) ==
    /\ free' = free \ bytes
    /\ \E random \in {0, 1} :
           ram' = [a \in Storage |-> IF a \in bytes \cap free THEN random ELSE ram[a]]

\* an access that begins in a window changes no memory
Store(a, n) ==
    /\ phase = "run" /\ a \notin Devices
    /\ ram' = [b \in Storage |-> IF b \in a .. a + n - 1 THEN 2 ELSE ram[b]]
    /\ free' = free \ (a .. a + n - 1)
    /\ UNCHANGED <<phase, files, sections, others>>

Load(a, n) ==
    /\ phase = "run" /\ a \notin Devices
    /\ ReadBytes(a .. a + n - 1)
    /\ UNCHANGED <<phase, files, sections, others>>

EndRun ==
    /\ phase = "run" /\ phase' = "signature"
    /\ UNCHANGED <<files, sections, memory, others>>

\* where the rows of the signature begin
Rows(range) ==
    {(range[1] + k * RowSize) % Size : k \in 0 .. ((range[2] - range[1]) \div RowSize) - 1} \ Devices

\* a range that is no whole number of rows is an error, and there is no dump
WriteTestSignature ==
    /\ phase = "signature"
    /\ \E range \in Signatures :
           LET bad  == range[1] # 0 /\ (range[2] - range[1]) % RowSize # 0
               none == range[1] = 0
           IN  /\ phase' = IF bad THEN "done" ELSE "dump"
               /\ IF bad \/ none THEN UNCHANGED memory
                  ELSE ReadBytes(UNION {a .. a + RowSize - 1 : a \in Rows(range)})
    /\ UNCHANGED <<files, sections, others>>

-----------------------------------------------------------------------------
(* DumpTest: ELFIO::Save, without compression *)

Masked(a, size) == (a \div size) * size

\* TestBlockAddresses: blocks of which some byte has a value
TestBlockAddresses == {Masked(a, BlockSize) : a \in Storage \ free}

MutantFileBlocks(size) == {Masked(a, size) : a \in TestBlockAddresses} \ {0}

\* SetFileBlockAddresses
FileBlocks(size) == {Masked(a, size) : a \in TestBlockAddresses}

\* the blocks that estimateELFFileSize counts: it starts as if it had seen address 0
Estimate(size) == Cardinality({Masked(a, size) : a \in TestBlockAddresses} \ {0})

MutantChooseFileBlockSize ==
    LET fits == {i \in DOMAIN TrialSizes : Estimate(TrialSizes[i]) <= MaxSections}
    IN  IF Cardinality(TestBlockAddresses) < MaxSections THEN BlockSize
        ELSE TrialSizes[IF fits = {} THEN Len(TrialSizes) ELSE Min(fits)]

\* the first size that keeps the estimate below the maximum, or the last one
ChooseFileBlockSize ==
    LET fits == {i \in DOMAIN TrialSizes : Estimate(TrialSizes[i]) < MaxSections}
    IN  IF Cardinality(TestBlockAddresses) < MaxSections THEN BlockSize
        ELSE TrialSizes[IF fits = {} THEN Len(TrialSizes) ELSE Min(fits)]

TooManySections == /\ Cardinality(TestBlockAddresses) >= MaxSections
                   /\ Estimate(ChooseFileBlockSize) > MaxSections

\* a small section is the block's storage as it is; in a large one a byte without a
\* value, or in a window, is 0
SectionData(a, size) ==
    [i \in 1 .. size |-> IF a + i - 1 \in free \cup Devices /\ size > BlockSize THEN 0
                                                                          ELSE ram[a + i - 1]]

\* elfio_add_section gives it a name that Load does not skip
NewSection(a, size) ==
    [kind |-> "PROGBITS", skipped |-> FALSE, address |-> a, data |-> SectionData(a, size)]

\* the i-th number of a set; the blocks come from a sorted list
Ascending(S, i) == CHOOSE b \in S : Cardinality({x \in S : x < b}) = i - 1

\* a large section is read byte by byte, for_test: an address behind the last throws
\* GENERATION_ERROR, which nobody catches
ReadsBehindEnd == ChooseFileBlockSize > BlockSize /\ Size \in FileBlocks(ChooseFileBlockSize)

\* the reads that fill a large section give every byte of it a value
Dump ==
    /\ phase = "dump"
    /\ LET size == ChooseFileBlockSize
       IN  IF TooManySections \/ ReadsBehindEnd
           THEN phase' = "done" /\ UNCHANGED <<memory, dump>>
           ELSE /\ phase' = "reload"
                /\ dump' = [i \in 1 .. Cardinality(FileBlocks(size)) |->
                               NewSection(Ascending(FileBlocks(size), i), size)]
                /\ ReadBytes(IF size = BlockSize THEN {}
                             ELSE {a \in Storage \ Devices : Masked(a, size) \in FileBlocks(size)})
    /\ saved' = [ram |-> ram, free |-> free]
    /\ UNCHANGED <<files, sections, rerun, image>>

\* the file also has the empty section and the one of the names
FileSections(file) == Len(file) + 2

\* from MaxSections on, e_shnum is 0, and elf_io_section_count says so
SectionCount(file) == IF FileSections(file) >= MaxSections THEN 0 ELSE FileSections(file)

\* another run of the simulator, with the dump as its only file
Reload ==
    /\ phase = "reload" /\ phase' = "load" /\ rerun' = TRUE
    /\ image' = <<IF SectionCount(dump) = 0 THEN <<>> ELSE dump>>
    /\ files' = image' /\ sections' = <<>>
    /\ ram' = [a \in Storage |-> Garbage] /\ free' = Storage
    /\ UNCHANGED <<dump, saved>>

Finished == phase = "done" /\ UNCHANGED vars

Next ==
    \/ OpenFile \/ CannotOpen \/ LoadSection \/ ReadFails \/ Loaded
    \/ \E access \in Accesses : Store(access[1], access[2])
    \/ \E access \in Accesses : Load(access[1], access[2])
    \/ EndRun \/ WriteTestSignature \/ Dump \/ Reload \/ Finished

Spec == Init /\ [][Next]_vars

-----------------------------------------------------------------------------
(* Properties *)

\* address a's place in a section, counted from 0 and around the top of memory
Place(a, s) == (a - s.address) % Size

\* section s has a byte for address a, and it does not go to a device
Gives(s, a) == /\ Loadable(s) /\ Place(a, s) < Len(s.data)
               /\ ~ToDevice(s.address, Place(a, s) + 1)

\* the sections that give address a its byte, as file and section numbers
Covering(a) ==
    {t \in UNION {{f} \X (1 .. Len(image[f])) : f \in {f \in 1 .. Len(image) : image[f] # Missing}} :
        Gives(image[t[1]][t[2]], a)}

Later(t, u) == t[1] > u[1] \/ (t[1] = u[1] /\ t[2] >= u[2])

(* Once all files are loaded, an address holds the byte that the last     *)
(* section of the last file has for it, and no other address has a value: *)
(* writing a section in blocks and a remainder, and wrapping each block,  *)
(* comes to the same, but a block that begins in a device's window goes   *)
(* there, even if it ends behind the window.  NOBITS sections give their  *)
(* bytes no value.                                                        *)
LoadedImage ==
    phase = "load" /\ files = <<>> /\ sections = <<>> =>
        \A a \in Addresses :
            IF Covering(a) = {} THEN a \in free
            ELSE LET t == CHOOSE t \in Covering(a) : \A u \in Covering(a) : Later(t, u)
                     s == image[t[1]][t[2]]
                 IN  a \notin free /\ ram[a] = s.data[Place(a, s) + 1]

\* memory under a window, or in a block that begins in one
Shadowed(a) == a \in Devices \/ Masked(a, BlockSize) \in Devices

\* when the dump was made, the block behind the last address was in use
BehindInUse == \E a \in Storage \ Addresses : a \notin saved.free

(* A run that loads a dump finds every byte that had a value with that    *)
(* value, whatever block size was chosen, if the dump has few enough      *)
(* sections for ELF to count them where Load looks, and outside of the    *)
(* windows; with one exception.  The block behind the last address is     *)
(* saved like any other, but its address is pegged to 0 (ELFIO::Load):    *)
(* it is found where block 0 was.  Only the block behind does this, and   *)
(* only to block 0.                                                       *)
DumpReloads ==
    phase = "done" /\ rerun /\ FileSections(dump) < MaxSections =>
        \A a \in Addresses \ saved.free : ~Shadowed(a) =>
            /\ a \notin free
            /\ ram[a] = saved.ram[IF a < BlockSize /\ BehindInUse THEN Size + a ELSE a]

(* The block size is chosen so that DumpTest writes no more sections of   *)
(* memory than the maximum, although the estimate leaves out the block at *)
(* address 0, and the error for a memory that is too large to be dumped   *)
(* is never reached.  The file has two sections more, and so may have     *)
(* more than the maximum: then Load finds nothing in it.                  *)
SectionsFit == Len(dump) <= MaxSections /\ (phase = "dump" => ~TooManySections)

=============================================================================
