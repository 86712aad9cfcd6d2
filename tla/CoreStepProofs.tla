----------------------------- MODULE CoreStepProofs -----------------------------
(***************************************************************************)
(* Proofs about CoreStep, for every size of memory, window, set of device  *)
(* registers, set of addresses and number of registers.                    *)
(*                                                                         *)
(* TypeInv adds to the types of the state what an instruction that was     *)
(* fetched looks like.  MemoryInv relates memory to what was stored.       *)
(* CleanInv says of the copy what the property says of the core; StickInv  *)
(* says where a value set by the debugger is while the instruction is      *)
(* under way.                                                              *)
(***************************************************************************)
EXTENDS CoreStep, TLAPS

Ops == {"load", "loadu", "store", "other", "jump", "trap", "csrw"}

Fetched ==
    /\ instr \in [op : Ops, address : Int, size : Sizes, reg : XRegs \cup {0}, pc : PCs]
    /\ instr.op \in {"load", "loadu", "store"} => instr.reg \in XRegs

TypeInv == CoreStepTypeOK /\ Fetched

CleanWord(word) == \A i \in 0 .. 3 : word[i] # Garbage

CleanInv ==
    \/ refused
    \/ /\ \A r \in XRegs : CleanWord(X[r]) /\ CleanWord(copy[r])
       /\ \A b \in Cells : ram[b] # Garbage
       /\ \A d \in DeviceRegs : CleanWord(dev[d])

MemoryInv == \A b \in 0 .. Size - 1 : b \in lost \/ ram[b] = stored[b]

StickInv == /\ \A r \in DOMAIN set : X[r] = set[r]
            /\ \A r \in DOMAIN pending : copy[r] = pending[r]

-----------------------------------------------------------------------------
(* The operators *)

\* ValidatePhysicalMemoryAddress returns an address of memory
LEMMA ValidatedType ==
    ASSUME NEW address \in Int
    PROVE  Validated(address) \in 0 .. Size - 1
BY CoreStepAssumption DEF Validated

\* no access that starts in memory goes past the cells of the model
LEMMA SpanType ==
    ASSUME NEW a \in 0 .. Size - 1, NEW n \in Sizes
    PROVE  a \in Span(a, n) /\ Span(a, n) \subseteq Cells /\ \A b \in Span(a, n) : b - a \in 0 .. 3
BY CoreStepAssumption DEF Span, Cells, Sizes

\* the words that instructions and the debugger start from
LEMMA WordTypes ==
    /\ Zero \in Word /\ CleanWord(Zero)
    /\ \A word \in Words : word \in Word /\ CleanWord(word)
    /\ [i \in 0 .. 3 |-> Garbage] \in Word
BY CoreStepAssumption DEF Zero, Word, CleanWord

\* ReadPhysicalMemory fills the buffer with bytes
LEMMA ReadDataType ==
    ASSUME CoreStepTypeOK, NEW address \in Int, NEW n \in Sizes, NEW buffer \in Word
    PROVE  ReadData(address, n, buffer) \in Word
<1> DEFINE a == Validated(address)
<1>1. a \in 0 .. Size - 1
  BY ValidatedType
<1> HIDE DEF a
<1>2. \A i \in 0 .. 3 : ram[a + i] \in Bytes \cup {Garbage}
  BY <1>1, CoreStepAssumption DEF CoreStepTypeOK, Cells
<1>3. ReadDeviceMemory(a, n, buffer) \in Word
  BY DEF ReadDeviceMemory, Accepts, CoreStepTypeOK
<1>4. [i \in 0 .. 3 |-> IF i < n THEN ram[a + i] ELSE buffer[i]] \in Word
  BY <1>2 DEF Word
<1> QED
  BY <1>3, <1>4 DEF ReadData, a

\* LB, LH and LW put a word into a register
LEMMA ExtendedType ==
    ASSUME NEW word \in Word, NEW n \in Sizes, NEW signed \in BOOLEAN
    PROVE  Extended(word, n, signed) \in Word
<1>1. {0, 255, Garbage} \subseteq Bytes \cup {Garbage} /\ \A i \in 0 .. 3 : word[i] \in Bytes \cup {Garbage}
  BY CoreStepAssumption DEF Word
<1> QED
  BY <1>1 DEF Extended, Word

LEMMA SetGPType ==
    ASSUME NEW x \in [XRegs -> Word], NEW r \in XRegs \cup {0}, NEW word \in Word
    PROVE  SetGP(x, r, word) \in [XRegs -> Word]
BY DEF SetGP

\* the PC wraps, and is a byte of the link register
LEMMA PCTypes ==
    /\ 0 \in PCs
    /\ \A m \in Nat : m % CodeSize \in PCs
    /\ \A p \in PCs, n \in InstrSizes : p + n \in Nat
    /\ \A p \in PCs : WordOf(p) \in Word /\ CleanWord(WordOf(p))
    /\ \A word \in Words : PCOf(word) \in PCs
<1>1. CodeSize \in Nat \ {0} /\ PCs \subseteq Bytes /\ 0 \in Bytes /\ Bytes \subseteq Nat /\ Garbage \notin Bytes
  BY CoreStepAssumption
<1>2. \A m \in Nat : m % CodeSize \in PCs
  BY <1>1 DEF PCs
<1>3. \A p \in PCs : WordOf(p) \in Word /\ CleanWord(WordOf(p))
  BY <1>1 DEF WordOf, Word, CleanWord
<1>4. \A word \in Words : word[0] \in Nat
  <2>1. \A word \in [0 .. 3 -> Bytes] : word[0] \in Bytes
    OBVIOUS
  <2> QED BY <1>1, <2>1, CoreStepAssumption
<1> QED
  BY <1>1, <1>2, <1>3, <1>4 DEF PCs, PCOf, InstrSizes

-----------------------------------------------------------------------------
(* What a step does to memory: nothing, one read, or one write of a word   *)
(* from W, if registers and the debugger hold words of W.                  *)

MemoryStep(W) ==
    \/ UNCHANGED memory
    \/ \E address \in Int, n \in Sizes : ReadPhysicalMemory(address, n)
    \/ \E address \in Int, n \in Sizes, word \in W : WritePhysicalMemory(address, n, word)

LEMMA MemorySteps ==
    ASSUME TypeInv, [Next]_vars, NEW W, Words \subseteq W, Zero \in W, \A r \in XRegs : copy[r] \in W
    PROVE  MemoryStep(W)
<1>1. instr.address \in Int /\ instr.size \in Sizes /\ instr.reg \in XRegs \cup {0} /\ Addresses \subseteq Int
  BY CoreStepAssumption DEF TypeInv, Fetched
<1>2. CASE Fetch
  BY <1>2 DEF Fetch, MemoryStep
<1>3. CASE Load
  BY <1>1, <1>3 DEF Load, ReadMemoryBlock, MemoryStep
<1>4. CASE Store
  <2>1. GP(copy, instr.reg) \in W
    BY <1>1 DEF GP
  <2> QED BY <1>1, <1>4, <2>1 DEF Store, WriteMemoryBlock, MemoryStep
<1>5. CASE Other \/ Jump \/ Trap \/ ReadOnlyCSR
  BY <1>5 DEF Other, Jump, Trap, ReadOnlyCSR, MemoryStep
<1>6. CASE ReadRegister \/ KillTarget \/ Continue \/ Abandon
  BY <1>6 DEF ReadRegister, KillTarget, Continue, Abandon, MemoryStep
<1>7. CASE \E i \in RegIndices, value \in Words \cup {Malformed} : WriteRegister(i, value)
  BY <1>7 DEF WriteRegister, MemoryStep
<1>8. CASE \E address \in Addresses, n \in Sizes : ReadsMemory(address, n)
  BY <1>1, <1>8 DEF ReadsMemory, MemoryStep
<1>9. CASE \E address \in Addresses, n \in Sizes, value \in Words \cup {Malformed} :
               WritesMemory(address, n, value)
  BY <1>1, <1>9 DEF WritesMemory, MemoryStep
<1>10. CASE Stopped \/ UNCHANGED vars
  BY <1>10 DEF Stopped, vars, MemoryStep
<1> QED
  BY <1>2, <1>3, <1>4, <1>5, <1>6, <1>7, <1>8, <1>9, <1>10 DEF Next, Execute, Debugger

MemoryTypeOK ==
    /\ ram \in [Cells -> Bytes \cup {Garbage}] /\ free \subseteq Cells
    /\ dev \in [DeviceRegs -> Word]
    /\ stored \in [0 .. Size - 1 -> Bytes \cup {Garbage}]
    /\ lost \subseteq 0 .. Size - 1

LEMMA MemoryTypes ==
    ASSUME TypeInv, [Next]_vars
    PROVE  MemoryTypeOK'
<1>1. MemoryTypeOK
  BY DEF TypeInv, CoreStepTypeOK, MemoryTypeOK
<1>2. MemoryStep(Word)
  BY MemorySteps, WordTypes DEF TypeInv, CoreStepTypeOK
<1>3. CASE UNCHANGED memory
  BY <1>1, <1>3 DEF memory, MemoryTypeOK
<1>4. CASE \E address \in Int, n \in Sizes : ReadPhysicalMemory(address, n)
  BY <1>1, <1>4, WordTypes DEF ReadPhysicalMemory, MemoryTypeOK
<1>5. ASSUME NEW address \in Int, NEW n \in Sizes, NEW word \in Word, WritePhysicalMemory(address, n, word)
      PROVE  MemoryTypeOK'
  <2> DEFINE a == Validated(address)
  <2>1. a \in 0 .. Size - 1
    BY ValidatedType
  <2> HIDE DEF a
  <2>2. \A b \in Span(a, n) : word[b - a] \in Bytes \cup {Garbage}
    BY <2>1, SpanType DEF Word
  <2>3. dev' \in [DeviceRegs -> Word]
    BY <1>1, <1>5 DEF WritePhysicalMemory, WriteDeviceMemory, MemoryTypeOK, a
  <2>4. ram' = ram \/ ram' = Put(ram, Span(a, n), a, word)
    BY <1>5 DEF WritePhysicalMemory, a
  <2>5. ram' \in [Cells -> Bytes \cup {Garbage}]
    BY <1>1, <2>2, <2>4 DEF MemoryTypeOK, Put
  <2>6. Records(address, n, word)
    BY <1>5 DEF WritePhysicalMemory
  <2>7. stored' \in [0 .. Size - 1 -> Bytes \cup {Garbage}] /\ lost' \subseteq 0 .. Size - 1
    <3>1. \A b \in 0 .. Size - 1 : (b - a) % Size \in Nat
      BY <2>1, CoreStepAssumption
    <3>2. \A b \in 0 .. Size - 1 : (b - a) % Size < n => word[(b - a) % Size] \in Bytes \cup {Garbage}
      BY <3>1 DEF Word, Sizes
    <3> QED BY <1>1, <2>6, <3>2 DEF Records, MemoryTypeOK, a
  <2>8. free' \subseteq Cells
    BY <1>1, <1>5 DEF WritePhysicalMemory, MemoryTypeOK
  <2> QED BY <2>3, <2>5, <2>7, <2>8 DEF MemoryTypeOK
<1> QED
  BY <1>2, <1>3, <1>4, <1>5 DEF MemoryStep

-----------------------------------------------------------------------------
(* Type correctness *)

CoreTypeOK ==
    /\ X \in [XRegs -> Word] /\ copy \in [XRegs -> Word]
    /\ pc \in PCs /\ copy_pc \in PCs
    /\ at \in {"fetch", "stopped", "execute"}

RestTypeOK ==
    /\ response \in {"none", "data", "OK", "E", "X00"} /\ do_shutdown \in BOOLEAN /\ ops \in 0 .. MaxOps
    /\ refused \in BOOLEAN /\ DOMAIN set \subseteq XRegs /\ DOMAIN pending \subseteq XRegs

LEMMA Types ==
    TypeInv <=> MemoryTypeOK /\ CoreTypeOK /\ RestTypeOK /\ Fetched
BY DEF TypeInv, CoreStepTypeOK, MemoryTypeOK, CoreTypeOK, RestTypeOK, Fetched

LEMMA TypeInit == Init => TypeInv
<1> SUFFICES ASSUME Init PROVE TypeInv
  OBVIOUS
<1>1. 0 \in PCs /\ Fills \subseteq Bytes
  BY CoreStepAssumption, PCTypes
<1>2. MemoryTypeOK
  <2>1. PICK v \in Fills : ram = [b \in Cells |-> v] /\ stored = [b \in 0 .. Size - 1 |-> v]
    BY DEF Init
  <2>2. dev = [r \in DeviceRegs |-> Zero] /\ free = Cells /\ lost = {}
    BY DEF Init
  <2>3. dev \in [DeviceRegs -> Word]
    BY <2>2, WordTypes
  <2> QED BY <1>1, <2>1, <2>2, <2>3 DEF MemoryTypeOK
<1>3. CoreTypeOK
  BY <1>1, WordTypes DEF Init, CoreTypeOK
<1>4. RestTypeOK
  <2>1. set = <<>> /\ pending = <<>>
    BY DEF Init
  <2>2. DOMAIN set = {} /\ DOMAIN pending = {}
    BY <2>1
  <2>3. response = "none" /\ do_shutdown = FALSE /\ ops = 0 /\ refused = FALSE
    BY DEF Init
  <2>4. 0 \in 0 .. MaxOps
    BY CoreStepAssumption
  <2> QED BY <2>2, <2>3, <2>4 DEF RestTypeOK
<1>5. Fetched
  BY <1>1 DEF Init, NoInstr, Fetched, Ops, Sizes
<1> QED BY <1>2, <1>3, <1>4, <1>5, Types

\* what a load puts into its register
Loaded == Extended(ReadData(instr.address, instr.size, [i \in 0 .. 3 |-> Garbage]), instr.size, instr.op = "load")

\* every instruction writes back a copy with at most one register changed, and only a load
\* can put garbage there
LEMMA Executed ==
    ASSUME TypeInv, Execute
    PROVE  \E rd \in XRegs \cup {0}, word \in Word, p \in PCs :
               /\ Retire(SetGP(copy, rd, word), rd, p)
               /\ (Load /\ word = Loaded) \/ CleanWord(word)
<1>1. CoreTypeOK /\ Fetched /\ \A n \in InstrSizes : next_pc(n) \in PCs /\ (copy_pc + n) % CodeSize \in PCs
  <2>1. CoreTypeOK /\ Fetched
    BY Types
  <2> QED BY <2>1, PCTypes DEF next_pc, CoreTypeOK, Fetched
<1>2. /\ instr.reg \in XRegs \cup {0} /\ instr.address \in Int /\ instr.size \in Sizes
      /\ Handlers \subseteq PCs /\ copy = SetGP(copy, 0, Zero)
  BY <1>1, CoreStepAssumption DEF Fetched, SetGP
<1>3. CASE Load
  <2> DEFINE word == ReadData(instr.address, instr.size, [i \in 0 .. 3 |-> Garbage])
  <2>1. word \in Word
    BY <1>2, WordTypes, ReadDataType DEF TypeInv
  <2>2. Loaded = Extended(word, instr.size, instr.op = "load")
    BY DEF Loaded
  <2> HIDE DEF word
  <2>3. Loaded \in Word
    BY <1>2, <2>1, <2>2, ExtendedType
  <2>4. PICK n \in InstrSizes : Retire(SetGP(copy, instr.reg, Loaded), instr.reg, next_pc(n))
    BY <1>3 DEF Load, Loaded
  <2> QED BY <1>1, <1>2, <1>3, <2>3, <2>4
<1>4. CASE Store
  <2>1. PICK n \in InstrSizes : Retire(SetGP(copy, 0, Zero), 0, next_pc(n))
    BY <1>2, <1>4 DEF Store
  <2> QED BY <1>1, <2>1, WordTypes
<1>5. CASE Other
  BY <1>1, <1>2, <1>5, WordTypes DEF Other
<1>6. CASE Jump
  <2>1. PICK target \in PCs, alignment \in {2, 4}, n \in InstrSizes :
            IF target % alignment = 0
            THEN Retire(SetGP(copy, instr.reg, WordOf((copy_pc + n) % CodeSize)), instr.reg, target)
            ELSE \E handler \in Handlers : Retire(copy, 0, handler)
    BY <1>6 DEF Jump
  <2>2. CASE Retire(SetGP(copy, instr.reg, WordOf((copy_pc + n) % CodeSize)), instr.reg, target)
    BY <1>1, <1>2, <2>2, PCTypes
  <2>3. ASSUME NEW handler \in Handlers, Retire(copy, 0, handler)
        PROVE  Retire(SetGP(copy, 0, Zero), 0, handler) /\ handler \in PCs
    BY <1>2, <2>3
  <2> QED BY <2>1, <2>2, <2>3, WordTypes
<1>7. CASE Trap
  <2>1. PICK handler \in Handlers : Retire(SetGP(copy, 0, Zero), 0, handler)
    BY <1>2, <1>7 DEF Trap
  <2> QED BY <1>2, <2>1, WordTypes
<1>8. CASE ReadOnlyCSR
  BY <1>1, <1>2, <1>8, WordTypes DEF ReadOnlyCSR
<1> QED
  BY <1>3, <1>4, <1>5, <1>6, <1>7, <1>8 DEF Execute

\* the register that the debugger's index i names
Named(i) == IF RegType(i) = "SP" THEN 2 ELSE i

LEMMA Indices ==
    ASSUME NEW i \in RegIndices, RegType(i) \in {"GP", "SP"}
    PROVE  Named(i) \in XRegs \cup {0}
BY CoreStepAssumption DEF RegIndices, RegType, Named

\* the value of a register that the debugger sets
LEMMA DecodedValue ==
    ASSUME NEW i, NEW value \in Words \cup {Malformed}, WriteRegister(i, value), response' = "OK"
    PROVE  value \in Words /\ value \in Word
BY WordTypes DEF WriteRegister

LEMMA TypeStep == TypeInv /\ [Next]_vars => TypeInv'
<1> SUFFICES ASSUME TypeInv, [Next]_vars PROVE TypeInv'
  OBVIOUS
<1>1. MemoryTypeOK'
  BY MemoryTypes
<1>2. CoreTypeOK /\ RestTypeOK /\ Fetched
  BY Types
<1> SUFFICES CoreTypeOK' /\ RestTypeOK' /\ Fetched'
  BY <1>1, Types, PTL
<1>3. NoInstr \in [op : Ops, address : Int, size : Sizes, reg : XRegs \cup {0}, pc : PCs] /\ NoInstr.op = "other"
  BY PCTypes DEF NoInstr, Ops, Sizes
<1>4. CASE Fetch
  <2>1. copy_pc' \in PCs
    BY <1>2, <1>4, CoreStepAssumption DEF Fetch, CoreTypeOK
  <2>2. Fetched'
    <3>1. PICK i \in Instrs :
              instr' = [op |-> i.op, address |-> i.address, size |-> i.size, reg |-> i.reg, pc |-> copy_pc']
      BY <1>4 DEF Fetch
    <3>2. /\ i.op \in Ops /\ i.address \in Int /\ i.size \in Sizes /\ i.reg \in XRegs \cup {0}
          /\ i.op \in {"load", "loadu", "store"} => i.reg \in XRegs
      <4>1. Addresses \subseteq Int /\ 2 \in XRegs
        BY CoreStepAssumption
      <4>2. CASE i \in [op : {"load", "loadu", "store"}, address : Addresses, size : Sizes, reg : XRegs]
        BY <4>1, <4>2 DEF Ops
      <4>3. CASE i \in [op : {"other", "jump", "trap", "csrw"}, address : {0}, size : {4}, reg : {0, 2}]
        BY <4>1, <4>3 DEF Ops, Sizes
      <4> QED BY <4>2, <4>3 DEF Instrs
    <3> QED BY <2>1, <3>1, <3>2 DEF Fetched
  <2>3. CoreTypeOK'
    BY <1>2, <1>4, <2>1 DEF Fetch, CoreTypeOK, core
  <2>4. RestTypeOK'
    BY <1>2, <1>4, CoreStepAssumption DEF Fetch, RestTypeOK
  <2> QED BY <2>2, <2>3, <2>4
<1>5. ASSUME Execute PROVE CoreTypeOK' /\ RestTypeOK' /\ Fetched'
  <2>1. PICK rd \in XRegs \cup {0}, word \in Word, p \in PCs : Retire(SetGP(copy, rd, word), rd, p)
    BY <1>5, Executed
  <2>2. SetGP(copy, rd, word) \in [XRegs -> Word]
    BY <1>2, SetGPType DEF CoreTypeOK
  <2>3. CoreTypeOK'
    BY <2>1, <2>2 DEF Retire, CoreTypeOK
  <2>4. Fetched'
    BY <1>3, <2>1 DEF Retire, Fetched
  <2>5. refused' \in BOOLEAN
    BY <1>2, <1>5 DEF Execute, Load, Store, Other, Jump, Trap, ReadOnlyCSR, RestTypeOK
  <2>6. DOMAIN pending' \subseteq XRegs /\ set' = pending' /\ UNCHANGED <<response, do_shutdown, ops>>
    BY <1>2, <2>1 DEF Retire, RestTypeOK
  <2> QED BY <1>2, <2>3, <2>4, <2>5, <2>6 DEF RestTypeOK
<1>6. ASSUME NEW i \in RegIndices, NEW value \in Words \cup {Malformed}, WriteRegister(i, value)
      PROVE  CoreTypeOK' /\ RestTypeOK' /\ Fetched'
  <2>1. Request /\ response' \in {"OK", "E"} /\ do_shutdown' = do_shutdown
    BY <1>6 DEF WriteRegister
  <2>2. copy' \in [XRegs -> Word]
    <3>1. CASE response' = "OK" /\ RegType(i) \in {"GP", "SP"}
      <4>1. copy' = SetGP(copy, Named(i), value)
        BY <1>6, <3>1 DEF WriteRegister, Named
      <4> QED BY <1>2, <1>6, <3>1, <4>1, Indices, DecodedValue, SetGPType DEF CoreTypeOK
    <3>2. CASE ~(response' = "OK" /\ RegType(i) \in {"GP", "SP"})
      BY <1>2, <1>6, <3>2 DEF WriteRegister, CoreTypeOK
    <3> QED BY <3>1, <3>2
  <2>3. copy_pc' \in PCs
    <3>1. CASE response' = "OK" /\ RegType(i) = "PC"
      BY <1>6, <3>1, DecodedValue, PCTypes DEF WriteRegister
    <3>2. CASE ~(response' = "OK" /\ RegType(i) = "PC")
      BY <1>2, <1>6, <3>2 DEF WriteRegister, CoreTypeOK
    <3> QED BY <3>1, <3>2
  <2>4. DOMAIN pending' \subseteq XRegs
    BY <1>2, <1>6 DEF WriteRegister, RestTypeOK
  <2> QED BY <1>2, <2>1, <2>2, <2>3, <2>4, CoreStepAssumption
      DEF Request, CoreTypeOK, RestTypeOK, Fetched, core
<1>7. CASE \/ ReadRegister \/ KillTarget
           \/ \E address \in Addresses, n \in Sizes : ReadsMemory(address, n)
           \/ \E address \in Addresses, n \in Sizes, value \in Words \cup {Malformed} :
                  WritesMemory(address, n, value)
  <2>1. /\ Request /\ response' \in {"data", "OK", "E", "X00"} /\ UNCHANGED <<copy, copy_pc, pending>>
        /\ do_shutdown' \in {do_shutdown, TRUE}
    BY <1>7 DEF ReadRegister, KillTarget, ReadsMemory, WritesMemory
  <2>2. do_shutdown' \in BOOLEAN
    BY <1>2, <2>1 DEF RestTypeOK
  <2> QED BY <1>2, <2>1, <2>2, CoreStepAssumption DEF Request, CoreTypeOK, RestTypeOK, Fetched, core
<1>8. CASE Continue
  BY <1>2, <1>8 DEF Continue, CoreTypeOK, RestTypeOK, Fetched, core
<1>9. CASE Abandon
  BY <1>2, <1>3, <1>9 DEF Abandon, CoreTypeOK, RestTypeOK, Fetched, core
<1>10. CASE Stopped \/ UNCHANGED vars
  BY <1>2, <1>10 DEF Stopped, vars, core, step, CoreTypeOK, RestTypeOK, Fetched
<1> QED
  BY <1>4, <1>5, <1>6, <1>7, <1>8, <1>9, <1>10 DEF Next, Debugger

(* Registers hold words and the PC an address of the code, whatever         *)
(* instructions and a debugger's packets put there (SetGP, WriteRegister,   *)
(* AdvancePC, an interrupt before the fetch, the link register of a jump).  *)
THEOREM CoreTypeCorrect == Spec => []CoreStepTypeOK
<1>1. TypeInv => CoreStepTypeOK
  BY DEF TypeInv
<1> QED BY <1>1, TypeInit, TypeStep, PTL DEF Spec

-----------------------------------------------------------------------------
(* Loads get what was stored *)

LEMMA MemoryIsKept ==
    ASSUME TypeInv, MemoryInv, [Next]_vars
    PROVE  MemoryInv'
<1>1. MemoryTypeOK
  BY Types
<1>2. MemoryStep(Word)
  BY MemorySteps, WordTypes DEF TypeInv, CoreStepTypeOK
<1>3. CASE UNCHANGED memory
  BY <1>3 DEF memory, MemoryInv
<1>4. CASE \E address \in Int, n \in Sizes : ReadPhysicalMemory(address, n)
  BY <1>4 DEF ReadPhysicalMemory, MemoryInv
<1>5. ASSUME NEW address \in Int, NEW n \in Sizes, NEW word \in Word, WritePhysicalMemory(address, n, word),
             NEW b \in 0 .. Size - 1
      PROVE  b \in lost' \/ ram'[b] = stored'[b]
  <2> DEFINE a == Validated(address)
             offset == (b - a) % Size
  <2>1. a \in 0 .. Size - 1 /\ b \in Cells /\ Size \in Nat /\ n \in Nat
    BY ValidatedType, CoreStepAssumption DEF Cells, Sizes
  <2>2. IF InRange(a) THEN ram' = ram ELSE ram' = Put(ram, Span(a, n), a, word)
    BY <1>5 DEF WritePhysicalMemory
  <2>3. /\ stored'[b] = IF offset < n THEN word[offset] ELSE stored[b]
        /\ b \in lost' <=> IF offset < n THEN InRange(a) \/ b < a ELSE b \in lost
    BY <1>5 DEF WritePhysicalMemory, Records
  <2> HIDE DEF a
  <2>4. b >= a => offset = b - a
    BY <2>1
  <2>5. b < a => offset >= 0
    BY <2>1
  <2> HIDE DEF offset
  <2>6. CASE InRange(a)
    BY <2>2, <2>3, <2>6 DEF MemoryInv
  <2>7. CASE ~InRange(a)
    <3>1. ram'[b] = IF b \in Span(a, n) THEN word[b - a] ELSE ram[b]
      BY <1>1, <2>1, <2>2, <2>7 DEF Put, MemoryTypeOK
    <3>2. b \in Span(a, n) <=> b >= a /\ b - a < n
      BY <2>1 DEF Span
    <3>3. CASE b >= a
      BY <2>3, <2>4, <2>7, <3>1, <3>2, <3>3 DEF MemoryInv
    <3>4. CASE b < a
      <4>1. ram'[b] = ram[b]
        BY <2>1, <3>1, <3>2, <3>4
      <4> QED BY <2>3, <3>4, <4>1 DEF MemoryInv
    <3> QED BY <2>1, <3>3, <3>4
  <2> QED BY <2>6, <2>7
<1>6. CASE \E address \in Int, n \in Sizes, word \in Word : WritePhysicalMemory(address, n, word)
  BY <1>5, <1>6 DEF MemoryInv
<1> QED
  BY <1>2, <1>3, <1>4, <1>6 DEF MemoryStep

LEMMA LoadsStored ==
    ASSUME TypeInv, MemoryInv, Load
    PROVE  LoadGetsWhatWasStored
<1> DEFINE a == Validated(instr.address)
           n == instr.size
           word == ReadData(instr.address, n, [i \in 0 .. 3 |-> Garbage])
<1> SUFFICES ASSUME ~InRange(a), NEW b \in Span(a, n), b < Size, b \notin lost
             PROVE  X'[instr.reg][b - a] = stored[b]
  BY DEF LoadGetsWhatWasStored
<1>1. CoreTypeOK /\ instr.reg \in XRegs /\ 0 \notin XRegs /\ n \in Sizes /\ a \in 0 .. Size - 1
  BY Types, ValidatedType, CoreStepAssumption DEF Fetched, Load
<1>2. X' = SetGP(copy, instr.reg, Extended(word, n, instr.op = "load"))
  BY DEF Load, Retire
<1>3. X'[instr.reg] = Extended(word, n, instr.op = "load")
  BY <1>1, <1>2 DEF SetGP, CoreTypeOK
<1>4. word = [i \in 0 .. 3 |-> IF i < n THEN ram[a + i] ELSE Garbage]
  BY DEF ReadData
<1> HIDE DEF word, a
<1>5. b - a \in 0 .. 3 /\ b - a < n /\ a + (b - a) = b /\ b \in 0 .. Size - 1
  BY <1>1, SpanType, CoreStepAssumption DEF Span, Sizes
<1>6. X'[instr.reg][b - a] = word[b - a]
  BY <1>3, <1>5 DEF Extended
<1>7. word[b - a] = ram[b]
  BY <1>4, <1>5
<1> QED BY <1>5, <1>6, <1>7 DEF MemoryInv

(* A load gets what instructions and the debugger last stored at its        *)
(* bytes, unless that store, or the load, began in a device's window or     *)
(* went around the end of memory (ReadPhysicalMemory, WritePhysicalMemory,  *)
(* MEMORY_READ), for any size of memory and place of the window.            *)
THEOREM MemoryKeepsWhatWasStored == Spec => LoadsGetWhatWasStored
<1>1. Init => MemoryInv
  <2> SUFFICES ASSUME Init PROVE MemoryInv
    OBVIOUS
  <2>1. PICK v \in Fills : ram = [b \in Cells |-> v] /\ stored = [b \in 0 .. Size - 1 |-> v]
    BY DEF Init
  <2>2. \A b \in 0 .. Size - 1 : b \in Cells
    BY CoreStepAssumption DEF Cells
  <2> QED BY <2>1, <2>2 DEF MemoryInv
<1>2. TypeInv /\ MemoryInv /\ [Next]_vars => MemoryInv'
  BY MemoryIsKept
<1>3. TypeInv /\ MemoryInv /\ [Next]_vars => [LoadGetsWhatWasStored]_vars
  <2> SUFFICES ASSUME TypeInv, MemoryInv, Next,
                      at = "execute", at' = "fetch", instr.op \in {"load", "loadu"}
               PROVE  LoadGetsWhatWasStored
    BY DEF LoadGetsWhatWasStored
  <2>1. Load
    BY DEF Next, Execute, Debugger, Fetch, Store, Other, Jump, Trap, ReadOnlyCSR, Stopped, KillTarget,
           ReadRegister, WriteRegister, ReadsMemory, WritesMemory, Continue, Abandon, Request
  <2> QED BY <2>1, LoadsStored
<1> QED BY <1>1, <1>2, <1>3, TypeInit, TypeStep, PTL DEF Spec, LoadsGetWhatWasStored

-----------------------------------------------------------------------------
(* A value set by the debugger *)

LEMMA StickStep ==
    ASSUME TypeInv, StickInv, [Next]_vars
    PROVE  StickInv'
<1>1. CoreTypeOK /\ RestTypeOK
  BY Types
<1>2. CASE Fetch \/ Abandon
  BY <1>2 DEF Fetch, Abandon, core, StickInv
<1>3. CASE Execute
  <2>1. PICK rd \in XRegs \cup {0}, word \in Word, p \in PCs : Retire(SetGP(copy, rd, word), rd, p)
    BY <1>3, Executed
  <2>2. X' = SetGP(copy, rd, word) /\ copy' = X' /\ set' = pending'
    BY <2>1 DEF Retire
  <2>3. \A q \in XRegs \ {rd} : X'[q] = copy[q]
    BY <1>1, <2>2 DEF SetGP, CoreTypeOK
  <2>4. DOMAIN pending' = DOMAIN pending \ {rd} /\ \A q \in DOMAIN pending' : pending'[q] = pending[q]
    BY <2>1 DEF Retire
  <2>5. \A q \in DOMAIN pending' : X'[q] = pending'[q]
    BY <1>1, <2>3, <2>4 DEF StickInv, RestTypeOK
  <2> QED BY <2>2, <2>5 DEF StickInv
<1>4. ASSUME NEW i \in RegIndices, NEW value \in Words \cup {Malformed}, WriteRegister(i, value)
      PROVE  StickInv'
  <2>1. UNCHANGED <<X, set>>
    BY <1>4 DEF WriteRegister, Request, core
  <2>2. \A q \in DOMAIN pending : q \in XRegs /\ copy[q] = pending[q]
    BY <1>1 DEF StickInv, RestTypeOK
  <2>3. CASE response' = "OK" /\ RegType(i) \in {"GP", "SP"}
    <3>1. copy' = SetGP(copy, Named(i), value)
      BY <1>4, <2>3 DEF WriteRegister, Named
    <3>2. pending' = IF Named(i) \in XRegs
                     THEN [q \in DOMAIN pending \cup {Named(i)} |-> IF q = Named(i) THEN value ELSE pending[q]]
                     ELSE pending
      BY <1>4, <2>3 DEF WriteRegister, Named
    <3>3. Named(i) \in XRegs \cup {0} /\ 0 \notin XRegs
      BY <2>3, Indices, CoreStepAssumption
    <3>4. \A q \in DOMAIN pending' : copy'[q] = pending'[q]
      <4>1. CASE Named(i) \in XRegs
        <5>1. copy' = [copy EXCEPT ![Named(i)] = value]
          BY <3>1, <3>3, <4>1 DEF SetGP
        <5> QED BY <1>1, <2>2, <3>2, <4>1, <5>1 DEF CoreTypeOK
      <4>2. CASE Named(i) = 0
        BY <2>2, <3>1, <3>2, <3>3, <4>2 DEF SetGP
      <4> QED BY <3>3, <4>1, <4>2
    <3> QED BY <2>1, <3>4 DEF StickInv
  <2>4. CASE ~(response' = "OK" /\ RegType(i) \in {"GP", "SP"})
    <3>1. UNCHANGED <<copy, pending>>
      <4>1. copy' = copy
        BY <1>4, <2>4 DEF WriteRegister
      <4>2. pending' = pending
        <5>1. CASE response' = "OK"
          <6>1. RegType(i) = "PC" /\ i = 32 /\ i \notin XRegs
            BY <1>4, <2>4, <5>1, CoreStepAssumption DEF WriteRegister, RegType
          <6> QED BY <1>4, <6>1 DEF WriteRegister
        <5>2. CASE response' # "OK"
          BY <1>4, <5>2 DEF WriteRegister
        <5> QED BY <5>1, <5>2
      <4> QED BY <4>1, <4>2
    <3> QED BY <2>1, <3>1 DEF StickInv
  <2> QED BY <2>3, <2>4
<1>5. CASE \/ ReadRegister \/ KillTarget \/ Continue
           \/ \E address \in Addresses, n \in Sizes : ReadsMemory(address, n)
           \/ \E address \in Addresses, n \in Sizes, value \in Words \cup {Malformed} :
                  WritesMemory(address, n, value)
  <2>1. UNCHANGED <<X, copy, set, pending>>
    BY <1>5 DEF ReadRegister, KillTarget, Continue, ReadsMemory, WritesMemory, Request, core
  <2> QED BY <2>1 DEF StickInv
<1>6. CASE Stopped \/ UNCHANGED vars
  BY <1>6 DEF Stopped, vars, core, step, StickInv
<1> QED
  BY <1>2, <1>3, <1>4, <1>5, <1>6 DEF Next, Debugger

(* What the debugger puts into a register is in the core after the          *)
(* instruction that it was stopped at, and until an instruction writes the  *)
(* register; only what it sets at a stop that ends with 'k' is dropped      *)
(* (WriteRegister, StepCore's copy, its early return and Writeback).        *)
THEOREM RegistersKeepWhatWasSet == Spec => []DebuggerWritesStick
<1>1. Init => StickInv
  <2> SUFFICES ASSUME Init PROVE StickInv
    OBVIOUS
  <2>1. set = <<>> /\ pending = <<>>
    BY DEF Init
  <2>2. DOMAIN set = {} /\ DOMAIN pending = {}
    BY <2>1
  <2> QED BY <2>2 DEF StickInv
<1>2. TypeInv /\ StickInv /\ [Next]_vars => StickInv'
  BY StickStep
<1>3. StickInv => DebuggerWritesStick
  BY DEF StickInv, DebuggerWritesStick
<1> QED BY <1>1, <1>2, <1>3, TypeInit, TypeStep, PTL DEF Spec

-----------------------------------------------------------------------------
(* Garbage *)

CleanWords == {word \in Word : CleanWord(word)}

CleanMemory == /\ \A b \in Cells : ram[b] # Garbage
               /\ \A d \in DeviceRegs : CleanWord(dev[d])

CleanCore == \A r \in XRegs : CleanWord(X[r]) /\ CleanWord(copy[r])

LEMMA CleanInvs == CleanInv <=> refused \/ (CleanCore /\ CleanMemory)
BY DEF CleanInv, CleanCore, CleanMemory

LEMMA CleanMemoryStep ==
    ASSUME TypeInv, CleanCore, CleanMemory, [Next]_vars
    PROVE  CleanMemory'
<1>1. MemoryTypeOK /\ CoreTypeOK
  BY Types
<1>2. MemoryStep(CleanWords)
  <2>1. /\ Words \subseteq CleanWords /\ Zero \in CleanWords
        /\ \A r \in XRegs : copy[r] \in CleanWords
    BY <1>1, WordTypes DEF CleanWords, CleanCore, CoreTypeOK
  <2> QED BY <2>1, MemorySteps
<1>3. CASE UNCHANGED memory
  BY <1>3 DEF memory, CleanMemory
<1>4. ASSUME NEW address \in Int, NEW n \in Sizes, ReadPhysicalMemory(address, n)
      PROVE  CleanMemory'
  <2>1. ram' = ram /\ (dev' = dev \/ \E a \in DeviceRegs : dev' = [dev EXCEPT ![a] = Zero])
    BY <1>4, CoreStepAssumption DEF ReadPhysicalMemory
  <2>2. \A d \in DeviceRegs : dev'[d] = dev[d] \/ dev'[d] = Zero
    BY <1>1, <2>1 DEF MemoryTypeOK
  <2> QED BY <2>1, <2>2, WordTypes DEF CleanMemory
<1>5. ASSUME NEW address \in Int, NEW n \in Sizes, NEW word \in CleanWords,
             WritePhysicalMemory(address, n, word)
      PROVE  CleanMemory'
  <2> DEFINE a == Validated(address)
  <2>1. a \in 0 .. Size - 1
    BY ValidatedType
  <2>2. \A b \in Span(a, n) : word[b - a] # Garbage
    BY <2>1, SpanType DEF CleanWords, CleanWord
  <2>3. ram' = ram \/ ram' = Put(ram, Span(a, n), a, word)
    BY <1>5 DEF WritePhysicalMemory
  <2>4. dev' = dev \/ dev' = [dev EXCEPT ![a] = word]
    BY <1>5 DEF WritePhysicalMemory, WriteDeviceMemory
  <2> HIDE DEF a
  <2>5. \A b \in Cells : ram'[b] # Garbage
    BY <1>1, <2>2, <2>3 DEF Put, CleanMemory, MemoryTypeOK
  <2>6. \A d \in DeviceRegs : dev'[d] = dev[d] \/ dev'[d] = word
    BY <1>1, <2>4 DEF MemoryTypeOK
  <2> QED BY <2>5, <2>6 DEF CleanMemory, CleanWords
<1> QED
  BY <1>2, <1>3, <1>4, <1>5 DEF MemoryStep

\* a load that is not refused has all the bytes it asked for
LEMMA LoadedIsClean ==
    ASSUME TypeInv, CleanMemory, NEW address \in Int, NEW n \in Sizes, NEW buffer \in Word,
           ~(ReadFails(address, n) /\ InRange(Validated(address)))
    PROVE  \A i \in 0 .. 3 : i < n => ReadData(address, n, buffer)[i] # Garbage
<1> DEFINE a == Validated(address)
<1>1. a \in 0 .. Size - 1
  BY ValidatedType
<1>2. CASE InRange(a)
  <2>1. Accepts(a, n)
    BY <1>2 DEF ReadFails
  <2>2. ReadData(address, n, buffer) = dev[a] /\ a \in DeviceRegs
    BY <1>2, <2>1 DEF ReadData, ReadDeviceMemory, Accepts
  <2> QED BY <2>2 DEF CleanMemory, CleanWord
<1>3. CASE ~InRange(a)
  <2>1. \A i \in 0 .. 3 : i < n => ReadData(address, n, buffer)[i] = ram[a + i]
    BY <1>3 DEF ReadData
  <2> HIDE DEF a
  <2>2. \A i \in 0 .. 3 : a + i \in Cells
    BY <1>1, CoreStepAssumption DEF Cells
  <2> QED BY <2>1, <2>2 DEF CleanMemory
<1> QED BY <1>2, <1>3

LEMMA ExtendedIsClean ==
    ASSUME NEW word \in Word, NEW n \in Sizes, NEW signed \in BOOLEAN,
           \A i \in 0 .. 3 : i < n => word[i] # Garbage
    PROVE  CleanWord(Extended(word, n, signed))
<1>1. word[n - 1] # Garbage /\ 0 # Garbage /\ 255 # Garbage
  BY CoreStepAssumption DEF Sizes
<1> QED BY <1>1 DEF Extended, CleanWord

LEMMA CleanCoreStep ==
    ASSUME TypeInv, CleanCore, CleanMemory, [Next]_vars, ~refused'
    PROVE  CleanCore'
<1>1. CoreTypeOK /\ instr.address \in Int /\ instr.size \in Sizes
  BY Types DEF Fetched
<1>2. CASE Fetch \/ Abandon
  BY <1>2 DEF Fetch, Abandon, core, CleanCore
<1>3. Load => CleanWord(Loaded)
  <2> SUFFICES ASSUME Load PROVE CleanWord(Loaded)
    OBVIOUS
  <2> DEFINE word == ReadData(instr.address, instr.size, [i \in 0 .. 3 |-> Garbage])
  <2>1. ~(ReadFails(instr.address, instr.size) /\ InRange(Validated(instr.address)))
    BY DEF Load
  <2>2. word \in Word
    BY <1>1, WordTypes, ReadDataType DEF TypeInv
  <2>3. \A i \in 0 .. 3 : i < instr.size => word[i] # Garbage
    BY <1>1, <2>1, WordTypes, LoadedIsClean
  <2>4. Loaded = Extended(word, instr.size, instr.op = "load")
    BY DEF Loaded
  <2> HIDE DEF word
  <2> QED BY <1>1, <2>2, <2>3, <2>4, ExtendedIsClean
<1>4. CASE Execute
  <2>1. PICK rd \in XRegs \cup {0}, word \in Word, p \in PCs :
            Retire(SetGP(copy, rd, word), rd, p) /\ ((Load /\ word = Loaded) \/ CleanWord(word))
    BY <1>4, Executed
  <2>2. X' = SetGP(copy, rd, word) /\ copy' = X' /\ CleanWord(word)
    BY <1>3, <2>1 DEF Retire
  <2>3. \A r \in XRegs : X'[r] = copy[r] \/ X'[r] = word
    BY <1>1, <2>2 DEF SetGP, CoreTypeOK
  <2> QED BY <2>2, <2>3 DEF CleanCore
<1>7. ASSUME NEW i \in RegIndices, NEW value \in Words \cup {Malformed}, WriteRegister(i, value)
      PROVE  CleanCore'
  <2>1. X' = X
    BY <1>7 DEF WriteRegister, Request, core
  <2>2. CASE response' = "OK" /\ RegType(i) \in {"GP", "SP"}
    <3>1. copy' = SetGP(copy, Named(i), value) /\ CleanWord(value)
      BY <1>7, <2>2, DecodedValue, WordTypes DEF WriteRegister, Named
    <3>2. \A r \in XRegs : copy'[r] = copy[r] \/ copy'[r] = value
      BY <1>1, <3>1 DEF SetGP, CoreTypeOK
    <3> QED BY <2>1, <3>1, <3>2 DEF CleanCore
  <2>3. CASE ~(response' = "OK" /\ RegType(i) \in {"GP", "SP"})
    BY <1>7, <2>1, <2>3 DEF WriteRegister, CleanCore
  <2> QED BY <2>2, <2>3
<1>8. CASE \/ ReadRegister \/ KillTarget \/ Continue \/ Stopped \/ UNCHANGED vars
           \/ \E address \in Addresses, n \in Sizes : ReadsMemory(address, n)
           \/ \E address \in Addresses, n \in Sizes, value \in Words \cup {Malformed} :
                  WritesMemory(address, n, value)
  <2>1. UNCHANGED <<X, copy>>
    BY <1>8 DEF ReadRegister, KillTarget, Continue, ReadsMemory, WritesMemory, Request, Stopped, vars, core, step
  <2> QED BY <2>1 DEF CleanCore
<1> QED
  BY <1>2, <1>4, <1>7, <1>8 DEF Next, Debugger

\* once a load was refused the history says so for ever
LEMMA RefusedStays ==
    ASSUME [Next]_vars, refused
    PROVE  refused'
BY DEF Next, Fetch, Execute, Load, Store, Other, Jump, Trap, ReadOnlyCSR, Debugger, ReadRegister,
       WriteRegister, ReadsMemory, WritesMemory, KillTarget, Continue, Abandon, Request, Stopped, vars

(* Uninitialised bytes of an instruction's buffer get into registers,       *)
(* memory and devices only after a device has refused a load (MEMORY_READ   *)
(* ignoring ReadMemory's code): no other path leads there.                  *)
THEOREM GarbageIsContained == Spec => []GarbageComesFromRefusedLoads
<1>1. Init => CleanInv
  <2> SUFFICES ASSUME Init PROVE CleanCore /\ CleanMemory
    BY CleanInvs
  <2>1. CleanCore
    BY WordTypes DEF Init, CleanCore
  <2>2. PICK v \in Fills : ram = [b \in Cells |-> v]
    BY DEF Init
  <2>3. dev = [r \in DeviceRegs |-> Zero]
    BY DEF Init
  <2> QED BY <2>1, <2>2, <2>3, WordTypes, CoreStepAssumption DEF CleanMemory
<1>2. TypeInv /\ CleanInv /\ [Next]_vars => CleanInv'
  <2> SUFFICES ASSUME TypeInv, CleanInv, [Next]_vars, ~refused' PROVE CleanCore' /\ CleanMemory'
    BY CleanInvs, PTL
  <2>1. CleanCore /\ CleanMemory
    BY RefusedStays, CleanInvs
  <2> QED BY <2>1, CleanCoreStep, CleanMemoryStep
<1>3. CleanInv => GarbageComesFromRefusedLoads
  BY DEF CleanInv, CleanWord, GarbageComesFromRefusedLoads
<1> QED BY <1>1, <1>2, <1>3, TypeInit, TypeStep, PTL DEF Spec
=============================================================================
