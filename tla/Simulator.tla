------------------------------- MODULE Simulator -------------------------------
(***************************************************************************)
(* The simulator's main loop (class RiscvSimulator): Go loads the program, *)
(* then rounds of StepCores, ServiceDevices and GetReadyCpus until nothing *)
(* runs and nothing sleeps, an error occurs or the instruction limit is    *)
(* passed.  StepCore works on a copy of the core, state_updates, written   *)
(* back at the end; it is cut into steps where it can return early and     *)
(* where the debug server may change the copy.                             *)
(*                                                                         *)
(* The program is arbitrary: a fetch returns any member of Instrs.         *)
(***************************************************************************)
EXTENDS RiscvState, FiniteSets

CONSTANTS
    NumCores,            \* SimConfig::CoreCount
    MaxInstrs,           \* SimConfig::MaxInstrs; negative: no limit
    ISAtest,             \* SimConfig::ISAtest: ecall ends the test
    HasTimer, HasUart,   \* devices mapped on the command line
    HasDebugServer,      \* a debug port is configured
    AddressSpace,        \* bytes of memory; 2^32, see DefaultAddressRange
    ResetAddress,
    Instrs,              \* the instructions programs are made of
    DebugPCs,            \* what the debugger may write to the PC
    UninitStatus,        \* what an uninitialised mstatus may hold,
    UninitPending,       \*  ... mie and mip,
    UninitAddress,       \*  ... mtvec and mepc
    WordBits, TimerAdvance

Cores == 0 .. NumCores - 1

(* An instruction is its effect on control: "next" is any instruction that *)
(* falls through, "jump" goes to value, the "csrw" ones write bits or      *)
(* value to a register, "store_timer" writes value to a timer register,    *)
(* "illegal" is whatever is unknown, unimplemented or not permitted.       *)
Ops == {"next", "jump", "csrw_mstatus", "csrw_mie", "csrw_mip", "csrw_mtvec", "csrw_mepc",
        "csrw_misa", "ecall", "mret", "wfi", "illegal", "store_timer"}

TimerRegs == {"none", "TIMER_LO", "TIMER_HI", "TIMER_COMPARE_LO", "TIMER_COMPARE_HI"}

InstrType == [op : Ops, size : {2, 4}, value : Nat, bits : SUBSET Nat, reg : TimerRegs]

MISA_C == 2              \* bit of misa

ASSUME SimulatorAssumption ==
    /\ NumCores \in Nat \ {0}
    /\ MaxInstrs \in Int
    /\ AddressSpace \in Nat /\ AddressSpace >= 4 /\ AddressSpace % 4 = 0
    /\ ResetAddress \in Nat
    /\ {ISAtest, HasTimer, HasUart, HasDebugServer} \subseteq BOOLEAN
    /\ Instrs \subseteq InstrType
    /\ \A i \in Instrs : /\ i.value < AddressSpace
                         /\ i.size = 2 => i.op \in {"next", "jump"}
    /\ DebugPCs \subseteq Nat /\ UninitAddress \subseteq Nat
    /\ UninitStatus \subseteq SUBSET Nat /\ UninitPending \subseteq SUBSET Nat

VARIABLES
    at,             \* where Go is
    cores,
    ready,          \* ready_cores not stepped yet in this round; random_shuffle
                    \* puts them in any order, so the next one is any of them
    instr_count,
    rcode,          \* the simulator's 'master' error code
    exit_code,      \* of the process
    \* locals of StepCore:
    core,           \* the core being stepped
    su,             \* state_updates
    serviced,       \* interrupt_to_service, 0 if none
    pc,
    instr,
    timer, timer_compare

Timer == INSTANCE MachineTimer

\* what is stored to the timer is a word, to one of its registers
ASSUME TimerStoresAssumption ==
    \A i \in Instrs : i.op = "store_timer" => i.reg \in Timer!Registers /\ i.value \in Timer!Word

locals == <<core, su, serviced, pc, instr>>
timers == <<timer, timer_compare>>
vars   == <<at, cores, ready, instr_count, rcode, exit_code, locals, timers>>

-----------------------------------------------------------------------------
(* Init: only the PC, the mode and misa of a core are given a value *)

ResetStates ==
    [PC : {ResetAddress}, privilege : {MACHINE_MODE}, low_power : {FALSE}, end_test : {FALSE},
     C : {TRUE}, MSTATUS : UninitStatus, MIE : UninitPending, MIP : UninitPending,
     MTVEC : UninitAddress, MEPC : UninitAddress]

NoInstr == [op |-> "illegal", size |-> 4, value |-> 0, bits |-> {}, reg |-> "none"]

NoState == [PC |-> 0, privilege |-> MACHINE_MODE, low_power |-> FALSE, end_test |-> FALSE,
            C |-> TRUE, MSTATUS |-> {}, MIE |-> {}, MIP |-> {}, MTVEC |-> 0, MEPC |-> 0]

\* StepCore has returned and its locals are gone
NoLocals == core' = 0 /\ su' = NoState /\ serviced' = 0 /\ pc' = 0 /\ instr' = NoInstr

Init ==
    /\ at = "load"
    /\ cores \in [Cores -> ResetStates]
    /\ ready = {}
    /\ instr_count = 0 /\ rcode = 0 /\ exit_code = 0
    /\ core = 0 /\ su = NoState /\ serviced = 0 /\ pc = 0 /\ instr = NoInstr
    /\ Timer!Init

-----------------------------------------------------------------------------
(* Go *)

MutantGetReadyCpus(cs) == {c \in Cores : ~cs[c].low_power \/ InterruptPending(cs[c])}

GetReadyCpus(cs) == {c \in Cores : Ready(cs[c])}

SleepingCores == \E c \in Cores : cores[c].low_power

InstructionCountExceeded == MaxInstrs >= 0 /\ instr_count > MaxInstrs

LoadTestImage ==
    /\ at = "load"
    /\ \/ /\ rcode' = 0
          /\ at' = "loop"
          /\ ready' = GetReadyCpus(cores)
       \/ /\ rcode' = -1
          /\ at' = "returned"
          /\ UNCHANGED ready
    /\ UNCHANGED <<cores, instr_count, exit_code, locals, timers>>

KeepGoing == rcode = 0 /\ ~InstructionCountExceeded /\ (ready # {} \/ SleepingCores)

EnterRound ==
    /\ at = "loop" /\ KeepGoing
    /\ at' = "step"
    /\ UNCHANGED <<cores, ready, instr_count, rcode, exit_code, locals, timers>>

GoReturns ==
    /\ at = "loop" /\ ~KeepGoing
    /\ rcode' = IF \E c \in Cores : ~cores[c].end_test THEN -1 ELSE rcode
    /\ at' = "returned"
    /\ UNCHANGED <<cores, ready, instr_count, exit_code, locals, timers>>

\* run_simulation: the result of Go is replaced by those of WriteTestSignature and DumpTest
Exit ==
    /\ at = "returned"
    /\ \E signature, dump \in {0, -1} : exit_code' = IF signature = 0 THEN dump ELSE signature
    /\ at' = "exited"
    /\ UNCHANGED <<cores, ready, instr_count, rcode, locals, timers>>

MutantServiceDevices ==
    /\ IF HasTimer THEN Timer!AdvanceTimer ELSE UNCHANGED timers
    /\ cores' = [c \in Cores |-> IF HasTimer /\ Timer!InterruptPending' THEN Signal(cores[c], MTI)
                                                                     ELSE cores[c]]

\* the interrupt lines of both devices are tied to core 0
ServiceDevices ==
    /\ IF HasTimer THEN Timer!AdvanceTimer ELSE UNCHANGED timers
    /\ \E uart \in (IF HasUart THEN BOOLEAN ELSE {FALSE}) :
         LET t == IF HasTimer /\ Timer!InterruptPending' THEN Signal(cores[0], MTI) ELSE cores[0]
         IN  cores' = [cores EXCEPT ![0] = IF uart THEN Signal(t, MEI) ELSE t]

\* the end of StepCores and the rest of the round
ServiceRound ==
    /\ at = "step"
    /\ ready = {} \/ rcode # 0
    /\ ServiceDevices
    /\ ready' = GetReadyCpus(cores')
    /\ at' = "loop"
    /\ UNCHANGED <<instr_count, rcode, exit_code, locals>>

-----------------------------------------------------------------------------
(* StepCore *)

MutantStepPC(s) == s.PC

\* StepCore keeps the PC in an unsigned int
StepPC(s) == s.PC % AddressSpace

\* copy the core and let an interrupt in; uninit and uninitC are what the copy's
\* mstatus and misa.C held before
BeginStep(c, uninit, uninitC) ==
    LET copy == Update([NoState EXCEPT !.MSTATUS = uninit, !.C = uninitC], cores[c])
        s    == IF InterruptPending(copy) THEN ProcessInterrupt(copy, InterruptToService(copy))
                                          ELSE copy
    IN  /\ at = "step" /\ rcode = 0
        /\ c \in ready
        /\ ready' = ready \ {c}
        /\ IF s.low_power
           THEN at' = "step" /\ UNCHANGED locals
           ELSE /\ at' = "fetch"
                /\ core' = c
                /\ su' = s
                /\ serviced' = IF InterruptPending(copy) THEN InterruptToService(copy) ELSE 0
                /\ pc' = StepPC(s)
                /\ UNCHANGED instr
        /\ UNCHANGED <<cores, instr_count, rcode, exit_code, timers>>

\* Memory ranges over the whole address space and ignores upper address bits, so
\* the reads never fail, not even at its end.  Two-byte instructions are only
\* decoded while misa.C is set.
Fetch(i) ==
    /\ at = "fetch"
    /\ i.size = 2 => su.C
    /\ instr' = i
    /\ at' = IF HasDebugServer THEN "debug" ELSE "execute"
    /\ UNCHANGED <<cores, ready, instr_count, rcode, exit_code, core, su, serviced, pc, timers>>

\* DebugPreStepChecks returns true, having perhaps stopped and written the PC of the copy
DebugResume(newPC) ==
    /\ at = "debug"
    /\ su' = [su EXCEPT !.PC = newPC]
    /\ at' = "execute"
    /\ UNCHANGED <<cores, ready, instr_count, rcode, exit_code, core, serviced, pc, instr, timers>>

MutantDebugEnds ==
    /\ at = "debug"
    /\ cores' = [cores EXCEPT ![core] = [su EXCEPT !.end_test = TRUE]]
    /\ at' = "step"
    /\ NoLocals
    /\ UNCHANGED <<ready, instr_count, rcode, exit_code, timers>>

\* ... false: end_test is set in the copy, and the copy is dropped
DebugEnds ==
    /\ at = "debug"
    /\ at' = "step"
    /\ NoLocals
    /\ UNCHANGED <<cores, ready, instr_count, rcode, exit_code, timers>>

\* SetPC refuses a target that is not aligned
Aligned(s, target) == target % (IF s.C THEN 2 ELSE 4) = 0

\* the copy after Execute: the Step of the instruction and, unless it threw, AdvancePC
Execute(s, i) ==
    LET next == [s EXCEPT !.PC = (pc + i.size) % AddressSpace]
    IN  CASE i.op = "jump" -> IF Aligned(s, i.value) THEN [s EXCEPT !.PC = i.value] ELSE ProcessTrap(s)
          [] i.op = "csrw_mstatus" -> SetMSTATUS(next, i.bits)
          [] i.op = "csrw_mie"     -> [next EXCEPT !.MIE = i.bits]
          [] i.op = "csrw_mip"     -> [next EXCEPT !.MIP = i.bits]
          [] i.op = "csrw_mtvec"   -> [next EXCEPT !.MTVEC = i.value]
          [] i.op = "csrw_mepc"    -> [next EXCEPT !.MEPC = i.value]
          [] i.op = "csrw_misa"    -> [SetMISA(s, MISA_C \in i.bits) EXCEPT !.PC = next.PC]
          [] i.op \in {"ecall", "illegal"} -> ProcessTrap(s)
          [] i.op = "mret" -> IF s.privilege = MACHINE_MODE THEN ProcessMRET(s) ELSE ProcessTrap(s)
          [] i.op = "wfi"  -> IF s.privilege # USER_MODE /\ WFIEnabled(s) THEN ProcessWFI(s)
                                                                        ELSE ProcessTrap(s)
          [] OTHER -> next

Written == Update(cores[core], Execute(su, instr))

MutantEndTest(s) == s.end_test \/ (ISAtest /\ instr.op = "ecall") \/ s.PC = pc

\* an ecall ends an ISA test; otherwise a core that is awake and has not moved ends its test
EndTest(s) ==
    \/ s.end_test
    \/ ISAtest /\ instr.op = "ecall"
    \/ ~s.low_power /\ s.PC = pc

MutantCounted == IF MaxInstrs < 0 \/ core # 0 THEN instr_count ELSE instr_count + 1

\* without a limit nothing depends on instr_count but the printed rate: it stays 0
Counted == IF MaxInstrs < 0 THEN instr_count ELSE instr_count + 1

ExecuteAndWriteback ==
    /\ at = "execute"
    /\ cores' = [cores EXCEPT ![core] = [Written EXCEPT !.end_test = EndTest(Written)]]
    /\ IF instr.op = "store_timer" /\ HasTimer THEN Timer!Write(instr.reg, instr.value)
                                               ELSE UNCHANGED timers
    /\ instr_count' = Counted
    /\ at' = "step"
    /\ NoLocals
    /\ UNCHANGED <<ready, rcode, exit_code>>

Stopped == at = "exited" /\ UNCHANGED vars

Next ==
    \/ LoadTestImage \/ EnterRound \/ GoReturns \/ Exit \/ ServiceRound
    \/ \E c \in Cores, uninit \in UninitStatus, uninitC \in BOOLEAN : BeginStep(c, uninit, uninitC)
    \/ \E i \in Instrs : Fetch(i)
    \/ \E newPC \in {su.PC} \cup DebugPCs : DebugResume(newPC)
    \/ DebugEnds
    \/ ExecuteAndWriteback
    \/ Stopped

Spec == Init /\ [][Next]_vars

\* one thread runs Go to its end
FairSpec == Spec /\ WF_vars(Next)

-----------------------------------------------------------------------------
(* Properties *)

InStep == at \in {"fetch", "debug", "execute"}

(* Every variable keeps to the values of its C++ type: in particular the   *)
(* pc StepCore fetches from is an address, whatever 64-bit PC the trap     *)
(* unit computed from mtvec.                                               *)
TypeOK ==
    /\ at \in {"load", "loop", "step", "fetch", "debug", "execute", "returned", "exited"}
    /\ cores \in [Cores -> CoreState]
    /\ ready \subseteq Cores
    /\ instr_count \in Nat
    /\ rcode \in {0, -1} /\ exit_code \in {0, -1}
    /\ core \in Cores /\ su \in CoreState /\ serviced \in {0, MTI, MEI}
    /\ pc \in 0 .. AddressSpace - 1
    /\ instr \in InstrType

(* GetReadyCpus fills the list once per round, before any core of the round *)
(* steps: no step of another core may make an entry stale, so StepCore is  *)
(* never called on a core that has ended, and its low-power early return   *)
(* (riscv_simulator.C:149) is never taken.                                 *)
ReadyListFresh ==
    /\ at \in {"loop", "step", "fetch", "debug", "execute"} => \A c \in ready : Ready(cores[c])
    /\ InStep => Ready(cores[core]) /\ core \notin ready /\ ~su.low_power

(* SleepingCores does not ask whether the sleeping core has ended its test, *)
(* so Go would spin for ever on a core that has done both.                 *)
EndedCoresAreAwake == \A c \in Cores : cores[c].end_test => ~cores[c].low_power

(* The limit is tested once per round and with >, so it can be overshot,   *)
(* but by no more than one instruction per core.  It limits the sum over   *)
(* all cores, not each core as the help text has it                        *)
(* (program_options.C:77).                                                 *)
InstrLimit == MaxInstrs >= 0 => instr_count <= MaxInstrs + NumCores

(* Returning from a trap that interrupts machine mode, or user mode with a *)
(* cleared mpp, restores the privilege and the interrupt enable            *)
(* (PushPrivilegeLevel, then PopPrivilegeLevel), whatever state the        *)
(* program has reached and whatever mstatus held at reset.                 *)
TrapReturnRestores ==
    \A c \in Cores :
        LET s == cores[c]
            r == PopPrivilegeLevel(PushPrivilegeLevel(s))
        IN  s.privilege = MACHINE_MODE \/ (s.privilege = USER_MODE /\ MPP(s.MSTATUS) = 0)
              => /\ r.privilege = s.privilege
                 /\ GlobalInterruptsEnabled(r) = GlobalInterruptsEnabled(s)

(* The same without the condition: PushPrivilegeLevel says it clears bits  *)
(* 12,11,7,3 of mstatus and saves the current privilege level in mpp.      *)
TrapSavesPrivilege ==
    \A c \in Cores :
        cores[c].privilege \in {USER_MODE, MACHINE_MODE}
          => MPP(PushPrivilegeLevel(cores[c]).MSTATUS) = cores[c].privilege

(* A core that may not run compressed instructions is at a word boundary,  *)
(* whatever it does to misa, mepc and by jumps: SetMISA, SetPC and mret    *)
(* defend this together.                                                   *)
WordAlignedWithoutC == \A c \in Cores : ~cores[c].C => cores[c].PC % 4 = 0

(* An interrupt that is pending on a core stays pending until that core    *)
(* has entered its handler or the program itself writes mip: the copy      *)
(* StepCore drops on an early return does not take it along.               *)
NoLostInterrupt ==
    [][\A c \in Cores : \A i \in cores[c].MIP \ cores'[c].MIP :
          /\ at = "execute" /\ core = c
          /\ serviced = i \/ instr.op = "csrw_mip"]_vars

(* Only core 0 is wired to the devices: a core that sleeps with no         *)
(* interrupt pending is woken by them alone.                               *)
OthersSleepForEver ==
    [][\A c \in Cores \ {0} :
          cores[c].low_power /\ ~InterruptPending(cores[c]) => cores'[c] = cores[c]]_vars

(* Go returns -1 for a failed load or a core that has not ended its test;  *)
(* run by CTest, the process reports this by its status.                   *)
ExitStatusReportsFailure == at = "exited" /\ rcode # 0 => exit_code # 0

GoIsOver == at \in {"returned", "exited"}

(* A pending and enabled interrupt is taken, or the simulation ends.       *)
InterruptsAreTaken ==
    \A c \in Cores : InterruptPending(cores[c]) /\ ~cores[c].end_test
                       ~> ~InterruptPending(cores[c]) \/ GoIsOver

(* With an instruction limit the simulation ends, unless every core that   *)
(* has not ended its test sleeps for ever.                                 *)
EndsOrSleeps ==
    \/ <>GoIsOver
    \/ <>[](\A c \in Cores : cores[c].end_test \/ cores[c].low_power)

=============================================================================
