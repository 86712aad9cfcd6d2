---------------------------- MODULE SimulatorProofs ----------------------------
(* Theorems about Simulator, for any number of cores, any program and any     *)
(* contents of the uninitialised registers.                                   *)
EXTENDS Simulator, FiniteSetTheorems, TLAPS

-----------------------------------------------------------------------------
(* The functions on a core's state stay within CoreState *)

LEMMA MPPType == \A m : MPP(m) \in Privileges
  BY DEF MPP, Privileges

LEMMA MSTATUSafterType ==
  ASSUME NEW old \in SUBSET Nat, NEW rval
  PROVE  MSTATUSafter(old, rval) \in SUBSET Nat
  <1> DEFINE v == rval \cap StatusBits
  <1>1. v \in SUBSET Nat
    BY DEF StatusBits
  <1>2. (v \ {MPPlo, MPPhi}) \cup (old \cap {MPPlo, MPPhi}) \in SUBSET Nat
    BY <1>1
  <1> QED
    BY <1>1, <1>2 DEF MSTATUSafter

LEMMA PushType ==
  ASSUME NEW s \in CoreState
  PROVE  PushPrivilegeLevel(s) \in CoreState
  <1>1. s.MSTATUS \in SUBSET Nat
    BY DEF CoreState
  <1>2. \A rval : MSTATUSafter(s.MSTATUS, rval) \in SUBSET Nat
    BY <1>1, MSTATUSafterType
  <1>3. MACHINE_MODE \in Privileges
    BY DEF MACHINE_MODE, Privileges
  <1> QED
    BY <1>2, <1>3 DEF PushPrivilegeLevel, CoreState

LEMMA PopType ==
  ASSUME NEW s \in CoreState
  PROVE  PopPrivilegeLevel(s) \in CoreState
  BY MSTATUSafterType, MPPType DEF PopPrivilegeLevel, CoreState

LEMMA ProcessInterruptType ==
  ASSUME NEW s \in CoreState, NEW i \in Nat
  PROVE  ProcessInterrupt(s, i) \in CoreState
  <1> DEFINE t == [s EXCEPT !.MIP = @ \ {i}, !.low_power = FALSE]
  <1>1. t \in CoreState
    BY DEF CoreState
  <1>2. PushPrivilegeLevel(t) \in CoreState
    BY <1>1, PushType
  <1>3. s.PC \in Nat /\ s.MTVEC + 4 * i \in Nat
    BY DEF CoreState
  <1> QED
    BY <1>2, <1>3 DEF ProcessInterrupt, CoreState

LEMMA ProcessTrapType ==
  ASSUME NEW s \in CoreState
  PROVE  ProcessTrap(s) \in CoreState
  BY PushType DEF ProcessTrap, CoreState

LEMMA ProcessMRETType ==
  ASSUME NEW s \in CoreState
  PROVE  ProcessMRET(s) \in CoreState
  <1>1. PopPrivilegeLevel(s) \in CoreState
    BY PopType
  <1>2. s.MEPC \in Nat /\ s.MEPC - (s.MEPC % 4) \in Nat
    BY DEF CoreState
  <1> QED
    BY <1>1, <1>2 DEF ProcessMRET, CoreState

LEMMA UpdateType ==
  ASSUME NEW old \in CoreState, NEW new \in CoreState
  PROVE  Update(old, new) \in CoreState
  BY MSTATUSafterType DEF Update, MISACafter, CoreState

LEMMA ExecuteType ==
  ASSUME NEW s \in CoreState, NEW i \in InstrType, pc \in Nat, i.value \in Nat
  PROVE  Execute(s, i) \in CoreState
  <1> DEFINE next == [s EXCEPT !.PC = (pc + i.size) % AddressSpace]
  <1>1. next \in CoreState
    <2>1. (pc + i.size) % AddressSpace \in Nat
      BY SimulatorAssumption DEF InstrType
    <2> QED
      BY <2>1 DEF CoreState
  <1>2. ProcessTrap(s) \in CoreState /\ ProcessMRET(s) \in CoreState
    BY ProcessTrapType, ProcessMRETType
  <1>3. ProcessWFI(s) \in CoreState
    <2>1. s.PC + 4 \in Nat
      BY DEF CoreState
    <2> QED
      BY <2>1 DEF ProcessWFI, CoreState
  <1>4. SetMSTATUS(next, i.bits) \in CoreState
    <2>1. next.MSTATUS \in SUBSET Nat
      BY <1>1 DEF CoreState
    <2>2. MSTATUSafter(next.MSTATUS, i.bits) \in SUBSET Nat
      BY <2>1, MSTATUSafterType
    <2> HIDE DEF next
    <2> QED
      BY <1>1, <2>2 DEF SetMSTATUS, CoreState
  <1>5. [SetMISA(s, MISA_C \in i.bits) EXCEPT !.PC = next.PC] \in CoreState
    <2>1. next.PC \in Nat
      BY <1>1 DEF CoreState
    <2> HIDE DEF next
    <2> QED
      BY <2>1 DEF SetMISA, MISACafter, CoreState
  <1>6. /\ [s EXCEPT !.PC = i.value] \in CoreState
        /\ [next EXCEPT !.MIE = i.bits] \in CoreState
        /\ [next EXCEPT !.MIP = i.bits] \in CoreState
        /\ [next EXCEPT !.MTVEC = i.value] \in CoreState
        /\ [next EXCEPT !.MEPC = i.value] \in CoreState
    <2> HIDE DEF next
    <2> QED
      BY <1>1 DEF CoreState, InstrType
  <1> HIDE DEF next
  <1> QED
    BY <1>1, <1>2, <1>3, <1>4, <1>5, <1>6 DEF Execute, next

-----------------------------------------------------------------------------
(* Types *)

LEMMA CoresNonEmpty == 0 \in Cores
  BY SimulatorAssumption DEF Cores

LEMMA NoStateType == NoState \in CoreState /\ NoInstr \in InstrType
  <1>1. NoState \in CoreState
    BY DEF NoState, CoreState, Privileges, MACHINE_MODE
  <1>2. NoInstr \in InstrType
    BY DEF NoInstr, InstrType, Ops, TimerRegs
  <1> QED
    BY <1>1, <1>2

LEMMA InitType == Init => TypeOK
  <1> SUFFICES ASSUME Init PROVE TypeOK
    OBVIOUS
  <1>1. ResetStates \subseteq CoreState
    <2> SUFFICES ASSUME NEW s \in ResetStates PROVE s \in CoreState
      OBVIOUS
    <2>1. /\ {ResetAddress} \subseteq Nat /\ UninitAddress \subseteq Nat
          /\ {MACHINE_MODE} \subseteq Privileges
      BY SimulatorAssumption DEF Privileges, MACHINE_MODE
    <2>2. UninitStatus \subseteq SUBSET Nat /\ UninitPending \subseteq SUBSET Nat
      BY SimulatorAssumption
    <2> QED
      BY <2>1, <2>2 DEF ResetStates, CoreState
  <1>2. cores \in [Cores -> CoreState]
    BY <1>1 DEF Init
  <1>3. 0 \in 0 .. AddressSpace - 1
    BY SimulatorAssumption
  <1> QED
    BY <1>2, <1>3, CoresNonEmpty, NoStateType DEF Init, TypeOK

\* StepCore's copy of a core, and the copy once an interrupt has been let in
LEMMA CopyType ==
  ASSUME NEW s \in CoreState, NEW uninit \in UninitStatus, NEW uninitC \in BOOLEAN
  PROVE  /\ Update([NoState EXCEPT !.MSTATUS = uninit, !.C = uninitC], s) \in CoreState
         /\ \A t \in CoreState : ProcessInterrupt(t, InterruptToService(t)) \in CoreState
         /\ \A t : InterruptToService(t) \in {MTI, MEI}
  <1>1. [NoState EXCEPT !.MSTATUS = uninit, !.C = uninitC] \in CoreState
    BY NoStateType, SimulatorAssumption DEF CoreState
  <1>2. \A t : InterruptToService(t) \in {MTI, MEI}
    BY DEF InterruptToService
  <1>3. MTI \in Nat /\ MEI \in Nat
    BY DEF MTI, MEI
  <1> QED
    BY <1>1, <1>2, <1>3, UpdateType, ProcessInterruptType

LEMMA NextType == TypeOK /\ [Next]_vars => TypeOK'
  <1> SUFFICES ASSUME TypeOK, [Next]_vars PROVE TypeOK'
    OBVIOUS
  <1> USE DEF locals, timers
  <1>0. 0 \in 0 .. AddressSpace - 1 /\ AddressSpace \in Nat \ {0}
    BY SimulatorAssumption
  <1>1. CASE LoadTestImage
    BY <1>1 DEF LoadTestImage, TypeOK, GetReadyCpus
  <1>2. CASE EnterRound
    BY <1>2 DEF EnterRound, TypeOK
  <1>3. CASE GoReturns
    BY <1>3 DEF GoReturns, TypeOK
  <1>4. CASE Exit
    BY <1>4 DEF Exit, TypeOK
  <1>5. CASE ServiceRound
    <2>1. \A s \in CoreState, i \in {MTI, MEI} : Signal(s, i) \in CoreState
      BY DEF Signal, CoreState, MTI, MEI
    <2>2. cores' \in [Cores -> CoreState]
      BY <1>5, <2>1, CoresNonEmpty DEF ServiceRound, ServiceDevices, TypeOK
    <2>3. ready' \subseteq Cores
      BY <1>5 DEF ServiceRound, GetReadyCpus
    <2> QED
      BY <1>5, <2>2, <2>3 DEF ServiceRound, TypeOK
  <1>6. ASSUME NEW c \in Cores, NEW uninit \in UninitStatus, NEW uninitC \in BOOLEAN,
               BeginStep(c, uninit, uninitC)
        PROVE  TypeOK'
    <2> DEFINE copy == Update([NoState EXCEPT !.MSTATUS = uninit, !.C = uninitC], cores[c])
               s == IF InterruptPending(copy)
                    THEN ProcessInterrupt(copy, InterruptToService(copy)) ELSE copy
    <2>1. copy \in CoreState /\ s \in CoreState
      BY CopyType DEF TypeOK
    <2>2. s.PC % AddressSpace \in 0 .. AddressSpace - 1
      BY <2>1, <1>0 DEF CoreState
    <2>3. InterruptToService(copy) \in {MTI, MEI}
      BY CopyType DEF TypeOK
    <2> QED
      BY <1>6, <2>1, <2>2, <2>3 DEF BeginStep, StepPC, TypeOK
  <1>7. ASSUME NEW i \in Instrs, Fetch(i) PROVE TypeOK'
    BY <1>7, SimulatorAssumption DEF Fetch, TypeOK
  <1>8. ASSUME NEW newPC \in {su.PC} \cup DebugPCs, DebugResume(newPC) PROVE TypeOK'
    <2>1. newPC \in Nat
      BY SimulatorAssumption DEF TypeOK, CoreState
    <2>2. [su EXCEPT !.PC = newPC] \in CoreState
      BY <2>1 DEF TypeOK, CoreState
    <2> QED
      BY <1>8, <2>2 DEF DebugResume, TypeOK
  <1>9. CASE DebugEnds
    BY <1>9, <1>0, CoresNonEmpty, NoStateType DEF DebugEnds, NoLocals, TypeOK
  <1>10. Written \in CoreState
    <2>1. Execute(su, instr) \in CoreState
      BY ExecuteType, <1>0 DEF TypeOK, InstrType
    <2> QED
      BY <2>1, UpdateType DEF Written, TypeOK
  <1>11. CASE ExecuteAndWriteback
    <2>1. EndTest(Written) \in BOOLEAN
      BY <1>10, SimulatorAssumption DEF EndTest, CoreState
    <2>2. [Written EXCEPT !.end_test = EndTest(Written)] \in CoreState
      BY <1>10, <2>1 DEF CoreState
    <2>3. cores' \in [Cores -> CoreState]
      BY <1>11, <2>2 DEF ExecuteAndWriteback, TypeOK
    <2>4. instr_count' \in Nat
      BY <1>11 DEF ExecuteAndWriteback, Counted, TypeOK
    <2> QED
      BY <1>11, <2>3, <2>4, <1>0, CoresNonEmpty, NoStateType
      DEF ExecuteAndWriteback, NoLocals, TypeOK
  <1>12. CASE Stopped \/ UNCHANGED vars
    BY <1>12 DEF Stopped, vars, TypeOK
  <1> QED
    BY <1>1, <1>2, <1>3, <1>4, <1>5, <1>6, <1>7, <1>8, <1>9, <1>11, <1>12
    DEF Next

(* Every reachable state is well typed: in particular the locals of        *)
(* StepCore always hold a core, a copy and a pc of this simulation.        *)
THEOREM TypeCorrect == Spec => []TypeOK
  BY InitType, NextType, PTL DEF Spec

-----------------------------------------------------------------------------
(* What the functions leave alone *)

LEMMA PushFields ==
  ASSUME NEW s \in CoreState
  PROVE  /\ PushPrivilegeLevel(s).low_power = s.low_power
         /\ PushPrivilegeLevel(s).end_test = s.end_test
         /\ PushPrivilegeLevel(s).MIP = s.MIP
         /\ PushPrivilegeLevel(s).C = s.C
         /\ PushPrivilegeLevel(s).MTVEC = s.MTVEC
  BY DEF PushPrivilegeLevel, CoreState

LEMMA TrapFields ==
  ASSUME NEW s \in CoreState
  PROVE  /\ ProcessTrap(s).low_power = s.low_power
         /\ ProcessTrap(s).end_test = s.end_test
         /\ ProcessTrap(s).MIP = s.MIP
         /\ ProcessTrap(s).C = s.C
         /\ ProcessTrap(s).MTVEC = s.MTVEC
         /\ ProcessTrap(s).PC = s.MTVEC
  BY PushFields, PushType DEF ProcessTrap, CoreState

LEMMA MRETFields ==
  ASSUME NEW s \in CoreState
  PROVE  /\ ProcessMRET(s).low_power = s.low_power
         /\ ProcessMRET(s).end_test = s.end_test
         /\ ProcessMRET(s).MIP = s.MIP
         /\ ProcessMRET(s).C = s.C
         /\ ProcessMRET(s).MTVEC = s.MTVEC
         /\ ProcessMRET(s).PC = IF s.C THEN s.MEPC ELSE s.MEPC - (s.MEPC % 4)
  <1>1. /\ PopPrivilegeLevel(s).low_power = s.low_power
        /\ PopPrivilegeLevel(s).end_test = s.end_test
        /\ PopPrivilegeLevel(s).MIP = s.MIP
        /\ PopPrivilegeLevel(s).C = s.C
        /\ PopPrivilegeLevel(s).MTVEC = s.MTVEC
    BY DEF PopPrivilegeLevel, CoreState
  <1> QED
    BY <1>1, PopType DEF ProcessMRET, CoreState

LEMMA InterruptFields ==
  ASSUME NEW s \in CoreState, NEW i
  PROVE  /\ ProcessInterrupt(s, i).low_power = FALSE
         /\ ProcessInterrupt(s, i).end_test = s.end_test
         /\ ProcessInterrupt(s, i).MIP = s.MIP \ {i}
         /\ ProcessInterrupt(s, i).C = s.C
         /\ ProcessInterrupt(s, i).MTVEC = s.MTVEC
         /\ ProcessInterrupt(s, i).PC = s.MTVEC + 4 * i
  <1> DEFINE t == [s EXCEPT !.MIP = @ \ {i}, !.low_power = FALSE]
  <1>1. t \in CoreState
    BY DEF CoreState
  <1>2. t.low_power = FALSE /\ t.end_test = s.end_test /\ t.MIP = s.MIP \ {i} /\ t.C = s.C
        /\ t.MTVEC = s.MTVEC
    BY DEF CoreState
  <1>3. ProcessInterrupt(s, i)
          = [PushPrivilegeLevel(t) EXCEPT !.MEPC = s.PC, !.PC = s.MTVEC + 4 * i]
    BY DEF ProcessInterrupt
  <1> HIDE DEF t
  <1> QED
    BY <1>1, <1>2, <1>3, PushFields, PushType DEF CoreState

LEMMA ExecuteFields ==
  ASSUME NEW s \in CoreState, NEW i \in InstrType
  PROVE  /\ Execute(s, i).end_test = s.end_test
         /\ i.op # "wfi" => Execute(s, i).low_power = s.low_power
         /\ i.op # "csrw_mip" => Execute(s, i).MIP = s.MIP
  <1> DEFINE next == [s EXCEPT !.PC = (pc + i.size) % AddressSpace]
             Keeps(t) == /\ t.end_test = s.end_test
                         /\ i.op # "wfi" => t.low_power = s.low_power
                         /\ i.op # "csrw_mip" => t.MIP = s.MIP
  <1>1. Keeps(ProcessTrap(s)) /\ Keeps(ProcessMRET(s))
    BY TrapFields, MRETFields
  <1>2. /\ Keeps(next) /\ Keeps([s EXCEPT !.PC = i.value])
        /\ Keeps(SetMSTATUS(next, i.bits))
        /\ Keeps([next EXCEPT !.MIE = i.bits])
        /\ Keeps([next EXCEPT !.MTVEC = i.value])
        /\ Keeps([next EXCEPT !.MEPC = i.value])
    BY DEF CoreState, SetMSTATUS
  <1>3. Keeps([SetMISA(s, MISA_C \in i.bits) EXCEPT !.PC = next.PC])
    BY DEF CoreState, SetMISA
  <1>4. i.op = "wfi" => Keeps(ProcessWFI(s))
    BY DEF CoreState, ProcessWFI
  <1>5. i.op = "csrw_mip" => Keeps([next EXCEPT !.MIP = i.bits])
    BY DEF CoreState
  <1>6. Keeps(Execute(s, i))
    <2> HIDE DEF Keeps
    <2> QED
      BY <1>1, <1>2, <1>3, <1>4, <1>5 DEF Execute
  <1> QED
    BY <1>6

LEMMA UpdateFields ==
  ASSUME NEW old \in CoreState, NEW new \in CoreState
  PROVE  /\ Update(old, new).end_test = new.end_test
         /\ Update(old, new).low_power = new.low_power
         /\ Update(old, new).MIP = new.MIP
         /\ Update(old, new).MIE = new.MIE
         /\ Update(old, new).PC = new.PC
         /\ Update(old, new).MTVEC = new.MTVEC
         /\ Update(old, new).C = MISACafter(old.C, new.C, new.PC)
         /\ MIEbit \in Update(old, new).MSTATUS <=> MIEbit \in new.MSTATUS
  <1>1. \A m, o : MIEbit \in MSTATUSafter(o, m) <=> MIEbit \in m
    BY DEF MSTATUSafter, MIEbit, MPPlo, MPPhi, StatusBits
  <1> QED
    BY <1>1 DEF Update, CoreState

-----------------------------------------------------------------------------
(* Scheduling: the ready list is never stale.  ReadyListFresh needs to know *)
(* of the copy that it has not ended its test, and that it differs from its *)
(* core in mip only by the interrupt taken.                                 *)

CopyConsistent ==
    InStep => ~su.end_test /\ cores[core].MIP \ su.MIP \subseteq {serviced}

SchedInv == TypeOK /\ ReadyListFresh /\ EndedCoresAreAwake /\ CopyConsistent

LEMMA InitSched == Init => SchedInv
  <1> SUFFICES ASSUME Init PROVE SchedInv
    OBVIOUS
  <1>1. TypeOK
    BY InitType
  <1>2. \A c \in Cores : cores[c].end_test = FALSE
    BY DEF Init, ResetStates
  <1> QED
    BY <1>1, <1>2 DEF Init, SchedInv, ReadyListFresh, EndedCoresAreAwake, CopyConsistent, InStep

\* BeginStep never finds the copy of a ready core asleep
LEMMA BeginStepWakes ==
  ASSUME NEW old \in CoreState, NEW s \in CoreState, Ready(s)
  PROVE  LET copy == Update(old, s)
             t == IF InterruptPending(copy) THEN ProcessInterrupt(copy, InterruptToService(copy))
                                            ELSE copy
         IN  /\ ~t.low_power /\ ~t.end_test
             /\ s.MIP \ t.MIP \subseteq
                   {IF InterruptPending(copy) THEN InterruptToService(copy) ELSE 0}
  <1> DEFINE copy == Update(old, s)
             t == IF InterruptPending(copy) THEN ProcessInterrupt(copy, InterruptToService(copy))
                                            ELSE copy
  <1>1. copy \in CoreState
    BY UpdateType
  <1>2. /\ copy.end_test = s.end_test /\ copy.low_power = s.low_power
        /\ copy.MIP = s.MIP /\ copy.MIE = s.MIE
        /\ MIEbit \in copy.MSTATUS <=> MIEbit \in s.MSTATUS
    BY UpdateFields
  <1> HIDE DEF copy
  <1>3. InterruptPending(copy) <=> InterruptPending(s)
    BY <1>2 DEF InterruptPending, GlobalInterruptsEnabled, Deliverable
  <1>4. /\ ~t.low_power /\ ~t.end_test
        /\ s.MIP \ t.MIP
             \subseteq {IF InterruptPending(copy) THEN InterruptToService(copy) ELSE 0}
    <2>1. CASE InterruptPending(copy)
      BY <1>1, <1>2, <2>1, InterruptFields DEF Ready
    <2>2. CASE ~InterruptPending(copy)
      BY <1>1, <1>2, <1>3, <2>2 DEF Ready
    <2> QED
      BY <2>1, <2>2
  <1> QED
    BY <1>4 DEF copy

LEMMA NextSched == SchedInv /\ [Next]_vars => SchedInv'
  <1> SUFFICES ASSUME SchedInv, [Next]_vars PROVE SchedInv'
    OBVIOUS
  <1> USE DEF locals, timers
  <1>0. TypeOK /\ TypeOK'
    BY NextType DEF SchedInv
  <1>1. CASE LoadTestImage
    BY <1>0, <1>1 DEF LoadTestImage, SchedInv, ReadyListFresh, EndedCoresAreAwake, CopyConsistent,
                      InStep, GetReadyCpus
  <1>2. CASE EnterRound \/ GoReturns \/ Exit
    BY <1>0, <1>2 DEF EnterRound, GoReturns, Exit, SchedInv, ReadyListFresh, EndedCoresAreAwake,
                      CopyConsistent, InStep
  <1>3. CASE ServiceRound
    <2>1. \A c \in Cores : /\ cores'[c].end_test = cores[c].end_test
                           /\ cores'[c].low_power = cores[c].low_power
      BY <1>0, <1>3 DEF ServiceRound, ServiceDevices, Signal, TypeOK, CoreState
    <2>2. EndedCoresAreAwake'
      BY <2>1 DEF SchedInv, EndedCoresAreAwake
    <2> QED
      BY <1>0, <1>3, <2>2 DEF ServiceRound, SchedInv, ReadyListFresh, CopyConsistent, InStep,
                              GetReadyCpus
  <1>4. ASSUME NEW c \in Cores, NEW uninit \in UninitStatus, NEW uninitC \in BOOLEAN,
               BeginStep(c, uninit, uninitC)
        PROVE  SchedInv'
    <2> DEFINE old  == [NoState EXCEPT !.MSTATUS = uninit, !.C = uninitC]
               copy == Update(old, cores[c])
               s == IF InterruptPending(copy)
                    THEN ProcessInterrupt(copy, InterruptToService(copy)) ELSE copy
    <2>1. old \in CoreState
      BY NoStateType, SimulatorAssumption DEF CoreState
    <2>2. cores[c] \in CoreState /\ Ready(cores[c])
      BY <1>0, <1>4 DEF BeginStep, SchedInv, ReadyListFresh, TypeOK
    <2>3. /\ ~s.low_power /\ ~s.end_test
          /\ cores[c].MIP \ s.MIP
               \subseteq {IF InterruptPending(copy) THEN InterruptToService(copy) ELSE 0}
      BY <2>1, <2>2, BeginStepWakes
    <2>4. /\ at' = "fetch" /\ core' = c /\ su' = s /\ cores' = cores /\ ready' = ready \ {c}
          /\ serviced' = IF InterruptPending(copy) THEN InterruptToService(copy) ELSE 0
      BY <1>4, <2>3 DEF BeginStep
    <2>5. at = "step"
      BY <1>4 DEF BeginStep
    <2> HIDE DEF s, copy
    <2> QED
      BY <1>0, <2>2, <2>3, <2>4, <2>5
      DEF SchedInv, ReadyListFresh, EndedCoresAreAwake, CopyConsistent, InStep
  <1>5. CASE DebugEnds
    BY <1>0, <1>5 DEF DebugEnds, SchedInv, ReadyListFresh, EndedCoresAreAwake, CopyConsistent, InStep
  <1>6. ASSUME NEW i \in Instrs, Fetch(i) PROVE SchedInv'
    BY <1>0, <1>6 DEF Fetch, SchedInv, ReadyListFresh, EndedCoresAreAwake, CopyConsistent, InStep
  <1>7. ASSUME NEW newPC \in {su.PC} \cup DebugPCs, DebugResume(newPC) PROVE SchedInv'
    <2>1. /\ su'.low_power = su.low_power /\ su'.end_test = su.end_test /\ su'.MIP = su.MIP
      BY <1>0, <1>7 DEF DebugResume, TypeOK, CoreState
    <2> QED
      BY <1>0, <1>7, <2>1 DEF DebugResume, SchedInv, ReadyListFresh, EndedCoresAreAwake,
                              CopyConsistent, InStep
  <1>8. ASSUME at = "execute"
        PROVE  /\ Written \in CoreState
               /\ ~Written.end_test
               /\ instr.op # "wfi" => ~Written.low_power
    <2>1. su \in CoreState /\ instr \in InstrType /\ pc \in Nat /\ instr.value \in Nat
      BY <1>0, SimulatorAssumption DEF TypeOK, InstrType
    <2>2. ~su.end_test /\ ~su.low_power /\ cores[core] \in CoreState
      BY <1>0, <1>8 DEF SchedInv, ReadyListFresh, CopyConsistent, InStep, TypeOK
    <2> DEFINE e == Execute(su, instr)
    <2>3. e \in CoreState
      BY <2>1, ExecuteType
    <2>4. ~e.end_test /\ (instr.op # "wfi" => ~e.low_power)
      BY <2>1, <2>2, ExecuteFields
    <2>5. Written = Update(cores[core], e)
      BY DEF Written
    <2> HIDE DEF e
    <2>6. Written \in CoreState
      BY <2>2, <2>3, <2>5, UpdateType
    <2>7. Written.end_test = e.end_test /\ Written.low_power = e.low_power
      BY <2>2, <2>3, <2>5, UpdateFields
    <2> QED
      BY <2>4, <2>6, <2>7
  <1>9. CASE ExecuteAndWriteback
    <2> DEFINE new == [Written EXCEPT !.end_test = EndTest(Written)]
    <2>0. at = "execute" /\ cores' = [cores EXCEPT ![core] = new] /\ ready' = ready
          /\ at' = "step" /\ core \in Cores
      BY <1>0, <1>9 DEF ExecuteAndWriteback, TypeOK
    <2>1. new.end_test = EndTest(Written) /\ new.low_power = Written.low_power
      BY <1>8, <2>0 DEF CoreState
    <2>2. new.end_test => ~new.low_power
      BY <1>8, <2>0, <2>1 DEF EndTest
    <2>3. core \notin ready /\ \A c \in ready : Ready(cores[c])
      BY <2>0 DEF SchedInv, ReadyListFresh, InStep
    <2> HIDE DEF new
    <2>4. EndedCoresAreAwake'
      BY <1>0, <2>0, <2>2 DEF SchedInv, EndedCoresAreAwake, TypeOK
    <2>5. \A c \in ready' : Ready(cores'[c])
      BY <1>0, <2>0, <2>3 DEF TypeOK
    <2> QED
      BY <1>0, <2>0, <2>4, <2>5 DEF SchedInv, ReadyListFresh, CopyConsistent, InStep
  <1>10. CASE Stopped \/ UNCHANGED vars
    BY <1>0, <1>10 DEF Stopped, vars, SchedInv, ReadyListFresh, EndedCoresAreAwake, CopyConsistent,
                       InStep
  <1> QED
    BY <1>1, <1>2, <1>3, <1>4, <1>5, <1>6, <1>7, <1>9, <1>10 DEF Next

(* StepCore only ever runs on a core that can run, although the list of    *)
(* ready cores is computed once a round: for any number of cores and any   *)
(* program.                                                                *)
THEOREM SchedulingSafe == Spec => []ReadyListFresh
  <1>1. SchedInv => ReadyListFresh
    BY DEF SchedInv
  <1> QED
    BY <1>1, InitSched, NextSched, PTL DEF Spec

(* A core that has ended its test is never asleep, so SleepingCores is not *)
(* kept true by it and Go can leave its loop.                              *)
THEOREM EndedCoresStayAwake == Spec => []EndedCoresAreAwake
  <1>1. SchedInv => EndedCoresAreAwake
    BY DEF SchedInv
  <1> QED
    BY <1>1, InitSched, NextSched, PTL DEF Spec

-----------------------------------------------------------------------------
(* The instruction limit: what the cores still to be stepped in this round *)
(* may add.                                                                *)

RoundBudget ==
    MaxInstrs >= 0 =>
      /\ at = "step" => instr_count + Cardinality(ready) <= MaxInstrs + NumCores
      /\ InStep => instr_count + Cardinality(ready) < MaxInstrs + NumCores

LimitInv == TypeOK /\ InstrLimit /\ RoundBudget

LEMMA ReadyIsFinite ==
  ASSUME NEW S \in SUBSET Cores
  PROVE  /\ IsFiniteSet(S) /\ Cardinality(S) \in Nat /\ Cardinality(S) <= NumCores
         /\ \A c \in S : Cardinality(S \ {c}) = Cardinality(S) - 1
  <1>1. IsFiniteSet(Cores) /\ Cardinality(Cores) = NumCores
    BY FS_Interval, SimulatorAssumption DEF Cores
  <1> QED
    BY <1>1, FS_Subset, FS_CardinalityType, FS_RemoveElement

LEMMA InitLimit == Init => LimitInv
  BY InitType, SimulatorAssumption DEF Init, LimitInv, InstrLimit, RoundBudget, InStep

LEMMA NextLimit == LimitInv /\ [Next]_vars => LimitInv'
  <1> SUFFICES ASSUME LimitInv, [Next]_vars PROVE LimitInv'
    OBVIOUS
  <1> USE SimulatorAssumption DEF locals, timers, LimitInv, InstrLimit, RoundBudget, InStep
  <1>0. TypeOK /\ TypeOK'
    BY NextType
  <1>1. instr_count \in Nat /\ Cardinality(ready) \in Nat /\ Cardinality(ready) <= NumCores
    BY <1>0, ReadyIsFinite DEF TypeOK
  <1>2. CASE LoadTestImage \/ GoReturns \/ Exit \/ ServiceRound
    BY <1>0, <1>2 DEF LoadTestImage, GoReturns, Exit, ServiceRound
  <1>3. CASE EnterRound
    BY <1>0, <1>1, <1>3 DEF EnterRound, KeepGoing, InstructionCountExceeded
  <1>4. ASSUME NEW c \in Cores, NEW uninit \in UninitStatus, NEW uninitC \in BOOLEAN,
               BeginStep(c, uninit, uninitC)
        PROVE  LimitInv'
    <2>1. /\ at = "step" /\ at' \in {"step", "fetch"} /\ c \in ready /\ ready' = ready \ {c}
          /\ instr_count' = instr_count
      BY <1>4 DEF BeginStep
    <2>2. Cardinality(ready') = Cardinality(ready) - 1
      BY <1>0, <2>1, ReadyIsFinite DEF TypeOK
    <2> QED
      BY <1>0, <1>1, <2>1, <2>2
  <1>5. CASE DebugEnds
    BY <1>0, <1>1, <1>5 DEF DebugEnds
  <1>6. ASSUME NEW i \in Instrs, Fetch(i) PROVE LimitInv'
    BY <1>0, <1>6 DEF Fetch
  <1>7. ASSUME NEW newPC \in {su.PC} \cup DebugPCs, DebugResume(newPC) PROVE LimitInv'
    BY <1>0, <1>7 DEF DebugResume
  <1>8. CASE ExecuteAndWriteback
    <2>1. at = "execute" /\ at' = "step" /\ ready' = ready
          /\ (MaxInstrs >= 0 => instr_count' = instr_count + 1)
      BY <1>8 DEF ExecuteAndWriteback, Counted
    <2> QED
      BY <1>0, <1>1, <2>1
  <1>9. CASE Stopped \/ UNCHANGED vars
    BY <1>0, <1>9 DEF Stopped, vars
  <1> QED
    BY <1>2, <1>3, <1>4, <1>5, <1>6, <1>7, <1>8, <1>9 DEF Next

(* The instruction limit, which counts the instructions of all cores, is   *)
(* overshot by at most one instruction per core, for any limit and any     *)
(* number of cores.                                                        *)
THEOREM LimitHolds == Spec => []InstrLimit
  <1>1. LimitInv => InstrLimit
    BY DEF LimitInv
  <1> QED
    BY <1>1, InitLimit, NextLimit, PTL DEF Spec

-----------------------------------------------------------------------------
(* Interrupts and sleep *)

\* which steps change a core, and how
LEMMA CoreChanges ==
  ASSUME SchedInv, [Next]_vars, NEW c \in Cores, cores'[c] # cores[c]
  PROVE  \/ c = 0 /\ cores[c].MIP \subseteq cores'[c].MIP
         \/ /\ at = "execute" /\ core = c
            /\ cores'[c].MIP = Execute(su, instr).MIP
  <1> USE DEF locals, timers
  <1>0. TypeOK
    BY DEF SchedInv
  <1>1. CASE ServiceRound
    BY <1>0, <1>1 DEF ServiceRound, ServiceDevices, Signal, TypeOK, CoreState, Cores
  <1>2. ASSUME at = "execute"
        PROVE  Written \in CoreState /\ Written.MIP = Execute(su, instr).MIP
    <2> DEFINE e == Execute(su, instr)
    <2>1. e \in CoreState /\ cores[core] \in CoreState
      BY <1>0, ExecuteType, SimulatorAssumption DEF TypeOK, InstrType
    <2>2. Written = Update(cores[core], e)
      BY DEF Written
    <2> HIDE DEF e
    <2> QED
      BY <2>1, <2>2, UpdateType, UpdateFields DEF e
  <1>3. CASE ExecuteAndWriteback
    <2> DEFINE new == [Written EXCEPT !.end_test = EndTest(Written)]
    <2>1. at = "execute" /\ cores' = [cores EXCEPT ![core] = new]
      BY <1>3 DEF ExecuteAndWriteback
    <2>2. new.MIP = Written.MIP
      BY <1>2, <2>1 DEF CoreState
    <2> HIDE DEF new
    <2> QED
      BY <1>0, <1>2, <2>1, <2>2 DEF TypeOK
  <1>4. CASE LoadTestImage \/ EnterRound \/ GoReturns \/ Exit \/ Stopped
    BY <1>4 DEF LoadTestImage, EnterRound, GoReturns, Exit, Stopped, vars
  <1>5. CASE \E d \in Cores, uninit \in UninitStatus, uninitC \in BOOLEAN : BeginStep(d, uninit, uninitC)
    BY <1>5 DEF BeginStep
  <1>7. CASE (\E i \in Instrs : Fetch(i)) \/ DebugEnds
    BY <1>7 DEF Fetch, DebugEnds
  <1>8. CASE \E newPC \in {su.PC} \cup DebugPCs : DebugResume(newPC)
    BY <1>8 DEF DebugResume
  <1>6. CASE UNCHANGED vars
    BY <1>6 DEF vars
  <1> QED
    BY <1>1, <1>3, <1>4, <1>5, <1>6, <1>7, <1>8 DEF Next

(* A pending interrupt is cleared only by the step that enters its handler *)
(* or by the program's own write to mip.                                   *)
THEOREM InterruptsAreNotLost == Spec => NoLostInterrupt
  <1>1. ASSUME SchedInv, [Next]_vars, NEW c \in Cores, NEW i \in cores[c].MIP \ cores'[c].MIP
        PROVE  /\ at = "execute" /\ core = c
               /\ serviced = i \/ instr.op = "csrw_mip"
    <2>1. at = "execute" /\ core = c /\ cores'[c].MIP = Execute(su, instr).MIP
      BY <1>1, CoreChanges
    <2>2. instr.op # "csrw_mip" => Execute(su, instr).MIP = su.MIP
      BY <1>1, ExecuteFields DEF SchedInv, TypeOK
    <2> QED
      BY <1>1, <2>1, <2>2 DEF SchedInv, CopyConsistent, InStep
  <1>2. SchedInv /\ [Next]_vars
          => [\A c \in Cores : \A i \in cores[c].MIP \ cores'[c].MIP :
                /\ at = "execute" /\ core = c
                /\ serviced = i \/ instr.op = "csrw_mip"]_vars
    BY <1>1
  <1> QED
    BY <1>2, InitSched, NextSched, PTL DEF Spec, NoLostInterrupt

(* A sleeping core other than core 0 with nothing pending is never touched *)
(* again: only core 0 is wired to the devices.                             *)
THEOREM OthersAreNotWoken == Spec => OthersSleepForEver
  <1>1. ASSUME SchedInv, [Next]_vars, NEW c \in Cores \ {0},
               cores[c].low_power, ~InterruptPending(cores[c])
        PROVE  cores'[c] = cores[c]
    BY <1>1, CoreChanges DEF SchedInv, ReadyListFresh, InStep, Ready
  <1>2. SchedInv /\ [Next]_vars
          => [\A c \in Cores \ {0} :
                cores[c].low_power /\ ~InterruptPending(cores[c]) => cores'[c] = cores[c]]_vars
    BY <1>1
  <1> QED
    BY <1>2, InitSched, NextSched, PTL DEF Spec, OthersSleepForEver

-----------------------------------------------------------------------------
(* Traps *)

LEMMA PopAfterPush ==
  ASSUME NEW s \in CoreState,
         s.privilege = MACHINE_MODE \/ (s.privilege = USER_MODE /\ MPP(s.MSTATUS) = 0)
  PROVE  LET r == PopPrivilegeLevel(PushPrivilegeLevel(s))
         IN  /\ r.privilege = s.privilege
             /\ GlobalInterruptsEnabled(r) = GlobalInterruptsEnabled(s)
  <1> DEFINE p == PushPrivilegeLevel(s)
             r == PopPrivilegeLevel(p)
  <1> USE DEF MIEbit, MPIE, MPPlo, MPPhi, MACHINE_MODE, USER_MODE
  <1>1. p \in CoreState
    BY PushType
  <1>2. /\ 11 \in p.MSTATUS <=> s.privilege = 3
        /\ 12 \in p.MSTATUS <=> s.privilege = 3
        /\ 7 \in p.MSTATUS <=> 3 \in s.MSTATUS
    BY DEF PushPrivilegeLevel, MSTATUSafter, MPP, MPPbits, StatusBits, CoreState
  <1> HIDE DEF p
  <1>3. r.privilege = MPP(p.MSTATUS)
    BY <1>1 DEF PopPrivilegeLevel, CoreState
  <1>4. 3 \in r.MSTATUS <=> 7 \in p.MSTATUS
    BY <1>1 DEF PopPrivilegeLevel, MSTATUSafter, MPP, StatusBits, CoreState
  <1> HIDE DEF r
  <1>5. /\ r.privilege = s.privilege
        /\ GlobalInterruptsEnabled(r) = GlobalInterruptsEnabled(s)
    BY <1>2, <1>3, <1>4 DEF GlobalInterruptsEnabled, MPP
  <1> QED
    BY <1>5 DEF r, p

(* A trap taken in machine mode, or in user mode with a cleared mpp, is    *)
(* undone by the return from it, in every state any program can reach.     *)
THEOREM TrapsReturn == Spec => []TrapReturnRestores
  <1>1. TypeOK => TrapReturnRestores
    BY PopAfterPush DEF TypeOK, TrapReturnRestores
  <1> QED
    BY <1>1, TypeCorrect, PTL

-----------------------------------------------------------------------------
(* Alignment.  The code never aligns mtvec, nor a PC written by the        *)
(* debugger: the theorem supposes that they are given aligned values.      *)

AlignedInputs ==
    /\ \A i \in Instrs : i.op = "csrw_mtvec" => i.value % 4 = 0
    /\ \A a \in UninitAddress \cup DebugPCs : a % 4 = 0

AlignedState(s) == s.MTVEC % 4 = 0 /\ (~s.C => s.PC % 4 = 0)

AlignInv ==
    /\ TypeOK
    /\ \A c \in Cores : AlignedState(cores[c])
    /\ InStep => su.MTVEC % 4 = 0
    /\ InStep /\ ~cores[core].C => ~su.C /\ su.PC % 4 = 0 /\ pc % 4 = 0
    /\ at \in {"debug", "execute"} => instr \in Instrs /\ (instr.size = 2 => su.C)

LEMMA ModKeepsAlignment ==
  ASSUME NEW a \in Nat, a % 4 = 0
  PROVE  (a % AddressSpace) % 4 = 0
  <1> DEFINE k == AddressSpace \div 4
             j == a \div 4
             q == a \div AddressSpace
             r == a % AddressSpace
  <1>1. AddressSpace = 4 * k /\ a = 4 * j /\ k \in Int /\ j \in Int /\ q \in Int /\ r \in Int
    BY SimulatorAssumption
  <1>2. a = AddressSpace * q + r
    BY SimulatorAssumption
  <1> HIDE DEF k, j, q, r
  <1>3. PICK m \in Int : m = k * q
    BY <1>1
  <1>4. AddressSpace * q = 4 * m
    BY <1>1, <1>3
  <1>5. PICK n \in Int : n = j - m
    BY <1>1, <1>3
  <1>6. r = 4 * n
    <2>1. \A x, y, z \in Int : 4 * x = 4 * y + z => z = 4 * (x - y)
      OBVIOUS
    <2> QED
      BY <1>1, <1>2, <1>3, <1>4, <1>5, <2>1
  <1>7. (4 * n) % 4 = 0
    BY <1>5
  <1> QED
    BY <1>6, <1>7 DEF r

\* an instruction that starts without misa.C at an aligned PC ends at one
LEMMA ExecuteAligned ==
  ASSUME AlignedInputs, NEW s \in CoreState, NEW i \in Instrs, i \in InstrType,
         pc \in Nat, s.MTVEC % 4 = 0
  PROVE  /\ Execute(s, i).MTVEC % 4 = 0
         /\ ~s.C /\ s.PC % 4 = 0 /\ pc % 4 = 0 /\ i.size = 4 => Execute(s, i).PC % 4 = 0
  <1> DEFINE npc == (pc + i.size) % AddressSpace
             next == [s EXCEPT !.PC = npc]
             Start == ~s.C /\ s.PC % 4 = 0 /\ pc % 4 = 0 /\ i.size = 4
             Good(t) == t.MTVEC % 4 = 0 /\ (Start => t.PC % 4 = 0)
  <1>1. npc \in Nat /\ (Start => npc % 4 = 0)
    <2>1. pc + i.size \in Nat /\ (Start => (pc + i.size) % 4 = 0)
      BY DEF InstrType
    <2> QED
      BY <2>1, ModKeepsAlignment, SimulatorAssumption
  <1> HIDE DEF npc
  <1>2. Good(ProcessTrap(s)) /\ Good(ProcessWFI(s))
    BY TrapFields DEF ProcessWFI, CoreState
  <1>3. Good(ProcessMRET(s))
    <2>1. s.MEPC \in Nat
      BY DEF CoreState
    <2>2. (s.MEPC - (s.MEPC % 4)) % 4 = 0
      BY <2>1
    <2> QED
      BY <2>2, MRETFields
  <1>4. Aligned(s, i.value) => Good([s EXCEPT !.PC = i.value])
    BY DEF Aligned, CoreState
  <1>5. /\ Good(next) /\ Good(SetMSTATUS(next, i.bits))
        /\ Good([next EXCEPT !.MIE = i.bits]) /\ Good([next EXCEPT !.MIP = i.bits])
        /\ Good([next EXCEPT !.MEPC = i.value])
        /\ i.op = "csrw_mtvec" => Good([next EXCEPT !.MTVEC = i.value])
    BY <1>1 DEF CoreState, SetMSTATUS, AlignedInputs
  <1>6. Good([SetMISA(s, MISA_C \in i.bits) EXCEPT !.PC = next.PC])
    BY <1>1 DEF CoreState, SetMISA
  <1>7. Good(Execute(s, i))
    <2> HIDE DEF Good
    <2> QED
      BY <1>2, <1>3, <1>4, <1>5, <1>6 DEF Execute, npc
  <1> QED
    BY <1>7

LEMMA InitAlign == AlignedInputs /\ Init => AlignInv
  <1> SUFFICES ASSUME AlignedInputs, Init PROVE AlignInv
    OBVIOUS
  <1>1. \A c \in Cores : cores[c].C = TRUE /\ cores[c].MTVEC \in UninitAddress
    BY DEF Init, ResetStates
  <1> QED
    BY <1>1, InitType DEF Init, AlignInv, AlignedInputs, AlignedState, InStep

LEMMA NextAlign == AlignedInputs /\ AlignInv /\ [Next]_vars => AlignInv'
  <1> SUFFICES ASSUME AlignedInputs, AlignInv, [Next]_vars PROVE AlignInv'
    OBVIOUS
  <1> USE DEF locals, timers
  <1>0. TypeOK /\ TypeOK'
    BY NextType DEF AlignInv
  <1>1. CASE LoadTestImage \/ EnterRound \/ GoReturns \/ Exit
    BY <1>0, <1>1 DEF LoadTestImage, EnterRound, GoReturns, Exit, AlignInv, InStep
  <1>2. CASE ServiceRound
    <2>1. \A c \in Cores : /\ cores'[c].MTVEC = cores[c].MTVEC
                           /\ cores'[c].C = cores[c].C /\ cores'[c].PC = cores[c].PC
      BY <1>0, <1>2 DEF ServiceRound, ServiceDevices, Signal, TypeOK, CoreState
    <2> QED
      BY <1>0, <1>2, <2>1 DEF ServiceRound, AlignInv, AlignedState, InStep
  <1>3. ASSUME NEW c \in Cores, NEW uninit \in UninitStatus, NEW uninitC \in BOOLEAN,
               BeginStep(c, uninit, uninitC)
        PROVE  AlignInv'
    <2> DEFINE old  == [NoState EXCEPT !.MSTATUS = uninit, !.C = uninitC]
               copy == Update(old, cores[c])
               i == InterruptToService(copy)
               s == IF InterruptPending(copy) THEN ProcessInterrupt(copy, i) ELSE copy
    <2>1. old \in CoreState /\ cores[c] \in CoreState
      BY <1>0, NoStateType, SimulatorAssumption DEF CoreState, TypeOK
    <2>2. /\ copy \in CoreState /\ copy.MTVEC % 4 = 0
          /\ ~cores[c].C => ~copy.C /\ copy.PC % 4 = 0
      <3>1. /\ copy \in CoreState /\ copy.MTVEC = cores[c].MTVEC /\ copy.PC = cores[c].PC
            /\ copy.C = MISACafter(old.C, cores[c].C, cores[c].PC)
        BY <2>1, UpdateType, UpdateFields
      <3>2. cores[c].C \in BOOLEAN /\ old.C \in BOOLEAN
        BY <2>1 DEF CoreState
      <3> HIDE DEF copy, old
      <3> QED
        BY <3>1, <3>2 DEF AlignInv, AlignedState, MISACafter
    <2> HIDE DEF copy
    <2>3. i \in {MTI, MEI}
      BY DEF InterruptToService
    <2> HIDE DEF i
    <2>4. s.MTVEC % 4 = 0 /\ (~cores[c].C => ~s.C /\ s.PC % 4 = 0) /\ s.PC \in Nat
      <3>1. CASE InterruptPending(copy)
        <4>1. s.MTVEC = copy.MTVEC /\ s.C = copy.C /\ s.PC = copy.MTVEC + 4 * i
          BY <2>2, <3>1, InterruptFields
        <4>2. copy.MTVEC \in Nat
          BY <2>2 DEF CoreState
        <4> QED
          BY <2>2, <2>3, <4>1, <4>2 DEF MTI, MEI
      <3>2. CASE ~InterruptPending(copy)
        BY <2>2, <3>2 DEF CoreState
      <3> QED
        BY <3>1, <3>2
    <2>5. ~cores[c].C => (s.PC % AddressSpace) % 4 = 0
      BY <2>4, ModKeepsAlignment
    <2>6. /\ at = "step" /\ cores' = cores
          /\ \/ at' = "step"
             \/ at' = "fetch" /\ core' = c /\ su' = s /\ pc' = s.PC % AddressSpace
      BY <1>3 DEF BeginStep, StepPC, copy, i
    <2> HIDE DEF s
    <2> QED
      BY <1>0, <2>4, <2>5, <2>6 DEF AlignInv, InStep
  <1>4. CASE DebugEnds
    BY <1>0, <1>4 DEF DebugEnds, AlignInv, InStep
  <1>5. ASSUME NEW i \in Instrs, Fetch(i) PROVE AlignInv'
    BY <1>0, <1>5 DEF Fetch, AlignInv, InStep
  <1>6. ASSUME NEW newPC \in {su.PC} \cup DebugPCs, DebugResume(newPC) PROVE AlignInv'
    <2>1. su'.PC = newPC /\ su'.MTVEC = su.MTVEC /\ su'.C = su.C
      BY <1>0, <1>6 DEF DebugResume, TypeOK, CoreState
    <2> QED
      BY <1>0, <1>6, <2>1 DEF DebugResume, AlignInv, AlignedInputs, InStep
  <1>7. ASSUME at = "execute"
        PROVE  Written \in CoreState /\ AlignedState(Written)
    <2> DEFINE e == Execute(su, instr)
    <2>1. /\ su \in CoreState /\ pc \in Nat /\ instr \in Instrs /\ instr \in InstrType
          /\ cores[core] \in CoreState /\ su.MTVEC % 4 = 0
      BY <1>0, <1>7, SimulatorAssumption DEF AlignInv, TypeOK, InStep
    <2>2. e \in CoreState
      BY <2>1, ExecuteType DEF InstrType
    <2>3. e.MTVEC % 4 = 0
      BY <2>1, ExecuteAligned
    <2>4. ~cores[core].C => e.PC % 4 = 0
      BY <1>7, <2>1, ExecuteAligned DEF AlignInv, InStep, InstrType
    <2>5. Written = Update(cores[core], e)
      BY DEF Written
    <2> HIDE DEF e
    <2>6. /\ Written \in CoreState /\ Written.MTVEC = e.MTVEC /\ Written.PC = e.PC
          /\ Written.C = MISACafter(cores[core].C, e.C, e.PC)
      BY <2>1, <2>2, <2>5, UpdateType, UpdateFields
    <2>7. e.C \in BOOLEAN /\ cores[core].C \in BOOLEAN
      BY <2>1, <2>2 DEF CoreState
    <2> QED
      BY <2>3, <2>4, <2>6, <2>7 DEF AlignedState, MISACafter
  <1>8. CASE ExecuteAndWriteback
    <2> DEFINE new == [Written EXCEPT !.end_test = EndTest(Written)]
    <2>1. at = "execute" /\ cores' = [cores EXCEPT ![core] = new] /\ at' = "step"
      BY <1>8 DEF ExecuteAndWriteback
    <2>2. AlignedState(new)
      BY <1>7, <2>1 DEF CoreState, AlignedState
    <2> HIDE DEF new
    <2> QED
      BY <1>0, <2>1, <2>2 DEF AlignInv, InStep, TypeOK
  <1>9. CASE Stopped \/ UNCHANGED vars
    BY <1>0, <1>9 DEF Stopped, vars, AlignInv, InStep
  <1> QED
    BY <1>1, <1>2, <1>3, <1>4, <1>5, <1>6, <1>8, <1>9 DEF Next

(* A core that may not run compressed instructions stays at a word         *)
(* boundary, provided that mtvec and the PCs the debugger writes are       *)
(* aligned.                                                                *)
THEOREM Alignment == ASSUME AlignedInputs PROVE Spec => []WordAlignedWithoutC
  <1>1. AlignInv => WordAlignedWithoutC
    BY DEF AlignInv, AlignedState, WordAlignedWithoutC
  <1>2. Init => AlignInv
    BY InitAlign
  <1>3. AlignInv /\ [Next]_vars => AlignInv'
    BY NextAlign
  <1> QED
    BY <1>1, <1>2, <1>3, PTL DEF Spec

-----------------------------------------------------------------------------
(* The timer in the simulator *)

\* what is executed was fetched
FetchedInv == at \in {"debug", "execute"} => instr \in Instrs

LEMMA NextFetched == FetchedInv /\ [Next]_vars => FetchedInv'
  <1> SUFFICES ASSUME FetchedInv, [Next]_vars PROVE FetchedInv'
    OBVIOUS
  <1> USE DEF FetchedInv, locals
  <1>1. CASE LoadTestImage \/ EnterRound \/ GoReturns \/ Exit \/ ServiceRound
    BY <1>1 DEF LoadTestImage, EnterRound, GoReturns, Exit, ServiceRound
  <1>2. ASSUME NEW c \in Cores, NEW uninit \in UninitStatus, NEW uninitC \in BOOLEAN,
               BeginStep(c, uninit, uninitC)
        PROVE  FetchedInv'
    <2>1. at' \in {"step", "fetch"}
      BY <1>2 DEF BeginStep
    <2> QED
      BY <2>1
  <1>3. ASSUME NEW i \in Instrs, Fetch(i) PROVE FetchedInv'
    BY <1>3 DEF Fetch
  <1>4. ASSUME NEW newPC \in {su.PC} \cup DebugPCs, DebugResume(newPC) PROVE FetchedInv'
    BY <1>4 DEF DebugResume
  <1>5. CASE DebugEnds \/ ExecuteAndWriteback
    BY <1>5 DEF DebugEnds, ExecuteAndWriteback
  <1>6. CASE Stopped \/ UNCHANGED vars
    BY <1>6 DEF Stopped, vars
  <1> QED
    BY <1>1, <1>2, <1>3, <1>4, <1>5, <1>6 DEF Next

LEMMA NextDrives == FetchedInv /\ [Next]_vars => [Timer!Next]_(Timer!timer_vars)
  <1> SUFFICES ASSUME FetchedInv, [Next]_vars PROVE [Timer!Next]_(Timer!timer_vars)
    OBVIOUS
  <1> USE DEF timers, Timer!timer_vars
  <1>1. CASE LoadTestImage \/ EnterRound \/ GoReturns \/ Exit
    BY <1>1 DEF LoadTestImage, EnterRound, GoReturns, Exit
  <1>2. CASE ServiceRound
    BY <1>2 DEF ServiceRound, ServiceDevices, Timer!Next
  <1>3. ASSUME NEW c \in Cores, NEW uninit \in UninitStatus, NEW uninitC \in BOOLEAN,
               BeginStep(c, uninit, uninitC)
        PROVE  [Timer!Next]_(Timer!timer_vars)
    BY <1>3 DEF BeginStep
  <1>4. ASSUME NEW i \in Instrs, Fetch(i) PROVE [Timer!Next]_(Timer!timer_vars)
    BY <1>4 DEF Fetch
  <1>5. ASSUME NEW newPC \in {su.PC} \cup DebugPCs, DebugResume(newPC)
        PROVE  [Timer!Next]_(Timer!timer_vars)
    BY <1>5 DEF DebugResume
  <1>6. CASE DebugEnds
    BY <1>6 DEF DebugEnds
  <1>7. CASE ExecuteAndWriteback
    <2>1. instr \in Instrs
      BY <1>7 DEF FetchedInv, ExecuteAndWriteback
    <2>2. CASE instr.op = "store_timer" /\ HasTimer
      <3>1. Timer!Write(instr.reg, instr.value)
        BY <1>7, <2>2 DEF ExecuteAndWriteback
      <3>2. instr.reg \in Timer!Registers /\ instr.value \in Timer!Word
        BY <2>1, <2>2, TimerStoresAssumption
      <3> QED
        BY <3>1, <3>2 DEF Timer!Next
    <2>3. CASE ~(instr.op = "store_timer" /\ HasTimer)
      BY <1>7, <2>3 DEF ExecuteAndWriteback
    <2> QED
      BY <2>2, <2>3
  <1>8. CASE Stopped \/ UNCHANGED vars
    BY <1>8 DEF Stopped, vars
  <1> QED
    BY <1>1, <1>2, <1>3, <1>4, <1>5, <1>6, <1>7, <1>8 DEF Next

(* The simulation implements the machine timer by itself: however cores     *)
(* and rounds interleave, a step of the simulator is one tick of the timer, *)
(* one write of a word to one of its registers, or leaves it alone, so that *)
(* what holds of the timer alone holds of the timer in the simulator.       *)
THEOREM SimulatorDrivesTimer == Spec => Timer!Spec
  <1>1. Init => FetchedInv /\ Timer!Init
    BY DEF Init, FetchedInv
  <1> QED
    BY <1>1, NextFetched, NextDrives, PTL DEF Spec, Timer!Spec

=============================================================================
