------------------------------ MODULE RiscvState ------------------------------
(***************************************************************************)
(* The architectural state of one core (class RiscvState over class State) *)
(* and the functions on it: the machine-mode trap unit, the interrupt      *)
(* logic, the low-power mode and the copying of one state to another.      *)
(*                                                                         *)
(* A control register is the set of its one bits, so that the masks of the *)
(* code are set differences and its shifts and ORs are unions.  Registers  *)
(* nothing in the simulator reads back to decide what happens next (the 32 *)
(* general registers, mcause, mtval, mscratch, the counters...) are data   *)
(* and are left out.                                                       *)
(***************************************************************************)
EXTENDS Integers

USER_MODE    == 0
MACHINE_MODE == 3
Privileges   == 0..3           \* 1 and 2: supervisor, hypervisor, never meant

\* bits of mstatus
MIEbit == 3                    \* interrupts enabled
MPIE   == 7                    \* ... before the last trap
MPPlo  == 11                   \* privilege before the last trap, two bits
MPPhi  == 12
TW     == 21                   \* wfi allowed outside machine mode

\* bits of mie and mip, also the causes of the two interrupts
MTI == 7
MEI == 11

CoreState ==
    [PC        : Nat,
     privilege : Privileges,
     low_power : BOOLEAN,
     end_test  : BOOLEAN,
     C         : BOOLEAN,      \* misa.C, compressed instructions enabled
     MSTATUS   : SUBSET Nat,
     MIE       : SUBSET Nat,
     MIP       : SUBSET Nat,
     MTVEC     : Nat,
     MEPC      : Nat]

-----------------------------------------------------------------------------
(* mstatus and misa *)

\* 0x807fffff (the bits MSTATUS() reads) without 0x805de162 (the ones SetMSTATUS clears)
StatusBits == {0, 2, 3, 4, 7, 9, 10, 11, 12, 17, 21}

MPP(mstatus) == (IF MPPlo \in mstatus THEN 1 ELSE 0) + (IF MPPhi \in mstatus THEN 2 ELSE 0)

MPPbits(p) == (IF p \in {1, 3} THEN {MPPlo} ELSE {}) \cup (IF p \in {2, 3} THEN {MPPhi} ELSE {})

\* what the register holds after SetMSTATUS(rval), old being what it held before:
\* a previous privilege of 1 or 2 is not accepted, the old one stays
MSTATUSafter(old, rval) ==
    LET v == rval \cap StatusBits
    IN  IF MPP(v) \in {1, 2} THEN (v \ {MPPlo, MPPhi}) \cup (old \cap {MPPlo, MPPhi}) ELSE v

SetMSTATUS(s, rval) == [s EXCEPT !.MSTATUS = MSTATUSafter(@, rval)]

MutantMISACafter(old, c, PC) == c

\* misa.C stays set while the PC is not word aligned
MISACafter(old, c, PC) == c \/ (old /\ PC % 4 # 0)

SetMISA(s, c) == [s EXCEPT !.C = MISACafter(@, c, s.PC)]

GlobalInterruptsEnabled(s) == MIEbit \in s.MSTATUS

WFIEnabled(s) == s.privilege = MACHINE_MODE \/ TW \in s.MSTATUS

-----------------------------------------------------------------------------
(* traps *)

MutantPushPrivilegeLevel(s) ==
    [s EXCEPT !.MSTATUS   = MSTATUSafter(@, (s.MSTATUS \ {11, 10, 7, 3}) \cup MPPbits(s.privilege)),
              !.privilege = MACHINE_MODE]

\* 0xc88 clears bits 11, 10, 7 and 3; bit 12, the upper bit of mpp, survives
PushPrivilegeLevel(s) ==
    LET mie == IF MIEbit \in s.MSTATUS THEN {MPIE} ELSE {}
        cleared == s.MSTATUS \ {11, 10, 7, 3}
    IN  [s EXCEPT !.MSTATUS   = MSTATUSafter(@, cleared \cup MPPbits(s.privilege) \cup mie),
                  !.privilege = MACHINE_MODE]

PopPrivilegeLevel(s) ==
    LET mie == IF MPIE \in s.MSTATUS THEN {MIEbit} ELSE {}
        cleared == s.MSTATUS \ {12, 11, 7, 3}
    IN  [s EXCEPT !.MSTATUS   = MSTATUSafter(@, cleared \cup mie \cup {MPIE}),
                  !.privilege = MPP(s.MSTATUS)]

Signal(s, interrupt) == [s EXCEPT !.MIP = @ \cup {interrupt}]

Deliverable(s) == s.MIP \cap s.MIE \cap {MTI, MEI}

InterruptPending(s) == GlobalInterruptsEnabled(s) /\ Deliverable(s) # {}

\* external before timer; meaningful when InterruptPending(s)
InterruptToService(s) == IF MEI \in Deliverable(s) THEN MEI ELSE MTI

\* ProcessException on an interrupt; every interrupt is vectored
ProcessInterrupt(s, interrupt) ==
    [PushPrivilegeLevel([s EXCEPT !.MIP = @ \ {interrupt}, !.low_power = FALSE])
       EXCEPT !.MEPC = s.PC, !.PC = s.MTVEC + 4 * interrupt]

\* ... on PROCESS_WFI: the PC stays at the wfi
ProcessWFI(s) == [s EXCEPT !.MEPC = s.PC + 4, !.low_power = TRUE]

\* ... on PROCESS_MRET
ProcessMRET(s) ==
    [PopPrivilegeLevel(s) EXCEPT !.PC = IF s.C THEN s.MEPC ELSE s.MEPC - (s.MEPC % 4)]

\* ... on an environment call, a misaligned jump or an illegal instruction
ProcessTrap(s) == [PushPrivilegeLevel(s) EXCEPT !.MEPC = s.PC, !.PC = s.MTVEC]

-----------------------------------------------------------------------------
(* scheduling and copying *)

MutantReady(s) == ~s.end_test /\ ~s.low_power

Ready(s) == ~s.end_test /\ (~s.low_power \/ InterruptPending(s))

\* State old receives everything of new.  mstatus and misa go through their
\* setters, which look at what old held (and at the PC it has just received).
Update(old, new) ==
    [new EXCEPT
        !.MSTATUS = IF old.MSTATUS = @ THEN @ ELSE MSTATUSafter(old.MSTATUS, @),
        !.C       = MISACafter(old.C, @, new.PC)]

=============================================================================
