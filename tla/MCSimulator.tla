------------------------------ MODULE MCSimulator ------------------------------
(* Instances of Simulator for TLC: the instruction sets of the runs. *)
EXTENDS Simulator

I(op, value, bits) == [op |-> op, size |-> 4, value |-> value, bits |-> bits, reg |-> "none"]

TimerStore(reg, value) == [I("store_timer", value, {}) EXCEPT !.reg = reg]

Compressed(i) == [i EXCEPT !.size = 2]

\* several cores, interrupts, sleep, every way a test can end
SchedInstrs ==
    {I("next", 0, {}), I("jump", 0, {}), I("wfi", 0, {}), I("ecall", 0, {}), I("mret", 0, {}),
     I("csrw_mstatus", 0, {MIEbit}), I("csrw_mie", 0, {MTI, MEI}),
     TimerStore("TIMER_COMPARE_HI", 1)}

\* one core, all of the trap state, and what decides the alignment of the PC
TrapInstrs ==
    {I("next", 0, {}), I("wfi", 0, {}), I("ecall", 0, {}), I("illegal", 0, {}), I("mret", 0, {}),
     I("csrw_mip", 0, {}), I("csrw_mip", 0, {MEI}), I("csrw_mtvec", 4, {}),
     I("csrw_misa", 0, {}), I("csrw_misa", 0, {MISA_C}),
     Compressed(I("next", 0, {})), Compressed(I("jump", 6, {}))}
    \cup {I("jump", a, {}) : a \in {0, 2, 5}} \cup {I("csrw_mepc", a, {}) : a \in {3, 4}}
    \cup {I("csrw_mstatus", 0, b) : b \in {{}, {MIEbit}, {MPPhi}, {MPPlo, MPPhi, MPIE}, {TW}}}
    \cup {I("csrw_mie", 0, b) : b \in {{}, {MTI}, {MEI}}}

NoLimit == -1
ZeroStatus == {{}}
AnyStatus  == SUBSET {MIEbit, MPIE, MPPlo, MPPhi}
NonePending == {{}}
AnyPending  == SUBSET {MTI, MEI}
=============================================================================
