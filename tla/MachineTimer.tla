----------------------------- MODULE MachineTimer -----------------------------
(***************************************************************************)
(* The memory-mapped machine timer: a 64-bit counter and a 64-bit compare  *)
(* value, each seen by software as two 32-bit registers.  A word here has  *)
(* WordBits bits.                                                          *)
(***************************************************************************)
EXTENDS Integers

CONSTANTS WordBits,        \* 32
          TimerAdvance     \* added on every tick of the simulator's clock, 1

ASSUME TimerAssumption == WordBits \in Nat \ {0} /\ TimerAdvance \in Nat \ {0}

VARIABLES timer, timer_compare

timer_vars == <<timer, timer_compare>>

\* powers of two, by recursion
Pow2[n \in Nat] == IF n = 0 THEN 1 ELSE 2 * Pow2[n - 1]

WordSize == Pow2[WordBits]
Word     == 0 .. WordSize - 1
DblWord  == 0 .. Pow2[2 * WordBits] - 1

Registers == {"TIMER_LO", "TIMER_HI", "TIMER_COMPARE_LO", "TIMER_COMPARE_HI"}

\* a | b, of the lowest n bits of a and b: the last bit, and the OR of what is before it
BitOr[n \in Nat] ==
    [p \in Nat \X Nat |->
        IF n = 0 THEN 0
        ELSE 2 * BitOr[n - 1][<<p[1] \div 2, p[2] \div 2>>]
             + (IF p[1] % 2 = 1 \/ p[2] % 2 = 1 THEN 1 ELSE 0)]

\* v | (rval << WordBits)
OrHi(v, rval) == BitOr[2 * WordBits][<<v, rval * WordSize>>]

-----------------------------------------------------------------------------

MutantUnboundedTimer ==
    /\ timer' = timer + TimerAdvance
    /\ UNCHANGED timer_compare

MutantTimerWithoutCarry ==
    /\ timer' = timer - (timer % WordSize) + ((timer + TimerAdvance) % WordSize)
    /\ UNCHANGED timer_compare

AdvanceTimer ==
    /\ timer' = (timer + TimerAdvance) % Pow2[2 * WordBits]
    /\ UNCHANGED timer_compare

InterruptPending == timer_compare # 0 /\ timer >= timer_compare

MutantWrite(reg, rval) ==
    \/ /\ reg = "TIMER_LO"
       /\ timer' = rval
       /\ UNCHANGED timer_compare
    \/ /\ reg = "TIMER_HI"
       /\ timer' = OrHi(timer, rval)
       /\ UNCHANGED timer_compare
    \/ /\ reg = "TIMER_COMPARE_LO"
       /\ timer_compare' = timer_compare - (timer_compare % WordSize) + rval
       /\ UNCHANGED timer
    \/ /\ reg = "TIMER_COMPARE_HI"
       /\ timer_compare' = OrHi(timer_compare, rval)
       /\ UNCHANGED timer

\* a write to a low word replaces the whole value, one to a high word is ORed in
Write(reg, rval) ==
    \/ /\ reg = "TIMER_LO"
       /\ timer' = rval
       /\ UNCHANGED timer_compare
    \/ /\ reg = "TIMER_HI"
       /\ timer' = OrHi(timer, rval)
       /\ UNCHANGED timer_compare
    \/ /\ reg = "TIMER_COMPARE_LO"
       /\ timer_compare' = rval
       /\ UNCHANGED timer
    \/ /\ reg = "TIMER_COMPARE_HI"
       /\ timer_compare' = OrHi(timer_compare, rval)
       /\ UNCHANGED timer

Init == timer = 0 /\ timer_compare = 0

Next ==
    \/ AdvanceTimer
    \/ \E reg \in Registers, rval \in Word : Write(reg, rval)

Spec == Init /\ [][Next]_timer_vars

(* Both values stay in 64 bits: the counter wraps (AdvanceTimer, Write).   *)
TimerTypeOK == timer \in DblWord /\ timer_compare \in DblWord

=============================================================================
