---------------------------- MODULE MCMachineTimer ----------------------------
(* MachineTimer with a history of what software has written to the compare    *)
(* registers, and a bound on how often it writes.                             *)
EXTENDS MachineTimer, Sequences

CONSTANT MaxWrites

VARIABLES written,      \* the last low word, then the first and the last of the high
                        \* words written since
          writes        \* number of writes

mc_vars == <<timer_vars, written, writes>>

MCInit == Init /\ written = <<>> /\ writes = 0

\* software programs a 64-bit compare value low word first
History(reg, rval) ==
    written' = CASE reg = "TIMER_COMPARE_LO" -> <<rval>>
                 [] reg = "TIMER_COMPARE_HI" /\ Len(written) \in {1, 2} -> Append(written, rval)
                 [] reg = "TIMER_COMPARE_HI" /\ Len(written) = 3 -> [written EXCEPT ![3] = rval]
                 [] OTHER -> written

MCWrite ==
    /\ writes < MaxWrites
    /\ writes' = writes + 1
    /\ \E reg \in Registers, rval \in Word : Write(reg, rval) /\ History(reg, rval)

MCAdvance == AdvanceTimer /\ UNCHANGED <<written, writes>>

MCSpec == MCInit /\ [][MCWrite \/ MCAdvance]_mc_vars /\ WF_mc_vars(MCAdvance)

(* Writing the low word, then the high word once, programs exactly that    *)
(* 64-bit compare value, whatever was there before (timer.C:121-132): the  *)
(* low write clears what the high write would be ORed to.                  *)
LoThenHiPrograms ==
    /\ Len(written) = 1 => timer_compare = written[1]
    /\ Len(written) = 2 => timer_compare = written[2] * WordSize + written[1]

(* Once armed the timer fires, even when software moves the counter or the *)
(* counter wraps, unless software disarms it by writing zero               *)
(* (AdvanceTimer and InterruptPending).                                    *)
ArmedTimerFires == timer_compare # 0 ~> InterruptPending \/ timer_compare = 0
=============================================================================
