------------------------------ MODULE MCCoreStep ------------------------------
(***************************************************************************)
(* Instances of CoreStep: twelve bytes of memory, the middle word of which *)
(* is the device's window with the register that pops.  Words can be       *)
(* accessed in memory and in the window, into the window, out of it, past  *)
(* the end of memory and with upper address bits.                          *)
(***************************************************************************)
EXTENDS CoreStep

MCWords == {[i \in 0 .. 3 |-> IF i = 0 THEN 5 ELSE IF i = 1 THEN 255 ELSE 0]}
MCAddresses == {-2, 0, 2, 4, 7}
=============================================================================
