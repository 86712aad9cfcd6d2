--------------------------- MODULE MCPhysicalMemory ---------------------------
(* Instances of PhysicalMemory for TLC. *)
EXTENDS PhysicalMemory

\* blocks of four bytes: four bytes split 2 + 2 with single ones on either side, and
\* an access that runs past the last address
SplitAccesses == {<<2, 4>>, <<3, 1>>, <<4, 1>>, <<7, 2>>}
=============================================================================
