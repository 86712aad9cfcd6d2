------------------------------ MODULE MCTestImage ------------------------------
(***************************************************************************)
(* An instance of TestImage: 32 bytes in blocks of 2, dumped in blocks of  *)
(* 2, 4, 8 or 32.  The files overlap, end inside a block, wrap around the  *)
(* top of memory, cover the device's window, have sections that are not    *)
(* loaded or cannot be read, or are missing.                               *)
(***************************************************************************)
EXTENDS TestImage

Sec(kind, skipped, address, data) ==
    [kind |-> kind, skipped |-> skipped, address |-> address, data |-> data]

Code    == <<Sec("PROGBITS", FALSE, 0, <<2, 3, 4>>), Sec("PROGBITS", TRUE, 0, <<5>>)>>
Overlap == <<Sec("NOBITS", FALSE, 0, <<0, 0>>), Sec("INIT_ARRAY", FALSE, 1, <<6, 7, 8>>)>>
Wraps   == <<Sec("PROGBITS", FALSE, 30, <<9, 10, 11>>), Sec("other", FALSE, 4, <<5>>)>>
Window  == <<Sec("FINI_ARRAY", FALSE, 13, <<12, 13, 14, 15, 16>>)>>
Broken  == <<Sec("PROGBITS", FALSE, 0, <<17>>), Sec("unreadable", FALSE, 0, <<>>)>>

MCImages == {<<Code>>, <<Code, Overlap>>, <<Overlap, Code>>, <<Wraps, Window>>, <<Missing>>,
             <<Code, Missing>>, <<Broken, Code>>}
MCSignatures == {<<0, 0>>, <<8, 8>>, <<6, 18>>, <<8, 11>>}
MCTrialSizes == <<4, 8, 32>>
MCAccesses == {6, 13, 16, 20, 31} \X {2} \cup {<<24, 1>>}
=============================================================================
