--------------------------------- MODULE MCUart ---------------------------------
(* Instances of Uart for TLC. *)
EXTENDS Uart

MCMasks  == {{}, {"OE"}}
MCClears == {{}}
=============================================================================
