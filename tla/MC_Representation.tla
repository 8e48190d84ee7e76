------------------------- MODULE MC_Representation -------------------------
(* The x64 layout (64-bit words, 32-bit Smis shifted by 32) scaled down:  *)
(* 8-bit words, 4-bit integers shifted by 4.                              *)
EXTENDS Representation
MCWordBits == 8
MCSmiShift == 4
MCIntBits == 4
=============================================================================
