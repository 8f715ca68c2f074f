------------------------------ MODULE MCPPUVblank ------------------------------
(* A frame of 14 PPU cycles: as in the code one less than a multiple of three,  *)
(* so that the CPU edge falls on every cycle of the frame in turn, with room    *)
(* in the blank for a read, a late enable and a second read.                    *)
EXTENDS PPUVblank
=============================================================================
