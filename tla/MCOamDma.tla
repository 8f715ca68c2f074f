------------------------------ MODULE MCOamDma ------------------------------
(* Three bytes per page, two RAM pages, and bytes 0 and 1: byte 0 is also the *)
(* open-bus value, byte 1 the page of the DMA register.                      *)
EXTENDS OamDma

MCRamOf == [b \in {0, 1} |-> IF b = 0 THEN "zero" ELSE "one"]
=============================================================================
