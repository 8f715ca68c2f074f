------------------------------ MODULE MCPPUScroll ------------------------------
(* Three tiles on a line and two fetched ahead cross the edge of a nametable of  *)
(* four columns; three lines of two-pixel tiles cross from a row of tiles to the *)
(* next.  The settings start at the corner of the world, before the edge of the  *)
(* page in both directions, and in the rows past the page.                       *)
EXTENDS PPUScroll

MCScrolls ==
  {[nametable_x |-> 0, nametable_y |-> 0, coarse_x |-> 0, coarse_y |-> 0, fine_y |-> 0],
   [nametable_x |-> 1, nametable_y |-> 0, coarse_x |-> 2, coarse_y |-> 1, fine_y |-> 1],
   [nametable_x |-> 0, nametable_y |-> 1, coarse_x |-> 3, coarse_y |-> 3, fine_y |-> 0]}
=============================================================================
