------------------------------ MODULE MCVideo ------------------------------
(* Four sprites, two passes and three places: one sprite in range leaves a      *)
(* place, two fill them by repetition, four are too many.  Sprite 1 has one pixel  *)
(* in each row.                                                                *)
(* The values of y begin a sprite on the first line, in the middle and on the    *)
(* last line and the line before the first; x puts it at the left edge, in the   *)
(* middle and at the last column.                                              *)
EXTENDS Video

Whole == (0..(Height - 1)) \X (0..(SpriteWidth - 1))
MCSolid == [i \in Sprite |-> IF i = 1 THEN {<<0, 1>>, <<1, 0>>} ELSE Whole]

MCEntries ==
  {[y |-> 1, x |-> 6, behind |-> FALSE], [y |-> 1, x |-> 5, behind |-> TRUE],
   [y |-> 4, x |-> 0, behind |-> FALSE], [y |-> 2, x |-> MaxX, behind |-> FALSE]}

(* The instances of the sprite hit tests.  One pixel, in the lower right corner: *)
MCCorner == [i \in Sprite |-> {<<Height - 1, SpriteWidth - 1>>}]
MCAtCorner == {[y |-> 0, x |-> 5, behind |-> FALSE]}

(* ... a whole sprite at the left edge, the right edge and below the picture:     *)
MCWhole == [i \in Sprite |-> Whole]
MCAtLeft == {[y |-> 0, x |-> 1, behind |-> FALSE]}
MCAtRight == {[y |-> 0, x |-> MaxX, behind |-> FALSE]}
MCBelow == {[y |-> Lines - 1, x |-> 0, behind |-> FALSE]}

(* ... and one that begins a line above another sprite.                          *)
MCAbove ==
  {[y |-> 1, x |-> 6, behind |-> FALSE], [y |-> 2, x |-> 1, behind |-> FALSE]}
=============================================================================
