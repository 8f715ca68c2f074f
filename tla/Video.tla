------------------------------- MODULE Video -------------------------------
(***************************************************************************)
(* From sprites to the screen: PPU.sv draws each line into one of two line   *)
(* buffers while the VGA controller (vga_controller342.sv), on a clock twice  *)
(* as fast, shows the other one twice.  The two sides share no signal but     *)
(* the number of the buffer: each counts lines and columns for itself from    *)
(* RESET on.  A step is one edge of the VGA clock; every second one is an     *)
(* edge of the PPU clock as well.                                            *)
(***************************************************************************)
EXTENDS PPUSprites

CONSTANTS
  Entries      (* what a program writes to a sprite: y, x and priority       *)

ASSUME EntriesAssumption ==
  \A entry \in Entries :
    /\ entry.y \in Nat /\ entry.x \in 0..MaxX /\ entry.behind \in BOOLEAN

h_tot == cycle_count
v_tot == 2 * (scanline_count + 1) - 1
h_active == Width - 1
v_active == 2 * Lines

VARIABLES
  ppuEdge,          (* the next edge is one of the PPU clock too               *)
  linebuffer, ppu_linebuffer,
  hcount, vcount, blank_n,
  VGA_RGB           (* the pixel on the screen                                *)

vgaVars == <<hcount, vcount, blank_n, VGA_RGB>>
vars == <<spriteVars, ppuEdge, linebuffer, ppu_linebuffer, vgaVars>>

Fill == [of |-> NSprites + 3, row |-> 0, at |-> 0]      (* 6'h28 *)
Black == [of |-> NSprites + 4, row |-> 0, at |-> 0]

Column == 0..(Width - 1)
vga_linebuffer == 1 - ppu_linebuffer

(* RESET ends before a common edge or between two: VGA is a tick ahead then.     *)
Init ==
  /\ SpritesInit
  /\ ppuEdge = FALSE
  /\ linebuffer = [b \in 0..1 |-> [i \in Column |-> Black]]
  /\ ppu_linebuffer = 0
  /\ hcount \in {0, 1}
  /\ vcount = v_tot - 1
  /\ blank_n = FALSE
  /\ VGA_RGB = Black

-----------------------------------------------------------------------------
(* Sensitivity variant of DrawPixel: the index of the buffer wraps.             *)
DrawPixelWrapped(colour) ==
  linebuffer' = [linebuffer EXCEPT ![ppu_linebuffer][cycle % Width] = colour]

(* A write past the end of the buffer changes nothing.                          *)
DrawPixel(colour) ==
  linebuffer' = IF cycle \in Column
                THEN [linebuffer EXCEPT ![ppu_linebuffer][cycle] = colour]
                ELSE linebuffer

SwapBuffers ==
  ppu_linebuffer' = IF cycle = cycle_count THEN 1 - ppu_linebuffer ELSE ppu_linebuffer

PpuEdge ==
  \E background \in Backgrounds, blank \in Blanks :
    /\ Advance
    /\ Evaluate
    /\ Overflow
    /\ ShowSprites
    /\ Hit(background, blank)
    /\ WriteSprite(Entries)
    /\ DrawPixel(IF scanline < Lines THEN color_idx(background, blank) ELSE Fill)
    /\ SwapBuffers

-----------------------------------------------------------------------------
(* The VGA counters run freely; blank_n and the pixel are registered.            *)
VgaEdge ==
  /\ hcount' = IF hcount = h_tot THEN 0 ELSE hcount + 1
  /\ vcount' = IF hcount # h_tot THEN vcount ELSE IF vcount = v_tot THEN 0 ELSE vcount + 1
  /\ blank_n' = (hcount < h_active /\ vcount < v_active)
  /\ VGA_RGB' = IF blank_n THEN linebuffer[vga_linebuffer][hcount] ELSE Black

CommonEdge ==
  /\ ppuEdge
  /\ PpuEdge
  /\ VgaEdge
  /\ ppuEdge' = FALSE

VideoEdge ==
  /\ ~ppuEdge
  /\ VgaEdge
  /\ ppuEdge' = TRUE
  /\ UNCHANGED <<spriteVars, linebuffer, ppu_linebuffer>>

Next == CommonEdge \/ VideoEdge

Spec == Init /\ [][Next]_vars

-----------------------------------------------------------------------------
TypeOK ==
  /\ cycle \in 0..cycle_count /\ scanline \in 0..scanline_count
  /\ sprites \in [Place -> Sprite \cup {Cleared}]
  /\ sprite_oam_idx \in Sprite /\ sprite_counter \in 0..Places
  /\ sprite_fetch_idx \in 0..Places
  /\ \A p \in Place :
       /\ shown[p].sprite \in Sprite \cup {Cleared}
       /\ shown[p].row \in 0..(Height - 1) /\ shown[p].x \in 0..MaxX
       /\ shown[p].column \in 0..Nothing /\ shown[p].behind \in BOOLEAN
  /\ \A f \in {sprite_overflow, sprite0_hit_possible, sprite0_hit, ppuEdge, blank_n} : f \in BOOLEAN
  /\ ppu_linebuffer \in 0..1
  /\ hcount \in 0..h_tot /\ vcount \in 0..v_tot

(* Evaluation runs over OAM several times and stops wherever the places are      *)
(* full.  When it ends the places hold the first sprites in range, in order,     *)
(* and the places left over nothing but repetitions of those in range or         *)
(* nothing.                                                                     *)
Before(i, line) == Cardinality({j \in Found(line) : j < i})

PlacesHoldFirst ==
  OnPicture /\ cycle > Width =>
    /\ \A i \in Found(scanline) :
         Before(i, scanline) < Places => sprites[Before(i, scanline)] = i
    /\ \A p \in Place : sprites[p] \in Found(scanline) \cup {Cleared}

(* The overflow flag is up at the end of every line with more sprites in range   *)
(* than places ...                                                              *)
OverflowReported ==
  OnPicture /\ cycle > Width + 1 /\ Cardinality(Found(scanline)) > Places => sprite_overflow

(* ... and rises on no line on which the passes together do not fill the places;  *)
(* three sprites in range found three times do (PPU.sv:1007).                   *)
OverflowEarned ==
  [][~sprite_overflow /\ sprite_overflow' =>
       Passes * Cardinality(Found(scanline)) >= Places]_vars

(* What is drawn on a line was in range of the line before: the last one, 261,   *)
(* for the first line drawn.                                                    *)
LineBefore(line) == IF line = 0 THEN scanline_count ELSE line - 1
Chosen(line) == {i \in Found(LineBefore(line)) : Before(i, LineBefore(line)) < Places}

(* The column of a sprite at an index of the line buffer: the picture begins at   *)
(* index 2, and the first column of a sprite at x = 0 is there in 0 and 1 too.   *)
ColumnAt(i, index) ==
  IF index >= OAM[i].x + 2 THEN index - (OAM[i].x + 2)
  ELSE IF OAM[i].x = 0 THEN 0 ELSE Nothing

SolidAt(line, index) ==
  {i \in Chosen(line) :
     /\ ColumnAt(i, index) < Nothing
     /\ <<LineBefore(line) - OAM[i].y, ColumnAt(i, index)>> \in Solid[i]}

(* The hit flag rises on a line of the picture only at an opaque pixel of sprite  *)
(* 0 on an opaque background, or on the line above its first: there the code     *)
(* takes the sprite in place 0, or tile $FF past the last column, for it          *)
(* (PPU.sv:675, 999), which HitsAsTested is about.                              *)
LineAboveFirst == 0 \in Found(scanline) \ Chosen(scanline)

HitIsSpriteZeros ==
  [][scanline < Lines /\ ~sprite0_hit /\ sprite0_hit' =>
       (cycle \in OpaqueAt /\ 0 \in SolidAt(scanline, cycle)) \/ LineAboveFirst]_vars

(* It is up after an overlap that comes later in its line than the evaluation of  *)
(* sprite 0 for the next line, which must have found it again.  The columns       *)
(* before that, its last row and the last column (x = 255) are left to            *)
(* HitsAsTested.                                                                *)
HitFound ==
  /\ scanline < Lines /\ cycle > Width + 1
  /\ 0 \in Found(scanline)
  /\ \E index \in OpaqueAt \cap (ClearCycles + 2)..Width : 0 \in SolidAt(scanline, index)
  => sprite0_hit

(* What the sprite hit tests (tests/readme.txt) say of the flag: it rises at       *)
(* every opaque pixel of sprite 0 on an opaque background of the picture, also in   *)
(* its last row (:57) and left of the evaluation (:81), and at nothing else: not    *)
(* at another sprite's (:32), in the column x = 255 (:90) or below the picture      *)
(* (:101).  The code does otherwise in all five.                                 *)
Overlap ==
  /\ scanline < Lines /\ cycle \in OpaqueAt \cap 2..Width
  /\ 0 \in SolidAt(scanline, cycle)

HitsAsTested ==
  [][cycle' # cycle /\ scanline # scanline_count =>
       (sprite0_hit' <=> sprite0_hit \/ Overlap)]_vars

(* Of these by itself: no pixel of sprite 0 in the last column hits (:90).        *)
MissesRightEdge ==
  [][scanline < Lines /\ ~sprite0_hit /\ sprite0_hit' =>
       ~(cycle = MaxX + 2 /\ 0 \in SolidAt(scanline, cycle))]_vars

(* The picture a line should show: the first opaque sprite that has a place, by   *)
(* its priority before or behind the background.                                *)
Reference(line, index) ==
  LET solid == SolidAt(line, index)
      i == First(solid)
      background == index \in OpaqueAt
  IN IF solid # {} /\ ~(background /\ OAM[i].behind)
     THEN [of |-> i, row |-> LineBefore(line) - OAM[i].y, at |-> ColumnAt(i, index)]
     ELSE IF background THEN Background(line, index)
     ELSE Backdrop

(* Every pixel on the screen is the one of its line and column, on both passes    *)
(* over the line, although nothing keeps the two sides in step.                 *)
ScreenShows ==
  [][blank_n => VGA_RGB' = Reference(vcount \div 2, hcount)]_vars
=============================================================================
