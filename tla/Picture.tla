-------------------------------- MODULE Picture --------------------------------
(***************************************************************************)
(* What the scroll registers promise a program.  The background is two      *)
(* nametables wide and two high.  origin is the column of tiles at the      *)
(* left edge of the line being shown (or fetched), row the row of pixels:    *)
(* a page and a line within it.  The origin is taken anew from the scroll    *)
(* registers after each line, the row once a frame, and loading the address  *)
(* in horizontal blanking takes both.                                        *)
(***************************************************************************)
EXTENDS Naturals

CONSTANTS
  LineEnd,       (* the last cycle that draws: 256                          *)
  Prefetch,      (* first fetch for the next line: 321                      *)
  cycle_count,   (* the last cycle of a line: 340                           *)
  VcopyLast,     (* the last cycle that copies the row: 304                 *)
  Lines,         (* lines drawn: 240                                        *)
  scanline_count,(* the line before the first: 261                          *)
  PageRows,      (* rows of pixels in a nametable: 240                      *)
  RowLimit,      (* one more than the highest row that can be set: 256      *)
  Scroll,        (* scroll settings: [x, y] records                         *)
  Unknown        (* no origin or row: outside the picture                   *)

VARIABLES cycle, scanline, render_enable, load, scroll, origin, row

vars == <<cycle, scanline, render_enable, load, scroll, origin, row>>

(* The row below y on its page p; the rows past the page, which hold the       *)
(* attribute tables, wrap without changing the page.                            *)
RowBelow(p, y) ==
  IF y = PageRows - 1 THEN <<1 - p, 0>>
  ELSE <<p, IF y = RowLimit - 1 THEN 0 ELSE y + 1>>

(* The picture has an origin from the horizontal copy of the line before the   *)
(* first to the end of the last line, and a row from the vertical copy on.      *)
OriginKnown ==
  render_enable /\ (scanline < Lines \/ (scanline = scanline_count /\ cycle > LineEnd + 1))
RowKnown ==
  render_enable /\ (scanline < Lines \/ (scanline = scanline_count /\ cycle > VcopyLast))

Init ==
  /\ cycle = 0
  /\ scanline = 0
  /\ render_enable = FALSE
  /\ load = FALSE
  /\ scroll \in Scroll
  /\ origin = Unknown
  /\ row = Unknown

NextOrigin ==
  IF load \/ cycle = LineEnd + 1 THEN scroll.x ELSE origin

NextRow ==
  IF load \/ (scanline = scanline_count /\ cycle = VcopyLast) THEN scroll.y
  ELSE IF cycle = LineEnd THEN RowBelow(row[1], row[2])
  ELSE row

(* A program loads the address while nothing is fetched for the background,     *)
(* and switches rendering in vertical blanking.                                  *)
LoadAllowed ==
  \/ ~render_enable
  \/ scanline \in Lines..(scanline_count - 1)
  \/ cycle \in (LineEnd + 1)..(Prefetch - 1)

Dot ==
  /\ cycle' = IF cycle = cycle_count THEN 0 ELSE cycle + 1
  /\ scanline' = IF cycle < cycle_count THEN scanline
                 ELSE IF scanline = scanline_count THEN 0 ELSE scanline + 1
  /\ scroll' \in Scroll
  /\ load' \in BOOLEAN
  /\ load' => LoadAllowed'
  /\ render_enable' \in BOOLEAN
  /\ render_enable' # render_enable => scanline \in Lines..(scanline_count - 1)
  /\ origin' = IF OriginKnown' THEN NextOrigin ELSE Unknown
  /\ row' = IF RowKnown' THEN NextRow ELSE Unknown

Spec == Init /\ [][Dot]_vars
=============================================================================
