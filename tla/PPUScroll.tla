------------------------------ MODULE PPUScroll ------------------------------
(***************************************************************************)
(* The background of PPU.sv: the cycle and scanline engine, the fetches of   *)
(* name, attribute and pattern bytes, the shifters they are loaded into and  *)
(* the increments and copies of the address v, while the program writes the  *)
(* scroll registers at any time.  A byte of video memory is represented by   *)
(* where it comes from, so that the model tells which tile, row and bit      *)
(* every pixel shows.  Every step is one PPU clock edge; a write by the CPU  *)
(* falls on one of them and the PPU reads the values before it.              *)
(***************************************************************************)
EXTENDS Naturals

CONSTANTS
  Tiles,         (* tiles on a line: 32, in cycles 1-256                    *)
  Prefetch,      (* first fetch for the next line: 321                      *)
  cycle_count,   (* the last cycle of a line: 340                           *)
  VcopyFirst, VcopyLast,     (* 280 and 304                                 *)
  Lines,         (* lines drawn: 240                                        *)
  scanline_count,(* the line before the first: 261                          *)
  Columns,       (* tiles across a nametable: 32                            *)
  LastRow,       (* the last row of tiles in a nametable: 29                *)
  MaxRow,        (* the highest row of tiles that can be set: 31            *)
  FineRows,      (* rows of pixels in a tile: 8                             *)
  Scrolls,       (* the values of t that programs set                       *)
  FineX,         (* the values of fine_x that programs set                  *)
  Unset          (* no byte of memory: a register before its first load,     *)
                 (* the zeros behind a shifted tile, the undriven bus (8'hAA) *)

loopy_reg ==
  [nametable_x : {0, 1}, nametable_y : {0, 1}, coarse_x : 0..(Columns - 1),
   coarse_y : 0..MaxRow, fine_y : 0..(FineRows - 1)]

LineEnd == 8 * Tiles
HCopy == LineEnd + 1

ASSUME TimingAssumption ==
  /\ {Tiles, Prefetch, cycle_count, VcopyFirst, VcopyLast, Lines, scanline_count} \subseteq Nat
  /\ Tiles > 0 /\ Lines > 0 /\ scanline_count > Lines
  /\ HCopy < VcopyFirst /\ VcopyFirst <= VcopyLast /\ VcopyLast < Prefetch
  /\ Prefetch % 8 = 1 /\ Prefetch + 16 <= cycle_count
ASSUME WorldAssumption ==
  /\ {Columns, LastRow, MaxRow, FineRows} \subseteq Nat
  /\ Columns > 0 /\ FineRows > 0 /\ LastRow < MaxRow
  /\ Tiles + 2 <= 2 * Columns      \* a line is no longer than the world
  /\ Scrolls \subseteq loopy_reg /\ FineX \subseteq 0..7

VARIABLES
  cycle, scanline,
  (* written by the CPU clock; load is a load of v from t not yet served    *)
  render_enable, temp_vram_address, fine_x, load,
  (* written by the PPU clock *)
  active_vram_address, PPU_READ, ntable_byte, atable_bits, ptable_data_temp,
  shifters      (* ptable_data and palette_data; place 0 is bit 15          *)

fetchVars == <<ntable_byte, atable_bits, ptable_data_temp, shifters>>
vars == <<cycle, scanline, render_enable, temp_vram_address, fine_x, load,
          active_vram_address, PPU_READ, fetchVars>>

(* The name byte of a tile, its two palette bits and a row of one of its       *)
(* bit planes, by their addresses.                                              *)
Tile(v) == <<v.nametable_x, v.nametable_y, v.coarse_x, v.coarse_y>>
Quadrant(v) == <<v.nametable_x, v.nametable_y, v.coarse_x \div 2, v.coarse_y \div 2>>
PatternRow(name, v) == <<name, v.fine_y>>

Init ==
  /\ cycle = 0
  /\ scanline = 0
  /\ render_enable = FALSE
  /\ temp_vram_address \in Scrolls
  /\ fine_x \in FineX
  /\ load = FALSE
  /\ active_vram_address =
       [nametable_x |-> 0, nametable_y |-> 0, coarse_x |-> 0, coarse_y |-> 0, fine_y |-> 0]
  /\ PPU_READ = FALSE
  /\ ntable_byte = Unset
  /\ atable_bits = Unset
  /\ ptable_data_temp = [plane \in {0, 1} |-> Unset]
  /\ shifters = [i \in 0..15 |-> Unset]

-----------------------------------------------------------------------------
(* Combinational signals. *)

counter == (cycle + 7) % 8

OnPicture == scanline < Lines \/ scanline = scanline_count
Fetching ==
  /\ render_enable
  /\ OnPicture
  /\ cycle \in 1..LineEnd \cup Prefetch..(Prefetch + 16)

ppu_hinc_vram_request == Fetching /\ (counter = 7 \/ cycle = LineEnd)
ppu_vinc_vram_request == Fetching /\ cycle = LineEnd
ppu_hcopy_vram_request == render_enable /\ OnPicture /\ cycle = HCopy
ppu_vcopy_vram_request ==
  render_enable /\ scanline = scanline_count /\ cycle \in VcopyFirst..VcopyLast

-----------------------------------------------------------------------------
(* The address v. *)

HorizontalIncrement(v) ==
  IF v.coarse_x = Columns - 1
  THEN [v EXCEPT !.coarse_x = 0, !.nametable_x = 1 - @]
  ELSE [v EXCEPT !.coarse_x = @ + 1]

HorizontalCopy(v, t) ==
  [v EXCEPT !.nametable_x = t.nametable_x, !.coarse_x = t.coarse_x]

(* Sensitivity variant of VerticalIncrement: the page changes where the rows   *)
(* of tiles end, not where those of the picture do.                             *)
VerticalIncrementLate(v) ==
  IF v.fine_y # FineRows - 1 THEN [v EXCEPT !.fine_y = @ + 1]
  ELSE IF v.coarse_y = MaxRow
       THEN [v EXCEPT !.fine_y = 0, !.coarse_y = 0, !.nametable_y = 1 - @]
       ELSE [v EXCEPT !.fine_y = 0, !.coarse_y = @ + 1]

VerticalIncrement(v) ==
  IF v.fine_y # FineRows - 1 THEN [v EXCEPT !.fine_y = @ + 1]
  ELSE IF v.coarse_y = LastRow
       THEN [v EXCEPT !.fine_y = 0, !.coarse_y = 0, !.nametable_y = 1 - @]
       ELSE [v EXCEPT !.fine_y = 0, !.coarse_y = IF @ = MaxRow THEN 0 ELSE @ + 1]

VerticalCopy(v, t) ==
  [v EXCEPT !.fine_y = t.fine_y, !.nametable_y = t.nametable_y, !.coarse_y = t.coarse_y]

Horizontal(v, t) ==
  IF ppu_hinc_vram_request THEN HorizontalIncrement(v)
  ELSE IF ppu_hcopy_vram_request THEN HorizontalCopy(v, t) ELSE v
Vertical(v, t) ==
  IF ppu_vinc_vram_request THEN VerticalIncrement(v)
  ELSE IF ppu_vcopy_vram_request THEN VerticalCopy(v, t) ELSE v

(* A load takes the place of whatever the renderer asks for in that cycle. *)
UpdateAddress ==
  active_vram_address' =
    IF load THEN temp_vram_address
    ELSE Vertical(Horizontal(active_vram_address, temp_vram_address), temp_vram_address)

-----------------------------------------------------------------------------
(* Fetches and shifters. *)

(* The read strobe follows the request a cycle later; without it the bus is     *)
(* undriven.  The sprite fetches between the two parts of a line request too.   *)
Strobe ==
  PPU_READ' = (render_enable /\ OnPicture /\ cycle \in 1..(Prefetch + 16))
PPU_DATA_IN(byte) == IF PPU_READ THEN byte ELSE Unset

(* One pixel of the tile in the temporary registers. *)
FetchedPixel(k) ==
  [low |-> ptable_data_temp[0], high |-> ptable_data_temp[1], bits |-> atable_bits, x |-> k]

(* Sensitivity variant of Shift: the fetched byte is loaded a cycle early,      *)
(* while its high bit plane is still on its way.                                *)
ShiftEarly ==
  [i \in 0..15 |->
     IF counter = 7 /\ i >= 8 THEN FetchedPixel(i - 8)
     ELSE IF i = 15 THEN Unset ELSE shifters[i + 1]]

(* The shifters move every cycle; at the first of eight the fetched tile is     *)
(* loaded behind the one being shown.                                           *)
Shift ==
  [i \in 0..15 |->
     IF counter = 0 /\ i >= 8 THEN FetchedPixel(i - 8)
     ELSE IF i = 15 THEN Unset ELSE shifters[i + 1]]

Fetch ==
  IF Fetching
  THEN /\ shifters' = Shift
       /\ ntable_byte' =
            IF counter = 1 THEN PPU_DATA_IN(Tile(active_vram_address)) ELSE ntable_byte
       /\ atable_bits' =
            IF counter = 3 THEN PPU_DATA_IN(Quadrant(active_vram_address)) ELSE atable_bits
       /\ ptable_data_temp' =
            [plane \in {0, 1} |->
               IF counter = 5 + 2 * plane
               THEN PPU_DATA_IN(PatternRow(ntable_byte, active_vram_address))
               ELSE ptable_data_temp[plane]]
  ELSE UNCHANGED fetchVars

-----------------------------------------------------------------------------
(* Sensitivity variant of Advance: the line is one cycle too long.            *)
AdvanceLong ==
  /\ cycle' = IF cycle > cycle_count THEN 0 ELSE cycle + 1
  /\ scanline' = IF cycle <= cycle_count THEN scanline
                 ELSE IF scanline = scanline_count THEN 0 ELSE scanline + 1

Advance ==
  /\ cycle' = IF cycle = cycle_count THEN 0 ELSE cycle + 1
  /\ scanline' = IF cycle < cycle_count THEN scanline
                 ELSE IF scanline = scanline_count THEN 0 ELSE scanline + 1

Dot == Advance /\ UpdateAddress /\ Strobe /\ Fetch

NoWrite ==
  /\ Dot
  /\ load' = FALSE
  /\ UNCHANGED <<render_enable, temp_vram_address, fine_x>>

(* $2000, $2005 and the first write of $2006: any time, also between a        *)
(* copy and the next.                                                           *)
WriteScroll ==
  /\ Dot
  /\ temp_vram_address' \in Scrolls
  /\ fine_x' \in FineX
  /\ load' = FALSE
  /\ UNCHANGED render_enable

(* The second write of $2006, timed by the program to be served when the       *)
(* background is not being fetched.                                             *)
LoadAllowed ==
  ~render_enable \/ ~OnPicture \/ cycle \in HCopy..(Prefetch - 1)

WriteAddress ==
  /\ Dot
  /\ temp_vram_address' \in Scrolls
  /\ load' = TRUE
  /\ UNCHANGED <<render_enable, fine_x>>
  /\ LoadAllowed'

(* $2001, in vertical blanking. *)
WriteMask ==
  /\ Dot
  /\ ~OnPicture
  /\ render_enable' = ~render_enable
  /\ load' = FALSE
  /\ UNCHANGED <<temp_vram_address, fine_x>>

Next == NoWrite \/ WriteScroll \/ WriteAddress \/ WriteMask

Spec == Init /\ [][Next]_vars

-----------------------------------------------------------------------------
(* The memory cells and the registers that hold what was read from them. *)
TileNames == {0, 1} \X {0, 1} \X (0..(Columns - 1)) \X (0..MaxRow)
Quadrants == {0, 1} \X {0, 1} \X (0..(Columns \div 2)) \X (0..(MaxRow \div 2))
Name == TileNames \cup {Unset}
PatternRows == (Name \X (0..(FineRows - 1))) \cup {Unset}
Pixel ==
  [low : PatternRows, high : PatternRows, bits : Quadrants \cup {Unset}, x : 0..7]

TypeOK ==
  /\ cycle \in 0..cycle_count
  /\ scanline \in 0..scanline_count
  /\ render_enable \in BOOLEAN
  /\ temp_vram_address \in Scrolls
  /\ fine_x \in FineX
  /\ load \in BOOLEAN
  /\ active_vram_address \in loopy_reg
  /\ PPU_READ \in BOOLEAN
  /\ ntable_byte \in Name
  /\ atable_bits \in Quadrants \cup {Unset}
  /\ ptable_data_temp \in [{0, 1} -> PatternRows]
  /\ shifters \in [0..15 -> Pixel \cup {Unset}]

-----------------------------------------------------------------------------
(* The two nametables side by side are one row of columns. *)
Column(v) == v.coarse_x + IF v.nametable_x = 0 THEN 0 ELSE Columns
AtColumn(v, c) == [v EXCEPT !.nametable_x = c \div Columns, !.coarse_x = c % Columns]
Setting(t) == [x |-> Column(t), y |-> <<t.nametable_y, t.coarse_y * FineRows + t.fine_y>>]

(* How far v is past the left edge of the line: the columns fetched for it. *)
Fetched ==
  IF cycle \in 1..HCopy THEN 2 + (cycle - 1) \div 8
  ELSE IF cycle \in (HCopy + 1)..(Prefetch + 7) THEN 0
  ELSE IF cycle \in (Prefetch + 8)..(Prefetch + 15) THEN 1
  ELSE 2

Origin ==
  LET column == Column(active_vram_address)
  IN  IF column >= Fetched THEN column - Fetched ELSE column + 2 * Columns - Fetched

OriginKnown ==
  render_enable /\ (scanline < Lines \/ (scanline = scanline_count /\ cycle > HCopy))
RowKnown ==
  render_enable /\ (scanline < Lines \/ (scanline = scanline_count /\ cycle > VcopyLast))

P == INSTANCE Picture WITH
  PageRows <- (LastRow + 1) * FineRows,
  RowLimit <- (MaxRow + 1) * FineRows,
  Scroll <- {Setting(t) : t \in Scrolls},
  Unknown <- Unset,
  scroll <- Setting(temp_vram_address),
  origin <- IF OriginKnown THEN Origin ELSE Unset,
  row <- IF RowKnown THEN Setting(active_vram_address).y ELSE Unset

(* The renderer's increments and copies of v, and the loads that take their    *)
(* place, move the picture as the scroll registers promise: each line starts    *)
(* at the column set when the line before it ended, each row follows the one    *)
(* above across the pages, and settings made in between wait for their copy.    *)
ImplementsPicture == P!Spec

(* While a line is drawn, the pixel that fine_x selects comes from the tile,    *)
(* row and palette quadrant at its distance from the origin, both bit planes    *)
(* alike, wherever fine_x is changed.  The first cycle of a line moves the      *)
(* shifters without a new tile behind them, so that the first pixel of the      *)
(* second tile is shown twice and the rest of the line comes one cycle late.    *)
PixelsInPlace ==
  OriginKnown /\ scanline < Lines /\ cycle \in 1..LineEnd =>
    LET ahead == fine_x + cycle - 1
        place == IF ahead > 8 THEN ahead - 1 ELSE ahead
        v == AtColumn(active_vram_address, (Origin + place \div 8) % (2 * Columns))
    IN  shifters[fine_x] =
          [low |-> PatternRow(Tile(v), v), high |-> PatternRow(Tile(v), v),
           bits |-> Quadrant(v), x |-> place % 8]
=============================================================================
