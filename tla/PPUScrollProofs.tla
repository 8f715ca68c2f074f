--------------------------- MODULE PPUScrollProofs ---------------------------
(***************************************************************************)
(* Proofs about PPUScroll for every geometry of lines, frames and tiles.     *)
(***************************************************************************)
EXTENDS PPUScroll, TLAPS

(* A load that is waiting is served where nothing else moves v. *)
LoadTimed == load => LoadAllowed

Inv == TypeOK /\ LoadTimed

-----------------------------------------------------------------------------
(* Facts about the geometry. *)

LEMMA Timing ==
  /\ Tiles \in Nat /\ Tiles > 0 /\ LineEnd \in Nat /\ LineEnd = 8 * Tiles
  /\ HCopy = LineEnd + 1
  /\ Prefetch \in Nat /\ cycle_count \in Nat /\ Prefetch % 8 = 1
  /\ VcopyFirst \in Nat /\ VcopyLast \in Nat
  /\ HCopy < VcopyFirst /\ VcopyFirst <= VcopyLast /\ VcopyLast < Prefetch
  /\ Prefetch + 16 <= cycle_count
  /\ Lines \in Nat /\ Lines > 0 /\ scanline_count \in Nat /\ scanline_count > Lines
BY TimingAssumption DEF LineEnd, HCopy

LEMMA World ==
  /\ Columns \in Nat /\ Columns > 0 /\ Tiles + 2 <= 2 * Columns
  /\ LastRow \in Nat /\ MaxRow \in Nat /\ LastRow < MaxRow
  /\ FineRows \in Nat /\ FineRows > 0
  /\ Scrolls \subseteq loopy_reg
BY WorldAssumption

LEMMA SetTypes ==
  ASSUME NEW t \in Scrolls
  PROVE  t \in loopy_reg
BY WorldAssumption

-----------------------------------------------------------------------------
(* Type correctness. *)

LEMMA AdvanceType ==
  ASSUME TypeOK, Advance
  PROVE  cycle' \in 0..cycle_count /\ scanline' \in 0..scanline_count
BY Timing DEF TypeOK, Advance

LEMMA HorizontalType ==
  ASSUME NEW v \in loopy_reg, NEW t \in loopy_reg
  PROVE  Horizontal(v, t) \in loopy_reg
<1>1. HorizontalIncrement(v) \in loopy_reg
  <2>1. CASE v.coarse_x = Columns - 1
    <3>1. 1 - v.nametable_x \in {0, 1} /\ 0 \in 0..(Columns - 1)
      BY World DEF loopy_reg
    <3>2. QED
      BY <2>1, <3>1 DEF HorizontalIncrement, loopy_reg
  <2>2. CASE v.coarse_x # Columns - 1
    <3>1. v.coarse_x + 1 \in 0..(Columns - 1)
      BY <2>2, World DEF loopy_reg
    <3>2. QED
      BY <2>2, <3>1 DEF HorizontalIncrement, loopy_reg
  <2>3. QED
    BY <2>1, <2>2
<1>2. HorizontalCopy(v, t) \in loopy_reg
  BY DEF HorizontalCopy, loopy_reg
<1>3. QED
  BY <1>1, <1>2 DEF Horizontal

LEMMA VerticalType ==
  ASSUME NEW v \in loopy_reg, NEW t \in loopy_reg
  PROVE  Vertical(v, t) \in loopy_reg
<1>1. VerticalIncrement(v) \in loopy_reg
  <2>1. CASE v.fine_y # FineRows - 1
    <3>1. v.fine_y + 1 \in 0..(FineRows - 1)
      BY <2>1, World DEF loopy_reg
    <3>2. QED
      BY <2>1, <3>1 DEF VerticalIncrement, loopy_reg
  <2>2. CASE v.fine_y = FineRows - 1
    <3>1. /\ 1 - v.nametable_y \in {0, 1} /\ 0 \in 0..MaxRow /\ 0 \in 0..(FineRows - 1)
          /\ v.coarse_y # MaxRow => v.coarse_y + 1 \in 0..MaxRow
      BY World DEF loopy_reg
    <3>2. QED
      BY <2>2, <3>1 DEF VerticalIncrement, loopy_reg
  <2>3. QED
    BY <2>1, <2>2
<1>2. VerticalCopy(v, t) \in loopy_reg
  BY DEF VerticalCopy, loopy_reg
<1>3. QED
  BY <1>1, <1>2 DEF Vertical

LEMMA AddressType ==
  ASSUME TypeOK, UpdateAddress
  PROVE  active_vram_address' \in loopy_reg
<1>1. temp_vram_address \in loopy_reg /\ active_vram_address \in loopy_reg
  BY SetTypes DEF TypeOK
<1>2. QED
  BY <1>1, HorizontalType, VerticalType DEF UpdateAddress

LEMMA FetchType ==
  ASSUME TypeOK, Fetch
  PROVE  /\ ntable_byte' \in Name
         /\ atable_bits' \in Quadrants \cup {Unset}
         /\ ptable_data_temp' \in [{0, 1} -> PatternRows]
         /\ shifters' \in [0..15 -> Pixel \cup {Unset}]
<1>1. CASE ~Fetching
  BY <1>1 DEF Fetch, fetchVars, TypeOK
<1>2. CASE Fetching
  <2>1. active_vram_address \in loopy_reg
    BY DEF TypeOK
  <2>2. Tile(active_vram_address) \in TileNames
    BY <2>1 DEF Tile, TileNames, loopy_reg
  <2>3. Quadrant(active_vram_address) \in Quadrants
    BY <2>1, World DEF Quadrant, Quadrants, loopy_reg
  <2>4. PatternRow(ntable_byte, active_vram_address) \in PatternRows
    BY <2>1 DEF PatternRow, PatternRows, TypeOK, loopy_reg
  <2>5. \A k \in 0..7 : FetchedPixel(k) \in Pixel
    BY DEF FetchedPixel, Pixel, TypeOK
  <2>6. shifters' \in [0..15 -> Pixel \cup {Unset}]
    <3>1. shifters' = Shift
      BY <1>2 DEF Fetch
    <3>2. \A i \in 0..15 : i >= 8 => i - 8 \in 0..7
      OBVIOUS
    <3>3. \A i \in 0..15 : i # 15 => shifters[i + 1] \in Pixel \cup {Unset}
      BY DEF TypeOK
    <3>4. QED
      BY <2>5, <3>1, <3>2, <3>3 DEF Shift
  <2>7. ntable_byte' \in Name /\ atable_bits' \in Quadrants \cup {Unset}
    BY <1>2, <2>2, <2>3 DEF Fetch, PPU_DATA_IN, TypeOK, Name
  <2>8. ptable_data_temp' \in [{0, 1} -> PatternRows]
    <3>1. PPU_DATA_IN(PatternRow(ntable_byte, active_vram_address)) \in PatternRows
      BY <2>4 DEF PPU_DATA_IN, PatternRows
    <3>2. QED
      BY <1>2, <3>1 DEF Fetch, TypeOK
  <2>9. QED
    BY <2>6, <2>7, <2>8
<1>3. QED
  BY <1>1, <1>2

LEMMA InitInv == Init => Inv
<1> SUFFICES ASSUME Init PROVE Inv
  OBVIOUS
<1>1. active_vram_address \in loopy_reg
  BY World DEF Init, loopy_reg
<1>2. shifters \in [0..15 -> Pixel \cup {Unset}]
  BY DEF Init
<1>3. cycle \in 0..cycle_count /\ scanline \in 0..scanline_count
  BY Timing DEF Init
<1>4. ptable_data_temp \in [{0, 1} -> PatternRows]
  BY DEF Init, PatternRows
<1>5. ntable_byte \in Name /\ atable_bits \in Quadrants \cup {Unset}
  BY DEF Init, Name
<1>6. TypeOK
  BY <1>1, <1>2, <1>3, <1>4, <1>5 DEF Init, TypeOK
<1>7. QED
  BY <1>6 DEF Init, Inv, LoadTimed

LEMMA NextInv == Inv /\ [Next]_vars => Inv'
<1> SUFFICES ASSUME Inv, [Next]_vars PROVE Inv'
  OBVIOUS
<1>0. TypeOK
  BY DEF Inv
<1>1. CASE UNCHANGED vars
  BY <1>1 DEF vars, fetchVars, Inv, TypeOK, LoadTimed, LoadAllowed, OnPicture
<1>2. CASE Next
  <2>1. Dot
    BY <1>2 DEF Next, NoWrite, WriteScroll, WriteAddress, WriteMask
  <2>2. /\ render_enable' \in BOOLEAN /\ load' \in BOOLEAN
        /\ temp_vram_address' \in Scrolls /\ fine_x' \in FineX
    BY <1>0, <1>2 DEF Next, NoWrite, WriteScroll, WriteAddress, WriteMask, TypeOK
  <2>3. cycle' \in 0..cycle_count /\ scanline' \in 0..scanline_count
    BY <1>0, <2>1, AdvanceType DEF Dot
  <2>4. active_vram_address' \in loopy_reg
    BY <1>0, <2>1, AddressType DEF Dot
  <2>5. TypeOK'
    BY <1>0, <2>1, <2>2, <2>3, <2>4, FetchType DEF Dot, Strobe, TypeOK
  <2>6. LoadTimed'
    BY <1>2 DEF Next, NoWrite, WriteScroll, WriteAddress, WriteMask, LoadTimed
  <2>7. QED
    BY <2>5, <2>6 DEF Inv
<1>3. QED
  BY <1>1, <1>2

(* All registers keep their ranges; in particular coarse_x, coarse_y and        *)
(* fine_y never leave the nametables and the tile, wherever increments, copies   *)
(* and loads meet.                                                                *)
THEOREM TypeCorrect == Spec => []TypeOK
<1>1. Inv => TypeOK
  BY DEF Inv
<1>2. QED
  BY <1>1, InitInv, NextInv, PTL DEF Spec

-----------------------------------------------------------------------------
(* How the steps of v move the picture. *)

LEMMA ColumnType ==
  ASSUME NEW v \in loopy_reg
  PROVE  Column(v) \in Nat /\ Column(v) < 2 * Columns
BY World DEF Column, loopy_reg

LEMMA ColumnIncrement ==
  ASSUME NEW v \in loopy_reg
  PROVE  Column(HorizontalIncrement(v)) =
           IF Column(v) = 2 * Columns - 1 THEN 0 ELSE Column(v) + 1
<1>1. CASE v.coarse_x = Columns - 1
  <2>1. HorizontalIncrement(v).coarse_x = 0
        /\ HorizontalIncrement(v).nametable_x = 1 - v.nametable_x
    BY <1>1 DEF HorizontalIncrement, loopy_reg
  <2>2. QED
    BY <1>1, <2>1, World DEF Column, loopy_reg
<1>2. CASE v.coarse_x # Columns - 1
  <2>1. HorizontalIncrement(v).coarse_x = v.coarse_x + 1
        /\ HorizontalIncrement(v).nametable_x = v.nametable_x
    BY <1>2 DEF HorizontalIncrement, loopy_reg
  <2>2. QED
    BY <1>2, <2>1, World DEF Column, loopy_reg
<1>3. QED
  BY <1>1, <1>2

LEMMA ColumnCopy ==
  ASSUME NEW v \in loopy_reg, NEW t \in loopy_reg
  PROVE  Column(HorizontalCopy(v, t)) = Column(t)
BY DEF HorizontalCopy, Column, loopy_reg

(* The vertical step leaves the column alone, the horizontal step the row. *)
LEMMA VerticalKeepsColumn ==
  ASSUME NEW v \in loopy_reg, NEW t \in loopy_reg
  PROVE  Column(Vertical(v, t)) = Column(v)
BY DEF Vertical, VerticalIncrement, VerticalCopy, Column, loopy_reg

Row(v) == <<v.nametable_y, v.coarse_y * FineRows + v.fine_y>>

LEMMA HorizontalKeepsRow ==
  ASSUME NEW v \in loopy_reg, NEW t \in loopy_reg
  PROVE  Row(Horizontal(v, t)) = Row(v)
BY DEF Horizontal, HorizontalIncrement, HorizontalCopy, Row, loopy_reg

(* A row of pixels is the last of its tiles only where the next begins. *)
LEMMA RowsOfTiles ==
  ASSUME NEW a \in Nat, NEW b \in Nat, NEW f \in 0..(FineRows - 1)
  PROVE  (a * FineRows + f = (b + 1) * FineRows - 1) <=> (a = b /\ f = FineRows - 1)
<1>1. (b + 1) * FineRows = b * FineRows + FineRows
  BY World
<1>2. CASE a = b
  BY <1>1, <1>2, World
<1>3. CASE a < b
  <2>1. PICK k \in Nat : b = a + 1 + k
    BY <1>3
  <2>2. b * FineRows = a * FineRows + FineRows + k * FineRows /\ k * FineRows >= 0
    BY <2>1, World
  <2>3. QED
    BY <1>1, <1>3, <2>2, World
<1>4. CASE a > b
  <2>1. PICK k \in Nat : a = b + 1 + k
    BY <1>4
  <2>2. a * FineRows = b * FineRows + FineRows + k * FineRows /\ k * FineRows >= 0
    BY <2>1, World
  <2>3. QED
    BY <1>1, <1>4, <2>2, World
<1>5. QED
  BY <1>2, <1>3, <1>4

LEMMA RowIncrement ==
  ASSUME NEW v \in loopy_reg
  PROVE  Row(VerticalIncrement(v)) =
           P!RowBelow(v.nametable_y, v.coarse_y * FineRows + v.fine_y)
<1> DEFINE y == v.coarse_y * FineRows + v.fine_y
<1>0. /\ v.coarse_y \in Nat /\ v.coarse_y <= MaxRow /\ v.fine_y \in 0..(FineRows - 1)
      /\ v.coarse_y * FineRows \in Nat
  BY World DEF loopy_reg
<1>a. \A b \in Nat :
        (y = (b + 1) * FineRows - 1) <=> (v.coarse_y = b /\ v.fine_y = FineRows - 1)
  BY <1>0, RowsOfTiles
<1>1. (y = (LastRow + 1) * FineRows - 1) <=> (v.coarse_y = LastRow /\ v.fine_y = FineRows - 1)
  BY <1>a, World
<1>2. (y = (MaxRow + 1) * FineRows - 1) <=> (v.coarse_y = MaxRow /\ v.fine_y = FineRows - 1)
  BY <1>a, World
<1>3. CASE v.fine_y # FineRows - 1
  <2>1. /\ VerticalIncrement(v).fine_y = v.fine_y + 1
        /\ VerticalIncrement(v).coarse_y = v.coarse_y
        /\ VerticalIncrement(v).nametable_y = v.nametable_y
    BY <1>3 DEF VerticalIncrement, loopy_reg
  <2>2. v.coarse_y * FineRows + (v.fine_y + 1) = y + 1
    BY <1>0
  <2>3. QED
    BY <1>1, <1>2, <1>3, <2>1, <2>2 DEF Row, P!RowBelow
<1>4. CASE v.fine_y = FineRows - 1 /\ v.coarse_y = LastRow
  <2>1. /\ VerticalIncrement(v).fine_y = 0
        /\ VerticalIncrement(v).coarse_y = 0
        /\ VerticalIncrement(v).nametable_y = 1 - v.nametable_y
    BY <1>4 DEF VerticalIncrement, loopy_reg
  <2>2. 0 * FineRows + 0 = 0
    BY World
  <2>3. QED
    BY <1>1, <1>4, <2>1, <2>2 DEF Row, P!RowBelow
<1>5. CASE v.fine_y = FineRows - 1 /\ v.coarse_y # LastRow /\ v.coarse_y = MaxRow
  <2>1. /\ VerticalIncrement(v).fine_y = 0
        /\ VerticalIncrement(v).coarse_y = 0
        /\ VerticalIncrement(v).nametable_y = v.nametable_y
    BY <1>5 DEF VerticalIncrement, loopy_reg
  <2>2. 0 * FineRows + 0 = 0
    BY World
  <2>3. QED
    BY <1>1, <1>2, <1>5, <2>1, <2>2 DEF Row, P!RowBelow
<1>6. CASE v.fine_y = FineRows - 1 /\ v.coarse_y # LastRow /\ v.coarse_y # MaxRow
  <2>1. /\ VerticalIncrement(v).fine_y = 0
        /\ VerticalIncrement(v).coarse_y = v.coarse_y + 1
        /\ VerticalIncrement(v).nametable_y = v.nametable_y
    BY <1>6 DEF VerticalIncrement, loopy_reg
  <2>2. (v.coarse_y + 1) * FineRows + 0 = y + 1
    BY <1>0, <1>6, World
  <2>3. QED
    BY <1>1, <1>2, <1>6, <2>1, <2>2 DEF Row, P!RowBelow
<1>7. QED
  BY <1>3, <1>4, <1>5, <1>6

LEMMA RowCopy ==
  ASSUME NEW v \in loopy_reg, NEW t \in loopy_reg
  PROVE  Row(VerticalCopy(v, t)) = Row(t)
<1>1. /\ VerticalCopy(v, t).fine_y = t.fine_y
      /\ VerticalCopy(v, t).coarse_y = t.coarse_y
      /\ VerticalCopy(v, t).nametable_y = t.nametable_y
  BY DEF VerticalCopy, loopy_reg
<1>2. QED
  BY <1>1 DEF Row

-----------------------------------------------------------------------------
(* Steps of the scroll model are steps of the picture. *)

(* What a step of the machine does, whichever write it carries. *)
LEMMA StepFacts ==
  ASSUME Inv, Next
  PROVE  /\ Dot
         /\ temp_vram_address' \in Scrolls /\ load' \in BOOLEAN
         /\ load' => LoadAllowed'
         /\ render_enable' \in BOOLEAN
         /\ render_enable' # render_enable => ~OnPicture
BY NextInv DEF Next, NoWrite, WriteScroll, WriteAddress, WriteMask, Inv, TypeOK, LoadTimed

(* The picture gets its origin from the horizontal copy, and has one before. *)
LEMMA OriginBefore ==
  ASSUME TypeOK, Advance, render_enable' # render_enable => ~OnPicture, OriginKnown'
  PROVE  /\ render_enable /\ OnPicture
         /\ cycle # HCopy => OriginKnown
         /\ cycle' = IF cycle = cycle_count THEN 0 ELSE cycle + 1
<1>1. /\ cycle \in 0..cycle_count /\ scanline \in 0..scanline_count
      /\ render_enable \in BOOLEAN
  BY DEF TypeOK
<1>2. cycle' = IF cycle = cycle_count THEN 0 ELSE cycle + 1
  BY DEF Advance
<1>3. OnPicture
  BY <1>1, Timing DEF Advance, OriginKnown, OnPicture
<1>4. render_enable
  BY <1>3 DEF OriginKnown
<1>5. cycle # HCopy => OriginKnown
  BY <1>1, <1>3, <1>4, Timing DEF Advance, OriginKnown, OnPicture
<1>6. QED
  BY <1>2, <1>3, <1>4, <1>5

(* Away from the copies the increments of v are those Fetched counts. *)
LEMMA FetchedStep ==
  ASSUME TypeOK, Advance, render_enable, OnPicture, cycle # HCopy
  PROVE  Fetched' = IF ppu_hinc_vram_request THEN Fetched + 1 ELSE Fetched
<1>1. cycle \in 0..cycle_count /\ cycle' = IF cycle = cycle_count THEN 0 ELSE cycle + 1
  BY DEF TypeOK, Advance
<1>2. ppu_hinc_vram_request <=>
        cycle \in 1..LineEnd \cup Prefetch..(Prefetch + 16) /\ (cycle + 7) % 8 = 7
  BY <1>1, Timing DEF ppu_hinc_vram_request, Fetching, counter
<1>3. CASE cycle = 0 \/ cycle = cycle_count
  BY <1>1, <1>2, <1>3, Timing DEF Fetched
<1>4. CASE cycle \in 1..LineEnd
  <2>1. cycle' = cycle + 1 /\ Fetched' = 2 + cycle \div 8
    BY <1>1, <1>4, Timing DEF Fetched
  <2>2. Fetched = 2 + (cycle - 1) \div 8
    BY <1>4, Timing DEF Fetched
  <2>3. QED
    BY <1>2, <1>4, <2>1, <2>2, Timing
<1>5. CASE cycle \in (HCopy + 1)..(cycle_count - 1)
  BY <1>1, <1>2, <1>5, Timing DEF Fetched
<1>6. QED
  BY <1>1, <1>3, <1>4, <1>5, Timing

LEMMA Eighths ==
  ASSUME NEW c \in 1..HCopy
  PROVE  (c - 1) \div 8 \in Nat /\ (c - 1) \div 8 <= Tiles
BY Timing

LEMMA FetchedType ==
  ASSUME TypeOK
  PROVE  Fetched \in Nat /\ Fetched <= Tiles + 2
<1>1. cycle \in 0..cycle_count
  BY DEF TypeOK
<1>2. cycle \in 1..HCopy => (cycle - 1) \div 8 \in Nat /\ (cycle - 1) \div 8 <= Tiles
  BY Eighths
<1>3. QED
  BY <1>1, <1>2, Timing DEF Fetched

LEMMA OriginStep ==
  ASSUME Inv, Next
  PROVE  (IF OriginKnown THEN Origin ELSE Unset)' = IF P!OriginKnown' THEN P!NextOrigin ELSE Unset
<1> DEFINE v == active_vram_address
           t == temp_vram_address
           w == Horizontal(v, t)
<1>1. /\ Advance /\ UpdateAddress /\ TypeOK /\ LoadTimed
      /\ render_enable' # render_enable => ~OnPicture
  BY StepFacts DEF Dot, Inv
<1>2. v \in loopy_reg /\ t \in loopy_reg /\ cycle \in 0..cycle_count /\ load \in BOOLEAN
  BY <1>1, SetTypes DEF TypeOK
<1>3. P!OriginKnown' <=> OriginKnown'
  BY DEF P!OriginKnown, OriginKnown, HCopy
<1> SUFFICES ASSUME OriginKnown' PROVE Origin' = P!NextOrigin
  BY <1>3
<1>4. render_enable /\ OnPicture /\ (cycle # HCopy => OriginKnown)
      /\ cycle' = IF cycle = cycle_count THEN 0 ELSE cycle + 1
  BY <1>1, OriginBefore
<1>5. Column(t) \in Nat /\ Column(t) < 2 * Columns /\ Column(v) \in Nat /\ Column(v) < 2 * Columns
  BY <1>2, ColumnType
<1>6. CASE load
  <2>1. cycle \in HCopy..(Prefetch - 1)
    BY <1>1, <1>4, <1>6 DEF LoadTimed, LoadAllowed
  <2>2. Fetched' = 0
    BY <1>4, <2>1, Timing DEF Fetched
  <2>3. v' = t
    BY <1>1, <1>6 DEF UpdateAddress
  <2>4. Origin' = Column(t)
    BY <1>5, <2>2, <2>3 DEF Origin
  <2>5. QED
    BY <1>6, <2>4 DEF P!NextOrigin, Setting
<1>7. CASE ~load
  <2>1. v' = Vertical(w, t) /\ w \in loopy_reg
    BY <1>1, <1>2, <1>7, HorizontalType DEF UpdateAddress
  <2>2. Column(v)' = Column(w)
    BY <1>2, <2>1, VerticalKeepsColumn
  <2>3. CASE cycle = HCopy
    <3>1. ~ppu_hinc_vram_request /\ ppu_hcopy_vram_request
      BY <1>4, <2>3, Timing DEF ppu_hinc_vram_request, ppu_hcopy_vram_request, Fetching
    <3>2. Column(w) = Column(t)
      BY <1>2, <3>1, ColumnCopy DEF Horizontal
    <3>3. Fetched' = 0
      BY <1>4, <2>3, Timing DEF Fetched
    <3>4. Origin' = Column(t)
      BY <1>5, <2>2, <3>2, <3>3 DEF Origin
    <3>5. QED
      BY <2>3, <3>4 DEF P!NextOrigin, Setting, HCopy
  <2>4. CASE cycle # HCopy
    <3>1. ~ppu_hcopy_vram_request
      BY <2>4 DEF ppu_hcopy_vram_request
    <3>2. Column(w) =
            IF ppu_hinc_vram_request
            THEN IF Column(v) = 2 * Columns - 1 THEN 0 ELSE Column(v) + 1
            ELSE Column(v)
      BY <1>2, <3>1, ColumnIncrement DEF Horizontal
    <3>3. Fetched' = IF ppu_hinc_vram_request THEN Fetched + 1 ELSE Fetched
      BY <1>1, <1>4, <2>4, FetchedStep
    <3>4. /\ Fetched \in Nat /\ Fetched <= Tiles + 2
          /\ Fetched' \in Nat /\ Fetched' <= Tiles + 2
      <4>1. cycle' \in 0..cycle_count
        BY NextInv DEF Inv, TypeOK
      <4>3. Fetched' \in Nat /\ Fetched' <= Tiles + 2
        <5>1. CASE cycle' \in 1..HCopy
          <6>1. Fetched' = 2 + (cycle' - 1) \div 8
            BY <5>1 DEF Fetched, HCopy, LineEnd
          <6>2. PICK n \in Nat : n = (cycle' - 1) \div 8 /\ n <= Tiles
            BY <5>1, Eighths
          <6>3. Fetched' = 2 + n
            BY <6>1, <6>2
          <6>4. QED
            BY <6>2, <6>3, Timing
        <5>2. CASE cycle' \notin 1..HCopy
          <6>1. Fetched' \in {0, 1, 2}
            BY <5>2 DEF Fetched, HCopy, LineEnd
          <6>2. QED
            BY <6>1, Timing
        <5>3. QED
          BY <5>1, <5>2
      <4>4. QED
        BY <1>1, <4>3, FetchedType
    <3>5. Origin' = IF Column(w) >= Fetched' THEN Column(w) - Fetched'
                    ELSE Column(w) + 2 * Columns - Fetched'
      BY <2>2 DEF Origin
    <3>6. Origin' = Origin
      BY <1>5, <3>2, <3>3, <3>4, <3>5, World, Timing DEF Origin
    <3>7. QED
      BY <1>4, <1>7, <2>4, <3>6 DEF P!NextOrigin, HCopy
  <2>5. QED
    BY <2>3, <2>4
<1>8. QED
  BY <1>2, <1>6, <1>7

LEMMA RowStep ==
  ASSUME Inv, Next
  PROVE  (IF RowKnown THEN Setting(active_vram_address).y ELSE Unset)' =
           IF P!RowKnown' THEN P!NextRow ELSE Unset
<1> DEFINE v == active_vram_address
           t == temp_vram_address
           w == Horizontal(v, t)
<1>1. /\ Advance /\ UpdateAddress /\ TypeOK /\ LoadTimed
      /\ render_enable' # render_enable => ~OnPicture
  BY StepFacts DEF Dot, Inv
<1>2. v \in loopy_reg /\ t \in loopy_reg /\ w \in loopy_reg
      /\ cycle \in 0..cycle_count /\ load \in BOOLEAN
  BY <1>1, SetTypes, HorizontalType DEF TypeOK
<1>3. P!RowKnown' <=> RowKnown'
  BY DEF P!RowKnown, RowKnown
<1>4. \A u : Setting(u).y = Row(u)
  BY DEF Setting, Row
<1> SUFFICES ASSUME RowKnown' PROVE Row(v)' = P!NextRow
  BY <1>3, <1>4
<1>5. OriginKnown'
  <2>1. cycle' \in Nat
    BY NextInv, Timing DEF Inv, TypeOK
  <2>2. QED
    BY <2>1, Timing DEF RowKnown, OriginKnown, HCopy, LineEnd
<1>6. render_enable /\ OnPicture /\ cycle' = IF cycle = cycle_count THEN 0 ELSE cycle + 1
  BY <1>1, <1>5, OriginBefore
<1>7. scanline = scanline_count => cycle >= VcopyLast
  BY <1>1, <1>2, <1>6, Timing DEF Advance, RowKnown
<1>8. ~(scanline = scanline_count /\ cycle = VcopyLast) => RowKnown
  BY <1>2, <1>6, <1>7, Timing DEF RowKnown, OnPicture
<1>9. CASE load
  <2>1. v' = t
    BY <1>1, <1>9 DEF UpdateAddress
  <2>2. QED
    BY <1>4, <1>9, <2>1 DEF P!NextRow, Row
<1>10. CASE ~load
  <2>1. v' = Vertical(w, t)
    BY <1>1, <1>10 DEF UpdateAddress
  <2>2. Row(w) = Row(v)
    BY <1>2, HorizontalKeepsRow
  <2>3. CASE scanline = scanline_count /\ cycle = VcopyLast
    <3>1. ~ppu_vinc_vram_request /\ ppu_vcopy_vram_request
      BY <1>6, <2>3, Timing DEF ppu_vinc_vram_request, ppu_vcopy_vram_request
    <3>2. Row(v)' = Row(t)
      BY <1>2, <2>1, <3>1, RowCopy DEF Vertical, Row
    <3>3. QED
      BY <1>4, <2>3, <3>2 DEF P!NextRow
  <2>4. CASE ~(scanline = scanline_count /\ cycle = VcopyLast) /\ cycle = LineEnd
    <3>1. ppu_vinc_vram_request
      BY <1>6, <2>4, Timing DEF ppu_vinc_vram_request, Fetching
    <3>2. v' = VerticalIncrement(w)
      BY <2>1, <3>1 DEF Vertical
    <3>3. Row(v)' = P!RowBelow(w.nametable_y, w.coarse_y * FineRows + w.fine_y)
      BY <1>2, <3>2, RowIncrement DEF Row
    <3>4. /\ w.nametable_y = v.nametable_y
          /\ w.coarse_y * FineRows + w.fine_y = v.coarse_y * FineRows + v.fine_y
      BY <2>2 DEF Row
    <3>5. QED
      BY <1>4, <1>8, <1>10, <2>4, <3>3, <3>4 DEF P!NextRow, Row
  <2>5. CASE ~(scanline = scanline_count /\ cycle = VcopyLast) /\ cycle # LineEnd
    <3>1. ~ppu_vinc_vram_request
      BY <2>5 DEF ppu_vinc_vram_request
    <3>2. ~ppu_vcopy_vram_request
      BY <1>2, <1>7, <2>5, Timing DEF ppu_vcopy_vram_request
    <3>3. Row(v)' = Row(v)
      BY <2>1, <2>2, <3>1, <3>2 DEF Vertical, Row
    <3>4. QED
      BY <1>4, <1>8, <1>10, <2>5, <3>3 DEF P!NextRow
  <2>6. QED
    BY <2>3, <2>4, <2>5
<1>11. QED
  BY <1>2, <1>9, <1>10

LEMMA StepIsDot ==
  ASSUME Inv, Next
  PROVE  P!Dot
<1>1. /\ Advance
      /\ temp_vram_address' \in Scrolls
      /\ load' \in BOOLEAN
      /\ load' => LoadAllowed'
      /\ render_enable' \in BOOLEAN
      /\ render_enable' # render_enable => ~OnPicture
  BY StepFacts DEF Dot
<1>2. scanline \in 0..scanline_count /\ scanline' \in 0..scanline_count
  BY NextInv DEF Inv, TypeOK
<1>3. /\ ~OnPicture => scanline \in Lines..(scanline_count - 1)
      /\ ~OnPicture' => scanline' \in Lines..(scanline_count - 1)
  BY <1>2, Timing DEF OnPicture
<1>4. load' => P!LoadAllowed'
  <2>1. CASE ~render_enable'
    BY <2>1 DEF P!LoadAllowed
  <2>2. CASE scanline' \in Lines..(scanline_count - 1)
    BY <2>2 DEF P!LoadAllowed
  <2>3. CASE cycle' \in HCopy..(Prefetch - 1)
    BY <2>3 DEF P!LoadAllowed, HCopy, LineEnd
  <2>4. load' => ~render_enable' \/ ~OnPicture' \/ cycle' \in HCopy..(Prefetch - 1)
    BY <1>1 DEF LoadAllowed, HCopy, LineEnd
  <2>5. QED
    BY <1>3, <2>1, <2>2, <2>3, <2>4
<1>5. Setting(temp_vram_address)' \in {Setting(t) : t \in Scrolls}
  <2>1. Setting(temp_vram_address)' = Setting(temp_vram_address')
    BY DEF Setting, Column
  <2>2. \A u \in Scrolls : Setting(u) \in {Setting(t) : t \in Scrolls}
    OBVIOUS
  <2>3. Setting(temp_vram_address') \in {Setting(t) : t \in Scrolls}
    BY <1>1, <2>2
  <2>4. QED
    BY <2>1, <2>3
<1>6. QED
  BY <1>1, <1>3, <1>4, <1>5, OriginStep, RowStep DEF Advance, P!Dot

(* The address v, its increments, copies and loads implement the picture that    *)
(* the scroll registers promise, for every length of line and frame and every     *)
(* size of nametable and tile.                                                      *)
THEOREM ScrollImplementsPicture == Spec => ImplementsPicture
<1>1. Init => P!Init
  <2> SUFFICES ASSUME Init PROVE P!Init
    OBVIOUS
  <2>1. ~OriginKnown /\ ~RowKnown
    BY DEF Init, OriginKnown, RowKnown
  <2>2. Setting(temp_vram_address) \in {Setting(t) : t \in Scrolls}
    BY DEF Init
  <2>3. QED
    BY <2>1, <2>2 DEF Init, P!Init
<1>2. Inv /\ [Next]_vars => [P!Dot]_(P!vars)
  <2> SUFFICES ASSUME Inv, [Next]_vars PROVE [P!Dot]_(P!vars)
    OBVIOUS
  <2>1. CASE Next
    BY <2>1, StepIsDot
  <2>2. CASE UNCHANGED vars
    BY <2>2 DEF vars, P!vars, OriginKnown, RowKnown, Origin, Fetched, Setting
  <2>3. QED
    BY <2>1, <2>2
<1>3. QED
  BY <1>1, <1>2, InitInv, NextInv, PTL DEF Spec, ImplementsPicture, P!Spec

-----------------------------------------------------------------------------
(* The pixels.  TileAt(n) is the address of tile n of the line, at the row of v. *)
TileAt(n) == AtColumn(active_vram_address, (Origin + n) % (2 * Columns))

TilePixel(w, k) ==
  [low |-> PatternRow(Tile(w), w), high |-> PatternRow(Tile(w), w),
   bits |-> Quadrant(w), x |-> k]

PixelOf(n, k) == TilePixel(TileAt(n), k)

(* The place in the line of what is ahead in the shifters: the first cycle of a  *)
(* line moves them without a new tile behind.                                   *)
PlaceOf(ahead) == IF ahead > 8 THEN ahead - 1 ELSE ahead

(* Fetching the tiles of this line, the first two of the next, or none.         *)
Drawing == cycle \in 1..LineEnd /\ scanline < Lines
Ahead == cycle \in Prefetch..(Prefetch + 15)
Waiting == cycle = 0 \/ cycle \in (Prefetch + 16)..cycle_count

(* The bus is driven wherever a byte is taken from it.                          *)
StrobeTimed ==
  render_enable /\ OnPicture /\ cycle \in 2..(Prefetch + 17) => PPU_READ

(* The bytes of a tile as they arrive, while v is at it ...                      *)
BytesFetched ==
  OriginKnown /\ (Drawing \/ Ahead) =>
    /\ counter \in 2..7 => ntable_byte = Tile(active_vram_address)
    /\ counter \in 4..7 => atable_bits = Quadrant(active_vram_address)
    /\ counter \in 6..7 =>
         ptable_data_temp[0] = PatternRow(Tile(active_vram_address), active_vram_address)

(* ... and all together, when v has left it.                                    *)
Assembled ==
  OriginKnown /\ (Waiting \/ (counter = 0 /\ (Drawing \/ cycle = Prefetch + 8))) =>
    \A k \in 0..7 : FetchedPixel(k) = PixelOf(Fetched - 1, k)

(* The first tile of a line moves through the shifters ahead of it, then both    *)
(* wait for its beginning.                                                     *)
FirstTile ==
  OriginKnown /\ cycle \in (Prefetch + 9)..(Prefetch + 16) =>
    \A i \in 0..15, k \in 0..7 :
      k + Prefetch + 17 = i + cycle => shifters[i] = PixelOf(0, k)

TwoTiles ==
  OriginKnown /\ (cycle = 0 \/ cycle > Prefetch + 16) =>
    \A k \in 0..7 : shifters[k] = PixelOf(0, k) /\ shifters[k + 8] = PixelOf(1, k)

(* While the line is drawn a place is lost every cycle and eight are won back    *)
(* with the next tile.                                                          *)
LineShown ==
  OriginKnown /\ Drawing =>
    \A i \in 0..(15 - ((cycle + 6) % 8)) :
      shifters[i] = PixelOf(PlaceOf(i + cycle - 1) \div 8, PlaceOf(i + cycle - 1) % 8)

PInv ==
  /\ Inv
  /\ StrobeTimed
  /\ BytesFetched
  /\ Assembled
  /\ FirstTile
  /\ TwoTiles
  /\ LineShown

(* Columns of the two nametables.                                               *)
LEMMA ColumnParts ==
  ASSUME NEW c \in Nat \ {0}, NEW x \in 0..(c - 1)
  PROVE  /\ x \div c = 0 /\ x % c = x
         /\ (x + c) \div c = 1 /\ (x + c) % c = x
<1>1. x \div c = 0 /\ x % c = x
  OBVIOUS
<1>2. (x + c) \div c = 1 /\ (x + c) % c = x
  OBVIOUS
<1> QED BY <1>1, <1>2

LEMMA AtOwnColumn ==
  ASSUME NEW v \in loopy_reg
  PROVE  AtColumn(v, Column(v)) = v
<1>1. v.coarse_x \in 0..(Columns - 1) /\ v.nametable_x \in {0, 1} /\ Columns \in Nat \ {0}
  BY World DEF loopy_reg
<1>2. Column(v) \div Columns = v.nametable_x /\ Column(v) % Columns = v.coarse_x
  <2>1. CASE v.nametable_x = 0
    <3>1. Column(v) = v.coarse_x
      BY <1>1, <2>1 DEF Column
    <3> QED BY <1>1, <2>1, <3>1, ColumnParts
  <2>2. CASE v.nametable_x = 1
    <3>1. Column(v) = v.coarse_x + Columns
      BY <2>2 DEF Column
    <3> QED BY <1>1, <2>2, <3>1, ColumnParts
  <2> QED BY <1>1, <2>1, <2>2
<1> QED BY <1>2 DEF AtColumn, loopy_reg

LEMMA VInPlace ==
  ASSUME TypeOK
  PROVE  TileAt(Fetched) = active_vram_address
<1> DEFINE c == Column(active_vram_address)
<1>1. active_vram_address \in loopy_reg
  BY DEF TypeOK
<1>2. c \in 0..(2 * Columns - 1) /\ 2 * Columns \in Nat \ {0}
  BY <1>1, ColumnType, World
<1>3. Fetched \in Nat /\ Fetched <= 2 * Columns
  BY FetchedType, World, Timing
<1>4. Origin + Fetched = c \/ Origin + Fetched = c + 2 * Columns
  BY <1>2, <1>3, World DEF Origin
<1>5. (Origin + Fetched) % (2 * Columns) = c
  <2> HIDE DEF c
  <2> QED BY <1>2, <1>4, ColumnParts
<1> QED BY <1>1, <1>5, AtOwnColumn DEF TileAt

-----------------------------------------------------------------------------
(* Between the copy of one line and the end of the next nothing moves the        *)
(* picture: v goes from tile to tile.                                           *)
Steady == cycle \in 0..(LineEnd - 1) \cup Prefetch..cycle_count

LEMMA PictureStays ==
  ASSUME Inv, Next, OriginKnown', Steady
  PROVE  /\ OriginKnown /\ render_enable /\ OnPicture
         /\ cycle \in Nat /\ cycle <= cycle_count
         /\ cycle' = IF cycle = cycle_count THEN 0 ELSE cycle + 1
         /\ cycle < LineEnd /\ cycle # 0 => scanline < Lines
         /\ cycle # cycle_count => scanline' = scanline
         /\ active_vram_address' = IF ppu_hinc_vram_request
                                   THEN HorizontalIncrement(active_vram_address)
                                   ELSE active_vram_address
         /\ Fetched' = IF ppu_hinc_vram_request THEN Fetched + 1 ELSE Fetched
         /\ \A n : TileAt(n)' = TileAt(n)
         /\ \A n, k : PixelOf(n, k)' = PixelOf(n, k)
<1> DEFINE v == active_vram_address
<1>1. /\ Advance /\ UpdateAddress /\ TypeOK /\ LoadTimed
      /\ render_enable' # render_enable => ~OnPicture
  BY StepFacts DEF Dot, Inv
<1>2. cycle \in Nat /\ cycle <= cycle_count /\ scanline \in Nat /\ v \in loopy_reg
  BY <1>1, Timing DEF TypeOK
<1>3. cycle # HCopy /\ cycle # LineEnd
  BY <1>2, Timing DEF Steady
<1>4. /\ render_enable /\ OnPicture /\ OriginKnown
      /\ cycle' = IF cycle = cycle_count THEN 0 ELSE cycle + 1
  BY <1>1, <1>3, OriginBefore
<1>5. /\ cycle < LineEnd /\ cycle # 0 => scanline < Lines
      /\ cycle # cycle_count => scanline' = scanline
      /\ scanline = scanline_count => cycle > HCopy
  BY <1>1, <1>2, <1>4, Timing DEF OriginKnown, Advance
<1>6. ~load
  BY <1>1, <1>2, <1>4, Timing DEF LoadTimed, LoadAllowed, Steady
<1>7. /\ ~ppu_vinc_vram_request /\ ~ppu_hcopy_vram_request
      /\ ~ppu_vcopy_vram_request
  BY <1>2, <1>3, <1>5, Timing
     DEF ppu_vinc_vram_request, ppu_hcopy_vram_request, ppu_vcopy_vram_request, Steady
<1>8. v' = IF ppu_hinc_vram_request THEN HorizontalIncrement(v) ELSE v
  BY <1>1, <1>6, <1>7 DEF UpdateAddress, Horizontal, Vertical
<1>9. Fetched' = IF ppu_hinc_vram_request THEN Fetched + 1 ELSE Fetched
  BY <1>1, <1>3, <1>4, FetchedStep
<1>10. Origin' = Origin
  <2>1. P!OriginKnown'
    BY DEF P!OriginKnown, OriginKnown, HCopy
  <2>2. P!NextOrigin = Origin
    BY <1>3, <1>4, <1>6 DEF P!NextOrigin, HCopy
  <2> QED BY <2>1, <2>2, OriginStep
<1>11. ASSUME NEW c
       PROVE  AtColumn(v', c) = AtColumn(v, c)
  <2>1. CASE v' = v
    BY <2>1
  <2>2. CASE v' = HorizontalIncrement(v)
    BY <1>2, <2>2 DEF HorizontalIncrement, AtColumn, loopy_reg
  <2> QED BY <1>8, <2>1, <2>2
<1>12. ASSUME NEW n
       PROVE  TileAt(n)' = TileAt(n)
  <2>1. TileAt(n)' = AtColumn(v', (Origin' + n) % (2 * Columns))
    BY DEF TileAt, AtColumn
  <2> QED BY <1>10, <1>11, <2>1 DEF TileAt
<1>13. ASSUME NEW n, NEW k
       PROVE  PixelOf(n, k)' = PixelOf(n, k)
  BY <1>12 DEF PixelOf, TilePixel, Tile, Quadrant, PatternRow
<1> QED BY <1>2, <1>4, <1>5, <1>8, <1>9, <1>12, <1>13

(* The eight cycles of a tile.                                                  *)
LEMMA Cycles ==
  ASSUME NEW c \in Nat
  PROVE  /\ (c + 7) % 8 \in 0..7 /\ (c + 6) % 8 \in 0..7
         /\ (c + 1 + 7) % 8 = IF (c + 7) % 8 = 7 THEN 0 ELSE ((c + 7) % 8) + 1
         /\ (c + 1 + 6) % 8 = (c + 7) % 8
         /\ (c + 6) % 8 = IF (c + 7) % 8 = 0 THEN 7 ELSE ((c + 7) % 8) - 1
         /\ (c + 7) % 8 = 0 /\ c > 0 => c = 8 * ((c - 1) \div 8) + 1
         /\ c = 0 => (c + 7) % 8 = 7
         /\ c = 1 => (c + 7) % 8 = 0
OBVIOUS

LEMMA CounterStep ==
  ASSUME cycle \in Nat, cycle' = cycle + 1
  PROVE  counter \in 0..7 /\ counter' = IF counter = 7 THEN 0 ELSE counter + 1
<1>1. counter' = (cycle + 1 + 7) % 8
  BY DEF counter
<1> QED BY <1>1, Cycles DEF counter

LEMMA PrefetchCycles ==
  ASSUME NEW c \in Nat, Prefetch <= c, c <= Prefetch + 16
  PROVE  (c + 7) % 8 = IF c <= Prefetch + 7 THEN c - Prefetch
                       ELSE IF c <= Prefetch + 15 THEN c - Prefetch - 8 ELSE 0
BY Timing

LEMMA StrobeStep ==
  ASSUME Inv, Next
  PROVE  StrobeTimed'
<1> SUFFICES ASSUME render_enable', OnPicture', cycle' \in 2..(Prefetch + 17)
             PROVE  PPU_READ'
  BY DEF StrobeTimed
<1>1. /\ Advance /\ Strobe /\ TypeOK
      /\ render_enable' # render_enable => ~OnPicture
  BY StepFacts DEF Dot, Inv
<1>2. cycle \in Nat /\ cycle <= cycle_count /\ render_enable \in BOOLEAN
  BY <1>1, Timing DEF TypeOK
<1>3. cycle \in 1..(Prefetch + 16) /\ scanline' = scanline
  BY <1>1, <1>2, Timing DEF Advance
<1>4. OnPicture
  BY <1>3 DEF OnPicture
<1>5. render_enable
  BY <1>1, <1>4
<1> QED BY <1>1, <1>3, <1>4, <1>5 DEF Strobe

(* A step that brings a byte.                                                   *)
LEMMA FetchCycle ==
  ASSUME Inv, StrobeTimed, Next, OriginKnown', Steady, Drawing \/ Ahead, counter # 0
  PROVE  Fetching /\ PPU_READ /\ Fetch
<1>1. /\ OriginKnown /\ render_enable /\ OnPicture /\ cycle \in Nat
  BY PictureStays
<1>2. cycle # 1
  BY DEF counter
<1>3. cycle \in 2..(Prefetch + 17) /\ cycle \in 1..LineEnd \cup Prefetch..(Prefetch + 16)
  BY <1>1, <1>2, Timing DEF Drawing, Ahead
<1> QED BY <1>1, <1>3, StepFacts DEF Fetching, StrobeTimed, Dot

LEMMA BytesStep ==
  ASSUME Inv, StrobeTimed, BytesFetched, Next
  PROVE  BytesFetched'
<1> DEFINE v == active_vram_address
<1> SUFFICES ASSUME OriginKnown', Drawing' \/ Ahead', counter' \in 2..7
             PROVE  /\ ntable_byte' = Tile(v)'
                    /\ counter' \in 4..7 => atable_bits' = Quadrant(v)'
                    /\ counter' \in 6..7 =>
                         ptable_data_temp'[0] = PatternRow(Tile(v), v)'
  BY DEF BytesFetched
<1>1. cycle \in Nat /\ cycle <= cycle_count /\ scanline \in Nat
      /\ cycle' = IF cycle = cycle_count THEN 0 ELSE cycle + 1
  BY StepFacts, Timing DEF Inv, TypeOK, Dot, Advance
<1>2. cycle' = cycle + 1
  BY <1>1, Timing DEF Drawing, Ahead
<1>3. counter \in 1..6 /\ counter' = counter + 1
  BY <1>1, <1>2, CounterStep
<1>4. cycle # 0 /\ cycle # Prefetch - 1
  BY <1>3, Timing DEF counter
<1>5. cycle \in 1..(LineEnd - 1) \/ cycle \in Prefetch..(Prefetch + 14)
  BY <1>1, <1>2, <1>4, Timing DEF Drawing, Ahead
<1>6. Steady
  BY <1>5, Timing DEF Steady
<1>7. Drawing \/ Ahead
  BY <1>5, <1>6, PictureStays, Timing DEF Drawing, Ahead
<1>8. Fetching /\ PPU_READ /\ Fetch
  BY <1>3, <1>6, <1>7, FetchCycle
<1>9. ~ppu_hinc_vram_request
  BY <1>3, <1>5, Timing DEF ppu_hinc_vram_request
<1>10. v' = v /\ OriginKnown
  BY <1>6, <1>9, PictureStays
<1>11. /\ counter \in 2..7 => ntable_byte = Tile(v)
       /\ counter \in 4..7 => atable_bits = Quadrant(v)
       /\ counter \in 6..7 => ptable_data_temp[0] = PatternRow(Tile(v), v)
  BY <1>7, <1>10 DEF BytesFetched
<1>12. /\ Tile(v)' = Tile(v) /\ Quadrant(v)' = Quadrant(v)
       /\ PatternRow(Tile(v), v)' = PatternRow(Tile(v), v)
  BY <1>10 DEF Tile, Quadrant, PatternRow
<1>13. ntable_byte' = Tile(v)
  BY <1>3, <1>8, <1>11 DEF Fetch, PPU_DATA_IN
<1>14. counter' \in 4..7 => atable_bits' = Quadrant(v)
  BY <1>3, <1>8, <1>11 DEF Fetch, PPU_DATA_IN
<1>15. counter' \in 6..7 => ptable_data_temp'[0] = PatternRow(Tile(v), v)
  <2>1. ptable_data_temp'[0] =
          IF counter = 5 THEN PPU_DATA_IN(PatternRow(ntable_byte, v)) ELSE ptable_data_temp[0]
    BY <1>8 DEF Fetch
  <2> QED BY <1>3, <1>8, <1>11, <2>1 DEF PPU_DATA_IN
<1> QED BY <1>12, <1>13, <1>14, <1>15

LEMMA PixelMoves ==
  ASSUME Inv, Next, OriginKnown', Steady, NEW n, n = Fetched' - 1, NEW k
  PROVE  PixelOf(Fetched - 1, k)' = PixelOf(n, k)
<1>1. PixelOf(Fetched - 1, k)' = PixelOf(n, k)'
  BY DEF PixelOf, TilePixel, TileAt, AtColumn
<1> QED BY <1>1, PictureStays

(* The last byte of a tile arrives and v goes on.                               *)
LEMMA TileComplete ==
  ASSUME Inv, StrobeTimed, BytesFetched, Next, OriginKnown', Steady,
         Drawing \/ Ahead, counter = 7,
         NEW k \in 0..7
  PROVE  FetchedPixel(k)' = PixelOf(Fetched - 1, k)'
<1> DEFINE v == active_vram_address
<1>1. Fetching /\ PPU_READ /\ Fetch
  BY FetchCycle
<1>2. ppu_hinc_vram_request
  BY <1>1 DEF ppu_hinc_vram_request
<1>3. OriginKnown /\ Fetched' = Fetched + 1
  BY <1>2, PictureStays
<1>4. /\ ntable_byte = Tile(v) /\ atable_bits = Quadrant(v)
      /\ ptable_data_temp[0] = PatternRow(Tile(v), v)
  BY <1>3 DEF BytesFetched
<1>5. /\ ptable_data_temp'[0] = ptable_data_temp[0]
      /\ ptable_data_temp'[1] = PatternRow(ntable_byte, v)
      /\ atable_bits' = atable_bits
  BY <1>1 DEF Fetch, PPU_DATA_IN
<1>6. FetchedPixel(k)' = TilePixel(v, k)
  BY <1>4, <1>5 DEF FetchedPixel, TilePixel
<1>7. TileAt(Fetched) = v /\ Fetched \in Nat
  BY VInPlace, FetchedType DEF Inv
<1>8. Fetched' - 1 = Fetched
  BY <1>3, <1>7
<1>9. PixelOf(Fetched - 1, k)' = PixelOf(Fetched, k)
  BY <1>8, PixelMoves
<1> QED BY <1>6, <1>7, <1>9 DEF PixelOf


(* A tile that is complete stays until it is in the shifters.                    *)
LEMMA TileHeld ==
  ASSUME Inv, Assembled, Next, OriginKnown', Waiting,
         NEW k \in 0..7
  PROVE  FetchedPixel(k)' = PixelOf(Fetched - 1, k)'
<1>1. Steady
  BY TimingAssumption DEF Waiting, Steady, LineEnd, HCopy
<1>2. OriginKnown /\ cycle \in Nat /\ cycle <= cycle_count
  BY <1>1, PictureStays
<1>3. Fetching => counter = 0
  <2>1. Fetching => cycle = Prefetch + 16
    BY <1>2, Timing DEF Waiting, Fetching
  <2> QED BY <1>2, <2>1, PrefetchCycles, Timing DEF counter
<1>4. ~ppu_hinc_vram_request
  BY <1>3, Timing DEF ppu_hinc_vram_request, Waiting
<1>5. Fetch
  BY StepFacts DEF Dot
<1>6. ptable_data_temp' = ptable_data_temp /\ atable_bits' = atable_bits
  <2>1. CASE Fetching
    <3>1. \A plane \in {0, 1} : ptable_data_temp'[plane] = ptable_data_temp[plane]
      BY <1>3, <1>5, <2>1 DEF Fetch
    <3>2. ptable_data_temp \in [{0, 1} -> PatternRows]
          /\ ptable_data_temp' \in [{0, 1} -> PatternRows]
      BY NextInv DEF Inv, TypeOK
    <3>3. atable_bits' = atable_bits
      BY <1>3, <1>5, <2>1 DEF Fetch
    <3> QED BY <3>1, <3>2, <3>3
  <2>2. CASE ~Fetching
    BY <1>5, <2>2 DEF Fetch, fetchVars
  <2> QED BY <2>1, <2>2
<1>7. FetchedPixel(k)' = FetchedPixel(k)
  BY <1>6 DEF FetchedPixel
<1>8. FetchedPixel(k) = PixelOf(Fetched - 1, k)
  BY <1>2 DEF Assembled
<1>9. PixelOf(Fetched - 1, k)' = PixelOf(Fetched - 1, k)
  <2>1. Fetched' = Fetched
    BY <1>1, <1>4, PictureStays
  <2> QED BY <1>1, <2>1, PixelMoves
<1> QED BY <1>7, <1>8, <1>9

LEMMA AssembledStep ==
  ASSUME Inv, StrobeTimed, BytesFetched, Assembled, Next
  PROVE  Assembled'
<1> SUFFICES ASSUME OriginKnown',
                    Waiting' \/ (counter' = 0 /\ (Drawing' \/ cycle' = Prefetch + 8)),
                    NEW k \in 0..7
             PROVE  FetchedPixel(k)' = PixelOf(Fetched - 1, k)'
  BY DEF Assembled
<1>1. cycle \in Nat /\ cycle <= cycle_count /\ scanline \in Nat
      /\ cycle' = IF cycle = cycle_count THEN 0 ELSE cycle + 1
  BY StepFacts, Timing DEF Inv, TypeOK, Dot, Advance
<1>2. CASE Waiting
  BY <1>2, TileHeld
<1>3. CASE ~Waiting
  <2>1. cycle' = cycle + 1 /\ cycle # 0 /\ cycle < Prefetch + 16
    BY <1>1, <1>3, Timing DEF Waiting
  <2>2. cycle' = Prefetch + 16 \/ (counter' = 0 /\ (Drawing' \/ cycle' = Prefetch + 8))
    BY <1>1, <2>1, Timing DEF Waiting
  <2>3. counter = 7
    <3>1. CASE cycle' = Prefetch + 16
      BY <1>1, <2>1, <3>1, PrefetchCycles, Timing DEF counter
    <3>2. CASE counter' = 0
      BY <1>1, <2>1, <3>2, CounterStep
    <3> QED BY <2>2, <3>1, <3>2
  <2>4. cycle \in 1..(LineEnd - 1) \/ cycle = Prefetch + 7 \/ cycle = Prefetch + 15
    BY <1>1, <2>1, <2>2, Timing DEF Drawing
  <2>5. Steady
    BY <2>4, Timing DEF Steady
  <2>6. Drawing \/ Ahead
    BY <2>4, <2>5, PictureStays, Timing DEF Drawing, Ahead
  <2> QED BY <2>3, <2>5, <2>6, TileComplete
<1> QED BY <1>2, <1>3

-----------------------------------------------------------------------------
(* The shifters.                                                                *)
LEMMA ShiftStep ==
  ASSUME Inv, Next
  PROVE  /\ Fetching =>
              /\ counter = 0 => \A k \in 0..7 : shifters'[k + 8] = FetchedPixel(k)
              /\ counter = 0 => \A i \in 0..7 : shifters'[i] = shifters[i + 1]
              /\ counter # 0 => \A i \in 0..14 : shifters'[i] = shifters[i + 1]
         /\ ~Fetching => shifters' = shifters
<1>1. Fetch
  BY StepFacts DEF Dot
<1>2. CASE Fetching
  <2>1. shifters' = Shift
    BY <1>1, <1>2 DEF Fetch
  <2>2. ASSUME counter = 0, NEW k \in 0..7
        PROVE  shifters'[k + 8] = FetchedPixel(k)
    <3>1. k + 8 \in 0..15 /\ k + 8 >= 8 /\ (k + 8) - 8 = k
      OBVIOUS
    <3> QED BY <2>1, <2>2, <3>1 DEF Shift
  <2>3. counter = 0 => \A i \in 0..7 : shifters'[i] = shifters[i + 1]
    BY <2>1 DEF Shift
  <2>4. counter # 0 => \A i \in 0..14 : shifters'[i] = shifters[i + 1]
    BY <2>1 DEF Shift
  <2> QED BY <1>2, <2>2, <2>3, <2>4
<1>3. CASE ~Fetching
  BY <1>1, <1>3 DEF Fetch, fetchVars
<1> QED BY <1>2, <1>3

LEMMA FirstTileStep ==
  ASSUME Inv, Assembled, FirstTile, Next
  PROVE  FirstTile'
<1> SUFFICES ASSUME OriginKnown', cycle' \in (Prefetch + 9)..(Prefetch + 16),
                    NEW i \in 0..15, NEW k \in 0..7, k + Prefetch + 17 = i + cycle'
             PROVE  shifters'[i] = PixelOf(0, k)'
  BY DEF FirstTile
<1>1. cycle \in Nat /\ cycle <= cycle_count
      /\ cycle' = IF cycle = cycle_count THEN 0 ELSE cycle + 1
  BY StepFacts, Timing DEF Inv, TypeOK, Dot, Advance
<1>2. cycle' = cycle + 1 /\ cycle \in (Prefetch + 8)..(Prefetch + 15)
  BY <1>1, Timing
<1>3. Steady
  BY <1>2, Timing DEF Steady
<1>4. OriginKnown /\ Fetching /\ PixelOf(0, k)' = PixelOf(0, k)
  BY <1>2, <1>3, PictureStays, Timing DEF Fetching
<1>5. CASE cycle = Prefetch + 8
  <2>1. counter = 0 /\ Fetched = 1
    BY <1>5, PrefetchCycles, Timing DEF counter, Fetched
  <2>2. FetchedPixel(k) = PixelOf(0, k)
    BY <1>4, <1>5, <2>1 DEF Assembled
  <2>3. i = k + 8
    BY <1>2, <1>5, Timing
  <2> QED BY <1>4, <2>1, <2>2, <2>3, ShiftStep
<1>6. CASE cycle # Prefetch + 8
  <2>1. counter # 0
    BY <1>2, <1>6, PrefetchCycles, Timing DEF counter
  <2>2. i \in 0..14 /\ i + 1 \in 0..15 /\ k + Prefetch + 17 = (i + 1) + cycle
        /\ cycle \in (Prefetch + 9)..(Prefetch + 16)
    BY <1>2, <1>6, Timing
  <2>3. shifters[i + 1] = PixelOf(0, k)
    BY <1>4, <2>2 DEF FirstTile
  <2> QED BY <1>4, <2>1, <2>2, <2>3, ShiftStep
<1> QED BY <1>5, <1>6

LEMMA TwoTilesStep ==
  ASSUME Inv, Assembled, FirstTile, TwoTiles, Next
  PROVE  TwoTiles'
<1> SUFFICES ASSUME OriginKnown', cycle' = 0 \/ cycle' > Prefetch + 16, NEW k \in 0..7
             PROVE  /\ shifters'[k] = PixelOf(0, k)'
                    /\ shifters'[k + 8] = PixelOf(1, k)'
  BY DEF TwoTiles
<1>1. cycle \in Nat /\ cycle <= cycle_count
      /\ cycle' = IF cycle = cycle_count THEN 0 ELSE cycle + 1
  BY StepFacts, Timing DEF Inv, TypeOK, Dot, Advance
<1>2. cycle \in (Prefetch + 16)..cycle_count
  BY <1>1, Timing
<1>3. Steady
  BY <1>2, Timing DEF Steady
<1>4. /\ OriginKnown /\ render_enable /\ OnPicture
      /\ PixelOf(0, k)' = PixelOf(0, k) /\ PixelOf(1, k)' = PixelOf(1, k)
  BY <1>3, PictureStays
<1>5. CASE cycle = Prefetch + 16
  <2>1. counter = 0 /\ Fetched = 2 /\ Fetching /\ Waiting
    BY <1>2, <1>4, <1>5, PrefetchCycles, Timing DEF counter, Fetched, Fetching, Waiting
  <2>2. FetchedPixel(k) = PixelOf(1, k)
    BY <1>4, <2>1 DEF Assembled
  <2>3. shifters[k + 1] = PixelOf(0, k)
    <3>1. k + Prefetch + 17 = (k + 1) + cycle /\ k + 1 \in 0..15
          /\ cycle \in (Prefetch + 9)..(Prefetch + 16)
      BY <1>5, Timing
    <3> QED BY <1>4, <3>1 DEF FirstTile
  <2> QED BY <1>4, <2>1, <2>2, <2>3, ShiftStep
<1>6. CASE cycle > Prefetch + 16
  <2>1. ~Fetching
    BY <1>6, Timing DEF Fetching
  <2>2. shifters[k] = PixelOf(0, k) /\ shifters[k + 8] = PixelOf(1, k)
    BY <1>4, <1>6 DEF TwoTiles
  <2> QED BY <1>4, <2>1, <2>2, ShiftStep
<1> QED BY <1>2, <1>5, <1>6, Timing


(* The place of what is shown, and the tile loaded behind it.                     *)
LEMMA Places ==
  ASSUME NEW c \in Nat, c > 0, (c + 7) % 8 = 0, NEW k \in 0..7
  PROVE  /\ PlaceOf(k + 8 + c) \div 8 = (c - 1) \div 8 + 1
         /\ PlaceOf(k + 8 + c) % 8 = k
<1>1. PICK m \in Nat : c = 8 * m + 1 /\ m = (c - 1) \div 8
  BY Cycles
<1>2. PlaceOf(k + 8 + c) = 8 * (m + 1) + k
  BY <1>1 DEF PlaceOf
<1>3. (8 * (m + 1) + k) \div 8 = m + 1 /\ (8 * (m + 1) + k) % 8 = k
  OBVIOUS
<1> QED BY <1>1, <1>2, <1>3

LEMMA LineStep ==
  ASSUME Inv, Assembled, TwoTiles, LineShown, Next
  PROVE  LineShown'
<1> DEFINE Shown(i) == PixelOf(PlaceOf(i + cycle - 1) \div 8, PlaceOf(i + cycle - 1) % 8)
<1> SUFFICES ASSUME OriginKnown', Drawing', NEW i \in 0..(15 - ((cycle' + 6) % 8))
             PROVE  shifters'[i] = Shown(i)'
  BY DEF LineShown
<1>1. cycle \in Nat /\ cycle <= cycle_count /\ scanline \in Nat
      /\ cycle' = IF cycle = cycle_count THEN 0 ELSE cycle + 1
  BY StepFacts, Timing DEF Inv, TypeOK, Dot, Advance
<1>2. cycle' = cycle + 1 /\ cycle \in 0..(LineEnd - 1)
  BY <1>1, Timing DEF Drawing
<1>3. Steady
  BY <1>2 DEF Steady
<1>4. OriginKnown /\ render_enable /\ OnPicture
  BY <1>3, PictureStays
<1>5. Shown(i)' = PixelOf(PlaceOf(i + cycle) \div 8, PlaceOf(i + cycle) % 8)
  <2>1. PICK n : n = i + cycle
    OBVIOUS
  <2>2. i + cycle' - 1 = n
    BY <1>2, <2>1
  <2>3. Shown(i)' = PixelOf(PlaceOf(n) \div 8, PlaceOf(n) % 8)'
    BY <2>2 DEF PixelOf, TilePixel, TileAt, AtColumn, PlaceOf
  <2> QED BY <1>3, <2>1, <2>3, PictureStays
<1>6. counter \in 0..7 /\ i \in 0..(15 - counter)
  <2>1. (cycle' + 6) % 8 = counter
    BY <1>1, <1>2, Cycles DEF counter
  <2> QED BY <1>1, <1>2, <2>1, CounterStep
<1>7. CASE cycle = 0
  <2>1. ~Fetching /\ shifters' = shifters
    BY <1>7, Timing, ShiftStep DEF Fetching
  <2>2. counter = 7 /\ i \in 0..8
    BY <1>6, <1>7, Cycles DEF counter
  <2>3. \A k \in 0..7 : shifters[k] = PixelOf(0, k) /\ shifters[k + 8] = PixelOf(1, k)
    BY <1>4, <1>7 DEF TwoTiles
  <2>4. PlaceOf(i + cycle) = i
    BY <1>7, <2>2 DEF PlaceOf
  <2>5. CASE i = 8
    <3>1. i \div 8 = 1 /\ i % 8 = 0 /\ i = 0 + 8
      BY <2>5
    <3>2. shifters[0 + 8] = PixelOf(1, 0)
      BY <2>3
    <3> QED BY <1>5, <2>1, <2>4, <3>1, <3>2
  <2>6. CASE i # 8
    <3>1. i \in 0..7 /\ i \div 8 = 0 /\ i % 8 = i
      BY <2>2, <2>6
    <3> QED BY <1>5, <2>1, <2>3, <2>4, <3>1
  <2> QED BY <2>5, <2>6
<1>8. CASE cycle # 0
  <2>1. Drawing /\ Fetching
    BY <1>1, <1>2, <1>3, <1>4, <1>8, PictureStays, Timing DEF Drawing, Fetching
  <2>2. CASE counter = 0 /\ i >= 8
    <3>1. PICK k \in 0..7 : i = k + 8
      BY <1>6, <2>2
    <3>2. FetchedPixel(k) = PixelOf(Fetched - 1, k)
      BY <1>4, <2>1, <2>2 DEF Assembled
    <3>3. Fetched - 1 = (cycle - 1) \div 8 + 1
      <4>1. PICK m \in Nat : m = (cycle - 1) \div 8
        BY <1>2, <1>8, Eighths, Timing
      <4>2. Fetched = 2 + m
        BY <1>2, <1>8, <4>1, Timing DEF Fetched
      <4> QED BY <4>1, <4>2
    <3>4. (cycle + 7) % 8 = 0 /\ cycle > 0
      BY <1>1, <1>8, <2>2 DEF counter
    <3>5. /\ PlaceOf(i + cycle) \div 8 = Fetched - 1
          /\ PlaceOf(i + cycle) % 8 = k
      BY <1>1, <3>1, <3>3, <3>4, Places
    <3>6. shifters'[i] = FetchedPixel(k)
      BY <2>1, <2>2, <3>1, ShiftStep
    <3> QED BY <1>5, <3>2, <3>5, <3>6
  <2>3. CASE ~(counter = 0 /\ i >= 8)
    <3>1. i \in 0..14 /\ (counter = 0 => i \in 0..7)
      BY <1>6, <2>3
    <3>2. shifters'[i] = shifters[i + 1]
      BY <2>1, <3>1, ShiftStep
    <3>3. i + 1 \in 0..(15 - ((cycle + 6) % 8))
      <4>1. (cycle + 6) % 8 = IF counter = 0 THEN 7 ELSE counter - 1
        BY <1>1, Cycles DEF counter
      <4> QED BY <1>6, <3>1, <4>1
    <3>4. shifters[i + 1] = Shown(i + 1)
      BY <1>4, <2>1, <3>3 DEF LineShown
    <3>5. (i + 1) + cycle - 1 = i + cycle
      BY <1>1, <3>1
    <3> QED BY <1>5, <3>2, <3>4, <3>5
  <2> QED BY <2>2, <2>3
<1> QED BY <1>7, <1>8

LEMMA InitPInv == Init => PInv
<1> SUFFICES ASSUME Init PROVE PInv
  OBVIOUS
<1>1. ~OriginKnown /\ ~render_enable
  BY DEF Init, OriginKnown
<1> QED BY <1>1, InitInv
        DEF PInv, StrobeTimed, BytesFetched, Assembled, FirstTile, TwoTiles, LineShown

LEMMA NextPInv == PInv /\ [Next]_vars => PInv'
<1> SUFFICES ASSUME PInv, [Next]_vars PROVE PInv'
  OBVIOUS
<1>1. CASE Next
  BY <1>1, NextInv, StrobeStep, BytesStep, AssembledStep, FirstTileStep, TwoTilesStep, LineStep
     DEF PInv
<1>2. CASE UNCHANGED vars
  <2>1. Inv'
    BY NextInv DEF PInv
  <2>2. \A n, k : PixelOf(n, k)' = PixelOf(n, k)
    BY <1>2 DEF vars, PixelOf, TilePixel, TileAt, AtColumn, Origin, Column, Fetched,
                Tile, Quadrant, PatternRow
  <2>3. OriginKnown' <=> OriginKnown
    BY <1>2 DEF vars, OriginKnown
  <2>4. (Drawing' <=> Drawing) /\ (Ahead' <=> Ahead) /\ (Waiting' <=> Waiting)
        /\ counter' = counter /\ cycle' = cycle /\ shifters' = shifters
    BY <1>2 DEF vars, fetchVars, Drawing, Ahead, Waiting, counter
  <2>5. StrobeTimed' /\ BytesFetched'
    BY <1>2, <2>3, <2>4 DEF PInv, StrobeTimed, BytesFetched, vars, fetchVars, OnPicture,
                            Tile, Quadrant, PatternRow
  <2>6. Assembled'
    <3>1. \A k : PixelOf(Fetched - 1, k)' = PixelOf(Fetched - 1, k)
      BY <1>2 DEF vars, PixelOf, TilePixel, TileAt, AtColumn, Origin, Column, Fetched,
                  Tile, Quadrant, PatternRow
    <3>2. \A k : FetchedPixel(k)' = FetchedPixel(k)
      BY <1>2 DEF vars, fetchVars, FetchedPixel
    <3> QED BY <2>3, <2>4, <3>1, <3>2 DEF PInv, Assembled
  <2>7. FirstTile' /\ TwoTiles'
    BY <2>2, <2>3, <2>4 DEF PInv, FirstTile, TwoTiles
  <2>8. LineShown'
    <3>1. \A i : PixelOf(PlaceOf(i + cycle - 1) \div 8, PlaceOf(i + cycle - 1) % 8)' =
                 PixelOf(PlaceOf(i + cycle - 1) \div 8, PlaceOf(i + cycle - 1) % 8)
      BY <1>2 DEF vars, PixelOf, TilePixel, TileAt, AtColumn, Origin, Column, Fetched,
                  Tile, Quadrant, PatternRow, PlaceOf
    <3> QED BY <2>3, <2>4, <3>1 DEF PInv, LineShown
  <2> QED BY <2>1, <2>5, <2>6, <2>7, <2>8 DEF PInv
<1> QED BY <1>1, <1>2

(* Every pixel of the background comes from the tile, row and quadrant at its     *)
(* distance from the origin of the line, both bit planes alike, in every line      *)
(* drawn, for every geometry and every time at which the program writes the        *)
(* scroll registers.                                                              *)
THEOREM PixelsShown == Spec => []PixelsInPlace
<1>1. PInv => PixelsInPlace
  <2> SUFFICES ASSUME PInv, OriginKnown, scanline < Lines, cycle \in 1..LineEnd
               PROVE  shifters[fine_x] = PixelOf(PlaceOf(fine_x + cycle - 1) \div 8,
                                                 PlaceOf(fine_x + cycle - 1) % 8)
    BY DEF PixelsInPlace, PixelOf, TilePixel, TileAt, PlaceOf
  <2>1. fine_x \in 0..7 /\ cycle \in Nat
    BY WorldAssumption, Timing DEF PInv, Inv, TypeOK
  <2>2. fine_x \in 0..(15 - ((cycle + 6) % 8))
    BY <2>1, Cycles
  <2> QED BY <2>2 DEF PInv, LineShown, Drawing
<1> QED BY <1>1, InitPInv, NextPInv, PTL DEF Spec

=============================================================================
