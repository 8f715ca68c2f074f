---------------------------- MODULE VideoProofs ----------------------------
(***************************************************************************)
(* Video for every geometry of a line, every number of sprites, places and    *)
(* passes: types, the sprites the places end with, both directions of the     *)
(* overflow flag and of the sprite 0 hit, and the pixels on the screen.       *)
(***************************************************************************)
EXTENDS Video, FiniteSetTheorems, TLAPS

OamEntry == Entries \cup {[y |-> 0, x |-> 0, behind |-> FALSE]}

Shown == [sprite : Sprite \cup {Cleared}, row : 0..(Height - 1), x : 0..MaxX,
          column : 0..Nothing, behind : BOOLEAN]

InRangeNow == Found(scanline)

(* While the places are cleared evaluation waits at its start.                  *)
Cleaning ==
  OnPicture /\ cycle \in 1..(ClearCycles + 1) =>
    /\ sprite_oam_idx = 0 /\ sprite_counter = 0
    /\ \A p \in Place : SlotCycles * p < cycle - 1 => sprites[p] = Cleared

(* Until the places are full, evaluation is somewhere in one of its passes, and  *)
(* has found the sprites in range once in each pass before.                     *)
InPass ==
  OnPicture /\ cycle \in (ClearCycles + 1)..(Width + 1) /\ sprite_counter < Places =>
    \E q \in Nat :
      /\ cycle - ClearCycles - 1 = NSprites * q + sprite_oam_idx
      /\ sprite_counter = Cardinality(InRangeNow) * q + Before(sprite_oam_idx, scanline)

(* After the first pass places are left only if every sprite has one.           *)
Complete ==
  OnPicture /\ cycle > ClearCycles + NSprites /\ sprite_counter < Places =>
    Cardinality(InRangeNow) <= sprite_counter

(* The places taken hold the first sprites, and only sprites in range.          *)
Filled ==
  OnPicture /\ cycle > ClearCycles =>
    \A i \in InRangeNow :
      Before(i, scanline) < sprite_counter => sprites[Before(i, scanline)] = i

OnlyFound ==
  OnPicture /\ cycle > ClearCycles =>
    \A p \in Place : sprites[p] \in InRangeNow \cup {Cleared}

(* The passes together found enough sprites wherever the places are full.       *)
Enough ==
  OnPicture /\ cycle > 0 /\ sprite_counter = Places =>
    Places <= Cardinality(InRangeNow) * Passes

(* Full places of the line before have raised the flag already.                 *)
Raised ==
  sprite_counter = Places /\ (OnPicture => cycle = 0 \/ cycle > Width + 1) =>
    sprite_overflow

(* The fetch is at the place its cycle says.                                    *)
Fetched ==
  OnPicture =>
    /\ cycle \in 1..(Width + 1) => sprite_fetch_idx = 0
    /\ cycle \in (Width + 1)..(FetchEnd + 1) =>
         \E r \in 0..(FetchCycles - 1) :
           cycle - Width - 1 = FetchCycles * sprite_fetch_idx + r

Inv ==
  /\ TypeOK
  /\ OAM \in [Sprite -> OamEntry]
  /\ shown \in [Place -> Shown]
  /\ Cleaning
  /\ InPass
  /\ Complete
  /\ Filled
  /\ OnlyFound
  /\ Enough
  /\ Raised
  /\ Fetched

-----------------------------------------------------------------------------
(* Arithmetic.                                                                *)

LEMMA Product ==
  ASSUME NEW a \in Nat, NEW b \in Nat
  PROVE  /\ a * b \in Nat
         /\ a * b = b * a
OBVIOUS

LEMMA ProductMonotone ==
  ASSUME NEW f \in Nat, NEW a \in Nat, NEW b \in Nat, a <= b
  PROVE  f * a <= f * b
OBVIOUS

LEMMA ProductNext ==
  ASSUME NEW f \in Nat, NEW a \in Nat
  PROVE  f * (a + 1) = f * a + f
OBVIOUS

LEMMA QuotientOfProduct ==
  ASSUME NEW f \in Nat \ {0}, NEW a \in Nat, NEW r \in 0..(f - 1)
  PROVE  /\ (f * a + r) \div f = a
         /\ (f * a + r) % f = r
OBVIOUS

LEMMA RemainderNext ==
  ASSUME NEW n \in Nat \ {0}, NEW a \in 0..(n - 1)
  PROVE  (a + 1) % n = IF a = n - 1 THEN 0 ELSE a + 1
OBVIOUS

LEMMA PastOnePass ==
  ASSUME NEW n \in Nat \ {0}, NEW q \in Nat, NEW i \in 0..(n - 1), NEW m \in Nat,
         m >= n, m = n * q + i
  PROVE  q >= 1
<1>1. q = 0 => m = i
  OBVIOUS
<1> QED BY <1>1

(* The cycles of a line, in order.                                             *)
LEMMA Geometry ==
  /\ NSprites \in Nat \ {0} /\ Places \in Nat \ {0} /\ SlotCycles \in Nat \ {0}
  /\ ClearCycles \in Nat \ {0} /\ Passes \in Nat \ {0} /\ FetchCycles \in Nat \ {0}
  /\ cycle_count \in Nat /\ Lines \in Nat \ {0} /\ scanline_count \in Nat
  /\ Height \in Nat \ {0} /\ SpriteWidth \in Nat \ {0} /\ MaxX \in Nat
  /\ Width \in Nat /\ FetchEnd \in Nat
  /\ Width = ClearCycles + NSprites * Passes
  /\ ClearCycles + NSprites <= Width
  /\ FetchEnd = Width + FetchCycles * Places
  /\ Width + 4 <= FetchEnd /\ FetchEnd < cycle_count
  /\ FetchCycles >= 4
  /\ scanline_count > Lines + 1 /\ Height <= scanline_count
  /\ MaxX + 1 = Width
  /\ SlotCycles * Places <= ClearCycles
<1>1. /\ NSprites \in Nat \ {0} /\ Places \in Nat \ {0} /\ SlotCycles \in Nat \ {0}
      /\ ClearCycles \in Nat \ {0} /\ Passes \in Nat \ {0} /\ FetchCycles \in Nat \ {0}
      /\ cycle_count \in Nat /\ Lines \in Nat \ {0} /\ scanline_count \in Nat
      /\ Height \in Nat \ {0} /\ SpriteWidth \in Nat \ {0} /\ MaxX \in Nat
  BY GeometryAssumption
<1>2. NSprites * 1 <= NSprites * Passes
  BY <1>1, ProductMonotone
<1>3. FetchCycles * 1 <= FetchCycles * Places
  BY <1>1, ProductMonotone
<1>4. /\ Passes * NSprites = NSprites * Passes /\ NSprites * Passes \in Nat
      /\ Places * FetchCycles = FetchCycles * Places /\ FetchCycles * Places \in Nat
      /\ Places * SlotCycles = SlotCycles * Places
  BY <1>1, Product
<1> QED BY <1>1, <1>2, <1>3, <1>4, GeometryAssumption DEF Width, FetchEnd

-----------------------------------------------------------------------------
(* Counting the sprites in range.                                             *)

Lower(n, line) == {j \in Found(line) : j < n}

LEMMA FoundFinite ==
  ASSUME NEW line
  PROVE  /\ Found(line) \subseteq Sprite
         /\ IsFiniteSet(Found(line))
         /\ Cardinality(Found(line)) \in Nat
<1>1. Found(line) \subseteq Sprite
  BY DEF Found
<1>2. IsFiniteSet(Sprite)
  <2>1. 0 \in Int /\ NSprites - 1 \in Int
    BY Geometry
  <2> QED BY <2>1, FS_Interval DEF Sprite
<1> QED BY <1>1, <1>2, FS_Subset, FS_CardinalityType

LEMMA BeforeCounts ==
  ASSUME NEW n, NEW line
  PROVE  /\ IsFiniteSet(Lower(n, line))
         /\ Before(n, line) = Cardinality(Lower(n, line))
         /\ Before(n, line) \in Nat
         /\ Before(n, line) <= Cardinality(Found(line))
<1>1. Lower(n, line) \in SUBSET Found(line)
  BY DEF Lower
<1>2. Before(n, line) = Cardinality(Lower(n, line))
  BY DEF Before, Lower
<1> QED BY <1>1, <1>2, FoundFinite, FS_Subset, FS_CardinalityType

(* The count over the sprites up to the next one.                              *)
LEMMA BeforeNext ==
  ASSUME NEW line, NEW i \in Sprite
  PROVE  Before(i + 1, line) = IF i \in Found(line) THEN Before(i, line) + 1
                               ELSE Before(i, line)
<1>1. /\ Found(line) \subseteq 0..(NSprites - 1)
      /\ i \in 0..(NSprites - 1)
  BY FoundFinite DEF Sprite
<1>2. CASE i \in Found(line)
  <2>1. Lower(i + 1, line) = Lower(i, line) \cup {i}
    BY <1>1, <1>2, Geometry DEF Lower
  <2>2. i \notin Lower(i, line)
    BY <1>1, Geometry DEF Lower
  <2> QED BY <1>2, <2>1, <2>2, BeforeCounts, FS_AddElement
<1>3. CASE i \notin Found(line)
  <2>1. Lower(i + 1, line) = Lower(i, line)
    BY <1>1, <1>3, Geometry DEF Lower
  <2> QED BY <1>3, <2>1, BeforeCounts
<1> QED BY <1>2, <1>3

(* A sprite in range counts itself for every later one.                        *)
LEMMA BeforeIncreases ==
  ASSUME NEW line, NEW i \in Found(line), NEW n \in Nat, i < n
  PROVE  Before(i, line) < Before(n, line)
<1>1. Found(line) \subseteq 0..(NSprites - 1) /\ i \in Sprite
  BY FoundFinite DEF Sprite
<1>2. Lower(i + 1, line) \in SUBSET Lower(n, line)
  BY <1>1, Geometry DEF Lower
<1>3. Before(i + 1, line) <= Before(n, line)
  BY <1>2, BeforeCounts, FS_Subset
<1>4. Before(i + 1, line) = Before(i, line) + 1
  BY <1>1, BeforeNext
<1> QED BY <1>3, <1>4, BeforeCounts

LEMMA BeforeIsUnique ==
  ASSUME NEW line, NEW i \in Found(line), NEW j \in Found(line),
         Before(i, line) = Before(j, line)
  PROVE  i = j
<1>1. i \in Nat /\ j \in Nat
  BY FoundFinite, Geometry DEF Sprite
<1>2. /\ i < j => Before(i, line) < Before(j, line)
      /\ j < i => Before(j, line) < Before(i, line)
  BY <1>1, BeforeIncreases
<1> QED BY <1>1, <1>2, BeforeCounts

LEMMA BeforeEnds ==
  ASSUME NEW line
  PROVE  /\ Before(0, line) = 0
         /\ Before(NSprites, line) = Cardinality(Found(line))
<1>1. \A j \in Found(line) : j \in 0..(NSprites - 1)
  BY FoundFinite DEF Sprite
<1>2. {j \in Found(line) : j < 0} = {}
  BY <1>1, Geometry
<1>3. {j \in Found(line) : j < NSprites} = Found(line)
  BY <1>1, Geometry
<1> QED BY <1>2, <1>3, FS_EmptySet DEF Before

LEMMA BeforeBounded ==
  ASSUME NEW line, NEW i \in Found(line)
  PROVE  Before(i, line) < Cardinality(Found(line))
<1>1. i < NSprites
  BY FoundFinite, Geometry DEF Sprite
<1> QED BY <1>1, BeforeIncreases, BeforeEnds, Geometry

-----------------------------------------------------------------------------
(* The parts of a step.                                                       *)

LEMMA EntryTyped ==
  ASSUME NEW e \in OamEntry
  PROVE  e.y \in Nat /\ e.x \in 0..MaxX /\ e.behind \in BOOLEAN
<1>1. CASE e \in Entries
  BY <1>1, EntriesAssumption
<1>2. CASE e = [y |-> 0, x |-> 0, behind |-> FALSE]
  BY <1>2, Geometry
<1> QED BY <1>1, <1>2 DEF OamEntry

(* Either a line begins, or the same line goes on; on the picture OAM and so the *)
(* sprites in range stay.                                                      *)
LEMMA LineGoesOn ==
  ASSUME TypeOK, PpuEdge, cycle' # 0
  PROVE  /\ cycle' = cycle + 1
         /\ scanline' = scanline
         /\ OnPicture' <=> OnPicture
         /\ OnPicture => /\ OAM' = OAM
                         /\ Found(scanline)' = Found(scanline)
                         /\ \A n : Before(n, scanline)' = Before(n, scanline)
<1>1. cycle' = cycle + 1 /\ scanline' = scanline
  BY Geometry DEF PpuEdge, Advance, TypeOK
<1>2. OnPicture' <=> OnPicture
  BY <1>1 DEF OnPicture
<1>3. ASSUME OnPicture
      PROVE  OAM' = OAM
  BY <1>3, Geometry DEF PpuEdge, WriteSprite, OnPicture, TypeOK
<1>4. ASSUME OnPicture
      PROVE  Found(scanline)' = Found(scanline)
  BY <1>1, <1>3, <1>4 DEF Found, InRange
<1>5. ASSUME OnPicture, NEW n
      PROVE  Before(n, scanline)' = Before(n, scanline)
  BY <1>1, <1>4, <1>5 DEF Before
<1> QED BY <1>1, <1>2, <1>3, <1>4, <1>5

LEMMA OnALine ==
  ASSUME Inv, PpuEdge, OnPicture', cycle' > 0
  PROVE  /\ TypeOK /\ OnPicture
         /\ cycle \in Nat /\ cycle' = cycle + 1
         /\ scanline' = scanline
         /\ Found(scanline)' = Found(scanline)
         /\ Cardinality(InRangeNow)' = Cardinality(InRangeNow)
         /\ Cardinality(InRangeNow) \in Nat
         /\ \A n : Before(n, scanline)' = Before(n, scanline)
<1>1. TypeOK /\ cycle \in Nat /\ cycle' # 0
  BY Geometry DEF Inv, TypeOK
<1>2. /\ cycle' = cycle + 1 /\ scanline' = scanline
      /\ OnPicture
  BY <1>1, LineGoesOn
<1>3. /\ Found(scanline)' = Found(scanline)
      /\ \A n : Before(n, scanline)' = Before(n, scanline)
  BY <1>1, <1>2, LineGoesOn
<1> QED BY <1>1, <1>2, <1>3, FoundFinite DEF InRangeNow

(* Evaluation starts, clears a place, looks at a sprite, or rests.               *)
Starting == OnPicture /\ cycle = 0
Clearing == OnPicture /\ cycle \in 1..ClearCycles
Looking ==
  OnPicture /\ cycle \in (ClearCycles + 1)..Width /\ sprite_counter < Places

LEMMA EvaluationStep ==
  ASSUME TypeOK, PpuEdge
  PROVE  \/ Starting /\ StartLine
         \/ Clearing /\ Clear
         \/ Looking /\ EvaluateSprite
         \/ /\ ~Starting /\ ~Clearing /\ ~Looking
            /\ UNCHANGED <<sprites, sprite_oam_idx, sprite_counter>>
<1> USE DEF Starting, Clearing, Looking
<1>1. Evaluate
  BY DEF PpuEdge
<1>2. CASE Starting
  BY <1>1, <1>2 DEF Evaluate
<1>3. CASE Clearing
  BY <1>1, <1>3, Geometry DEF Evaluate
<1>4. CASE Looking
  BY <1>1, <1>4, Geometry DEF Evaluate
<1>5. CASE ~Starting /\ ~Clearing /\ ~Looking
  <2>1. Clear
    BY <1>1, <1>5 DEF Evaluate
  <2>2. sprites' = [p \in Place |-> sprites[p]]
    BY <2>1, <1>5 DEF Clear
  <2>3. sprites' = sprites
    BY <2>2 DEF TypeOK
  <2> QED BY <2>1, <2>3, <1>5 DEF Clear
<1> QED BY <1>2, <1>3, <1>4, <1>5

LEMMA EvaluationTypes ==
  ASSUME TypeOK, PpuEdge
  PROVE  /\ sprites' \in [Place -> Sprite \cup {Cleared}]
         /\ sprite_oam_idx' \in Sprite
         /\ sprite_counter' \in 0..Places
<1>1. CASE Starting /\ StartLine
  BY <1>1, Geometry DEF StartLine, TypeOK, Sprite
<1>2. CASE Clearing /\ Clear
  BY <1>2 DEF Clear, TypeOK
<1>3. CASE Looking /\ EvaluateSprite
  <2>1. sprite_oam_idx' \in Sprite
    BY <1>3, Geometry, RemainderNext DEF EvaluateSprite, TypeOK, Sprite
  <2>2. sprite_counter \in Place /\ sprite_counter' \in 0..Places
    <3>1. sprite_counter \in Nat /\ sprite_counter < Places
      BY <1>3, Geometry DEF Looking, TypeOK
    <3>2. sprite_counter' \in {sprite_counter, sprite_counter + 1}
      BY <1>3 DEF EvaluateSprite
    <3> QED BY <3>1, <3>2, Geometry DEF Place
  <2>3. sprites' \in [Place -> Sprite \cup {Cleared}]
    BY <1>3, <2>2 DEF EvaluateSprite, TypeOK
  <2> QED BY <2>1, <2>2, <2>3
<1>4. CASE UNCHANGED <<sprites, sprite_oam_idx, sprite_counter>>
  BY <1>4 DEF TypeOK
<1> QED BY <1>1, <1>2, <1>3, <1>4, EvaluationStep

-----------------------------------------------------------------------------
(* Fetch and display.                                                         *)

LEMMA ShiftTyped ==
  ASSUME NEW s \in Shown
  PROVE  Shift(s) \in Shown
BY Geometry DEF Shift, Shown, Nothing

LEMMA FetchPlace ==
  ASSUME Inv, Fetching
  PROVE  /\ sprite_fetch_idx \in Place
         /\ \E r \in 0..(FetchCycles - 1) :
              /\ cycle - Width - 1 = FetchCycles * sprite_fetch_idx + r
              /\ FetchStep = r
<1>1. /\ cycle \in Nat /\ cycle >= Width + 1 /\ cycle <= FetchEnd
      /\ sprite_fetch_idx \in Nat /\ OnPicture
  BY Geometry DEF Inv, TypeOK, Fetching
<1>2. PICK r \in 0..(FetchCycles - 1) :
             cycle - Width - 1 = FetchCycles * sprite_fetch_idx + r
  BY <1>1, Geometry DEF Inv, Fetched
<1>3. FetchStep = r
  BY <1>1, <1>2, Geometry, QuotientOfProduct DEF FetchStep
<1>4. FetchCycles * sprite_fetch_idx < FetchCycles * Places
  BY <1>1, <1>2, Geometry, Product
<1>5. Places <= sprite_fetch_idx => FetchCycles * Places <= FetchCycles * sprite_fetch_idx
  BY <1>1, Geometry, ProductMonotone
<1>6. sprite_fetch_idx < Places
  BY <1>1, <1>4, <1>5, Geometry, Product
<1> QED BY <1>1, <1>2, <1>3, <1>6, Geometry DEF Place

LEMMA FetchedPriority ==
  ASSUME NEW s \in Shown, NEW b \in BOOLEAN
  PROVE  [s EXCEPT !.behind = b] \in Shown
BY DEF Shown

LEMMA FetchedX ==
  ASSUME NEW s \in Shown, NEW x \in 0..MaxX
  PROVE  [s EXCEPT !.x = x] \in Shown
BY DEF Shown

LEMMA FetchedRow ==
  ASSUME NEW s \in Shown, NEW i \in Sprite \cup {Cleared}, NEW row \in 0..(Height - 1)
  PROVE  [s EXCEPT !.sprite = i, !.column = 0, !.row = row] \in Shown
<1>1. 0 \in 0..Nothing
  BY Geometry DEF Nothing
<1> QED BY <1>1 DEF Shown

(* A row fetched is one of a sprite in range.                                  *)
LEMMA FetchTyped ==
  ASSUME Inv, Fetching
  PROVE  Fetch(sprite_fetch_idx) \in Shown
<1> DEFINE p == sprite_fetch_idx
<1>1. p \in Place /\ shown[p] \in Shown
  BY FetchPlace DEF Inv
<1>2. sprites[p] \in Found(scanline) \cup {Cleared}
  BY <1>1, Geometry DEF Inv, TypeOK, Fetching, OnlyFound, InRangeNow
<1>3. scanline \in Nat
  BY Geometry DEF Inv, TypeOK
<1>4. ASSUME sprites[p] # Cleared
      PROVE  /\ OAM[sprites[p]].x \in 0..MaxX
             /\ OAM[sprites[p]].behind \in BOOLEAN
             /\ scanline - OAM[sprites[p]].y \in 0..(Height - 1)
  <2>1. sprites[p] \in Sprite /\ InRange(sprites[p], scanline)
    BY <1>2, <1>4 DEF Found
  <2>2. OAM[sprites[p]] \in OamEntry
    BY <2>1 DEF Inv
  <2> QED BY <1>3, <2>1, <2>2, EntryTyped, Geometry DEF InRange
<1>5. sprites[p] \in Sprite \cup {Cleared}
  BY <1>1 DEF Inv, TypeOK
<1>6. CASE FetchStep = 0
  <2>1. (sprites[p] = Cleared \/ OAM[sprites[p]].behind) \in BOOLEAN
    OBVIOUS
  <2>2. Fetch(p) = [shown[p] EXCEPT !.behind = sprites[p] = Cleared \/ OAM[sprites[p]].behind]
    BY <1>6, Geometry DEF Fetch
  <2> QED BY <1>1, <2>1, <2>2, FetchedPriority
<1>7. CASE FetchStep = 1
  <2> DEFINE x == IF sprites[p] = Cleared THEN MaxX ELSE OAM[sprites[p]].x
  <2>1. Fetch(p) = [shown[p] EXCEPT !.x = x]
    BY <1>7, Geometry DEF Fetch
  <2>2. x \in 0..MaxX
    BY <1>4, Geometry
  <2> HIDE DEF x
  <2> QED BY <1>1, <2>1, <2>2, FetchedX
<1>8. CASE FetchStep = FetchCycles - 2
  <2> DEFINE row == IF sprites[p] = Cleared THEN 0 ELSE scanline - OAM[sprites[p]].y
  <2>1. Fetch(p) = [shown[p] EXCEPT !.sprite = sprites[p], !.column = 0, !.row = row]
    BY <1>8, Geometry DEF Fetch
  <2>2. row \in 0..(Height - 1)
    BY <1>4, Geometry
  <2>3. [shown[p] EXCEPT !.sprite = sprites[p], !.column = 0, !.row = row] \in Shown
    <3> HIDE DEF p, row
    <3> QED BY <1>1, <1>5, <2>2, FetchedRow
  <2> QED BY <2>1, <2>3, Zenon
<1>9. CASE FetchStep # 0 /\ FetchStep # 1 /\ FetchStep # FetchCycles - 2
  BY <1>1, <1>9 DEF Fetch
<1> QED BY <1>6, <1>7, <1>8, <1>9

LEMMA ShownStep ==
  ASSUME Inv, PpuEdge
  PROVE  shown' \in [Place -> Shown]
<1>1. shown \in [Place -> Shown] /\ ShowSprites
  BY DEF Inv, PpuEdge
<1>2. CASE OnPicture /\ cycle \in 2..Width
  BY <1>1, <1>2, ShiftTyped DEF ShowSprites
<1>3. CASE ~(OnPicture /\ cycle \in 2..Width) /\ Fetching
  <2>1. shown' = [shown EXCEPT ![sprite_fetch_idx] = Fetch(sprite_fetch_idx)]
    BY <1>1, <1>3 DEF ShowSprites
  <2> QED BY <1>1, <1>3, <2>1, FetchTyped
<1>4. CASE ~(OnPicture /\ cycle \in 2..Width) /\ ~Fetching
  BY <1>1, <1>4 DEF ShowSprites
<1> QED BY <1>2, <1>3, <1>4

(* The index goes on after the last cycle of a place and never past the last.    *)
LEMMA FetchedStep ==
  ASSUME Inv, PpuEdge
  PROVE  sprite_fetch_idx' \in 0..Places /\ Fetched'
<1>1. /\ TypeOK /\ Fetched /\ ShowSprites
      /\ cycle \in Nat /\ sprite_fetch_idx \in Nat /\ sprite_fetch_idx <= Places
  BY Geometry DEF Inv, TypeOK, PpuEdge
<1>2. CASE OnPicture /\ cycle = 0
  <2>1. sprite_fetch_idx' = 0
    BY <1>1, <1>2 DEF ShowSprites
  <2>2. cycle' \in {0, 1}
    BY <1>1, <1>2 DEF PpuEdge, Advance
  <2>3. 0 \in 0..Places /\ ~(cycle' \in (Width + 1)..(FetchEnd + 1))
    BY <2>2, Geometry
  <2> QED BY <2>1, <2>3 DEF Fetched
<1>3. CASE Fetching
  <2>1. PICK r \in 0..(FetchCycles - 1) :
               /\ cycle - Width - 1 = FetchCycles * sprite_fetch_idx + r
               /\ FetchStep = r
    BY <1>3, FetchPlace
  <2>2. /\ sprite_fetch_idx \in Nat /\ sprite_fetch_idx < Places
        /\ cycle >= Width + 1 /\ cycle <= FetchEnd /\ OnPicture
    BY <1>1, <1>3, FetchPlace, Geometry DEF Place, Fetching
  <2>3. cycle' = cycle + 1
    BY <2>2, <1>1, Geometry DEF PpuEdge, Advance
  <2>4. CASE r = FetchCycles - 1
    <3>1. sprite_fetch_idx' = (sprite_fetch_idx + 1) % (8 * Places)
      BY <1>1, <1>3, <2>1, <2>2, <2>4, Geometry DEF ShowSprites
    <3>2. (sprite_fetch_idx + 1) % (8 * Places) = sprite_fetch_idx + 1
      <4>1. 8 * Places \in Nat \ {0} /\ sprite_fetch_idx < 8 * Places - 1
        BY <2>2, Geometry
      <4> QED BY <2>2, <4>1, RemainderNext
    <3>3. FetchCycles * (sprite_fetch_idx + 1) = FetchCycles * sprite_fetch_idx + FetchCycles
      BY <2>2, Geometry, ProductNext
    <3>4. cycle' - Width - 1 = FetchCycles * sprite_fetch_idx' + 0
      BY <2>1, <2>3, <2>4, <3>1, <3>2, <3>3, <2>2, <1>1, Geometry, Product
    <3> QED BY <2>2, <2>3, <3>1, <3>2, <3>4, <1>1, Geometry DEF Fetched
  <2>5. CASE r # FetchCycles - 1
    <3>1. sprite_fetch_idx' = sprite_fetch_idx
      BY <1>1, <1>3, <2>1, <2>2, <2>5, Geometry DEF ShowSprites
    <3>2. cycle' - Width - 1 = FetchCycles * sprite_fetch_idx' + (r + 1) /\ r + 1 \in 0..(FetchCycles - 1)
      BY <2>1, <2>3, <2>5, <3>1, <2>2, <1>1, Geometry, Product
    <3> QED BY <2>2, <2>3, <3>1, <3>2, <1>1, Geometry DEF Fetched
  <2> QED BY <2>4, <2>5
<1>4. CASE ~(OnPicture /\ cycle = 0) /\ ~Fetching
  <2>1. sprite_fetch_idx' = sprite_fetch_idx
    BY <1>1, <1>4 DEF ShowSprites
  <2>2. CASE cycle' # 0 /\ OnPicture
    <3>1. cycle' = cycle + 1 /\ cycle # 0 /\ (cycle < Width + 1 \/ cycle > FetchEnd)
      BY <1>1, <1>4, <2>2, LineGoesOn, Geometry DEF Fetching
    <3>2. CASE cycle' = Width + 1
      <4>1. sprite_fetch_idx = 0
        BY <1>1, <2>2, <3>1, <3>2, Geometry DEF Fetched
      <4>2. cycle' - Width - 1 = FetchCycles * sprite_fetch_idx' + 0
        BY <4>1, <2>1, <3>2, Geometry
      <4> QED BY <4>1, <4>2, <2>1, Geometry DEF Fetched
    <3> QED BY <1>1, <2>1, <2>2, <3>1, <3>2, Geometry DEF Fetched
  <2>3. CASE cycle' = 0 \/ ~OnPicture
    <3>1. cycle' = 0 \/ ~OnPicture'
      BY <1>1, <2>3, LineGoesOn
    <3> QED BY <1>1, <2>1, <3>1, Geometry DEF Fetched
  <2> QED BY <2>2, <2>3
<1> QED BY <1>2, <1>3, <1>4

-----------------------------------------------------------------------------
(* Evaluation.                                                                *)

LEMMA CleaningStep ==
  ASSUME Inv, PpuEdge
  PROVE  Cleaning'
<1> SUFFICES ASSUME OnPicture', cycle' \in 1..(ClearCycles + 1)
             PROVE  /\ sprite_oam_idx' = 0 /\ sprite_counter' = 0
                    /\ \A p \in Place : SlotCycles * p < cycle' - 1 => sprites'[p] = Cleared
  BY DEF Cleaning
<1>1. /\ TypeOK /\ Cleaning /\ cycle \in Nat /\ OnPicture
      /\ cycle' = cycle + 1 /\ cycle <= ClearCycles
  BY OnALine, Geometry DEF Inv
<1>2. ASSUME NEW p \in Place
      PROVE  SlotCycles * p \in Nat
  BY Geometry, Product DEF Place
<1>3. CASE cycle = 0
  <2>1. StartLine
    BY <1>1, <1>3, EvaluationStep, Geometry DEF Starting, Clearing, Looking
  <2> QED BY <1>1, <1>2, <1>3, <2>1 DEF StartLine
<1>4. CASE cycle # 0
  <2>1. Clearing /\ Clear
    BY <1>1, <1>4, EvaluationStep, Geometry DEF Starting, Clearing, Looking
  <2>2. sprite_oam_idx = 0 /\ sprite_counter = 0
    BY <1>1, <2>1, Geometry DEF Cleaning, Clearing
  <2>3. ASSUME NEW p \in Place, SlotCycles * p < cycle
        PROVE  sprites'[p] = Cleared
    <3>1. CASE SlotCycles * p < cycle - 1
      BY <1>1, <2>1, <3>1, Geometry DEF Cleaning, Clearing, Clear
    <3>2. CASE ~(SlotCycles * p < cycle - 1)
      <4>1. cycle - 1 = SlotCycles * p + 0
        BY <1>1, <1>2, <1>4, <2>3, <3>2
      <4>2. (SlotCycles * p + 0) \div SlotCycles = p
        <5>1. p \in Nat /\ 0 \in 0..(SlotCycles - 1)
          BY Geometry DEF Place
        <5> QED BY <5>1, Geometry, QuotientOfProduct
      <4> QED BY <2>1, <4>1, <4>2 DEF Clear, Clearing
    <3> QED BY <3>1, <3>2
  <2>4. cycle' - 1 = cycle
    BY <1>1
  <2> QED BY <2>1, <2>2, <2>3, <2>4 DEF Clear
<1> QED BY <1>3, <1>4

(* A look at a sprite in terms of the count over the passes.                   *)
LEMMA LookCounts ==
  ASSUME Inv, PpuEdge, Looking
  PROVE  /\ cycle' = cycle + 1
         /\ sprite_oam_idx' = IF sprite_oam_idx = NSprites - 1 THEN 0 ELSE sprite_oam_idx + 1
         /\ EvaluateSprite
         /\ \E q \in Nat :
              /\ cycle - ClearCycles - 1 = NSprites * q + sprite_oam_idx
              /\ sprite_counter = Cardinality(InRangeNow) * q + Before(sprite_oam_idx, scanline)
              /\ sprite_counter' = Cardinality(InRangeNow) * q + Before(sprite_oam_idx + 1, scanline)
<1>1. /\ TypeOK /\ OnPicture /\ cycle \in (ClearCycles + 1)..Width
      /\ cycle \in Nat /\ sprite_counter \in Nat /\ sprite_counter < Places
      /\ sprite_oam_idx \in Sprite
  BY Geometry DEF Inv, TypeOK, Looking
<1>2. cycle' = cycle + 1
  BY <1>1, Geometry DEF PpuEdge, Advance
<1>3. EvaluateSprite
  BY <1>1, EvaluationStep, Geometry DEF Starting, Clearing, Looking
<1>4. sprite_oam_idx' = IF sprite_oam_idx = NSprites - 1 THEN 0 ELSE sprite_oam_idx + 1
  BY <1>1, <1>3, RemainderNext, Geometry DEF EvaluateSprite, Sprite
<1>5. PICK q \in Nat :
         /\ cycle - ClearCycles - 1 = NSprites * q + sprite_oam_idx
         /\ sprite_counter = Cardinality(InRangeNow) * q + Before(sprite_oam_idx, scanline)
  BY <1>1, Geometry DEF Inv, InPass
<1>6. Cardinality(InRangeNow) * q \in Nat /\ Before(sprite_oam_idx, scanline) \in Nat
  BY FoundFinite, BeforeCounts, Product DEF InRangeNow
<1>7. sprite_counter' = IF sprite_oam_idx \in Found(scanline) THEN sprite_counter + 1
                        ELSE sprite_counter
  BY <1>1, <1>3 DEF EvaluateSprite, Found
<1>8. sprite_counter' = Cardinality(InRangeNow) * q + Before(sprite_oam_idx + 1, scanline)
  BY <1>1, <1>5, <1>6, <1>7, BeforeNext
<1> QED BY <1>2, <1>3, <1>4, <1>5, <1>8

LEMMA InPassStep ==
  ASSUME Inv, PpuEdge
  PROVE  InPass'
<1> DEFINE C == Cardinality(InRangeNow)
<1> SUFFICES ASSUME OnPicture', cycle' \in (ClearCycles + 1)..(Width + 1), sprite_counter' < Places
             PROVE  \E q \in Nat :
                      /\ cycle' - ClearCycles - 1 = NSprites * q + sprite_oam_idx'
                      /\ sprite_counter' = C' * q + Before(sprite_oam_idx, scanline)'
  BY DEF InPass
<1>1. /\ TypeOK /\ cycle \in Nat /\ OnPicture /\ cycle' = cycle + 1
      /\ cycle >= ClearCycles /\ cycle <= Width
      /\ sprite_counter \in Nat /\ sprite_counter <= Places
  BY OnALine, Geometry DEF Inv, TypeOK
<1>2. /\ C' = C
      /\ Before(sprite_oam_idx, scanline)' = Before(sprite_oam_idx', scanline)
  <2>1. scanline' = scanline /\ Found(scanline)' = Found(scanline)
    BY <1>1, OnALine
  <2> QED BY <2>1 DEF InRangeNow, Before
<1>3. C \in Nat
  BY FoundFinite DEF InRangeNow
<1>4. CASE cycle = ClearCycles
  <2>1. sprite_oam_idx' = 0 /\ sprite_counter' = 0
    BY <1>1, <1>4, CleaningStep, Geometry DEF Cleaning
  <2>2. /\ cycle' - ClearCycles - 1 = NSprites * 0 + sprite_oam_idx'
        /\ sprite_counter' = C * 0 + Before(0, scanline)
    BY <1>1, <1>3, <1>4, <2>1, BeforeEnds, Geometry
  <2> QED BY <1>2, <2>1, <2>2
<1>5. CASE cycle # ClearCycles
  <2>1. Looking
    BY <1>1, <1>5, EvaluationStep, Geometry DEF Starting, Clearing, Looking
  <2>2. PICK q \in Nat :
           /\ cycle - ClearCycles - 1 = NSprites * q + sprite_oam_idx
           /\ sprite_counter' = C * q + Before(sprite_oam_idx + 1, scanline)
    BY <2>1, LookCounts
  <2>3. /\ sprite_oam_idx \in 0..(NSprites - 1)
        /\ NSprites * q \in Nat /\ C * q \in Nat
    BY <1>1, <1>3, Geometry, Product DEF TypeOK, Sprite
  <2>4. CASE sprite_oam_idx # NSprites - 1
    <3>1. sprite_oam_idx' = sprite_oam_idx + 1
      BY <2>1, <2>4, LookCounts
    <3>2. cycle' - ClearCycles - 1 = NSprites * q + sprite_oam_idx'
      BY <1>1, <2>2, <2>3, <3>1, Geometry
    <3> QED BY <1>2, <2>2, <3>1, <3>2
  <2>5. CASE sprite_oam_idx = NSprites - 1
    <3>1. sprite_oam_idx' = 0
      BY <2>1, <2>5, LookCounts
    <3>2. sprite_oam_idx + 1 = NSprites
      BY <2>5, Geometry
    <3>3. /\ NSprites * (q + 1) = NSprites * q + NSprites
          /\ C * (q + 1) = C * q + C
      BY <1>3, Geometry, ProductNext
    <3>4. cycle' - ClearCycles - 1 = NSprites * (q + 1) + sprite_oam_idx'
      BY <1>1, <2>2, <2>3, <2>5, <3>1, <3>3, Geometry
    <3>5. sprite_counter' = C * (q + 1) + Before(sprite_oam_idx', scanline)
      BY <1>3, <2>2, <2>3, <3>1, <3>2, <3>3, BeforeEnds DEF InRangeNow
    <3> QED BY <1>2, <3>4, <3>5
  <2> QED BY <2>4, <2>5
<1> QED BY <1>4, <1>5

LEMMA EnoughStep ==
  ASSUME Inv, PpuEdge
  PROVE  Enough'
<1> DEFINE C == Cardinality(InRangeNow)
<1> SUFFICES ASSUME OnPicture', cycle' > 0, sprite_counter' = Places
             PROVE  Places <= C' * Passes
  BY DEF Enough
<1>1. /\ TypeOK /\ cycle \in Nat /\ OnPicture /\ cycle' = cycle + 1
  BY OnALine
<1>2. C' = C /\ C \in Nat
  BY OnALine
<1>3. ~Starting /\ ~Clearing
  <2>1. ASSUME Starting PROVE sprite_counter' = 0
    <3>1. ~Clearing /\ ~Looking
      BY <2>1, Geometry DEF Starting, Clearing, Looking
    <3>2. StartLine
      BY <1>1, <2>1, <3>1, EvaluationStep
    <3> QED BY <3>2 DEF StartLine
  <2>2. Clearing => sprite_counter' = 0
    BY <1>1, CleaningStep, Geometry DEF Clearing, Cleaning
  <2> QED BY <2>1, <2>2, Geometry
<1>4. CASE Looking
  <2>1. PICK q \in Nat :
           /\ cycle - ClearCycles - 1 = NSprites * q + sprite_oam_idx
           /\ sprite_counter' = C * q + Before(sprite_oam_idx + 1, scanline)
    BY <1>4, LookCounts
  <2>2. NSprites * q < NSprites * Passes
    <3>1. sprite_oam_idx \in Nat /\ NSprites * q \in Nat /\ NSprites * Passes \in Nat
      BY <1>1, Geometry, Product DEF TypeOK, Sprite
    <3>2. cycle <= ClearCycles + NSprites * Passes
      BY <1>1, <1>4, Geometry DEF Looking
    <3> QED BY <1>1, <2>1, <3>1, <3>2, Geometry
  <2>3. q + 1 <= Passes
    <3>1. Passes <= q => NSprites * Passes <= NSprites * q
      BY Geometry, ProductMonotone
    <3>2. NSprites * q \in Nat /\ NSprites * Passes \in Nat
      BY Geometry, Product
    <3> QED BY <2>2, <3>1, <3>2, Geometry
  <2>4. C * (q + 1) = C * q + C /\ C * (q + 1) <= C * Passes
    BY <1>2, <2>3, ProductNext, ProductMonotone, Geometry
  <2>5. C * q \in Nat /\ C * Passes \in Nat
    BY <1>2, Product, Geometry
  <2>6. Before(sprite_oam_idx + 1, scanline) \in Nat /\ Before(sprite_oam_idx + 1, scanline) <= C
    BY BeforeCounts DEF InRangeNow
  <2> QED BY <1>2, <2>1, <2>4, <2>5, <2>6
<1>5. CASE ~Looking
  <2>1. sprite_counter = Places /\ cycle > 0
    BY <1>1, <1>3, <1>5, EvaluationStep, Geometry DEF Starting
  <2> QED BY <1>1, <1>2, <2>1 DEF Inv, Enough
<1> QED BY <1>4, <1>5

LEMMA CompleteStep ==
  ASSUME Inv, PpuEdge
  PROVE  Complete'
<1> DEFINE C == Cardinality(InRangeNow)
<1> SUFFICES ASSUME OnPicture', cycle' > ClearCycles + NSprites, sprite_counter' < Places
             PROVE  C' <= sprite_counter'
  BY DEF Complete
<1>1. /\ TypeOK /\ cycle \in Nat /\ OnPicture /\ cycle' = cycle + 1
      /\ C' = C /\ C \in Nat
  <2>1. cycle' \in Nat
    BY Geometry DEF Inv, TypeOK, PpuEdge, Advance
  <2>2. cycle' > 0
    BY <2>1, Geometry
  <2> QED BY <2>2, OnALine
<1>2. CASE cycle' <= Width + 1
  <2>1. PICK q \in Nat :
           /\ cycle' - ClearCycles - 1 = NSprites * q + sprite_oam_idx'
           /\ sprite_counter' = C' * q + Before(sprite_oam_idx, scanline)'
    BY <1>1, <1>2, InPassStep, Geometry DEF InPass
  <2>2. Before(sprite_oam_idx, scanline)' \in Nat
    <3>1. scanline' = scanline /\ Found(scanline)' = Found(scanline)
      BY <1>1, OnALine
    <3>2. Before(sprite_oam_idx, scanline)' = Before(sprite_oam_idx', scanline)
      BY <3>1 DEF Before
    <3> QED BY <3>2, BeforeCounts
  <2>3. sprite_oam_idx' \in 0..(NSprites - 1)
    BY <1>1, EvaluationTypes DEF Sprite
  <2>4. q >= 1
    <3> DEFINE m == cycle' - ClearCycles - 1
    <3>1. m \in Nat /\ m >= NSprites
      BY <1>1, Geometry
    <3>2. m = NSprites * q + sprite_oam_idx'
      BY <2>1
    <3> HIDE DEF m, C
    <3> QED BY <2>3, <3>1, <3>2, Geometry, PastOnePass
  <2>5. C * 1 <= C * q /\ C * q \in Nat
    BY <1>1, <2>4, ProductMonotone, Product
  <2> QED BY <1>1, <2>1, <2>2, <2>5
<1>3. CASE cycle' > Width + 1
  <2>1. ~Starting /\ ~Clearing /\ ~Looking
    BY <1>1, <1>3, Geometry DEF Starting, Clearing, Looking
  <2>2. sprite_counter' = sprite_counter
    BY <1>1, <2>1, EvaluationStep
  <2> QED BY <1>1, <1>3, <2>2, Geometry DEF Inv, Complete
<1> QED BY <1>1, <1>2, <1>3, Geometry

(* The place a sprite is copied to is the number of those found before it.      *)
LEMMA FilledStep ==
  ASSUME Inv, PpuEdge
  PROVE  Filled' /\ OnlyFound'
<1> SUFFICES ASSUME OnPicture', cycle' > ClearCycles
             PROVE  /\ \A i \in Found(scanline)' :
                         Before(i, scanline)' < sprite_counter' => sprites'[Before(i, scanline)'] = i
                    /\ \A p \in Place : sprites'[p] \in Found(scanline)' \cup {Cleared}
  BY DEF Filled, OnlyFound, InRangeNow
<1>1. cycle' > 0
  <2>1. cycle' \in Nat
    BY Geometry DEF Inv, TypeOK, PpuEdge, Advance
  <2> QED BY <2>1, Geometry
<1>2. /\ TypeOK /\ OnPicture /\ cycle \in Nat /\ cycle' = cycle + 1
      /\ Found(scanline)' = Found(scanline)
      /\ \A n : Before(n, scanline)' = Before(n, scanline)
  BY <1>1, OnALine
<1>3. cycle >= ClearCycles
  BY <1>2, Geometry
<1> SUFFICES /\ \A i \in Found(scanline) :
                  Before(i, scanline) < sprite_counter' => sprites'[Before(i, scanline)] = i
             /\ \A p \in Place : sprites'[p] \in Found(scanline) \cup {Cleared}
  BY <1>2
<1>4. CASE Clearing
  <2>1. cycle' = ClearCycles + 1 /\ cycle' \in 1..(ClearCycles + 1)
    BY <1>2, <1>3, <1>4, Geometry DEF Clearing
  <2>2. /\ sprite_counter' = 0
        /\ \A p \in Place : SlotCycles * p < cycle' - 1 => sprites'[p] = Cleared
    BY <2>1, CleaningStep DEF Cleaning
  <2>3. ASSUME NEW p \in Place
        PROVE  SlotCycles * p < ClearCycles
    <3>1. p \in Nat /\ p + 1 <= Places
      BY Geometry DEF Place
    <3>2. SlotCycles * (p + 1) = SlotCycles * p + SlotCycles /\ SlotCycles * p \in Nat
      BY <3>1, ProductNext, Product, Geometry
    <3>3. SlotCycles * (p + 1) <= SlotCycles * Places /\ SlotCycles * Places \in Nat
      BY <3>1, ProductMonotone, Product, Geometry
    <3> QED BY <3>2, <3>3, Geometry
  <2> QED BY <2>1, <2>2, <2>3, BeforeCounts, Geometry
<1>5. CASE Looking
  <2> DEFINE C == Cardinality(InRangeNow)
  <2>1. EvaluateSprite /\ sprite_oam_idx \in Sprite /\ sprite_counter \in Place
        /\ sprites \in [Place -> Sprite \cup {Cleared}]
    <3>1. sprite_counter \in Place
      BY <1>2, <1>5, Geometry DEF TypeOK, Looking, Place
    <3> QED BY <1>2, <1>5, <3>1, LookCounts DEF TypeOK
  <2>2. PICK q \in Nat : sprite_counter = C * q + Before(sprite_oam_idx, scanline)
    BY <1>5, LookCounts
  <2>3. /\ \A i \in Found(scanline) :
             Before(i, scanline) < sprite_counter => sprites[Before(i, scanline)] = i
        /\ \A p \in Place : sprites[p] \in Found(scanline) \cup {Cleared}
    BY <1>2, <1>5, Geometry DEF Inv, Filled, OnlyFound, InRangeNow, Looking
  <2>4. CASE sprite_oam_idx \notin Found(scanline)
    <3>1. sprites' = sprites /\ sprite_counter' = sprite_counter
      BY <2>1, <2>4 DEF EvaluateSprite, Found
    <3> QED BY <2>3, <3>1
  <2>5. CASE sprite_oam_idx \in Found(scanline)
    <3>1. /\ sprites' = [sprites EXCEPT ![sprite_counter] = sprite_oam_idx]
          /\ sprite_counter' = sprite_counter + 1
      BY <2>1, <2>5 DEF EvaluateSprite, Found
    <3>2. sprite_counter \in Nat
      BY <2>1, Geometry DEF Place
    <3>3. \A p \in Place : sprites'[p] = IF p = sprite_counter THEN sprite_oam_idx ELSE sprites[p]
      BY <2>1, <3>1
    <3>4. ASSUME NEW i \in Found(scanline), Before(i, scanline) < sprite_counter + 1
          PROVE  sprites'[Before(i, scanline)] = i
      <4>1. Before(i, scanline) \in Nat /\ Before(i, scanline) <= sprite_counter
        BY <3>2, <3>4, BeforeCounts
      <4>2. Before(i, scanline) \in Place
        BY <2>1, <4>1, Geometry DEF Place
      <4>3. CASE Before(i, scanline) < sprite_counter
        BY <2>3, <3>2, <3>3, <4>1, <4>2, <4>3
      <4>4. CASE Before(i, scanline) = sprite_counter
        <5>1. C \in Nat /\ Before(i, scanline) < C /\ Before(sprite_oam_idx, scanline) \in Nat
          BY FoundFinite, BeforeBounded, BeforeCounts DEF InRangeNow
        <5>2. q = 0
          <6>1. q >= 1 => C * 1 <= C * q
            BY <5>1, ProductMonotone
          <6>2. C * q \in Nat
            BY <5>1, Product
          <6> HIDE DEF C
          <6> QED BY <2>2, <4>1, <4>4, <5>1, <6>1, <6>2
        <5>3. Before(i, scanline) = Before(sprite_oam_idx, scanline)
          <6> HIDE DEF C
          <6> QED BY <2>2, <4>4, <5>1, <5>2
        <5>4. i = sprite_oam_idx
          BY <2>5, <5>3, BeforeIsUnique
        <5> QED BY <3>3, <4>2, <4>4, <5>4
      <4> QED BY <3>2, <4>1, <4>3, <4>4
    <3> QED BY <2>3, <2>5, <3>1, <3>3, <3>4
  <2> QED BY <2>4, <2>5
<1>6. CASE ~Clearing /\ ~Looking
  <2>1. ~Starting
    BY <1>3, Geometry DEF Starting
  <2>2. sprites' = sprites /\ sprite_counter' = sprite_counter
    BY <1>2, <1>6, <2>1, EvaluationStep
  <2>3. cycle > ClearCycles
    BY <1>2, <1>3, <1>6, Geometry DEF Clearing
  <2> QED BY <1>2, <2>2, <2>3 DEF Inv, Filled, OnlyFound, InRangeNow
<1> QED BY <1>4, <1>5, <1>6

(* Nothing fills a place between the end of evaluation and the next line.       *)
LEMMA RaisedStep ==
  ASSUME Inv, PpuEdge
  PROVE  Raised'
<1> SUFFICES ASSUME sprite_counter' = Places, OnPicture' => cycle' = 0 \/ cycle' > Width + 1
             PROVE  sprite_overflow'
  BY DEF Raised
<1>1. /\ TypeOK /\ cycle \in Nat /\ scanline \in Nat
      /\ sprite_overflow' = IF scanline = scanline_count /\ cycle = 1 THEN FALSE
                            ELSE sprite_overflow \/ (OnPicture /\ sprite_counter = Places)
  BY Geometry DEF Inv, TypeOK, PpuEdge, Overflow
<1>2. OnPicture => cycle > Width
  <2>1. CASE cycle' = 0
    <3>1. cycle = cycle_count
      BY <1>1, <2>1, Geometry DEF PpuEdge, Advance
    <3> QED BY <3>1, Geometry
  <2>2. CASE cycle' # 0
    BY <1>1, <2>2, LineGoesOn, Geometry
  <2> QED BY <2>1, <2>2
<1>3. ~Starting /\ ~Clearing /\ ~Looking
  BY <1>1, <1>2, Geometry DEF Starting, Clearing, Looking
<1>4. sprite_counter = Places
  BY <1>1, <1>3, EvaluationStep
<1>5. CASE OnPicture
  <2>1. cycle # 1
    BY <1>1, <1>2, <1>5, Geometry
  <2> QED BY <1>1, <1>4, <1>5, <2>1
<1>6. CASE ~OnPicture
  <2>1. sprite_overflow
    BY <1>4, <1>6 DEF Inv, Raised
  <2>2. scanline # scanline_count
    BY <1>6 DEF OnPicture
  <2> QED BY <1>1, <2>1, <2>2
<1> QED BY <1>5, <1>6

-----------------------------------------------------------------------------
(* Types.                                                                     *)

LEMMA VgaTypes ==
  ASSUME TypeOK, VgaEdge
  PROVE  hcount' \in 0..h_tot /\ vcount' \in 0..v_tot /\ blank_n' \in BOOLEAN
<1>1. h_tot \in Nat /\ v_tot \in Nat
  BY Geometry DEF h_tot, v_tot
<1>2. hcount' \in 0..h_tot /\ vcount' \in 0..v_tot
  BY <1>1 DEF TypeOK, VgaEdge
<1>3. blank_n' \in BOOLEAN
  BY DEF VgaEdge
<1> QED BY <1>2, <1>3

LEMMA OamStep ==
  ASSUME Inv, PpuEdge
  PROVE  OAM' \in [Sprite -> OamEntry]
<1>1. OAM \in [Sprite -> OamEntry] /\ WriteSprite(Entries)
  BY DEF Inv, PpuEdge
<1>2. CASE \E i \in Sprite, entry \in Entries : OAM' = [OAM EXCEPT ![i] = entry]
  BY <1>1, <1>2 DEF OamEntry
<1>3. CASE UNCHANGED OAM
  BY <1>1, <1>3
<1> QED BY <1>1, <1>2, <1>3 DEF WriteSprite

LEMMA FlagTypes ==
  ASSUME TypeOK, PpuEdge
  PROVE  /\ sprite_overflow' \in BOOLEAN
         /\ sprite0_hit_possible' \in BOOLEAN
         /\ sprite0_hit' \in BOOLEAN
<1>1. sprite_overflow' \in BOOLEAN
  <2>1. Overflow
    BY DEF PpuEdge
  <2> QED BY <2>1 DEF Overflow
<1>2. sprite0_hit' \in BOOLEAN
  <2>1. PICK background \in Backgrounds, blank \in Blanks : Hit(background, blank)
    BY DEF PpuEdge
  <2> QED BY <2>1 DEF Hit
<1>3. sprite0_hit_possible' \in BOOLEAN
  <2>1. Evaluate /\ sprite0_hit_possible \in BOOLEAN
    BY DEF PpuEdge, TypeOK
  <2>2. CASE StartLine
    BY <2>2 DEF StartLine
  <2>3. CASE Clear
    BY <2>1, <2>3 DEF Clear
  <2>4. CASE EvaluateSprite
    BY <2>1, <2>4 DEF EvaluateSprite
  <2> QED BY <2>1, <2>2, <2>3, <2>4 DEF Evaluate
<1> QED BY <1>1, <1>2, <1>3

LEMMA ShownTyped ==
  ASSUME shown \in [Place -> Shown]
  PROVE  \A p \in Place :
           /\ shown[p].sprite \in Sprite \cup {Cleared}
           /\ shown[p].row \in 0..(Height - 1) /\ shown[p].x \in 0..MaxX
           /\ shown[p].column \in 0..Nothing /\ shown[p].behind \in BOOLEAN
<1>1. TAKE p \in Place
<1>2. shown[p] \in Shown
  OBVIOUS
<1> QED BY <1>2 DEF Shown

LEMMA TypeStep ==
  ASSUME Inv, PpuEdge, VgaEdge, ppuEdge' \in BOOLEAN
  PROVE  TypeOK'
<1>1. TypeOK
  BY DEF Inv
<1>2. cycle' \in 0..cycle_count /\ scanline' \in 0..scanline_count
  BY <1>1, Geometry DEF TypeOK, PpuEdge, Advance
<1>3. ppu_linebuffer' \in 0..1
  BY <1>1 DEF TypeOK, PpuEdge, SwapBuffers
<1>4. \A p \in Place :
        /\ shown'[p].sprite \in Sprite \cup {Cleared}
        /\ shown'[p].row \in 0..(Height - 1) /\ shown'[p].x \in 0..MaxX
        /\ shown'[p].column \in 0..Nothing /\ shown'[p].behind \in BOOLEAN
  <2>1. TAKE p \in Place
  <2>2. shown'[p] \in Shown
    BY ShownStep
  <2> QED BY <2>2 DEF Shown
<1>5. sprite_fetch_idx' \in 0..Places
  BY FetchedStep
<1> QED BY <1>1, <1>2, <1>3, <1>4, <1>5, EvaluationTypes, FlagTypes, VgaTypes
        DEF TypeOK, v_tot, h_tot

LEMMA InitInv == Init => Inv
<1> SUFFICES ASSUME Init PROVE Inv
  OBVIOUS
<1>1. /\ cycle = 0 /\ scanline = 0 /\ sprite_counter = 0 /\ sprite_oam_idx = 0
      /\ sprite_fetch_idx = 0
  BY DEF Init, SpritesInit
<1>2. OAM \in [Sprite -> OamEntry]
  BY DEF Init, SpritesInit, OamEntry
<1>3. shown \in [Place -> Shown]
  <2>1. [sprite |-> Cleared, row |-> 0, x |-> 0, column |-> Nothing, behind |-> FALSE] \in Shown
    BY Geometry DEF Shown, Nothing
  <2> QED BY <2>1 DEF Init, SpritesInit
<1>4. TypeOK
  <2>1. sprites \in [Place -> Sprite \cup {Cleared}]
    BY DEF Init, SpritesInit
  <2>2. /\ cycle \in 0..cycle_count /\ scanline \in 0..scanline_count
        /\ sprite_oam_idx \in Sprite /\ sprite_counter \in 0..Places
        /\ sprite_fetch_idx \in 0..Places
    BY <1>1, Geometry DEF Sprite
  <2>3. /\ sprite_overflow \in BOOLEAN /\ sprite0_hit_possible \in BOOLEAN
        /\ sprite0_hit \in BOOLEAN /\ ppuEdge \in BOOLEAN /\ blank_n \in BOOLEAN
    BY DEF Init, SpritesInit
  <2>4. hcount \in 0..h_tot /\ vcount \in 0..v_tot /\ ppu_linebuffer \in 0..1
    BY Geometry DEF Init, h_tot, v_tot
  <2> QED BY <2>1, <2>2, <2>3, <2>4, <1>3, ShownTyped DEF TypeOK
<1>5. Cleaning /\ InPass /\ Complete /\ Filled /\ OnlyFound /\ Enough /\ Fetched
  BY <1>1, Geometry DEF Cleaning, InPass, Complete, Filled, OnlyFound, Enough, Fetched
<1>6. Raised
  BY <1>1, Geometry DEF Raised
<1> QED BY <1>2, <1>3, <1>4, <1>5, <1>6 DEF Inv

LEMMA VideoEdgeInv ==
  ASSUME Inv, VideoEdge
  PROVE  Inv'
<1>1. TypeOK /\ VgaEdge /\ ppuEdge' = TRUE
      /\ UNCHANGED <<spriteVars, linebuffer, ppu_linebuffer>>
  BY DEF Inv, VideoEdge
<1>2. TypeOK'
  BY <1>1, VgaTypes DEF TypeOK, spriteVars, v_tot, h_tot
<1>3. /\ UNCHANGED <<OAM, shown, cycle, scanline, sprites, sprite_oam_idx>>
      /\ UNCHANGED <<sprite_counter, sprite_fetch_idx, sprite_overflow>>
  BY <1>1 DEF spriteVars
<1>4. Found(scanline)' = Found(scanline)
  BY <1>3 DEF Found, InRange
<1>5. \A n : Before(n, scanline)' = Before(n, scanline)
  BY <1>3, <1>4 DEF Before
<1>6. Before(sprite_oam_idx, scanline)' = Before(sprite_oam_idx, scanline)
  BY <1>3, <1>4 DEF Before
<1>7. Cleaning' /\ Fetched' /\ Raised'
  BY <1>3 DEF Inv, Cleaning, Fetched, Raised, OnPicture
<1>8. InPass' /\ Complete' /\ Enough'
  BY <1>3, <1>4, <1>6 DEF Inv, InPass, Complete, Enough, OnPicture, InRangeNow
<1>9. Filled' /\ OnlyFound'
  BY <1>3, <1>4, <1>5 DEF Inv, Filled, OnlyFound, OnPicture, InRangeNow
<1> QED BY <1>2, <1>3, <1>7, <1>8, <1>9 DEF Inv

LEMMA NextInv == Inv /\ [Next]_vars => Inv'
<1> SUFFICES ASSUME Inv, [Next]_vars PROVE Inv'
  OBVIOUS
<1>1. CASE CommonEdge
  <2>1. PpuEdge /\ VgaEdge /\ ppuEdge' = FALSE
    BY <1>1 DEF CommonEdge
  <2>2. TypeOK'
    BY <2>1, TypeStep
  <2> QED BY <2>1, <2>2, OamStep, ShownStep, CleaningStep, InPassStep, CompleteStep,
             FilledStep, EnoughStep, RaisedStep, FetchedStep DEF Inv
<1>2. CASE VideoEdge
  BY <1>2, VideoEdgeInv
<1>3. CASE UNCHANGED vars
  <2>1. /\ UNCHANGED <<OAM, shown, cycle, scanline, sprites, sprite_oam_idx>>
        /\ UNCHANGED <<sprite_counter, sprite_fetch_idx, sprite_overflow>>
        /\ UNCHANGED <<sprite0_hit_possible, sprite0_hit, ppuEdge, blank_n>>
        /\ UNCHANGED <<ppu_linebuffer, hcount, vcount>>
    BY <1>3 DEF vars, spriteVars, vgaVars
  <2>2. Found(scanline)' = Found(scanline)
    BY <2>1 DEF Found, InRange
  <2>3. \A n : Before(n, scanline)' = Before(n, scanline)
    BY <2>1, <2>2 DEF Before
  <2>4. Before(sprite_oam_idx, scanline)' = Before(sprite_oam_idx, scanline)
    BY <2>1, <2>2 DEF Before
  <2>5. TypeOK' /\ Cleaning' /\ Fetched' /\ Raised'
    BY <2>1 DEF Inv, TypeOK, Cleaning, Fetched, Raised, OnPicture, v_tot, h_tot
  <2>6. InPass' /\ Complete' /\ Enough'
    BY <2>1, <2>2, <2>4 DEF Inv, InPass, Complete, Enough, OnPicture, InRangeNow
  <2>7. Filled' /\ OnlyFound'
    BY <2>1, <2>2, <2>3 DEF Inv, Filled, OnlyFound, OnPicture, InRangeNow
  <2> QED BY <2>1, <2>5, <2>6, <2>7 DEF Inv
<1> QED BY <1>1, <1>2, <1>3 DEF Next

LEMMA Invariant == Spec => []Inv
BY InitInv, NextInv, PTL DEF Spec

-----------------------------------------------------------------------------
(* Every variable keeps its type: the fetch never leaves the places, evaluation   *)
(* never the sprites, and a row fetched is always one of the sprite.            *)
THEOREM TypeCorrect == Spec => []TypeOK
<1>1. Inv => TypeOK
  BY DEF Inv
<1> QED BY <1>1, Invariant, PTL

(* When evaluation ends the places hold the first sprites in range, in the order  *)
(* of OAM, and otherwise only repetitions or nothing (PPU.sv:999-1017).         *)
THEOREM FirstInPlaces == Spec => []PlacesHoldFirst
<1>1. Inv => PlacesHoldFirst
  <2> SUFFICES ASSUME Inv, OnPicture, cycle > Width
               PROVE  /\ \A i \in Found(scanline) :
                           Before(i, scanline) < Places => sprites[Before(i, scanline)] = i
                      /\ \A p \in Place : sprites[p] \in Found(scanline) \cup {Cleared}
    BY DEF PlacesHoldFirst
  <2>1. /\ cycle \in Nat /\ sprite_counter \in Nat /\ sprite_counter <= Places
        /\ cycle > ClearCycles /\ cycle >= ClearCycles + NSprites + 1
    BY Geometry DEF Inv, TypeOK
  <2>2. ASSUME NEW i \in Found(scanline), Before(i, scanline) < Places
        PROVE  Before(i, scanline) < sprite_counter
    <3>1. sprite_counter < Places => Cardinality(Found(scanline)) <= sprite_counter
      BY <2>1, Geometry DEF Inv, Complete, InRangeNow
    <3> QED BY <2>1, <2>2, <3>1, BeforeBounded, BeforeCounts, FoundFinite, Geometry
  <2> QED BY <2>1, <2>2 DEF Inv, Filled, OnlyFound, InRangeNow
<1> QED BY <1>1, Invariant, PTL

(* A line with more sprites in range than places ends with the flag up.          *)
THEOREM OverflowIsReported == Spec => []OverflowReported
<1>1. Inv => OverflowReported
  <2> SUFFICES ASSUME Inv, OnPicture, cycle > Width + 1, Cardinality(Found(scanline)) > Places
               PROVE  sprite_overflow
    BY DEF OverflowReported
  <2>1. /\ cycle \in Nat /\ sprite_counter \in Nat /\ sprite_counter <= Places
        /\ cycle > ClearCycles + NSprites
    BY Geometry DEF Inv, TypeOK
  <2>2. sprite_counter = Places
    BY <2>1, FoundFinite, Geometry DEF Inv, Complete, InRangeNow
  <2> QED BY <2>2 DEF Inv, Raised
<1> QED BY <1>1, Invariant, PTL

(* The flag rises on no line whose sprites, found once in each pass, do not fill  *)
(* the places: with 8 places and 3 passes it takes three of them (PPU.sv:1007). *)
THEOREM OverflowIsEarned == Spec => OverflowEarned
<1>1. Inv /\ [Next]_vars =>
        [~sprite_overflow /\ sprite_overflow' =>
           Passes * Cardinality(Found(scanline)) >= Places]_vars
  <2> SUFFICES ASSUME Inv, Next, ~sprite_overflow, sprite_overflow'
               PROVE  Passes * Cardinality(Found(scanline)) >= Places
    OBVIOUS
  <2>1. CASE VideoEdge
    BY <2>1 DEF VideoEdge, spriteVars
  <2>2. CASE CommonEdge
    <3>1. OnPicture /\ sprite_counter = Places
      BY <2>2 DEF CommonEdge, PpuEdge, Overflow
    <3>2. cycle \in Nat /\ cycle # 0
      BY <3>1, Geometry DEF Inv, TypeOK, Raised
    <3>3. Places <= Cardinality(Found(scanline)) * Passes
      BY <3>1, <3>2 DEF Inv, Enough, InRangeNow
    <3>4. Cardinality(Found(scanline)) * Passes = Passes * Cardinality(Found(scanline))
      BY FoundFinite, Product, Geometry
    <3> QED BY <3>3, <3>4, FoundFinite, Geometry
  <2> QED BY <2>1, <2>2 DEF Next
<1> QED BY <1>1, Invariant, PTL DEF Spec, OverflowEarned

-----------------------------------------------------------------------------
(* From the places to the screen.  A place holds no sprite that comes later in   *)
(* OAM than its number.                                                         *)
InOrder ==
  OnPicture /\ cycle > ClearCycles =>
    \A p \in Place : sprites[p] # Cleared => Before(sprites[p], scanline) <= p

FirstColumn(i) == IF i = Cleared THEN MaxX ELSE OAM[i].x
RowAt(i, line) == IF i = Cleared THEN 0 ELSE line - OAM[i].y
Behind(i) == i = Cleared \/ OAM[i].behind

(* The cycles of its fetch that a place has had bring one part after another.    *)
FetchTime(p) == cycle - Width - 1 - FetchCycles * p

Loading ==
  OnPicture /\ cycle > Width =>
    \A p \in Place :
      /\ FetchTime(p) > 0 => shown[p].behind = Behind(sprites[p])
      /\ FetchTime(p) > 1 => shown[p].x = FirstColumn(sprites[p])
      /\ FetchTime(p) > FetchCycles - 2 =>
           /\ shown[p].sprite = sprites[p]
           /\ shown[p].row = RowAt(sprites[p], scanline)
           /\ shown[p].column = 0

(* On the next line a place shows its sprite after n shifts; one without a       *)
(* sprite waits until the end of the line.                                      *)
Shifts == IF cycle < 2 THEN 0 ELSE cycle - 2

InPlace(s, line, n) ==
  IF s.sprite = Cleared THEN s.column = Nothing \/ s.x + n = MaxX
  ELSE LET x == OAM[s.sprite].x
       IN  /\ s.row = RowAt(s.sprite, line)
           /\ s.behind = Behind(s.sprite)
           /\ s.x = IF x > n THEN x - n ELSE 0
           /\ s.column = IF x > n THEN 0 ELSE IF n - x < Nothing THEN n - x ELSE Nothing

DisplayedFrom(line, n) ==
  /\ \A p \in Place :
       /\ shown[p].sprite \in Found(line) \cup {Cleared}
       /\ shown[p].sprite # Cleared => Before(shown[p].sprite, line) <= p
       /\ InPlace(shown[p], line, n)
  /\ \A i \in Found(line) : Before(i, line) < Places => shown[Before(i, line)].sprite = i

Displayed ==
  scanline < Lines /\ cycle <= Width + 1 => DisplayedFrom(LineBefore(scanline), Shifts)

(* A set of numbers has a least one: what is below all of them would go on for   *)
(* ever.                                                                        *)
LEMMA Least ==
  ASSUME NEW n \in Nat, NEW T \in SUBSET (0..n), T # {}
  PROVE  \E m \in T : \A k \in T : m <= k
<1> SUFFICES ASSUME \A m \in T : \E k \in T : k < m
             PROVE  FALSE
  OBVIOUS
<1> DEFINE U == {x \in 0..n : \A k \in T : x <= k}
           f == [x \in U |-> x + 1]
<1>1. 0 \in U /\ IsFiniteSet(U)
  <2>1. IsFiniteSet(0..n)
    BY FS_Interval
  <2> QED BY <2>1, FS_Subset
<1>2. ASSUME NEW x \in U
      PROVE  x + 1 \in U \ {0}
  <2>1. x \notin T
    BY <1>2
  <2>2. x \in Nat /\ \A k \in T : k \in Nat /\ k <= n /\ x <= k /\ k # x
    BY <1>2, <2>1
  <2>3. \A k \in T : x + 1 <= k
    BY <2>2
  <2>4. PICK k \in T : x + 1 <= k /\ k <= n
    BY <2>2, <2>3
  <2>5. x + 1 \in 0..n
    BY <2>2, <2>4
  <2> QED BY <2>2, <2>3, <2>5
<1>3. f \in [U -> U \ {0}]
  BY <1>2
<1>4. IsFiniteSet(U \ {0}) /\ Cardinality(U \ {0}) < Cardinality(U)
  <2> HIDE DEF U
  <2>1. Cardinality(U) \in Nat /\ Cardinality(U \ {0}) = Cardinality(U) - 1
    BY <1>1, FS_RemoveElement, FS_CardinalityType
  <2>2. IsFiniteSet(U \ {0})
    BY <1>1, FS_Subset
  <2> QED BY <2>1, <2>2
<1>5. \E x, y \in U : x # y /\ f[x] = f[y]
  <2> HIDE DEF U, f
  <2> QED BY <1>1, <1>3, <1>4, FS_PigeonHole
<1> QED BY <1>5

LEMMA FirstLeast ==
  ASSUME NEW n \in Nat, NEW T \in SUBSET (0..n), T # {}
  PROVE  First(T) \in T /\ \A k \in T : First(T) <= k
BY Least DEF First

(* Only between the frames OAM changes, and with it whatever depends on it.      *)
LEMMA OamStays ==
  ASSUME OAM' = OAM, NEW line
  PROVE  /\ Found(line)' = Found(line)
         /\ \A n : Before(n, line)' = Before(n, line)
         /\ \A i : RowAt(i, line)' = RowAt(i, line)
         /\ \A i : FirstColumn(i)' = FirstColumn(i)
         /\ \A i : Behind(i)' <=> Behind(i)
         /\ \A s, n : InPlace(s, line, n)' <=> InPlace(s, line, n)
<1>1. Found(line)' = Found(line)
  BY DEF Found, InRange
<1>2. \A n : Before(n, line)' = Before(n, line)
  BY <1>1 DEF Before
<1>3. /\ \A i : RowAt(i, line)' = RowAt(i, line)
      /\ \A i : FirstColumn(i)' = FirstColumn(i)
      /\ \A i : Behind(i)' <=> Behind(i)
  BY DEF RowAt, FirstColumn, Behind
<1>4. \A s, n : InPlace(s, line, n)' <=> InPlace(s, line, n)
  BY DEF InPlace, RowAt, Behind
<1> QED BY <1>1, <1>2, <1>3, <1>4

LEMMA OamOnPicture ==
  ASSUME PpuEdge, scanline # Lines + 1
  PROVE  OAM' = OAM
BY DEF PpuEdge, WriteSprite


-----------------------------------------------------------------------------
(* The places after evaluation, and their fetch.                               *)

LEMMA AfterClearing ==
  ASSUME Inv, PpuEdge, OnPicture', cycle' = ClearCycles + 1, NEW p \in Place
  PROVE  sprites'[p] = Cleared
<1>1. \A q \in Place : SlotCycles * q < cycle' - 1 => sprites'[q] = Cleared
  BY CleaningStep, Geometry DEF Cleaning
<1>2. p \in Nat /\ p + 1 <= Places
  BY Geometry DEF Place
<1>3. SlotCycles * (p + 1) = SlotCycles * p + SlotCycles /\ SlotCycles * p \in Nat
  BY <1>2, ProductNext, Product, Geometry
<1>4. SlotCycles * (p + 1) <= SlotCycles * Places /\ SlotCycles * Places \in Nat
  BY <1>2, ProductMonotone, Product, Geometry
<1>5. SlotCycles * p < cycle' - 1
  BY <1>3, <1>4, Geometry
<1> QED BY <1>1, <1>5

LEMMA InOrderStep ==
  ASSUME Inv, InOrder, PpuEdge
  PROVE  InOrder'
<1> SUFFICES ASSUME OnPicture', cycle' > ClearCycles, NEW p \in Place, sprites'[p] # Cleared
             PROVE  Before(sprites[p], scanline)' <= p
  BY DEF InOrder
<1>1. cycle' \in Nat
  BY Geometry DEF Inv, TypeOK, PpuEdge, Advance
<1>2. /\ TypeOK /\ OnPicture /\ cycle \in Nat /\ cycle' = cycle + 1
      /\ Found(scanline)' = Found(scanline)
  BY <1>1, OnALine, Geometry
<1>3. Before(sprites[p], scanline)' = Before(sprites'[p], scanline)
  BY <1>2 DEF Before
<1>4. cycle > ClearCycles
  BY <1>2, AfterClearing, Geometry
<1>5. CASE Looking
  <2>1. PICK q \in Nat :
           sprite_counter = Cardinality(InRangeNow) * q + Before(sprite_oam_idx, scanline)
    BY <1>5, LookCounts
  <2>2. EvaluateSprite /\ sprite_counter \in Nat
    BY <1>2, <1>5, LookCounts, Geometry DEF TypeOK
  <2>3. sprites'[p] = sprites[p] \/ (sprites'[p] = sprite_oam_idx /\ p = sprite_counter)
    BY <1>2, <2>2 DEF EvaluateSprite, TypeOK
  <2>4. Before(sprite_oam_idx, scanline) <= sprite_counter
    <3>1. /\ Cardinality(InRangeNow) * q \in Nat
          /\ Before(sprite_oam_idx, scanline) \in Nat
      BY FoundFinite, BeforeCounts, Product DEF InRangeNow
    <3> QED BY <2>1, <3>1
  <2> QED BY <1>2, <1>3, <1>4, <2>3, <2>4 DEF InOrder
<1>6. CASE ~Looking
  <2>1. sprites' = sprites
    BY <1>2, <1>4, <1>6, EvaluationStep, Geometry DEF Starting, Clearing
  <2> QED BY <1>2, <1>3, <1>4, <2>1 DEF InOrder
<1> QED BY <1>5, <1>6

(* After evaluation the first sprites in range have their places.              *)
LEMMA FirstHaveTheirs ==
  ASSUME Inv, OnPicture, cycle > Width
  PROVE  /\ \A i \in Found(scanline) :
              Before(i, scanline) < Places => sprites[Before(i, scanline)] = i
         /\ \A p \in Place : sprites[p] \in Found(scanline) \cup {Cleared}
<1>1. /\ cycle \in Nat /\ sprite_counter \in Nat /\ sprite_counter <= Places
      /\ cycle > ClearCycles /\ cycle >= ClearCycles + NSprites + 1
  BY Geometry DEF Inv, TypeOK
<1>2. ASSUME NEW i \in Found(scanline), Before(i, scanline) < Places
      PROVE  Before(i, scanline) < sprite_counter
  <2>1. sprite_counter < Places => Cardinality(Found(scanline)) <= sprite_counter
    BY <1>1, Geometry DEF Inv, Complete, InRangeNow
  <2> QED BY <1>1, <1>2, <2>1, BeforeBounded, BeforeCounts, FoundFinite, Geometry
<1> QED BY <1>1, <1>2 DEF Inv, Filled, OnlyFound, InRangeNow

LEMMA NewPriority ==
  ASSUME NEW s \in Shown, NEW b, NEW r, r = [s EXCEPT !.behind = b]
  PROVE  r.behind = b /\ r.x = s.x /\ r.sprite = s.sprite /\ r.row = s.row /\ r.column = s.column
BY DEF Shown

(* A cycle of the fetch at its place, and what the place holds after it.        *)
LEMMA FetchParts ==
  ASSUME Inv, Fetching, ShowSprites, NEW p \in Place, p = sprite_fetch_idx
  PROVE  /\ FetchStep = 0 => shown'[p].behind = Behind(sprites[p])
         /\ FetchStep = 1 => shown'[p].x = FirstColumn(sprites[p])
         /\ FetchStep = FetchCycles - 2 =>
              /\ shown'[p].sprite = sprites[p]
              /\ shown'[p].row = RowAt(sprites[p], scanline)
              /\ shown'[p].column = 0
         /\ FetchStep # 0 => shown'[p].behind = shown[p].behind
         /\ FetchStep # 1 => shown'[p].x = shown[p].x
         /\ FetchStep # FetchCycles - 2 =>
              /\ shown'[p].sprite = shown[p].sprite
              /\ shown'[p].row = shown[p].row
              /\ shown'[p].column = shown[p].column
<1>1. shown \in [Place -> Shown] /\ shown[p] \in Shown
  BY DEF Inv
<1>2. shown'[p] = Fetch(p)
  <2>1. ~(OnPicture /\ cycle \in 2..Width)
    BY Geometry DEF Fetching, Inv, TypeOK
  <2> QED BY <1>1, <2>1 DEF ShowSprites
<1>3. FetchCycles - 2 # 0 /\ FetchCycles - 2 # 1
  BY Geometry
<1>4. CASE FetchStep = 0
  <2>0. Fetch(p) = [shown[p] EXCEPT !.behind = sprites[p] = Cleared \/ OAM[sprites[p]].behind]
    BY <1>4, Geometry DEF Fetch
  <2>1. shown'[p] = [shown[p] EXCEPT !.behind = Behind(sprites[p])]
    BY <1>2, <2>0, Zenon DEF Behind
  <2>2. /\ shown'[p].behind = Behind(sprites[p]) /\ shown'[p].x = shown[p].x
        /\ shown'[p].sprite = shown[p].sprite /\ shown'[p].row = shown[p].row
        /\ shown'[p].column = shown[p].column
    BY <1>1, <2>1, NewPriority
  <2>3. FetchStep # 1 /\ FetchStep # FetchCycles - 2
    BY <1>3, <1>4
  <2> QED BY <1>4, <2>2, <2>3, Zenon
<1>5. CASE FetchStep = 1
  <2>1. shown'[p] = [shown[p] EXCEPT !.x = FirstColumn(sprites[p])]
    BY <1>2, <1>5, <1>3 DEF Fetch, FirstColumn
  <2> QED BY <1>1, <1>3, <1>5, <2>1 DEF Shown
<1>6. CASE FetchStep = FetchCycles - 2
  <2>1. shown'[p] = [shown[p] EXCEPT !.sprite = sprites[p], !.column = 0,
                                     !.row = RowAt(sprites[p], scanline)]
    BY <1>2, <1>6, <1>3 DEF Fetch, RowAt
  <2> QED BY <1>1, <1>3, <1>6, <2>1 DEF Shown
<1>7. CASE FetchStep # 0 /\ FetchStep # 1 /\ FetchStep # FetchCycles - 2
  <2>1. shown'[p] = shown[p]
    BY <1>2, <1>7 DEF Fetch
  <2> QED BY <1>7, <2>1
<1> QED BY <1>4, <1>5, <1>6, <1>7


LEMMA FetchTimes ==
  ASSUME NEW f \in Nat, NEW p \in Nat, NEW q \in Nat
  PROVE  /\ p < q => f * p + f <= f * q
         /\ f * p \in Nat /\ f * q \in Nat
<1>1. p < q => f * (p + 1) <= f * q
  BY ProductMonotone
<1>2. f * (p + 1) = f * p + f
  BY ProductNext
<1> QED BY <1>1, <1>2, Product

LEMMA LoadingStep ==
  ASSUME Inv, Loading, PpuEdge
  PROVE  Loading'
<1> SUFFICES ASSUME OnPicture', cycle' > Width, NEW p \in Place
             PROVE  /\ FetchTime(p)' > 0 => shown'[p].behind = Behind(sprites[p])'
                    /\ FetchTime(p)' > 1 => shown'[p].x = FirstColumn(sprites[p])'
                    /\ FetchTime(p)' > FetchCycles - 2 =>
                         /\ shown'[p].sprite = sprites'[p]
                         /\ shown'[p].row = RowAt(sprites[p], scanline)'
                         /\ shown'[p].column = 0
  BY DEF Loading
<1>1. cycle' \in Nat
  BY Geometry DEF Inv, TypeOK, PpuEdge, Advance
<1>2. /\ TypeOK /\ OnPicture /\ cycle \in Nat /\ cycle' = cycle + 1
      /\ scanline' = scanline /\ cycle >= Width
  BY <1>1, OnALine, Geometry
<1>3. FetchTime(p)' = cycle - Width - FetchCycles * p /\ p \in Nat /\ p < Places
      /\ FetchCycles * p \in Nat
  BY <1>2, Product, Geometry DEF FetchTime, Place
<1>4. CASE cycle = Width
  BY <1>3, <1>4, Geometry
<1>5. CASE cycle > Width
  <2>1. sprites' = sprites /\ OAM' = OAM
    <3>1. sprites' = sprites
      BY <1>2, <1>5, EvaluationStep, Geometry DEF Starting, Clearing, Looking
    <3>2. scanline # Lines + 1
      BY <1>2, Geometry DEF OnPicture, TypeOK
    <3> QED BY <3>1, <3>2, OamOnPicture
  <2>2. /\ (Behind(sprites[p])' <=> Behind(sprites[p]))
        /\ FirstColumn(sprites[p])' = FirstColumn(sprites[p])
        /\ RowAt(sprites[p], scanline)' = RowAt(sprites[p], scanline)
    BY <1>2, <2>1 DEF Behind, FirstColumn, RowAt
  <2>3. /\ FetchTime(p) > 0 => shown[p].behind = Behind(sprites[p])
        /\ FetchTime(p) > 1 => shown[p].x = FirstColumn(sprites[p])
        /\ FetchTime(p) > FetchCycles - 2 =>
             /\ shown[p].sprite = sprites[p]
             /\ shown[p].row = RowAt(sprites[p], scanline)
             /\ shown[p].column = 0
    BY <1>2, <1>5 DEF Loading
  <2>4. ShowSprites /\ shown \in [Place -> Shown]
    BY DEF PpuEdge, Inv
  <2> SUFFICES /\ FetchTime(p)' > 0 => shown'[p].behind = Behind(sprites[p])
               /\ FetchTime(p)' > 1 => shown'[p].x = FirstColumn(sprites[p])
               /\ FetchTime(p)' > FetchCycles - 2 =>
                    /\ shown'[p].sprite = sprites[p]
                    /\ shown'[p].row = RowAt(sprites[p], scanline)
                    /\ shown'[p].column = 0
    <3>1. Behind(sprites[p])' = Behind(sprites[p])
      BY <2>1 DEF Behind
    <3> QED BY <2>1, <2>2, <3>1
  <2>5. CASE Fetching
    <3>1. PICK r \in 0..(FetchCycles - 1) :
                 /\ cycle - Width - 1 = FetchCycles * sprite_fetch_idx + r
                 /\ FetchStep = r
      BY <2>5, FetchPlace
    <3>2. sprite_fetch_idx \in Nat /\ FetchCycles * sprite_fetch_idx \in Nat
      BY <1>2, Product, Geometry DEF TypeOK
    <3>3. FetchTime(p) = FetchCycles * sprite_fetch_idx + r - FetchCycles * p
      BY <1>2, <1>3, <3>1, <3>2, Geometry DEF FetchTime
    <3>4. FetchTime(p)' = FetchTime(p) + 1
      BY <1>2, <1>3, Geometry DEF FetchTime
    <3>5. CASE p = sprite_fetch_idx
      <4>1. FetchTime(p) = r /\ FetchTime(p)' = r + 1
        BY <1>3, <3>1, <3>3, <3>4, <3>5
      <4>2. FetchTime(p)' > 0 => shown'[p].behind = Behind(sprites[p])
        <5>1. CASE r = 0
          BY <2>4, <2>5, <3>1, <3>5, <5>1, FetchParts
        <5>2. CASE r # 0
          <6>1. shown'[p].behind = shown[p].behind /\ FetchTime(p) > 0
            BY <2>4, <2>5, <3>1, <3>5, <4>1, <5>2, FetchParts, Geometry
          <6> QED BY <2>3, <6>1
        <5> QED BY <5>1, <5>2
      <4>3. FetchTime(p)' > 1 => shown'[p].x = FirstColumn(sprites[p])
        BY <2>3, <2>4, <2>5, <3>1, <3>5, <4>1, FetchParts, Geometry
      <4>4. FetchTime(p)' > FetchCycles - 2 =>
              /\ shown'[p].sprite = sprites[p]
              /\ shown'[p].row = RowAt(sprites[p], scanline)
              /\ shown'[p].column = 0
        BY <2>3, <2>4, <2>5, <3>1, <3>5, <4>1, FetchParts, Geometry
      <4> QED BY <4>2, <4>3, <4>4
    <3>6. CASE p # sprite_fetch_idx
      <4>1. shown'[p] = shown[p]
        <5>1. ~(OnPicture /\ cycle \in 2..Width)
          BY <1>2, <1>5, Geometry
        <5> QED BY <2>4, <2>5, <3>6, <5>1 DEF ShowSprites
      <4>2. CASE p < sprite_fetch_idx
        <5>1. FetchTime(p) >= FetchCycles
          BY <1>3, <3>1, <3>2, <3>3, <4>2, FetchTimes, Geometry
        <5>2. FetchTime(p) > 0 /\ FetchTime(p) > 1 /\ FetchTime(p) > FetchCycles - 2
          BY <1>2, <1>3, <5>1, Geometry DEF FetchTime
        <5> QED BY <2>3, <4>1, <5>2, Zenon
      <4>3. CASE sprite_fetch_idx < p
        <5>1. FetchTime(p)' <= 0
          BY <1>3, <3>1, <3>2, <3>3, <3>4, <4>3, FetchTimes, Geometry
        <5>2. FetchTime(p)' \in Int
          BY <1>2, <1>3, Geometry
        <5>3. ~(FetchTime(p)' > 0) /\ ~(FetchTime(p)' > 1) /\ ~(FetchTime(p)' > FetchCycles - 2)
          BY <5>1, <5>2, Geometry
        <5> QED BY <5>3, Zenon
      <4> QED BY <1>3, <3>2, <3>6, <4>2, <4>3
    <3> QED BY <3>5, <3>6
  <2>6. CASE ~Fetching
    <3>1. cycle > FetchEnd
      BY <1>2, <1>5, <2>6, Geometry DEF Fetching
    <3>2. shown' = shown
      BY <1>2, <1>5, <2>4, <2>6, Geometry DEF ShowSprites
    <3>3. FetchTime(p) >= FetchCycles
      <4>1. FetchCycles * p + FetchCycles <= FetchCycles * Places
        BY <1>3, FetchTimes, Geometry
      <4> QED BY <1>2, <1>3, <3>1, <4>1, Product, Geometry DEF FetchTime
    <3>4. FetchTime(p) > 0 /\ FetchTime(p) > 1 /\ FetchTime(p) > FetchCycles - 2
      BY <1>2, <1>3, <3>3, Geometry DEF FetchTime
    <3> QED BY <2>3, <3>2, <3>4, Zenon
  <2> QED BY <2>5, <2>6
<1>6. cycle = Width \/ cycle > Width
  BY <1>2, Geometry
<1> QED BY <1>4, <1>5, <1>6

(* A fetched place, and one after a shift more.                                 *)
LEMMA ShiftInPlace ==
  ASSUME NEW s \in Shown, NEW line, NEW n \in Nat, n < MaxX, InPlace(s, line, n),
         s.sprite # Cleared => OAM[s.sprite].x \in Nat
  PROVE  /\ Shift(s).sprite = s.sprite
         /\ InPlace(Shift(s), line, n + 1)
<1>1. /\ Shift(s).sprite = s.sprite /\ Shift(s).row = s.row
      /\ Shift(s).x = IF s.x > 0 THEN s.x - 1 ELSE s.x
      /\ Shift(s).column = IF s.x > 0 THEN s.column
                           ELSE IF s.column < Nothing THEN s.column + 1 ELSE s.column
  <2>1. CASE s.x > 0
    BY <2>1 DEF Shift, Shown
  <2>2. CASE ~(s.x > 0) /\ s.column < Nothing
    BY <2>2 DEF Shift, Shown
  <2>3. CASE ~(s.x > 0) /\ ~(s.column < Nothing)
    BY <2>3 DEF Shift
  <2> QED BY <2>1, <2>2, <2>3
<1>2. Shift(s).behind = s.behind
  BY Zenon DEF Shift, Shown
<1>3. s.x \in Nat /\ s.column \in 0..Nothing /\ Nothing \in Nat /\ Nothing > 0
  BY Geometry DEF Shown, Nothing
<1>4. CASE s.sprite = Cleared
  <2>1. s.column = Nothing \/ s.x + n = MaxX
    BY <1>4, Zenon DEF InPlace
  <2>2. Shift(s).column = Nothing \/ Shift(s).x + (n + 1) = MaxX
    BY <1>1, <1>3, <2>1, Geometry
  <2> QED BY <1>1, <1>4, <2>2, Zenon DEF InPlace
<1>5. CASE s.sprite # Cleared
  <2> DEFINE x == OAM[s.sprite].x
  <2>1. /\ s.row = RowAt(s.sprite, line) /\ s.behind = Behind(s.sprite)
        /\ s.x = IF x > n THEN x - n ELSE 0
        /\ s.column = IF x > n THEN 0 ELSE IF n - x < Nothing THEN n - x ELSE Nothing
    BY <1>5 DEF InPlace
  <2>2. x \in Nat
    BY <1>5
  <2>3. /\ Shift(s).x = IF x > n + 1 THEN x - (n + 1) ELSE 0
        /\ Shift(s).column = IF x > n + 1 THEN 0
                             ELSE IF n + 1 - x < Nothing THEN n + 1 - x ELSE Nothing
    <3> HIDE DEF x
    <3> QED BY <1>1, <1>3, <2>1, <2>2
  <2>4. Shift(s).behind = Behind(Shift(s).sprite)
    BY <1>1, <1>2, <2>1
  <2>5. Shift(s).row = RowAt(Shift(s).sprite, line)
    BY <1>1, <2>1
  <2> QED BY <1>1, <1>5, <2>3, <2>4, <2>5 DEF InPlace
<1> QED BY <1>4, <1>5


(* What is shown after a step that leaves OAM alone.                           *)
LEMMA DisplayedNext ==
  ASSUME OAM' = OAM, NEW l, l = LineBefore(scanline'), NEW n, n = Shifts',
         \A p \in Place :
           /\ shown'[p].sprite \in Found(l) \cup {Cleared}
           /\ shown'[p].sprite # Cleared => Before(shown'[p].sprite, l) <= p
           /\ InPlace(shown'[p], l, n),
         \A i \in Found(l) : Before(i, l) < Places => shown'[Before(i, l)].sprite = i
  PROVE  DisplayedFrom(LineBefore(scanline), Shifts)'
<1>0. LineBefore(scanline)' = l
  BY DEF LineBefore
<1>1. Found(LineBefore(scanline))' = Found(l)
  BY <1>0 DEF Found, InRange
<1>2. \A i : Before(i, LineBefore(scanline))' = Before(i, l)
  BY <1>1 DEF Before
<1>3. ASSUME NEW p \in Place
      PROVE  Before(shown[p].sprite, LineBefore(scanline))' = Before(shown'[p].sprite, l)
  BY <1>1 DEF Before
<1>4. ASSUME NEW p \in Place
      PROVE  InPlace(shown[p], LineBefore(scanline), Shifts)' <=> InPlace(shown'[p], l, n)
  BY <1>0 DEF InPlace, RowAt, Behind
<1> QED BY <1>1, <1>2, <1>3, <1>4 DEF DisplayedFrom

LEMMA DisplayedStep ==
  ASSUME Inv, InOrder, Loading, Displayed, PpuEdge
  PROVE  Displayed'
<1> SUFFICES ASSUME scanline' < Lines, cycle' <= Width + 1
             PROVE  DisplayedFrom(LineBefore(scanline), Shifts)'
  BY DEF Displayed
<1>1. /\ TypeOK /\ cycle \in Nat /\ cycle <= cycle_count /\ scanline \in Nat
      /\ scanline <= scanline_count /\ shown \in [Place -> Shown] /\ ShowSprites
      /\ OAM \in [Sprite -> OamEntry]
      /\ cycle' = IF cycle = cycle_count THEN 0 ELSE cycle + 1
      /\ scanline' = IF cycle # cycle_count THEN scanline
                     ELSE IF scanline = scanline_count THEN 0 ELSE scanline + 1
  BY Geometry DEF Inv, TypeOK, PpuEdge, Advance
<1>2. scanline # Lines + 1 /\ OnPicture
  BY <1>1, Geometry DEF OnPicture
<1>3. OAM' = OAM
  BY <1>2, OamOnPicture
<1>4. CASE cycle = cycle_count
  <2>1. LineBefore(scanline') = scanline /\ Shifts' = 0
    BY <1>1, <1>4, Geometry DEF LineBefore, Shifts
  <2>2. shown' = shown
    BY <1>1, <1>4, Geometry DEF ShowSprites, Fetching
  <2>3. cycle > Width /\ cycle > ClearCycles
    BY <1>4, Geometry
  <2>4. ASSUME NEW p \in Place
        PROVE  /\ shown[p].sprite = sprites[p] /\ shown[p].column = 0
               /\ shown[p].row = RowAt(sprites[p], scanline)
               /\ shown[p].x = FirstColumn(sprites[p])
               /\ shown[p].behind = Behind(sprites[p])
    <3>1. p \in Nat /\ p < Places /\ FetchCycles * p \in Nat
      BY Product, Geometry DEF Place
    <3>2. FetchCycles * p + FetchCycles <= FetchCycles * Places
      BY <3>1, FetchTimes, Geometry
    <3>3. FetchTime(p) > 0 /\ FetchTime(p) > 1 /\ FetchTime(p) > FetchCycles - 2
      BY <1>1, <1>4, <3>1, <3>2, Product, Geometry DEF FetchTime
    <3> QED BY <1>2, <2>3, <3>3, Zenon DEF Loading
  <2>5. /\ \A i \in Found(scanline) :
             Before(i, scanline) < Places => sprites[Before(i, scanline)] = i
        /\ \A p \in Place : sprites[p] \in Found(scanline) \cup {Cleared}
        /\ \A p \in Place : sprites[p] # Cleared => Before(sprites[p], scanline) <= p
    BY <1>2, <2>3, FirstHaveTheirs DEF InOrder
  <2>6. ASSUME NEW p \in Place
        PROVE  InPlace(shown[p], scanline, 0)
    <3>1. CASE sprites[p] = Cleared
      <4>1. shown[p].x + 0 = MaxX
        BY <2>4, <3>1, Geometry DEF FirstColumn
      <4> QED BY <2>4, <3>1, <4>1, Zenon DEF InPlace
    <3>2. CASE sprites[p] # Cleared
      <4>1. sprites[p] \in Sprite
        BY <1>1, <3>2 DEF TypeOK
      <4>2. OAM[sprites[p]].x \in Nat
        BY <1>1, <4>1, EntryTyped, Geometry
      <4>3. /\ shown[p].x = IF OAM[sprites[p]].x > 0 THEN OAM[sprites[p]].x - 0 ELSE 0
            /\ shown[p].column = IF OAM[sprites[p]].x > 0 THEN 0
                                 ELSE IF 0 - OAM[sprites[p]].x < Nothing
                                 THEN 0 - OAM[sprites[p]].x ELSE Nothing
        BY <2>4, <3>2, <4>2, Geometry DEF FirstColumn, Nothing
      <4> QED BY <2>4, <3>2, <4>3, Zenon DEF InPlace
    <3> QED BY <3>1, <3>2
  <2>7. ASSUME NEW i \in Found(scanline), Before(i, scanline) < Places
        PROVE  shown[Before(i, scanline)].sprite = i
    <3>1. Before(i, scanline) \in Place
      BY <2>7, BeforeCounts, Geometry DEF Place
    <3> QED BY <2>4, <2>5, <2>7, <3>1
  <2> QED BY <1>3, <2>1, <2>2, <2>4, <2>5, <2>6, <2>7, DisplayedNext
<1>5. CASE cycle # cycle_count
  <2> DEFINE l == LineBefore(scanline)
  <2>1. scanline' = scanline /\ cycle' = cycle + 1 /\ cycle <= Width
    BY <1>1, <1>5, Geometry
  <2>2. DisplayedFrom(l, Shifts)
    BY <1>1, <2>1, Geometry DEF Displayed
  <2>3. /\ \A p \in Place :
             /\ shown[p].sprite \in Found(l) \cup {Cleared}
             /\ shown[p].sprite # Cleared => Before(shown[p].sprite, l) <= p
             /\ InPlace(shown[p], l, Shifts)
        /\ \A i \in Found(l) : Before(i, l) < Places => shown[Before(i, l)].sprite = i
    BY <2>2, Zenon DEF DisplayedFrom
  <2>4. CASE cycle < 2
    <3>1. shown' = shown /\ Shifts' = Shifts
      BY <1>1, <2>1, <2>4, Geometry DEF ShowSprites, Shifts, Fetching
    <3> QED BY <1>3, <2>1, <2>3, <3>1, DisplayedNext
  <2>5. CASE cycle >= 2
    <3>1. Shifts \in Nat /\ Shifts < MaxX /\ Shifts' = Shifts + 1
      BY <1>1, <2>1, <2>5, Geometry DEF Shifts
    <3>2. \A p \in Place : shown'[p] = Shift(shown[p])
      BY <1>1, <1>2, <2>1, <2>5, Geometry DEF ShowSprites
    <3>3. ASSUME NEW p \in Place
          PROVE  /\ shown'[p].sprite = shown[p].sprite
                 /\ InPlace(shown'[p], l, Shifts + 1)
      <4>1. shown[p] \in Shown /\ InPlace(shown[p], l, Shifts)
        BY <1>1, <2>3
      <4>2. shown[p].sprite # Cleared => OAM[shown[p].sprite].x \in Nat
        BY <1>1, <4>1, EntryTyped, Geometry DEF Shown
      <4> QED BY <3>1, <3>2, <4>1, <4>2, ShiftInPlace
    <3>4. ASSUME NEW i \in Found(l), Before(i, l) < Places
          PROVE  shown'[Before(i, l)].sprite = i
      <4>1. Before(i, l) \in Place
        BY <3>4, BeforeCounts, Geometry DEF Place
      <4> QED BY <2>3, <3>3, <3>4, <4>1
    <3>5. \A p \in Place :
            /\ shown'[p].sprite \in Found(l) \cup {Cleared}
            /\ shown'[p].sprite # Cleared => Before(shown'[p].sprite, l) <= p
            /\ InPlace(shown'[p], l, Shifts')
      BY <2>3, <3>1, <3>3
    <3>6. l = LineBefore(scanline')
      BY <2>1
    <3> HIDE DEF l
    <3> QED BY <1>3, <3>4, <3>5, <3>6, DisplayedNext
  <2> QED BY <1>1, <2>4, <2>5
<1> QED BY <1>4, <1>5


-----------------------------------------------------------------------------
(* The pixel of a sprite.                                                      *)
SolidHere(i) ==
  /\ ColumnAt(i, cycle) < Nothing
  /\ <<LineBefore(scanline) - OAM[i].y, ColumnAt(i, cycle)>> \in Solid[i]

LEMMA SpriteOpaque ==
  ASSUME Inv, DisplayedFrom(LineBefore(scanline), Shifts), NEW blank,
         NEW p \in Place, shown[p].sprite # Cleared
  PROVE  /\ Opaque(shown[p], blank) <=> SolidHere(shown[p].sprite)
         /\ Opaque(shown[p], blank) => shown[p].column = ColumnAt(shown[p].sprite, cycle)
<1> DEFINE i == shown[p].sprite
           x == OAM[i].x
           n == Shifts
<1>1. i \in Sprite /\ cycle \in Nat /\ OAM \in [Sprite -> OamEntry]
  BY Geometry DEF Inv, TypeOK
<1>2. x \in Nat
  BY <1>1, EntryTyped, Geometry
<1>3. InPlace(shown[p], LineBefore(scanline), n)
  BY DEF DisplayedFrom
<1>4. /\ shown[p].x = IF x > n THEN x - n ELSE 0
      /\ shown[p].column = IF x > n THEN 0 ELSE IF n - x < Nothing THEN n - x ELSE Nothing
  BY <1>3, Zenon DEF InPlace
<1>5. ColumnAt(i, cycle) = IF cycle >= x + 2 THEN cycle - (x + 2) ELSE IF x = 0 THEN 0 ELSE Nothing
  BY DEF ColumnAt
<1>6. Nothing \in Nat /\ Nothing > 0
  BY Geometry DEF Nothing
<1>7. /\ shown[p].x = 0 /\ shown[p].column < Nothing <=> ColumnAt(i, cycle) < Nothing
      /\ shown[p].x = 0 /\ shown[p].column < Nothing => shown[p].column = ColumnAt(i, cycle)
  <2>1. n = IF cycle < 2 THEN 0 ELSE cycle - 2
    BY DEF Shifts
  <2> HIDE DEF x, n
  <2> QED BY <1>1, <1>2, <1>4, <1>5, <1>6, <2>1
<1>8. Opaque(shown[p], blank) <=> shown[p].x = 0 /\ shown[p].column < Nothing
                                 /\ <<shown[p].row, shown[p].column>> \in Solid[i]
  BY Zenon DEF Opaque
<1>9. shown[p].row = LineBefore(scanline) - OAM[i].y
  BY <1>3, Zenon DEF InPlace, RowAt
<1> HIDE DEF x, n
<1> QED BY <1>7, <1>8, <1>9 DEF SolidHere

LEMMA ClearedTransparent ==
  ASSUME Inv, DisplayedFrom(LineBefore(scanline), Shifts), cycle <= Width, NEW blank,
         NEW p \in Place, shown[p].sprite = Cleared
  PROVE  ~Opaque(shown[p], blank)
<1>1. shown[p].column = Nothing \/ shown[p].x + Shifts = MaxX
  <2>1. InPlace(shown[p], LineBefore(scanline), Shifts)
    BY DEF DisplayedFrom
  <2> QED BY <2>1, Zenon DEF InPlace
<1>2. Shifts \in Nat /\ Shifts < MaxX /\ Nothing \in Nat
  BY Geometry DEF Inv, TypeOK, Shifts, Nothing
<1>3. shown[p].x # 0 \/ ~(shown[p].column < Nothing)
  BY <1>1, <1>2, Geometry
<1> QED BY <1>3, Zenon DEF Opaque

(* Sprites in the order of OAM and of the places.                              *)
LEMMA BeforeOrders ==
  ASSUME NEW line, NEW i \in Found(line), NEW j \in Found(line),
         Before(i, line) <= Before(j, line)
  PROVE  i <= j
<1>1. i \in Nat /\ j \in Nat
  BY FoundFinite, Geometry DEF Sprite
<1>2. j < i => Before(j, line) < Before(i, line)
  BY <1>1, BeforeIncreases
<1> QED BY <1>1, <1>2, BeforeCounts

LEMMA FirstUnique ==
  ASSUME NEW T \in SUBSET Nat, NEW m \in T, \A k \in T : m <= k
  PROVE  First(T) = m
<1>1. First(T) \in T /\ \A k \in T : First(T) <= k
  BY DEF First
<1>2. First(T) <= m /\ m <= First(T) /\ First(T) \in Nat /\ m \in Nat
  BY <1>1
<1> HIDE DEF First
<1> QED BY <1>2

(* The first place that is opaque holds the first sprite that is solid there.    *)
LEMMA FirstDrawn ==
  ASSUME Inv, DisplayedFrom(LineBefore(scanline), Shifts), cycle <= Width, NEW blank
  PROVE  LET solid == SolidAt(scanline, cycle)
             p == First(Drawn(blank))
         IN  /\ Drawn(blank) = {} <=> solid = {}
             /\ solid # {} => /\ p \in Place /\ shown[p].sprite = First(solid)
                             /\ shown[p].sprite # Cleared
                             /\ shown[p].column = ColumnAt(First(solid), cycle)
<1> DEFINE solid == SolidAt(scanline, cycle)
           p == First(Drawn(blank))
           l == LineBefore(scanline)
<1>1. /\ \A q \in Place :
           /\ shown[q].sprite \in Found(l) \cup {Cleared}
           /\ shown[q].sprite # Cleared => Before(shown[q].sprite, l) <= q
      /\ \A i \in Found(l) : Before(i, l) < Places => shown[Before(i, l)].sprite = i
  BY Zenon DEF DisplayedFrom
<1>2. \A i : i \in solid <=> i \in Found(l) /\ Before(i, l) < Places /\ SolidHere(i)
  BY DEF SolidAt, Chosen, SolidHere
<1>3. \A i \in Found(l) : i \in Sprite /\ i # Cleared
  BY FoundFinite, Geometry DEF Sprite, Cleared
<1>4. ASSUME NEW i \in solid
      PROVE  Before(i, l) \in Drawn(blank)
  <2>1. Before(i, l) \in Place /\ shown[Before(i, l)].sprite = i /\ i # Cleared
    BY <1>1, <1>2, <1>3, BeforeCounts, Geometry DEF Place
  <2> QED BY <1>2, <2>1, SpriteOpaque DEF Drawn
<1>5. ASSUME NEW q \in Drawn(blank)
      PROVE  /\ q \in Place /\ shown[q].sprite \in solid
             /\ Before(shown[q].sprite, l) <= q
  <2>1. q \in Place /\ Opaque(shown[q], blank)
    BY DEF Drawn
  <2>2. shown[q].sprite # Cleared
    BY <2>1, ClearedTransparent
  <2>3. SolidHere(shown[q].sprite) /\ shown[q].sprite \in Found(l)
    BY <1>1, <2>1, <2>2, SpriteOpaque
  <2>4. Before(shown[q].sprite, l) <= q /\ Before(shown[q].sprite, l) \in Nat
        /\ q \in Nat /\ q < Places
    BY <1>1, <2>1, <2>2, BeforeCounts, Geometry DEF Place
  <2> QED BY <1>2, <2>1, <2>3, <2>4, Geometry
<1>6. Drawn(blank) = {} <=> solid = {}
  BY <1>4, <1>5
<1>7. ASSUME solid # {}
      PROVE  /\ p \in Place /\ shown[p].sprite = First(solid)
             /\ shown[p].sprite # Cleared
             /\ shown[p].column = ColumnAt(First(solid), cycle)
  <2>1. Drawn(blank) \in SUBSET (0..(Places - 1)) /\ Places - 1 \in Nat
    BY Geometry DEF Drawn, Place
  <2>2. p \in Drawn(blank) /\ \A q \in Drawn(blank) : p <= q
    BY <1>6, <1>7, <2>1, FirstLeast
  <2> DEFINE j == shown[p].sprite
  <2>3. p \in Place /\ j \in solid /\ Before(j, l) <= p
    BY <1>5, <2>2
  <2>4. ASSUME NEW i \in solid
        PROVE  j <= i
    <3>1. p <= Before(i, l) /\ Before(i, l) \in Nat /\ Before(j, l) \in Nat /\ p \in Nat
      BY <1>4, <2>2, <2>3, BeforeCounts, Geometry DEF Place
    <3>2. Before(j, l) <= Before(i, l)
      BY <2>3, <3>1
    <3>3. i \in Found(l) /\ j \in Found(l)
      BY <1>2, <2>3
    <3> HIDE DEF j, l
    <3> QED BY <3>2, <3>3, BeforeOrders
  <2>5. solid \in SUBSET Nat
    BY <1>2, <1>3, Geometry DEF Sprite
  <2>6. First(solid) = j
    <3> HIDE DEF j, solid
    <3> QED BY <2>3, <2>4, <2>5, FirstUnique
  <2>7. j # Cleared
    BY <1>2, <1>3, <2>3
  <2>8. shown[p].column = ColumnAt(j, cycle)
    <3>1. Opaque(shown[p], blank)
      BY <2>2 DEF Drawn
    <3> QED BY <2>3, <2>7, <3>1, SpriteOpaque
  <2> QED BY <2>3, <2>6, <2>7, <2>8
<1> QED BY <1>6, <1>7

(* The pixel drawn is the one the line should show.                             *)
LEMMA PixelDrawn ==
  ASSUME Inv, DisplayedFrom(LineBefore(scanline), Shifts), cycle <= Width,
         NEW background \in {cycle \in OpaqueAt}, NEW blank
  PROVE  color_idx(background, blank) = Reference(scanline, cycle)
<1> DEFINE solid == SolidAt(scanline, cycle)
           p == First(Drawn(blank))
           i == First(solid)
<1>1. /\ Drawn(blank) = {} <=> solid = {}
      /\ solid # {} => /\ p \in Place /\ shown[p].sprite = i
                      /\ shown[p].sprite # Cleared
                      /\ shown[p].column = ColumnAt(i, cycle)
  BY FirstDrawn
<1>2. background <=> cycle \in OpaqueAt
  OBVIOUS
<1>3. CASE solid = {}
  BY <1>1, <1>2, <1>3 DEF color_idx, Reference
<1>4. CASE solid # {}
  <2>1. InPlace(shown[p], LineBefore(scanline), Shifts)
    BY <1>1, <1>4 DEF DisplayedFrom
  <2>2. shown[p].row = LineBefore(scanline) - OAM[i].y
    BY <1>1, <1>4, <2>1, Zenon DEF InPlace, RowAt
  <2>3. shown[p].behind = OAM[i].behind
    <3>1. shown[p].behind = Behind(shown[p].sprite)
      BY <1>1, <1>4, <2>1, Zenon DEF InPlace
    <3>2. shown[p].behind \in BOOLEAN
      BY <1>1, <1>4 DEF Inv, Shown
    <3>3. OAM[i].behind \in BOOLEAN
      <4>1. i \in Sprite
        BY <1>1, <1>4 DEF Inv, TypeOK
      <4> QED BY <4>1, EntryTyped DEF Inv
    <3> QED BY <1>1, <1>4, <3>1, <3>2, <3>3, Zenon DEF Behind
  <2>4. SpritePixel(shown[p]) = [of |-> i, row |-> LineBefore(scanline) - OAM[i].y,
                                 at |-> ColumnAt(i, cycle)]
    BY <1>1, <1>4, <2>2 DEF SpritePixel
  <2> QED BY <1>1, <1>2, <1>4, <2>3, <2>4, Zenon DEF color_idx, Reference
<1> QED BY <1>3, <1>4


-----------------------------------------------------------------------------
(* The flag of the hit on sprite 0.                                            *)
Possible ==
  OnPicture =>
    /\ cycle > ClearCycles + 1 /\ 0 \in Found(scanline) => sprite0_hit_possible
    /\ cycle > 0 /\ sprite0_hit_possible => 0 \in Found(scanline)

HitSoFar ==
  scanline < Lines /\ 0 \in Found(scanline) =>
    \A index \in OpaqueAt \cap (ClearCycles + 2)..(Width + 1) :
      index < cycle /\ 0 \in SolidAt(scanline, index) => sprite0_hit

LEMMA PossibleStep ==
  ASSUME Inv, Possible, PpuEdge
  PROVE  Possible'
<1> SUFFICES ASSUME OnPicture'
             PROVE  /\ cycle' > ClearCycles + 1 /\ 0 \in Found(scanline)' => sprite0_hit_possible'
                    /\ cycle' > 0 /\ sprite0_hit_possible' => 0 \in Found(scanline)'
  BY DEF Possible
<1>1. cycle' \in Nat
  BY Geometry DEF Inv, TypeOK, PpuEdge, Advance
<1>2. CASE cycle' = 0
  BY <1>2, Geometry
<1>3. CASE cycle' # 0
  <2>1. /\ TypeOK /\ OnPicture /\ cycle \in Nat /\ cycle' = cycle + 1
        /\ Found(scanline)' = Found(scanline) /\ Evaluate
    BY <1>1, <1>3, OnALine DEF PpuEdge
  <2>2. CASE cycle = 0
    <3>1. ~sprite0_hit_possible'
      BY <2>1, <2>2 DEF Evaluate, StartLine
    <3> QED BY <2>1, <2>2, <3>1, Geometry
  <2>3. CASE Looking
    <3>1. EvaluateSprite
      BY <2>1, <2>3, Geometry DEF Evaluate, Looking
    <3>2. cycle = ClearCycles + 1 => sprite_oam_idx = 0
      BY <2>1, Geometry DEF Inv, Cleaning
    <3>3. sprite0_hit_possible' <=>
            sprite0_hit_possible \/ (sprite_oam_idx = 0 /\ sprite_oam_idx \in Found(scanline))
      <4>1. sprite_oam_idx \in Found(scanline) <=> InRange(sprite_oam_idx, scanline)
        BY <2>1 DEF Found, TypeOK
      <4>2. CASE InRange(sprite_oam_idx, scanline)
        BY <3>1, <4>1, <4>2, Zenon DEF EvaluateSprite
      <4>3. CASE ~InRange(sprite_oam_idx, scanline)
        BY <3>1, <4>1, <4>3, Zenon DEF EvaluateSprite
      <4> QED BY <4>2, <4>3
    <3> QED BY <2>1, <2>3, <3>2, <3>3, Geometry DEF Possible, Looking
  <2>4. CASE cycle # 0 /\ ~Looking
    <3>1. sprite0_hit_possible' = sprite0_hit_possible
      BY <2>1, <2>4 DEF Evaluate, Clear, Looking
    <3>2. cycle = ClearCycles + 1 => Looking
      <4>1. cycle = ClearCycles + 1 => sprite_counter = 0
        BY <2>1, Geometry DEF Inv, Cleaning
      <4> QED BY <2>1, <4>1, Geometry DEF Looking
    <3> QED BY <2>1, <2>4, <3>1, <3>2, Geometry DEF Possible
  <2> QED BY <2>2, <2>3, <2>4
<1> QED BY <1>2, <1>3

(* Sprite 0 among those a line has chosen is in the first place.               *)
LEMMA ZeroFirst ==
  ASSUME Inv, DisplayedFrom(LineBefore(scanline), Shifts), 0 \in Chosen(scanline), NEW blank
  PROVE  /\ 0 \in Place /\ shown[0].sprite = 0
         /\ Opaque(shown[0], blank) <=> 0 \in SolidAt(scanline, cycle)
<1>1. 0 \in Found(LineBefore(scanline)) /\ 0 \in Place /\ 0 # Cleared
  BY Geometry DEF Chosen, Place, Cleared
<1>2. Before(0, LineBefore(scanline)) = 0
  BY BeforeEnds
<1>3. shown[0].sprite = 0
  BY <1>1, <1>2, Geometry DEF DisplayedFrom
<1>4. Opaque(shown[0], blank) <=> SolidHere(0)
  BY <1>1, <1>3, SpriteOpaque
<1>5. 0 \in SolidAt(scanline, cycle) <=> SolidHere(0)
  BY DEF SolidAt, SolidHere
<1> QED BY <1>1, <1>3, <1>4, <1>5

LEMMA SolidStays ==
  ASSUME OAM' = OAM, NEW line
  PROVE  /\ Chosen(line)' = Chosen(line)
         /\ \A i, index : ColumnAt(i, index)' = ColumnAt(i, index)
         /\ \A index : SolidAt(line, index)' = SolidAt(line, index)
<1>1. Found(LineBefore(line))' = Found(LineBefore(line))
  BY DEF Found, InRange, LineBefore
<1>2. ASSUME NEW i
      PROVE  Before(i, LineBefore(line))' = Before(i, LineBefore(line))
  BY <1>1 DEF Before
<1>3. Chosen(line)' = Chosen(line)
  BY <1>1, <1>2 DEF Chosen
<1>4. \A i, index : ColumnAt(i, index)' = ColumnAt(i, index)
  BY DEF ColumnAt
<1>5. \A index : SolidAt(line, index)' = SolidAt(line, index)
  BY <1>3, <1>4 DEF SolidAt, LineBefore
<1> QED BY <1>3, <1>4, <1>5

LEMMA SolidNext ==
  ASSUME OAM' = OAM, NEW l, l = scanline'
  PROVE  \A index : SolidAt(scanline, index)' = SolidAt(l, index)
<1>1. LineBefore(scanline)' = LineBefore(l)
  BY DEF LineBefore
<1>2. Found(LineBefore(scanline))' = Found(LineBefore(l))
  BY <1>1 DEF Found, InRange
<1>3. ASSUME NEW i
      PROVE  Before(i, LineBefore(scanline))' = Before(i, LineBefore(l))
  BY <1>2 DEF Before
<1>4. Chosen(scanline)' = Chosen(l)
  BY <1>2, <1>3 DEF Chosen
<1>5. \A i, index : ColumnAt(i, index)' = ColumnAt(i, index)
  BY DEF ColumnAt
<1> QED BY <1>1, <1>4, <1>5 DEF SolidAt

LEMMA HitStep ==
  ASSUME Inv, Displayed, Possible, HitSoFar, PpuEdge
  PROVE  HitSoFar'
<1> SUFFICES ASSUME scanline' < Lines, 0 \in Found(scanline)',
                    NEW index \in OpaqueAt \cap (ClearCycles + 2)..(Width + 1),
                    index < cycle', 0 \in SolidAt(scanline, index)'
             PROVE  sprite0_hit'
  BY DEF HitSoFar
<1>1. cycle' \in Nat /\ scanline' \in Nat /\ scanline \in Nat /\ TypeOK
  BY Geometry DEF Inv, TypeOK, PpuEdge, Advance
<1>2. index \in Nat /\ cycle' > 0 /\ OnPicture'
  BY <1>1, Geometry DEF OnPicture
<1>3. /\ OnPicture /\ cycle \in Nat /\ cycle' = cycle + 1
      /\ scanline' = scanline /\ scanline < Lines
      /\ Found(scanline)' = Found(scanline)
  BY <1>2, OnALine
<1>4. OAM' = OAM
  BY <1>1, <1>3, OamOnPicture, Geometry
<1>5. 0 \in SolidAt(scanline, index)
  <2>1. PICK l : l = scanline
    OBVIOUS
  <2>2. SolidAt(scanline, index)' = SolidAt(l, index)
    BY <1>3, <1>4, <2>1, SolidNext
  <2> QED BY <2>1, <2>2
<1>6. PICK background \in Backgrounds, blank \in Blanks : Hit(background, blank)
  BY DEF PpuEdge
<1>7. sprite0_hit' <=> sprite0_hit \/ set_sprite0_hit(background, blank)
  <2>1. scanline # scanline_count
    BY <1>3, Geometry
  <2> QED BY <1>6, <2>1, Zenon DEF Hit
<1>8. CASE index < cycle
  BY <1>3, <1>5, <1>7, <1>8 DEF HitSoFar
<1>9. CASE ~(index < cycle)
  <2>1. index = cycle /\ cycle <= Width + 1 /\ cycle > ClearCycles + 1 /\ cycle >= 1
    BY <1>2, <1>3, <1>9, Geometry
  <2>2. background
    BY <1>3, <2>1 DEF Backgrounds
  <2>3. sprite0_hit_possible
    BY <1>3, <2>1 DEF Possible
  <2>4. DisplayedFrom(LineBefore(scanline), Shifts)
    BY <1>3, <2>1 DEF Displayed
  <2>5. 0 \in Chosen(scanline) /\ 0 \in SolidAt(scanline, cycle)
    BY <1>5, <2>1 DEF SolidAt
  <2>6. 0 \in Drawn(blank)
    BY <2>4, <2>5, ZeroFirst DEF Drawn
  <2>7. First(Drawn(blank)) = 0
    <3>1. Drawn(blank) \in SUBSET Nat /\ \A q \in Drawn(blank) : 0 <= q
      BY Geometry DEF Drawn, Place
    <3> QED BY <2>6, <3>1, FirstUnique
  <2> QED BY <1>7, <2>1, <2>2, <2>3, <2>6, <2>7, Geometry DEF set_sprite0_hit
<1> QED BY <1>8, <1>9


-----------------------------------------------------------------------------
(* The two buffers and the beam.                                               *)
Colour == [of : Nat, row : Int, at : Nat]

Buffers ==
  /\ linebuffer \in [0..1 -> [Column -> Colour]]
  /\ ppu_linebuffer \in 0..1

LineDrawn ==
  \A line \in 0..(Lines - 1), i \in Column :
    line = scanline /\ i < cycle => linebuffer[ppu_linebuffer][i] = Reference(line, i)

LineShown ==
  \A line \in 0..(Lines - 1), i \in Column :
    line = scanline - 1 => linebuffer[vga_linebuffer][i] = Reference(line, i)

(* The beam is two lines of the VGA behind: at tick t of the pair that shows the  *)
(* line before, at most one tick into the next pair.                            *)
Beam(line, t) ==
  \/ t <= h_tot /\ vcount = 2 * LineBefore(line) /\ hcount = t
  \/ /\ t > h_tot /\ t < 2 * (h_tot + 1)
     /\ vcount = 2 * LineBefore(line) + 1 /\ hcount = t - h_tot - 1
  \/ t = 2 * (h_tot + 1) /\ vcount = 2 * line /\ hcount = 0

Tick(lead) == 2 * cycle + lead + (IF ppuEdge THEN 1 ELSE 0)

InStep == \E lead \in 0..1 : Beam(scanline, Tick(lead))

Unblanked == blank_n => hcount \in 1..h_active /\ vcount < v_active

LEMMA ReferenceStays ==
  ASSUME OAM' = OAM, NEW line, NEW index
  PROVE  Reference(line, index)' = Reference(line, index)
<1>1. SolidAt(line, index)' = SolidAt(line, index)
      /\ \A i : ColumnAt(i, index)' = ColumnAt(i, index)
  BY SolidStays
<1>2. First(SolidAt(line, index))' = First(SolidAt(line, index))
  BY <1>1 DEF First
<1>3. ColumnAt(First(SolidAt(line, index)), index)' = ColumnAt(First(SolidAt(line, index)), index)
  BY <1>2 DEF ColumnAt
<1> QED BY <1>1, <1>2, <1>3 DEF Reference, Background, Backdrop, LineBefore

(* The VGA counters by one tick.                                               *)
LEMMA BeamStep ==
  ASSUME VgaEdge, NEW t \in Nat, t < 2 * (h_tot + 1), NEW u, u = t + 1,
         NEW line \in 0..scanline_count, Beam(line, t)
  PROVE  Beam(line, u)'
<1>1. h_tot \in Nat /\ v_tot = 2 * scanline_count + 1
  BY Geometry DEF h_tot, v_tot
<1>2. PICK first : first = 2 * LineBefore(line)
  OBVIOUS
<1>3. /\ first \in Nat /\ first < v_tot
      /\ IF first + 1 = v_tot THEN line = 0 ELSE first + 2 = 2 * line
  BY <1>1, <1>2, Geometry DEF LineBefore
<1>4. /\ hcount' = IF hcount = h_tot THEN 0 ELSE hcount + 1
      /\ vcount' = IF hcount # h_tot THEN vcount ELSE IF vcount = v_tot THEN 0 ELSE vcount + 1
  BY DEF VgaEdge
<1>5. \/ t <= h_tot /\ vcount = first /\ hcount = t
      \/ t > h_tot /\ vcount = first + 1 /\ hcount = t - h_tot - 1
  BY <1>1, <1>2 DEF Beam
<1>6. \/ u <= h_tot /\ vcount' = first /\ hcount' = u
      \/ /\ u > h_tot /\ u < 2 * (h_tot + 1)
         /\ vcount' = first + 1 /\ hcount' = u - h_tot - 1
      \/ u = 2 * (h_tot + 1) /\ vcount' = 2 * line /\ hcount' = 0
  BY <1>1, <1>3, <1>4, <1>5
<1> QED BY <1>2, <1>6 DEF Beam, h_tot, LineBefore

LEMMA UnblankedStep ==
  ASSUME TypeOK, VgaEdge
  PROVE  Unblanked'
<1>1. /\ hcount \in Nat /\ h_active \in Nat /\ h_active < h_tot
      /\ h_active' = h_active /\ v_active' = v_active
  BY Geometry DEF TypeOK, h_active, h_tot, v_active
<1>2. /\ blank_n' <=> hcount < h_active /\ vcount < v_active
      /\ hcount' = IF hcount = h_tot THEN 0 ELSE hcount + 1
      /\ vcount' = IF hcount # h_tot THEN vcount ELSE IF vcount = v_tot THEN 0 ELSE vcount + 1
  BY Zenon DEF VgaEdge
<1>3. blank_n' => hcount' \in 1..h_active /\ vcount' < v_active
  BY <1>1, <1>2
<1> QED BY <1>1, <1>3 DEF Unblanked

(* The PPU's tick fixes where the beam is, to one tick of the VGA clock.         *)
LEMMA InStepFrom ==
  ASSUME NEW lead \in 0..1, NEW l, l = scanline',
         NEW t, t = 2 * cycle' + lead + (IF ppuEdge' THEN 1 ELSE 0), Beam(l, t)'
  PROVE  InStep'
BY DEF InStep, Tick, Beam, LineBefore, h_tot

LEMMA InStepNext ==
  ASSUME Inv, InStep, Next
  PROVE  InStep'
<1>1. PICK lead \in 0..1 : Beam(scanline, Tick(lead))
  BY DEF InStep
<1>2. PICK l : l = scanline
  OBVIOUS
<1>3. PICK t : t = Tick(lead)
  OBVIOUS
<1>4. Beam(l, t)
  BY <1>1, <1>2, <1>3
<1>5. /\ cycle \in Nat /\ cycle <= cycle_count /\ l \in 0..scanline_count
      /\ ppuEdge \in BOOLEAN /\ h_tot = cycle_count /\ cycle_count \in Nat \ {0}
  BY <1>2, Geometry DEF Inv, TypeOK, h_tot
<1>6. /\ VgaEdge
      /\ t = 2 * cycle + lead + (IF ppuEdge THEN 1 ELSE 0) /\ t \in Nat
  BY <1>3, <1>5 DEF Next, CommonEdge, VideoEdge, Tick
<1>7. CASE VideoEdge
  <2>1. ~ppuEdge /\ ppuEdge' /\ cycle' = cycle /\ scanline' = scanline
    BY <1>7 DEF VideoEdge, spriteVars
  <2>2. t < 2 * (h_tot + 1)
    BY <1>5, <1>6, <2>1
  <2>3. PICK u : u = t + 1
    OBVIOUS
  <2>4. Beam(l, u)'
    BY <1>4, <1>5, <1>6, <2>2, <2>3, BeamStep
  <2> QED BY <1>2, <1>5, <1>6, <2>1, <2>3, <2>4, InStepFrom
<1>8. CASE CommonEdge
  <2>1. /\ ppuEdge /\ ~ppuEdge'
        /\ cycle' = IF cycle = cycle_count THEN 0 ELSE cycle + 1
        /\ scanline' = IF cycle # cycle_count THEN scanline
                       ELSE IF scanline = scanline_count THEN 0 ELSE scanline + 1
    BY <1>8 DEF CommonEdge, PpuEdge, Advance
  <2>2. CASE cycle # cycle_count
    <3>1. t < 2 * (h_tot + 1)
      BY <1>5, <1>6, <2>1, <2>2
    <3>2. PICK u : u = t + 1
      OBVIOUS
    <3>3. Beam(l, u)'
      BY <1>4, <1>5, <1>6, <3>1, <3>2, BeamStep
    <3>4. u = 2 * cycle' + lead + (IF ppuEdge' THEN 1 ELSE 0) /\ l = scanline'
      BY <1>2, <1>5, <1>6, <2>1, <2>2, <3>2
    <3> QED BY <3>3, <3>4, InStepFrom
  <2>3. CASE cycle = cycle_count
    <3>1. PICK m : m = scanline'
      OBVIOUS
    <3>2. LineBefore(m) = l
      BY <1>2, <1>5, <2>1, <2>3, <3>1, Geometry DEF LineBefore
    <3>3. vcount' = 2 * l /\ hcount' = lead
      <4>1. CASE lead = 0
        <5>1. PICK u : u = t + 1
          OBVIOUS
        <5>2. t < 2 * (h_tot + 1) /\ u = 2 * (h_tot + 1)
          BY <1>5, <1>6, <2>1, <2>3, <4>1, <5>1
        <5>3. Beam(l, u)'
          BY <1>4, <1>5, <1>6, <5>1, <5>2, BeamStep
        <5>4. ~(u <= h_tot) /\ ~(u < 2 * (h_tot + 1))
          BY <1>5, <5>2
        <5> QED BY <1>5, <4>1, <5>3, <5>4 DEF Beam, h_tot, LineBefore
      <4>2. CASE lead = 1
        <5>1. ~(t <= h_tot) /\ ~(t < 2 * (h_tot + 1))
          BY <1>5, <1>6, <2>1, <2>3, <4>2
        <5>2. vcount = 2 * l /\ hcount = 0
          BY <1>4, <5>1, Zenon DEF Beam
        <5> QED BY <1>5, <1>6, <4>2, <5>2 DEF VgaEdge
      <4> QED BY <4>1, <4>2
    <3>4. PICK u : u = lead
      OBVIOUS
    <3>5. Beam(m, u)'
      <4>1. u <= h_tot /\ vcount' = 2 * LineBefore(m) /\ hcount' = u
        BY <1>5, <3>2, <3>3, <3>4
      <4> QED BY <4>1 DEF Beam, h_tot, LineBefore
    <3>6. u = 2 * cycle' + lead + (IF ppuEdge' THEN 1 ELSE 0)
      BY <2>1, <2>3, <3>4
    <3> QED BY <3>1, <3>5, <3>6, InStepFrom
  <2> QED BY <2>2, <2>3
<1> QED BY <1>7, <1>8 DEF Next

(* The buffer the PPU draws into.                                              *)
LEMMA OneElement ==
  ASSUME NEW B, NEW C, NEW S, NEW f \in [B -> [C -> S]], NEW b \in B, NEW c \in C, NEW v \in S,
         NEW g, g = [f EXCEPT ![b][c] = v]
  PROVE  /\ g \in [B -> [C -> S]]
         /\ g[b][c] = v
         /\ \A d \in B, e \in C : d # b \/ e # c => g[d][e] = f[d][e]
OBVIOUS

LEMMA Coloured ==
  ASSUME Inv, NEW background, NEW blank
  PROVE  color_idx(background, blank) \in Colour /\ Fill \in Colour
<1>1. NSprites \in Nat /\ Cleared \in Nat /\ Fill \in Colour /\ Backdrop \in Colour
  BY Geometry DEF Cleared, Fill, Backdrop, Colour
<1>2. Background(scanline, cycle) \in Colour
  BY <1>1, Geometry DEF Background, Colour, Inv, TypeOK
<1>3. ASSUME Drawn(blank) # {}
      PROVE  SpritePixel(shown[First(Drawn(blank))]) \in Colour
  <2>1. Drawn(blank) \in SUBSET (0..(Places - 1)) /\ Places - 1 \in Nat
    BY Geometry DEF Drawn, Place
  <2>2. First(Drawn(blank)) \in Place
    BY <1>3, <2>1, FirstLeast DEF Place
  <2>3. PICK s \in Shown : s = shown[First(Drawn(blank))]
    BY <2>2 DEF Inv
  <2>4. s.sprite \in Nat /\ s.row \in Int /\ s.column \in Nat
    BY <1>1, Geometry DEF Shown, Sprite, Nothing
  <2> QED BY <2>3, <2>4 DEF SpritePixel, Colour
<1> QED BY <1>1, <1>2, <1>3 DEF color_idx

LEMMA DrawStep ==
  ASSUME Inv, Displayed, Buffers, PpuEdge
  PROVE  /\ Buffers'
         /\ \A b \in 0..1, i \in Column :
              b # ppu_linebuffer \/ i # cycle => linebuffer'[b][i] = linebuffer[b][i]
         /\ scanline < Lines /\ cycle \in Column =>
              linebuffer'[ppu_linebuffer][cycle] = Reference(scanline, cycle)
<1>1. PICK background \in Backgrounds, blank \in Blanks :
        DrawPixel(IF scanline < Lines THEN color_idx(background, blank) ELSE Fill)
  BY DEF PpuEdge
<1>2. PICK colour \in Colour :
        colour = IF scanline < Lines THEN color_idx(background, blank) ELSE Fill
  BY Coloured
<1>3. linebuffer \in [0..1 -> [Column -> Colour]] /\ ppu_linebuffer \in 0..1
  BY DEF Buffers
<1>4. ppu_linebuffer' \in 0..1
  BY <1>3 DEF PpuEdge, SwapBuffers
<1>5. CASE cycle \notin Column
  <2>1. linebuffer' = linebuffer
    BY <1>1, <1>5 DEF DrawPixel
  <2> QED BY <1>3, <1>4, <1>5, <2>1 DEF Buffers
<1>6. CASE cycle \in Column
  <2>1. linebuffer' = [linebuffer EXCEPT ![ppu_linebuffer][cycle] = colour]
    BY <1>1, <1>2, <1>6 DEF DrawPixel
  <2>2. /\ linebuffer' \in [0..1 -> [Column -> Colour]]
        /\ linebuffer'[ppu_linebuffer][cycle] = colour
        /\ \A b \in 0..1, i \in Column :
             b # ppu_linebuffer \/ i # cycle => linebuffer'[b][i] = linebuffer[b][i]
    BY <1>3, <1>6, <2>1, OneElement
  <2>3. ASSUME scanline < Lines
        PROVE  colour = Reference(scanline, cycle)
    <3>1. background \in {cycle \in OpaqueAt}
      BY <2>3 DEF Backgrounds
    <3>2. cycle <= Width /\ cycle <= Width + 1
      BY <1>6, Geometry DEF Column
    <3>3. DisplayedFrom(LineBefore(scanline), Shifts)
      BY <2>3, <3>2 DEF Displayed
    <3> QED BY <1>2, <2>3, <3>1, <3>2, <3>3, PixelDrawn
  <2> QED BY <1>4, <2>2, <2>3 DEF Buffers
<1> QED BY <1>5, <1>6

LEMMA LineDrawnStep ==
  ASSUME Inv, Displayed, Buffers, LineDrawn, PpuEdge
  PROVE  LineDrawn'
<1> SUFFICES ASSUME NEW line \in 0..(Lines - 1), NEW i \in Column, line = scanline', i < cycle'
             PROVE  linebuffer'[ppu_linebuffer'][i] = Reference(line, i)'
  BY DEF LineDrawn
<1>1. cycle' \in Nat /\ cycle' > 0 /\ i \in Nat /\ line < Lines /\ cycle' <= cycle_count
  BY Geometry DEF Inv, TypeOK, PpuEdge, Advance, Column
<1>2. OnPicture'
  BY <1>1 DEF OnPicture
<1>3. cycle \in Nat /\ cycle' = cycle + 1 /\ line = scanline
  BY <1>1, <1>2, OnALine
<1>4. ppu_linebuffer' = ppu_linebuffer /\ ppu_linebuffer \in 0..1
  BY <1>1, <1>3, Geometry DEF PpuEdge, SwapBuffers, Buffers
<1>5. OAM' = OAM
  BY <1>1, <1>3, OamOnPicture, Geometry
<1>6. Reference(line, i)' = Reference(line, i)
  BY <1>5, ReferenceStays
<1>7. CASE i = cycle
  BY <1>1, <1>3, <1>4, <1>6, <1>7, DrawStep
<1>8. CASE i # cycle
  <2>1. i < cycle
    BY <1>1, <1>3, <1>8
  <2> QED BY <1>3, <1>4, <1>6, <1>8, <2>1, DrawStep DEF LineDrawn
<1> QED BY <1>7, <1>8

(* The buffer a line was drawn into is shown all through the next line.          *)
LEMMA LineShownStep ==
  ASSUME Inv, Displayed, Buffers, LineDrawn, LineShown, PpuEdge
  PROVE  LineShown'
<1> SUFFICES ASSUME NEW line \in 0..(Lines - 1), NEW i \in Column, line = scanline' - 1
             PROVE  linebuffer'[vga_linebuffer'][i] = Reference(line, i)'
  BY DEF LineShown
<1>1. /\ cycle \in Nat /\ i \in Nat /\ line \in Nat /\ line < Lines
      /\ cycle <= cycle_count /\ scanline \in Nat /\ i < Width
      /\ ppu_linebuffer \in 0..1
  BY Geometry DEF Inv, TypeOK, Column
<1>2. /\ scanline' = IF cycle # cycle_count THEN scanline
                     ELSE IF scanline = scanline_count THEN 0 ELSE scanline + 1
      /\ ppu_linebuffer' = IF cycle = cycle_count THEN 1 - ppu_linebuffer ELSE ppu_linebuffer
  BY DEF PpuEdge, Advance, SwapBuffers
<1>3. scanline # Lines + 1
  BY <1>1, <1>2, Geometry
<1>4. Reference(line, i)' = Reference(line, i)
  BY <1>3, OamOnPicture, ReferenceStays
<1>5. CASE cycle = cycle_count
  <2>1. line = scanline /\ i < cycle /\ vga_linebuffer' = ppu_linebuffer /\ i # cycle
    BY <1>1, <1>2, <1>5, Geometry DEF vga_linebuffer
  <2> QED BY <1>1, <1>4, <2>1, DrawStep DEF LineDrawn
<1>6. CASE cycle # cycle_count
  <2>1. /\ line = scanline - 1 /\ vga_linebuffer' = vga_linebuffer
        /\ vga_linebuffer \in 0..1 /\ vga_linebuffer # ppu_linebuffer
    BY <1>1, <1>2, <1>6 DEF vga_linebuffer
  <2> QED BY <1>4, <2>1, DrawStep DEF LineShown
<1> QED BY <1>5, <1>6

-----------------------------------------------------------------------------
(* The invariant of the whole path.                                            *)
Path ==
  /\ InOrder
  /\ Loading
  /\ Displayed
  /\ Possible
  /\ HitSoFar
  /\ Buffers
  /\ LineDrawn
  /\ LineShown

VInv == Inv /\ Path /\ InStep /\ Unblanked

LEMMA InitVInv == Init => VInv
<1> SUFFICES ASSUME Init PROVE VInv
  OBVIOUS
<1>1. Inv
  BY InitInv
<1>2. /\ cycle = 0 /\ scanline = 0 /\ ~sprite0_hit_possible
      /\ OAM = [i \in Sprite |-> [y |-> 0, x |-> 0, behind |-> FALSE]]
      /\ shown = [p \in Place |->
           [sprite |-> Cleared, row |-> 0, x |-> 0, column |-> Nothing, behind |-> FALSE]]
  BY DEF Init, SpritesInit
<1>3. InOrder /\ Loading /\ Possible /\ HitSoFar
  BY <1>2, Geometry DEF InOrder, Loading, Possible, HitSoFar
<1>4. Displayed
  <2>1. LineBefore(scanline) = scanline_count
    BY <1>2 DEF LineBefore
  <2>2. Found(scanline_count) = {}
    BY <1>2, Geometry DEF Found, InRange
  <2>3. \A p \in Place : shown[p].sprite = Cleared /\ shown[p].column = Nothing
    BY <1>2
  <2>4. \A p \in Place : InPlace(shown[p], scanline_count, Shifts)
    BY <2>3, Zenon DEF InPlace
  <2> QED BY <2>1, <2>2, <2>3, <2>4 DEF Displayed, DisplayedFrom
<1>5. Buffers
  BY Geometry DEF Init, Buffers, Black, Colour
<1>6. LineDrawn /\ LineShown
  BY <1>2, Geometry DEF LineDrawn, LineShown, Column
<1>7. InStep
  <2>1. PICK lead \in 0..1 : hcount = lead
    BY DEF Init
  <2>2. vcount = 2 * LineBefore(scanline) /\ ~ppuEdge
    BY <1>2, Geometry DEF Init, v_tot, LineBefore
  <2>3. Tick(lead) = lead /\ lead <= h_tot
    BY <1>2, <2>2, Geometry DEF Tick, h_tot
  <2> QED BY <2>1, <2>2, <2>3 DEF InStep, Beam
<1>8. Unblanked
  BY DEF Init, Unblanked
<1> QED BY <1>1, <1>3, <1>4, <1>5, <1>6, <1>7, <1>8 DEF VInv, Path

(* An edge of the VGA clock alone leaves the PPU as it is.                      *)
LEMMA PathStays ==
  ASSUME Path, UNCHANGED <<spriteVars, linebuffer, ppu_linebuffer>>
  PROVE  Path'
<1>1. /\ UNCHANGED <<OAM, shown, cycle, scanline, sprites, sprite0_hit>>
      /\ UNCHANGED <<sprite0_hit_possible, linebuffer, ppu_linebuffer>>
  BY DEF spriteVars
<1>2. Found(scanline)' = Found(scanline) /\ (OnPicture' <=> OnPicture)
  BY <1>1 DEF Found, InRange, OnPicture
<1>3. \A n : Before(n, scanline)' = Before(n, scanline)
  BY <1>1, <1>2 DEF Before
<1>4. InOrder'
  BY <1>1, <1>2, <1>3 DEF Path, InOrder
<1>5. Loading'
  BY <1>1, <1>2 DEF Path, Loading, FetchTime, Behind, FirstColumn, RowAt
<1>6. Displayed'
  <2>1. Found(LineBefore(scanline))' = Found(LineBefore(scanline))
    BY <1>1 DEF Found, InRange, LineBefore
  <2>2. \A n : Before(n, LineBefore(scanline))' = Before(n, LineBefore(scanline))
    BY <1>1, <2>1 DEF Before
  <2>3. ASSUME NEW p \in Place
        PROVE  InPlace(shown[p], LineBefore(scanline), Shifts)' <=>
               InPlace(shown[p], LineBefore(scanline), Shifts)
    BY <1>1 DEF InPlace, RowAt, Behind, LineBefore, Shifts
  <2>4. DisplayedFrom(LineBefore(scanline), Shifts)' <=>
        DisplayedFrom(LineBefore(scanline), Shifts)
    BY <1>1, <2>1, <2>2, <2>3 DEF DisplayedFrom
  <2> QED BY <1>1, <2>4 DEF Path, Displayed
<1>7. Possible'
  BY <1>1, <1>2 DEF Path, Possible
<1>8. HitSoFar'
  <2>1. PICK l : l = scanline
    OBVIOUS
  <2>2. \A index : SolidAt(scanline, index)' = SolidAt(l, index)
    BY <1>1, <2>1, SolidNext
  <2> QED BY <1>1, <1>2, <2>1, <2>2 DEF Path, HitSoFar
<1>9. Buffers'
  BY <1>1 DEF Path, Buffers
<1>10. LineDrawn' /\ LineShown'
  <2>1. ASSUME NEW line, NEW index
        PROVE  Reference(line, index)' = Reference(line, index)
    BY <1>1, ReferenceStays
  <2> QED BY <1>1, <2>1 DEF Path, LineDrawn, LineShown, vga_linebuffer
<1> QED BY <1>4, <1>5, <1>6, <1>7, <1>8, <1>9, <1>10 DEF Path

LEMMA NextVInv == VInv /\ [Next]_vars => VInv'
<1> SUFFICES ASSUME VInv, [Next]_vars PROVE VInv'
  OBVIOUS
<1>1. Inv'
  BY NextInv DEF VInv
<1>2. CASE CommonEdge
  <2>1. PpuEdge /\ VgaEdge /\ TypeOK
    BY <1>2 DEF CommonEdge, VInv, Inv
  <2>2. InOrder' /\ Loading' /\ Displayed' /\ Possible' /\ HitSoFar'
    BY <2>1, InOrderStep, LoadingStep, DisplayedStep, PossibleStep, HitStep DEF VInv, Path
  <2>3. Buffers' /\ LineDrawn' /\ LineShown'
    BY <2>1, DrawStep, LineDrawnStep, LineShownStep DEF VInv, Path
  <2>4. InStep' /\ Unblanked'
    BY <1>2, <2>1, InStepNext, UnblankedStep DEF VInv, Next
  <2> QED BY <1>1, <2>2, <2>3, <2>4 DEF VInv, Path
<1>3. CASE VideoEdge
  <2>1. VgaEdge /\ TypeOK /\ UNCHANGED <<spriteVars, linebuffer, ppu_linebuffer>>
    BY <1>3 DEF VideoEdge, VInv, Inv
  <2>2. Path'
    BY <2>1, PathStays DEF VInv
  <2>3. InStep' /\ Unblanked'
    BY <1>3, <2>1, InStepNext, UnblankedStep DEF VInv, Next
  <2> QED BY <1>1, <2>2, <2>3 DEF VInv
<1>4. CASE UNCHANGED vars
  <2>1. UNCHANGED <<spriteVars, linebuffer, ppu_linebuffer>> /\ UNCHANGED <<cycle, scanline>>
        /\ UNCHANGED <<ppuEdge, hcount, vcount, blank_n>>
    BY <1>4 DEF vars, spriteVars, vgaVars
  <2>2. Path'
    BY <2>1, PathStays DEF VInv
  <2>3. InStep' /\ Unblanked'
    BY <2>1 DEF VInv, InStep, Unblanked, Beam, Tick, LineBefore, h_tot, h_active, v_active
  <2> QED BY <1>1, <2>2, <2>3 DEF VInv
<1> QED BY <1>2, <1>3, <1>4 DEF Next

LEMMA PathInvariant == Spec => []VInv
BY InitVInv, NextVInv, PTL DEF Spec

-----------------------------------------------------------------------------
(* Every pixel on the screen is the one of its line and column: the counters of   *)
(* PPU.sv and vga_controller342.sv stay in step from RESET on, and the buffer     *)
(* shown is never the one drawn into.                                          *)
THEOREM ScreenIsInStep == Spec => ScreenShows
<1>1. VInv /\ [Next]_vars => [blank_n => VGA_RGB' = Reference(vcount \div 2, hcount)]_vars
  <2> SUFFICES ASSUME VInv, Next, blank_n
               PROVE  VGA_RGB' = Reference(vcount \div 2, hcount)
    OBVIOUS
  <2>1. /\ hcount \in 1..(Width - 1) /\ vcount < 2 * Lines
        /\ scanline \in 0..scanline_count /\ vcount \in Nat
    BY Geometry DEF VInv, Unblanked, h_active, v_active, Inv, TypeOK, v_tot
  <2>2. PICK line \in Nat : line = LineBefore(scanline)
    BY <2>1, Geometry DEF LineBefore
  <2>3. vcount = 2 * line \/ vcount = 2 * line + 1
    <3>1. PICK lead \in 0..1 : Beam(scanline, Tick(lead))
      BY DEF VInv, InStep
    <3>2. hcount # 0
      BY <2>1, Geometry
    <3> QED BY <2>2, <3>1, <3>2, Zenon DEF Beam
  <2>4. vcount \div 2 = line /\ line < Lines
    BY <2>1, <2>3, Geometry
  <2>5. line = scanline - 1
    BY <2>1, <2>2, <2>4, Geometry DEF LineBefore
  <2>6. linebuffer[vga_linebuffer][hcount] = Reference(line, hcount)
    BY <2>1, <2>4, <2>5, Geometry DEF VInv, Path, LineShown, Column
  <2>7. VGA_RGB' = linebuffer[vga_linebuffer][hcount]
    BY DEF Next, CommonEdge, VideoEdge, VgaEdge
  <2> QED BY <2>4, <2>6, <2>7
<1> QED BY <1>1, PathInvariant, PTL DEF Spec, ScreenShows

(* The flag is up at the end of a line with an overlap that comes late enough in  *)
(* it, if sprite 0 is on the next line as well.                                 *)
THEOREM HitIsFound == Spec => []HitFound
<1>1. VInv => HitFound
  <2> SUFFICES ASSUME VInv, scanline < Lines, cycle > Width + 1, 0 \in Found(scanline),
                      NEW index \in OpaqueAt \cap (ClearCycles + 2)..Width,
                      0 \in SolidAt(scanline, index)
               PROVE  sprite0_hit
    BY DEF HitFound
  <2>1. index < cycle /\ index \in OpaqueAt \cap (ClearCycles + 2)..(Width + 1)
    BY Geometry DEF VInv, Inv, TypeOK
  <2> QED BY <2>1 DEF VInv, Path, HitSoFar
<1> QED BY <1>1, PathInvariant, PTL

(* The flag rises on the picture only where an opaque pixel of sprite 0 meets an  *)
(* opaque background, or on the line above its first, where others do.         *)
THEOREM HitIsZeros == Spec => HitIsSpriteZeros
<1>1. VInv /\ [Next]_vars =>
        [scanline < Lines /\ ~sprite0_hit /\ sprite0_hit' =>
           (cycle \in OpaqueAt /\ 0 \in SolidAt(scanline, cycle)) \/ LineAboveFirst]_vars
  <2> SUFFICES ASSUME VInv, Next, scanline < Lines, ~sprite0_hit, sprite0_hit',
                      ~LineAboveFirst
               PROVE  cycle \in OpaqueAt /\ 0 \in SolidAt(scanline, cycle)
    OBVIOUS
  <2>1. PpuEdge
    BY DEF Next, CommonEdge, VideoEdge, spriteVars
  <2>2. PICK background \in Backgrounds, blank \in Blanks : Hit(background, blank)
    BY <2>1 DEF PpuEdge
  <2>3. set_sprite0_hit(background, blank)
    BY <2>2, Zenon DEF Hit
  <2>4. /\ background /\ Drawn(blank) # {} /\ First(Drawn(blank)) = 0
        /\ sprite0_hit_possible /\ cycle \in 1..(Width + 1)
    BY <2>3, Zenon DEF set_sprite0_hit
  <2>5. cycle \in OpaqueAt
    BY <2>4 DEF Backgrounds
  <2>6. 0 \in Drawn(blank)
    <3>1. Drawn(blank) \in SUBSET (0..(Places - 1)) /\ Places - 1 \in Nat
      BY Geometry DEF Drawn, Place
    <3> QED BY <2>4, <3>1, FirstLeast
  <2>7. 0 \in Chosen(scanline)
    <3>1. OnPicture /\ cycle > 0
      BY <2>4, Geometry DEF OnPicture
    <3> QED BY <2>4, <3>1 DEF VInv, Path, Possible, LineAboveFirst
  <2>8. Inv /\ DisplayedFrom(LineBefore(scanline), Shifts)
    BY <2>4, Geometry DEF VInv, Path, Displayed, Inv, TypeOK
  <2> QED BY <2>5, <2>6, <2>7, <2>8, ZeroFirst DEF Drawn
<1> QED BY <1>1, PathInvariant, PTL DEF Spec, HitIsSpriteZeros

=============================================================================
