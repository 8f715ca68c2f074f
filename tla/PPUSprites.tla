----------------------------- MODULE PPUSprites -----------------------------
(***************************************************************************)
(* The sprites of PPU.sv, as one clock edge of each of its parts: the cycle  *)
(* and scanline engine, evaluation of the sprites of the next line, their    *)
(* fetch into the shifters, the shifters of this line, the choice between    *)
(* sprite and background, and the overflow and sprite 0 hit flags.           *)
(*                                                                          *)
(* A place of secondary OAM is represented by the sprite it was copied from. *)
(* A pixel of a sprite is represented by the sprite, the row and the column  *)
(* it comes from (flips exchange rows or columns and are left out); which    *)
(* pixels are transparent depends on all three.  The background is           *)
(* opaque at fixed columns.  Rendering is on, the left edge shown.           *)
(***************************************************************************)
EXTENDS Naturals, FiniteSets

CONSTANTS
  NSprites,       (* sprites in OAM: 64                                       *)
  Places,         (* sprites shown on a line: 8                               *)
  SlotCycles,     (* cycles that clear a place of secondary OAM: 4            *)
  ClearCycles,    (* the last cycle of the clearing: 64                       *)
  Passes,         (* times evaluation runs over OAM: (256 - 64) / 64 = 3      *)
  FetchCycles,    (* cycles of the fetch for one place: 8                     *)
  cycle_count,    (* the last cycle of a line: 340                            *)
  Lines,          (* lines drawn: 240                                         *)
  scanline_count, (* the line before the first: 261                           *)
  Height,         (* 8 + 8 * sprite_size                                      *)
  SpriteWidth,    (* 8                                                        *)
  MaxX,           (* the highest x, at which cleared places stay: 255         *)
  Solid,          (* the opaque pixels of each sprite, <<row, column>>        *)
  OpaqueAt        (* the cycles in which the background pixel is opaque       *)

Place == 0..(Places - 1)
Sprite == 0..(NSprites - 1)
Cleared == NSprites        (* a place filled with $FF, or with a y alone *)
Width == ClearCycles + Passes * NSprites
FetchEnd == Width + Places * FetchCycles

ASSUME GeometryAssumption ==
  /\ {NSprites, Places, SlotCycles, ClearCycles, Passes, FetchCycles, cycle_count,
      Lines, scanline_count, Height, SpriteWidth, MaxX} \subseteq Nat \ {0}
  /\ Places * SlotCycles <= ClearCycles
  /\ FetchCycles >= 4
  /\ FetchEnd < cycle_count
  /\ scanline_count > Lines + 1
  /\ Height <= scanline_count    \* a sprite at y = 0 is not on the line before 0
  /\ MaxX + 1 = Width
  /\ Solid \in [Sprite -> SUBSET ((0..(Height - 1)) \X (0..(SpriteWidth - 1)))]
  /\ OpaqueAt \subseteq 0..cycle_count

VARIABLES
  cycle, scanline,
  OAM,                (* y, x and priority bit of each sprite                 *)
  sprites,            (* secondary OAM                                        *)
  sprite_oam_idx, sprite_counter, sprite_fetch_idx,
  shown,              (* sprite_x_position, sprite_attributes[5] and
                         sprite_shifters of each place                        *)
  sprite_overflow, sprite0_hit_possible, sprite0_hit

spriteVars == <<cycle, scanline, OAM, sprites, sprite_oam_idx, sprite_counter,
                sprite_fetch_idx, shown, sprite_overflow, sprite0_hit_possible,
                sprite0_hit>>

Nothing == SpriteWidth     (* every column has been shifted out *)

SpritesInit ==
  /\ cycle = 0 /\ scanline = 0
  /\ OAM = [i \in Sprite |-> [y |-> 0, x |-> 0, behind |-> FALSE]]
  /\ sprites = [p \in Place |-> Cleared]
  /\ sprite_oam_idx = 0 /\ sprite_counter = 0 /\ sprite_fetch_idx = 0
  /\ shown = [p \in Place |->
       [sprite |-> Cleared, row |-> 0, x |-> 0, column |-> Nothing, behind |-> FALSE]]
  /\ sprite_overflow = FALSE /\ sprite0_hit_possible = FALSE /\ sprite0_hit = FALSE

OnPicture == scanline < Lines \/ scanline = scanline_count

Advance ==
  /\ cycle' = IF cycle = cycle_count THEN 0 ELSE cycle + 1
  /\ scanline' = IF cycle # cycle_count THEN scanline
                 ELSE IF scanline = scanline_count THEN 0 ELSE scanline + 1

-----------------------------------------------------------------------------
(* Evaluation, for the next line.                                             *)

(* An unsigned comparison: a sprite further down is not in range.              *)
InRange(i, line) == OAM[i].y <= line /\ line < OAM[i].y + Height
Found(line) == {i \in Sprite : InRange(i, line)}

Clear ==
  /\ sprites' = [p \in Place |->
                   IF OnPicture /\ cycle \in 1..ClearCycles /\ p = (cycle - 1) \div SlotCycles
                   THEN Cleared ELSE sprites[p]]
  /\ UNCHANGED <<sprite_oam_idx, sprite_counter, sprite0_hit_possible>>

(* Sensitivity variant of StartLine: the index is not set back.                *)
StartLineWhereItStopped ==
  /\ sprite_counter' = 0
  /\ sprite0_hit_possible' = FALSE
  /\ UNCHANGED <<sprite_oam_idx, sprites>>

StartLine ==
  /\ sprite_oam_idx' = 0
  /\ sprite_counter' = 0
  /\ sprite0_hit_possible' = FALSE
  /\ UNCHANGED sprites

(* The next of the NSprites, over and over, until all places are taken.        *)
EvaluateSprite ==
  /\ sprite_oam_idx' = (sprite_oam_idx + 1) % NSprites
  /\ IF InRange(sprite_oam_idx, scanline)
     THEN /\ sprites' = [sprites EXCEPT ![sprite_counter] = sprite_oam_idx]
          /\ sprite_counter' = sprite_counter + 1
          /\ sprite0_hit_possible' = (sprite0_hit_possible \/ sprite_oam_idx = 0)
     ELSE UNCHANGED <<sprites, sprite_counter, sprite0_hit_possible>>

(* Sensitivity variant of Evaluate: it goes on when all places are taken.       *)
EvaluatePastPlaces ==
  IF OnPicture /\ cycle = 0 THEN StartLine
  ELSE IF OnPicture /\ cycle \in (ClearCycles + 1)..Width THEN EvaluateSprite
  ELSE Clear

Evaluate ==
  IF OnPicture /\ cycle = 0 THEN StartLine
  ELSE IF OnPicture /\ cycle \in (ClearCycles + 1)..Width /\ sprite_counter < Places
  THEN EvaluateSprite
  ELSE Clear

(* Sensitivity variant of Overflow: raised by the last place but one.           *)
OverflowEarly ==
  sprite_overflow' =
    IF scanline = scanline_count /\ cycle = 1 THEN FALSE
    ELSE sprite_overflow \/ (OnPicture /\ sprite_counter = Places - 1)

(* Sensitivity variant of Overflow: raised only when a sprite is found beyond.   *)
OverflowNever ==
  sprite_overflow' =
    IF scanline = scanline_count /\ cycle = 1 THEN FALSE
    ELSE sprite_overflow \/ (OnPicture /\ sprite_counter > Places)

(* All places taken.                                                           *)
Overflow ==
  sprite_overflow' =
    IF scanline = scanline_count /\ cycle = 1 THEN FALSE
    ELSE sprite_overflow \/ (OnPicture /\ sprite_counter = Places)

-----------------------------------------------------------------------------
(* Fetch: FetchCycles for each place, in the cycles after the picture.          *)
FetchStep == (cycle - Width - 1) % FetchCycles

Fetch(p) ==
  CASE FetchStep = 0 -> [shown[p] EXCEPT !.behind = sprites[p] = Cleared \/ OAM[sprites[p]].behind]
    [] FetchStep = 1 -> [shown[p] EXCEPT !.x = IF sprites[p] = Cleared THEN MaxX ELSE OAM[sprites[p]].x]
    [] FetchStep = FetchCycles - 2 ->
         [shown[p] EXCEPT !.sprite = sprites[p], !.column = 0,
            !.row = IF sprites[p] = Cleared THEN 0 ELSE scanline - OAM[sprites[p]].y]
    [] OTHER -> shown[p]

(* A counter runs down to the sprite's first column, then the columns leave.    *)
Shift(s) ==
  IF s.x > 0 THEN [s EXCEPT !.x = @ - 1]
  ELSE IF s.column < Nothing THEN [s EXCEPT !.column = @ + 1] ELSE s

Fetching == OnPicture /\ cycle \in (Width + 1)..FetchEnd

ShowSprites ==
  /\ shown' = IF OnPicture /\ cycle \in 2..Width
              THEN [p \in Place |-> Shift(shown[p])]
              ELSE IF Fetching
              THEN [shown EXCEPT ![sprite_fetch_idx] = Fetch(sprite_fetch_idx)]
              ELSE shown
  /\ sprite_fetch_idx' =
       IF OnPicture /\ cycle = 0 THEN 0
       ELSE IF Fetching /\ FetchStep = FetchCycles - 1
       THEN (sprite_fetch_idx + 1) % (8 * Places)
       ELSE sprite_fetch_idx

-----------------------------------------------------------------------------
(* The pixel.  blank says whether tile $FF, which a cleared place shows, is      *)
(* opaque here.                                                                *)
Opaque(s, blank) ==
  /\ s.x = 0
  /\ s.column < Nothing
  /\ IF s.sprite = Cleared THEN blank ELSE <<s.row, s.column>> \in Solid[s.sprite]

(* Colours, by where they come from.                                            *)
SpritePixel(s) == [of |-> s.sprite, row |-> s.row, at |-> s.column]
Background(line, index) == [of |-> NSprites + 1, row |-> line, at |-> index]
Backdrop == [of |-> NSprites + 2, row |-> 0, at |-> 0]

Drawn(blank) == {p \in Place : Opaque(shown[p], blank)}
First(ps) == CHOOSE p \in ps : \A q \in ps : p <= q

(* The first place wins; its priority bit chooses between it and the background. *)
color_idx(background, blank) ==
  IF Drawn(blank) # {} /\ ~(background /\ shown[First(Drawn(blank))].behind)
  THEN SpritePixel(shown[First(Drawn(blank))])
  ELSE IF background THEN Background(scanline, cycle)
  ELSE Backdrop

(* Sensitivity variant of set_sprite0_hit: whether sprite 0 is among them is    *)
(* not asked.                                                                  *)
set_sprite0_hitAnySprite(background, blank) ==
  /\ background
  /\ Drawn(blank) # {} /\ First(Drawn(blank)) = 0
  /\ cycle \in 1..(Width + 1)

(* Sensitivity variant of set_sprite0_hit: a sprite behind the background does   *)
(* not hit.                                                                    *)
set_sprite0_hitInFront(background, blank) ==
  /\ background
  /\ Drawn(blank) # {} /\ First(Drawn(blank)) = 0 /\ ~shown[0].behind
  /\ sprite0_hit_possible
  /\ cycle \in 1..(Width + 1)

set_sprite0_hit(background, blank) ==
  /\ background
  /\ Drawn(blank) # {} /\ First(Drawn(blank)) = 0
  /\ sprite0_hit_possible
  /\ cycle \in 1..(Width + 1)

Hit(background, blank) ==
  sprite0_hit' =
    IF scanline = scanline_count /\ cycle = 1 THEN FALSE
    ELSE sprite0_hit \/ set_sprite0_hit(background, blank)

(* Outside the picture the background shifters stand still at some pixel.       *)
Backgrounds == IF scanline < Lines THEN {cycle \in OpaqueAt} ELSE BOOLEAN
Blanks == IF \E p \in Place : shown[p].sprite = Cleared /\ shown[p].x = 0 THEN BOOLEAN ELSE {FALSE}

(* The program writes a sprite after the NMI.                                   *)
WriteSprite(entries) ==
  IF scanline = Lines + 1 /\ cycle = 1
  THEN \E i \in Sprite, entry \in entries : OAM' = [OAM EXCEPT ![i] = entry]
  ELSE UNCHANGED OAM
=============================================================================
