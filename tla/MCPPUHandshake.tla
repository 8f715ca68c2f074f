--------------------------- MODULE MCPPUHandshake ---------------------------
(***************************************************************************)
(* A small address space for PPUHandshake: v and t have two bits, a byte   *)
(* has one.  Address 0 is CHR-ROM, 1 is VRAM, 2 and 3 are one palette entry *)
(* and its mirror ($3F00 and $3F10).                                        *)
(* The high bit plays the part of everything $2006's first write sets, the  *)
(* low bit of everything its second write sets.                             *)
(***************************************************************************)
EXTENDS PPUHandshake

MCByte == {0, 1}
MCVAddr == 0..3
MCCell == {"rom", "vram", "pal"}

Hi(t) == t \div 2
Lo(t) == t % 2

MCNextTemp ==
  [k \in {"ctrl", "scroll", "addr"} \X BOOLEAN \X MCByte \X MCVAddr |->
     IF k[1] = "ctrl" \/ (k[1] = "addr") = ~k[2]
     THEN 2 * k[3] + Lo(k[4])
     ELSE 2 * Hi(k[4]) + k[3]]

(* addr_increment selects a step of 1 or of 2 (in the code, 1 or 32). *)
MCAdvance ==
  [k \in BOOLEAN \X MCVAddr |-> (k[2] + (IF k[1] THEN 2 ELSE 1)) % 4]

MCPalette == {2, 3}
MCCellOf == [a \in MCVAddr |->
  CASE a = 0 -> "rom" [] a = 1 -> "vram" [] a \in MCPalette -> "pal"]
MCWritable == {"vram", "pal"}

MCBusCycles ==
  [op : Writes, data : MCByte] \cup [op : Reads \cup {"idle"}, data : {0}]

(* The nametable byte under a palette address: $2F00-$2FFF under $3F00-$3FFF. *)
Under == [a \in MCPalette |-> "vram"]

(* A palette read leaves in the buffer the nametable byte under the palette  *)
(* (ppu_tests_basic/readme.txt, vram_access test 6: "Palette read should     *)
(* also read VRAM into read buffer").                                         *)
PaletteReadFillsBufferFromVram ==
  [][bus.op = "get" /\ phase = R - 1 /\ active_vram_address \in Palette
       => FinalBuffer' = FinalMemory[Under[FinalAddress]]]_vars
=============================================================================
