------------------------------- MODULE PPUPort -------------------------------
(***************************************************************************)
(* What the $2000-$2007 port of the PPU promises the program running on    *)
(* the CPU, with every access taking effect at once: PPUADDR loads the     *)
(* video memory address, PPUDATA moves one byte and then advances the      *)
(* address, PPUDATA reads come one read late through a buffer, and the     *)
(* two write-twice registers share one latch.  PPUHandshake, which needs   *)
(* several clock edges in two clock domains for one access, implements it. *)
(***************************************************************************)
CONSTANTS
  Byte,      (* what the 8-bit data bus carries                           *)
  VAddr,     (* the values of the 15-bit registers t and v (loopy_reg)    *)
  V0,        (* v after reset                                             *)
  NextTemp,  (* t after a write: <<register, ppu_latch, byte, t>> -> t     *)
  Advance,   (* v after an access: <<addr_increment, v>> -> v              *)
  IncBit,    (* the bytes with bit 2 set                                  *)
  Palette,   (* the values of v that address $3F00-$3FFF                  *)
  Cell,      (* the bytes of CHR memory, VRAM and palette RAM             *)
  CellOf,    (* the cell the PPU bus decodes v to                         *)
  Writable   (* the cells a PPU write can change (not CHR-ROM)            *)

VARIABLES
  latch,     (* ppu_latch: the next $2005 / $2006 write is the second     *)
  temp,      (* temp_vram_address, t                                      *)
  inc32,     (* addr_increment                                            *)
  addr,      (* active_vram_address, v                                    *)
  buffer,    (* ppu_read_buffer                                           *)
  memory,    (* contents of the cells                                     *)
  result     (* the byte the CPU got from its last PPUDATA read           *)

vars == <<latch, temp, inc32, addr, buffer, memory, result>>

Stored(m, a, b) ==
  IF CellOf[a] \in Writable THEN [m EXCEPT ![CellOf[a]] = b] ELSE m

Init ==
  /\ latch = FALSE
  /\ temp \in VAddr
  /\ inc32 \in BOOLEAN
  /\ addr = V0
  /\ buffer \in Byte
  /\ memory \in [Cell -> Byte]
  /\ result \in Byte

(* $2000: the increment bit and the nametable bits of t. *)
WriteControl(b) ==
  /\ inc32' = (b \in IncBit)
  /\ temp' = NextTemp[<<"ctrl", latch, b, temp>>]
  /\ UNCHANGED <<latch, addr, buffer, memory, result>>

(* $2005: X then Y scroll, into t. *)
WriteScroll(b) ==
  /\ temp' = NextTemp[<<"scroll", latch, b, temp>>]
  /\ latch' = ~latch
  /\ UNCHANGED <<inc32, addr, buffer, memory, result>>

(* $2006: high then low byte, into t; the second write loads v. *)
WriteAddress(b) ==
  /\ temp' = NextTemp[<<"addr", latch, b, temp>>]
  /\ latch' = ~latch
  /\ addr' = IF latch THEN temp' ELSE addr
  /\ UNCHANGED <<inc32, buffer, memory, result>>

(* $2007 write: the byte goes to the cell v addressed before it advances. *)
WriteData(b) ==
  /\ memory' = Stored(memory, addr, b)
  /\ addr' = Advance[<<inc32, addr>>]
  /\ UNCHANGED <<latch, temp, inc32, buffer, result>>

(* $2007 read: the previous content of the buffer, or the palette byte. *)
ReadData ==
  /\ result' = IF addr \in Palette THEN memory[CellOf[addr]] ELSE buffer
  /\ buffer' = memory[CellOf[addr]]
  /\ addr' = Advance[<<inc32, addr>>]
  /\ UNCHANGED <<latch, temp, inc32, memory>>

(* The read path is already open while a palette read is on the bus, so the *)
(* buffer may take the palette byte ahead of the access itself.             *)
Prefetch ==
  /\ addr \in Palette
  /\ buffer' = memory[CellOf[addr]]
  /\ UNCHANGED <<latch, temp, inc32, addr, memory, result>>

(* $2002 read: resets the write-twice latch. *)
ReadStatus ==
  /\ latch' = FALSE
  /\ UNCHANGED <<temp, inc32, addr, buffer, memory, result>>

Next ==
  \/ \E b \in Byte :
       WriteControl(b) \/ WriteScroll(b) \/ WriteAddress(b) \/ WriteData(b)
  \/ ReadData \/ Prefetch \/ ReadStatus

Spec == Init /\ [][Next]_vars
=============================================================================
