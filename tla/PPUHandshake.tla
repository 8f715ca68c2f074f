---------------------------- MODULE PPUHandshake ----------------------------
(***************************************************************************)
(* The toggle handshake of PPU.sv by which the CPU's accesses to $2000 -    *)
(* $2007 reach state that only the PPU clock may write.  The CPU side       *)
(* flips a request flag, the PPU side acts when request and handle differ   *)
(* and flips the handle.  Time is counted in PPU clock edges: phase is the  *)
(* number of them since the last CPU edge, and every R-th PPU edge is also  *)
(* a CPU edge, at which both domains read the values before the edge.       *)
(*                                                                          *)
(* The PPU is not fetching (rendering disabled, or vertical blanking), the  *)
(* time in which programs access video memory: PPU_ADDR is v, and neither   *)
(* ppu_read_request nor the PPU's own increments of v occur.                *)
(***************************************************************************)
EXTENDS Naturals

CONSTANTS
  R,           (* PPU cycles per CPU cycle; 3 in nes_clkgen.v              *)
  Byte, VAddr, V0, NextTemp, Advance, IncBit, Palette, Cell, CellOf, Writable,
  Undriven,    (* the PPU data bus when nothing drives it (8'hAA)          *)
  BusCycles,   (* the CPU bus cycles considered: [op, data] records        *)
  DoubleReads  (* may two palette reads of $2007 be adjacent?              *)

Writes == {"ctrl", "scroll", "addr", "data"}
Reads  == {"status", "get"}
BusCycle == [op : Writes \cup Reads \cup {"idle"}, data : Byte]

ASSUME RatioAssumption == R \in Nat /\ R >= 3
ASSUME AddressAssumption ==
  /\ V0 \in VAddr
  /\ NextTemp \in [{"ctrl", "scroll", "addr"} \X BOOLEAN \X Byte \X VAddr -> VAddr]
  /\ Advance \in [BOOLEAN \X VAddr -> VAddr]
  /\ Palette \subseteq VAddr
ASSUME MemoryAssumption ==
  /\ CellOf \in [VAddr -> Cell]
  /\ Writable \subseteq Cell
  /\ Undriven \notin Byte
ASSUME BusAssumption ==
  /\ BusCycles \subseteq BusCycle
  /\ DoubleReads \in BOOLEAN

VARIABLES
  phase, bus,
  (* written by the CPU clock *)
  ppu_latch, temp_vram_address, addr_increment, ppu_write_buffer, request,
  cpu_data,
  (* written by the PPU clock *)
  active_vram_address, handle, PPU_READ, PPU_WRITE, one_after_read,
  ppu_read_buffer, memory

cpuVars == <<ppu_latch, temp_vram_address, addr_increment, ppu_write_buffer,
             request, cpu_data>>
ppuVars == <<active_vram_address, handle, PPU_READ, PPU_WRITE, one_after_read,
             ppu_read_buffer, memory>>
vars == <<phase, bus, cpuVars, ppuVars>>

Flag == {"load", "inc", "read", "write"}

(* A request the PPU side has not served: its flag and its handle differ. *)
Pending(f) == request[f] # handle[f]

Init ==
  /\ phase = 0
  /\ bus \in BusCycles
  /\ ppu_latch = FALSE
  /\ temp_vram_address \in VAddr
  /\ addr_increment \in BOOLEAN
  /\ ppu_write_buffer \in Byte
  /\ request = [f \in Flag |-> 0]
  /\ cpu_data \in Byte
  /\ active_vram_address = V0
  /\ handle = [f \in Flag |-> 0]
  /\ PPU_READ = FALSE
  /\ PPU_WRITE = FALSE
  /\ one_after_read = FALSE
  /\ ppu_read_buffer \in Byte
  /\ memory \in [Cell -> Byte]

-----------------------------------------------------------------------------
(* Combinational signals. *)

cpu_frame_palette_read == bus.op = "get" /\ active_vram_address \in Palette

PPU_READ_OUT == cpu_frame_palette_read \/ PPU_READ

PPU_DATA_IN ==
  IF PPU_WRITE THEN ppu_write_buffer
  ELSE IF PPU_READ_OUT THEN memory[CellOf[active_vram_address]]
  ELSE Undriven

CPU_DATA_OUT ==
  IF active_vram_address \in Palette THEN PPU_DATA_IN ELSE ppu_read_buffer

-----------------------------------------------------------------------------
(* The PPU clock edge. *)

(* PPU_WRITE opens the write enable of the decoded memory for one PPU cycle. *)
StoreByte ==
  memory' = IF PPU_WRITE /\ CellOf[active_vram_address] \in Writable
            THEN [memory EXCEPT ![CellOf[active_vram_address]] = ppu_write_buffer]
            ELSE memory

(* Sensitivity variant of Served: the address does not wait for the access.  *)
ServedWithoutWaiting(f) ==
  /\ Pending(f)
  /\ f = "read" => ~cpu_frame_palette_read
  /\ f = "inc" => ~Pending("load")

(* Which requests this edge serves: v is never loaded or advanced under a    *)
(* read or write still to serve, and a load goes before an increment.        *)
Served(f) ==
  /\ Pending(f)
  /\ f = "read" => ~cpu_frame_palette_read
  /\ f \in {"load", "inc"} => ~Pending("write") /\ ~Pending("read")
  /\ f = "inc" => ~Pending("load")

(* Sensitivity variant of Acknowledge: the increment's handle stays behind.  *)
AcknowledgeNotInc ==
  handle' = [f \in Flag |-> IF Served(f) /\ f # "inc" THEN request[f] ELSE handle[f]]

Acknowledge == handle' = [f \in Flag |-> IF Served(f) THEN request[f] ELSE handle[f]]

UpdateAddress ==
  active_vram_address' =
    IF Served("load") THEN temp_vram_address
    ELSE IF Served("inc") THEN Advance[<<addr_increment, active_vram_address>>]
    ELSE active_vram_address

(* Sensitivity variant of ServeRead: the buffer is filled one edge early.    *)
ServeReadEarly ==
  IF cpu_frame_palette_read
  THEN /\ ppu_read_buffer' = PPU_DATA_IN
       /\ UNCHANGED <<PPU_READ, one_after_read>>
  ELSE /\ PPU_READ' = Pending("read")
       /\ ppu_read_buffer' = IF Pending("read") THEN PPU_DATA_IN ELSE ppu_read_buffer
       /\ one_after_read' = (Pending("read") /\ ~one_after_read)

(* The direct palette path, or: raise PPU_READ, take the byte an edge later. *)
ServeRead ==
  IF cpu_frame_palette_read
  THEN /\ ppu_read_buffer' = PPU_DATA_IN
       /\ UNCHANGED <<PPU_READ, one_after_read>>
  ELSE /\ PPU_READ' = Pending("read")
       /\ ppu_read_buffer' = IF one_after_read THEN PPU_DATA_IN ELSE ppu_read_buffer
       /\ one_after_read' = (Pending("read") /\ ~one_after_read)

ServeWrite == PPU_WRITE' = Pending("write")

PpuEdge == StoreByte /\ UpdateAddress /\ ServeRead /\ ServeWrite /\ Acknowledge

(* A PPU edge between two CPU edges. *)
PpuCycle ==
  /\ phase < R - 1
  /\ phase' = phase + 1
  /\ PpuEdge
  /\ UNCHANGED <<bus, cpuVars>>

-----------------------------------------------------------------------------
(* The CPU clock edge, which is a PPU edge too. *)

(* What the 6502 can put on the bus next.  The last write of an instruction *)
(* is followed by an opcode fetch from program memory, so no register read  *)
(* follows a write; indexed addressing does read one register twice.        *)
MayFollow(next) ==
  /\ bus.op \in Writes => next.op \notin Reads
  /\ ~DoubleReads => ~(cpu_frame_palette_read /\ next.op = "get")

CpuCycle(op) ==
  /\ phase = R - 1
  /\ bus.op = op
  /\ phase' = 0
  /\ \E next \in BusCycles : MayFollow(next) /\ bus' = next
  /\ PpuEdge

Toggle(fs) == request' = [f \in Flag |-> IF f \in fs THEN 1 - request[f] ELSE request[f]]

WriteTemp(reg) ==
  temp_vram_address' = NextTemp[<<reg, ppu_latch, bus.data, temp_vram_address>>]

WriteControl ==
  /\ CpuCycle("ctrl")
  /\ addr_increment' = (bus.data \in IncBit)
  /\ WriteTemp("ctrl")
  /\ UNCHANGED <<ppu_latch, ppu_write_buffer, request, cpu_data>>

WriteScroll ==
  /\ CpuCycle("scroll")
  /\ WriteTemp("scroll")
  /\ ppu_latch' = ~ppu_latch
  /\ UNCHANGED <<addr_increment, ppu_write_buffer, request, cpu_data>>

WriteAddress ==
  /\ CpuCycle("addr")
  /\ WriteTemp("addr")
  /\ ppu_latch' = ~ppu_latch
  /\ Toggle(IF ppu_latch THEN {"load"} ELSE {})
  /\ UNCHANGED <<addr_increment, ppu_write_buffer, cpu_data>>

WriteData ==
  /\ CpuCycle("data")
  /\ ppu_write_buffer' = bus.data
  /\ Toggle({"write", "inc"})
  /\ UNCHANGED <<ppu_latch, temp_vram_address, addr_increment, cpu_data>>

ReadStatus ==
  /\ CpuCycle("status")
  /\ ppu_latch' = FALSE
  /\ UNCHANGED <<temp_vram_address, addr_increment, ppu_write_buffer, request,
                 cpu_data>>

ReadData ==
  /\ CpuCycle("get")
  /\ cpu_data' = CPU_DATA_OUT
  /\ Toggle({"read", "inc"})
  /\ UNCHANGED <<ppu_latch, temp_vram_address, addr_increment, ppu_write_buffer>>

(* No access to these registers: memory, other devices, or the CPU held by DMA. *)
NoAccess ==
  /\ CpuCycle("idle")
  /\ UNCHANGED cpuVars

Next ==
  \/ PpuCycle
  \/ WriteControl \/ WriteScroll \/ WriteAddress \/ WriteData
  \/ ReadStatus \/ ReadData \/ NoAccess

Spec == Init /\ [][Next]_vars

-----------------------------------------------------------------------------
(* Type invariant: the registers keep their ranges; in particular neither   *)
(* the read buffer nor the byte given to the CPU is ever taken from a bus   *)
(* that nothing drives (PPU_READ and one_after_read stay in step).          *)
TypeOK ==
  /\ phase \in 0..(R - 1)
  /\ bus \in BusCycles
  /\ ppu_latch \in BOOLEAN
  /\ temp_vram_address \in VAddr
  /\ addr_increment \in BOOLEAN
  /\ ppu_write_buffer \in Byte
  /\ request \in [Flag -> {0, 1}]
  /\ cpu_data \in Byte
  /\ active_vram_address \in VAddr
  /\ handle \in [Flag -> {0, 1}]
  /\ PPU_READ \in BOOLEAN
  /\ PPU_WRITE \in BOOLEAN
  /\ one_after_read \in BOOLEAN
  /\ ppu_read_buffer \in Byte
  /\ memory \in [Cell -> Byte]

InFlight == PPU_WRITE \/ PPU_READ \/ one_after_read \/ \E f \in Flag : Pending(f)

(* By the next CPU edge everything the last access asked for is done, so no *)
(* request flag is ever flipped back while its request is unserved and no   *)
(* data register is overwritten under a request that still needs it.        *)
SettledAtCpuEdge == phase = R - 1 => ~InFlight

(* The refinement: pending requests are counted as done.                    *)
FinalMemory ==
  IF (Pending("write") \/ PPU_WRITE) /\ CellOf[active_vram_address] \in Writable
  THEN [memory EXCEPT ![CellOf[active_vram_address]] = ppu_write_buffer]
  ELSE memory

FinalBuffer ==
  IF Pending("read") \/ one_after_read
  THEN memory[CellOf[active_vram_address]]
  ELSE ppu_read_buffer

FinalAddress ==
  IF Pending("load") THEN temp_vram_address
  ELSE IF Pending("inc") THEN Advance[<<addr_increment, active_vram_address>>]
  ELSE active_vram_address

Port == INSTANCE PPUPort WITH
  latch <- ppu_latch, temp <- temp_vram_address, inc32 <- addr_increment,
  addr <- FinalAddress, buffer <- FinalBuffer, memory <- FinalMemory,
  result <- cpu_data

(* Every access has the effect the port promises, once, in program order,   *)
(* and every PPUDATA read returns the byte the atomic port would return.     *)
ImplementsPort == Port!Spec

(* A $2007 access advances the address by one step, whatever else is going  *)
(* on (PPU.sv:257: "After access, the video memory address will increment   *)
(* by an amount determined by bit 2 of $2000").                             *)
EveryAccessAdvances ==
  [][bus.op \in {"data", "get"} /\ phase = R - 1
       => FinalAddress' = Advance[<<addr_increment, FinalAddress>>]]_vars
=============================================================================
