------------------------- MODULE PPUHandshakeProofs -------------------------
(***************************************************************************)
(* Proofs about PPUHandshake for every clock ratio R >= 3, every address    *)
(* space, memory map and set of bus cycles, provided that no two palette    *)
(* reads of $2007 are adjacent.                                             *)
(***************************************************************************)
EXTENDS PPUHandshake, TLAPS

(* How long a request stays open, counted in PPU edges since the CPU edge   *)
(* that raised it: one edge serves a load, a read or a write, the next one  *)
(* finishes the memory access and advances the address.                     *)
Timing ==
  /\ \A f \in Flag \ {"inc"} : Pending(f) => phase = 0
  /\ Pending("inc") => phase \in {0, 1}
  /\ PPU_WRITE => phase = 1
  /\ PPU_READ => phase = 1

(* What is open at the same time.                                           *)
Exclusion ==
  /\ Pending("write") => Pending("inc") /\ ~Pending("read") /\ ~Pending("load")
  /\ Pending("read") => Pending("inc") /\ ~Pending("load")
  /\ Pending("load") => ~Pending("inc")
  /\ PPU_WRITE => Pending("inc") /\ ~PPU_READ
  /\ PPU_READ => Pending("inc")
  /\ one_after_read = PPU_READ

(* A read is on the bus only when no write or load is open, and the direct  *)
(* palette path only when nothing is.                                       *)
ReadsWait ==
  /\ Pending("write") \/ Pending("load") \/ PPU_WRITE => bus.op \notin Reads
  /\ cpu_frame_palette_read => ~InFlight

IInv == TypeOK /\ Timing /\ Exclusion /\ ReadsWait

(* The inductive invariant implies that the port is settled at CPU edges.   *)
LEMMA IInvSettled == IInv => SettledAtCpuEdge
  BY RatioAssumption DEF IInv, TypeOK, Timing, Exclusion, SettledAtCpuEdge, InFlight, Flag

LEMMA InitIInv == Init => IInv
<1> SUFFICES ASSUME Init PROVE IInv
  OBVIOUS
<1>1. \A f \in Flag : ~Pending(f)
  BY DEF Init, Pending, Flag
<1>2. TypeOK
  <2>1. phase \in 0..(R - 1)
    BY RatioAssumption DEF Init
  <2>2. active_vram_address \in VAddr
    BY AddressAssumption DEF Init
  <2>3. request \in [Flag -> {0, 1}] /\ handle \in [Flag -> {0, 1}]
    BY DEF Init
  <2>4. QED
    BY <2>1, <2>2, <2>3, Zenon DEF Init, TypeOK
<1>3. QED
  BY <1>1, <1>2 DEF Init, IInv, Timing, Exclusion, ReadsWait, InFlight, Flag

(* Nothing moves at a PPU edge with nothing open, except that the read      *)
(* buffer follows a palette read.                                           *)
LEMMA QuietEdge ==
  ASSUME IInv, PpuEdge, ~InFlight
  PROVE  /\ memory' = memory
         /\ active_vram_address' = active_vram_address
         /\ handle' = handle
         /\ PPU_READ' = FALSE /\ PPU_WRITE' = FALSE /\ one_after_read' = FALSE
         /\ ppu_read_buffer' =
              IF cpu_frame_palette_read THEN memory[CellOf[active_vram_address]]
              ELSE ppu_read_buffer
<1>1. \A f \in Flag : request[f] = handle[f]
  BY DEF InFlight, Pending
<1>2. handle' = handle
  BY <1>1 DEF IInv, TypeOK, PpuEdge, Acknowledge
<1>3. ~Pending("write") /\ ~Pending("read") /\ ~Pending("load") /\ ~Pending("inc")
  BY <1>1 DEF Pending, Flag
<1>4. ~PPU_WRITE /\ ~PPU_READ /\ ~one_after_read
  BY DEF InFlight
<1>5. QED
  BY <1>2, <1>3, <1>4 DEF IInv, TypeOK, PpuEdge, StoreByte, UpdateAddress,
     Served, ServeRead, ServeWrite, PPU_DATA_IN, PPU_READ_OUT

-----------------------------------------------------------------------------
(* The edges between two CPU edges. *)

(* A PPU edge with a load open: v takes t, nothing else moves.               *)
LEMMA LoadEdge ==
  ASSUME IInv, PpuEdge, Pending("load")
  PROVE  /\ active_vram_address' = temp_vram_address
         /\ handle' = [handle EXCEPT !["load"] = request["load"]]
         /\ memory' = memory /\ ppu_read_buffer' = ppu_read_buffer
         /\ PPU_READ' = FALSE /\ PPU_WRITE' = FALSE /\ one_after_read' = FALSE
<1>1. /\ ~Pending("write") /\ ~Pending("read") /\ ~Pending("inc")
      /\ PPU_WRITE = FALSE /\ PPU_READ = FALSE /\ one_after_read = FALSE
      /\ ~cpu_frame_palette_read
  BY DEF IInv, TypeOK, Exclusion, ReadsWait, InFlight, Flag
<1>2. /\ Served("load") /\ ~Served("write") /\ ~Served("read") /\ ~Served("inc")
  BY <1>1 DEF Served
<1>3. handle' = [handle EXCEPT !["load"] = request["load"]]
  BY <1>2 DEF PpuEdge, Acknowledge, Flag, IInv, TypeOK
<1>4. active_vram_address' = temp_vram_address /\ memory' = memory
  BY <1>1, <1>2 DEF PpuEdge, StoreByte, UpdateAddress
<1>5. PPU_READ' = FALSE /\ one_after_read' = FALSE /\ ppu_read_buffer' = ppu_read_buffer
  BY <1>1 DEF PpuEdge, ServeRead, Pending
<1>6. PPU_WRITE' = FALSE
  BY <1>1 DEF PpuEdge, ServeWrite, Pending
<1>7. QED
  BY <1>3, <1>4, <1>5, <1>6

(* A PPU edge with a write open: PPU_WRITE is raised, the address waits.     *)
LEMMA WriteEdge ==
  ASSUME IInv, PpuEdge, Pending("write")
  PROVE  /\ active_vram_address' = active_vram_address
         /\ handle' = [handle EXCEPT !["write"] = request["write"]]
         /\ memory' = memory /\ ppu_read_buffer' = ppu_read_buffer
         /\ PPU_READ' = FALSE /\ PPU_WRITE' = TRUE /\ one_after_read' = FALSE
<1>1. /\ ~Pending("load") /\ ~Pending("read") /\ Pending("inc")
      /\ PPU_WRITE = FALSE /\ PPU_READ = FALSE /\ one_after_read = FALSE
      /\ ~cpu_frame_palette_read
  BY DEF IInv, TypeOK, Timing, Exclusion, ReadsWait, InFlight, Flag
<1>2. /\ Served("write") /\ ~Served("load") /\ ~Served("read") /\ ~Served("inc")
  BY <1>1 DEF Served
<1>3. handle' = [handle EXCEPT !["write"] = request["write"]]
  BY <1>2 DEF PpuEdge, Acknowledge, Flag, IInv, TypeOK
<1>4. active_vram_address' = active_vram_address /\ memory' = memory
  BY <1>1, <1>2 DEF PpuEdge, StoreByte, UpdateAddress
<1>5. PPU_READ' = FALSE /\ one_after_read' = FALSE /\ ppu_read_buffer' = ppu_read_buffer
  BY <1>1 DEF PpuEdge, ServeRead, Pending
<1>6. PPU_WRITE' = TRUE
  BY <1>1 DEF PpuEdge, ServeWrite, Pending
<1>7. QED
  BY <1>3, <1>4, <1>5, <1>6

(* A PPU edge with a read open: PPU_READ is raised, the address waits.       *)
LEMMA ReadEdge ==
  ASSUME IInv, PpuEdge, Pending("read")
  PROVE  /\ active_vram_address' = active_vram_address
         /\ handle' = [handle EXCEPT !["read"] = request["read"]]
         /\ memory' = memory /\ ppu_read_buffer' = ppu_read_buffer
         /\ PPU_READ' = TRUE /\ PPU_WRITE' = FALSE /\ one_after_read' = TRUE
<1>1. /\ ~Pending("load") /\ ~Pending("write") /\ Pending("inc")
      /\ PPU_WRITE = FALSE /\ PPU_READ = FALSE /\ one_after_read = FALSE
      /\ ~cpu_frame_palette_read
  BY DEF IInv, TypeOK, Timing, Exclusion, ReadsWait, InFlight, Flag
<1>2. /\ Served("read") /\ ~Served("load") /\ ~Served("write") /\ ~Served("inc")
  BY <1>1 DEF Served
<1>3. handle' = [handle EXCEPT !["read"] = request["read"]]
  BY <1>2 DEF PpuEdge, Acknowledge, Flag, IInv, TypeOK
<1>4. active_vram_address' = active_vram_address /\ memory' = memory
  BY <1>1, <1>2 DEF PpuEdge, StoreByte, UpdateAddress
<1>5. PPU_READ' = TRUE /\ one_after_read' = TRUE /\ ppu_read_buffer' = ppu_read_buffer
  BY <1>1 DEF PpuEdge, ServeRead, Pending
<1>6. PPU_WRITE' = FALSE
  BY <1>1 DEF PpuEdge, ServeWrite, Pending
<1>7. QED
  BY <1>3, <1>4, <1>5, <1>6

(* A PPU edge with only the increment open: the byte moves at the address v  *)
(* has held since the access, and v advances.                                *)
LEMMA AdvanceEdge ==
  ASSUME IInv, PpuEdge, Pending("inc"), ~Pending("read"), ~Pending("write")
  PROVE  /\ active_vram_address' = Advance[<<addr_increment, active_vram_address>>]
         /\ handle' = [handle EXCEPT !["inc"] = request["inc"]]
         /\ memory' = FinalMemory
         /\ ppu_read_buffer' = FinalBuffer
         /\ PPU_READ' = FALSE /\ PPU_WRITE' = FALSE /\ one_after_read' = FALSE
         /\ ~cpu_frame_palette_read
<1>1. ~Pending("load") /\ ~cpu_frame_palette_read
  BY DEF IInv, Exclusion, ReadsWait, InFlight, Flag
<1>2. /\ Served("inc") /\ ~Served("load") /\ ~Served("read") /\ ~Served("write")
  BY <1>1 DEF Served
<1>3. handle' = [handle EXCEPT !["inc"] = request["inc"]]
  BY <1>2 DEF PpuEdge, Acknowledge, Flag, IInv, TypeOK
<1>4. active_vram_address' = Advance[<<addr_increment, active_vram_address>>]
  BY <1>2 DEF PpuEdge, UpdateAddress
<1>5. memory' = FinalMemory
  BY DEF PpuEdge, StoreByte, FinalMemory
<1>6. PPU_READ' = FALSE /\ PPU_WRITE' = FALSE /\ one_after_read' = FALSE
  BY <1>1 DEF PpuEdge, ServeRead, ServeWrite, Pending
<1>7. ppu_read_buffer' = FinalBuffer
  <2>1. one_after_read => PPU_DATA_IN = memory[CellOf[active_vram_address]]
    BY DEF PPU_DATA_IN, PPU_READ_OUT, IInv, TypeOK, Exclusion
  <2>2. ppu_read_buffer' = IF one_after_read THEN PPU_DATA_IN ELSE ppu_read_buffer
    BY <1>1 DEF PpuEdge, ServeRead, Pending
  <2>3. QED
    BY <2>1, <2>2 DEF FinalBuffer
<1>8. QED
  BY <1>1, <1>3, <1>4, <1>5, <1>6, <1>7, Zenon

(* The edges between two CPU edges keep the invariant.                       *)
LEMMA PpuCycleIInv ==
  ASSUME IInv, PpuCycle
  PROVE  IInv'
<1>1. /\ phase' = phase + 1 /\ phase < R - 1 /\ PpuEdge
      /\ UNCHANGED <<bus, ppu_latch, temp_vram_address, addr_increment,
                     ppu_write_buffer, request, cpu_data>>
  BY DEF PpuCycle, cpuVars
<1>2. phase' \in 0..(R - 1)
  BY <1>1, RatioAssumption DEF IInv, TypeOK
<1>3. FinalMemory \in [Cell -> Byte] /\ FinalBuffer \in Byte
  BY MemoryAssumption DEF IInv, TypeOK, FinalMemory, FinalBuffer
<1>4. CASE Pending("load")
  <2>1. TypeOK'
    BY <1>1, <1>2, <1>4, LoadEdge DEF IInv, TypeOK, Flag
  <2>2. \A f \in Flag : ~Pending(f)'
    BY <1>1, <1>4, LoadEdge DEF IInv, TypeOK, Exclusion, Pending, Flag
  <2>3. QED
    BY <1>1, <1>4, <2>1, <2>2, LoadEdge DEF IInv, Timing, Exclusion, ReadsWait,
       InFlight, Flag
<1>5. CASE Pending("write")
  <2>1. TypeOK'
    BY <1>1, <1>2, <1>5, WriteEdge DEF IInv, TypeOK, Flag
  <2>2. /\ ~Pending("load")' /\ ~Pending("read")' /\ ~Pending("write")'
        /\ Pending("inc")'
    BY <1>1, <1>5, WriteEdge DEF IInv, TypeOK, Exclusion, Pending, Flag
  <2>3. phase' = 1 /\ bus'.op \notin Reads
    BY <1>1, <1>5 DEF IInv, TypeOK, Timing, ReadsWait, Flag
  <2>4. QED
    BY <1>1, <1>5, <2>1, <2>2, <2>3, WriteEdge DEF IInv, Timing, Exclusion,
       ReadsWait, Flag, cpu_frame_palette_read, Reads
<1>6. CASE Pending("read")
  <2>1. TypeOK'
    BY <1>1, <1>2, <1>6, ReadEdge DEF IInv, TypeOK, Flag
  <2>2. /\ ~Pending("load")' /\ ~Pending("read")' /\ ~Pending("write")'
        /\ Pending("inc")'
    BY <1>1, <1>6, ReadEdge DEF IInv, TypeOK, Exclusion, Pending, Flag
  <2>3. phase' = 1
    BY <1>1, <1>6 DEF IInv, TypeOK, Timing, Flag
  <2>4. ~cpu_frame_palette_read
    BY <1>6 DEF IInv, ReadsWait, InFlight, Flag
  <2>5. ~cpu_frame_palette_read'
    BY <1>1, <1>6, <2>4, ReadEdge DEF cpu_frame_palette_read
  <2>6. QED
    BY <1>1, <1>6, <2>1, <2>2, <2>3, <2>5, ReadEdge DEF IInv, Timing, Exclusion,
       ReadsWait, Flag
<1>7. CASE Pending("inc") /\ ~Pending("read") /\ ~Pending("write")
  <2>1. active_vram_address' \in VAddr
    BY <1>7, AdvanceEdge, <1>1, AddressAssumption DEF IInv, TypeOK
  <2>2. TypeOK'
    BY <1>1, <1>2, <1>3, <1>7, <2>1, AdvanceEdge DEF IInv, TypeOK, Flag
  <2>3. \A f \in Flag : ~Pending(f)'
    BY <1>1, <1>7, AdvanceEdge DEF IInv, TypeOK, Exclusion, Pending, Flag
  <2>4. QED
    BY <1>1, <1>7, <2>2, <2>3, AdvanceEdge DEF IInv, Timing, Exclusion, ReadsWait,
       InFlight, Flag
<1>8. CASE \A f \in Flag : ~Pending(f)
  <2>1. ~InFlight
    BY <1>8 DEF InFlight, IInv, Exclusion, Flag
  <2>2. ppu_read_buffer' \in Byte
    BY <1>1, <2>1, QuietEdge, MemoryAssumption DEF IInv, TypeOK
  <2>3. TypeOK'
    BY <1>1, <1>2, <2>1, <2>2, QuietEdge DEF IInv, TypeOK
  <2>4. \A f \in Flag : ~Pending(f)'
    BY <1>1, <1>8, <2>1, QuietEdge DEF Pending
  <2>5. QED
    BY <1>1, <2>1, <2>3, <2>4, QuietEdge DEF IInv, Timing, Exclusion, ReadsWait,
       InFlight, Flag
<1>9. QED
  BY <1>4, <1>5, <1>6, <1>7, <1>8 DEF Flag

-----------------------------------------------------------------------------
(* The CPU edges. *)

(* At a CPU edge the PPU side is at rest.                                    *)
LEMMA CpuEdgeQuiet ==
  ASSUME IInv, NEW op, CpuCycle(op)
  PROVE  /\ ~InFlight /\ request = handle
         /\ phase' = 0 /\ bus.op = op /\ bus \in BusCycles /\ bus' \in BusCycles
         /\ MayFollow(bus')
         /\ memory' = memory
         /\ active_vram_address' = active_vram_address
         /\ handle' = handle
         /\ PPU_READ' = FALSE /\ PPU_WRITE' = FALSE /\ one_after_read' = FALSE
         /\ ppu_read_buffer' =
              IF cpu_frame_palette_read THEN memory[CellOf[active_vram_address]]
              ELSE ppu_read_buffer
<1>1. PpuEdge /\ phase = R - 1 /\ phase' = 0 /\ bus.op = op
  BY DEF CpuCycle
<1>2. ~InFlight
  BY <1>1, IInvSettled DEF SettledAtCpuEdge
<1>3. request = handle
  BY <1>2 DEF InFlight, Pending, IInv, TypeOK
<1>4. bus \in BusCycles /\ bus' \in BusCycles /\ MayFollow(bus')
  BY DEF CpuCycle, IInv, TypeOK
<1>5. QED
  BY <1>1, <1>2, <1>3, <1>4, QuietEdge

(* The invariant holds again after a CPU edge that raises no request.        *)
LEMMA NoRequestIInv ==
  ASSUME IInv, NEW op, CpuCycle(op), TypeOK', request' = request
  PROVE  IInv'
<1>1. \A f \in Flag : ~Pending(f)'
  BY CpuEdgeQuiet DEF Pending
<1>2. QED
  BY <1>1, CpuEdgeQuiet DEF IInv, Timing, Exclusion, ReadsWait, InFlight, Flag

(* ... and after one that raises some.                                       *)
LEMMA ToggleFlags ==
  ASSUME IInv, NEW op, CpuCycle(op), NEW fs \in SUBSET Flag, Toggle(fs)
  PROVE  /\ request' \in [Flag -> {0, 1}]
         /\ \A f \in Flag : Pending(f)' <=> f \in fs
<1>1. request' = [f \in Flag |-> IF f \in fs THEN 1 - request[f] ELSE request[f]]
  BY DEF Toggle
<1>2. request \in [Flag -> {0, 1}] /\ handle' = request
  BY CpuEdgeQuiet DEF IInv, TypeOK
<1>3. QED
  BY <1>1, <1>2 DEF Pending

LEMMA BusTyped ==
  ASSUME IInv
  PROVE  bus.data \in Byte
BY BusAssumption DEF IInv, TypeOK, BusCycle

(* What a CPU edge leaves in the registers the access does not write.        *)
LEMMA CpuEdgeTypes ==
  ASSUME IInv, NEW op, CpuCycle(op)
  PROVE  /\ phase' \in 0..(R - 1) /\ bus' \in BusCycles
         /\ active_vram_address' \in VAddr /\ handle' \in [Flag -> {0, 1}]
         /\ PPU_READ' \in BOOLEAN /\ PPU_WRITE' \in BOOLEAN
         /\ one_after_read' \in BOOLEAN
         /\ ppu_read_buffer' \in Byte /\ memory' \in [Cell -> Byte]
<1>1. phase' \in 0..(R - 1)
  BY RatioAssumption DEF CpuCycle
<1>2. ppu_read_buffer' \in Byte
  <2>1. memory[CellOf[active_vram_address]] \in Byte /\ ppu_read_buffer \in Byte
    BY MemoryAssumption DEF IInv, TypeOK
  <2>2. QED
    BY <2>1, CpuEdgeQuiet
<1>3. QED
  BY <1>1, <1>2, CpuEdgeQuiet DEF IInv, TypeOK

LEMMA WriteControlIInv == IInv /\ WriteControl => IInv'
<1> SUFFICES ASSUME IInv, WriteControl PROVE IInv'
  OBVIOUS
<1>1. CpuCycle("ctrl") /\ request' = request
  BY DEF WriteControl
<1>2. temp_vram_address' \in VAddr
  BY BusTyped, AddressAssumption DEF WriteControl, WriteTemp, IInv, TypeOK
<1>3. TypeOK'
  BY <1>1, <1>2, CpuEdgeTypes DEF WriteControl, IInv, TypeOK
<1>4. QED
  BY <1>1, <1>3, NoRequestIInv

LEMMA WriteScrollIInv == IInv /\ WriteScroll => IInv'
<1> SUFFICES ASSUME IInv, WriteScroll PROVE IInv'
  OBVIOUS
<1>1. CpuCycle("scroll") /\ request' = request
  BY DEF WriteScroll
<1>2. temp_vram_address' \in VAddr
  BY BusTyped, AddressAssumption DEF WriteScroll, WriteTemp, IInv, TypeOK
<1>3. TypeOK'
  BY <1>1, <1>2, CpuEdgeTypes DEF WriteScroll, IInv, TypeOK
<1>4. QED
  BY <1>1, <1>3, NoRequestIInv

LEMMA WriteAddressIInv == IInv /\ WriteAddress => IInv'
<1> SUFFICES ASSUME IInv, WriteAddress PROVE IInv'
  OBVIOUS
<1>1. CpuCycle("addr")
  BY DEF WriteAddress
<1>2. temp_vram_address' \in VAddr
  BY BusTyped, AddressAssumption DEF WriteAddress, WriteTemp, IInv, TypeOK
<1>3. /\ request' \in [Flag -> {0, 1}]
      /\ \A f \in Flag : Pending(f)' => f = "load"
  BY <1>1, ToggleFlags DEF WriteAddress, Flag
<1>4. TypeOK'
  BY <1>1, <1>2, <1>3, CpuEdgeTypes DEF WriteAddress, IInv, TypeOK
<1>5. bus'.op \notin Reads
  BY <1>1, CpuEdgeQuiet DEF MayFollow, Writes
<1>6. QED
  BY <1>1, <1>3, <1>4, <1>5, CpuEdgeQuiet DEF IInv, Timing, Exclusion, ReadsWait,
     Flag, cpu_frame_palette_read, Reads

LEMMA WriteDataIInv == IInv /\ WriteData => IInv'
<1> SUFFICES ASSUME IInv, WriteData PROVE IInv'
  OBVIOUS
<1>1. CpuCycle("data")
  BY DEF WriteData
<1>2. /\ request' \in [Flag -> {0, 1}]
      /\ \A f \in Flag : Pending(f)' <=> f \in {"write", "inc"}
  BY <1>1, ToggleFlags DEF WriteData, Flag
<1>3. TypeOK'
  BY <1>1, <1>2, CpuEdgeTypes, BusTyped DEF WriteData, IInv, TypeOK
<1>4. bus'.op \notin Reads
  BY <1>1, CpuEdgeQuiet DEF MayFollow, Writes
<1>5. QED
  BY <1>1, <1>2, <1>3, <1>4, CpuEdgeQuiet DEF IInv, Timing, Exclusion, ReadsWait,
     Flag, cpu_frame_palette_read, Reads

LEMMA ReadStatusIInv == IInv /\ ReadStatus => IInv'
<1> SUFFICES ASSUME IInv, ReadStatus PROVE IInv'
  OBVIOUS
<1>1. CpuCycle("status") /\ request' = request
  BY DEF ReadStatus
<1>2. TypeOK'
  BY <1>1, CpuEdgeTypes DEF ReadStatus, IInv, TypeOK
<1>3. QED
  BY <1>1, <1>2, NoRequestIInv

LEMMA NoAccessIInv == IInv /\ NoAccess => IInv'
<1> SUFFICES ASSUME IInv, NoAccess PROVE IInv'
  OBVIOUS
<1>1. CpuCycle("idle") /\ UNCHANGED cpuVars
  BY DEF NoAccess
<1>2. TypeOK'
  BY <1>1, CpuEdgeTypes DEF cpuVars, IInv, TypeOK
<1>3. QED
  BY <1>1, <1>2, NoRequestIInv DEF cpuVars

(* The byte a PPUDATA read returns comes from memory or from the buffer.     *)
LEMMA ReadDataReturns ==
  ASSUME IInv, ReadData
  PROVE  cpu_data' = IF active_vram_address \in Palette
                     THEN memory[CellOf[active_vram_address]]
                     ELSE ppu_read_buffer
<1>1. CpuCycle("get") /\ cpu_data' = CPU_DATA_OUT
  BY DEF ReadData
<1>2. bus.op = "get" /\ PPU_WRITE = FALSE
  BY <1>1, CpuEdgeQuiet DEF InFlight, IInv, TypeOK
<1>3. QED
  BY <1>1, <1>2 DEF CPU_DATA_OUT, PPU_DATA_IN, PPU_READ_OUT, cpu_frame_palette_read

LEMMA ReadDataIInv ==
  ASSUME IInv, ReadData, DoubleReads = FALSE
  PROVE  IInv'
<1>1. CpuCycle("get")
  BY DEF ReadData
<1>2. /\ request' \in [Flag -> {0, 1}]
      /\ \A f \in Flag : Pending(f)' <=> f \in {"read", "inc"}
  BY <1>1, ToggleFlags DEF ReadData, Flag
<1>3. cpu_data' \in Byte
  BY ReadDataReturns, MemoryAssumption DEF IInv, TypeOK
<1>4. TypeOK'
  BY <1>1, <1>2, <1>3, CpuEdgeTypes DEF ReadData, IInv, TypeOK
<1>5. ~cpu_frame_palette_read'
  BY <1>1, CpuEdgeQuiet DEF MayFollow, cpu_frame_palette_read
<1>6. QED
  BY <1>1, <1>2, <1>4, <1>5, CpuEdgeQuiet DEF IInv, Timing, Exclusion, ReadsWait,
     Flag

LEMMA StutterIInv == IInv /\ UNCHANGED vars => IInv'
BY DEF vars, cpuVars, ppuVars, IInv, TypeOK, Timing, Exclusion, ReadsWait, InFlight,
   Pending, cpu_frame_palette_read

LEMMA NextIInv ==
  ASSUME DoubleReads = FALSE
  PROVE  IInv /\ [Next]_vars => IInv'
BY PpuCycleIInv, WriteControlIInv, WriteScrollIInv, WriteAddressIInv, WriteDataIInv,
   ReadStatusIInv, ReadDataIInv, NoAccessIInv, StutterIInv DEF Next

-----------------------------------------------------------------------------
(* Every register keeps its type: the buffer and the CPU never take a byte   *)
(* from an undriven bus.                                                     *)
THEOREM TypeCorrect ==
  ASSUME DoubleReads = FALSE
  PROVE  Spec => []TypeOK
<1>1. IInv => TypeOK
  BY DEF IInv
<1>2. QED
  BY <1>1, InitIInv, NextIInv, PTL DEF Spec

(* Whatever an access asked for is finished by the next CPU edge, for every  *)
(* clock ratio of at least 3.                                                *)
THEOREM PortSettles ==
  ASSUME DoubleReads = FALSE
  PROVE  Spec => []SettledAtCpuEdge
BY InitIInv, NextIInv, IInvSettled, PTL DEF Spec

-----------------------------------------------------------------------------
(* The refinement: each step of the handshake is a step of the port.         *)

LEMMA InitPort == Init => Port!Init
<1> SUFFICES ASSUME Init PROVE Port!Init
  OBVIOUS
<1>1. \A f \in Flag : ~Pending(f)
  BY DEF Init, Pending, Flag
<1>2. FinalMemory = memory /\ FinalBuffer = ppu_read_buffer /\ FinalAddress = V0
  BY <1>1 DEF Init, FinalMemory, FinalBuffer, FinalAddress, Flag
<1>3. QED
  BY <1>2 DEF Init, Port!Init

(* With nothing open the port's state is the registers' own.                 *)
LEMMA FinalQuiet ==
  ASSUME ~InFlight
  PROVE  /\ FinalMemory = memory /\ FinalBuffer = ppu_read_buffer
         /\ FinalAddress = active_vram_address
BY DEF InFlight, FinalMemory, FinalBuffer, FinalAddress, Flag

(* Between CPU edges the port stutters, or prefetches the palette byte.      *)
LEMMA PpuCycleRefines ==
  ASSUME IInv, PpuCycle
  PROVE  Port!Prefetch \/ UNCHANGED Port!vars
<1>1. /\ PpuEdge
      /\ UNCHANGED <<ppu_latch, temp_vram_address, addr_increment,
                     ppu_write_buffer, request, cpu_data>>
  BY DEF PpuCycle, cpuVars
<1>2. IInv'
  BY PpuCycleIInv
<1>3. CASE Pending("load")
  <2>1. FinalMemory = memory /\ FinalBuffer = ppu_read_buffer
        /\ FinalAddress = temp_vram_address
    BY <1>3 DEF IInv, TypeOK, Exclusion, FinalMemory, FinalBuffer, FinalAddress
  <2>2. \A f \in Flag : ~Pending(f)'
    BY <1>1, <1>3, LoadEdge DEF IInv, TypeOK, Exclusion, Pending, Flag
  <2>3. ~InFlight'
    BY <1>1, <1>3, <2>2, LoadEdge DEF InFlight
  <2>4. FinalMemory' = memory' /\ FinalBuffer' = ppu_read_buffer'
        /\ FinalAddress' = active_vram_address'
    BY <2>3 DEF InFlight, FinalMemory, FinalBuffer, FinalAddress, Flag
  <2>5. QED
    BY <1>1, <1>3, <2>1, <2>4, LoadEdge DEF Port!vars
<1>4. CASE Pending("write")
  <2>1. /\ ~Pending("load")' /\ ~Pending("read")' /\ ~Pending("write")'
        /\ Pending("inc")' /\ Pending("inc") /\ ~Pending("load")
        /\ ~Pending("read") /\ ~one_after_read
    BY <1>1, <1>4, WriteEdge DEF IInv, TypeOK, Timing, Exclusion, Pending, Flag
  <2>2. /\ FinalMemory' = FinalMemory /\ FinalBuffer' = FinalBuffer
        /\ FinalAddress' = FinalAddress
    BY <1>1, <1>4, <2>1, WriteEdge DEF FinalMemory, FinalBuffer, FinalAddress
  <2>3. QED
    BY <1>1, <2>2 DEF Port!vars
<1>5. CASE Pending("read")
  <2>1. /\ ~Pending("load")' /\ ~Pending("read")' /\ ~Pending("write")'
        /\ Pending("inc")' /\ Pending("inc") /\ ~Pending("load")
        /\ ~Pending("write") /\ ~PPU_WRITE
    BY <1>1, <1>5, ReadEdge DEF IInv, TypeOK, Timing, Exclusion, Pending, Flag
  <2>2. /\ FinalMemory' = FinalMemory /\ FinalBuffer' = FinalBuffer
        /\ FinalAddress' = FinalAddress
    BY <1>1, <1>5, <2>1, ReadEdge DEF FinalMemory, FinalBuffer, FinalAddress
  <2>3. QED
    BY <1>1, <2>2 DEF Port!vars
<1>6. CASE Pending("inc") /\ ~Pending("read") /\ ~Pending("write")
  <2>1. ~Pending("load")
    BY <1>6 DEF IInv, Exclusion
  <2>2. \A f \in Flag : ~Pending(f)'
    BY <1>1, <1>6, AdvanceEdge DEF IInv, TypeOK, Exclusion, Pending, Flag
  <2>3. ~InFlight'
    BY <1>1, <1>6, <2>2, AdvanceEdge DEF InFlight
  <2>4. FinalMemory' = memory' /\ FinalBuffer' = ppu_read_buffer'
        /\ FinalAddress' = active_vram_address'
    BY <2>3 DEF InFlight, FinalMemory, FinalBuffer, FinalAddress, Flag
  <2>5. FinalAddress = Advance[<<addr_increment, active_vram_address>>]
    BY <1>6, <2>1 DEF FinalAddress
  <2>6. QED
    BY <1>1, <1>6, <2>4, <2>5, AdvanceEdge DEF Port!vars
<1>7. CASE \A f \in Flag : ~Pending(f)
  <2>1. ~InFlight
    BY <1>7 DEF InFlight, IInv, Exclusion, Flag
  <2>2. \A f \in Flag : ~Pending(f)'
    BY <1>1, <1>7, <2>1, QuietEdge DEF Pending
  <2>3. ~InFlight'
    BY <1>1, <2>1, <2>2, QuietEdge DEF InFlight
  <2>4. FinalMemory' = memory' /\ FinalBuffer' = ppu_read_buffer'
        /\ FinalAddress' = active_vram_address'
    BY <2>3 DEF InFlight, FinalMemory, FinalBuffer, FinalAddress, Flag
  <2>5. CASE cpu_frame_palette_read
    BY <1>1, <2>1, <2>4, <2>5, QuietEdge, FinalQuiet
    DEF Port!Prefetch, cpu_frame_palette_read
  <2>6. CASE ~cpu_frame_palette_read
    BY <1>1, <2>1, <2>4, <2>6, QuietEdge, FinalQuiet DEF Port!vars
  <2>7. QED
    BY <2>5, <2>6
<1>8. QED
  BY <1>3, <1>4, <1>5, <1>6, <1>7 DEF Flag

(* At a CPU edge the port's state before the access is the registers' own.   *)
LEMMA CpuEdgeFinal ==
  ASSUME IInv, NEW op, CpuCycle(op)
  PROVE  /\ FinalMemory = memory /\ FinalBuffer = ppu_read_buffer
         /\ FinalAddress = active_vram_address
         /\ PPU_WRITE' = FALSE /\ one_after_read' = FALSE
         /\ memory' = memory /\ active_vram_address' = active_vram_address
BY CpuEdgeQuiet, FinalQuiet

(* Only a PPUDATA read touches the read buffer at the CPU edge.              *)
LEMMA CpuEdgeBuffer ==
  ASSUME IInv, NEW op, CpuCycle(op), op # "get"
  PROVE  ppu_read_buffer' = ppu_read_buffer
<1>1. ~cpu_frame_palette_read
  BY DEF CpuCycle, cpu_frame_palette_read
<1>2. QED
  BY <1>1, CpuEdgeQuiet

(* An access that raises no request leaves nothing open.                     *)
LEMMA CpuEdgeNoRequest ==
  ASSUME IInv, NEW op, CpuCycle(op), request' = request
  PROVE  /\ FinalMemory' = memory' /\ FinalBuffer' = ppu_read_buffer'
         /\ FinalAddress' = active_vram_address'
         /\ op # "get" => UNCHANGED <<FinalMemory, FinalBuffer, FinalAddress>>
<1>1. \A f \in Flag : ~Pending(f)'
  BY CpuEdgeQuiet DEF Pending
<1>2. ~InFlight'
  BY <1>1, CpuEdgeQuiet DEF InFlight
<1>3. /\ FinalMemory' = memory' /\ FinalBuffer' = ppu_read_buffer'
      /\ FinalAddress' = active_vram_address'
  BY <1>2 DEF InFlight, FinalMemory, FinalBuffer, FinalAddress, Flag
<1>4. QED
  BY <1>3, CpuEdgeFinal, CpuEdgeBuffer

LEMMA WriteControlRefines == IInv /\ WriteControl => Port!WriteControl(bus.data)
<1> SUFFICES ASSUME IInv, WriteControl PROVE Port!WriteControl(bus.data)
  OBVIOUS
<1>1. CpuCycle("ctrl") /\ request' = request
  BY DEF WriteControl
<1>2. UNCHANGED <<FinalMemory, FinalBuffer, FinalAddress>>
  BY <1>1, CpuEdgeNoRequest
<1>3. QED
  BY <1>2 DEF WriteControl, WriteTemp, Port!WriteControl

LEMMA WriteScrollRefines == IInv /\ WriteScroll => Port!WriteScroll(bus.data)
<1> SUFFICES ASSUME IInv, WriteScroll PROVE Port!WriteScroll(bus.data)
  OBVIOUS
<1>1. CpuCycle("scroll") /\ request' = request
  BY DEF WriteScroll
<1>2. UNCHANGED <<FinalMemory, FinalBuffer, FinalAddress>>
  BY <1>1, CpuEdgeNoRequest
<1>3. QED
  BY <1>2 DEF WriteScroll, WriteTemp, Port!WriteScroll

LEMMA WriteAddressRefines == IInv /\ WriteAddress => Port!WriteAddress(bus.data)
<1> SUFFICES ASSUME IInv, WriteAddress PROVE Port!WriteAddress(bus.data)
  OBVIOUS
<1>1. CpuCycle("addr")
  BY DEF WriteAddress
<1>2. \A f \in Flag : Pending(f)' <=> f = "load" /\ ppu_latch
  BY <1>1, ToggleFlags DEF WriteAddress, Flag
<1>3. FinalMemory' = memory' /\ FinalBuffer' = ppu_read_buffer'
  BY <1>1, <1>2, CpuEdgeFinal DEF FinalMemory, FinalBuffer, Flag
<1>4. FinalAddress' = IF ppu_latch THEN temp_vram_address' ELSE active_vram_address'
  BY <1>2 DEF FinalAddress, Flag
<1>5. UNCHANGED <<FinalMemory, FinalBuffer>> /\ FinalAddress = active_vram_address'
  BY <1>1, <1>3, CpuEdgeFinal, CpuEdgeBuffer
<1>6. QED
  BY <1>4, <1>5 DEF WriteAddress, WriteTemp, Port!WriteAddress

LEMMA WriteDataRefines == IInv /\ WriteData => Port!WriteData(bus.data)
<1> SUFFICES ASSUME IInv, WriteData PROVE Port!WriteData(bus.data)
  OBVIOUS
<1>1. CpuCycle("data")
  BY DEF WriteData
<1>2. \A f \in Flag : Pending(f)' <=> f \in {"write", "inc"}
  BY <1>1, ToggleFlags DEF WriteData, Flag
<1>3. FinalMemory' = Port!Stored(memory, active_vram_address, bus.data)
  BY <1>1, <1>2, CpuEdgeFinal DEF WriteData, FinalMemory, Port!Stored, Flag
<1>4. FinalBuffer' = ppu_read_buffer'
  BY <1>1, <1>2, CpuEdgeFinal DEF FinalBuffer, Flag
<1>5. FinalAddress' = Advance[<<addr_increment, active_vram_address>>]
  BY <1>1, <1>2, CpuEdgeFinal DEF WriteData, FinalAddress, Flag
<1>6. /\ FinalMemory = memory /\ FinalAddress = active_vram_address
      /\ FinalBuffer' = FinalBuffer
  BY <1>1, <1>4, CpuEdgeFinal, CpuEdgeBuffer
<1>7. QED
  BY <1>3, <1>5, <1>6 DEF WriteData, Port!WriteData

LEMMA ReadStatusRefines == IInv /\ ReadStatus => Port!ReadStatus
<1> SUFFICES ASSUME IInv, ReadStatus PROVE Port!ReadStatus
  OBVIOUS
<1>1. CpuCycle("status") /\ request' = request
  BY DEF ReadStatus
<1>2. UNCHANGED <<FinalMemory, FinalBuffer, FinalAddress>>
  BY <1>1, CpuEdgeNoRequest
<1>3. QED
  BY <1>2 DEF ReadStatus, Port!ReadStatus

LEMMA NoAccessRefines == IInv /\ NoAccess => UNCHANGED Port!vars
<1> SUFFICES ASSUME IInv, NoAccess PROVE UNCHANGED Port!vars
  OBVIOUS
<1>1. CpuCycle("idle") /\ UNCHANGED cpuVars
  BY DEF NoAccess
<1>2. request' = request
  BY <1>1 DEF cpuVars
<1>3. UNCHANGED <<FinalMemory, FinalBuffer, FinalAddress>>
  BY <1>1, <1>2, CpuEdgeNoRequest
<1>4. QED
  BY <1>1, <1>3 DEF cpuVars, Port!vars

LEMMA ReadDataRefines == IInv /\ ReadData => Port!ReadData
<1> SUFFICES ASSUME IInv, ReadData PROVE Port!ReadData
  OBVIOUS
<1>1. CpuCycle("get")
  BY DEF ReadData
<1>2. \A f \in Flag : Pending(f)' <=> f \in {"read", "inc"}
  BY <1>1, ToggleFlags DEF ReadData, Flag
<1>3. FinalMemory' = memory
  BY <1>1, <1>2, CpuEdgeFinal DEF FinalMemory, Flag
<1>4. FinalBuffer' = memory[CellOf[active_vram_address]]
  BY <1>1, <1>2, CpuEdgeFinal DEF FinalBuffer, Flag
<1>5. FinalAddress' = Advance[<<addr_increment, active_vram_address>>]
  BY <1>1, <1>2, CpuEdgeFinal DEF ReadData, FinalAddress, Flag
<1>6. QED
  BY <1>1, <1>3, <1>4, <1>5, CpuEdgeFinal, ReadDataReturns DEF ReadData, Port!ReadData

LEMMA StutterRefines == UNCHANGED vars => UNCHANGED Port!vars
BY DEF vars, cpuVars, ppuVars, Port!vars, FinalMemory, FinalBuffer, FinalAddress, Pending

(* Every step of the handshake is a step of the atomic port or a stutter.    *)
LEMMA NextRefines == IInv /\ [Next]_vars => [Port!Next]_Port!vars
<1> SUFFICES ASSUME IInv, [Next]_vars PROVE [Port!Next]_Port!vars
  OBVIOUS
<1>1. bus.data \in Byte
  BY BusTyped
<1>2. QED
  BY <1>1, PpuCycleRefines, WriteControlRefines, WriteScrollRefines, WriteAddressRefines,
     WriteDataRefines, ReadStatusRefines, ReadDataRefines, NoAccessRefines,
     StutterRefines DEF Next, Port!Next

(* The handshake implements the atomic port: every PPUADDR, PPUSCROLL,       *)
(* PPUCTRL and PPUDATA access takes effect exactly once, in program order,   *)
(* and every PPUDATA read returns what the atomic port returns.              *)
THEOREM HandshakeImplementsPort ==
  ASSUME DoubleReads = FALSE
  PROVE  Spec => ImplementsPort
<1>1. Spec => []IInv
  BY InitIInv, NextIInv, PTL DEF Spec
<1>2. QED
  BY <1>1, InitPort, NextRefines, PTL DEF Spec, ImplementsPort, Port!Spec
=============================================================================
