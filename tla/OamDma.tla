------------------------------- MODULE OamDma -------------------------------
(***************************************************************************)
(* Sprite DMA: the DMA state machine and the CPU bus of NES_ARCHITECTURE.sv *)
(* with the $2003 / $2004 / DMA branches of PPU.sv, one step per CPU clock  *)
(* edge.  While DMA_active is set the CPU is held in its bus cycle and the  *)
(* DMA address is on the bus instead of the CPU's.  The board's ENABLE       *)
(* switch holds the CPU as well, but not the DMA.                            *)
(***************************************************************************)
EXTENDS Naturals

CONSTANTS
  N, Byte, Zero, RamPage, RamOf,
  RegPage,    (* page of the DMA register's own address, $40               *)
  RegLow,     (* its offset in that page, $14                              *)
  OpenBus,    (* what a CPU read of $4014 returns, 8'hFF                   *)
  HoldsOwnPage  (* may ENABLE go low while RegPage is written to $4014?    *)

Index == 0..(N - 1)

BusCycle ==
  [op : {"oamaddr"}, index : Index]
    \cup [op : {"oamdata", "dma"}, byte : Byte]
    \cup [op : {"ram"}, page : RamPage, index : Index, byte : Byte]
    \cup {[op |-> "other"]}

(* Cycles with CPU_RW_n low. *)
WriteOps == {"oamaddr", "oamdata", "dma", "ram"}

ASSUME SizeAssumption == N \in Nat /\ N >= 2
ASSUME PageAssumption ==
  /\ RamOf \in [Byte -> RamPage]
  /\ RegPage \in Byte
  /\ RegLow \in Index
ASSUME HoldAssumption == HoldsOwnPage \in BOOLEAN
ASSUME ByteAssumption == Zero \in Byte /\ OpenBus \in Byte /\ OpenBus # RegPage

VARIABLES
  ENABLE,                                 (* SW[1] of the board            *)
  bus,                                    (* the CPU's current bus cycle   *)
  DMA_active, DMA_addr_high, DMA_addr_low,
  oam_address, OAM,
  ram                                     (* system RAM                    *)

dmaVars == <<DMA_active, DMA_addr_high, DMA_addr_low>>
vars == <<ENABLE, bus, dmaVars, oam_address, OAM, ram>>

(* 8-bit addition, DMA_plus_OAM_address. *)
Plus(a, k) == IF a + k < N THEN a + k ELSE a + k - N

Init ==
  /\ ENABLE \in BOOLEAN
  /\ bus = [op |-> "other"]
  /\ DMA_active = FALSE
  /\ DMA_addr_high \in Byte
  /\ DMA_addr_low = 0
  /\ oam_address \in Index
  /\ OAM \in [Index -> Byte]
  /\ ram \in [RamPage -> [Index -> Byte]]

-----------------------------------------------------------------------------
(* The byte system RAM drives while DMA is active, whatever the page is:     *)
(* pages outside RAM read its mirror, by the low 11 address bits.            *)
SYSRAM_DATA_OUT == ram[RamOf[DMA_addr_high]][DMA_addr_low]

(* CPU_ENABLE at an edge without DMA is ENABLE: the CPU moves on to its next  *)
(* bus cycle or stays in this one.  A write of $4014 is the last write of     *)
(* its instruction, or the first of a read-modify-write, which writes back   *)
(* the open-bus byte it read.                                                *)
NextBusCycle ==
  \/ /\ ENABLE
     /\ \E next \in BusCycle :
          /\ bus.op = "dma" /\ bus.byte # OpenBus => next.op = "other"
          /\ bus' = next
  \/ ~ENABLE /\ UNCHANGED bus

(* Sensitivity variant of CopyByte: the copy starts at entry 0.              *)
CopyByteFromZero ==
  OAM' = [OAM EXCEPT ![DMA_addr_low] = SYSRAM_DATA_OUT]

CopyByte ==
  OAM' = [OAM EXCEPT ![Plus(oam_address, DMA_addr_low)] = SYSRAM_DATA_OUT]

(* A write held on the bus while the DMA address passes over $4014.          *)
Retriggered ==
  bus.op \in WriteOps /\ DMA_addr_high = RegPage /\ DMA_addr_low = RegLow

(* Sensitivity variants of AdvanceDma: the copy never ends, or leaves its    *)
(* address counter at the last byte.                                         *)
AdvanceDmaForever ==
  IF Retriggered
  THEN DMA_addr_high' = SYSRAM_DATA_OUT /\ UNCHANGED <<DMA_active, DMA_addr_low>>
  ELSE /\ DMA_addr_low' = Plus(DMA_addr_low, 1)
       /\ UNCHANGED <<DMA_active, DMA_addr_high>>

AdvanceDmaOverrun ==
  IF Retriggered
  THEN DMA_addr_high' = SYSRAM_DATA_OUT /\ UNCHANGED <<DMA_active, DMA_addr_low>>
  ELSE /\ DMA_active' = (DMA_addr_low # N)
       /\ DMA_addr_low' = IF DMA_addr_low = N THEN 0 ELSE DMA_addr_low + 1
       /\ UNCHANGED DMA_addr_high

AdvanceDma ==
  IF Retriggered
  THEN DMA_addr_high' = SYSRAM_DATA_OUT /\ UNCHANGED <<DMA_active, DMA_addr_low>>
  ELSE /\ DMA_active' = (DMA_addr_low # N - 1)
       /\ DMA_addr_low' = IF DMA_addr_low = N - 1 THEN 0 ELSE DMA_addr_low + 1
       /\ UNCHANGED DMA_addr_high

(* One CPU clock of an active DMA; CPU_ENABLE is low, so the CPU holds.       *)
DmaCycle ==
  /\ DMA_active
  /\ CopyByte
  /\ AdvanceDma
  /\ UNCHANGED <<ENABLE, bus, oam_address, ram>>

StartDma ==
  /\ ~DMA_active
  /\ bus.op = "dma"
  /\ DMA_active' = TRUE
  /\ DMA_addr_high' = bus.byte
  /\ NextBusCycle
  /\ UNCHANGED <<ENABLE, DMA_addr_low, oam_address, OAM, ram>>

SetOamAddress ==
  /\ ~DMA_active
  /\ bus.op = "oamaddr"
  /\ oam_address' = bus.index
  /\ NextBusCycle
  /\ UNCHANGED <<ENABLE, dmaVars, OAM, ram>>

WriteOamData ==
  /\ ~DMA_active
  /\ bus.op = "oamdata"
  /\ OAM' = [OAM EXCEPT ![oam_address] = bus.byte]
  /\ oam_address' = Plus(oam_address, 1)
  /\ NextBusCycle
  /\ UNCHANGED <<ENABLE, dmaVars, ram>>

WriteRam ==
  /\ ~DMA_active
  /\ bus.op = "ram"
  /\ ram' = [ram EXCEPT ![bus.page][bus.index] = bus.byte]
  /\ NextBusCycle
  /\ UNCHANGED <<ENABLE, dmaVars, oam_address, OAM>>

OtherCycle ==
  /\ ~DMA_active
  /\ bus.op = "other"
  /\ NextBusCycle
  /\ UNCHANGED <<ENABLE, dmaVars, oam_address, OAM, ram>>

CpuCycle == StartDma \/ SetOamAddress \/ WriteOamData \/ WriteRam \/ OtherCycle

(* RESET takes a started bus cycle away from the CPU at once, between edges,   *)
(* also from a CPU that is held.                                              *)
AbortBusCycle ==
  /\ bus.op # "other"
  /\ bus' = [op |-> "other"]
  /\ UNCHANGED <<ENABLE, dmaVars, oam_address, OAM, ram>>

(* A clock edge with RESET high: sprite memory is cleared, but the DMA          *)
(* registers and OAMADDR have no reset, and a copy that is running runs on.     *)
Reset ==
  /\ bus.op = "other"
  /\ OAM' = [i \in Index |-> Zero]
  /\ IF DMA_active THEN AdvanceDma ELSE UNCHANGED dmaVars
  /\ UNCHANGED <<ENABLE, bus, oam_address, ram>>

(* The switch is moved at any time.  HoldsOwnPage is the one case that the     *)
(* code does not survive: the write of RegPage is still on the bus when the   *)
(* DMA address passes over $4014.                                            *)
SwitchEnable ==
  /\ ENABLE /\ bus.op = "dma" /\ bus.byte = RegPage => HoldsOwnPage
  /\ ENABLE' = ~ENABLE
  /\ UNCHANGED <<bus, dmaVars, oam_address, OAM, ram>>

ClockEdge == DmaCycle \/ CpuCycle \/ Reset

Next == ClockEdge \/ AbortBusCycle \/ SwitchEnable

(* The CPU clock comes from a PLL and runs freely. *)
Spec == Init /\ [][Next]_vars /\ WF_vars(ClockEdge)

-----------------------------------------------------------------------------
(* Type invariant: registers stay within their 8 bits and the copy never     *)
(* addresses a byte outside the page.                                        *)
TypeOK ==
  /\ ENABLE \in BOOLEAN
  /\ bus \in BusCycle
  /\ DMA_active \in BOOLEAN
  /\ DMA_addr_high \in Byte
  /\ DMA_addr_low \in Index
  /\ oam_address \in Index
  /\ OAM \in [Index -> Byte]
  /\ ram \in [RamPage -> [Index -> Byte]]

(* The places after OAMADDR the copy has still to fill count as filled.      *)
Distance(a, i) == IF i >= a THEN i - a ELSE i + N - a

FinalOam ==
  [i \in Index |->
     IF DMA_active /\ Distance(oam_address, i) >= DMA_addr_low
     THEN ram[RamOf[DMA_addr_high]][Distance(oam_address, i)]
     ELSE OAM[i]]

Copy == INSTANCE OamCopy WITH oam <- FinalOam

(* A DMA is the atomic copy of a page: it starts at OAMADDR and wraps        *)
(* (ppu_tests_basic/readme.txt, sprite_ram test 7), leaves OAMADDR alone     *)
(* (test 8), copies each byte once from the page written, and a bus cycle it *)
(* holds has no effect in between.  A RESET in the middle leaves the rest of  *)
(* that page and nothing else.  A write ENABLE holds is one again at each      *)
(* edge: a DMA follows a DMA, $2004 fills entry after entry.                 *)
ImplementsCopy == Copy!Spec

(* DMA_active does not "get stuck high" (NES_ARCHITECTURE.sv:127), even for  *)
(* a copy of the page that holds the DMA register itself, with a write held  *)
(* on the bus, by the copy or by ENABLE.                                     *)
DmaEnds == DMA_active ~> ~DMA_active
=============================================================================
