---------------------------- MODULE OamDmaProofs ----------------------------
(***************************************************************************)
(* Proofs about OamDma for every page size N >= 2, every RAM and every      *)
(* place of the DMA register: the byte-by-byte copy with the CPU held is    *)
(* the atomic copy of OamCopy, wherever the ENABLE switch is moved, unless   *)
(* it holds the CPU in a write of the register's own page to it.             *)
(***************************************************************************)
EXTENDS OamDma, TLAPS

(* A copy starts at the first byte of its page.                             *)
IdleAtZero == ~DMA_active => DMA_addr_low = 0

TInv == TypeOK /\ IdleAtZero

(* While a write is held on the bus the page copied is not the register's     *)
(* own, so the DMA address never meets the DMA register during a write: it is *)
(* the open-bus page, or the one in the write that ENABLE holds.              *)
HeldWrite == DMA_active /\ bus.op \in WriteOps => DMA_addr_high # RegPage

FrozenWrite == ~ENABLE /\ bus.op = "dma" => bus.byte # RegPage

IInv == TInv /\ HeldWrite /\ FrozenWrite

-----------------------------------------------------------------------------
(* Adding to an entry number wraps within the page, and Distance undoes it.  *)
LEMMA PlusIndex ==
  ASSUME NEW a \in Index, NEW k \in Index
  PROVE  Plus(a, k) \in Index
  BY SizeAssumption DEF Index, Plus

LEMMA PlusOne == ASSUME NEW a \in Index PROVE Plus(a, 1) \in Index
  BY SizeAssumption DEF Index, Plus

LEMMA DistanceIndex ==
  ASSUME NEW a \in Index, NEW i \in Index
  PROVE  Distance(a, i) \in Index
  BY SizeAssumption DEF Index, Distance

LEMMA DistanceInverse ==
  ASSUME NEW a \in Index, NEW k \in Index, NEW i \in Index
  PROVE  Distance(a, i) = k <=> i = Plus(a, k)
  BY SizeAssumption DEF Index, Distance, Plus

(* Whatever page is copied, it is answered by a page of system RAM.          *)
LEMMA RamByte ==
  ASSUME TypeOK, NEW h \in Byte, NEW i \in Index
  PROVE  ram[RamOf[h]][i] \in Byte
  BY PageAssumption DEF TypeOK

LEMMA BusFields ==
  ASSUME NEW b \in BusCycle
  PROVE  /\ b.op = "oamaddr" => b.index \in Index
         /\ b.op \in {"oamdata", "dma"} => b.byte \in Byte
         /\ b.op = "ram" => b.page \in RamPage /\ b.index \in Index /\ b.byte \in Byte
  BY DEF BusCycle

LEMMA NextBusCycleType == TypeOK /\ NextBusCycle => bus' \in BusCycle
  BY DEF NextBusCycle, TypeOK

-----------------------------------------------------------------------------
LEMMA InitIInv == Init => IInv
<1> SUFFICES ASSUME Init PROVE IInv
  OBVIOUS
<1>1. bus \in BusCycle /\ bus.op \notin WriteOps /\ bus.op # "dma"
  BY DEF Init, BusCycle, WriteOps
<1>2. 0 \in Index
  BY SizeAssumption DEF Index
<1>3. QED
  BY <1>1, <1>2, Zenon DEF Init, IInv, TInv, TypeOK, IdleAtZero, HeldWrite, FrozenWrite

(* The registers of the copy, whether or not the DMA address hits a write.    *)
LEMMA AdvanceTyped ==
  ASSUME TInv, DMA_active, AdvanceDma
  PROVE  /\ DMA_active' \in BOOLEAN /\ DMA_addr_high' \in Byte /\ DMA_addr_low' \in Index
         /\ IdleAtZero'
<1>1. CASE Retriggered
  <2>1. SYSRAM_DATA_OUT \in Byte
    BY RamByte DEF TInv, TypeOK, SYSRAM_DATA_OUT
  <2>2. QED
    BY <1>1, <2>1 DEF AdvanceDma, TInv, TypeOK, IdleAtZero
<1>2. CASE ~Retriggered
  <2>1. /\ DMA_active' = (DMA_addr_low # N - 1)
        /\ DMA_addr_low' = IF DMA_addr_low = N - 1 THEN 0 ELSE DMA_addr_low + 1
        /\ DMA_addr_high' = DMA_addr_high
    BY <1>2, Zenon DEF AdvanceDma
  <2>2. DMA_addr_low' \in Index
    BY <2>1, SizeAssumption DEF TInv, TypeOK, Index
  <2>3. DMA_active' \in BOOLEAN /\ IdleAtZero'
    BY <2>1 DEF IdleAtZero
  <2>4. QED
    BY <2>1, <2>2, <2>3 DEF TInv, TypeOK
<1>3. QED
  BY <1>1, <1>2

LEMMA DmaCycleTInv == TInv /\ DmaCycle => TInv'
<1> SUFFICES ASSUME TInv, DmaCycle PROVE TInv'
  OBVIOUS
<1> USE DEF TInv
<1>1. SYSRAM_DATA_OUT \in Byte /\ Plus(oam_address, DMA_addr_low) \in Index
  BY RamByte, PlusIndex DEF TypeOK, SYSRAM_DATA_OUT
<1>2. OAM' \in [Index -> Byte]
  BY <1>1 DEF TypeOK, DmaCycle, CopyByte
<1>3. /\ DMA_active' \in BOOLEAN /\ DMA_addr_high' \in Byte /\ DMA_addr_low' \in Index
      /\ IdleAtZero'
  BY AdvanceTyped DEF DmaCycle
<1>4. TypeOK'
  BY <1>2, <1>3, Zenon DEF TypeOK, DmaCycle
<1>5. QED
  BY <1>3, <1>4

LEMMA CpuCycleTInv == TInv /\ CpuCycle => TInv'
<1> SUFFICES ASSUME TInv, CpuCycle PROVE TInv'
  OBVIOUS
<1> USE DEF TInv
<1>1. CASE StartDma
  <2>1. bus.byte \in Byte /\ bus' \in BusCycle
    BY <1>1, BusFields, NextBusCycleType DEF StartDma, TypeOK
  <2>2. QED
    BY <1>1, <2>1, Zenon DEF TypeOK, IdleAtZero, StartDma
<1>2. CASE SetOamAddress
  <2>1. bus.index \in Index /\ bus' \in BusCycle
    BY <1>2, BusFields, NextBusCycleType DEF SetOamAddress, TypeOK
  <2>2. QED
    BY <1>2, <2>1, Zenon DEF TypeOK, IdleAtZero, SetOamAddress, dmaVars
<1>3. CASE WriteOamData
  <2>1. bus.byte \in Byte /\ bus' \in BusCycle
    BY <1>3, BusFields, NextBusCycleType DEF WriteOamData, TypeOK
  <2>2. OAM' \in [Index -> Byte] /\ oam_address' \in Index
    BY <1>3, <2>1, PlusOne DEF WriteOamData, TypeOK
  <2>3. QED
    BY <1>3, <2>1, <2>2, Zenon DEF TypeOK, IdleAtZero, WriteOamData, dmaVars
<1>4. CASE WriteRam
  <2>1. bus.page \in RamPage /\ bus.index \in Index /\ bus.byte \in Byte /\ bus' \in BusCycle
    BY <1>4, BusFields, NextBusCycleType DEF WriteRam, TypeOK
  <2>2. ram' \in [RamPage -> [Index -> Byte]]
    BY <1>4, <2>1 DEF WriteRam, TypeOK
  <2>3. QED
    BY <1>4, <2>1, <2>2, Zenon DEF TypeOK, IdleAtZero, WriteRam, dmaVars
<1>5. CASE OtherCycle
  BY <1>5, NextBusCycleType, Zenon DEF TypeOK, IdleAtZero, OtherCycle, dmaVars
<1>6. QED
  BY <1>1, <1>2, <1>3, <1>4, <1>5 DEF CpuCycle

LEMMA ResetTInv == TInv /\ Reset => TInv'
<1> SUFFICES ASSUME TInv, Reset PROVE TInv'
  OBVIOUS
<1> USE DEF TInv
<1>1. OAM' \in [Index -> Byte]
  BY ByteAssumption DEF Reset
<1>2. CASE ~DMA_active
  BY <1>1, <1>2, Zenon DEF TypeOK, IdleAtZero, Reset, dmaVars
<1>3. CASE DMA_active
  <2>1. /\ DMA_active' \in BOOLEAN /\ DMA_addr_high' \in Byte /\ DMA_addr_low' \in Index
        /\ IdleAtZero'
    BY <1>3, AdvanceTyped DEF Reset
  <2>2. QED
    BY <1>1, <2>1, Zenon DEF TypeOK, Reset
<1>4. QED
  BY <1>2, <1>3

LEMMA StepTInv == TInv /\ [Next]_vars => TInv'
<1> SUFFICES ASSUME TInv, [Next]_vars PROVE TInv'
  OBVIOUS
<1>1. CASE DmaCycle
  BY <1>1, DmaCycleTInv
<1>2. CASE CpuCycle
  BY <1>2, CpuCycleTInv
<1>3. CASE Reset
  BY <1>3, ResetTInv
<1>4. CASE AbortBusCycle
  <2>1. bus' \in BusCycle
    BY <1>4 DEF AbortBusCycle, BusCycle
  <2>2. QED
    BY <1>4, <2>1, Zenon DEF TInv, TypeOK, IdleAtZero, AbortBusCycle, dmaVars
<1>5. CASE SwitchEnable
  <2>1. ENABLE' \in BOOLEAN
    BY <1>5 DEF SwitchEnable
  <2>2. QED
    BY <1>5, <2>1, Zenon DEF TInv, TypeOK, IdleAtZero, SwitchEnable, dmaVars
<1>6. CASE UNCHANGED vars
  BY <1>6, Zenon DEF TInv, TypeOK, IdleAtZero, vars, dmaVars
<1>7. QED
  BY <1>1, <1>2, <1>3, <1>4, <1>5, <1>6 DEF Next, ClockEdge

(* The type invariant of OamDma: OAMADDR, the copy's address and the sprite  *)
(* memory stay within their ranges, whatever the program does and whatever    *)
(* ENABLE holds.                                                              *)
THEOREM TypeCorrect == Spec => []TypeOK
<1>1. Init => TInv
  BY InitIInv DEF IInv
<1>2. TInv => TypeOK
  BY DEF TInv
<1>3. QED
  BY <1>1, <1>2, StepTInv, PTL DEF Spec

-----------------------------------------------------------------------------
(* While a copy runs, the DMA address does not hit a held write: every edge  *)
(* moves it on.                                                              *)
LEMMA CopyMovesOn ==
  ASSUME IInv, DMA_active, AdvanceDma
  PROVE  /\ DMA_active' = (DMA_addr_low # N - 1)
         /\ DMA_addr_low' = IF DMA_addr_low = N - 1 THEN 0 ELSE DMA_addr_low + 1
         /\ DMA_addr_high' = DMA_addr_high
<1>1. ~Retriggered
  BY DEF IInv, HeldWrite, Retriggered
<1>2. QED
  BY <1>1, Zenon DEF AdvanceDma

LEMMA DmaCycleMoves ==
  ASSUME IInv, DmaCycle
  PROVE  /\ DMA_active' = (DMA_addr_low # N - 1)
         /\ DMA_addr_low' = IF DMA_addr_low = N - 1 THEN 0 ELSE DMA_addr_low + 1
         /\ DMA_addr_high' = DMA_addr_high
         /\ OAM' = [OAM EXCEPT ![Plus(oam_address, DMA_addr_low)] = SYSRAM_DATA_OUT]
         /\ bus' = bus /\ oam_address' = oam_address /\ ram' = ram
  BY CopyMovesOn, Zenon DEF DmaCycle, CopyByte

(* A write that starts a copy leaves the bus, but for the first one of a       *)
(* read-modify-write, which names the open-bus page, or stays in it because    *)
(* ENABLE is low.                                                             *)
LEMMA StepIInv ==
  ASSUME HoldsOwnPage = FALSE, IInv, [Next]_vars
  PROVE  IInv'
<1> USE DEF IInv
<1>0. TInv'
  BY StepTInv
<1>1. CASE DmaCycle
  BY <1>0, <1>1, CopyMovesOn, Zenon DEF DmaCycle, HeldWrite, FrozenWrite
<1>2. CASE StartDma
  <2>1. CASE ENABLE
    <3>1. \/ bus'.op = "other"
          \/ bus.byte = OpenBus
      BY <1>2, <2>1 DEF StartDma, NextBusCycle
    <3>2. HeldWrite'
      BY <1>2, <3>1, ByteAssumption DEF StartDma, HeldWrite, WriteOps
    <3>3. FrozenWrite'
      BY <1>2, <2>1 DEF StartDma, FrozenWrite
    <3>4. QED
      BY <1>0, <3>2, <3>3
  <2>2. CASE ~ENABLE
    BY <1>0, <1>2, <2>2 DEF StartDma, NextBusCycle, HeldWrite, FrozenWrite
  <2>3. QED
    BY <2>1, <2>2
<1>3. CASE CpuCycle /\ ~StartDma
  <2>1. ~DMA_active' /\ ENABLE' = ENABLE /\ NextBusCycle
    BY <1>3 DEF CpuCycle, SetOamAddress, WriteOamData, WriteRam, OtherCycle, dmaVars
  <2>2. QED
    BY <1>0, <2>1, Zenon DEF HeldWrite, FrozenWrite, NextBusCycle
<1>4. CASE AbortBusCycle
  BY <1>0, <1>4 DEF AbortBusCycle, HeldWrite, FrozenWrite, WriteOps
<1>5. CASE Reset
  BY <1>0, <1>5 DEF Reset, HeldWrite, FrozenWrite, WriteOps
<1>6. CASE SwitchEnable
  BY <1>0, <1>6 DEF SwitchEnable, HeldWrite, FrozenWrite, dmaVars, TInv, TypeOK
<1>7. CASE UNCHANGED vars
  BY <1>0, <1>7, Zenon DEF HeldWrite, FrozenWrite, vars, dmaVars
<1>8. QED
  BY <1>1, <1>2, <1>3, <1>4, <1>5, <1>6, <1>7 DEF Next, ClockEdge, CpuCycle

-----------------------------------------------------------------------------
(* The refinement: outside a copy the mapped sprite memory is the real one;   *)
(* the write of $4014 performs the whole copy, the cycles that follow stutter.*)
LEMMA FinalOamIdle ==
  ASSUME TInv, ~DMA_active
  PROVE  FinalOam = OAM
  BY DEF TInv, TypeOK, FinalOam

LEMMA FinalOamIdleNext ==
  ASSUME TInv', ~DMA_active'
  PROVE  FinalOam' = OAM'
  BY DEF TInv, TypeOK, FinalOam

LEMMA DmaCycleStutters == IInv /\ DmaCycle => UNCHANGED <<oam_address, FinalOam, ram>>
<1> SUFFICES ASSUME IInv, DmaCycle PROVE FinalOam' = FinalOam
  BY DmaCycleMoves
<1> USE DEF IInv, TInv
<1> DEFINE d(i) == Distance(oam_address, i)
           from(i) == ram[RamOf[DMA_addr_high]][d(i)]
           before(i) == IF d(i) >= DMA_addr_low THEN from(i) ELSE OAM[i]
           after(i) == IF DMA_active' /\ d(i) >= DMA_addr_low' THEN from(i) ELSE OAM'[i]
<1>1. FinalOam = [i \in Index |-> before(i)]
  BY DEF FinalOam, DmaCycle
<1>2. FinalOam' = [i \in Index |-> after(i)]
  BY DmaCycleMoves DEF FinalOam
<1>3. ASSUME NEW i \in Index PROVE before(i) = after(i)
  <2>1. d(i) \in Index /\ DMA_addr_low \in Index /\ oam_address \in Index
    BY DistanceIndex DEF TypeOK
  <2>2. CASE d(i) = DMA_addr_low
    <3>1. i = Plus(oam_address, DMA_addr_low)
      BY <2>1, <2>2, DistanceInverse
    <3>2. OAM'[i] = from(i)
      BY <3>1, <2>2, DmaCycleMoves DEF TypeOK, SYSRAM_DATA_OUT
    <3>3. QED
      BY <2>1, <2>2, <3>2 DEF Index
  <2>3. CASE d(i) # DMA_addr_low
    <3>1. i # Plus(oam_address, DMA_addr_low)
      BY <2>1, <2>3, DistanceInverse
    <3>2. OAM'[i] = OAM[i]
      BY <3>1, DmaCycleMoves DEF TypeOK
    <3> HIDE DEF d
    <3>3. CASE DMA_addr_low = N - 1
      <4>1. ~DMA_active'
        BY <3>3, DmaCycleMoves
      <4>2. ~(d(i) >= DMA_addr_low)
        BY <2>1, <2>3, <3>3, SizeAssumption DEF Index
      <4>3. QED
        BY <3>2, <4>1, <4>2
    <3>4. CASE DMA_addr_low # N - 1
      <4>1. DMA_active' /\ DMA_addr_low' = DMA_addr_low + 1
        BY <3>4, DmaCycleMoves
      <4>2. d(i) >= DMA_addr_low' <=> d(i) >= DMA_addr_low
        BY <2>1, <2>3, <4>1, SizeAssumption DEF Index
      <4>3. QED
        BY <3>2, <4>1, <4>2
    <3>5. QED
      BY <3>3, <3>4
  <2>4. QED
    BY <2>2, <2>3
<1>4. QED
  BY <1>1, <1>2, <1>3

LEMMA StartDmaCopies ==
  ASSUME IInv, StartDma
  PROVE  \E page \in Byte : Copy!CopyPage(page)
<1> USE DEF IInv, TInv
<1>1. bus.byte \in Byte
  BY BusFields DEF StartDma, TypeOK
<1>2. \A i \in Index : Distance(oam_address, i) >= 0
  BY DistanceIndex DEF TypeOK, Index
<1>3. DMA_active' /\ DMA_addr_low' = 0 /\ DMA_addr_high' = bus.byte
      /\ UNCHANGED <<oam_address, ram>>
  BY DEF StartDma, IdleAtZero
<1>4. FinalOam' = [i \in Index |-> ram[RamOf[bus.byte]][Distance(oam_address, i)]]
  BY <1>2, <1>3 DEF FinalOam
<1>5. Copy!CopyPage(bus.byte)
  BY <1>3, <1>4 DEF Copy!CopyPage, Copy!Index, Copy!Distance, Index, Distance
<1>6. QED
  BY <1>1, <1>5

LEMMA CpuCycleImplements ==
  ASSUME IInv, CpuCycle
  PROVE  [Copy!Next]_(Copy!vars)
<1> USE DEF IInv, TInv
<1>0. TInv'
  BY CpuCycleTInv
<1>1. CASE StartDma
  BY <1>1, StartDmaCopies DEF Copy!Next
<1>2. ASSUME ~StartDma PROVE FinalOam = OAM /\ FinalOam' = OAM'
  <2>1. ~DMA_active /\ ~DMA_active'
    BY <1>2 DEF CpuCycle, SetOamAddress, WriteOamData, WriteRam, OtherCycle, dmaVars
  <2>2. QED
    BY <1>0, <2>1, FinalOamIdle, FinalOamIdleNext
<1>3. CASE ~StartDma /\ SetOamAddress
  <2>1. bus.index \in Index
    BY <1>3, BusFields DEF SetOamAddress, TypeOK
  <2>2. Copy!SetAddress(bus.index)
    BY <1>2, <1>3 DEF Copy!SetAddress, SetOamAddress
  <2>3. QED
    BY <2>1, <2>2 DEF Copy!Next, Copy!Index, Index
<1>4. CASE ~StartDma /\ WriteOamData
  <2>1. bus.byte \in Byte
    BY <1>4, BusFields DEF WriteOamData, TypeOK
  <2>2. Copy!WriteData(bus.byte)
    BY <1>2, <1>4 DEF Copy!WriteData, Copy!Slot, WriteOamData, Plus
  <2>3. QED
    BY <2>1, <2>2 DEF Copy!Next
<1>5. CASE ~StartDma /\ WriteRam
  <2>1. bus.page \in RamPage /\ bus.index \in Index /\ bus.byte \in Byte
    BY <1>5, BusFields DEF WriteRam, TypeOK
  <2>2. Copy!WriteRam(bus.page, bus.index, bus.byte)
    BY <1>2, <1>5 DEF Copy!WriteRam, WriteRam
  <2>3. QED
    BY <2>1, <2>2 DEF Copy!Next, Copy!Index, Index
<1>6. CASE ~StartDma /\ OtherCycle
  BY <1>2, <1>6 DEF OtherCycle, Copy!vars
<1>7. QED
  BY <1>1, <1>3, <1>4, <1>5, <1>6 DEF CpuCycle

(* RESET: cleared is what the copy has passed, with the entry of this edge;   *)
(* the rest of the page is still to come.                                     *)
LEMMA ResetImplements ==
  ASSUME IInv, Reset
  PROVE  Copy!Reset
<1> USE DEF IInv, TInv
<1> DEFINE d(i) == Distance(oam_address, i)
           from(i) == ram[RamOf[DMA_addr_high]][d(i)]
           done == IF DMA_active THEN DMA_addr_low + 1 ELSE N
<1>1. oam_address' = oam_address /\ ram' = ram /\ OAM' = [i \in Index |-> Zero]
  BY DEF Reset
<1>2. DMA_addr_low \in Index /\ \A i \in Index : d(i) \in Index
  BY DistanceIndex DEF TypeOK
<1>3. done \in 1..N
  BY <1>2, SizeAssumption DEF Index
<1>4. FinalOam' = [i \in Index |-> IF d(i) < done THEN Zero ELSE FinalOam[i]]
  <2>1. CASE ~DMA_active
    <3>1. ~DMA_active'
      BY <2>1 DEF Reset, dmaVars
    <3>2. FinalOam' = OAM'
      BY <3>1, ResetTInv, FinalOamIdleNext
    <3>3. \A i \in Index : d(i) < done
      BY <1>2, <2>1, SizeAssumption DEF Index
    <3> HIDE DEF d, done
    <3>4. QED
      BY <1>1, <3>2, <3>3
  <2>2. CASE DMA_active
    <3>1. /\ DMA_active' = (DMA_addr_low # N - 1)
          /\ DMA_addr_low' = IF DMA_addr_low = N - 1 THEN 0 ELSE DMA_addr_low + 1
          /\ DMA_addr_high' = DMA_addr_high
      BY <2>2, CopyMovesOn DEF Reset
    <3>2. ASSUME NEW i \in Index
          PROVE  (DMA_active' /\ d(i) >= DMA_addr_low') <=> ~(d(i) < done)
      <4>1. d(i) \in Index /\ done = DMA_addr_low + 1
        BY <1>2, <2>2
      <4> HIDE DEF d, done
      <4>2. CASE DMA_addr_low = N - 1
        <5>1. ~DMA_active'
          BY <3>1, <4>2
        <5>2. d(i) < done
          BY <1>2, <4>1, <4>2, SizeAssumption DEF Index
        <5>3. QED
          BY <5>1, <5>2
      <4>3. CASE DMA_addr_low # N - 1
        <5>1. DMA_active' /\ DMA_addr_low' = DMA_addr_low + 1
          BY <3>1, <4>3
        <5>2. d(i) >= DMA_addr_low' <=> ~(d(i) < done)
          BY <1>2, <4>1, <5>1, SizeAssumption DEF Index
        <5>3. QED
          BY <5>1, <5>2
      <4>4. QED
        BY <4>2, <4>3
    <3>3. ASSUME NEW i \in Index, ~(d(i) < done) PROVE FinalOam[i] = from(i)
      <4>1. d(i) >= DMA_addr_low
        BY <1>2, <2>2, <3>3 DEF Index
      <4>2. QED
        BY <2>2, <4>1 DEF FinalOam
    <3>4. FinalOam' =
            [i \in Index |-> IF DMA_active' /\ d(i) >= DMA_addr_low' THEN from(i) ELSE Zero]
      BY <1>1, <3>1 DEF FinalOam
    <3> HIDE DEF d, done, from
    <3>5. QED
      BY <3>2, <3>3, <3>4
  <2>3. QED
    BY <2>1, <2>2
<1>5. done < N =>
        \E page \in Byte : \A i \in Index :
          d(i) >= done => FinalOam[i] = ram[RamOf[page]][d(i)]
  <2> SUFFICES ASSUME done < N
               PROVE  \A i \in Index : d(i) >= done => FinalOam[i] = from(i)
    BY DEF TypeOK
  <2>1. DMA_active
    BY SizeAssumption
  <2>2. ASSUME NEW i \in Index, d(i) >= done PROVE FinalOam[i] = from(i)
    <3>1. d(i) >= DMA_addr_low
      BY <1>2, <2>1, <2>2 DEF Index
    <3>2. QED
      BY <2>1, <3>1 DEF FinalOam
  <2>3. QED
    BY <2>2
<1> HIDE DEF done
<1>6. QED
  BY <1>1, <1>3, <1>4, <1>5
  DEF Copy!Reset, Copy!Index, Copy!Distance, Index, Distance

LEMMA StepImplements == IInv /\ [Next]_vars => [Copy!Next]_(Copy!vars)
<1> SUFFICES ASSUME IInv, [Next]_vars PROVE [Copy!Next]_(Copy!vars)
  OBVIOUS
<1>1. CASE DmaCycle
  BY <1>1, DmaCycleStutters DEF Copy!vars
<1>2. CASE CpuCycle
  BY <1>2, CpuCycleImplements
<1>3. CASE AbortBusCycle
  BY <1>3 DEF AbortBusCycle, dmaVars, Copy!vars, FinalOam
<1>4. CASE Reset
  BY <1>4, ResetImplements DEF Copy!Next
<1>5. CASE SwitchEnable
  BY <1>5 DEF SwitchEnable, dmaVars, Copy!vars, FinalOam
<1>6. CASE UNCHANGED vars
  BY <1>6 DEF vars, dmaVars, Copy!vars, FinalOam
<1>7. QED
  BY <1>1, <1>2, <1>3, <1>4, <1>5, <1>6 DEF Next, ClockEdge

LEMMA InitImplements == Init => Copy!Init
<1> SUFFICES ASSUME Init PROVE Copy!Init
  OBVIOUS
<1>1. FinalOam = OAM
  BY InitIInv, FinalOamIdle DEF Init, IInv
<1>2. QED
  BY <1>1 DEF Init, Copy!Init, Copy!Index, Index

(* A sprite DMA is the atomic copy of a page, whatever the page, the sprite   *)
(* address and the instruction that starts it: NES_ARCHITECTURE.sv:126-140     *)
(* with PPU.sv:285-297 implements OamCopy, also when RESET interrupts it and    *)
(* when ENABLE holds the CPU at any edge, except in a write of the DMA          *)
(* register's own page to it, which the runs dma_stuck and dma_mixed allow.     *)
THEOREM DmaImplementsCopy ==
  ASSUME HoldsOwnPage = FALSE
  PROVE  Spec => ImplementsCopy
<1>1. Spec => []IInv
  BY InitIInv, StepIInv, PTL DEF Spec
<1>2. QED
  BY <1>1, InitImplements, StepImplements, PTL DEF Spec, ImplementsCopy, Copy!Spec
=============================================================================
