--------------------------- MODULE PPUVblankProofs ---------------------------
(***************************************************************************)
(* Proofs about PPUVblank for every frame length, every place of the blank  *)
(* in it and every clock ratio R >= 3.                                      *)
(***************************************************************************)
EXTENDS PPUVblank, TLAPS

(* A clear that is waiting under a raised flag was asked for by a read in     *)
(* the cycle before: that read returned the flag, and the CPU sampled the     *)
(* line along with it, unless the flag rose with that very edge.              *)
ClearWasReported ==
  ClearPending /\ nmi_occured =>
    \/ tick = SetTick + 1
    \/ status_read /\ (nmi_generate => ~NMI_n_o)

Inv == TypeOK /\ FlagOnlyInVblank /\ ClearedAtOnce /\ ClearWasReported

-----------------------------------------------------------------------------
LEMMA Zeroes == 0 \in 0..(R - 1) /\ 0 \in 0..(Frame - 1)
<1>1. Frame \in Nat /\ 0 < Frame
  BY FrameAssumption
<1>2. QED
  BY <1>1, ClockAssumption

LEMMA InitInv == Init => Inv
<1> SUFFICES ASSUME Init PROVE Inv
  OBVIOUS
<1>1. TypeOK
  BY Zeroes DEF Init, TypeOK, BusCycle
<1>2. ~nmi_occured
  BY DEF Init
<1>3. FlagOnlyInVblank /\ ClearedAtOnce /\ ClearWasReported
  BY <1>2 DEF Init, FlagOnlyInVblank, ClearedAtOnce, ClearWasReported
<1>4. QED
  BY <1>1, <1>3 DEF Inv

(* A PPU edge keeps the flag inside the blank and serves the clear. *)
LEMMA PpuEdgeFlag ==
  ASSUME TypeOK, FlagOnlyInVblank, PpuEdge
  PROVE  /\ tick' \in 0..(Frame - 1)
         /\ nmi_occured' \in BOOLEAN
         /\ ppu_nmi_clear_handle' = cpu_nmi_clear_request
         /\ FlagOnlyInVblank'
         /\ nmi_occured' => nmi_occured \/ tick' = SetTick + 1
<1>1. tick' = IF tick = Frame - 1 THEN 0 ELSE tick + 1
  BY DEF PpuEdge
<1>2. tick' \in 0..(Frame - 1)
  BY <1>1, FrameAssumption DEF TypeOK
<1>3. ppu_nmi_clear_handle' = cpu_nmi_clear_request
  BY DEF PpuEdge, UpdateFlag
<1>4. nmi_occured' \in BOOLEAN
  BY DEF PpuEdge, UpdateFlag
<1>5. nmi_occured' => tick = SetTick \/ (nmi_occured /\ tick # ClearTick)
  BY DEF PpuEdge, UpdateFlag
<1>6. CASE tick = SetTick
  <2>1. tick' = SetTick + 1
    BY <1>1, <1>6, FrameAssumption
  <2>2. FlagOnlyInVblank'
    BY <2>1, FrameAssumption DEF FlagOnlyInVblank
  <2>3. QED
    BY <1>2, <1>3, <1>4, <2>1, <2>2
<1>7. CASE nmi_occured /\ tick # ClearTick
  <2>1. tick' = tick + 1 /\ tick \in (SetTick + 1)..(ClearTick - 1)
    BY <1>1, <1>7, FrameAssumption DEF FlagOnlyInVblank, TypeOK
  <2>2. tick' \in (SetTick + 1)..ClearTick
    BY <2>1, FrameAssumption
  <2>3. FlagOnlyInVblank'
    BY <2>2 DEF FlagOnlyInVblank
  <2>4. QED
    BY <1>2, <1>3, <1>4, <1>7, <2>3
<1>8. CASE ~nmi_occured'
  BY <1>2, <1>3, <1>4, <1>8 DEF FlagOnlyInVblank
<1>9. QED
  BY <1>5, <1>6, <1>7, <1>8

LEMMA SampleNmiType ==
  ASSUME TypeOK, SampleNmi
  PROVE  NMI_n_o' \in BOOLEAN /\ NMIAct' \in BOOLEAN
  BY DEF TypeOK, SampleNmi, NMI_n

-----------------------------------------------------------------------------
LEMMA PpuCycleInv == Inv /\ PpuCycle => Inv'
<1> SUFFICES ASSUME Inv, PpuCycle PROVE Inv'
  OBVIOUS
<1> USE DEF Inv
<1>1. PpuEdge /\ UNCHANGED cpuVars /\ phase < R - 1 /\ phase' = phase + 1
  BY DEF PpuCycle
<1>2. phase' \in 0..(R - 1)
  BY <1>1, ClockAssumption DEF TypeOK
<1>3. TypeOK'
  BY <1>1, <1>2, PpuEdgeFlag DEF TypeOK, cpuVars
<1>4. ~ClearPending'
  BY <1>1, PpuEdgeFlag DEF ClearPending, cpuVars
<1>5. QED
  BY <1>1, <1>3, <1>4, PpuEdgeFlag DEF ClearedAtOnce, ClearWasReported

LEMMA ReadStatusInv == Inv /\ ReadStatus => Inv'
<1> SUFFICES ASSUME Inv, ReadStatus PROVE Inv'
  OBVIOUS
<1> USE DEF Inv
<1>1. PpuEdge /\ SampleNmi /\ bus = "status" /\ phase' = 0 /\ bus' \in BusCycle
  BY DEF ReadStatus, CpuCycle
<1>2. status_read' = nmi_occured /\ nmi_generate' = nmi_generate
  BY DEF ReadStatus
<1>3. cpu_nmi_clear_request' \in BOOLEAN
  BY DEF ReadStatus, TypeOK
<1>4. phase' \in 0..(R - 1)
  BY <1>1, ClockAssumption
<1>5. TypeOK'
  BY <1>1, <1>2, <1>3, <1>4, PpuEdgeFlag, SampleNmiType DEF TypeOK
<1>6. NMI_n_o' = ~(nmi_generate /\ nmi_occured)
  BY <1>1 DEF SampleNmi, NMI_n
<1>7. ClearWasReported'
  BY <1>1, <1>2, <1>6, PpuEdgeFlag DEF ClearWasReported
<1>8. ClearedAtOnce'
  BY <1>1 DEF ClearedAtOnce
<1>9. QED
  BY <1>1, <1>5, <1>7, <1>8, PpuEdgeFlag

LEMMA OtherCycleInv == Inv /\ (WriteControl \/ NoAccess) => Inv'
<1> SUFFICES ASSUME Inv, WriteControl \/ NoAccess PROVE Inv'
  OBVIOUS
<1> USE DEF Inv
<1>1. PpuEdge /\ SampleNmi /\ phase' = 0 /\ bus' \in BusCycle
  BY DEF WriteControl, NoAccess, CpuCycle
<1>2. UNCHANGED <<cpu_nmi_clear_request, status_read>> /\ nmi_generate' \in BOOLEAN
  BY DEF WriteControl, NoAccess, TypeOK
<1>3. phase' \in 0..(R - 1)
  BY <1>1, ClockAssumption
<1>4. TypeOK'
  BY <1>1, <1>2, <1>3, PpuEdgeFlag, SampleNmiType DEF TypeOK
<1>5. ~ClearPending'
  BY <1>1, <1>2, PpuEdgeFlag DEF ClearPending
<1>6. QED
  BY <1>1, <1>4, <1>5, PpuEdgeFlag DEF ClearedAtOnce, ClearWasReported

LEMMA ResetInv == Inv /\ Reset => Inv'
<1> SUFFICES ASSUME Inv, Reset PROVE Inv'
  OBVIOUS
<1> USE DEF Inv
<1>1. TypeOK'
  BY Zeroes DEF Reset, TypeOK, BusCycle
<1>2. ~nmi_occured' /\ tick' = 0
  BY DEF Reset
<1>3. QED
  BY <1>1, <1>2 DEF FlagOnlyInVblank, ClearedAtOnce, ClearWasReported

LEMMA StepInv == Inv /\ [Next]_vars => Inv'
<1>1. ASSUME Inv, UNCHANGED vars PROVE Inv'
  BY <1>1 DEF Inv, TypeOK, FlagOnlyInVblank, ClearedAtOnce, ClearWasReported,
              ClearPending, vars, cpuVars
<1>2. QED
  BY <1>1, PpuCycleInv, ReadStatusInv, OtherCycleInv, ResetInv DEF Next

LEMMA Invariance == Spec => []Inv
  BY InitInv, StepInv, PTL DEF Spec

(* Outside the exceptions, only a clear that a read asked for lowers the flag. *)
LEMMA LoweredByRead ==
  ASSUME Inv, [Next]_vars, nmi_occured, ~nmi_occured', ~Reset,
         tick \notin {ClearTick, SetTick + 1}
  PROVE  status_read /\ (nmi_generate => ~NMI_n_o)
<1>1. UpdateFlag
  BY DEF Next, vars, PpuCycle, ReadStatus, WriteControl, NoAccess, CpuCycle, PpuEdge
<1>2. ClearPending
  BY <1>1 DEF UpdateFlag
<1>3. QED
  BY <1>2 DEF Inv, ClearWasReported

-----------------------------------------------------------------------------
(* Type correctness for every frame geometry. *)
THEOREM TypeCorrect == Spec => []TypeOK
<1>1. Inv => TypeOK
  BY DEF Inv
<1>2. QED
  BY Invariance, <1>1, PTL

(* The blank flag is never up while a frame is drawn, whatever the alignment  *)
(* of the two clocks.                                                          *)
THEOREM FlagStaysInVblank == Spec => []FlagOnlyInVblank
<1>1. Inv => FlagOnlyInVblank
  BY DEF Inv
<1>2. QED
  BY Invariance, <1>1, PTL

(* The clear handshake is over before the next CPU cycle can repeat it. *)
THEOREM ClearSettles == Spec => []ClearedAtOnce
<1>1. Inv => ClearedAtOnce
  BY DEF Inv
<1>2. QED
  BY Invariance, <1>1, PTL

(* Only the end of the blank, RESET, or a read that reported the flag lowers  *)
(* it, but for the one cycle after it rises.                                   *)
THEOREM FlagIsReported == Spec => LoweredOnlyWhenReported
<1>1. Inv /\ [Next]_vars
        => [nmi_occured /\ ~nmi_occured' =>
              tick \in {ClearTick, SetTick + 1} \/ status_read \/ Reset]_vars
  BY LoweredByRead
<1>2. QED
  BY Invariance, <1>1, PTL DEF Spec, LoweredOnlyWhenReported

(* The CPU has seen the NMI line low before a read takes the flag away, with   *)
(* the same exception.                                                          *)
THEOREM NmiIsSeen == Spec => NmiSeenBeforeLowered
<1>1. Inv /\ [Next]_vars
        => [nmi_occured /\ ~nmi_occured' /\ nmi_generate =>
              tick \in {ClearTick, SetTick + 1} \/ ~NMI_n_o \/ Reset]_vars
  BY LoweredByRead
<1>2. QED
  BY Invariance, <1>1, PTL DEF Spec, NmiSeenBeforeLowered
=============================================================================
