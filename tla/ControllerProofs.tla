--------------------------- MODULE ControllerProofs ---------------------------
(***************************************************************************)
(* Proofs about Controller for every clock ratio M >= 3 and every register  *)
(* width: the oversampled controller is the atomic one of ControllerPort.   *)
(***************************************************************************)
EXTENDS Controller, TLAPS

(* The first clock of a bus cycle notices a read or stores a strobe, the     *)
(* second one shifts.                                                        *)
Timing ==
  /\ ShiftPending => phase = 1 /\ rden
  /\ phase >= 1 => rden_prev = rden
  /\ phase >= 1 /\ wren => strobe = bus.byte % 2

IInv == TypeOK /\ Timing

LEMMA IInvSettled == IInv => SettledAtCpuEdge
  BY ClockAssumption DEF IInv, TypeOK, Timing, SettledAtCpuEdge

LEMMA ShiftedType == ASSUME TypeOK PROVE Shifted \in Keys
<1>1. ASSUME NEW i \in Bit, i # Width - 1 PROVE i + 1 \in Bit
  BY <1>1, WidthAssumption DEF Bit
<1>2. QED
  BY <1>1 DEF TypeOK, Keys, Shifted

LEMMA ByteBit == ASSUME NEW b \in Byte PROVE b % 2 \in {0, 1}
  BY WidthAssumption

LEMMA BusByte == ASSUME TypeOK, wren PROVE bus.byte \in Byte
  BY DEF TypeOK, BusCycle, wren

(* A sample has every bit from the old or the new buttons.                   *)
LEMMA SampleBits ==
  ASSUME TypeOK, keycodes_in' \in Keys, SampleKeys
  PROVE  /\ keycodes' \in Keys
         /\ \A i \in Bit : keycodes'[i] \in {keycodes_in[i], keycodes_in'[i]}
<1>1. PICK caught \in SUBSET Bit :
        keycodes' = [i \in Bit |-> IF i \in caught THEN keycodes_in'[i] ELSE keycodes_in[i]]
  BY DEF SampleKeys
<1>2. keycodes_in \in Keys
  BY DEF TypeOK
<1>3. \A i \in Bit : keycodes'[i] \in {keycodes_in[i], keycodes_in'[i]}
  BY <1>1
<1>4. \A i \in Bit : keycodes_in[i] \in {0, 1} /\ keycodes_in'[i] \in {0, 1}
  BY <1>2 DEF Keys
<1>5. keycodes' \in [Bit -> {0, 1}]
  BY <1>1, <1>4
<1>6. QED
  BY <1>3, <1>5 DEF Keys

-----------------------------------------------------------------------------
LEMMA InitIInv == Init => IInv
<1> SUFFICES ASSUME Init PROVE IInv
  OBVIOUS
<1>1. phase \in 0..(M - 1) /\ ~(phase >= 1)
  BY ClockAssumption DEF Init
<1>2. bus \in BusCycle
  BY DEF Init, BusCycle
<1>3. keycodes \in Keys
  BY DEF Init, Keys
<1>4. TypeOK
  BY <1>1, <1>2, <1>3 DEF Init, TypeOK
<1>5. QED
  BY <1>1, <1>4 DEF Init, IInv, Timing, ShiftPending

(* What one memory clock edge does to the controller's own registers.        *)
LEMMA EdgeType ==
  ASSUME IInv, MemoryEdge
  PROVE  /\ keycodes_in' \in Keys /\ keycodes' \in Keys
         /\ rden_prev' \in BOOLEAN /\ shift_req' \in {0, 1} /\ shift_handle' \in {0, 1}
         /\ strobe' \in {0, 1} /\ data_out' \in {0, 1}
<1> USE DEF IInv
<1>1. keycodes_in' \in Keys
  BY DEF MemoryEdge
<1>2. keycodes' \in Keys
  BY <1>1, SampleBits, ShiftedType DEF MemoryEdge, UpdateKeys, TypeOK
<1>3. strobe' \in {0, 1}
  BY BusByte, ByteBit DEF MemoryEdge, WriteStrobe, TypeOK
<1>4. keycodes[0] \in {0, 1}
  BY WidthAssumption DEF TypeOK, Keys, Bit
<1>5. shift_req' \in {0, 1} /\ data_out' \in {0, 1}
  BY <1>4 DEF MemoryEdge, NoticeRead, TypeOK
<1>6. rden_prev' \in BOOLEAN /\ shift_handle' \in {0, 1}
  BY DEF MemoryEdge, NoticeRead, HandleShift, TypeOK, rden
<1>7. QED
  BY <1>1, <1>2, <1>3, <1>5, <1>6

(* A read is noticed once, on its first clock; the request lasts one clock.  *)
LEMMA EdgeTiming ==
  ASSUME IInv, MemoryEdge
  PROVE  /\ rden_prev' = rden
         /\ wren => strobe' = bus.byte % 2
         /\ shift_req' # shift_handle' <=> ReadEdge
         /\ ReadEdge => phase = 0
<1> USE DEF IInv
<1>1. rden_prev' = rden /\ (wren => strobe' = bus.byte % 2)
  BY DEF MemoryEdge, NoticeRead, WriteStrobe
<1>2. shift_req' # shift_handle' <=> ReadEdge
  BY DEF MemoryEdge, NoticeRead, HandleShift, TypeOK
<1>3. ReadEdge => phase = 0
  <2>1. phase = 0 \/ phase >= 1
    BY ClockAssumption DEF TypeOK
  <2>2. phase >= 1 => rden_prev = rden
    BY DEF Timing
  <2>3. QED
    BY <2>1, <2>2, Zenon DEF ReadEdge
<1>4. QED
  BY <1>1, <1>2, <1>3

LEMMA StepIInv == IInv /\ [Next]_vars => IInv'
<1> SUFFICES ASSUME IInv, [Next]_vars PROVE IInv'
  OBVIOUS
<1> USE DEF IInv
<1>1. CASE MemoryCycle
  <2>1. phase' \in 0..(M - 1) /\ phase' = phase + 1 /\ bus' = bus /\ MemoryEdge
    BY <1>1, ClockAssumption DEF MemoryCycle, TypeOK
  <2>2. TypeOK'
    BY <2>1, EdgeType DEF TypeOK
  <2>3. rden' = rden /\ wren' = wren
    BY <2>1 DEF rden, wren
  <2>4. ShiftPending' => phase' = 1 /\ rden'
    BY <2>1, <2>3, EdgeTiming DEF ShiftPending, ReadEdge
  <2>5. rden_prev' = rden' /\ (wren' => strobe' = bus'.byte % 2)
    BY <2>1, <2>3, EdgeTiming
  <2>6. QED
    BY <2>2, <2>4, <2>5 DEF Timing
<1>2. CASE CpuCycle
  <2>1. phase' = 0 /\ bus' \in BusCycle /\ MemoryEdge /\ phase # 0
    BY <1>2, ClockAssumption DEF CpuCycle
  <2>2. TypeOK'
    BY <2>1, EdgeType, ClockAssumption DEF TypeOK
  <2>3. ~ShiftPending'
    BY <2>1, EdgeTiming DEF ShiftPending
  <2>4. QED
    BY <2>1, <2>2, <2>3 DEF Timing
<1>3. CASE Reset
  <2>1. phase' \in 0..(M - 1)
    BY <1>3, ClockAssumption DEF Reset, TypeOK
  <2>2. bus' \in BusCycle /\ ~rden' /\ ~wren'
    BY <1>3 DEF Reset, BusCycle, rden, wren
  <2>3. keycodes' \in Keys
    BY <1>3 DEF Reset, Keys
  <2>4. TypeOK'
    BY <1>3, <2>1, <2>2, <2>3 DEF Reset, TypeOK
  <2>5. QED
    BY <1>3, <2>2, <2>4 DEF Reset, Timing, ShiftPending, rden, wren
<1>4. CASE UNCHANGED vars
  BY <1>4 DEF vars, ctrlVars, TypeOK, Timing, ShiftPending, rden, wren
<1>5. QED
  BY <1>1, <1>2, <1>3, <1>4 DEF Next

(* The type invariant of the controller.                                      *)
THEOREM TypeCorrect == Spec => []TypeOK
<1>1. IInv => TypeOK
  BY DEF IInv
<1>2. QED
  BY InitIInv, StepIInv, <1>1, PTL DEF Spec

(* When the CPU takes the byte nothing of its access is left over             *)
(* (CONTROLLER.sv:67-96), however many memory clocks a bus cycle lasts.       *)
THEOREM ControllerSettles == Spec => []SettledAtCpuEdge
  BY InitIInv, StepIInv, IInvSettled, PTL DEF Spec

-----------------------------------------------------------------------------
(* The refinement.                                                            *)
LEMMA FinalKeysSettled == ASSUME ~ShiftPending PROVE FinalKeys = keycodes
  BY DEF FinalKeys

LEMMA FinalKeysSettledNext == ASSUME ~ShiftPending' PROVE FinalKeys' = keycodes'
  BY DEF FinalKeys

(* An edge that notices no read leaves the register as it was, or takes a     *)
(* sample of the buttons in strobe.                                           *)
LEMMA QuietEdge ==
  ASSUME IInv, MemoryEdge, ~ReadEdge
  PROVE  Port!Follow /\ data_out' = data_out
<1> USE DEF IInv
<1>1. FinalKeys' = keycodes'
  BY EdgeTiming, FinalKeysSettledNext DEF ShiftPending
<1>2. CASE strobe = 1
  <2>1. SampleKeys
    BY <1>2 DEF MemoryEdge, UpdateKeys
  <2>2. keycodes' \in Keys
        /\ \A i \in Bit : keycodes'[i] \in {keycodes_in[i], keycodes_in'[i]}
    BY <2>1, SampleBits DEF MemoryEdge
  <2>3. QED
    BY <1>1, <1>2, <2>2 DEF Port!Follow, Port!Keys, Port!Bit, Keys, Bit, MemoryEdge, NoticeRead
<1>3. CASE strobe = 0
  <2>1. keycodes' = FinalKeys
    BY <1>3 DEF MemoryEdge, UpdateKeys, FinalKeys
  <2>2. QED
    BY <1>1, <2>1 DEF Port!Follow, MemoryEdge, NoticeRead
<1>4. QED
  BY <1>2, <1>3 DEF TypeOK

(* The edge that notices a read gives its bit and takes it out.               *)
LEMMA NoticingEdge ==
  ASSUME IInv, MemoryEdge, ReadEdge, bus' = bus
  PROVE  Port!Read
<1> USE DEF IInv
<1>1. rden /\ ~rden_prev /\ rden' /\ rden_prev'
  BY EdgeTiming DEF ReadEdge, rden
<1>2. ~ShiftPending
  BY EdgeTiming, ClockAssumption DEF Timing
<1>3. FinalKeys = keycodes
  BY <1>2, FinalKeysSettled
<1>4. strobe' = strobe /\ data_out' = keycodes[0]
  BY <1>1 DEF MemoryEdge, NoticeRead, WriteStrobe, rden, wren
<1>5. CASE strobe = 1
  <2>1. SampleKeys
    BY <1>5 DEF MemoryEdge, UpdateKeys
  <2>2. keycodes' \in Keys
        /\ \A i \in Bit : keycodes'[i] \in {keycodes_in[i], keycodes_in'[i]}
    BY <2>1, SampleBits DEF MemoryEdge
  <2>3. FinalKeys' = keycodes'
    BY <1>4, <1>5 DEF FinalKeys
  <2>4. Port!Follow
    BY <1>5, <2>2, <2>3 DEF Port!Follow, Port!Keys, Port!Bit, Keys, Bit
  <2>5. QED
    BY <1>1, <1>3, <1>4, <1>5, <2>4 DEF Port!Read, rden
<1>6. CASE strobe = 0
  <2>1. keycodes' = keycodes
    BY <1>2, <1>6 DEF MemoryEdge, UpdateKeys
  <2>2. FinalKeys' = Shifted
    BY <1>4, <1>6, <2>1, EdgeTiming DEF FinalKeys, ShiftPending, Shifted
  <2>3. Port!Shifted(FinalKeys) = Shifted
    BY <1>3 DEF Port!Shifted, Port!Bit, Shifted, Bit
  <2>4. QED
    BY <1>1, <1>3, <1>4, <1>6, <2>2, <2>3 DEF Port!Read, rden
<1>7. QED
  BY <1>5, <1>6 DEF TypeOK

LEMMA MemoryCycleImplements == IInv /\ MemoryCycle => Port!Next
<1> SUFFICES ASSUME IInv, MemoryCycle PROVE Port!Next
  OBVIOUS
<1> USE DEF IInv
<1>1. MemoryEdge /\ bus' = bus /\ keycodes_in' \in Port!Keys
  BY DEF MemoryCycle, MemoryEdge, Port!Keys, Port!Bit, Keys, Bit
<1>2. CASE ReadEdge
  BY <1>1, <1>2, NoticingEdge DEF Port!Next
<1>3. CASE ~ReadEdge
  <2>1. Port!Follow /\ data_out' = data_out
    BY <1>1, <1>3, QuietEdge
  <2>2. (rden /\ rden_prev)' = (rden /\ rden_prev)
    BY <1>1, <1>3, EdgeTiming DEF ReadEdge, rden, TypeOK
  <2>3. CASE wren
    BY <1>1, <2>1, <2>2, <2>3, EdgeTiming DEF Port!WriteStrobe, Port!Next, wren
  <2>4. CASE ~wren
    BY <1>1, <2>1, <2>2, <2>4 DEF Port!Wait, Port!Next, MemoryEdge, WriteStrobe
  <2>5. QED
    BY <2>3, <2>4
<1>4. QED
  BY <1>2, <1>3

LEMMA CpuCycleImplements == IInv /\ CpuCycle => Port!Next
<1> SUFFICES ASSUME IInv, CpuCycle PROVE Port!Next
  OBVIOUS
<1> USE DEF IInv
<1>1. MemoryEdge /\ bus' \in BusCycle /\ keycodes_in' \in Port!Keys
  BY DEF CpuCycle, MemoryEdge, Port!Keys, Port!Bit, Keys, Bit
<1>2. rden_prev = rden /\ (wren => strobe = bus.byte % 2)
  BY IInvSettled DEF SettledAtCpuEdge, CpuCycle
<1>3. Port!Follow /\ data_out' = data_out
  BY <1>1, <1>2, QuietEdge DEF ReadEdge
<1>4. strobe' = strobe
  BY <1>1, <1>2 DEF MemoryEdge, WriteStrobe
<1>5. rden_prev' = rden
  BY <1>1, EdgeTiming
<1>6. Port!NextBusCycle
  BY <1>1, <1>2, <1>3, <1>4, <1>5 DEF Port!NextBusCycle, Port!BusCycle, BusCycle, rden, wren
<1>7. QED
  BY <1>1, <1>6 DEF Port!Next

LEMMA ResetImplements == IInv /\ Reset => Port!Next
<1> SUFFICES ASSUME IInv, Reset PROVE Port!Next
  OBVIOUS
<1>1. ~rden' /\ FinalKeys' = [i \in Bit |-> 0]
  BY DEF Reset, rden, FinalKeys, ShiftPending
<1>2. Port!Reset
  BY <1>1 DEF Reset, Port!Reset, Port!Bit, Bit
<1>3. QED
  BY <1>2 DEF Port!Next, Port!Keys, Port!Bit, Reset, Keys, Bit

LEMMA StepImplements == IInv /\ [Next]_vars => [Port!Next]_(Port!vars)
<1>1. UNCHANGED vars => UNCHANGED Port!vars
  BY DEF vars, ctrlVars, Port!vars, FinalKeys, ShiftPending, Shifted, rden
<1>2. QED
  BY <1>1, MemoryCycleImplements, CpuCycleImplements, ResetImplements DEF Next

LEMMA InitImplements == Init => Port!Init
<1> SUFFICES ASSUME Init PROVE Port!Init
  OBVIOUS
<1>1. ~rden /\ FinalKeys = keycodes
  BY DEF Init, rden, FinalKeys, ShiftPending
<1>2. QED
  BY <1>1 DEF Init, Port!Init, Port!Keys, Port!Bit, Keys, Bit

(* Every read of $4016 / $4017 takes exactly one bit, whatever the clock      *)
(* ratio, the buttons and the bus traffic: CONTROLLER.sv implements           *)
(* ControllerPort.                                                            *)
THEOREM ControllerImplementsPort == Spec => ImplementsPort
  BY InitIInv, StepIInv, InitImplements, StepImplements, PTL
  DEF Spec, ImplementsPort, Port!Spec
=============================================================================
