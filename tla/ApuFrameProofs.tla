---------------------------- MODULE ApuFrameProofs ----------------------------
(***************************************************************************)
(* Proofs about ApuFrame for every frame length, every set of channels and  *)
(* every length table.                                                      *)
(***************************************************************************)
EXTENDS ApuFrame, TLAPS

LEMMA CountDown ==
  /\ 0 \in Counts
  /\ \A n \in Length : n \in Counts
  /\ \A n \in Counts : n # 0 => n - 1 \in Counts
<1>1. 0 \in Counts
  BY DEF Counts
<1>2. ASSUME NEW n \in Length PROVE n \in Counts
  <2>1. n \in 0..n
    BY LengthAssumption
  <2>2. QED
    BY <2>1 DEF Counts
<1>3. ASSUME NEW n \in Counts, n # 0 PROVE n - 1 \in Counts
  <2>1. PICK m \in Length : n \in 0..m
    BY <1>3 DEF Counts
  <2>2. n - 1 \in 0..m
    BY <1>3, <2>1, LengthAssumption
  <2>3. QED
    BY <2>2 DEF Counts
<1>4. QED
  BY <1>1, <1>2, <1>3

LEMMA BusFields ==
  ASSUME NEW b \in BusCycle
  PROVE  /\ b.op = "frame" => b.mode \in BOOLEAN /\ b.inhibit \in BOOLEAN
         /\ b.op = "halt" => b.ch \in Channel /\ b.loop \in BOOLEAN
         /\ b.op = "load" => b.ch \in Channel /\ b.length \in Length
  BY DEF BusCycle, Write

-----------------------------------------------------------------------------
LEMMA InitType == Init => TypeOK
<1> SUFFICES ASSUME Init PROVE TypeOK
  OBVIOUS
<1>1. bus \in BusCycle
  BY DEF Init, BusCycle
<1>2. counter \in 0..End1 /\ quiet \in 0..AccessGap
  BY StepAssumption DEF Init, AccessGap
<1>3. length_counter \in [Channel -> Counts]
  BY CountDown DEF Init
<1>4. QED
  BY <1>1, <1>2, <1>3 DEF Init, TypeOK

LEMMA SequenceType ==
  ASSUME TypeOK, Sequence
  PROVE  /\ half_clock' \in BOOLEAN /\ mode_handler' \in BOOLEAN
         /\ set_request' \in BOOLEAN /\ counter' \in 0..End1
<1>1. half_clock' \in BOOLEAN /\ mode_handler' \in BOOLEAN /\ set_request' \in BOOLEAN
  BY DEF Sequence, TypeOK
<1>2. CASE ModeUpdate
  BY <1>1, <1>2 DEF Sequence, TypeOK
<1>3. CASE ~ModeUpdate /\ FrameEnd
  BY <1>1, <1>3, StepAssumption DEF Sequence
<1>4. CASE ~ModeUpdate /\ ~FrameEnd
  <2>1. counter \in 0..End1 /\ counter < End1
    BY <1>4, StepAssumption DEF FrameEnd, TypeOK
  <2>2. counter' = counter + 1
    BY <1>4 DEF Sequence
  <2>3. QED
    BY <1>1, <2>1, <2>2, StepAssumption
<1>5. QED
  BY <1>2, <1>3, <1>4

LEMMA InterruptType ==
  ASSUME TypeOK, Interrupt
  PROVE  frame_interrupt' \in BOOLEAN /\ set_handle' \in BOOLEAN /\ clear_handle' \in BOOLEAN
  BY DEF Interrupt, TypeOK

LEMMA CountLengthsType ==
  ASSUME TypeOK, CountLengths
  PROVE  length_counter' \in [Channel -> Counts] /\ clk_handle' \in [Channel -> BOOLEAN]
<1> USE DEF TypeOK
<1>1. clk_handle' \in [Channel -> BOOLEAN]
  BY DEF CountLengths
<1>2. ASSUME NEW c \in Channel, Loaded(c) PROVE bus.length \in Counts
  BY <1>2, BusFields, CountDown DEF Loaded
<1>3. ASSUME NEW c \in Channel, length_counter[c] # 0
      PROVE  length_counter[c] - 1 \in Counts
  BY <1>3, CountDown
<1>4. QED
  BY <1>1, <1>2, <1>3, CountDown DEF CountLengths

LEMMA NextBusCycleType ==
  ASSUME TypeOK, NextBusCycle
  PROVE  bus' \in BusCycle /\ quiet' \in 0..AccessGap
<1>1. bus' \in BusCycle
  BY DEF NextBusCycle
<1>2. quiet' \in 0..AccessGap
  BY DEF NextBusCycle, AccessGap, TypeOK
<1>3. QED
  BY <1>1, <1>2

(* The edges of a running APU: all but the CPU's own registers.              *)
LEMMA ApuEdgeType ==
  ASSUME TypeOK, ApuEdge
  PROVE  /\ bus' \in BusCycle /\ quiet' \in 0..AccessGap /\ counter' \in 0..End1
         /\ half_clock' \in BOOLEAN /\ mode_handler' \in BOOLEAN /\ set_request' \in BOOLEAN
         /\ frame_interrupt' \in BOOLEAN /\ set_handle' \in BOOLEAN
         /\ clear_handle' \in BOOLEAN
         /\ length_counter' \in [Channel -> Counts] /\ clk_handle' \in [Channel -> BOOLEAN]
  BY SequenceType, InterruptType, CountLengthsType, NextBusCycleType DEF ApuEdge

LEMMA StepType == TypeOK /\ [Next]_vars => TypeOK'
<1> SUFFICES ASSUME TypeOK, [Next]_vars PROVE TypeOK'
  OBVIOUS
<1> USE DEF TypeOK
<1>1. CASE WriteStatus
  <2>1. pulse_enable' \in [Channel -> BOOLEAN]
    BY <1>1 DEF WriteStatus
  <2>2. QED
    BY <1>1, <2>1, ApuEdgeType DEF WriteStatus, modeVars
<1>2. CASE ReadStatus
  BY <1>2, ApuEdgeType DEF ReadStatus, modeVars
<1>3. CASE WriteFrameCounter
  <2>1. bus.mode \in BOOLEAN /\ bus.inhibit \in BOOLEAN
    BY <1>3, BusFields DEF WriteFrameCounter
  <2>2. QED
    BY <1>3, <2>1, ApuEdgeType DEF WriteFrameCounter
<1>4. CASE WriteControl
  <2>1. bus.ch \in Channel /\ bus.loop \in BOOLEAN
    BY <1>4, BusFields DEF WriteControl
  <2>2. pulse_loop_flag' \in [Channel -> BOOLEAN]
    BY <1>4, <2>1 DEF WriteControl
  <2>3. QED
    BY <1>4, <2>2, ApuEdgeType DEF WriteControl, modeVars
<1>5. CASE NoRegister
  BY <1>5, ApuEdgeType DEF NoRegister, modeVars
<1>6. CASE AbortBusCycle
  <2>1. bus' \in BusCycle /\ quiet' \in 0..AccessGap
    BY <1>6 DEF AbortBusCycle, BusCycle, AccessGap
  <2>2. QED
    BY <1>6, <2>1 DEF AbortBusCycle, modeVars, sequencerVars, irqVars, lengthVars
<1>7. CASE Reset
  <2>1. quiet' \in 0..AccessGap /\ counter' \in 0..End1
    BY <1>7, StepAssumption DEF Reset, AccessGap
  <2>2. pulse_enable' \in [Channel -> BOOLEAN] /\ pulse_loop_flag' \in [Channel -> BOOLEAN]
    BY <1>7 DEF Reset
  <2>3. length_counter' \in [Channel -> Counts] /\ clk_handle' \in [Channel -> BOOLEAN]
    BY <1>7, CountLengthsType DEF Reset
  <2>4. QED
    BY <1>7, <2>1, <2>2, <2>3 DEF Reset
<1>8. CASE UNCHANGED vars
  BY <1>8 DEF vars, modeVars, sequencerVars, irqVars, lengthVars
<1>9. QED
  BY <1>1, <1>2, <1>3, <1>4, <1>5, <1>6, <1>7, <1>8 DEF Next

(* The type invariant: the sequencer's counter stays within a frame whatever  *)
(* modes the program writes, and a length counter never underflows.            *)
THEOREM TypeCorrect == Spec => []TypeOK
  BY InitType, StepType, PTL DEF Spec

-----------------------------------------------------------------------------
(* An edge of the interrupt handler leaves the flag down under the inhibit    *)
(* bit, or is followed by the clear that the write of that bit asked for.      *)
LEMMA InterruptKeepsDown ==
  ASSUME TypeOK, InhibitedFlagIsDown, Interrupt,
         \/ UNCHANGED frame_irq_inhibit
         \/ frame_irq_inhibit' => clear_request' = ~clear_request,
         clear_request' \in BOOLEAN
  PROVE  InhibitedFlagIsDown'
<1>1. CASE ClearPending
  BY <1>1 DEF Interrupt, InhibitedFlagIsDown
<1>2. CASE ~ClearPending
  <2>1. clear_handle' = clear_handle /\ clear_request = clear_handle
    BY <1>2 DEF Interrupt, ClearPending
  <2>2. frame_interrupt' = IF SetPending THEN ~frame_irq_inhibit ELSE frame_interrupt
    BY <1>2 DEF Interrupt
  <2>3. CASE UNCHANGED frame_irq_inhibit
    <3>1. frame_irq_inhibit => ~frame_interrupt
      BY <1>2 DEF InhibitedFlagIsDown
    <3>2. QED
      BY <2>2, <2>3, <3>1 DEF InhibitedFlagIsDown, TypeOK
  <2>4. CASE frame_irq_inhibit' => clear_request' = ~clear_request
    BY <2>1, <2>4 DEF InhibitedFlagIsDown, ClearPending, TypeOK
  <2>5. QED
    BY <2>3, <2>4
<1>3. QED
  BY <1>1, <1>2

LEMMA StepKeepsDown == TypeOK /\ InhibitedFlagIsDown /\ [Next]_vars => InhibitedFlagIsDown'
<1> SUFFICES ASSUME TypeOK, InhibitedFlagIsDown, [Next]_vars PROVE InhibitedFlagIsDown'
  OBVIOUS
<1>0. clear_request' \in BOOLEAN
  BY StepType DEF TypeOK
<1>1. CASE WriteStatus \/ ReadStatus \/ WriteControl \/ NoRegister
  <2>1. Interrupt /\ UNCHANGED frame_irq_inhibit
    BY <1>1 DEF WriteStatus, ReadStatus, WriteControl, NoRegister, ApuEdge
  <2>2. QED
    BY <1>0, <2>1, InterruptKeepsDown
<1>2. CASE WriteFrameCounter
  <2>1. Interrupt /\ (frame_irq_inhibit' => clear_request' = ~clear_request)
    BY <1>2 DEF WriteFrameCounter, ApuEdge
  <2>2. QED
    BY <1>0, <2>1, InterruptKeepsDown
<1>3. CASE AbortBusCycle
  BY <1>3 DEF AbortBusCycle, irqVars, InhibitedFlagIsDown, ClearPending
<1>4. CASE Reset
  BY <1>4 DEF Reset, InhibitedFlagIsDown
<1>5. CASE UNCHANGED vars
  BY <1>5 DEF vars, irqVars, InhibitedFlagIsDown, ClearPending
<1>6. QED
  BY <1>1, <1>2, <1>3, <1>4, <1>5 DEF Next

(* The frame interrupt flag is down whenever it is inhibited and the clear    *)
(* that came with the inhibit bit is done: however the write of $4017, the     *)
(* reads of $4015 and the end of the frame fall together (APU.sv:174-193).     *)
THEOREM InhibitHolds == Spec => []InhibitedFlagIsDown
<1>1. Init => InhibitedFlagIsDown
  BY DEF Init, InhibitedFlagIsDown
<1>2. QED
  BY <1>1, InitType, StepType, StepKeepsDown, PTL DEF Spec
-----------------------------------------------------------------------------
(* A clear that waits under a raised flag was asked for with the inhibit bit   *)
(* or by a read at whose edge the flag was up or rose.                         *)
ClearWasReported ==
  ClearPending /\ frame_interrupt => frame_irq_inhibit \/ returned \in {"up", "rising"}

RInv == TypeOK /\ InhibitedFlagIsDown /\ ClearWasReported

(* An edge without a request of its own serves the one that waits.            *)
LEMMA ServedAtOnce ==
  ASSUME TypeOK, Interrupt, UNCHANGED clear_request
  PROVE  ClearWasReported'
<1>1. ~ClearPending'
  BY DEF Interrupt, ClearPending, TypeOK
<1>2. QED
  BY <1>1 DEF ClearWasReported

LEMMA ReportedStep == RInv /\ [Next]_vars => ClearWasReported'
<1> SUFFICES ASSUME RInv, [Next]_vars PROVE ClearWasReported'
  OBVIOUS
<1> USE DEF RInv
<1>1. CASE WriteStatus \/ WriteControl \/ NoRegister
  <2>1. Interrupt /\ UNCHANGED clear_request
    BY <1>1 DEF WriteStatus, WriteControl, NoRegister, ApuEdge
  <2>2. QED
    BY <2>1, ServedAtOnce
<1>2. CASE ReadStatus
  <2>1. frame_interrupt' => returned' \in {"up", "rising"}
    BY <1>2 DEF ReadStatus
  <2>2. QED
    BY <2>1 DEF ClearWasReported
<1>3. CASE WriteFrameCounter
  <2>1. Interrupt
    BY <1>3 DEF WriteFrameCounter, ApuEdge
  <2>2. CASE bus.inhibit
    BY <1>3, <2>2 DEF WriteFrameCounter, ClearWasReported
  <2>3. CASE ~bus.inhibit
    BY <1>3, <2>1, <2>3, ServedAtOnce DEF WriteFrameCounter
  <2>4. QED
    BY <2>2, <2>3
<1>4. CASE AbortBusCycle
  BY <1>4 DEF AbortBusCycle, irqVars, ClearWasReported, ClearPending
<1>5. CASE Reset
  BY <1>5 DEF Reset, ClearWasReported
<1>6. CASE UNCHANGED vars
  BY <1>6 DEF vars, irqVars, ClearWasReported, ClearPending
<1>7. QED
  BY <1>1, <1>2, <1>3, <1>4, <1>5, <1>6 DEF Next

(* The flag goes down only at an edge of the interrupt handler or in RESET.    *)
LEMMA LoweredBy ==
  ASSUME RInv, [Next]_vars, frame_interrupt, ~frame_interrupt'
  PROVE  frame_irq_inhibit \/ returned \in {"up", "rising"} \/ Reset
<1>1. CASE Interrupt
  <2>1. CASE ClearPending
    BY <2>1 DEF RInv, ClearWasReported
  <2>2. CASE ~ClearPending
    BY <1>1, <2>2 DEF Interrupt, RInv, TypeOK
  <2>3. QED
    BY <2>1, <2>2
<1>2. CASE ~Interrupt
  BY <1>2 DEF Next, WriteStatus, ReadStatus, WriteFrameCounter, WriteControl, NoRegister,
              ApuEdge, AbortBusCycle, vars, irqVars
<1>3. QED
  BY <1>1, <1>2

(* No interrupt is taken back unseen: a read of $4015 clears the flag it        *)
(* returned, not one that rises after it (APU.sv:97-100, 174-193), for every     *)
(* length of the frame and every schedule of reads, writes and RESET.           *)
THEOREM InterruptReported == Spec => ClearedWhenReturned
<1>1. Init => RInv
  BY InitType DEF Init, RInv, InhibitedFlagIsDown, ClearWasReported
<1>2. RInv /\ [Next]_vars => RInv'
  BY StepType, StepKeepsDown, ReportedStep DEF RInv
<1>3. RInv /\ [Next]_vars =>
        [frame_interrupt /\ ~frame_interrupt' =>
           frame_irq_inhibit \/ returned \in {"up", "rising"} \/ Reset]_vars
  BY LoweredBy
<1>4. QED
  BY <1>1, <1>2, <1>3, PTL DEF Spec, ClearedWhenReturned

-----------------------------------------------------------------------------
(* The sequencer owes an immediate clock only just after a write of $4017 or    *)
(* in RESET: far from the next instruction that reaches a register.            *)
UpdateTimed == ModeUpdate => quiet >= AccessGap - 1 /\ bus.op \in {"frame", "other"}

(* A load finds the channel's last clock unanswered only while the next one is   *)
(* further away than the load, with its repetition, lasts.                     *)
LoadTimed ==
  bus.op = "load" /\ pulse_enable[bus.ch] /\ clk_handle[bus.ch] # half_clock =>
    counter \in IF bus.again THEN {0, Step2 + 1} ELSE {0, 1, Step2 + 1, Step2 + 2}

CInv == TypeOK /\ UpdateTimed /\ LoadTimed

(* A clock edge with the CPU running, whatever it does to a register.          *)
LEMMA EdgeOrReset ==
  ASSUME [Next]_vars
  PROVE  \/ ApuEdge /\ (bus.op # "frame" => UNCHANGED modeVars)
                    /\ (bus.op # "enable" => UNCHANGED pulse_enable)
         \/ AbortBusCycle
         \/ Reset
         \/ UNCHANGED vars
BY DEF Next, WriteStatus, ReadStatus, WriteFrameCounter, WriteControl, NoRegister

(* The immediate clock is served at the first edge that sees it.               *)
LEMMA UpdateServed ==
  ASSUME TypeOK, Sequence, UNCHANGED modeVars
  PROVE  ~ModeUpdate'
<1>1. frame_counter_mode' = frame_counter_mode
      /\ frame_counter_mode_update' = frame_counter_mode_update
  BY DEF modeVars
<1>2. CASE ModeUpdate
  <2>1. mode_handler' = ~mode_handler
    BY <1>2 DEF Sequence
  <2> QED BY <1>1, <1>2, <2>1 DEF ModeUpdate, TypeOK
<1>3. CASE ~ModeUpdate
  <2>1. mode_handler' = mode_handler
    BY <1>3 DEF Sequence
  <2> QED BY <1>1, <1>3, <2>1 DEF ModeUpdate
<1> QED BY <1>2, <1>3

LEMMA UpdateTimedStep == CInv /\ [Next]_vars => UpdateTimed'
<1> SUFFICES ASSUME CInv, [Next]_vars, ModeUpdate'
             PROVE  quiet' >= AccessGap - 1 /\ bus'.op \in {"frame", "other"}
  BY DEF UpdateTimed
<1>1. TypeOK /\ UpdateTimed
  BY DEF CInv
<1>2. CASE ApuEdge /\ bus.op = "frame"
  <2>1. bus \in Write
    BY <1>1, <1>2 DEF TypeOK, BusCycle
  <2> QED BY <1>2, <2>1 DEF ApuEdge, NextBusCycle, AccessGap
<1>3. CASE ApuEdge /\ UNCHANGED modeVars
  BY <1>1, <1>3, UpdateServed DEF ApuEdge
<1>4. CASE AbortBusCycle
  BY <1>4 DEF AbortBusCycle, AccessGap
<1>5. CASE Reset
  BY <1>5 DEF Reset, AccessGap
<1>6. CASE UNCHANGED vars
  BY <1>1, <1>6 DEF vars, modeVars, sequencerVars, UpdateTimed, ModeUpdate
<1> QED BY <1>2, <1>3, <1>4, <1>5, <1>6, EdgeOrReset

(* With no update pending a clock leaves the counter far from the next one.     *)
LEMMA AfterClock ==
  ASSUME TypeOK, Sequence, ~ModeUpdate
  PROVE  /\ half_clock' # half_clock => counter' \in {0, Step2 + 1}
         /\ counter \in {0, Step2 + 1} => counter' \in {1, Step2 + 2}
         /\ counter \in {0, 1, Step2 + 1, Step2 + 2} => half_clock' = half_clock
<1>1. /\ counter \in Nat /\ Step2 \in Nat /\ End0 \in Nat /\ End1 \in Nat
      /\ Step2 >= 3 /\ End0 >= Step2 + 3 /\ End1 > End0
  BY StepAssumption DEF TypeOK, AccessGap
<1>2. /\ half_clock' = IF counter = Step2 \/ FrameEnd THEN ~half_clock ELSE half_clock
      /\ counter' = IF FrameEnd THEN 0 ELSE counter + 1
  BY DEF Sequence, HalfStep
<1>3. FrameEnd => counter >= Step2 + 3
  BY <1>1 DEF FrameEnd
<1> QED BY <1>1, <1>2, <1>3

LEMMA LoadTimedStep == CInv /\ [Next]_vars => LoadTimed'
<1> SUFFICES ASSUME CInv, [Next]_vars, bus'.op = "load",
                    pulse_enable'[bus'.ch], clk_handle'[bus'.ch] # half_clock'
             PROVE  counter' \in IF bus'.again THEN {0, Step2 + 1}
                                 ELSE {0, 1, Step2 + 1, Step2 + 2}
  BY DEF LoadTimed
<1>1. TypeOK /\ UpdateTimed /\ LoadTimed
  BY DEF CInv
<1>2. CASE ApuEdge
  <2>1. /\ Sequence /\ CountLengths /\ NextBusCycle
        /\ bus \in BusCycle /\ bus' \in BusCycle
    BY <1>1, <1>2, StepType DEF ApuEdge, TypeOK
  <2>2. bus'.ch \in Channel
    BY <2>1, BusFields
  <2>3. CASE bus.op \in {"status", "other"}
    <3>1. quiet = 0
      BY <1>1, <2>1, <2>3 DEF NextBusCycle, TypeOK
    <3>2. ~ModeUpdate
      BY <1>1, <3>1 DEF UpdateTimed, AccessGap
    <3>3. pulse_enable' = pulse_enable
      BY <1>2, <2>3, EdgeOrReset DEF AbortBusCycle, Reset, vars, Next, WriteStatus,
         ReadStatus, WriteFrameCounter, WriteControl, NoRegister
    <3>4. clk_handle'[bus'.ch] = half_clock
      BY <2>1, <2>2, <2>3, <3>3 DEF CountLengths, Clocked, Loaded
    <3> QED BY <1>1, <2>1, <3>2, <3>4, AfterClock
  <2>4. CASE bus.op \notin {"status", "other"}
    <3>1. bus \in Write
      BY <2>1, <2>4 DEF BusCycle
    <3>2. bus.again /\ bus.op = "load" /\ ~bus'.again /\ bus'.ch = bus.ch
      BY <2>1, <3>1 DEF NextBusCycle
    <3>3. ~ModeUpdate
      BY <1>1, <3>2 DEF UpdateTimed
    <3>4. pulse_enable' = pulse_enable
      BY <1>2, <3>2, EdgeOrReset DEF AbortBusCycle, Reset, vars, Next, WriteStatus,
         ReadStatus, WriteFrameCounter, WriteControl, NoRegister
    <3>5. clk_handle'[bus.ch] = clk_handle[bus.ch]
      BY <2>1, <2>2, <3>2 DEF CountLengths, Clocked, Loaded
    <3>6. CASE half_clock' # half_clock
      BY <1>1, <2>1, <3>2, <3>3, <3>6, AfterClock
    <3>7. CASE half_clock' = half_clock
      <4>1. counter \in {0, Step2 + 1}
        BY <1>1, <3>2, <3>4, <3>5, <3>7 DEF LoadTimed
      <4> QED BY <1>1, <2>1, <3>2, <3>3, <4>1, AfterClock
    <3> QED BY <3>6, <3>7
  <2> QED BY <2>3, <2>4
<1>3. CASE AbortBusCycle
  BY <1>3 DEF AbortBusCycle
<1>4. CASE Reset
  BY <1>4 DEF Reset
<1>5. CASE UNCHANGED vars
  BY <1>1, <1>5 DEF vars, sequencerVars, lengthVars, LoadTimed
<1> QED BY <1>2, <1>3, <1>4, <1>5, EdgeOrReset

(* No clock is lost: a channel that is loaded at the very edge of a clock has    *)
(* answered the one before.                                                    *)
LEMMA ClockAnswered ==
  ASSUME CInv, [Next]_vars, half_clock' # half_clock, NEW c \in Channel, pulse_enable[c]
  PROVE  clk_handle[c] = half_clock \/ clk_handle'[c] = half_clock
<1>1. TypeOK /\ UpdateTimed /\ LoadTimed
  BY DEF CInv
<1>2. ApuEdge
  BY EdgeOrReset DEF AbortBusCycle, Reset, vars, sequencerVars
<1>3. Sequence /\ CountLengths
  BY <1>2 DEF ApuEdge
<1>4. CASE ~Loaded(c)
  BY <1>3, <1>4 DEF CountLengths, Clocked
<1>5. CASE Loaded(c) /\ clk_handle[c] # half_clock
  <2>1. ~ModeUpdate
    BY <1>1, <1>5 DEF UpdateTimed, Loaded
  <2>2. counter \in {0, 1, Step2 + 1, Step2 + 2}
    BY <1>1, <1>5 DEF LoadTimed, Loaded
  <2> QED BY <1>1, <1>3, <2>1, <2>2, AfterClock
<1> QED BY <1>4, <1>5

(* No half clock is lost: two edges of the flag without an answer between them    *)
(* would cancel, and the only edge a running channel does not answer is the one   *)
(* at which it is loaded (APU_LENGTH_COUNTER.sv).  Holds for every frame whose    *)
(* half clocks are further apart than an instruction's accesses.                *)
THEOREM ClocksAnswered == Spec => NoHalfClockLost
<1>1. Init => CInv
  <2>1. Init => ~ModeUpdate
    BY DEF Init, ModeUpdate
  <2> QED BY <2>1, InitType DEF Init, CInv, UpdateTimed, LoadTimed
<1>2. CInv /\ [Next]_vars => CInv'
  BY StepType, UpdateTimedStep, LoadTimedStep DEF CInv
<1>3. CInv /\ [Next]_vars =>
        [half_clock' # half_clock =>
           \A c \in Channel :
             pulse_enable[c] => clk_handle[c] = half_clock \/ clk_handle'[c] = half_clock]_vars
  BY ClockAnswered
<1> QED BY <1>1, <1>2, <1>3, PTL DEF Spec, NoHalfClockLost
=============================================================================
