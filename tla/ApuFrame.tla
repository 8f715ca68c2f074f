------------------------------- MODULE ApuFrame -------------------------------
(***************************************************************************)
(* The timekeeping of the APU: the frame sequencer, the frame interrupt     *)
(* flag and the length counters, with the $4015, $4017 and pulse registers  *)
(* that drive them.  Everything runs on the CPU clock; units signal each    *)
(* other by flipping a flag (the clock or request) that the receiver        *)
(* compares with a flag of its own (the handle), one clock edge later.      *)
(***************************************************************************)
EXTENDS Naturals

CONSTANTS
  Channel,     (* the pulse channels                                        *)
  Step2,       (* the sequencer step with a half clock, 14913 CPU cycles    *)
  End0, End1,  (* the last step in mode 0 and mode 1: 29839, 37281          *)
  Length       (* the values of lc_lookup_table                             *)

(* Cycles an instruction takes after a write before it can reach a register. *)
AccessGap == 3

ASSUME StepAssumption ==
  /\ {Step2, End0, End1} \subseteq Nat
  /\ Step2 >= AccessGap
  /\ End0 >= Step2 + AccessGap
  /\ End1 > End0
ASSUME LengthAssumption == Length \subseteq Nat \ {0}

(* The CPU's bus cycles, as the APU sees them; again: the first write of a   *)
(* read-modify-write instruction, which writes twice.                         *)
Write ==
  [op : {"frame"}, mode : BOOLEAN, inhibit : BOOLEAN, again : BOOLEAN]
    \cup [op : {"enable"}, on : SUBSET Channel, again : BOOLEAN]
    \cup [op : {"halt"}, ch : Channel, loop : BOOLEAN, again : BOOLEAN]
    \cup [op : {"load"}, ch : Channel, length : Length, again : BOOLEAN]
BusCycle == Write \cup [op : {"status", "other"}]

VARIABLES
  bus,
  quiet,    (* cycles to go until the next instruction can reach a register *)
  (* frame counter registers and sequencer *)
  frame_counter_mode, frame_counter_mode_update, mode_handler, counter,
  half_clock,
  (* frame interrupt *)
  frame_irq_inhibit, frame_interrupt,
  set_request, set_handle, clear_request, clear_handle,
  returned, (* history: what a $4015 read at the last edge returned         *)
  (* length counters *)
  pulse_enable, pulse_loop_flag, length_counter, clk_handle

modeVars == <<frame_counter_mode, frame_counter_mode_update>>
sequencerVars == <<mode_handler, counter, half_clock, set_request>>
irqVars == <<frame_interrupt, set_handle, clear_handle>>
lengthVars == <<length_counter, clk_handle>>
vars == <<bus, quiet, modeVars, sequencerVars, frame_irq_inhibit, irqVars,
          clear_request, returned, pulse_enable, pulse_loop_flag, lengthVars>>

Init ==
  /\ bus = [op |-> "other"]
  /\ quiet = 0
  /\ frame_counter_mode = FALSE
  /\ frame_counter_mode_update = FALSE
  /\ mode_handler = FALSE
  /\ counter = 0
  /\ half_clock = FALSE
  /\ frame_irq_inhibit = FALSE
  /\ frame_interrupt = FALSE
  /\ set_request = FALSE
  /\ set_handle = FALSE
  /\ clear_request = FALSE
  /\ clear_handle = FALSE
  /\ returned = "none"
  /\ pulse_enable = [c \in Channel |-> FALSE]
  /\ pulse_loop_flag = [c \in Channel |-> FALSE]
  /\ length_counter = [c \in Channel |-> 0]
  /\ clk_handle = [c \in Channel |-> FALSE]

-----------------------------------------------------------------------------
(* The frame sequencer. *)

(* A write of $4017 that asks for an immediate clock. *)
ModeUpdate == mode_handler # frame_counter_mode_update /\ frame_counter_mode

(* Sensitivity variant of FrameEnd: the end is compared for equality.        *)
FrameEndExactly == counter = (IF frame_counter_mode THEN End1 ELSE End0)

FrameEnd == counter >= (IF frame_counter_mode THEN End1 ELSE End0)

HalfStep == ModeUpdate \/ counter = Step2 \/ FrameEnd

Sequence ==
  /\ half_clock' = IF HalfStep THEN ~half_clock ELSE half_clock
  /\ IF ModeUpdate
     THEN mode_handler' = ~mode_handler /\ UNCHANGED <<counter, set_request>>
     ELSE /\ counter' = IF FrameEnd THEN 0 ELSE counter + 1
          /\ set_request' =
               IF FrameEnd /\ ~frame_counter_mode THEN ~set_request ELSE set_request
          /\ UNCHANGED mode_handler

(* The frame interrupt flag; a clear goes before a set. *)
ClearPending == clear_request # clear_handle
SetPending == set_request # set_handle

(* Sensitivity variant of Interrupt: a set goes before a clear.              *)
InterruptSetFirst ==
  IF SetPending
  THEN /\ frame_interrupt' = ~frame_irq_inhibit
       /\ set_handle' = set_request
       /\ UNCHANGED clear_handle
  ELSE /\ frame_interrupt' = (frame_interrupt /\ ~ClearPending)
       /\ clear_handle' = clear_request
       /\ UNCHANGED set_handle

Interrupt ==
  IF ClearPending
  THEN frame_interrupt' = FALSE /\ clear_handle' = clear_request /\ UNCHANGED set_handle
  ELSE /\ frame_interrupt' = IF SetPending THEN ~frame_irq_inhibit ELSE frame_interrupt
       /\ set_handle' = set_request
       /\ UNCHANGED clear_handle

(* A length counter: a load goes before a clock; a disabled channel stays at  *)
(* zero and leaves the clocks it is sent unanswered.                          *)
Loaded(c) == bus.op = "load" /\ bus.ch = c

(* Sensitivity variant of Clocked: a silent channel ignores its clock.        *)
ClockedWhileCounting(c) ==
  pulse_enable[c] /\ ~Loaded(c) /\ length_counter[c] # 0 /\ ~pulse_loop_flag[c]

Clocked(c) == pulse_enable[c] /\ ~Loaded(c)

(* Sensitivity variant of CountLengths: the counter stops one short of zero.  *)
CountLengthsToOne ==
  /\ length_counter' = [c \in Channel |->
       IF ~pulse_enable[c] THEN 0
       ELSE IF Loaded(c) THEN bus.length
       ELSE IF clk_handle[c] = half_clock \/ pulse_loop_flag[c] \/ length_counter[c] <= 1
       THEN length_counter[c]
       ELSE length_counter[c] - 1]
  /\ clk_handle' = [c \in Channel |->
       IF Clocked(c) THEN half_clock ELSE clk_handle[c]]

CountLengths ==
  /\ length_counter' = [c \in Channel |->
       IF ~pulse_enable[c] THEN 0
       ELSE IF Loaded(c) THEN bus.length
       ELSE IF clk_handle[c] = half_clock \/ pulse_loop_flag[c] \/ length_counter[c] = 0
       THEN length_counter[c]
       ELSE length_counter[c] - 1]
  /\ clk_handle' = [c \in Channel |->
       IF Clocked(c) THEN half_clock ELSE clk_handle[c]]

-----------------------------------------------------------------------------
(* The CPU.  A read-modify-write instruction writes one register twice in a   *)
(* row; otherwise an instruction that follows a write first fetches three      *)
(* bytes.  Cycles that DMA takes show as other cycles.                         *)
NextBusCycle ==
  /\ \E next \in BusCycle :
       /\ bus.op \in {"status", "other"} /\ quiet > 0 => next.op = "other"
       /\ bus \in Write =>
            IF bus.again
            THEN next.op = bus.op /\ ~next.again /\ (bus.op \in {"halt", "load"} => next.ch = bus.ch)
            ELSE next.op = "other"
       /\ bus' = next
  /\ quiet' = IF bus \in Write THEN AccessGap - 1
              ELSE IF quiet > 0 THEN quiet - 1 ELSE 0

ApuEdge == Sequence /\ Interrupt /\ CountLengths /\ NextBusCycle

(* $4015 write: channel enables. *)
WriteStatus ==
  /\ bus.op = "enable"
  /\ pulse_enable' = [c \in Channel |-> c \in bus.on]
  /\ returned' = "none"
  /\ ApuEdge
  /\ UNCHANGED <<modeVars, frame_irq_inhibit, clear_request, pulse_loop_flag>>

(* $4015 read: returns the frame interrupt flag and asks for its clear.      *)
ReadStatus ==
  /\ bus.op = "status"
  /\ clear_request' = ~clear_request
  /\ ApuEdge
  /\ returned' = IF frame_interrupt THEN "up"
                 ELSE IF frame_interrupt' THEN "rising" ELSE "down"
  /\ UNCHANGED <<modeVars, frame_irq_inhibit, pulse_enable, pulse_loop_flag>>

(* Sensitivity variant of WriteFrameCounter: inhibiting does not clear.      *)
WriteFrameCounterNoClear ==
  /\ bus.op = "frame"
  /\ frame_irq_inhibit' = bus.inhibit
  /\ frame_counter_mode' = bus.mode
  /\ frame_counter_mode_update' = ~frame_counter_mode_update
  /\ returned' = "none"
  /\ ApuEdge
  /\ UNCHANGED <<clear_request, pulse_enable, pulse_loop_flag>>

(* $4017 write: mode and interrupt inhibit. *)
WriteFrameCounter ==
  /\ bus.op = "frame"
  /\ frame_irq_inhibit' = bus.inhibit
  /\ frame_counter_mode' = bus.mode
  /\ frame_counter_mode_update' = ~frame_counter_mode_update
  /\ returned' = "none"
  /\ clear_request' = IF bus.inhibit THEN ~clear_request ELSE clear_request
  /\ ApuEdge
  /\ UNCHANGED <<pulse_enable, pulse_loop_flag>>

(* $4000 / $4004: the length counter halt bit. *)
WriteControl ==
  /\ bus.op = "halt"
  /\ pulse_loop_flag' = [pulse_loop_flag EXCEPT ![bus.ch] = bus.loop]
  /\ returned' = "none"
  /\ ApuEdge
  /\ UNCHANGED <<modeVars, frame_irq_inhibit, clear_request, pulse_enable>>

(* $4003 / $4007 load a length counter (in CountLengths), or no access. *)
NoRegister ==
  /\ bus.op \in {"load", "other"}
  /\ returned' = "none"
  /\ ApuEdge
  /\ UNCHANGED <<modeVars, frame_irq_inhibit, clear_request, pulse_enable, pulse_loop_flag>>

(* RESET takes a started bus cycle away from the CPU at once, between edges. *)
AbortBusCycle ==
  /\ bus.op # "other"
  /\ bus' = [op |-> "other"]
  /\ quiet' = AccessGap
  /\ UNCHANGED <<modeVars, sequencerVars, frame_irq_inhibit, irqVars, clear_request,
                 returned, pulse_enable, pulse_loop_flag, lengthVars>>

(* A clock edge with RESET high: requests are cleared, but no handle is, nor  *)
(* the mode and inhibit bits; the length counters have no reset of their own.  *)
Reset ==
  /\ bus.op = "other"
  /\ quiet' = AccessGap
  /\ counter' = 0
  /\ frame_interrupt' = FALSE
  /\ returned' = "none"
  /\ frame_counter_mode_update' = FALSE
  /\ clear_request' = FALSE
  /\ pulse_enable' = [c \in Channel |-> FALSE]
  /\ pulse_loop_flag' = [c \in Channel |-> FALSE]
  /\ CountLengths
  /\ UNCHANGED <<bus, frame_counter_mode, frame_irq_inhibit, mode_handler, half_clock,
                 set_request, set_handle, clear_handle>>

Next ==
  \/ WriteStatus \/ ReadStatus \/ WriteFrameCounter \/ WriteControl \/ NoRegister
  \/ AbortBusCycle \/ Reset

(* The CPU clock comes from a PLL and runs freely. *)
Spec == Init /\ [][Next]_vars /\ WF_vars(Next)

-----------------------------------------------------------------------------
(* What a length counter may hold: what was loaded, or less.                *)
Counts == {0} \cup UNION {0..n : n \in Length}

(* Type invariant; the sequencer's counter never runs past the longer frame, *)
(* whenever the mode changes.                                                 *)
TypeOK ==
  /\ bus \in BusCycle
  /\ quiet \in 0..AccessGap
  /\ counter \in 0..End1
  /\ frame_counter_mode \in BOOLEAN /\ frame_counter_mode_update \in BOOLEAN
  /\ mode_handler \in BOOLEAN /\ half_clock \in BOOLEAN
  /\ frame_irq_inhibit \in BOOLEAN /\ frame_interrupt \in BOOLEAN
  /\ set_request \in BOOLEAN /\ set_handle \in BOOLEAN
  /\ clear_request \in BOOLEAN /\ clear_handle \in BOOLEAN
  /\ returned \in {"none", "up", "rising", "down"}
  /\ pulse_enable \in [Channel -> BOOLEAN]
  /\ pulse_loop_flag \in [Channel -> BOOLEAN]
  /\ clk_handle \in [Channel -> BOOLEAN]
  /\ length_counter \in [Channel -> Counts]

(* apu_test/readme.txt, 3-irq_flag: "Flag shouldn't be set in $4017 mode $40" *)
(* and "Writing $40 or $C0 to $4017 should clear flag": with the inhibit bit   *)
(* set and the clear it asked for done, the flag is down, also when the end of *)
(* the frame and the write come together.                                       *)
InhibitedFlagIsDown == frame_irq_inhibit /\ ~ClearPending => ~frame_interrupt

(* An interrupt is taken back by nothing but the inhibit bit, RESET, or a read  *)
(* of $4015 that returned it: a read that came too early does not clear a flag  *)
(* that rises after it, although its clear is a cycle late (APU.sv:179).  The    *)
(* one exception is a read in the very cycle in which the flag rises, which      *)
(* returns 0 and clears it.                                                     *)
ClearedWhenReturned ==
  [][frame_interrupt /\ ~frame_interrupt' =>
       frame_irq_inhibit \/ returned \in {"up", "rising"} \/ Reset]_vars

(* A half clock is an edge of a flag, and two unanswered edges would cancel:   *)
(* whenever the sequencer sends one, every enabled channel has answered the    *)
(* last one or does so now.                                                     *)
NoHalfClockLost ==
  [][half_clock' # half_clock =>
       \A c \in Channel :
         pulse_enable[c] => clk_handle[c] = half_clock \/ clk_handle'[c] = half_clock]_vars

(* A channel that is no longer loaded or halted falls silent for good,         *)
(* however often the program changes the frame counter's mode.                  *)
LengthExpires ==
  \A c \in Channel :
    <>[](~pulse_loop_flag[c] /\ ~Loaded(c)) => <>[](length_counter[c] = 0)

(* apu_test/readme.txt, 1-len_ctr: "Writing $80 to $4017 should clock length   *)
(* immediately": after the write the sequencer owes a clock at its next edge.   *)
ModeOneClocksAtOnce ==
  [][bus.op = "frame" /\ WriteFrameCounter /\ bus.mode => ModeUpdate']_vars
=============================================================================
