------------------------------ MODULE Controller ------------------------------
(***************************************************************************)
(* CONTROLLER.sv and its place on the CPU bus (NES_ARCHITECTURE.sv).  The   *)
(* controller runs on the memory clock, M edges for every CPU cycle, so one *)
(* read on the bus is seen M times; an edge detector and a toggle handshake *)
(* turn it into one shift.  phase is the number of memory clock edges since *)
(* the last CPU edge; at a common edge both read the values before it.      *)
(***************************************************************************)
EXTENDS Naturals

CONSTANTS
  M,       (* memory clock edges per CPU cycle; 12 in nes_clkgen.v          *)
  Width,   (* bits of the shift register; 8 in the code                     *)
  Byte     (* what the CPU writes                                           *)

ASSUME ClockAssumption == M \in Nat /\ M >= 3
ASSUME WidthAssumption == Width \in Nat /\ Width >= 2 /\ Byte \subseteq Nat

Bit == 0..(Width - 1)
Keys == [Bit -> {0, 1}]

(* What the CPU may have on the bus: a read of this controller's address, a  *)
(* write of $4016, anything else.                                             *)
BusCycle == [op : {"read", "other"}] \cup [op : {"write"}, byte : Byte]

VARIABLES
  phase, bus,
  keycodes_in,       (* from the firmware's output port, another clock       *)
  rden_prev, shift_req, shift_handle, strobe, keycodes, data_out

ctrlVars == <<rden_prev, shift_req, shift_handle, strobe, keycodes, data_out>>
vars == <<phase, bus, keycodes_in, ctrlVars>>

Init ==
  /\ phase = 0
  /\ bus = [op |-> "other"]
  /\ keycodes_in \in Keys
  /\ rden_prev = FALSE
  /\ shift_req = 0
  /\ shift_handle = 0
  /\ strobe = 0
  /\ keycodes = [i \in Bit |-> 0]
  /\ data_out = 0

-----------------------------------------------------------------------------
(* CPU_BUS_SELECTION. *)
rden == bus.op = "read"
wren == bus.op = "write"

ShiftPending == shift_req # shift_handle

Shifted == [i \in Bit |-> IF i = Width - 1 THEN 1 ELSE keycodes[i + 1]]

(* keycodes_in is not synchronised to this clock: a change that arrives with *)
(* the edge may be caught in some bits and missed in others.                 *)
SampleKeys ==
  \E caught \in SUBSET Bit :
    keycodes' = [i \in Bit |-> IF i \in caught THEN keycodes_in'[i] ELSE keycodes_in[i]]

(* Sensitivity variant of ReadEdge: every clock of a read is a new read.     *)
ReadEdgeEveryClock == rden

(* A read appears on the bus. *)
ReadEdge == rden /\ ~rden_prev

(* The edge detector: the first clock of a read takes the bit and asks for a *)
(* shift.                                                                     *)
NoticeRead ==
  /\ rden_prev' = rden
  /\ IF ReadEdge
     THEN shift_req' = 1 - shift_req /\ data_out' = keycodes[0]
     ELSE UNCHANGED <<shift_req, data_out>>

(* Sensitivity variant of HandleShift: a request in strobe waits for its end. *)
HandleShiftAfterStrobe ==
  shift_handle' = IF strobe = 1 THEN shift_handle ELSE shift_req

(* "ALWAYS handle the shift request" (CONTROLLER.sv:92). *)
HandleShift == shift_handle' = shift_req

UpdateKeys ==
  IF strobe = 1 THEN SampleKeys
  ELSE keycodes' = IF ShiftPending THEN Shifted ELSE keycodes

(* Sensitivity variant of WriteStrobe: the whole byte is taken.              *)
WriteStrobeByte == strobe' = IF wren THEN bus.byte ELSE strobe

WriteStrobe == strobe' = IF wren THEN bus.byte % 2 ELSE strobe

(* One edge of the memory clock. *)
MemoryEdge ==
  keycodes_in' \in Keys /\ NoticeRead /\ HandleShift /\ WriteStrobe /\ UpdateKeys

MemoryCycle ==
  /\ phase < M - 1
  /\ phase' = phase + 1
  /\ MemoryEdge
  /\ UNCHANGED bus

(* The memory clock edge that is a CPU edge too: the CPU goes on to its next  *)
(* bus cycle, or stays in this one while ENABLE is low.                       *)
CpuCycle ==
  /\ phase = M - 1
  /\ phase' = 0
  /\ MemoryEdge
  /\ bus' \in BusCycle

(* RESET, at any edge; it resets the CPU as well. *)
Reset ==
  /\ phase' = IF phase = M - 1 THEN 0 ELSE phase + 1
  /\ bus' = [op |-> "other"]
  /\ keycodes_in' \in Keys
  /\ rden_prev' = FALSE
  /\ shift_req' = 0
  /\ shift_handle' = 0
  /\ strobe' = 0
  /\ keycodes' = [i \in Bit |-> 0]
  /\ data_out' = 0

Next == MemoryCycle \/ CpuCycle \/ Reset

Spec == Init /\ [][Next]_vars

-----------------------------------------------------------------------------
TypeOK ==
  /\ phase \in 0..(M - 1)
  /\ bus \in BusCycle
  /\ keycodes_in \in Keys
  /\ rden_prev \in BOOLEAN
  /\ shift_req \in {0, 1}
  /\ shift_handle \in {0, 1}
  /\ strobe \in {0, 1}
  /\ keycodes \in Keys
  /\ data_out \in {0, 1}

(* When the CPU takes the byte, its read has been noticed, the shift it asked *)
(* for is done and a strobe it wrote is in place: nothing is left over that    *)
(* the next bus cycle could cancel or repeat.                                  *)
SettledAtCpuEdge ==
  phase = M - 1 =>
    /\ ~ShiftPending
    /\ rden_prev = rden
    /\ wren => strobe = bus.byte % 2

(* The refinement: a pending shift counts as done.                            *)
FinalKeys == IF ShiftPending /\ strobe = 0 THEN Shifted ELSE keycodes

Port == INSTANCE ControllerPort WITH
  answered <- rden /\ rden_prev, buttons <- keycodes_in, register <- FinalKeys,
  result <- data_out

(* "This read will provide us one bit ..., and shift the bits down"           *)
(* (CONTROLLER.sv:21): each read on the bus, however many clocks it lasts,     *)
(* takes exactly one bit, in order; reads in strobe take none.                *)
ImplementsPort == Port!Spec
=============================================================================
