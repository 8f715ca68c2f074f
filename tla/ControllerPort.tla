---------------------------- MODULE ControllerPort ----------------------------
(***************************************************************************)
(* What a controller at $4016 / $4017 promises the program: a read takes    *)
(* one bit out of the register and lets a one in behind, once however long  *)
(* the CPU stays on it, and never goes unanswered; while strobe is set the   *)
(* register follows the buttons and reads take nothing.  Controller, clocked *)
(* many times for every bus cycle of the CPU, implements it.                 *)
(***************************************************************************)
EXTENDS Naturals

CONSTANTS
  Width,     (* bits of the register; 8 in the code                         *)
  Byte

Bit == 0..(Width - 1)
Keys == [Bit -> {0, 1}]

BusCycle == [op : {"read", "other"}] \cup [op : {"write"}, byte : Byte]

VARIABLES
  bus,       (* the CPU's bus cycle as this controller sees it              *)
  answered,  (* the read on the bus has had its bit                         *)
  buttons,   (* keycodes_in, set by the firmware at any time                *)
  strobe,    (* bit 0 of the last write of $4016                            *)
  register,  (* keycodes                                                    *)
  result     (* data_out[0], the bit the last read was given                *)

vars == <<bus, answered, buttons, strobe, register, result>>

Shifted(r) == [i \in Bit |-> IF i = Width - 1 THEN 1 ELSE r[i + 1]]

(* In strobe the register takes the buttons, each bit from before or after a *)
(* change that arrives with the clock edge.                                   *)
Follow ==
  \/ register' = register
  \/ /\ strobe = 1
     /\ register' \in Keys
     /\ \A i \in Bit : register'[i] \in {buttons[i], buttons'[i]}

Init ==
  /\ bus = [op |-> "other"]
  /\ answered = FALSE
  /\ buttons \in Keys
  /\ strobe = 0
  /\ register = [i \in Bit |-> 0]
  /\ result = 0

Wait == Follow /\ UNCHANGED <<bus, answered, strobe, result>>

Read ==
  /\ bus.op = "read" /\ ~answered
  /\ answered' = TRUE
  /\ result' = register[0]
  /\ IF strobe = 1 THEN Follow ELSE register' = Shifted(register)
  /\ UNCHANGED <<bus, strobe>>

WriteStrobe ==
  /\ bus.op = "write"
  /\ strobe' = bus.byte % 2
  /\ Follow
  /\ UNCHANGED <<bus, answered, result>>

(* A read that goes on in the next cycle is the same read. *)
NextBusCycle ==
  /\ bus.op = "read" => answered
  /\ bus.op = "write" => strobe = bus.byte % 2
  /\ bus' \in BusCycle
  /\ answered' = (answered /\ bus'.op = "read")
  /\ Follow
  /\ UNCHANGED <<strobe, result>>

Reset ==
  /\ bus' = [op |-> "other"]
  /\ answered' = FALSE
  /\ strobe' = 0
  /\ register' = [i \in Bit |-> 0]
  /\ result' = 0

Next ==
  /\ buttons' \in Keys
  /\ Wait \/ Read \/ WriteStrobe \/ NextBusCycle \/ Reset

Spec == Init /\ [][Next]_vars
=============================================================================
