---------------------------- MODULE UsbTransfer ----------------------------
(***************************************************************************)
(* Transfers between the firmware and one USB device through the MAX3421E: *)
(* transfer.c's XferDispatchPkt and XferInTransfer for the interrupt        *)
(* endpoint of HID.c's kbdPoll and mousePoll, packet by packet, and the     *)
(* outcome of a control transfer.  The chip and the device are external.    *)
(*                                                                          *)
(* A report fits one packet (8 bytes in boot protocol).  The 5 s time-out   *)
(* of XferDispatchPkt is left out: the chip ends a transaction within a     *)
(* frame.                                                                   *)
(***************************************************************************)
EXTENDS Naturals, Sequences

CONSTANTS
  NumDevices,    (* USB_NUMDEVICES: addresses are 1..NumDevices - 1         *)
  NakLimit,      (* USB_NAK_LIMIT                                           *)
  RetryLimit,    (* USB_RETRY_LIMIT                                         *)
  Reports,       (* the reports a device makes, as sets of keycodes         *)
  Plugs,         (* what may be plugged in, as [line, kind]                 *)
  MaxChanges,    (* bound: how often the bus is plugged or unplugged        *)
  MaxFaults      (* bound: packets lost or spoilt, interrupts out of time   *)

HID_K == 1
HID_M == 2
Other == 3                    (* a class no probe knows *)
Kinds == {HID_K, HID_M, Other}

ASSUME LimitAssumption ==
  /\ NumDevices \in Nat /\ NumDevices >= 2
  /\ NakLimit \in Nat /\ NakLimit >= 1
  /\ RetryLimit \in Nat /\ RetryLimit >= 1
  /\ Reports \in Seq(SUBSET Nat)
  /\ Plugs \subseteq [line : {"full", "low", "both"}, kind : Kinds]
  /\ MaxChanges \in Nat
  /\ MaxFaults \in Nat

VARIABLES
  line,          (* what is plugged in: nothing, a device by speed, or both
                    lines high                                              *)
  kind,          (* class of that device                                    *)
  devAddr,       (* address it answers to                                   *)
  lowspeed,      (* LOWSPEED bit of the chip's MODE register                *)
  busrst,        (* BUSRST bit of HCTL                                      *)
  faults,        (* faults so far                                           *)
  hid_addr,      (* hid_device.addr                                         *)
  rcvToggle,     (* hid_ep[1].rcvToggle                                     *)
  hxfr,          (* the transaction in the chip: idle, sent or done         *)
  hrsl,          (* its result                                              *)
  rcvfifo,       (* report in the receive FIFO (RCVDAVIRQ), 0 for none      *)
  nak_count, retry_count,
  devToggle,     (* data toggle of the device's endpoint                    *)
  devReport,     (* report the endpoint holds, 0 for none                   *)
  made,          (* reports made so far                                     *)
  delivered,     (* report the program last took                            *)
  keycode        (* the NES buttons held at each controller port            *)

deviceVars == <<line, kind, devAddr, devToggle, devReport, made>>
pollVars == <<rcvToggle, hxfr, hrsl, rcvfifo, nak_count, retry_count>>
outputVars == <<delivered, keycode>>

Unreset == NumDevices   (* a device not reset since it was plugged in *)
hrSUCCESS == 0
hrNAK == 4
hrTOGERR == 6
hrTIMEOUT == 14

Player == {1, 2}
Button == 0..7

(* Keys of each button, bits 0 to 7 of the byte at the port.                *)
KeysOf(p) ==
  IF p = 1
  THEN <<{14, 30}, {15, 31}, {49, 32}, {40, 33}, {26, 34}, {22, 35}, {4, 36}, {7, 37}>>
  ELSE <<{54, 30}, {55, 31}, {77, 32}, {78, 33}, {82, 34}, {81, 35}, {80, 36}, {79, 37}>>

NesKeycodes(p, keys) == {b \in Button : KeysOf(p)[b + 1] \cap keys # {}}

(* The bus works at the speed of the device, and it listens to this address.  *)
Reachable(addr) ==
  /\ line = IF lowspeed THEN "low" ELSE "full"
  /\ ~busrst
  /\ devAddr = addr

TransferInit ==
  /\ devAddr = Unreset
  /\ faults = 0
  /\ busrst = FALSE
  /\ hid_addr = 0
  /\ rcvToggle = 0 /\ devToggle = 0
  /\ hxfr = "idle" /\ hrsl = hrSUCCESS /\ rcvfifo = 0
  /\ nak_count = 0 /\ retry_count = 0
  /\ devReport = 0 /\ made = 0 /\ delivered = 0
  /\ keycode = [p \in Player |-> {}]

-----------------------------------------------------------------------------
(* A control transfer: SETUP, the data stage and the status stage, each      *)
(* packet dispatched with its own repetitions.  Any packet may fail for      *)
(* good; when the last one does, the device has obeyed and the program sees   *)
(* an error.                                                                  *)
ControlOutcomes(addr) ==
  IF ~Reachable(addr) THEN {"failed"}
  ELSE IF faults < MaxFaults THEN {"done", "failed", "unconfirmed"}
  ELSE {"done"}

Charge(outcome, addr) ==
  faults' = IF outcome # "done" /\ Reachable(addr) THEN faults + 1 ELSE faults

-----------------------------------------------------------------------------
(* The device has a report to tell: a key or a button changed.               *)
MakeReport ==
  /\ Reachable(hid_addr) /\ hid_addr # 0
  /\ devReport = 0
  /\ made < Len(Reports)
  /\ made' = made + 1
  /\ devReport' = made'
  /\ UNCHANGED <<line, kind, devAddr, devToggle>>

(* The chip's transaction.  The device answers an IN with NAK, or sends its   *)
(* report and drops it when the ACK arrives.                                  *)
Answer(result, report) ==
  /\ hxfr = "sent"
  /\ hxfr' = "done"
  /\ hrsl' = result
  /\ rcvfifo' = report
  /\ UNCHANGED <<rcvToggle, nak_count, retry_count>>

NoAnswer ==
  /\ ~Reachable(hid_addr)
  /\ Answer(hrTIMEOUT, 0)
  /\ UNCHANGED <<deviceVars, faults>>

Nak ==
  /\ Reachable(hid_addr)
  /\ devReport = 0
  /\ Answer(hrNAK, 0)
  /\ UNCHANGED <<deviceVars, faults>>

(* The chip stores a packet of the toggle it expects and discards the other,   *)
(* a repetition, but acknowledges both.                                       *)
ReceivedResult == IF devToggle = rcvToggle THEN hrSUCCESS ELSE hrTOGERR
ReceivedReport == IF devToggle = rcvToggle THEN devReport ELSE 0

Data ==
  /\ Reachable(hid_addr)
  /\ devReport # 0
  /\ Answer(ReceivedResult, ReceivedReport)
  /\ devReport' = 0
  /\ devToggle' = 1 - devToggle
  /\ UNCHANGED <<line, kind, devAddr, made, faults>>

AckLost ==
  /\ Reachable(hid_addr)
  /\ devReport # 0
  /\ faults < MaxFaults
  /\ faults' = faults + 1
  /\ Answer(ReceivedResult, ReceivedReport)
  /\ UNCHANGED deviceVars

DataLost ==
  /\ Reachable(hid_addr)
  /\ faults < MaxFaults
  /\ faults' = faults + 1
  /\ Answer(hrTIMEOUT, 0)
  /\ UNCHANGED deviceVars

Transaction == NoAnswer \/ Nak \/ Data \/ AckLost \/ DataLost

-----------------------------------------------------------------------------
(* kbdPoll, mousePoll: set the toggle, send the first IN.                    *)
StartPoll ==
  /\ hxfr' = "sent"
  /\ nak_count' = 0
  /\ retry_count' = 0
  /\ UNCHANGED <<rcvToggle, hrsl, rcvfifo>>

(* Sensitivity variant of MayRepeat: one packet more than the limits.         *)
MayRepeatOnceMore ==
  \/ hrsl = hrNAK /\ nak_count < NakLimit
  \/ hrsl = hrTIMEOUT /\ retry_count < RetryLimit

(* XferDispatchPkt asks again after a NAK or a bus time-out.                  *)
MayRepeat ==
  \/ hrsl = hrNAK /\ nak_count + 1 < NakLimit
  \/ hrsl = hrTIMEOUT /\ retry_count + 1 < RetryLimit

RepeatPacket ==
  /\ hxfr = "done"
  /\ MayRepeat
  /\ hxfr' = "sent"
  /\ nak_count' = IF hrsl = hrNAK THEN nak_count + 1 ELSE nak_count
  /\ retry_count' = IF hrsl = hrTIMEOUT THEN retry_count + 1 ELSE retry_count
  /\ UNCHANGED <<rcvToggle, hrsl, rcvfifo>>

(* NAK means no new data; other errors are only printed.                     *)
PollFails ==
  /\ hxfr = "done"
  /\ hrsl # hrSUCCESS
  /\ ~MayRepeat
  /\ hxfr' = "idle"
  /\ hrsl' = hrSUCCESS /\ nak_count' = 0 /\ retry_count' = 0
  /\ UNCHANGED <<rcvToggle, rcvfifo>>

(* Sensitivity variant of SaveToggle: the toggle is not saved.                *)
SaveNoToggle == rcvToggle' = rcvToggle

(* After a packet the chip's RCVTOGRD shows the toggle it expects next.      *)
SaveToggle == rcvToggle' = 1 - rcvToggle

(* The report is read from the FIFO and, from a keyboard, translated to the   *)
(* buttons of both controllers.                                               *)
PollSucceeds(class) ==
  /\ hxfr = "done"
  /\ hrsl = hrSUCCESS
  /\ hxfr' = "idle"
  /\ rcvfifo' = 0 /\ nak_count' = 0 /\ retry_count' = 0
  /\ SaveToggle
  /\ delivered' = rcvfifo
  /\ keycode' = IF class = HID_K
                THEN [p \in Player |-> NesKeycodes(p, Reports[rcvfifo])]
                ELSE keycode
  /\ UNCHANGED hrsl
=============================================================================
