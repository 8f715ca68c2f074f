------------------------------ MODULE UsbHost ------------------------------
(***************************************************************************)
(* The USB side of the firmware: the main loop of main.c, the interrupt     *)
(* handler and the bus probe of MAX3421E.c, the task state machine of       *)
(* transfer.c and the class probes of HID.c.  One thread, whose steps are    *)
(* cut where it reads or writes the chip, because the bus changes between    *)
(* them; the interrupt pin is polled.                                        *)
(***************************************************************************)
EXTENDS UsbTransfer

CONSTANTS
  Settle,        (* the 200 ms of settling, in clock ticks                   *)
  ClockPeriod    (* ticks after which the millisecond clock starts again,
                    2^32 / 1000 in the code: nticks * 1000 overflows         *)

ASSUME ClockAssumption ==
  /\ Settle \in Nat \ {0}
  /\ ClockPeriod \in Nat /\ ClockPeriod > Settle

VARIABLES
  usb_task_state,
  devtable,         (* slots of devices 1..NumDevices - 1                    *)
  tmp_addr,
  now, usb_delay,   (* the clock, followed only while the device settles and
                       0 otherwise, and the end of the settling              *)
  condet,           (* CONDETIRQ, the only interrupt enabled: the INT pin    *)
  busevent,         (* BUSEVENTIRQ, "indicates BUS Reset Done"               *)
  irqEvent,         (* BUSEVENTIRQ as the handler read it                    *)
  runningdebugflag,
  device,           (* class main() polls                                    *)
  pc,
  changes,          (* how often a device was plugged in or unplugged        *)
  seen              (* history: changes the task state rests on              *)

hostVars == <<usb_task_state, devtable, tmp_addr, usb_delay>>
irqVars == <<condet, busevent, irqEvent>>
mainVars == <<runningdebugflag, device>>
vars == <<deviceVars, lowspeed, busrst, faults, hid_addr, pollVars, outputVars,
          hostVars, now, irqVars, mainVars, pc, changes, seen>>

(* Task states, USB.h.                                                       *)
INITIALIZE == 1
WAIT_FOR_DEVICE == 3
ILLEGAL == 4
ATTACHED == 16
SETTLE == 17
RESET_DEVICE == 18
WAIT_RESET_COMPLETE == 19
WAIT_SOF == 20
GET_DEVICE_DESCRIPTOR_SIZE == 21
ADDRESSING == 32
CONFIGURING == 48
RUNNING == 64
ERROR == 255

(* usb_task_state & USB_STATE_MASK = USB_STATE_DETACHED                      *)
Detached(state) == state < 16

Time == 0..(ClockPeriod - 1)
Slot == 1..(NumDevices - 1)
NoDevice == [epinfo |-> "null", devclass |-> 0]
Taken == {i \in Slot : devtable[i].epinfo # "null"}

Init ==
  /\ \/ line = "none" /\ kind = Other
     \/ \E plug \in Plugs : line = plug.line /\ kind = plug.kind
  /\ changes = 0
  /\ seen = 0
  /\ TransferInit
  /\ lowspeed = FALSE
  /\ usb_task_state = INITIALIZE
  /\ devtable = [i \in Slot |-> NoDevice]
  /\ tmp_addr = 0
  /\ now = 0 /\ usb_delay = 0
  /\ condet = FALSE /\ busevent = FALSE /\ irqEvent = FALSE
  /\ runningdebugflag = FALSE /\ device = 0
  /\ pc = "reset"

-----------------------------------------------------------------------------
(* The bus: devices come and go, a bus reset ends.                            *)
Change ==
  /\ changes < MaxChanges
  /\ changes' = changes + 1
  /\ devAddr' = Unreset /\ devToggle' = 0 /\ devReport' = 0
  /\ condet' = TRUE
  /\ UNCHANGED <<made, lowspeed, busrst, faults, hid_addr, pollVars, outputVars,
                 hostVars, now, busevent, irqEvent, mainVars, pc, seen>>

(* Another device in place of the one there was, or the same after a bounce of  *)
(* its contacts, counts as one change.                                         *)
PlugIn ==
  /\ \E plug \in Plugs : line' = plug.line /\ kind' = plug.kind
  /\ Change

Unplug ==
  /\ line # "none"
  /\ line' = "none" /\ kind' = Other
  /\ Change

BusResetEnds ==
  /\ busrst
  /\ busrst' = FALSE
  /\ busevent' = TRUE
  /\ IF line \in {"full", "low"}
     THEN devAddr' = 0 /\ devToggle' = 0 /\ devReport' = 0
     ELSE UNCHANGED <<devAddr, devToggle, devReport>>
  /\ UNCHANGED <<line, kind, made, lowspeed, faults, hid_addr, pollVars, outputVars,
                 hostVars, now, condet, irqEvent, mainVars, pc, changes, seen>>

(* "bus reset causes connection detect interrupt" (MAX3421E.c:173); a fault    *)
(* only in that it may come at any moment of the reset.                       *)
ResetDetected ==
  /\ busrst /\ line # "none"
  /\ ~condet
  /\ faults < MaxFaults
  /\ faults' = faults + 1
  /\ condet' = TRUE
  /\ UNCHANGED <<deviceVars, lowspeed, busrst, hid_addr, pollVars, outputVars,
                 hostVars, now, busevent, irqEvent, mainVars, pc, changes, seen>>

DeviceMakesReport ==
  /\ usb_task_state = RUNNING
  /\ MakeReport
  /\ UNCHANGED <<lowspeed, busrst, faults, hid_addr, pollVars, outputVars,
                 hostVars, now, irqVars, mainVars, pc, changes, seen>>

ChipTransaction ==
  /\ Transaction
  /\ UNCHANGED <<lowspeed, busrst, hid_addr, outputVars,
                 hostVars, now, irqVars, mainVars, pc, changes, seen>>

Bus ==
  PlugIn \/ Unplug \/ BusResetEnds \/ ResetDetected \/ DeviceMakesReport
    \/ ChipTransaction

-----------------------------------------------------------------------------
(* J and K of HRSL: the idle state of a device of the chip's speed is J.       *)
BusSample ==
  IF line = "none" THEN "SE0"
  ELSE IF line = "both" THEN "SE1"
  ELSE IF (line = "low") = lowspeed THEN "J" ELSE "K"

(* MAX_busprobe: the task state it leaves and the speed it sets.  In           *)
(* WAIT_RESET_COMPLETE it ignores a device, because the reset itself causes    *)
(* an interrupt.                                                               *)
Ignored == BusSample \in {"J", "K"} /\ usb_task_state = WAIT_RESET_COMPLETE

(* Sensitivity variant of ProbedState: a device that was running and is gone is  *)
(* not looked at.                                                              *)
ProbedStateUnplugIgnored ==
  IF BusSample = "SE1" THEN ILLEGAL
  ELSE IF BusSample = "SE0"
  THEN IF Detached(usb_task_state) THEN WAIT_FOR_DEVICE ELSE usb_task_state
  ELSE IF Ignored THEN usb_task_state ELSE ATTACHED

ProbedState ==
  IF BusSample = "SE1" THEN ILLEGAL
  ELSE IF BusSample = "SE0"
  THEN IF Detached(usb_task_state) THEN WAIT_FOR_DEVICE ELSE INITIALIZE
  ELSE IF Ignored THEN usb_task_state ELSE ATTACHED

ProbedSpeed ==
  IF BusSample = "K" /\ ~Ignored THEN ~lowspeed
  ELSE IF BusSample = "SE0" /\ Detached(usb_task_state) THEN FALSE
  ELSE lowspeed

MAX_busprobe ==
  /\ lowspeed' = ProbedSpeed
  /\ seen' = IF Ignored THEN seen ELSE changes

(* MaxIntHandler, in three steps: read HIRQ, probe the bus, write HIRQ.  A     *)
(* bus event moves the task state on by one, whatever it is.                  *)
ReadHirq ==
  /\ pc = "irq" /\ condet
  /\ irqEvent' = busevent
  /\ pc' = "probe"
  /\ UNCHANGED <<deviceVars, lowspeed, busrst, faults, hid_addr, pollVars, outputVars,
                 hostVars, now, condet, busevent, mainVars, changes, seen>>

ProbeBus ==
  /\ pc = "probe"
  /\ MAX_busprobe
  /\ usb_task_state' = IF irqEvent THEN (ProbedState + 1) % 256 ELSE ProbedState
  /\ now' \in IF usb_task_state' = SETTLE THEN Time ELSE {0}
  /\ pc' = "ack"
  /\ UNCHANGED <<deviceVars, busrst, faults, hid_addr, pollVars, outputVars, devtable,
                 tmp_addr, usb_delay, irqVars, mainVars, changes>>

AckIrq ==
  /\ pc = "ack"
  /\ condet' = FALSE
  /\ busevent' = (busevent /\ ~irqEvent)
  /\ irqEvent' = FALSE
  /\ pc' = "task"
  /\ UNCHANGED <<deviceVars, lowspeed, busrst, faults, hid_addr, pollVars, outputVars,
                 hostVars, now, mainVars, changes, seen>>

(* A turn of the loop is shorter than a tick, so the clock moves by one or not  *)
(* at all from one look at it to the next.                                    *)
NextTick == IF now = ClockPeriod - 1 THEN 0 ELSE now + 1

NoIrq ==
  /\ pc = "irq" /\ ~condet
  /\ now' \in IF usb_task_state = SETTLE THEN {now, NextTick} ELSE {now}
  /\ pc' = "task"
  /\ UNCHANGED <<deviceVars, lowspeed, busrst, faults, hid_addr, pollVars, outputVars,
                 hostVars, irqVars, mainVars, changes, seen>>

-----------------------------------------------------------------------------
(* USB_init: the device table is emptied.                                     *)
USB_init == devtable' = [i \in Slot |-> NoDevice]

(* MAX3421E_init: chip reset, bus probe, acknowledgement; then USB_init, as     *)
(* at both places it is called.                                               *)
ResetChip ==
  /\ pc = "reset"
  /\ lowspeed' = FALSE /\ busrst' = FALSE
  /\ condet' = FALSE /\ busevent' = FALSE
  /\ pc' = "initprobe"
  /\ UNCHANGED <<deviceVars, faults, hid_addr, pollVars, outputVars, hostVars, now,
                 irqEvent, mainVars, changes, seen>>

InitProbe ==
  /\ pc = "initprobe"
  /\ MAX_busprobe
  /\ usb_task_state' = ProbedState
  /\ pc' = "initack"
  /\ UNCHANGED <<deviceVars, busrst, faults, hid_addr, pollVars, outputVars, devtable,
                 tmp_addr, usb_delay, now, irqVars, mainVars, changes>>

FinishInit ==
  /\ pc = "initack"
  /\ condet' = FALSE
  /\ USB_init
  /\ pc' = "irq"
  /\ UNCHANGED <<deviceVars, lowspeed, busrst, faults, hid_addr, pollVars, outputVars,
                 usb_task_state, tmp_addr, usb_delay, now, busevent,
                 irqEvent, mainVars, changes, seen>>

-----------------------------------------------------------------------------
(* USB_Task, one action per state.  Its error codes are never read and are     *)
(* left out.                                                                  *)
Task(state) ==
  /\ pc = "task"
  /\ usb_task_state = state
  /\ pc' = "main"
  /\ UNCHANGED <<line, kind, made, lowspeed, outputVars, condet, irqEvent, mainVars,
                 changes, seen>>

NoTransfer ==
  UNCHANGED <<devAddr, devToggle, devReport, faults, hid_addr, pollVars, tmp_addr>>

TaskInitialize ==
  /\ Task(INITIALIZE)
  /\ USB_init
  /\ usb_task_state' = WAIT_FOR_DEVICE
  /\ NoTransfer
  /\ UNCHANGED <<now, usb_delay, busrst, busevent>>

TaskAttached ==
  /\ Task(ATTACHED)
  /\ now' \in Time
  /\ usb_delay' = now' + Settle
  /\ usb_task_state' = SETTLE
  /\ NoTransfer
  /\ UNCHANGED <<devtable, busrst, busevent>>

TaskSettle ==
  /\ Task(SETTLE)
  /\ IF now > usb_delay
     THEN usb_task_state' = RESET_DEVICE /\ now' = 0
     ELSE UNCHANGED <<usb_task_state, now>>
  /\ NoTransfer
  /\ UNCHANGED <<devtable, usb_delay, busrst, busevent>>

(* Sensitivity variant of TaskResetDevice: the event of an earlier reset stays. *)
TaskResetDeviceKeepsEvent ==
  /\ Task(RESET_DEVICE)
  /\ busrst' = TRUE
  /\ usb_task_state' = WAIT_RESET_COMPLETE
  /\ NoTransfer
  /\ UNCHANGED <<now, devtable, usb_delay, busevent>>

TaskResetDevice ==
  /\ Task(RESET_DEVICE)
  /\ busevent' = FALSE
  /\ busrst' = TRUE
  /\ usb_task_state' = WAIT_RESET_COMPLETE
  /\ NoTransfer
  /\ UNCHANGED <<now, devtable, usb_delay>>

TaskWaitReset ==
  /\ Task(WAIT_RESET_COMPLETE)
  /\ usb_task_state' = IF busrst THEN WAIT_RESET_COMPLETE ELSE WAIT_SOF
  /\ NoTransfer
  /\ UNCHANGED <<now, devtable, usb_delay, busrst, busevent>>

(* The test is HIRQ | bmFRAMEIRQ: it waits for nothing.                       *)
TaskWaitSof ==
  /\ Task(WAIT_SOF)
  /\ usb_task_state' = GET_DEVICE_DESCRIPTOR_SIZE
  /\ NoTransfer
  /\ UNCHANGED <<now, devtable, usb_delay, busrst, busevent>>

(* Only the first request counts; the whole descriptor and the strings are    *)
(* for printing.                                                              *)
TaskGetDescriptor ==
  /\ Task(GET_DEVICE_DESCRIPTOR_SIZE)
  /\ \E outcome \in ControlOutcomes(0) :
       /\ Charge(outcome, 0)
       /\ IF outcome = "done"
          THEN usb_task_state' = ADDRESSING
          ELSE usb_task_state' = ERROR
  /\ UNCHANGED <<now, devAddr, devToggle, devReport, hid_addr, pollVars, devtable, tmp_addr,
                 usb_delay, busrst, busevent>>

FreeSlots == Slot \ Taken
FirstFree == CHOOSE i \in FreeSlots : \A j \in FreeSlots : i <= j

TaskAddressing ==
  /\ Task(ADDRESSING)
  /\ FreeSlots # {}
  /\ devtable' = [devtable EXCEPT ![FirstFree].epinfo = "dev0"]
  /\ \E outcome \in ControlOutcomes(0) :
       /\ Charge(outcome, 0)
       /\ devAddr' = IF outcome = "failed" THEN devAddr ELSE FirstFree
       /\ IF outcome = "done"
          THEN /\ tmp_addr' = FirstFree
               /\ usb_task_state' = CONFIGURING
          ELSE usb_task_state' = ERROR /\ UNCHANGED tmp_addr
  /\ UNCHANGED <<now, devToggle, devReport, hid_addr, pollVars, usb_delay, busrst, busevent>>

(* Sensitivity variant of NoAddressLeft: running out of addresses is no error.  *)
NoAddressLeftUnreported ==
  /\ Task(ADDRESSING)
  /\ FreeSlots = {}
  /\ NoTransfer
  /\ UNCHANGED <<now, usb_task_state, devtable, usb_delay, busrst, busevent>>

NoAddressLeft ==
  /\ Task(ADDRESSING)
  /\ FreeSlots = {}
  /\ usb_task_state' = ERROR
  /\ NoTransfer
  /\ UNCHANGED <<now, devtable, usb_delay, busrst, busevent>>

(* The class probes.  The one for the device's class fills its slot and sets   *)
(* configuration and protocol; the others change nothing.                     *)
Drivable == kind \in {HID_K, HID_M} /\ Reachable(tmp_addr)

ProbesFail ==
  /\ Task(CONFIGURING)
  /\ \/ ~Drivable /\ UNCHANGED faults
     \/ Drivable /\ faults < MaxFaults /\ faults' = faults + 1
  /\ usb_task_state' = ERROR
  /\ UNCHANGED <<now, devAddr, devToggle, devReport, hid_addr, pollVars, devtable, tmp_addr,
                 usb_delay, busrst, busevent>>

(* Sensitivity variant of FillSlot: polling uses the hard-wired address of      *)
(* usb_host.h:22.                                                              *)
FillSlotAddressOne ==
  /\ devtable' = [devtable EXCEPT ![tmp_addr] = [epinfo |-> "hid", devclass |-> kind]]
  /\ hid_addr' = 1
  /\ rcvToggle' = 0
  /\ UNCHANGED <<hxfr, hrsl, rcvfifo, nak_count, retry_count>>

FillSlot ==
  /\ devtable' = [devtable EXCEPT ![tmp_addr] = [epinfo |-> "hid", devclass |-> kind]]
  /\ hid_addr' = tmp_addr
  /\ rcvToggle' = 0
  /\ UNCHANGED <<hxfr, hrsl, rcvfifo, nak_count, retry_count>>

(* SetConfiguration makes the device start at toggle 0 with nothing to tell.   *)
ProbeStops ==
  /\ Task(CONFIGURING)
  /\ Drivable
  /\ faults < MaxFaults
  /\ faults' = faults + 1
  /\ FillSlot
  /\ \/ devToggle' = 0 /\ devReport' = 0
     \/ UNCHANGED <<devToggle, devReport>>
  /\ usb_task_state' = ERROR
  /\ UNCHANGED <<now, devAddr, tmp_addr, usb_delay, busrst, busevent>>

ProbeSucceeds ==
  /\ Task(CONFIGURING)
  /\ Drivable
  /\ FillSlot
  /\ devToggle' = 0 /\ devReport' = 0
  /\ usb_task_state' = RUNNING
  /\ UNCHANGED <<now, devAddr, faults, tmp_addr, usb_delay, busrst, busevent>>

Working == {INITIALIZE, ADDRESSING, CONFIGURING} \cup ATTACHED..GET_DEVICE_DESCRIPTOR_SIZE

TaskIdle ==
  /\ usb_task_state \notin Working
  /\ Task(usb_task_state)
  /\ NoTransfer
  /\ UNCHANGED <<now, usb_task_state, devtable, usb_delay, busrst, busevent>>

USB_Task ==
  TaskInitialize \/ TaskAttached \/ TaskSettle \/ TaskResetDevice \/ TaskWaitReset
    \/ TaskWaitSof \/ TaskGetDescriptor \/ TaskAddressing \/ NoAddressLeft
    \/ ProbesFail \/ ProbeStops \/ ProbeSucceeds \/ TaskIdle

-----------------------------------------------------------------------------
(* The rest of main()'s loop.                                                 *)
AfterTask ==
  UNCHANGED <<deviceVars, lowspeed, busrst, faults, hid_addr, hostVars, now, irqVars,
              changes, seen>>

LastTaken == CHOOSE i \in Taken : \A j \in Taken : j <= i

(* GetDriverandReport: the class of the last slot in use.  Its two requests to  *)
(* address 1 are for printing.                                                *)
StartRunning ==
  /\ pc = "main" /\ usb_task_state = RUNNING /\ ~runningdebugflag
  /\ runningdebugflag' = TRUE
  /\ device' = devtable[LastTaken].devclass
  /\ pc' = "irq"
  /\ AfterTask /\ UNCHANGED <<pollVars, outputVars>>

(* Sensitivity variant of PollDevice: a mouse is not polled.                   *)
PollDeviceKeyboardOnly ==
  /\ pc = "main" /\ usb_task_state = RUNNING /\ runningdebugflag
  /\ IF device = HID_K
     THEN StartPoll /\ pc' = "poll"
     ELSE UNCHANGED pollVars /\ pc' = "irq"
  /\ AfterTask /\ UNCHANGED <<outputVars, mainVars>>

PollDevice ==
  /\ pc = "main" /\ usb_task_state = RUNNING /\ runningdebugflag
  /\ device \in {HID_K, HID_M}
  /\ StartPoll
  /\ pc' = "poll"
  /\ AfterTask /\ UNCHANGED <<outputVars, mainVars>>

PollRepeats ==
  /\ pc = "poll"
  /\ RepeatPacket
  /\ AfterTask /\ UNCHANGED <<outputVars, mainVars, pc>>

PollEnds ==
  /\ pc = "poll"
  /\ \/ PollFails /\ UNCHANGED outputVars
     \/ PollSucceeds(device)
  /\ pc' = "irq"
  /\ AfterTask /\ UNCHANGED mainVars

(* In the error state the loop only waits.                                    *)
StayInError ==
  /\ pc = "main" /\ usb_task_state = ERROR
  /\ pc' = "irq"
  /\ AfterTask /\ UNCHANGED <<pollVars, outputVars, mainVars>>

(* A device that was running is gone: the hardware is reset.                   *)
NotRunning ==
  /\ pc = "main" /\ usb_task_state \notin {RUNNING, ERROR}
  /\ runningdebugflag' = FALSE
  /\ pc' = IF runningdebugflag THEN "reset" ELSE "irq"
  /\ AfterTask /\ UNCHANGED <<pollVars, outputVars, device>>

Firmware ==
  ReadHirq \/ ProbeBus \/ AckIrq \/ NoIrq \/ ResetChip \/ InitProbe \/ FinishInit
    \/ USB_Task \/ StartRunning \/ PollDevice \/ PollRepeats \/ PollEnds
    \/ StayInError \/ NotRunning

Next == Bus \/ Firmware

(* The processor runs, the chip ends what it was asked for, and the clock runs *)
(* on.  Nothing is asked of who plugs devices in or of what goes wrong.       *)
Fairness ==
  /\ WF_vars(Firmware)
  /\ WF_vars(BusResetEnds)
  /\ WF_vars(ChipTransaction)
  /\ SF_vars(NoIrq /\ now' # now)

Spec == Init /\ [][Next]_vars /\ Fairness

-----------------------------------------------------------------------------
(* Type invariant.  What is on the wires, and of a report on its way:           *)
WireOK ==
  /\ line \in {"none", "full", "low", "both"} /\ kind \in Kinds
  /\ devAddr \in 0..NumDevices /\ hid_addr \in 0..(NumDevices - 1)
  /\ faults \in 0..MaxFaults
  /\ rcvToggle \in 0..1 /\ devToggle \in 0..1
  /\ hxfr \in {"idle", "sent", "done"}
  /\ hrsl \in {hrSUCCESS, hrNAK, hrTOGERR, hrTIMEOUT}
  /\ nak_count \in 0..(NakLimit - 1) /\ retry_count \in 0..(RetryLimit - 1)
  /\ made \in 0..Len(Reports)
  /\ rcvfifo \in 0..made /\ devReport \in 0..made /\ delivered \in 0..made
  /\ keycode \in [Player -> SUBSET Button]

FlagsOK ==
  /\ lowspeed \in BOOLEAN /\ busrst \in BOOLEAN
  /\ condet \in BOOLEAN /\ busevent \in BOOLEAN /\ irqEvent \in BOOLEAN
  /\ runningdebugflag \in BOOLEAN

(* The task state is one the header names or one that `++` reaches from a        *)
(* probed state (MAX3421E.c:259).                                               *)
TaskOK ==
  /\ usb_task_state \in Working \cup {2, WAIT_FOR_DEVICE, ILLEGAL, 5, RUNNING, ERROR}
  /\ devtable \in [Slot -> [epinfo : {"null", "dev0", "hid"}, devclass : {0, HID_K, HID_M}]]
  /\ tmp_addr \in 0..(NumDevices - 1)
  /\ now \in Time /\ usb_delay \in 0..(ClockPeriod - 1 + Settle)
  /\ device \in {0, HID_K, HID_M}
  /\ pc \in {"irq", "probe", "ack", "task", "main", "poll", "reset", "initprobe", "initack"}
  /\ changes \in 0..MaxChanges /\ seen \in 0..MaxChanges

TypeOK == WireOK /\ FlagsOK /\ TaskOK

(* Once a bus reset is over, the program speaks to the device at the address   *)
(* and the speed it has: to 0 until an address is given, to tmp_addr after.    *)
(* Not if the bus changed since the last probe that counted.                   *)
AddressIsRight ==
  seen = changes =>
    /\ usb_task_state \in {WAIT_SOF, GET_DEVICE_DESCRIPTOR_SIZE, ADDRESSING} => Reachable(0)
    /\ usb_task_state \in {CONFIGURING, RUNNING} => Reachable(tmp_addr)

(* The device polled is the one just configured, in the last slot in use, and   *)
(* main()'s idea of its class is the slot's; GetDriverandReport takes whatever  *)
(* slot comes last (usb_host.h:33-40), HID.c polls hid_device.addr.             *)
PolledIsNewest ==
  usb_task_state = RUNNING =>
    /\ hid_addr = tmp_addr
    /\ hid_addr \in Taken /\ \A i \in Taken : i <= hid_addr
    /\ runningdebugflag => device = devtable[hid_addr].devclass

(* Reports reach the console in order, each once, none skipped, whatever the    *)
(* link loses (XferInTransfer saves the toggle for the next one) ...            *)
InFifo == IF rcvfifo = 0 THEN <<>> ELSE <<rcvfifo>>

InDevice ==
  IF /\ Reachable(hid_addr) /\ devReport # 0
     /\ IF rcvfifo = 0 THEN devToggle = rcvToggle ELSE devReport # rcvfifo
  THEN <<devReport>> ELSE <<>>

Port == INSTANCE ReportPort WITH
  MaxReports <- Len(Reports),
  HeldBy <- [r \in DOMAIN Reports |-> [p \in Player |-> NesKeycodes(p, Reports[r])]],
  NoButtons <- [p \in Player |-> {}],
  open <- usb_task_state = RUNNING /\ Reachable(hid_addr),
  pending <- IF usb_task_state = RUNNING THEN InFifo \o InDevice ELSE <<>>,
  held <- keycode

ImplementsPort == Port!Spec

(* ... and none waits for ever while its device stays, whatever is polled       *)
(* (main.c:117, 184).                                                          *)
ReportsArrive == Port!Prompt

(* A change that is acknowledged after the probe and so never acted upon, or   *)
(* ignored because the task state waits for a bus reset.                       *)
Lost ==
  /\ seen # changes /\ ~condet
  /\ pc \in {"irq", "task", "main", "poll"}

(* The settling that began in the last 200 ms before the clock starts again.   *)
NeverSettles == usb_task_state = SETTLE /\ usb_delay >= ClockPeriod - 1

(* A device that is plugged in and stays gets to be polled or to be reported    *)
(* as an error.                                                                *)
Present == line \in {"full", "low"}
DeviceIsServed ==
  Present ~> \/ seen = changes /\ usb_task_state \in {RUNNING, ERROR}
             \/ ~Present \/ Lost \/ NeverSettles

(* The task is "waiting for settle timer to expire" (transfer.c:280), 200 ms    *)
(* (:277), and so not for ever.                                                *)
SettlingEnds == usb_task_state = SETTLE ~> usb_task_state # SETTLE

(* A device that is unplugged is noticed: the program goes back to waiting.    *)
UnplugIsNoticed ==
  line = "none" ~> \/ seen = changes /\ Detached(usb_task_state)
                   \/ line # "none" \/ Lost

(* "if we came here from other than detached state ... clear device data        *)
(* structures" (MAX3421E.c:200).                                               *)
DisconnectCleans ==
  (pc = "probe" /\ line = "none" /\ ~Detached(usb_task_state)) ~> Taken = {}
=============================================================================
