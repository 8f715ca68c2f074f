---------------------------- MODULE UsbHostProofs ----------------------------
(***************************************************************************)
(* UsbHost's safety for every number of devices, every limit and every       *)
(* period of the clock: types, the device that is polled, the address it is   *)
(* spoken to at, and the refinement of ReportPort.                           *)
(***************************************************************************)
EXTENDS UsbHost, SequenceTheorems, TLAPS

(* Slots are taken from the first on: nothing returns a single one.            *)
TableInOrder == \E n \in 0..(NumDevices - 1) : Taken = 1..n

(* The device being configured or polled has the last slot in use.             *)
LastSlot ==
  usb_task_state \in {CONFIGURING, RUNNING} =>
    tmp_addr \in Taken /\ \A i \in Taken : i <= tmp_addr

(* When a running device leaves RUNNING, the main loop sees it in that turn.    *)
Leaving ==
  runningdebugflag /\ usb_task_state # RUNNING =>
    /\ pc \in {"ack", "task", "main"}
    /\ usb_task_state \in {INITIALIZE, 2, WAIT_FOR_DEVICE, ILLEGAL, 5, ATTACHED, SETTLE}
         \cup (IF pc = "main" THEN {RESET_DEVICE} ELSE {})

(* States in which nothing has been said to the device, and those in which the    *)
(* program speaks to it.                                                         *)
Early == {INITIALIZE, 2, WAIT_FOR_DEVICE, ILLEGAL, 5, ATTACHED, SETTLE, RESET_DEVICE}
Talking == {WAIT_SOF, GET_DEVICE_DESCRIPTOR_SIZE, ADDRESSING, CONFIGURING, RUNNING}

(* The chip is reset between devices only, and not during a bus reset.          *)
Resetting ==
  pc \in {"reset", "initprobe", "initack"} =>
    /\ ~runningdebugflag
    /\ usb_task_state \in Early

EventRead == pc \notin {"probe", "ack"} => ~irqEvent

Speed == IF lowspeed THEN "low" ELSE "full"

(* While no change is unseen, the chip works at the speed of the device, and a    *)
(* reset that is over, or reported over, has set its address to 0.               *)
SpeedIsRight ==
  seen = changes /\ usb_task_state \in ATTACHED..RUNNING /\ pc # "initprobe" => line = Speed

ResetIsOver ==
  /\ seen = changes /\ usb_task_state = WAIT_RESET_COMPLETE
  /\ ~busrst \/ busevent \/ irqEvent
  => ~busrst /\ devAddr = 0

Inv ==
  /\ TypeOK
  /\ seen <= changes
  /\ TableInOrder
  /\ LastSlot
  /\ PolledIsNewest
  /\ Leaving
  /\ Resetting
  /\ EventRead
  /\ SpeedIsRight
  /\ ResetIsOver
  /\ AddressIsRight


(* Settling ends in the range of usb_delay.                                       *)
LEMMA DelayInRange ==
  ASSUME NEW t \in Time
  PROVE  t + Settle \in 0..(ClockPeriod - 1 + Settle)
BY ClockAssumption DEF Time

(* A slot stays a slot when an address is given.                                  *)
LEMMA Dev0Entry ==
  ASSUME NEW s \in [epinfo : {"null", "dev0", "hid"}, devclass : {0, HID_K, HID_M}]
  PROVE  [s EXCEPT !.epinfo = "dev0"]
           \in [epinfo : {"null", "dev0", "hid"}, devclass : {0, HID_K, HID_M}]
OBVIOUS

(* The first free slot is the one after the last in use.                        *)
LEMMA FirstFreeSlot ==
  ASSUME TableInOrder, FreeSlots # {}
  PROVE  /\ FirstFree \in FreeSlots
         /\ \A j \in FreeSlots : FirstFree <= j
<1>1. PICK n \in 0..(NumDevices - 1) : Taken = 1..n
  BY DEF TableInOrder
<1>2. n + 1 \in FreeSlots /\ \A j \in FreeSlots : n + 1 <= j
  BY <1>1, LimitAssumption DEF FreeSlots, Slot
<1>3. QED
  BY <1>2 DEF FirstFree

(* Every step keeps the wires, the packet on its way and the report in range.   *)
LEMMA WireStep ==
  ASSUME Inv, [Next]_vars
  PROVE  WireOK'
<1> USE DEF Inv, TypeOK, WireOK, TaskOK, deviceVars, pollVars, outputVars, hostVars,
        irqVars, mainVars, hrSUCCESS, hrNAK, hrTOGERR, hrTIMEOUT, Kinds, HID_K,
        HID_M, Other, Unreset, Slot
<1>1. CASE PlugIn
  BY <1>1, LimitAssumption DEF PlugIn, Change
<1>2. CASE Unplug
  BY <1>2, LimitAssumption DEF Unplug, Change
<1>3. CASE BusResetEnds
  BY <1>3, LimitAssumption DEF BusResetEnds
<1>4. CASE ResetDetected
  BY <1>4, LimitAssumption DEF ResetDetected
<1>5. CASE DeviceMakesReport
  BY <1>5, LimitAssumption DEF DeviceMakesReport, MakeReport
<1>6. CASE ChipTransaction
  <2> USE DEF ChipTransaction, Answer
  <2>1. CASE NoAnswer
    BY <1>6, <2>1 DEF NoAnswer
  <2>2. CASE Nak
    BY <1>6, <2>2 DEF Nak
  <2>3. CASE Data
    BY <1>6, <2>3 DEF Data, ReceivedResult, ReceivedReport
  <2>4. CASE AckLost
    BY <1>6, <2>4, LimitAssumption DEF AckLost, ReceivedResult, ReceivedReport
  <2>5. CASE DataLost
    BY <1>6, <2>5, LimitAssumption DEF DataLost
  <2>6. QED
    BY <1>6, <2>1, <2>2, <2>3, <2>4, <2>5 DEF Transaction
<1>7. CASE ReadHirq
  BY <1>7 DEF ReadHirq
<1>8. CASE ProbeBus
  BY <1>8 DEF ProbeBus, MAX_busprobe, ProbedState, ProbedSpeed, Ignored, BusSample,
       Detached
<1>9. CASE AckIrq
  BY <1>9 DEF AckIrq
<1>10. CASE NoIrq
  BY <1>10 DEF NoIrq, NextTick
<1>11. CASE ResetChip
  BY <1>11 DEF ResetChip
<1>12. CASE InitProbe
  BY <1>12 DEF InitProbe, MAX_busprobe, ProbedState, ProbedSpeed, Ignored,
       BusSample, Detached
<1>13. CASE FinishInit
  BY <1>13 DEF FinishInit, USB_init, NoDevice
<1>14. CASE TaskInitialize
  BY <1>14 DEF TaskInitialize, USB_init, NoDevice, Task, NoTransfer
<1>15. CASE TaskAttached
  BY <1>15 DEF TaskAttached, Task, NoTransfer
<1>16. CASE TaskSettle
  BY <1>16 DEF TaskSettle, Task, NoTransfer
<1>17. CASE TaskResetDevice
  BY <1>17 DEF TaskResetDevice, Task, NoTransfer
<1>18. CASE TaskWaitReset
  BY <1>18 DEF TaskWaitReset, Task, NoTransfer
<1>19. CASE TaskWaitSof
  BY <1>19 DEF TaskWaitSof, Task, NoTransfer
<1>20. CASE TaskGetDescriptor
  BY <1>20, LimitAssumption DEF TaskGetDescriptor, ControlOutcomes, Charge, Task
<1>21. CASE TaskAddressing
  <2>1. FirstFree \in Slot
    BY <1>21, FirstFreeSlot DEF TaskAddressing, FreeSlots
  <2>2. PICK outcome \in ControlOutcomes(0) :
          /\ Charge(outcome, 0)
          /\ devAddr' = IF outcome = "failed" THEN devAddr ELSE FirstFree
    BY <1>21 DEF TaskAddressing
  <2>3. faults' \in 0..MaxFaults
    BY <2>2, LimitAssumption DEF Charge, ControlOutcomes
  <2>4. devAddr' \in 0..NumDevices
    BY <2>1, <2>2, LimitAssumption
  <2>5. QED
    BY <1>21, <2>3, <2>4 DEF TaskAddressing, Task
<1>22. CASE NoAddressLeft
  BY <1>22 DEF NoAddressLeft, Task, NoTransfer
<1>23. CASE ProbesFail
  BY <1>23, LimitAssumption DEF ProbesFail, Drivable, Task
<1>24. CASE ProbeStops
  BY <1>24, LimitAssumption DEF ProbeStops, Drivable, FillSlot, Task
<1>25. CASE ProbeSucceeds
  BY <1>25, LimitAssumption DEF ProbeSucceeds, Drivable, FillSlot, Task
<1>26. CASE TaskIdle
  BY <1>26 DEF TaskIdle, Task, NoTransfer
<1>27. CASE StartRunning
  BY <1>27 DEF StartRunning, AfterTask
<1>28. CASE PollDevice
  BY <1>28, LimitAssumption DEF PollDevice, StartPoll, AfterTask
<1>29. CASE PollRepeats
  BY <1>29, LimitAssumption DEF PollRepeats, RepeatPacket, MayRepeat, AfterTask
<1>30. CASE PollEnds
  BY <1>30, LimitAssumption DEF PollEnds, PollFails, PollSucceeds, MayRepeat,
       SaveToggle, NesKeycodes, AfterTask
<1>31. CASE StayInError
  BY <1>31 DEF StayInError, AfterTask
<1>32. CASE NotRunning
  BY <1>32 DEF NotRunning, AfterTask
<1>33. CASE UNCHANGED vars
  BY <1>33 DEF vars
<1>34. QED
  BY <1>1, <1>2, <1>3, <1>4, <1>5, <1>6, <1>7, <1>8, <1>9, <1>10, <1>11, <1>12,
       <1>13, <1>14, <1>15, <1>16, <1>17, <1>18, <1>19, <1>20, <1>21, <1>22, <1>23,
       <1>24, <1>25, <1>26, <1>27, <1>28, <1>29, <1>30, <1>31, <1>32, <1>33 DEF
       Next, Bus, Firmware, USB_Task

(* ... and the flags,                                                            *)
LEMMA FlagsStep ==
  ASSUME Inv, [Next]_vars
  PROVE  FlagsOK'
<1> USE DEF Inv, TypeOK, FlagsOK, deviceVars, pollVars, outputVars, hostVars,
        irqVars, mainVars
<1>1. CASE PlugIn
  BY Zenon, <1>1 DEF PlugIn, Change
<1>2. CASE Unplug
  BY Zenon, <1>2 DEF Unplug, Change
<1>3. CASE BusResetEnds
  BY Zenon, <1>3 DEF BusResetEnds
<1>4. CASE ResetDetected
  BY Zenon, <1>4 DEF ResetDetected
<1>5. CASE DeviceMakesReport
  BY Zenon, <1>5 DEF DeviceMakesReport, MakeReport
<1>6. CASE ChipTransaction
  BY Zenon, <1>6 DEF ChipTransaction, Transaction, NoAnswer, Nak, Data, AckLost,
       DataLost, Answer, ReceivedResult, ReceivedReport
<1>7. CASE ReadHirq
  BY Zenon, <1>7 DEF ReadHirq
<1>8. CASE ProbeBus
  BY <1>8 DEF ProbeBus, MAX_busprobe, ProbedSpeed, BusSample
<1>9. CASE AckIrq
  BY Zenon, <1>9 DEF AckIrq
<1>10. CASE NoIrq
  BY Zenon, <1>10 DEF NoIrq, NextTick
<1>11. CASE ResetChip
  BY Zenon, <1>11 DEF ResetChip
<1>12. CASE InitProbe
  BY <1>12 DEF InitProbe, MAX_busprobe, ProbedSpeed, BusSample
<1>13. CASE FinishInit
  BY Zenon, <1>13 DEF FinishInit, USB_init, NoDevice
<1>14. CASE TaskInitialize
  BY Zenon, <1>14 DEF TaskInitialize, USB_init, NoDevice, Task, NoTransfer
<1>15. CASE TaskAttached
  BY Zenon, <1>15 DEF TaskAttached, Task, NoTransfer
<1>16. CASE TaskSettle
  BY Zenon, <1>16 DEF TaskSettle, Task, NoTransfer
<1>17. CASE TaskResetDevice
  BY Zenon, <1>17 DEF TaskResetDevice, Task, NoTransfer
<1>18. CASE TaskWaitReset
  BY Zenon, <1>18 DEF TaskWaitReset, Task, NoTransfer
<1>19. CASE TaskWaitSof
  BY Zenon, <1>19 DEF TaskWaitSof, Task, NoTransfer
<1>20. CASE TaskGetDescriptor
  BY Zenon, <1>20 DEF TaskGetDescriptor, ControlOutcomes, Charge, Task
<1>21. CASE TaskAddressing
  BY Zenon, <1>21 DEF TaskAddressing, ControlOutcomes, Charge, Task
<1>22. CASE NoAddressLeft
  BY Zenon, <1>22 DEF NoAddressLeft, Task, NoTransfer
<1>23. CASE ProbesFail
  BY Zenon, <1>23 DEF ProbesFail, Drivable, Task
<1>24. CASE ProbeStops
  BY Zenon, <1>24 DEF ProbeStops, Drivable, FillSlot, Task
<1>25. CASE ProbeSucceeds
  BY Zenon, <1>25 DEF ProbeSucceeds, Drivable, FillSlot, Task
<1>26. CASE TaskIdle
  BY Zenon, <1>26 DEF TaskIdle, Task, NoTransfer
<1>27. CASE StartRunning
  BY Zenon, <1>27 DEF StartRunning, AfterTask
<1>28. CASE PollDevice
  BY Zenon, <1>28 DEF PollDevice, StartPoll, AfterTask
<1>29. CASE PollRepeats
  BY Zenon, <1>29 DEF PollRepeats, RepeatPacket, MayRepeat, AfterTask
<1>30. CASE PollEnds
  BY Zenon, <1>30 DEF PollEnds, PollFails, PollSucceeds, MayRepeat, SaveToggle,
       NesKeycodes, AfterTask
<1>31. CASE StayInError
  BY Zenon, <1>31 DEF StayInError, AfterTask
<1>32. CASE NotRunning
  BY Zenon, <1>32 DEF NotRunning, AfterTask
<1>33. CASE UNCHANGED vars
  BY Zenon, <1>33 DEF vars
<1>34. QED
  BY <1>1, <1>2, <1>3, <1>4, <1>5, <1>6, <1>7, <1>8, <1>9, <1>10, <1>11, <1>12,
       <1>13, <1>14, <1>15, <1>16, <1>17, <1>18, <1>19, <1>20, <1>21, <1>22, <1>23,
       <1>24, <1>25, <1>26, <1>27, <1>28, <1>29, <1>30, <1>31, <1>32, <1>33 DEF
       Next, Bus, Firmware, USB_Task

(* While the device runs the last slot in use is its own.                       *)
LEMMA LastTakenSlot ==
  ASSUME LastSlot, TypeOK, usb_task_state = RUNNING
  PROVE  LastTaken = tmp_addr /\ LastTaken \in Taken
<1>1. tmp_addr \in Taken /\ \A i \in Taken : i <= tmp_addr
  BY DEF LastSlot
<1>2. LastTaken \in Taken /\ \A i \in Taken : i <= LastTaken
  BY <1>1 DEF LastTaken
<1>3. QED
  BY <1>1, <1>2, LimitAssumption DEF Taken, Slot

(* ... and the task state, the device table and the program counter.             *)
LEMMA TaskStep ==
  ASSUME Inv, [Next]_vars
  PROVE  TaskOK'
<1> USE DEF Inv, TypeOK, WireOK, TaskOK, deviceVars, pollVars, outputVars, hostVars,
        irqVars, mainVars, INITIALIZE, WAIT_FOR_DEVICE, ILLEGAL, ATTACHED, SETTLE,
        RESET_DEVICE, WAIT_RESET_COMPLETE, WAIT_SOF, GET_DEVICE_DESCRIPTOR_SIZE,
        ADDRESSING, CONFIGURING, RUNNING, ERROR, Working, hrSUCCESS, hrNAK,
        hrTOGERR, hrTIMEOUT, Kinds, HID_K, HID_M, Other, Unreset, Slot, Time
<1>1. CASE PlugIn
  BY <1>1, LimitAssumption, ClockAssumption DEF PlugIn, Change
<1>2. CASE Unplug
  BY <1>2, LimitAssumption, ClockAssumption DEF Unplug, Change
<1>3. CASE BusResetEnds
  BY <1>3 DEF BusResetEnds
<1>4. CASE ResetDetected
  BY <1>4 DEF ResetDetected
<1>5. CASE DeviceMakesReport
  BY <1>5 DEF DeviceMakesReport, MakeReport
<1>6. CASE ChipTransaction
  BY <1>6 DEF ChipTransaction, Transaction, NoAnswer, Nak, Data, AckLost, DataLost,
       Answer, ReceivedResult, ReceivedReport
<1>7. CASE ReadHirq
  BY <1>7 DEF ReadHirq
<1>8. CASE ProbeBus
  <2>1. ProbedState \in
          {INITIALIZE, WAIT_FOR_DEVICE, ILLEGAL, ATTACHED, WAIT_RESET_COMPLETE}
    BY DEF ProbedState, BusSample, Ignored
  <2>2. usb_task_state' \in Working \cup {2, WAIT_FOR_DEVICE, ILLEGAL, 5, RUNNING, ERROR}
    BY <1>8, <2>1 DEF ProbeBus
  <2>3. QED
    BY <1>8, <2>2, ClockAssumption DEF ProbeBus, MAX_busprobe
<1>9. CASE AckIrq
  BY <1>9 DEF AckIrq
<1>10. CASE NoIrq
  BY <1>10, LimitAssumption, ClockAssumption DEF NoIrq, NextTick
<1>11. CASE ResetChip
  BY <1>11 DEF ResetChip
<1>12. CASE InitProbe
  <2>1. ProbedState \in
          {INITIALIZE, WAIT_FOR_DEVICE, ILLEGAL, ATTACHED, WAIT_RESET_COMPLETE}
    BY DEF ProbedState, BusSample, Ignored
  <2>2. usb_task_state' \in Working \cup {2, WAIT_FOR_DEVICE, ILLEGAL, 5, RUNNING, ERROR}
    BY <1>12, <2>1 DEF InitProbe
  <2>3. QED
    BY <1>12, <2>2 DEF InitProbe, MAX_busprobe
<1>13. CASE FinishInit
  BY <1>13, LimitAssumption, ClockAssumption DEF FinishInit, USB_init, NoDevice
<1>14. CASE TaskInitialize
  BY <1>14, LimitAssumption, ClockAssumption DEF TaskInitialize, USB_init, NoDevice,
       Task, NoTransfer
<1>15. CASE TaskAttached
  <2>1. now' \in Time /\ usb_delay' = now' + Settle
    BY <1>15 DEF TaskAttached
  <2>2. usb_delay' \in 0..(ClockPeriod - 1 + Settle)
    BY <2>1, DelayInRange
  <2>3. QED
    BY <1>15, <2>1, <2>2 DEF TaskAttached, NoTransfer, Task
<1>16. CASE TaskSettle
  BY <1>16, LimitAssumption, ClockAssumption DEF TaskSettle, Task, NoTransfer
<1>17. CASE TaskResetDevice
  BY <1>17, LimitAssumption, ClockAssumption DEF TaskResetDevice, Task, NoTransfer
<1>18. CASE TaskWaitReset
  BY <1>18, LimitAssumption, ClockAssumption DEF TaskWaitReset, Task, NoTransfer
<1>19. CASE TaskWaitSof
  BY <1>19, LimitAssumption, ClockAssumption DEF TaskWaitSof, Task, NoTransfer
<1>20. CASE TaskGetDescriptor
  BY <1>20, LimitAssumption, ClockAssumption DEF TaskGetDescriptor, ControlOutcomes,
       Charge, Task
<1>21. CASE TaskAddressing
  <2>1. FirstFree \in Slot
    BY <1>21, FirstFreeSlot DEF TaskAddressing, FreeSlots
  <2>2. devtable' \in [Slot -> [epinfo : {"null", "dev0", "hid"},
                             devclass : {0, HID_K, HID_M}]]
    <3>1. devtable' = [devtable EXCEPT ![FirstFree] =
                         [devtable[FirstFree] EXCEPT !.epinfo = "dev0"]]
      BY <1>21 DEF TaskAddressing
    <3>2. [devtable[FirstFree] EXCEPT !.epinfo = "dev0"]
            \in [epinfo : {"null", "dev0", "hid"}, devclass : {0, HID_K, HID_M}]
      BY <2>1, Dev0Entry
    <3>3. QED
      BY <2>1, <3>1, <3>2
  <2>3. \/ usb_task_state' = CONFIGURING /\ tmp_addr' = FirstFree
        \/ usb_task_state' = ERROR /\ tmp_addr' = tmp_addr
    BY <1>21 DEF TaskAddressing
  <2>4. tmp_addr' \in 0..(NumDevices - 1)
    BY <2>1, <2>3, LimitAssumption
  <2>5. QED
    BY <1>21, <2>2, <2>3, <2>4 DEF TaskAddressing, Task
<1>22. CASE NoAddressLeft
  BY <1>22, LimitAssumption, ClockAssumption DEF NoAddressLeft, Task, NoTransfer
<1>23. CASE ProbesFail
  BY <1>23, LimitAssumption, ClockAssumption DEF ProbesFail, Drivable, Task
<1>24. CASE ProbeStops
  BY <1>24, LimitAssumption, ClockAssumption DEF ProbeStops, Drivable, FillSlot,
       Task
<1>25. CASE ProbeSucceeds
  BY <1>25, LimitAssumption, ClockAssumption DEF ProbeSucceeds, Drivable, FillSlot,
       Task
<1>26. CASE TaskIdle
  BY <1>26 DEF TaskIdle, Task, NoTransfer
<1>27. CASE StartRunning
  <2>1. LastTaken \in Slot
    BY <1>27, LastTakenSlot DEF StartRunning, Taken
  <2>2. device' \in {0, HID_K, HID_M}
    BY <1>27, <2>1 DEF StartRunning
  <2>3. QED
    BY <1>27, <2>2 DEF StartRunning, AfterTask
<1>28. CASE PollDevice
  BY <1>28, LimitAssumption, ClockAssumption DEF PollDevice, StartPoll, AfterTask
<1>29. CASE PollRepeats
  BY <1>29 DEF PollRepeats, RepeatPacket, MayRepeat, AfterTask
<1>30. CASE PollEnds
  BY <1>30, LimitAssumption, ClockAssumption DEF PollEnds, PollFails, PollSucceeds,
       MayRepeat, SaveToggle, NesKeycodes, AfterTask
<1>31. CASE StayInError
  BY <1>31, LimitAssumption, ClockAssumption DEF StayInError, AfterTask
<1>32. CASE NotRunning
  BY <1>32, LimitAssumption, ClockAssumption DEF NotRunning, AfterTask
<1>33. CASE UNCHANGED vars
  BY <1>33 DEF vars
<1>34. QED
  BY <1>1, <1>2, <1>3, <1>4, <1>5, <1>6, <1>7, <1>8, <1>9, <1>10, <1>11, <1>12,
       <1>13, <1>14, <1>15, <1>16, <1>17, <1>18, <1>19, <1>20, <1>21, <1>22, <1>23,
       <1>24, <1>25, <1>26, <1>27, <1>28, <1>29, <1>30, <1>31, <1>32, <1>33 DEF
       Next, Bus, Firmware, USB_Task

-----------------------------------------------------------------------------
(* Nothing happens to the table and to who is polled.                            *)
LEMMA TableKept ==
  ASSUME Inv, UNCHANGED <<usb_task_state, devtable, tmp_addr, hid_addr, mainVars>>
  PROVE  (TableInOrder /\ LastSlot /\ PolledIsNewest)'
BY DEF Inv, mainVars, TableInOrder, LastSlot, PolledIsNewest, Taken

(* A task that has not got so far, or has failed, leaves only the table.         *)
LEMMA TaskMoved ==
  ASSUME Inv, UNCHANGED devtable, usb_task_state' \notin {CONFIGURING, RUNNING}
  PROVE  (TableInOrder /\ LastSlot /\ PolledIsNewest)'
BY DEF Inv, TableInOrder, LastSlot, PolledIsNewest, Taken, CONFIGURING, RUNNING

(* USB_init leaves every slot free.                                              *)
LEMMA TableEmptied ==
  ASSUME USB_init, usb_task_state' \notin {CONFIGURING, RUNNING}
  PROVE  (TableInOrder /\ LastSlot /\ PolledIsNewest)'
<1>1. Taken' = {}
  BY DEF USB_init, Taken, NoDevice
<1>2. Taken' = 1..0 /\ 0 \in 0..(NumDevices - 1)
  BY <1>1, LimitAssumption
<1>3. QED
  BY <1>1, <1>2 DEF TableInOrder, LastSlot, PolledIsNewest, RUNNING, CONFIGURING

(* The state a probe leaves, and the event after it.                             *)
LEMMA Probed ==
  \/ ProbedState \in {INITIALIZE, WAIT_FOR_DEVICE, ILLEGAL, ATTACHED}
  \/ Ignored /\ ProbedState = WAIT_RESET_COMPLETE
BY DEF ProbedState, BusSample, Ignored

(* Slots stay taken in order, and the device polled has the last one.            *)
LEMMA TableStep ==
  ASSUME Inv, [Next]_vars
  PROVE  (TableInOrder /\ LastSlot /\ PolledIsNewest)'
<1> USE DEF hostVars, mainVars
<1>1. CASE PlugIn
  BY <1>1, TableKept DEF PlugIn, Change
<1>2. CASE Unplug
  BY <1>2, TableKept DEF Unplug, Change
<1>3. CASE BusResetEnds
  BY <1>3, TableKept DEF BusResetEnds
<1>4. CASE ResetDetected
  BY <1>4, TableKept DEF ResetDetected
<1>5. CASE DeviceMakesReport
  BY <1>5, TableKept DEF DeviceMakesReport
<1>6. CASE ChipTransaction
  BY <1>6, TableKept DEF ChipTransaction, Transaction, NoAnswer, Nak, Data, AckLost,
       DataLost
<1>7. CASE ReadHirq
  BY <1>7, TableKept DEF ReadHirq
<1>8. CASE ProbeBus
  <2>1. usb_task_state' \notin {CONFIGURING, RUNNING}
    BY <1>8, Probed DEF Inv, ProbeBus, INITIALIZE, WAIT_FOR_DEVICE, ILLEGAL, ATTACHED,
         SETTLE, RESET_DEVICE, WAIT_RESET_COMPLETE, WAIT_SOF,
         GET_DEVICE_DESCRIPTOR_SIZE, ADDRESSING, CONFIGURING, RUNNING, ERROR
  <2>2. QED
    BY <1>8, <2>1, TaskMoved DEF ProbeBus
<1>9. CASE AckIrq
  BY <1>9, TableKept DEF AckIrq
<1>10. CASE NoIrq
  BY <1>10, TableKept DEF NoIrq
<1>11. CASE ResetChip
  BY <1>11, TableKept DEF ResetChip
<1>12. CASE InitProbe
  <2>1. usb_task_state' \notin {CONFIGURING, RUNNING}
    BY <1>12, Probed DEF Inv, InitProbe, INITIALIZE, WAIT_FOR_DEVICE, ILLEGAL, ATTACHED,
         SETTLE, RESET_DEVICE, WAIT_RESET_COMPLETE, WAIT_SOF,
         GET_DEVICE_DESCRIPTOR_SIZE, ADDRESSING, CONFIGURING, RUNNING, ERROR
  <2>2. QED
    BY <1>12, <2>1, TaskMoved DEF InitProbe
<1>13. CASE FinishInit
  BY <1>13, TableEmptied DEF FinishInit, Inv, Resetting, Early, INITIALIZE, WAIT_FOR_DEVICE,
       ILLEGAL, ATTACHED, SETTLE, RESET_DEVICE, WAIT_RESET_COMPLETE, WAIT_SOF,
       GET_DEVICE_DESCRIPTOR_SIZE, ADDRESSING, CONFIGURING, RUNNING, ERROR
<1>14. CASE TaskInitialize
  BY <1>14, TableEmptied DEF TaskInitialize, INITIALIZE, WAIT_FOR_DEVICE, ILLEGAL,
       ATTACHED, SETTLE, RESET_DEVICE, WAIT_RESET_COMPLETE, WAIT_SOF,
       GET_DEVICE_DESCRIPTOR_SIZE, ADDRESSING, CONFIGURING, RUNNING, ERROR
<1>15. CASE TaskAttached
  BY <1>15, TaskMoved DEF TaskAttached, Task, INITIALIZE, WAIT_FOR_DEVICE, ILLEGAL,
       ATTACHED, SETTLE, RESET_DEVICE, WAIT_RESET_COMPLETE, WAIT_SOF,
       GET_DEVICE_DESCRIPTOR_SIZE, ADDRESSING, CONFIGURING, RUNNING, ERROR
<1>16. CASE TaskSettle
  BY <1>16, TaskMoved DEF TaskSettle, Task, INITIALIZE, WAIT_FOR_DEVICE, ILLEGAL,
       ATTACHED, SETTLE, RESET_DEVICE, WAIT_RESET_COMPLETE, WAIT_SOF,
       GET_DEVICE_DESCRIPTOR_SIZE, ADDRESSING, CONFIGURING, RUNNING, ERROR
<1>17. CASE TaskResetDevice
  BY <1>17, TaskMoved DEF TaskResetDevice, Task, INITIALIZE, WAIT_FOR_DEVICE,
       ILLEGAL, ATTACHED, SETTLE, RESET_DEVICE, WAIT_RESET_COMPLETE, WAIT_SOF,
       GET_DEVICE_DESCRIPTOR_SIZE, ADDRESSING, CONFIGURING, RUNNING, ERROR
<1>18. CASE TaskWaitReset
  BY <1>18, TaskMoved DEF TaskWaitReset, Task, INITIALIZE, WAIT_FOR_DEVICE, ILLEGAL,
       ATTACHED, SETTLE, RESET_DEVICE, WAIT_RESET_COMPLETE, WAIT_SOF,
       GET_DEVICE_DESCRIPTOR_SIZE, ADDRESSING, CONFIGURING, RUNNING, ERROR
<1>19. CASE TaskWaitSof
  BY <1>19, TaskMoved DEF TaskWaitSof, Task, INITIALIZE, WAIT_FOR_DEVICE, ILLEGAL,
       ATTACHED, SETTLE, RESET_DEVICE, WAIT_RESET_COMPLETE, WAIT_SOF,
       GET_DEVICE_DESCRIPTOR_SIZE, ADDRESSING, CONFIGURING, RUNNING, ERROR
<1>20. CASE TaskGetDescriptor
  BY <1>20, TaskMoved DEF TaskGetDescriptor, Task, INITIALIZE, WAIT_FOR_DEVICE,
       ILLEGAL, ATTACHED, SETTLE, RESET_DEVICE, WAIT_RESET_COMPLETE, WAIT_SOF,
       GET_DEVICE_DESCRIPTOR_SIZE, ADDRESSING, CONFIGURING, RUNNING, ERROR
<1>21. CASE TaskAddressing
  <2>1. FirstFree \in FreeSlots /\ \A j \in FreeSlots : FirstFree <= j
    BY <1>21, FirstFreeSlot DEF TaskAddressing, Inv
  <2>2. PICK n \in 0..(NumDevices - 1) : Taken = 1..n
    BY DEF Inv, TableInOrder
  <2>3. FirstFree = n + 1 /\ n + 1 \in Slot
    BY <2>1, <2>2, LimitAssumption DEF FreeSlots, Slot
  <2>4. Taken' = Taken \cup {n + 1}
    BY <1>21, <2>3 DEF TaskAddressing, Taken, Inv, TypeOK, TaskOK
  <2>5. Taken' = 1..(n + 1) /\ n + 1 \in 0..(NumDevices - 1)
    BY <2>2, <2>3, <2>4 DEF Slot
  <2>6. usb_task_state' = CONFIGURING => tmp_addr' = n + 1
    BY <1>21, <2>3 DEF TaskAddressing, CONFIGURING, ERROR
  <2>7. usb_task_state' # RUNNING
    BY <1>21 DEF TaskAddressing, CONFIGURING, RUNNING, ERROR
  <2>8. QED
    BY <2>5, <2>6, <2>7 DEF TableInOrder, LastSlot, PolledIsNewest
<1>22. CASE NoAddressLeft
  BY <1>22, TaskMoved DEF NoAddressLeft, Task, INITIALIZE, WAIT_FOR_DEVICE, ILLEGAL,
       ATTACHED, SETTLE, RESET_DEVICE, WAIT_RESET_COMPLETE, WAIT_SOF,
       GET_DEVICE_DESCRIPTOR_SIZE, ADDRESSING, CONFIGURING, RUNNING, ERROR
<1>23. CASE ProbesFail
  BY <1>23, TaskMoved DEF ProbesFail, Task, INITIALIZE, WAIT_FOR_DEVICE, ILLEGAL,
       ATTACHED, SETTLE, RESET_DEVICE, WAIT_RESET_COMPLETE, WAIT_SOF,
       GET_DEVICE_DESCRIPTOR_SIZE, ADDRESSING, CONFIGURING, RUNNING, ERROR
<1>24. CASE ProbeStops
  <2>1. usb_task_state = CONFIGURING /\ tmp_addr \in Taken /\ tmp_addr \in Slot
    BY <1>24 DEF ProbeStops, Task, Inv, LastSlot, Taken
  <2>2. devtable' = [devtable EXCEPT ![tmp_addr] = [epinfo |-> "hid", devclass |-> kind]]
    BY <1>24 DEF ProbeStops, FillSlot
  <2>3. Taken' = Taken
    BY <2>1, <2>2 DEF Taken, Inv, TypeOK, TaskOK
  <2>4. QED
    BY <1>24, <2>3 DEF ProbeStops, Inv, TableInOrder, LastSlot, PolledIsNewest,
          CONFIGURING, RUNNING, ERROR
<1>25. CASE ProbeSucceeds
  <2>1. usb_task_state = CONFIGURING /\ tmp_addr \in Taken /\ tmp_addr \in Slot
    BY <1>25 DEF ProbeSucceeds, Task, Inv, LastSlot, Taken
  <2>2. devtable' = [devtable EXCEPT ![tmp_addr] = [epinfo |-> "hid", devclass |-> kind]]
    BY <1>25 DEF ProbeSucceeds, FillSlot
  <2>3. Taken' = Taken
    BY <2>1, <2>2 DEF Taken, Inv, TypeOK, TaskOK
  <2>4. ~runningdebugflag /\ UNCHANGED <<runningdebugflag, tmp_addr>>
        /\ hid_addr' = tmp_addr
    BY <1>25, <2>1 DEF ProbeSucceeds, Task, FillSlot, mainVars, Inv, Leaving, INITIALIZE,
          WAIT_FOR_DEVICE, ILLEGAL, ATTACHED, SETTLE, RESET_DEVICE, CONFIGURING, RUNNING
  <2>5. QED
    BY <2>1, <2>3, <2>4 DEF Inv, TableInOrder, LastSlot, PolledIsNewest
<1>26. CASE TaskIdle
  BY <1>26, TableKept DEF TaskIdle, Task, NoTransfer
<1>27. CASE StartRunning
  <2>1. LastTaken = tmp_addr /\ hid_addr = tmp_addr
    BY <1>27, LastTakenSlot DEF StartRunning, Inv, PolledIsNewest
  <2>2. device' = devtable[hid_addr].devclass
    BY <1>27, <2>1 DEF StartRunning
  <2>3. UNCHANGED <<usb_task_state, devtable, tmp_addr, hid_addr>>
    BY <1>27 DEF StartRunning, AfterTask, hostVars
  <2>4. QED
    BY <2>2, <2>3 DEF Inv, TableInOrder, LastSlot, PolledIsNewest, Taken
<1>28. CASE PollDevice
  BY <1>28, TableKept DEF PollDevice, AfterTask
<1>29. CASE PollRepeats
  BY <1>29, TableKept DEF PollRepeats, AfterTask
<1>30. CASE PollEnds
  BY <1>30, TableKept DEF PollEnds, AfterTask
<1>31. CASE StayInError
  BY <1>31, TableKept DEF StayInError, AfterTask
<1>32. CASE NotRunning
  <2>1. UNCHANGED <<usb_task_state, devtable, tmp_addr, hid_addr>>
        /\ usb_task_state # RUNNING
    BY <1>32 DEF NotRunning, AfterTask, hostVars
  <2>2. QED
    BY <2>1 DEF Inv, TableInOrder, LastSlot, PolledIsNewest, Taken
<1>33. CASE UNCHANGED vars
  BY <1>33, TableKept DEF vars
<1>34. QED
  BY <1>1, <1>2, <1>3, <1>4, <1>5, <1>6, <1>7, <1>8, <1>9, <1>10, <1>11, <1>12,
       <1>13, <1>14, <1>15, <1>16, <1>17, <1>18, <1>19, <1>20, <1>21, <1>22, <1>23,
       <1>24, <1>25, <1>26, <1>27, <1>28, <1>29, <1>30, <1>31, <1>32, <1>33 DEF
       Next, Bus, Firmware, USB_Task

-----------------------------------------------------------------------------
(* The main loop's flag, the chip's reset and the event as the handler read it.   *)
LEMMA ControlStep ==
  ASSUME Inv, [Next]_vars
  PROVE  (seen <= changes /\ Leaving /\ Resetting /\ EventRead)'
<1> USE DEF Early, Inv, TypeOK, TaskOK, Leaving, Resetting, EventRead, hostVars,
        irqVars, mainVars, INITIALIZE, WAIT_FOR_DEVICE, ILLEGAL, ATTACHED, SETTLE,
        RESET_DEVICE, WAIT_RESET_COMPLETE, WAIT_SOF, GET_DEVICE_DESCRIPTOR_SIZE,
        ADDRESSING, CONFIGURING, RUNNING, ERROR
<1>1. CASE PlugIn
  BY <1>1 DEF PlugIn, Change
<1>2. CASE Unplug
  BY <1>2 DEF Unplug, Change
<1>3. CASE BusResetEnds
  BY <1>3 DEF BusResetEnds
<1>4. CASE ResetDetected
  BY <1>4 DEF ResetDetected
<1>5. CASE DeviceMakesReport
  BY <1>5 DEF DeviceMakesReport
<1>6. CASE ChipTransaction
  BY <1>6 DEF ChipTransaction
<1>7. CASE ReadHirq
  BY <1>7 DEF ReadHirq
<1>8. CASE ProbeBus
  BY <1>8, Probed DEF ProbeBus, MAX_busprobe, Ignored, Detached
<1>9. CASE AckIrq
  BY <1>9 DEF AckIrq
<1>10. CASE NoIrq
  BY <1>10 DEF NoIrq, NextTick
<1>11. CASE ResetChip
  BY <1>11 DEF ResetChip
<1>12. CASE InitProbe
  BY <1>12, Probed DEF InitProbe, MAX_busprobe, Ignored, Detached
<1>13. CASE FinishInit
  BY <1>13 DEF FinishInit
<1>14. CASE TaskInitialize
  BY <1>14 DEF TaskInitialize, Task
<1>15. CASE TaskAttached
  BY <1>15 DEF TaskAttached, Task
<1>16. CASE TaskSettle
  BY <1>16 DEF TaskSettle, Task
<1>17. CASE TaskResetDevice
  BY <1>17 DEF TaskResetDevice, Task
<1>18. CASE TaskWaitReset
  BY <1>18 DEF TaskWaitReset, Task
<1>19. CASE TaskWaitSof
  BY <1>19 DEF TaskWaitSof, Task
<1>20. CASE TaskGetDescriptor
  BY <1>20 DEF TaskGetDescriptor, Task
<1>21. CASE TaskAddressing
  BY <1>21 DEF TaskAddressing, Task
<1>22. CASE NoAddressLeft
  BY <1>22 DEF NoAddressLeft, Task
<1>23. CASE ProbesFail
  BY <1>23 DEF ProbesFail, Task
<1>24. CASE ProbeStops
  BY <1>24 DEF ProbeStops, Task
<1>25. CASE ProbeSucceeds
  BY <1>25 DEF ProbeSucceeds, Task
<1>26. CASE TaskIdle
  BY <1>26 DEF TaskIdle, Task
<1>27. CASE StartRunning
  BY <1>27 DEF StartRunning, AfterTask
<1>28. CASE PollDevice
  BY <1>28 DEF PollDevice, AfterTask
<1>29. CASE PollRepeats
  BY <1>29 DEF PollRepeats, AfterTask
<1>30. CASE PollEnds
  BY <1>30 DEF PollEnds, AfterTask
<1>31. CASE StayInError
  BY <1>31 DEF StayInError, AfterTask
<1>32. CASE NotRunning
  BY <1>32 DEF NotRunning, AfterTask
<1>33. CASE UNCHANGED vars
  BY <1>33 DEF vars
<1>34. QED
  BY <1>1, <1>2, <1>3, <1>4, <1>5, <1>6, <1>7, <1>8, <1>9, <1>10, <1>11, <1>12,
       <1>13, <1>14, <1>15, <1>16, <1>17, <1>18, <1>19, <1>20, <1>21, <1>22, <1>23,
       <1>24, <1>25, <1>26, <1>27, <1>28, <1>29, <1>30, <1>31, <1>32, <1>33 DEF
       Next, Bus, Firmware, USB_Task

-----------------------------------------------------------------------------
(* The address and the speed of the device.                                      *)

(* A probe that takes a device for attached has set its speed.                    *)
LEMMA ProbedSpeedIsRight ==
  ASSUME TypeOK, ~Ignored, ProbedState = ATTACHED
  PROVE  line = IF ProbedSpeed THEN "low" ELSE "full"
<1>1. BusSample \in {"J", "K"} /\ line \in {"full", "low"}
  BY DEF ProbedState, BusSample, TypeOK, WireOK, INITIALIZE, WAIT_FOR_DEVICE, ILLEGAL,
       ATTACHED
<1>2. BusSample = "K" => ((line = "low") <=> ~lowspeed)
  BY <1>1 DEF BusSample, TypeOK, FlagsOK
<1>3. BusSample = "J" => ((line = "low") <=> lowspeed)
  BY <1>1 DEF BusSample, TypeOK, FlagsOK
<1>4. QED
  BY <1>1, <1>2, <1>3 DEF ProbedSpeed

(* Every step keeps the speed right: plugging makes a change unseen, and only a
   probe sees it.                                                               *)
LEMMA SpeedStep ==
  ASSUME Inv, [Next]_vars
  PROVE  SpeedIsRight'
<1> USE DEF Early, SpeedIsRight, Speed, deviceVars, hostVars, irqVars, INITIALIZE,
        WAIT_FOR_DEVICE, ILLEGAL, ATTACHED, SETTLE, RESET_DEVICE,
        WAIT_RESET_COMPLETE, WAIT_SOF, GET_DEVICE_DESCRIPTOR_SIZE, ADDRESSING,
        CONFIGURING, RUNNING, ERROR
<1>1. CASE PlugIn
  <2>1. changes \in Nat /\ seen \in Nat /\ seen <= changes /\ seen' = seen
        /\ changes' = changes + 1
    BY <1>1 DEF Inv, TypeOK, TaskOK, PlugIn, Change
  <2>2. seen' # changes'
    BY <2>1
  <2>3. QED
    BY <2>2
<1>2. CASE Unplug
  <2>1. changes \in Nat /\ seen \in Nat /\ seen <= changes /\ seen' = seen
        /\ changes' = changes + 1
    BY <1>2 DEF Inv, TypeOK, TaskOK, Unplug, Change
  <2>2. seen' # changes'
    BY <2>1
  <2>3. QED
    BY <2>2
<1>3. CASE BusResetEnds
  <2>1. UNCHANGED <<line, lowspeed, usb_task_state, pc, seen, changes>>
    BY <1>3 DEF BusResetEnds, hostVars
  <2>2. QED
    BY <2>1 DEF Inv
<1>4. CASE ResetDetected
  <2>1. UNCHANGED <<line, lowspeed, busrst, devAddr, usb_task_state, tmp_addr,
                    pc, seen, changes>>
    BY <1>4 DEF ResetDetected
  <2>2. QED
    BY <2>1 DEF Inv
<1>5. CASE DeviceMakesReport
  <2>1. UNCHANGED <<line, lowspeed, busrst, devAddr, usb_task_state, tmp_addr,
                    pc, seen, changes>>
    BY <1>5 DEF DeviceMakesReport, MakeReport
  <2>2. QED
    BY <2>1 DEF Inv
<1>6. CASE ChipTransaction
  BY <1>6 DEF Inv, ChipTransaction, Transaction, NoAnswer, Nak, Data, AckLost, DataLost
<1>7. CASE ReadHirq
  BY <1>7 DEF Inv, ReadHirq
<1>8. CASE ProbeBus
  <2>1. CASE Ignored
    <3>1. usb_task_state = WAIT_RESET_COMPLETE /\ pc = "probe"
      BY <1>8, <2>1 DEF ProbeBus, Ignored
    <3>2. lowspeed' = lowspeed /\ UNCHANGED <<line, seen, changes>>
      BY <1>8, <2>1 DEF ProbeBus, MAX_busprobe, ProbedSpeed, Ignored, deviceVars
    <3>3. QED
      BY <3>1, <3>2 DEF Inv
  <2>2. CASE ~Ignored
    <3>1. ProbedState \in {INITIALIZE, WAIT_FOR_DEVICE, ILLEGAL, ATTACHED}
      BY <2>2, Probed
    <3>2. usb_task_state' \in ATTACHED..RUNNING => ProbedState = ATTACHED
      BY <1>8, <3>1 DEF ProbeBus
    <3>3. ProbedState = ATTACHED => line' = Speed'
      BY <1>8, <2>2, ProbedSpeedIsRight DEF Inv, ProbeBus, MAX_busprobe, deviceVars
    <3>4. QED
      BY <3>2, <3>3
  <2>3. QED
    BY <2>1, <2>2
<1>9. CASE AckIrq
  BY <1>9 DEF Inv, AckIrq
<1>10. CASE NoIrq
  BY <1>10 DEF Inv, NoIrq, NextTick
<1>11. CASE ResetChip
  <2>1. pc' = "initprobe"
    BY <1>11 DEF ResetChip
  <2>2. QED
    BY <2>1
<1>12. CASE InitProbe
  <2>1. usb_task_state \in Early
    BY <1>12 DEF Inv, InitProbe, Resetting
  <2>2. ~Ignored
    BY <2>1 DEF Ignored
  <2>3. ProbedState \in {INITIALIZE, WAIT_FOR_DEVICE, ILLEGAL, ATTACHED}
        /\ usb_task_state' = ProbedState
    BY <1>12, <2>2, Probed DEF InitProbe
  <2>4. ProbedState = ATTACHED => line' = Speed'
    BY <1>12, <2>2, ProbedSpeedIsRight DEF Inv, InitProbe, MAX_busprobe, deviceVars
  <2>5. QED
    BY <2>3, <2>4
<1>13. CASE FinishInit
  BY <1>13 DEF Inv, FinishInit
<1>14. CASE TaskInitialize
  <2>1. UNCHANGED <<line, lowspeed, seen, changes>> /\ pc = "task"
    BY <1>14 DEF TaskInitialize, Task
  <2>2. usb_task_state' \in ATTACHED..RUNNING => usb_task_state \in ATTACHED..RUNNING
    BY <1>14 DEF TaskInitialize, Task
  <2>3. QED
    BY <2>1, <2>2 DEF Inv
<1>15. CASE TaskAttached
  <2>1. UNCHANGED <<line, lowspeed, seen, changes>> /\ pc = "task"
    BY <1>15 DEF TaskAttached, Task
  <2>2. usb_task_state' \in ATTACHED..RUNNING => usb_task_state \in ATTACHED..RUNNING
    BY <1>15 DEF TaskAttached, Task
  <2>3. QED
    BY <2>1, <2>2 DEF Inv
<1>16. CASE TaskSettle
  <2>1. UNCHANGED <<line, lowspeed, seen, changes>> /\ pc = "task"
    BY <1>16 DEF TaskSettle, Task
  <2>2. usb_task_state' \in ATTACHED..RUNNING => usb_task_state \in ATTACHED..RUNNING
    BY <1>16 DEF TaskSettle, Task
  <2>3. QED
    BY <2>1, <2>2 DEF Inv
<1>17. CASE TaskResetDevice
  <2>1. UNCHANGED <<line, lowspeed, seen, changes>> /\ pc = "task"
    BY <1>17 DEF TaskResetDevice, Task
  <2>2. usb_task_state' \in ATTACHED..RUNNING => usb_task_state \in ATTACHED..RUNNING
    BY <1>17 DEF TaskResetDevice, Task
  <2>3. QED
    BY <2>1, <2>2 DEF Inv
<1>18. CASE TaskWaitReset
  <2>1. UNCHANGED <<line, lowspeed, seen, changes>> /\ pc = "task"
    BY <1>18 DEF TaskWaitReset, Task
  <2>2. usb_task_state' \in ATTACHED..RUNNING => usb_task_state \in ATTACHED..RUNNING
    BY <1>18 DEF TaskWaitReset, Task
  <2>3. QED
    BY <2>1, <2>2 DEF Inv
<1>19. CASE TaskWaitSof
  <2>1. UNCHANGED <<line, lowspeed, seen, changes>> /\ pc = "task"
    BY <1>19 DEF TaskWaitSof, Task
  <2>2. usb_task_state' \in ATTACHED..RUNNING => usb_task_state \in ATTACHED..RUNNING
    BY <1>19 DEF TaskWaitSof, Task
  <2>3. QED
    BY <2>1, <2>2 DEF Inv
<1>20. CASE TaskGetDescriptor
  <2>1. UNCHANGED <<line, lowspeed, seen, changes>> /\ pc = "task"
    BY <1>20 DEF TaskGetDescriptor, Task
  <2>2. usb_task_state' \in ATTACHED..RUNNING => usb_task_state \in ATTACHED..RUNNING
    BY <1>20 DEF TaskGetDescriptor, Task
  <2>3. QED
    BY <2>1, <2>2 DEF Inv
<1>21. CASE TaskAddressing
  <2>1. UNCHANGED <<line, lowspeed, seen, changes>> /\ pc = "task"
    BY <1>21 DEF TaskAddressing, Task
  <2>2. usb_task_state' \in ATTACHED..RUNNING => usb_task_state \in ATTACHED..RUNNING
    BY <1>21 DEF TaskAddressing, Task
  <2>3. QED
    BY <2>1, <2>2 DEF Inv
<1>22. CASE NoAddressLeft
  <2>1. UNCHANGED <<line, lowspeed, seen, changes>> /\ pc = "task"
    BY <1>22 DEF NoAddressLeft, Task
  <2>2. usb_task_state' \in ATTACHED..RUNNING => usb_task_state \in ATTACHED..RUNNING
    BY <1>22 DEF NoAddressLeft, Task
  <2>3. QED
    BY <2>1, <2>2 DEF Inv
<1>23. CASE ProbesFail
  <2>1. UNCHANGED <<line, lowspeed, seen, changes>> /\ pc = "task"
    BY <1>23 DEF ProbesFail, Task
  <2>2. usb_task_state' \in ATTACHED..RUNNING => usb_task_state \in ATTACHED..RUNNING
    BY <1>23 DEF ProbesFail, Task
  <2>3. QED
    BY <2>1, <2>2 DEF Inv
<1>24. CASE ProbeStops
  <2>1. UNCHANGED <<line, lowspeed, seen, changes>> /\ pc = "task"
    BY <1>24 DEF ProbeStops, Task
  <2>2. usb_task_state' \in ATTACHED..RUNNING => usb_task_state \in ATTACHED..RUNNING
    BY <1>24 DEF ProbeStops, Task
  <2>3. QED
    BY <2>1, <2>2 DEF Inv
<1>25. CASE ProbeSucceeds
  <2>1. UNCHANGED <<line, lowspeed, seen, changes>> /\ pc = "task"
    BY <1>25 DEF ProbeSucceeds, Task
  <2>2. usb_task_state' \in ATTACHED..RUNNING => usb_task_state \in ATTACHED..RUNNING
    BY <1>25 DEF ProbeSucceeds, Task
  <2>3. QED
    BY <2>1, <2>2 DEF Inv
<1>26. CASE TaskIdle
  <2>1. UNCHANGED <<line, lowspeed, seen, changes>> /\ pc = "task"
    BY <1>26 DEF TaskIdle, Task
  <2>2. usb_task_state' \in ATTACHED..RUNNING => usb_task_state \in ATTACHED..RUNNING
    BY <1>26 DEF TaskIdle, Task
  <2>3. QED
    BY <2>1, <2>2 DEF Inv
<1>27. CASE StartRunning
  BY <1>27 DEF Inv, StartRunning, AfterTask
<1>28. CASE PollDevice
  BY <1>28 DEF Inv, PollDevice, AfterTask
<1>29. CASE PollRepeats
  BY <1>29 DEF Inv, PollRepeats, AfterTask
<1>30. CASE PollEnds
  BY <1>30 DEF Inv, PollEnds, AfterTask
<1>31. CASE StayInError
  BY <1>31 DEF Inv, StayInError, AfterTask
<1>32. CASE NotRunning
  BY <1>32 DEF Inv, NotRunning, AfterTask
<1>33. CASE UNCHANGED vars
  BY <1>33 DEF Inv, vars
<1>34. QED
  BY <1>1, <1>2, <1>3, <1>4, <1>5, <1>6, <1>7, <1>8, <1>9, <1>10, <1>11, <1>12,
       <1>13, <1>14, <1>15, <1>16, <1>17, <1>18, <1>19, <1>20, <1>21, <1>22, <1>23,
       <1>24, <1>25, <1>26, <1>27, <1>28, <1>29, <1>30, <1>31, <1>32, <1>33 DEF
       Next, Bus, Firmware, USB_Task

(* Every step keeps that a reset that is over has put the address to 0.          *)
LEMMA ResetStep ==
  ASSUME Inv, [Next]_vars
  PROVE  ResetIsOver'
<1> USE DEF Early, ResetIsOver, deviceVars, hostVars, irqVars, INITIALIZE,
        WAIT_FOR_DEVICE, ILLEGAL, ATTACHED, SETTLE, RESET_DEVICE,
        WAIT_RESET_COMPLETE, WAIT_SOF, GET_DEVICE_DESCRIPTOR_SIZE, ADDRESSING,
        CONFIGURING, RUNNING, ERROR
<1>1. CASE PlugIn
  <2>1. changes \in Nat /\ seen \in Nat /\ seen <= changes /\ seen' = seen
        /\ changes' = changes + 1
    BY <1>1 DEF Inv, TypeOK, TaskOK, PlugIn, Change
  <2>2. seen' # changes'
    BY <2>1
  <2>3. QED
    BY <2>2
<1>2. CASE Unplug
  <2>1. changes \in Nat /\ seen \in Nat /\ seen <= changes /\ seen' = seen
        /\ changes' = changes + 1
    BY <1>2 DEF Inv, TypeOK, TaskOK, Unplug, Change
  <2>2. seen' # changes'
    BY <2>1
  <2>3. QED
    BY <2>2
<1>3. CASE BusResetEnds
  <2>1. busrst' = FALSE /\ UNCHANGED <<line, usb_task_state, seen, changes, pc>>
    BY <1>3 DEF BusResetEnds
  <2>2. line \in {"full", "low"} => devAddr' = 0
    BY <1>3 DEF BusResetEnds
  <2>3. seen = changes /\ usb_task_state = WAIT_RESET_COMPLETE => line \in {"full", "low"}
    BY DEF Inv, Resetting, SpeedIsRight, Speed
  <2>4. QED
    BY <2>1, <2>2, <2>3
<1>4. CASE ResetDetected
  BY <1>4 DEF Inv, ResetDetected
<1>5. CASE DeviceMakesReport
  BY <1>5 DEF Inv, DeviceMakesReport
<1>6. CASE ChipTransaction
  BY <1>6 DEF Inv, ChipTransaction, Transaction, NoAnswer, Nak, Data, AckLost, DataLost
<1>7. CASE ReadHirq
  <2>1. (busevent' \/ irqEvent') => busevent
    BY <1>7 DEF ReadHirq
  <2>2. UNCHANGED <<usb_task_state, seen, changes, busrst, devAddr>>
    BY <1>7 DEF ReadHirq
  <2>3. QED
    BY <2>1, <2>2 DEF Inv
<1>8. CASE ProbeBus
  <2>1. CASE Ignored
    <3>1. usb_task_state = WAIT_RESET_COMPLETE
          /\ UNCHANGED <<seen, changes, busrst, devAddr, busevent, irqEvent>>
      BY <1>8, <2>1 DEF ProbeBus, Ignored, MAX_busprobe
    <3>2. QED
      BY <3>1 DEF Inv
  <2>2. CASE ~Ignored
    <3>1. ProbedState \in {INITIALIZE, WAIT_FOR_DEVICE, ILLEGAL, ATTACHED}
      BY <2>2, Probed
    <3>2. usb_task_state' # WAIT_RESET_COMPLETE
      BY <1>8, <3>1 DEF ProbeBus
    <3>3. QED
      BY <3>2
  <2>3. QED
    BY <2>1, <2>2
<1>9. CASE AckIrq
  <2>1. (busevent' \/ irqEvent') => busevent
    BY <1>9 DEF AckIrq
  <2>2. UNCHANGED <<usb_task_state, seen, changes, busrst, devAddr>>
    BY <1>9 DEF AckIrq
  <2>3. QED
    BY <2>1, <2>2 DEF Inv
<1>10. CASE NoIrq
  BY <1>10 DEF Inv, NoIrq, NextTick
<1>11. CASE ResetChip
  <2>1. usb_task_state' # WAIT_RESET_COMPLETE
    BY <1>11 DEF ResetChip, Inv, Resetting
  <2>2. QED
    BY <2>1
<1>12. CASE InitProbe
  <2>1. usb_task_state \in Early
    BY <1>12 DEF Inv, InitProbe, Resetting
  <2>2. ~Ignored
    BY <2>1 DEF Ignored
  <2>3. ProbedState \in {INITIALIZE, WAIT_FOR_DEVICE, ILLEGAL, ATTACHED}
        /\ usb_task_state' = ProbedState
    BY <1>12, <2>2, Probed DEF InitProbe
  <2>4. QED
    BY <2>3
<1>13. CASE FinishInit
  BY <1>13 DEF Inv, FinishInit
<1>14. CASE TaskInitialize
  <2>1. usb_task_state' # WAIT_RESET_COMPLETE
    BY <1>14 DEF TaskInitialize, Task
  <2>2. QED
    BY <2>1
<1>15. CASE TaskAttached
  <2>1. usb_task_state' # WAIT_RESET_COMPLETE
    BY <1>15 DEF TaskAttached, Task
  <2>2. QED
    BY <2>1
<1>16. CASE TaskSettle
  <2>1. usb_task_state' # WAIT_RESET_COMPLETE
    BY <1>16 DEF TaskSettle, Task
  <2>2. QED
    BY <2>1
<1>17. CASE TaskResetDevice
  <2>1. busrst' = TRUE /\ busevent' = FALSE /\ irqEvent' = irqEvent
    BY <1>17 DEF TaskResetDevice, Task
  <2>2. ~irqEvent
    BY <1>17 DEF TaskResetDevice, Task, Inv, EventRead
  <2>3. QED
    BY <2>1, <2>2
<1>18. CASE TaskWaitReset
  <2>1. usb_task_state = WAIT_RESET_COMPLETE
    BY <1>18 DEF TaskWaitReset, Task
  <2>2. UNCHANGED <<seen, changes, busrst, busevent, irqEvent, devAddr>>
    BY <1>18 DEF TaskWaitReset, Task, NoTransfer
  <2>3. QED
    BY <2>1, <2>2 DEF Inv
<1>19. CASE TaskWaitSof
  <2>1. usb_task_state' # WAIT_RESET_COMPLETE
    BY <1>19 DEF TaskWaitSof, Task
  <2>2. QED
    BY <2>1
<1>20. CASE TaskGetDescriptor
  <2>1. usb_task_state' # WAIT_RESET_COMPLETE
    BY <1>20 DEF TaskGetDescriptor, Task
  <2>2. QED
    BY <2>1
<1>21. CASE TaskAddressing
  <2>1. usb_task_state' # WAIT_RESET_COMPLETE
    BY <1>21 DEF TaskAddressing, Task
  <2>2. QED
    BY <2>1
<1>22. CASE NoAddressLeft
  <2>1. usb_task_state' # WAIT_RESET_COMPLETE
    BY <1>22 DEF NoAddressLeft, Task
  <2>2. QED
    BY <2>1
<1>23. CASE ProbesFail
  <2>1. usb_task_state' # WAIT_RESET_COMPLETE
    BY <1>23 DEF ProbesFail, Task
  <2>2. QED
    BY <2>1
<1>24. CASE ProbeStops
  <2>1. usb_task_state' # WAIT_RESET_COMPLETE
    BY <1>24 DEF ProbeStops, Task
  <2>2. QED
    BY <2>1
<1>25. CASE ProbeSucceeds
  <2>1. usb_task_state' # WAIT_RESET_COMPLETE
    BY <1>25 DEF ProbeSucceeds, Task
  <2>2. QED
    BY <2>1
<1>26. CASE TaskIdle
  BY <1>26 DEF Inv, TaskIdle, Task, NoTransfer
<1>27. CASE StartRunning
  BY <1>27 DEF Inv, StartRunning, AfterTask
<1>28. CASE PollDevice
  BY <1>28 DEF Inv, PollDevice, AfterTask
<1>29. CASE PollRepeats
  BY <1>29 DEF Inv, PollRepeats, AfterTask
<1>30. CASE PollEnds
  BY <1>30 DEF Inv, PollEnds, AfterTask
<1>31. CASE StayInError
  BY <1>31 DEF Inv, StayInError, AfterTask
<1>32. CASE NotRunning
  BY <1>32 DEF Inv, NotRunning, AfterTask
<1>33. CASE UNCHANGED vars
  BY <1>33 DEF Inv, vars
<1>34. QED
  BY <1>1, <1>2, <1>3, <1>4, <1>5, <1>6, <1>7, <1>8, <1>9, <1>10, <1>11, <1>12,
       <1>13, <1>14, <1>15, <1>16, <1>17, <1>18, <1>19, <1>20, <1>21, <1>22, <1>23,
       <1>24, <1>25, <1>26, <1>27, <1>28, <1>29, <1>30, <1>31, <1>32, <1>33 DEF
       Next, Bus, Firmware, USB_Task

(* Every step keeps the address right, resting on the speed and the reset.       *)
LEMMA AddressStep ==
  ASSUME Inv, [Next]_vars
  PROVE  AddressIsRight'
<1> USE DEF Early, Talking, AddressIsRight, Reachable, deviceVars, hostVars,
        irqVars, INITIALIZE, WAIT_FOR_DEVICE, ILLEGAL, ATTACHED, SETTLE,
        RESET_DEVICE, WAIT_RESET_COMPLETE, WAIT_SOF, GET_DEVICE_DESCRIPTOR_SIZE,
        ADDRESSING, CONFIGURING, RUNNING, ERROR
<1>1. CASE PlugIn
  <2>1. changes \in Nat /\ seen \in Nat /\ seen <= changes /\ seen' = seen
        /\ changes' = changes + 1
    BY <1>1 DEF Inv, TypeOK, TaskOK, PlugIn, Change
  <2>2. seen' # changes'
    BY <2>1
  <2>3. QED
    BY <2>2
<1>2. CASE Unplug
  <2>1. changes \in Nat /\ seen \in Nat /\ seen <= changes /\ seen' = seen
        /\ changes' = changes + 1
    BY <1>2 DEF Inv, TypeOK, TaskOK, Unplug, Change
  <2>2. seen' # changes'
    BY <2>1
  <2>3. QED
    BY <2>2
<1>3. CASE BusResetEnds
  <2>1. busrst /\ busrst' = FALSE
        /\ UNCHANGED <<line, lowspeed, usb_task_state, tmp_addr, seen, changes, pc>>
    BY <1>3 DEF BusResetEnds
  <2>2. seen = changes => usb_task_state \notin Talking
    BY <2>1 DEF Inv
  <2>3. QED
    BY <2>1, <2>2
<1>4. CASE ResetDetected
  <2>1. UNCHANGED <<line, lowspeed, busrst, devAddr, usb_task_state, tmp_addr,
                    pc, seen, changes>>
    BY <1>4 DEF ResetDetected
  <2>2. QED
    BY <2>1 DEF Inv
<1>5. CASE DeviceMakesReport
  <2>1. UNCHANGED <<line, lowspeed, busrst, devAddr, usb_task_state, tmp_addr,
                    pc, seen, changes>>
    BY <1>5 DEF DeviceMakesReport, MakeReport
  <2>2. QED
    BY <2>1 DEF Inv
<1>6. CASE ChipTransaction
  BY <1>6 DEF Inv, ChipTransaction, Transaction, NoAnswer, Nak, Data, AckLost, DataLost
<1>7. CASE ReadHirq
  BY <1>7 DEF Inv, ReadHirq
<1>8. CASE ProbeBus
  <2>1. CASE Ignored
    <3>1. usb_task_state = WAIT_RESET_COMPLETE /\ ProbedState = WAIT_RESET_COMPLETE
          /\ pc = "probe"
      BY <1>8, <2>1, Probed DEF ProbeBus, Ignored, ProbedState, BusSample
    <3>2. usb_task_state' = IF irqEvent THEN WAIT_SOF ELSE WAIT_RESET_COMPLETE
      BY <1>8, <3>1 DEF ProbeBus
    <3>3. UNCHANGED <<line, lowspeed, busrst, devAddr, seen, changes>>
      BY <1>8, <2>1 DEF ProbeBus, MAX_busprobe, ProbedSpeed, Ignored
    <3>4. seen = changes /\ irqEvent => line = Speed /\ ~busrst /\ devAddr = 0
      BY <3>1 DEF Inv, SpeedIsRight, ResetIsOver
    <3>5. QED
      BY <3>2, <3>3, <3>4 DEF Speed
  <2>2. CASE ~Ignored
    <3>1. ProbedState \in {INITIALIZE, WAIT_FOR_DEVICE, ILLEGAL, ATTACHED}
      BY <2>2, Probed
    <3>2. usb_task_state' \notin Talking
      BY <1>8, <3>1 DEF ProbeBus
    <3>3. QED
      BY <3>2
  <2>3. QED
    BY <2>1, <2>2
<1>9. CASE AckIrq
  BY <1>9 DEF Inv, AckIrq
<1>10. CASE NoIrq
  BY <1>10 DEF Inv, NoIrq, NextTick
<1>11. CASE ResetChip
  <2>1. usb_task_state' \notin Talking
    BY <1>11 DEF ResetChip, Inv, Resetting
  <2>2. QED
    BY <2>1
<1>12. CASE InitProbe
  <2>1. usb_task_state \in Early
    BY <1>12 DEF Inv, InitProbe, Resetting
  <2>2. ~Ignored
    BY <2>1 DEF Ignored
  <2>3. ProbedState \in {INITIALIZE, WAIT_FOR_DEVICE, ILLEGAL, ATTACHED}
        /\ usb_task_state' = ProbedState
    BY <1>12, <2>2, Probed DEF InitProbe
  <2>4. QED
    BY <2>3
<1>13. CASE FinishInit
  <2>1. usb_task_state' \notin Talking
    BY <1>13 DEF FinishInit, Inv, Resetting
  <2>2. QED
    BY <2>1
<1>14. CASE TaskInitialize
  <2>1. usb_task_state' \notin Talking
    BY <1>14 DEF TaskInitialize, Task
  <2>2. QED
    BY <2>1
<1>15. CASE TaskAttached
  <2>1. usb_task_state' \notin Talking
    BY <1>15 DEF TaskAttached, Task
  <2>2. QED
    BY <2>1
<1>16. CASE TaskSettle
  <2>1. usb_task_state' \notin Talking
    BY <1>16 DEF TaskSettle, Task
  <2>2. QED
    BY <2>1
<1>17. CASE TaskResetDevice
  <2>1. usb_task_state' \notin Talking
    BY <1>17 DEF TaskResetDevice, Task
  <2>2. QED
    BY <2>1
<1>18. CASE TaskWaitReset
  <2>1. usb_task_state = WAIT_RESET_COMPLETE /\ pc = "task"
    BY <1>18 DEF TaskWaitReset, Task
  <2>2. UNCHANGED <<line, lowspeed, busrst, devAddr, seen, changes>>
    BY <1>18 DEF TaskWaitReset, Task, NoTransfer
  <2>3. usb_task_state' = IF busrst THEN WAIT_RESET_COMPLETE ELSE WAIT_SOF
    BY <1>18 DEF TaskWaitReset
  <2>4. seen = changes /\ ~busrst => line = Speed /\ devAddr = 0
    BY <2>1 DEF Inv, SpeedIsRight, ResetIsOver
  <2>5. QED
    BY <2>2, <2>3, <2>4 DEF Speed
<1>19. CASE TaskWaitSof
  BY <1>19 DEF Inv, TaskWaitSof, Task, NoTransfer
<1>20. CASE TaskGetDescriptor
  BY <1>20 DEF Inv, TaskGetDescriptor, Task
<1>21. CASE TaskAddressing
  <2>1. usb_task_state = ADDRESSING /\ usb_task_state' \in {CONFIGURING, ERROR}
    BY <1>21 DEF TaskAddressing, Task
  <2>2. usb_task_state' = CONFIGURING => devAddr' = tmp_addr'
    BY <1>21 DEF TaskAddressing
  <2>3. UNCHANGED <<line, lowspeed, busrst, changes, seen>>
    BY <1>21 DEF TaskAddressing, Task
  <2>4. QED
    BY <2>1, <2>2, <2>3 DEF Inv
<1>22. CASE NoAddressLeft
  <2>1. usb_task_state' \notin Talking
    BY <1>22 DEF NoAddressLeft, Task
  <2>2. QED
    BY <2>1
<1>23. CASE ProbesFail
  <2>1. usb_task_state' \notin Talking
    BY <1>23 DEF ProbesFail, Task
  <2>2. QED
    BY <2>1
<1>24. CASE ProbeStops
  <2>1. usb_task_state' \notin Talking
    BY <1>24 DEF ProbeStops, Task
  <2>2. QED
    BY <2>1
<1>25. CASE ProbeSucceeds
  <2>1. usb_task_state = CONFIGURING /\ usb_task_state' = RUNNING
    BY <1>25 DEF ProbeSucceeds, Task
  <2>2. UNCHANGED <<line, lowspeed, busrst, devAddr, tmp_addr, changes, seen>>
    BY <1>25 DEF ProbeSucceeds, Task
  <2>3. QED
    BY <2>1, <2>2 DEF Inv
<1>26. CASE TaskIdle
  BY <1>26 DEF Inv, TaskIdle, Task, NoTransfer
<1>27. CASE StartRunning
  BY <1>27 DEF Inv, StartRunning, AfterTask
<1>28. CASE PollDevice
  BY <1>28 DEF Inv, PollDevice, AfterTask
<1>29. CASE PollRepeats
  BY <1>29 DEF Inv, PollRepeats, AfterTask
<1>30. CASE PollEnds
  BY <1>30 DEF Inv, PollEnds, AfterTask
<1>31. CASE StayInError
  BY <1>31 DEF Inv, StayInError, AfterTask
<1>32. CASE NotRunning
  BY <1>32 DEF Inv, NotRunning, AfterTask
<1>33. CASE UNCHANGED vars
  BY <1>33 DEF Inv, vars
<1>34. QED
  BY <1>1, <1>2, <1>3, <1>4, <1>5, <1>6, <1>7, <1>8, <1>9, <1>10, <1>11, <1>12,
       <1>13, <1>14, <1>15, <1>16, <1>17, <1>18, <1>19, <1>20, <1>21, <1>22, <1>23,
       <1>24, <1>25, <1>26, <1>27, <1>28, <1>29, <1>30, <1>31, <1>32, <1>33 DEF
       Next, Bus, Firmware, USB_Task


-----------------------------------------------------------------------------
(* Initially nothing is taken, seen or reset.                                      *)
LEMMA InitInv == Init => Inv
<1> SUFFICES ASSUME Init PROVE Inv
  OBVIOUS
<1> USE DEF Init, TransferInit
<1>1. WireOK
  BY LimitAssumption DEF WireOK, Kinds, HID_K, HID_M, Other, Unreset, hrSUCCESS, hrNAK,
       hrTOGERR, hrTIMEOUT
<1>2. FlagsOK
  BY DEF FlagsOK
<1>3. TaskOK
  BY LimitAssumption, ClockAssumption DEF TaskOK, Time, Slot, NoDevice, Working,
       INITIALIZE, HID_K, HID_M
<1>4. TableInOrder
  <2>1. Taken = {}
    BY DEF Taken, NoDevice
  <2>2. Taken = 1..0 /\ 0 \in 0..(NumDevices - 1)
    BY <2>1, LimitAssumption
  <2>3. QED
    BY <2>2 DEF TableInOrder
<1>5. LastSlot /\ PolledIsNewest
  BY DEF LastSlot, PolledIsNewest, INITIALIZE, CONFIGURING, RUNNING
<1>6. Leaving /\ Resetting /\ EventRead
  BY DEF Leaving, Resetting, Early, EventRead
<1>7. SpeedIsRight /\ ResetIsOver /\ AddressIsRight
  BY DEF SpeedIsRight, ResetIsOver, AddressIsRight, INITIALIZE, ATTACHED,
       WAIT_RESET_COMPLETE, WAIT_SOF, GET_DEVICE_DESCRIPTOR_SIZE, ADDRESSING,
       CONFIGURING, RUNNING
<1>8. QED
  BY <1>1, <1>2, <1>3, <1>4, <1>5, <1>6, <1>7 DEF Inv, TypeOK

(* The steps together: the invariant is inductive.                                *)
LEMMA InvStep == Inv /\ [Next]_vars => Inv'
<1>1. SUFFICES ASSUME Inv, [Next]_vars PROVE Inv'
  OBVIOUS
<1>2. TypeOK'
  BY <1>1, WireStep, FlagsStep, TaskStep DEF TypeOK
<1>3. QED
  BY <1>1, <1>2, TableStep, ControlStep, SpeedStep, ResetStep, AddressStep DEF Inv

(* The firmware's invariant, whatever is plugged in, lost or counted.            *)
THEOREM Invariance == Spec => []Inv
BY InitInv, InvStep, PTL DEF Spec

(* Every variable of the firmware, the chip and the device stays in its range:   *)
(* in particular the retry counters below their limits and the reports in the     *)
(* FIFO below the number made.                                                  *)
THEOREM TypeCorrect == Spec => []TypeOK
<1>1. Inv => TypeOK
  BY DEF Inv
<1>2. QED
  BY <1>1, Invariance, PTL

(* main() polls the device just configured, with the class of its slot, for any   *)
(* number of slots and any history of devices plugged in and reset.               *)
THEOREM PollsNewest == Spec => []PolledIsNewest
<1>1. Inv => PolledIsNewest
  BY DEF Inv
<1>2. QED
  BY <1>1, Invariance, PTL

(* Unless a change of the bus is still unseen, the program speaks to the device   *)
(* at its address and at its speed.                                             *)
THEOREM AddressCorrect == Spec => []AddressIsRight
<1>1. Inv => AddressIsRight
  BY DEF Inv
<1>2. QED
  BY <1>1, Invariance, PTL
-----------------------------------------------------------------------------
(* The reports on their way.  One is in the FIFO only between the end of its     *)
(* transaction and the end of the poll.                                        *)
FifoFull == rcvfifo # 0 <=> hxfr = "done" /\ hrsl = hrSUCCESS

PollsOnlyRunning ==
  /\ hxfr # "idle" => pc = "poll"
  /\ pc = "poll" => usb_task_state = RUNNING

(* The toggles differ exactly if the program has taken the last report the       *)
(* device sent, which then is a repetition or gone.                            *)
InSequence ==
  usb_task_state = RUNNING /\ Reachable(hid_addr) =>
    IF rcvfifo = 0 THEN devReport = 0 => devToggle = rcvToggle
    ELSE devToggle # rcvToggle <=> devReport # rcvfifo

PInv == Inv /\ FifoFull /\ PollsOnlyRunning /\ InSequence

(* Sequences of one report or two.                                             *)
LEMMA Pair ==
  ASSUME NEW a \in Nat, NEW b \in Nat
  PROVE  /\ Append(<<a>>, b) = <<a, b>>
         /\ <<a>> \o <<b>> = <<a, b>>
         /\ SubSeq(<<a>>, 1, 1) = <<a>>
         /\ SubSeq(<<a, b>>, 1, 1) = <<a>>
<1>1. <<>> \in Seq(Nat) /\ <<a>> \in Seq(Nat) /\ <<a, b>> \in Seq(Nat)
      /\ Len(<<a>>) = 1 /\ Len(<<a, b>>) = 2
  OBVIOUS
<1>2. Append(<<a>>, b) = <<a, b>>
  <2>1. \A i \in 1..2 : Append(<<a>>, b)[i] = <<a, b>>[i]
    BY <1>1, AppendProperties
  <2>2. Append(<<a>>, b) \in Seq(Nat) /\ Len(Append(<<a>>, b)) = 2
    BY <1>1, AppendProperties
  <2>3. \A s, t \in Seq(Nat) :
          Len(s) = Len(t) /\ (\A i \in 1..Len(s) : s[i] = t[i]) => s = t
    BY SeqEqual
  <2>4. QED
    BY <1>1, <2>1, <2>2, <2>3, Zenon
<1>3. <<a>> \o <<b>> = <<a, b>>
  BY <1>1, <1>2, AppendIsConcat
<1>4. SubSeq(<<a>>, 1, 1) = <<a>>
  BY <1>1, SubSeqFull
<1>5. SubSeq(<<a, b>>, 1, 1) = <<a>>
  <2>1. <<b>> \in Seq(Nat)
    OBVIOUS
  <2>2. SubSeq(<<a>> \o <<b>>, 1, 1) = SubSeq(<<a>>, 1, 1)
    BY <1>1, <2>1, SubSeqOfConcat1
  <2>3. QED
    BY <1>3, <1>4, <2>2
<1>6. QED
  BY <1>2, <1>3, <1>4, <1>5

(* What is left when the second of two is lost, added or the first one taken.    *)
LEMMA Waiting ==
  ASSUME NEW a \in Nat, NEW b \in Nat,
         NEW s \in {<<>>, <<a>>}, NEW t \in {<<>>, <<b>>}
  PROVE  /\ s \o <<>> = s /\ <<>> \o t = t
         /\ Len(s) \in 0..Len(s \o t) /\ SubSeq(s \o t, 1, Len(s)) = s
         /\ 0 \in 0..Len(s \o t) /\ SubSeq(s \o t, 1, 0) = <<>>
         /\ Append(s \o <<>>, b) = s \o <<b>>
         /\ <<a>> \o t # <<>> /\ Head(<<a>> \o t) = a /\ Tail(<<a>> \o t) = t
<1>1. /\ <<>> \o <<>> = <<>> /\ <<a>> \o <<>> = <<a>> /\ <<>> \o <<b>> = <<b>>
      /\ <<a>> \o <<b>> = <<a, b>>
  <2>1. <<>> \o <<>> = <<>>
    OBVIOUS
  <2>2. <<a>> \o <<>> = <<a>>
    OBVIOUS
  <2>3. <<>> \o <<b>> = <<b>>
    OBVIOUS
  <2>4. <<a>> \o <<b>> = <<a, b>>
    BY Pair
  <2>5. QED
    BY <2>1, <2>2, <2>3, <2>4, Zenon
<1>2. /\ Append(<<>>, b) = <<b>> /\ Append(<<a>>, b) = <<a, b>> /\ Head(<<a>>) = a
      /\ Tail(<<a>>) = <<>> /\ Head(<<a, b>>) = a /\ Tail(<<a, b>>) = <<b>>
      /\ <<a>> # <<>> /\ <<a, b>> # <<>>
  <2>1. Append(<<>>, b) = <<b>>
    OBVIOUS
  <2>2. Append(<<a>>, b) = <<a, b>>
    BY Pair
  <2>3. Head(<<a>>) = a
    OBVIOUS
  <2>4. Tail(<<a>>) = <<>>
    OBVIOUS
  <2>5. Head(<<a, b>>) = a
    OBVIOUS
  <2>6. Tail(<<a, b>>) = <<b>>
    OBVIOUS
  <2>7. <<a>> # <<>>
    OBVIOUS
  <2>8. <<a, b>> # <<>>
    OBVIOUS
  <2>9. QED
    BY <2>1, <2>2, <2>3, <2>4, <2>5, <2>6, <2>7, <2>8, Zenon
<1>3. /\ Len(<<>>) = 0 /\ Len(<<a>>) = 1 /\ Len(<<b>>) = 1
      /\ Len(<<a, b>>) = 2
  <2>1. Len(<<>>) = 0
    OBVIOUS
  <2>2. Len(<<a>>) = 1
    OBVIOUS
  <2>3. Len(<<b>>) = 1
    OBVIOUS
  <2>4. Len(<<a, b>>) = 2
    OBVIOUS
  <2>5. QED
    BY <2>1, <2>2, <2>3, <2>4, Zenon
<1>4. /\ SubSeq(<<>>, 1, 0) = <<>> /\ SubSeq(<<a>>, 1, 0) = <<>> /\ SubSeq(<<b>>, 1, 0) = <<>>
      /\ SubSeq(<<a, b>>, 1, 0) = <<>> /\ SubSeq(<<a>>, 1, 1) = <<a>> /\ SubSeq(<<a, b>>, 1, 1) = <<a>>
  <2>1. SubSeq(<<>>, 1, 0) = <<>>
    OBVIOUS
  <2>2. SubSeq(<<a>>, 1, 0) = <<>>
    OBVIOUS
  <2>3. SubSeq(<<b>>, 1, 0) = <<>>
    OBVIOUS
  <2>4. SubSeq(<<a, b>>, 1, 0) = <<>>
    OBVIOUS
  <2>5. SubSeq(<<a>>, 1, 1) = <<a>>
    BY Pair
  <2>6. SubSeq(<<a, b>>, 1, 1) = <<a>>
    BY Pair
  <2>7. QED
    BY <2>1, <2>2, <2>3, <2>4, <2>5, <2>6, Zenon
<1>5. 0 \in 0..0 /\ 0 \in 0..1 /\ 0 \in 0..2 /\ 1 \in 0..1 /\ 1 \in 0..2
  OBVIOUS
<1>6. CASE s = <<>> /\ t = <<>>
  BY <1>1, <1>2, <1>3, <1>4, <1>5, <1>6, Zenon
<1>7. CASE s = <<>> /\ t = <<b>>
  BY <1>1, <1>2, <1>3, <1>4, <1>5, <1>7, Zenon
<1>8. CASE s = <<a>> /\ t = <<>>
  BY <1>1, <1>2, <1>3, <1>4, <1>5, <1>8, Zenon
<1>9. CASE s = <<a>> /\ t = <<b>>
  BY <1>1, <1>2, <1>3, <1>4, <1>5, <1>9, Zenon
<1>10. QED
  BY <1>6, <1>7, <1>8, <1>9, Zenon

LEMMA InFlight ==
  ASSUME TypeOK
  PROVE  /\ rcvfifo \in Nat /\ devReport \in Nat
         /\ InFifo \in {<<>>, <<rcvfifo>>} /\ InDevice \in {<<>>, <<devReport>>}
BY LimitAssumption DEF TypeOK, WireOK, InFifo, InDevice

(* Steps that do not touch what the reports depend on.                          *)
LEMMA Untouched ==
  ASSUME UNCHANGED <<usb_task_state, line, lowspeed, busrst, devAddr, devToggle>>,
         UNCHANGED <<devReport, made, hid_addr, rcvToggle, rcvfifo, delivered, keycode>>
  PROVE  UNCHANGED Port!vars /\ (InSequence => InSequence')
<1>1. Reachable(hid_addr)' <=> Reachable(hid_addr)
  BY DEF Reachable
<1>2. InFifo' = InFifo /\ InDevice' = InDevice
  BY <1>1 DEF InFifo, InDevice
<1>3. UNCHANGED Port!vars
  BY <1>1, <1>2 DEF Port!vars
<1>4. InSequence => InSequence'
  BY <1>1 DEF InSequence
<1>5. QED
  BY <1>3, <1>4

LEMMA NotInUse ==
  ASSUME usb_task_state # RUNNING, usb_task_state' # RUNNING,
         UNCHANGED <<made, delivered, keycode>>
  PROVE  UNCHANGED Port!vars /\ InSequence'
<1>1. UNCHANGED Port!vars
  BY DEF Port!vars
<1>2. InSequence'
  BY DEF InSequence
<1>3. QED
  BY <1>1, <1>2

(* What a device was polled for goes away with it, or with the task that polled. *)
LEMMA GoesAway ==
  ASSUME PInv, usb_task_state = RUNNING, ~Reachable(hid_addr)' \/ usb_task_state' # RUNNING,
         usb_task_state' = RUNNING \/ rcvfifo = 0,
         UNCHANGED <<made, rcvfifo, delivered, keycode>>
  PROVE  [Port!Next]_(Port!vars) /\ InSequence'
<1>1. /\ rcvfifo \in Nat /\ devReport \in Nat
      /\ InFifo \in {<<>>, <<rcvfifo>>} /\ InDevice \in {<<>>, <<devReport>>}
  BY InFlight DEF PInv, Inv
<1>2. InSequence'
  BY DEF InSequence
<1>3. InFifo' = InFifo /\ (rcvfifo = 0 => InFifo = <<>>)
  BY DEF InFifo
<1>4. (IF usb_task_state = RUNNING THEN InFifo \o InDevice ELSE <<>>)' = InFifo
  <2>1. CASE usb_task_state' = RUNNING
    <3>1. InDevice' = <<>>
      BY <2>1 DEF InDevice
    <3>2. InFifo \o <<>> = InFifo
      BY <1>1, Waiting
    <3>3. QED
      BY <1>3, <2>1, <3>1, <3>2
  <2>2. CASE usb_task_state' # RUNNING
    BY <1>3, <2>2
  <2>3. QED
    BY <2>1, <2>2
<1>5. CASE Reachable(hid_addr)
  <2>1. /\ Len(InFifo) \in 0..Len(InFifo \o InDevice)
        /\ SubSeq(InFifo \o InDevice, 1, Len(InFifo)) = InFifo
    BY <1>1, Waiting
  <2>2. Port!Close
    BY <1>4, <1>5, <2>1 DEF Port!Close
  <2>3. QED
    BY <1>2, <2>2 DEF Port!Next
<1>6. CASE ~Reachable(hid_addr)
  <2>1. InDevice = <<>> /\ InFifo \o <<>> = InFifo
    BY <1>1, <1>6, Waiting DEF InDevice
  <2>2. UNCHANGED Port!vars
    BY <1>4, <1>6, <2>1 DEF Port!vars
  <2>3. QED
    BY <1>2, <2>2
<1>7. QED
  BY <1>5, <1>6

(* A change of the bus.                                                        *)
LEMMA ChangeImplements ==
  ASSUME PInv, Change
  PROVE  [Port!Next]_(Port!vars) /\ InSequence'
<1>1. ~Reachable(hid_addr)'
  BY LimitAssumption DEF Change, Reachable, Unreset, PInv, Inv, TypeOK, WireOK
<1>2. /\ usb_task_state' = usb_task_state
      /\ UNCHANGED <<made, rcvfifo, delivered, keycode>>
  BY DEF Change, hostVars, pollVars, outputVars
<1>3. QED
  BY <1>1, <1>2, GoesAway, NotInUse

LEMMA ResetEndImplements ==
  ASSUME PInv, BusResetEnds
  PROVE  [Port!Next]_(Port!vars) /\ InSequence'
<1>1. /\ usb_task_state' = usb_task_state
      /\ UNCHANGED <<made, rcvfifo, delivered, keycode>>
  BY DEF BusResetEnds, hostVars, pollVars, outputVars
<1>2. ASSUME usb_task_state = RUNNING
      PROVE  ~Reachable(hid_addr)'
  <2>1. hid_addr # 0 /\ hid_addr' = hid_addr
    BY <1>2, LimitAssumption DEF PInv, Inv, PolledIsNewest, Taken, Slot, BusResetEnds
  <2>2. line' = line /\ (line \in {"full", "low"} => devAddr' = 0)
    BY DEF BusResetEnds
  <2>3. QED
    BY <2>1, <2>2 DEF Reachable
<1>3. QED
  BY <1>1, <1>2, GoesAway, NotInUse

(* A new report joins those that wait.                                         *)
LEMMA MakeImplements ==
  ASSUME PInv, DeviceMakesReport
  PROVE  Port!Next /\ InSequence'
<1>1. /\ usb_task_state = RUNNING /\ usb_task_state' = RUNNING
      /\ Reachable(hid_addr) /\ devReport = 0 /\ made < Len(Reports)
      /\ made' = made + 1 /\ devReport' = made'
      /\ UNCHANGED <<hid_addr, devToggle, rcvToggle, rcvfifo, delivered, keycode>>
  BY DEF DeviceMakesReport, MakeReport, hostVars, pollVars, outputVars
<1>2. Reachable(hid_addr)'
  BY <1>1 DEF DeviceMakesReport, MakeReport, Reachable
<1>3. made \in Nat /\ made' \in Nat /\ rcvfifo \in Nat /\ rcvfifo <= made
  BY <1>1, LimitAssumption DEF PInv, Inv, TypeOK, WireOK
<1>4. rcvfifo = 0 => devToggle = rcvToggle
  BY <1>1 DEF PInv, InSequence
<1>5. rcvfifo # 0 => devToggle # rcvToggle
  BY <1>1 DEF PInv, InSequence
<1>6. InDevice = <<>> /\ InDevice' = <<made'>> /\ InFifo' = InFifo
  BY <1>1, <1>2, <1>3, <1>4 DEF InDevice, InFifo
<1>7. InSequence'
  BY <1>1, <1>3, <1>4, <1>5 DEF InSequence
<1>8. InFifo \in {<<>>, <<rcvfifo>>}
  BY DEF InFifo
<1>9. Append(InFifo \o <<>>, made') = InFifo \o <<made'>>
  <2>1. PICK b \in Nat : b = made'
    BY <1>3
  <2>2. Append(InFifo \o <<>>, b) = InFifo \o <<b>>
    BY <1>3, <1>8, Waiting
  <2>3. QED
    BY <2>1, <2>2
<1>10. Port!Make
  BY <1>1, <1>2, <1>6, <1>9 DEF Port!Make
<1>11. QED
  BY <1>7, <1>10 DEF Port!Next

(* Within the chip a report only moves on; a repetition is nothing new.          *)
LEMMA TransactionImplements ==
  ASSUME PInv, ChipTransaction
  PROVE  UNCHANGED Port!vars /\ InSequence'
<1>1. /\ UNCHANGED <<usb_task_state, line, lowspeed, busrst, devAddr, made, hid_addr>>
      /\ UNCHANGED <<rcvToggle, delivered, keycode>>
  BY DEF ChipTransaction, Transaction, NoAnswer, Nak, Data, AckLost, DataLost, Answer,
         deviceVars, outputVars, hostVars
<1>2. rcvfifo = 0 /\ usb_task_state = RUNNING
  BY DEF PInv, FifoFull, PollsOnlyRunning, ChipTransaction, Transaction, NoAnswer, Nak,
         Data, AckLost, DataLost, Answer
<1>3. /\ devReport \in Nat /\ InFifo = <<>> /\ InDevice \in {<<>>, <<devReport>>}
      /\ devToggle \in 0..1 /\ rcvToggle \in 0..1
  BY <1>2, InFlight DEF InFifo, PInv, Inv, TypeOK, WireOK
<1>4. CASE NoAnswer \/ Nak \/ DataLost
  <2>1. rcvfifo' = rcvfifo /\ devToggle' = devToggle /\ devReport' = devReport
    BY <1>2, <1>4 DEF NoAnswer, Nak, DataLost, Answer, deviceVars
  <2>2. QED
    BY <1>1, <2>1, Untouched DEF PInv
<1>5. CASE Data \/ AckLost
  <2>1. /\ Reachable(hid_addr) /\ devReport # 0
        /\ rcvfifo' = IF devToggle = rcvToggle THEN devReport ELSE 0
        /\ \/ devReport' = 0 /\ devToggle' = 1 - devToggle
           \/ devReport' = devReport /\ devToggle' = devToggle
    BY <1>5 DEF Data, AckLost, Answer, ReceivedReport, deviceVars
  <2>2. Reachable(hid_addr)'
    BY <1>1, <2>1 DEF Reachable
  <2>3. InSequence'
    BY <1>1, <1>3, <2>1 DEF InSequence
  <2>4. CASE devToggle = rcvToggle
    <3>1. InDevice = <<devReport>> /\ InFifo' = <<devReport>> /\ InDevice' = <<>>
      BY <1>2, <2>1, <2>4 DEF InDevice, InFifo
    <3>2. InFifo \o InDevice = (InFifo \o InDevice)'
      BY <1>3, <3>1, Waiting
    <3>3. QED
      BY <1>1, <2>1, <2>2, <2>3, <3>2 DEF Port!vars
  <2>5. CASE devToggle # rcvToggle
    <3>1. InDevice = <<>> /\ InFifo' = <<>>
      BY <1>2, <2>1, <2>5 DEF InDevice, InFifo
    <3>2. InDevice' = <<>>
      BY <1>1, <1>3, <2>1, <2>5 DEF InDevice
    <3>3. QED
      BY <1>1, <1>3, <2>1, <2>2, <2>3, <3>1, <3>2 DEF Port!vars
  <2>6. QED
    BY <2>4, <2>5
<1>6. QED
  BY <1>4, <1>5 DEF ChipTransaction, Transaction

(* A probe takes the task out of RUNNING.                                      *)
LEMMA ProbeImplements ==
  ASSUME PInv, ProbeBus \/ InitProbe
  PROVE  [Port!Next]_(Port!vars) /\ InSequence'
<1>1. usb_task_state' # RUNNING
  BY Probed DEF ProbeBus, InitProbe, INITIALIZE, WAIT_FOR_DEVICE, ILLEGAL, ATTACHED,
       WAIT_RESET_COMPLETE, RUNNING
<1>2. rcvfifo = 0
  BY DEF PInv, FifoFull, PollsOnlyRunning, ProbeBus, InitProbe
<1>3. UNCHANGED <<made, rcvfifo, delivered, keycode>>
  BY DEF ProbeBus, InitProbe, deviceVars, pollVars, outputVars
<1>4. QED
  BY <1>1, <1>2, <1>3, GoesAway, NotInUse

LEMMA ResetChipImplements ==
  ASSUME PInv, ResetChip
  PROVE  UNCHANGED Port!vars /\ InSequence'
<1>1. usb_task_state # RUNNING
  BY DEF PInv, Inv, Resetting, Early, ResetChip, INITIALIZE, WAIT_FOR_DEVICE, ILLEGAL,
       ATTACHED, SETTLE, RESET_DEVICE, RUNNING
<1>2. /\ usb_task_state' = usb_task_state
      /\ UNCHANGED <<made, delivered, keycode>>
  BY DEF ResetChip, deviceVars, outputVars, hostVars
<1>3. QED
  BY <1>1, <1>2, NotInUse

(* A device that is configured starts without reports, in the toggle expected.   *)
LEMMA ConfiguredImplements ==
  ASSUME PInv, ProbeSucceeds
  PROVE  Port!Next /\ InSequence'
<1>1. /\ usb_task_state = CONFIGURING /\ usb_task_state' = RUNNING /\ pc = "task"
      /\ Reachable(tmp_addr) /\ hid_addr' = tmp_addr
      /\ devToggle' = 0 /\ devReport' = 0 /\ rcvToggle' = 0 /\ rcvfifo' = rcvfifo
      /\ UNCHANGED <<line, lowspeed, busrst, devAddr, made, delivered, keycode>>
  BY DEF ProbeSucceeds, Task, Drivable, FillSlot, outputVars
<1>2. rcvfifo = 0
  BY <1>1 DEF PInv, FifoFull, PollsOnlyRunning
<1>3. Reachable(hid_addr)'
  BY <1>1 DEF Reachable
<1>4. InFifo' = <<>> /\ InDevice' = <<>> /\ usb_task_state # RUNNING
  BY <1>1, <1>2 DEF InFifo, InDevice, CONFIGURING, RUNNING
<1>5. <<>> \o <<>> = <<>>
  OBVIOUS
<1>6. Port!Open
  BY <1>1, <1>3, <1>4, <1>5 DEF Port!Open
<1>7. InSequence'
  BY <1>1, <1>2 DEF InSequence
<1>8. QED
  BY <1>6, <1>7 DEF Port!Next

LEMMA TaskImplements ==
  ASSUME PInv, USB_Task
  PROVE  [Port!Next]_(Port!vars) /\ InSequence'
<1>1. CASE ProbeSucceeds
  BY <1>1, ConfiguredImplements
<1>2. CASE TaskIdle
  <2>1. /\ UNCHANGED <<usb_task_state, line, lowspeed, busrst, devAddr, devToggle>>
        /\ UNCHANGED <<devReport, made, hid_addr, rcvToggle, rcvfifo, delivered, keycode>>
    BY <1>2 DEF TaskIdle, Task, NoTransfer, pollVars, outputVars
  <2>2. QED
    BY <2>1, Untouched DEF PInv
<1>3. CASE ~ProbeSucceeds /\ ~TaskIdle
  <2>1. /\ usb_task_state # RUNNING /\ usb_task_state' # RUNNING
        /\ UNCHANGED <<made, delivered, keycode>>
    BY <1>3 DEF USB_Task, TaskInitialize, TaskAttached, TaskSettle, TaskResetDevice,
         TaskWaitReset, TaskWaitSof, TaskGetDescriptor, TaskAddressing, NoAddressLeft,
         ProbesFail, ProbeStops, Task, outputVars, INITIALIZE, WAIT_FOR_DEVICE, ATTACHED,
         SETTLE, RESET_DEVICE, WAIT_RESET_COMPLETE, WAIT_SOF, GET_DEVICE_DESCRIPTOR_SIZE,
         ADDRESSING, CONFIGURING, RUNNING, ERROR
  <2>2. QED
    BY <2>1, NotInUse
<1>4. QED
  BY <1>1, <1>2, <1>3

(* A poll that succeeds hands over the first report that waits.                 *)
LEMMA PollImplements ==
  ASSUME PInv, PollEnds
  PROVE  [Port!Next]_(Port!vars) /\ InSequence'
<1>1. /\ usb_task_state' = usb_task_state /\ pc = "poll"
      /\ UNCHANGED <<line, lowspeed, busrst, devAddr, devToggle, devReport, made, hid_addr>>
  BY DEF PollEnds, AfterTask, deviceVars, hostVars
<1>2. CASE PollFails /\ UNCHANGED outputVars
  BY <1>1, <1>2, Untouched DEF PInv, PollFails, outputVars
<1>3. CASE PollSucceeds(device)
  <2>1. /\ hxfr = "done" /\ hrsl = hrSUCCESS
        /\ rcvfifo' = 0 /\ rcvToggle' = 1 - rcvToggle /\ delivered' = rcvfifo
        /\ keycode' \in {keycode, [p \in Player |-> NesKeycodes(p, Reports[rcvfifo])]}
    BY <1>3 DEF PollSucceeds, SaveToggle
  <2>2. usb_task_state = RUNNING /\ rcvfifo # 0
    BY <1>1, <2>1 DEF PInv, FifoFull, PollsOnlyRunning
  <2>3. /\ rcvfifo \in Nat /\ devReport \in Nat /\ InDevice \in {<<>>, <<devReport>>}
        /\ rcvfifo \in 1..Len(Reports) /\ rcvToggle \in 0..1 /\ devToggle \in 0..1
    BY <2>2, InFlight, LimitAssumption DEF PInv, Inv, TypeOK, WireOK
  <2>4. Reachable(hid_addr)' <=> Reachable(hid_addr)
    BY <1>1 DEF Reachable
  <2>5. Reachable(hid_addr) => (devToggle # rcvToggle <=> devReport # rcvfifo)
    BY <2>2 DEF PInv, InSequence
  <2>6. InFifo = <<rcvfifo>> /\ InFifo' = <<>>
    BY <2>1, <2>2 DEF InFifo
  <2>7. InDevice' = InDevice
    BY <1>1, <2>1, <2>2, <2>3, <2>4, <2>5 DEF InDevice
  <2>8. InSequence'
    BY <1>1, <2>1, <2>2, <2>3, <2>4, <2>5 DEF InSequence
  <2>9. /\ <<rcvfifo>> \o InDevice # <<>> /\ Head(<<rcvfifo>> \o InDevice) = rcvfifo
        /\ Tail(<<rcvfifo>> \o InDevice) = InDevice /\ <<>> \o InDevice = InDevice
    BY <2>3, Waiting
  <2>10. keycode' \in {keycode, [r \in DOMAIN Reports |->
                         [p \in Player |-> NesKeycodes(p, Reports[r])]][rcvfifo]}
    <3>1. rcvfifo \in DOMAIN Reports
      BY <2>3, LimitAssumption
    <3>2. QED
      BY <2>1, <3>1
  <2>11. Port!Deliver
    BY <1>1, <2>1, <2>2, <2>4, <2>6, <2>7, <2>9, <2>10 DEF Port!Deliver
  <2>12. QED
    BY <2>8, <2>11 DEF Port!Next
<1>4. QED
  BY <1>2, <1>3 DEF PollEnds

LEMMA FifoStep ==
  ASSUME PInv, [Next]_vars
  PROVE  (FifoFull /\ PollsOnlyRunning)'
<1> USE DEF PInv, FifoFull, PollsOnlyRunning, deviceVars, pollVars, outputVars, hostVars,
        irqVars, mainVars, hrSUCCESS, hrNAK, hrTOGERR, hrTIMEOUT
<1>1. CASE PlugIn \/ Unplug
  BY <1>1 DEF PlugIn, Unplug, Change
<1>2. CASE BusResetEnds \/ ResetDetected \/ DeviceMakesReport
  BY <1>2 DEF BusResetEnds, ResetDetected, DeviceMakesReport, MakeReport
<1>3. CASE ChipTransaction
  BY <1>3 DEF ChipTransaction, Transaction, NoAnswer, Nak, Data, AckLost, DataLost,
       Answer, ReceivedResult, ReceivedReport
<1>4. CASE ReadHirq \/ ProbeBus \/ AckIrq \/ NoIrq
  BY <1>4 DEF ReadHirq, ProbeBus, AckIrq, NoIrq
<1>5. CASE ResetChip \/ InitProbe \/ FinishInit
  BY <1>5 DEF ResetChip, InitProbe, FinishInit
<1>6. CASE USB_Task
  <2>1. pc = "task" /\ pc' = "main" /\ UNCHANGED <<hxfr, hrsl, rcvfifo>>
    BY <1>6 DEF USB_Task, TaskInitialize, TaskAttached, TaskSettle, TaskResetDevice,
         TaskWaitReset, TaskWaitSof, TaskGetDescriptor, TaskAddressing, NoAddressLeft,
         ProbesFail, ProbeStops, ProbeSucceeds, FillSlot, TaskIdle, Task, NoTransfer
  <2>2. QED
    BY <2>1
<1>7. CASE StartRunning \/ StayInError \/ NotRunning
  BY <1>7 DEF StartRunning, StayInError, NotRunning, AfterTask
<1>8. CASE PollDevice
  BY <1>8 DEF PollDevice, AfterTask, StartPoll
<1>9. CASE PollRepeats
  BY <1>9 DEF PollRepeats, AfterTask, RepeatPacket, MayRepeat
<1>10. CASE PollEnds
  BY <1>10 DEF PollEnds, AfterTask, PollFails, PollSucceeds
<1>11. CASE UNCHANGED vars
  BY <1>11 DEF vars
<1>12. QED
  BY <1>1, <1>2, <1>3, <1>4, <1>5, <1>6, <1>7, <1>8, <1>9, <1>10, <1>11
  DEF Next, Bus, Firmware

LEMMA QuietImplements ==
  ASSUME PInv,
         \/ ResetDetected \/ ReadHirq \/ AckIrq \/ NoIrq \/ FinishInit \/ StartRunning
         \/ PollDevice \/ PollRepeats \/ StayInError \/ NotRunning \/ UNCHANGED vars
  PROVE  UNCHANGED Port!vars /\ InSequence'
<1>1. /\ UNCHANGED <<usb_task_state, line, lowspeed, busrst, devAddr, devToggle>>
      /\ UNCHANGED <<devReport, made, hid_addr, rcvToggle, rcvfifo, delivered, keycode>>
  BY DEF ResetDetected, ReadHirq, AckIrq, NoIrq, FinishInit, StartRunning, PollDevice,
         PollRepeats, StayInError, NotRunning, vars, AfterTask, StartPoll, RepeatPacket,
         deviceVars, pollVars, outputVars, hostVars
<1>2. QED
  BY <1>1, Untouched DEF PInv

LEMMA StepImplements ==
  ASSUME PInv, [Next]_vars
  PROVE  [Port!Next]_(Port!vars) /\ InSequence'
<1>1. CASE PlugIn \/ Unplug
  BY <1>1, ChangeImplements DEF PlugIn, Unplug
<1>2. CASE BusResetEnds
  BY <1>2, ResetEndImplements
<1>3. CASE DeviceMakesReport
  BY <1>3, MakeImplements
<1>4. CASE ChipTransaction
  BY <1>4, TransactionImplements
<1>5. CASE ProbeBus \/ InitProbe
  BY <1>5, ProbeImplements
<1>6. CASE ResetChip
  BY <1>6, ResetChipImplements
<1>7. CASE USB_Task
  BY <1>7, TaskImplements
<1>8. CASE PollEnds
  BY <1>8, PollImplements
<1>9. CASE \/ ResetDetected \/ ReadHirq \/ AckIrq \/ NoIrq \/ FinishInit \/ StartRunning
           \/ PollDevice \/ PollRepeats \/ StayInError \/ NotRunning \/ UNCHANGED vars
  BY <1>9, QuietImplements
<1>10. QED
  BY <1>1, <1>2, <1>3, <1>4, <1>5, <1>6, <1>7, <1>8, <1>9 DEF Next, Bus, Firmware

LEMMA InitImplements == Init => PInv /\ Port!Init
<1> SUFFICES ASSUME Init PROVE PInv /\ Port!Init
  OBVIOUS
<1>1. /\ usb_task_state # RUNNING /\ pc # "poll" /\ hxfr = "idle" /\ rcvfifo = 0
      /\ made = 0 /\ delivered = 0 /\ keycode = [p \in Player |-> {}]
  BY DEF Init, TransferInit, INITIALIZE, RUNNING
<1>2. FifoFull /\ PollsOnlyRunning /\ InSequence
  BY <1>1 DEF FifoFull, PollsOnlyRunning, InSequence
<1>3. Port!Init
  BY <1>1 DEF Port!Init
<1>4. QED
  BY <1>2, <1>3, InitInv DEF PInv

(* Reports reach the program in the order in which they were made, each once and  *)
(* none skipped while the device is in use, over a link that loses packets and    *)
(* acknowledgements (transfer.c:150-260), for every number of reports, faults and *)
(* changes of the bus and all limits.                                          *)
THEOREM HostImplementsPort == Spec => ImplementsPort
<1>1. Init => PInv /\ Port!Init
  BY InitImplements
<1>2. PInv /\ [Next]_vars => PInv'
  BY InvStep, FifoStep, StepImplements DEF PInv
<1>3. PInv /\ [Next]_vars => [Port!Next]_(Port!vars)
  BY StepImplements
<1>4. QED
  BY <1>1, <1>2, <1>3, PTL DEF Spec, ImplementsPort, Port!Spec
=============================================================================
