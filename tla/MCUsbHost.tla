----------------------------- MODULE MCUsbHost -----------------------------
(* Two addresses, so that a third device finds none; a keyboard, a mouse of   *)
(* the other speed, a device without a driver and a bus with both lines       *)
(* high; three reports, of keys of both controllers, so that the toggle       *)
(* returns to where it was.                                                   *)
EXTENDS UsbHost

MCReports == <<{14, 82}, {30}, {}>>
MCPlugs ==
  {[line |-> "full", kind |-> HID_K], [line |-> "low", kind |-> HID_M],
   [line |-> "low", kind |-> Other], [line |-> "both", kind |-> Other]}
=============================================================================
