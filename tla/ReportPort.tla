----------------------------- MODULE ReportPort -----------------------------
(***************************************************************************)
(* What a player is promised of an input device: the reports it makes while *)
(* it is in use reach the program in the order they were made, each once,    *)
(* and none is skipped.                                                      *)
(***************************************************************************)
EXTENDS Naturals, Sequences

CONSTANTS
  MaxReports,   (* bound on the reports a run makes                        *)
  HeldBy,       (* the buttons each report says are held                    *)
  NoButtons

VARIABLES
  open,       (* the device can be polled                               *)
  made,       (* number of the last report made                         *)
  pending,    (* reports made and not yet delivered                     *)
  delivered,  (* number of the last report delivered                    *)
  held        (* the buttons the console sees                           *)

vars == <<open, made, pending, delivered, held>>

Init ==
  /\ ~open
  /\ made = 0
  /\ pending = <<>>
  /\ delivered = 0
  /\ held = NoButtons

Open ==
  /\ ~open /\ pending = <<>>
  /\ open' = TRUE
  /\ UNCHANGED <<made, pending, delivered, held>>

(* The device goes away with the reports it has not handed over.           *)
Close ==
  /\ open
  /\ open' = FALSE
  /\ \E n \in 0..Len(pending) : pending' = SubSeq(pending, 1, n)
  /\ UNCHANGED <<made, delivered, held>>

Make ==
  /\ open
  /\ made < MaxReports
  /\ made' = made + 1
  /\ pending' = Append(pending, made')
  /\ UNCHANGED <<open, delivered, held>>

(* Only a keyboard changes what the console sees.                          *)
Deliver ==
  /\ pending # <<>>
  /\ delivered' = Head(pending)
  /\ pending' = Tail(pending)
  /\ held' \in {held, HeldBy[Head(pending)]}
  /\ UNCHANGED <<open, made>>

Next == Open \/ Close \/ Make \/ Deliver

Spec == Init /\ [][Next]_vars

(* A report waits only as long as the device stays.                        *)
Prompt == WF_vars(Deliver)
=============================================================================
