------------------------------- MODULE OamCopy -------------------------------
(***************************************************************************)
(* What a write of $4014 promises the program: the page it names is copied *)
(* to sprite memory as if in one step, byte 0 of the page going to the     *)
(* entry OAMADDR points at and the rest following with wrap-around, and     *)
(* OAMADDR keeps its value.  RESET clears sprite memory, but does not stop a *)
(* copy.  A cycle of the CPU that the board's ENABLE switch holds for several *)
(* clocks counts as several.  OamDma implements it one byte per CPU cycle.     *)
(***************************************************************************)
EXTENDS Naturals

CONSTANTS
  N,        (* bytes of a page and of sprite memory; 256 in the code      *)
  Byte,     (* what the data bus carries                                  *)
  Zero,     (* the byte 0                                                 *)
  RamPage,  (* pages of system RAM                                        *)
  RamOf     (* the RAM page that answers for a page number                *)

VARIABLES oam_address, oam, ram

vars == <<oam_address, oam, ram>>

Index == 0..(N - 1)

(* The entry k places after entry a, with 8-bit wrap-around, and how many    *)
(* places entry i comes after entry a.                                       *)
Slot(a, k) == IF a + k < N THEN a + k ELSE a + k - N
Distance(a, i) == IF i >= a THEN i - a ELSE i + N - a

Init ==
  /\ oam_address \in Index
  /\ oam \in [Index -> Byte]
  /\ ram \in [RamPage -> [Index -> Byte]]

SetAddress(a) ==
  /\ oam_address' = a
  /\ UNCHANGED <<oam, ram>>

WriteData(b) ==
  /\ oam' = [oam EXCEPT ![oam_address] = b]
  /\ oam_address' = Slot(oam_address, 1)
  /\ UNCHANGED ram

WriteRam(p, i, b) ==
  /\ ram' = [ram EXCEPT ![p][i] = b]
  /\ UNCHANGED <<oam_address, oam>>

CopyPage(page) ==
  /\ oam' = [i \in Index |-> ram[RamOf[page]][Distance(oam_address, i)]]
  /\ UNCHANGED <<oam_address, ram>>

(* RESET clears the entries from the one at OAMADDR on; what it leaves is the *)
(* end of a page as RAM holds it.                                            *)
Reset ==
  /\ \E done \in 1..N :
       /\ oam' = [i \in Index |-> IF Distance(oam_address, i) < done THEN Zero ELSE oam[i]]
       /\ done < N =>
            \E page \in Byte : \A i \in Index :
              Distance(oam_address, i) >= done =>
                oam[i] = ram[RamOf[page]][Distance(oam_address, i)]
  /\ UNCHANGED <<oam_address, ram>>

Next ==
  \/ Reset
  \/ \E a \in Index : SetAddress(a)
  \/ \E b \in Byte : WriteData(b) \/ CopyPage(b)
  \/ \E p \in RamPage, i \in Index, b \in Byte : WriteRam(p, i, b)

Spec == Init /\ [][Next]_vars
=============================================================================
