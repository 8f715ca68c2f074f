------------------------------ MODULE PPUVblank ------------------------------
(***************************************************************************)
(* The vertical blank flag of PPU.sv, its NMI line and the CPU's edge       *)
(* detector.  Three parties write the flag: the scanline engine raises it   *)
(* and lowers it once a frame, and a read of $2002 asks for it to be        *)
(* lowered through a toggle handshake.  tick counts the PPU cycles of a     *)
(* frame, phase those since the last CPU edge; a frame is not a whole       *)
(* number of CPU cycles, so the two drift against each other.               *)
(***************************************************************************)
EXTENDS Naturals

CONSTANTS
  R,          (* PPU cycles per CPU cycle; 3 in nes_clkgen.v                *)
  Frame,      (* PPU cycles per frame; 341 * 262 in the code                *)
  SetTick,    (* line 241, cycle 1                                          *)
  ClearTick   (* line 261, cycle 1                                          *)

ASSUME ClockAssumption == R \in Nat /\ R >= 3
ASSUME FrameAssumption ==
  /\ {Frame, SetTick, ClearTick} \subseteq Nat
  /\ 0 < SetTick /\ SetTick + 1 < ClearTick /\ ClearTick < Frame

(* The CPU's bus cycles: a read of $2002, a write of $2000 with the NMI       *)
(* enable bit off or on, anything else (DMA too).                             *)
BusCycle == {"status", "ctrl off", "ctrl on", "other"}

VARIABLES
  phase, tick, bus,
  (* PPU.sv *)
  nmi_generate, cpu_nmi_clear_request, ppu_nmi_clear_handle, nmi_occured,
  (* CPU *)
  status_read,   (* bit 7 of the last $2002 read                            *)
  NMI_n_o,       (* the NMI line as the CPU last sampled it                  *)
  NMIAct         (* an NMI is waiting to be taken                            *)

cpuVars == <<bus, nmi_generate, cpu_nmi_clear_request, status_read, NMI_n_o, NMIAct>>
vars == <<phase, tick, cpuVars, ppu_nmi_clear_handle, nmi_occured>>

Init ==
  /\ phase = 0
  /\ tick = 0
  /\ bus = "other"
  /\ nmi_generate = FALSE
  /\ cpu_nmi_clear_request = FALSE
  /\ ppu_nmi_clear_handle = FALSE
  /\ nmi_occured = FALSE
  /\ status_read = FALSE
  /\ NMI_n_o = TRUE
  /\ NMIAct = FALSE

-----------------------------------------------------------------------------
ClearPending == cpu_nmi_clear_request # ppu_nmi_clear_handle

NMI_n == ~(nmi_generate /\ nmi_occured)

(* Sensitivity variant of UpdateFlag: the set goes before the clear and leaves *)
(* the clear waiting.                                                          *)
UpdateFlagSetFirst ==
  IF tick = SetTick
  THEN nmi_occured' = TRUE /\ UNCHANGED ppu_nmi_clear_handle
  ELSE /\ ppu_nmi_clear_handle' = cpu_nmi_clear_request
       /\ nmi_occured' = (nmi_occured /\ ~ClearPending /\ tick # ClearTick)

(* Sensitivity variant of UpdateFlag: the end of the blank is forgotten.      *)
UpdateFlagNoEnd ==
  /\ ppu_nmi_clear_handle' = cpu_nmi_clear_request
  /\ nmi_occured' = (~ClearPending /\ (tick = SetTick \/ nmi_occured))

(* Sensitivity variant of UpdateFlag: the read itself lowers the flag, without *)
(* the handshake that waits for its end.                                       *)
UpdateFlagDuringRead ==
  /\ ppu_nmi_clear_handle' = cpu_nmi_clear_request
  /\ nmi_occured' =
       /\ bus # "status"
       /\ tick = SetTick \/ (nmi_occured /\ tick # ClearTick)

(* A clear the CPU asked for goes before the engine's set and clear. *)
UpdateFlag ==
  /\ ppu_nmi_clear_handle' = cpu_nmi_clear_request
  /\ nmi_occured' =
       /\ ~ClearPending
       /\ tick = SetTick \/ (nmi_occured /\ tick # ClearTick)

(* Sensitivity variant of PpuEdge: the frame is one cycle too long.           *)
PpuEdgeLate ==
  /\ tick' = IF tick = Frame THEN 0 ELSE tick + 1
  /\ UpdateFlag

PpuEdge ==
  /\ tick' = IF tick = Frame - 1 THEN 0 ELSE tick + 1
  /\ UpdateFlag

PpuCycle ==
  /\ phase < R - 1
  /\ phase' = phase + 1
  /\ PpuEdge
  /\ UNCHANGED cpuVars

-----------------------------------------------------------------------------
(* The CPU's edge detector looks at the NMI line at every clock edge, except  *)
(* while DMA holds the CPU and in the last cycle of a taken branch; neither    *)
(* has a register access on the bus.                                           *)
SampleNmi ==
  \E samples \in BOOLEAN, taken \in BOOLEAN :
    /\ ~samples => bus = "other"
    /\ NMI_n_o' = IF samples THEN NMI_n ELSE NMI_n_o
    /\ NMIAct' = ((samples /\ NMI_n_o /\ ~NMI_n) \/ (NMIAct /\ ~taken))

CpuCycle(ops) ==
  /\ phase = R - 1
  /\ bus \in ops
  /\ phase' = 0
  /\ bus' \in BusCycle
  /\ SampleNmi
  /\ PpuEdge

ReadStatus ==
  /\ CpuCycle({"status"})
  /\ status_read' = nmi_occured
  /\ cpu_nmi_clear_request' = ~cpu_nmi_clear_request
  /\ UNCHANGED nmi_generate

WriteControl ==
  /\ CpuCycle({"ctrl off", "ctrl on"})
  /\ nmi_generate' = (bus = "ctrl on")
  /\ UNCHANGED <<cpu_nmi_clear_request, status_read>>

NoAccess ==
  /\ CpuCycle({"other"})
  /\ UNCHANGED <<nmi_generate, cpu_nmi_clear_request, status_read>>

(* RESET, released before any of the PPU's edges.  It returns the request to  *)
(* zero but not the handle, and leaves the NMI enable bit as it was.           *)
Reset ==
  /\ phase' \in 0..(R - 1)
  /\ tick' = 0
  /\ bus' = "other"
  /\ cpu_nmi_clear_request' = FALSE
  /\ nmi_occured' = FALSE
  /\ NMIAct' = FALSE
  /\ UNCHANGED <<nmi_generate, ppu_nmi_clear_handle, status_read, NMI_n_o>>

Next == PpuCycle \/ ReadStatus \/ WriteControl \/ NoAccess \/ Reset

Spec == Init /\ [][Next]_vars

-----------------------------------------------------------------------------
TypeOK ==
  /\ phase \in 0..(R - 1)
  /\ tick \in 0..(Frame - 1)
  /\ bus \in BusCycle
  /\ nmi_generate \in BOOLEAN
  /\ cpu_nmi_clear_request \in BOOLEAN
  /\ ppu_nmi_clear_handle \in BOOLEAN
  /\ nmi_occured \in BOOLEAN
  /\ status_read \in BOOLEAN
  /\ NMI_n_o \in BOOLEAN
  /\ NMIAct \in BOOLEAN

(* The flag is never up outside vertical blanking, in particular not while a   *)
(* frame is drawn, however reads, resets and the engine's own clear meet.       *)
FlagOnlyInVblank == nmi_occured => tick \in (SetTick + 1)..ClearTick

(* A clear is done in the PPU cycle after the read, so that the next read in    *)
(* the very next CPU cycle already sees it and cannot cancel its request.        *)
ClearedAtOnce == ClearPending => phase = 0 \/ tick = 0

(* Before the end of the blank the flag is lowered only by a read that           *)
(* reported it; the one PPU cycle after it rises is the exception, in which a     *)
(* read that just missed it takes it away.                                        *)
LoweredOnlyWhenReported ==
  [][nmi_occured /\ ~nmi_occured' =>
       tick \in {ClearTick, SetTick + 1} \/ status_read \/ Reset]_vars

(* A program that polls $2002 with NMI enabled does not lose the NMI: when a      *)
(* read lowers the flag the CPU has already seen the line low, with the same      *)
(* exception.                                                                      *)
NmiSeenBeforeLowered ==
  [][nmi_occured /\ ~nmi_occured' /\ nmi_generate =>
       tick \in {ClearTick, SetTick + 1} \/ ~NMI_n_o \/ Reset]_vars
=============================================================================
