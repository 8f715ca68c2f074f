# FPGA-NES: specifications, model checks and proofs

This directory specifies FPGA-NES, a Nintendo Entertainment System on an Intel
MAX 10 board: SystemVerilog for the picture processor (PPU), the sound unit
(APU), sprite DMA, the controllers and the bus, a 6502 core in VHDL (T65, third
party), and C firmware on a Nios II soft processor that reads USB keyboards and
loads games. The specifications are TLA+; TLC checks them on small instances,
TLAPS proves the main results for every value of the constants.

Paths such as `PPU.sv:1139` are under `src/src/`. `PROJECT.json` maps every
definition to the lines it models.

## 1. The system

### Clocks and the shape of concurrency

One PLL (`nes_clkgen.v:113-125`) makes every clock of the console from MCLK:
CPU and APU run at MCLK/12, the PPU at MCLK/4, VGA at MCLK/2, memories and
controllers at MCLK. The CPU therefore sees one edge for three of the PPU's and
twelve of the controllers', and at a common edge each side reads what the other
held *before* the edge. The firmware runs on an unrelated 50 MHz clock.

A register may be written in one clock domain only, so units talk through
**toggle handshakes**: the asker flips a *request* flag, the server acts while
request and *handle* differ, and flips the handle. A second flip before the first is
served cancels both. That one idiom carries the CPU's accesses to video memory,
the clearing of the vertical-blank flag, the shift of the controller, the clocks
of the length counters and the set and clear of the frame interrupt; most of what can go
wrong in this system is a toggle answered too late, twice or never.

Three modelling choices follow. A step is one edge of the fastest clock of the
component; a `phase` counter says which edges are edges of the slower clock too.
A common edge is one action that updates both domains from the same old state.
And the CPU is an environment that puts any *bus cycle* on the bus that a 6502
program can produce, in any order its instructions allow.

### Components

| component | state | operations | driven by / talks to |
|---|---|---|---|
| PPU register port (`PPU.sv` 268-428, 1124-1270) | latch, t, v, increment bit, read and write buffers, request/handle pairs | `$2000`, `$2002`, `$2005`, `$2006`, `$2007`; the PPU edge that serves them | CPU bus; video memory; shares v with the renderer |
| Sprite DMA (`NES_ARCHITECTURE.sv` 106-248, `PPU.sv` 294-330) | active, page, byte counter; OAM, OAMADDR | `$4014`, `$2003`, `$2004`, one byte per CPU cycle | holds the CPU, drives its bus, reads RAM, writes OAM |
| Controller port (`CONTROLLER.sv`) | shift register, strobe, edge detector, shift toggle | `$4016/7` read, `$4016` write | CPU bus, 12 edges a cycle; keycodes from the firmware's clock |
| APU frame counter, interrupt, length counters (`APU_FRAME_SEQUENCER.sv`, `APU_LENGTH_COUNTER.sv`, `APU.sv` 76-340) | counter, mode, toggles, flag, lengths, halts, enables | `$4015`, `$4017`, `$4000/3/4/7`, the sequencer's steps | toggles between sequencer, flag and channels |
| Blank flag and NMI (`PPU.sv` 285-304, 448-549, 1277-1295, `T65.vhd` 670-702) | flag, enable, clear toggle, line as sampled, NMI waiting | line 241 set, line 261 clear, `$2002`, `$2000` | scanline engine, CPU |
| Scroll and background (`PPU.sv` 449-475, 724-937, 1124-1212) | cycle, scanline, v, t, fine x, fetched bytes, shifters | increments and copies of v, fetches, shifts, loads | register port, video bus |
| Sprites, sprite 0, pixel multiplexer (`PPU.sv` 610-718, 862-1088) | secondary sprites, shifters, overflow and hit flags | evaluation, fetch, composition | OAM, background, `$2002` |
| Line buffer and VGA (`PPU.sv` 1333-1447, `VGA_controller342.sv`) | two lines of pixels, VGA counters | write a pixel, swap, read each line twice | PPU clock and VGA clock |
| APU pulse channels (`APU_ENVELOPE_GENERATOR.sv`, `APU_SWEEP_TIMER_UNIT.sv`, `APU_PULSE_SEQUENCER.sv`) | decay, divider, timer, sweep, duty position | quarter clocks, timer, register writes | frame counter toggles |
| USB keyboard host (`software/NES_NIOSII/usb_kb`) | task state, device table, endpoints with toggles and NAK limits | `USB_Task`, bus probe, interrupt handler, transfers, class probes, polling | MAX3421E over SPI, its interrupt pin, timers |
| Firmware main loop, game loader (`main.c`) | class of the device polled, key codes | poll, write key codes, reinitialise, program ROMs | USB host, controllers, ROM programmer |
| ROM programmer, cartridge header (`ROM_PRGMR.sv`, `CARTRIDGE.sv`) | address, data, strobes; mirroring | bus writes from the Nios | memories |
| Memories | contents | registered read, write | all of the above |
| 6502 core (`t65`) | the processor | instructions | every register |
| Top level, clocks, audio codec, displays | wiring | - | - |

**What makes each hard, and what correct means.**

- *Register port.* One `$2007` access is five or six register updates over three
  PPU edges in two clocks. Correct: every access has its documented effect
  once, in program order, whatever was accessed just before.
- *DMA.* It takes over the bus whose address started it, and the CPU stays
  frozen in a bus cycle that may itself be a register write. Correct: the page
  is in OAM, from OAMADDR with wrap-around, before the CPU's next cycle; it
  ends.
- *Controller.* It sees each read many times, with strobe and key changes in
  between. Correct: one bit per read, in order.
- *Frame counter.* Writes, the end of a frame and reads meet in one cycle.
  Correct: an inhibited interrupt stays down, no clock is lost, every sound
  not reloaded ends.
- *Blank flag.* Three writers in two clocks. Correct: it is up only in the
  blank, nothing but a read that saw it takes it down early, and the NMI it
  announces is not lost to a program that polls.
- *Background.* v has five writers and the program changes its inputs at any
  cycle. Correct: each line starts where the scroll registers said, and
  each pixel shows the tile and row it should, both bit planes alike.
- *Sprites.* Results for the next line are found while this one is drawn.
  Correct: the first eight in range, once each; a hit is sprite 0's.
- *Line buffer.* Two clocks, one buffer each, swapped by the drawing side alone.
  Correct: VGA never shows a line being written, no write outside the line does harm.
- *Pulse channels.* Toggled clocks with restarts and wrap-around. Correct: the
  volume never jumps but on restart, the timer never stalls.
- *USB host.* One thread, but the bus changes between any two of its accesses to
  the chip, an interrupt handler it calls itself advances the task state, packets
  are repeated or lost, devices are replaced in the middle of anything. Correct:
  no lost or doubled report, requests go to the address and at the speed the device
  has, every enumeration ends in a configured or an error state, an unplugged
  device is noticed and its slot returned.
- *ROM programmer.* Address and strobe have different delays. Correct: each
  byte in its place.

`PROJECT.json` lists the hazards one by one with the line where each bites and
the property that would catch it; those without a property yet name the planned
module.

## 2. The modules

Each detailed module keeps the source's names. `PPUPort`, `OamCopy`,
`ControllerPort`, `Picture` and `ReportPort` are abstract: what a program is promised, with no
clock edge in sight. A detailed module implements its abstract one through
an `INSTANCE` whose substitutions count a pending request as done
(`FinalAddress`, `FinalBuffer`, `FinalMemory`, `FinalOam`, `FinalKeys`).

| abstract | detailed | instance for TLC | proofs |
|---|---|---|---|
| `PPUPort` | `PPUHandshake` | `MCPPUHandshake` | `PPUHandshakeProofs` |
| `OamCopy` | `OamDma` | `MCOamDma` | `OamDmaProofs` |
| `ControllerPort` | `Controller` | `MCController` | `ControllerProofs` |
| | `ApuFrame` | `MCApuFrame` | `ApuFrameProofs` |
| | `PPUVblank` | `MCPPUVblank` | `PPUVblankProofs` |
| `Picture` | `PPUScroll` | `MCPPUScroll` | `PPUScrollProofs` |
| | `PPUSprites`, composed in `Video` | `MCVideo` | `VideoProofs` |
| `ReportPort` | `UsbTransfer`, composed in `UsbHost` | `MCUsbHost` | `UsbHostProofs` |

**PPUHandshake.** `PpuEdge` is everything the PPU's clock does to the port:
memory store, address update, the two-edge read (`PPU_READ`, then
`one_after_read` takes the byte), the write strobe, the handles. `PpuCycle` is
an edge between two CPU edges; the seven other actions are the CPU's bus cycle
at the common edge, each with a `PpuEdge`. Abstracted: bytes and addresses
(`NextTemp`, `Advance`, `CellOf` are arbitrary functions in the proofs). Left
out: `$2001`, whose bits are plain flags here, RESET and ENABLE in mid-access,
accesses while the picture is being fetched.

`MayFollow` is what a 6502 can do. The last write of an instruction is followed
by an opcode fetch from program memory, so no register *read* is on the bus in
the cycle after a write; a read-modify-write does write twice in a row, and
an indexed load does read twice in a row (`T65_MCode.vhd:1049-1088`: the dummy
read). `DoubleReads` switches off the one pair the code does not survive, two
adjacent *palette* reads; the run `double_read` switches it on and shows what
then happens (findings, below).

**OamDma.** One step per CPU edge; `DmaCycle` while active, else the CPU's bus
cycle. `Retriggered` is the case that makes this module worth having: the DMA state
machine compares the bus with `$4014`, and while it is active its own address is on
that bus. If a *write* is held on the bus under the copy, the DMA's address passing
over `$4014` writes the DMA register again from the DMA data. A write is held in two
ways: a read-modify-write of `$4014` writes twice, and the switch `ENABLE` (`SW[1]`,
`toplevel.sv:196`) holds the CPU in any bus cycle but gates neither the DMA nor the
registers (`NES_ARCHITECTURE.sv:371-372`). The first is harmless, which is a result and
not an assumption: such an instruction copies the page it read from the open bus,
`$FF`, while a copy of page `$40` has no write on the bus. The second is
harmless for every page but `$40`; `HoldsOwnPage` says whether the switch may go low
in that one cycle, and with it on the copy mixes pages or never ends (findings). What the
switch holds is otherwise written again at every edge: a DMA follows a DMA, and one
store to `$2004` fills entry after entry; `OamCopy` counts such a cycle as several. The
page is arbitrary, RAM or not; outside RAM the code reads RAM's
mirror. `Reset` clears sprite memory at every clock edge it lasts but does not stop the DMA,
whose registers have no reset: `OamCopy!Reset` says what is left, the rest of that
page and nothing else. `AbortBusCycle` is the asynchronous reset of the CPU, also of
one that is held.

Only two modules have the switch: `OamDma`, and `Controller`, whose bus cycle may last any
number of CPU edges. `PPUHandshake`, `PPUVblank` and `ApuFrame`
take it as high: with it low a held access to their registers is repeated at every CPU
edge, the port's handles are reset (`PPU.sv:1225`) and the CPU does not sample NMI.
`PPUScroll`, `Video` and the USB side do not read it.

**Controller.** `MemoryCycle` and `CpuCycle` are edges of the fast clock.
`SampleKeys` catches a key change in any subset of the bits, because
`keycodes_in` comes from another clock without synchroniser. RESET may come at
any edge.

**ApuFrame.** One step per CPU edge, each the whole edge: sequencer, flag,
length counters (`ApuEdge`) and the register the CPU has on the bus. `quiet`
counts the three fetches that separate two instructions' accesses. `Reset`
is a clock edge with RESET high; it clears requests but not handles, as the
code does, and `AbortBusCycle` is the asynchronous reset of the CPU. `returned` is
a history variable: the flag as the last edge's read of `$4015` returned it. The
triangle, noise and DMC length counters do not exist in this code.

**PPUVblank.** A frame of PPU cycles, CPU edges every R-th, drifting against
each other. `Reset` is asynchronous and released at any phase. `SampleNmi` is
T65's edge detector, which skips cycles in which DMA holds the CPU or a branch
is taken.

**PPUScroll.** One step per PPU edge. A byte of video memory is represented by
its address, so the shifters hold *where each pixel came from*. The program may write
scroll registers at any cycle; loads of v (`$2006`, second write) are served in
cycles 257-320, in the blank or with rendering off, and `$2001` is switched in
the blank, as programs do. Left out:
`$2007` while rendering, RESET in mid-frame, loads of v in the drawn part of a line, and
the background pattern table bit of `$2000`, so a program that switches tables between
the fetches of a tile's two planes.

**PPUSprites and Video.** `PPUSprites` is the sprite half of a PPU edge:
`Evaluate` walks OAM for the next line, `Fetch` loads a place's shifter,
`ShowSprites` moves the eight shifters, `color_idx` chooses among the places and the
background. A pixel is a record of *which* sprite, row and column it came from (or
which background dot), so "the right pixel" can be said without colours.
`Video` composes it with the line buffers and the VGA counters: `CommonEdge` is an
edge of both clocks, `VideoEdge` one of the pixel clock alone. RESET may end
between clock edges, so the two start in either phase. Left out: RESET in
mid-frame, rendering switched off and OAM written inside the picture, flips and the
row address inside a tile, the mask of the leftmost columns, sync pulses.

Three things the code does otherwise than a NES are written into the properties
as what they are. Evaluation goes through OAM three times, so three sprites in
range fill the eight places and raise overflow (`OverflowEarned`).
The pre-render line is numbered 261 in the range
check, so a sprite at y 254 or 255 shows on line 0 (`LineBefore`). And a sprite
whose x is 0 has its first column drawn before the picture begins as well
(`ColumnAt`). Sprite 0 hit differs from the repository's own hit tests in five
places (`HitsAsTested`, section 5): `HitFound` and
`HitIsSpriteZeros`, which hold, say what is right outside those five.

**UsbTransfer and UsbHost.** `UsbTransfer` is the link: a keyboard or mouse with
its endpoint toggle, the MAX3421E's registers for one transfer, and
`XferInTransfer` / `XferDispatchPkt` with their limits. `UsbHost` is the program
around it, `pc` being where its single thread reads or writes the chip:

| `pc` | code |
|---|---|
| `reset`, `initprobe`, `initack` | `MAX3421E_init`: chip reset; bus probe; acknowledge |
| `irq`, `probe`, `ack` | `MAX3421E_Task`, `MaxIntHandler`: read HIRQ; `MAX_busprobe` and `usb_task_state++`; acknowledge |
| `task` | `USB_Task`, one action per task state |
| `main`, `poll` | `main()`: start, poll, or fall back; the packet is out |

Between any two of these the environment may plug, replace or unplug a device
(`Change`), end a bus reset, report that reset as a change of connection, or
carry out the transaction. The chip and the devices are not in the repository; they
are modelled from what `MAX3421E.h` and the code say of them and marked external.
`HRSL`'s J and K bits are taken as the state of the line when read. Abstracted: control
transfers are their outcomes (`ControlOutcomes`); a report is one packet, as
the eight bytes of the boot protocol are; the clock is followed only while a
device settles. Left out: `usb_error` and `last_usb_task_state`, which are never read;
the five-second limit of `XferDispatchPkt`, which is longer than all its
repeats; LEDs, displays and messages; `XferOutTransfer`, which nothing calls.
`Port` hides all of it behind `ReportPort`: reports come out in order, once each,
none skipped, and what the console sees changes only to the buttons of a report just
delivered, or not at all, as for a mouse (`ImplementsPort`);
none waits for ever while its device stays (`ReportsArrive`).

## 3. The runs

| run | states | properties | question |
|---|---|---|---|
| `ppu_port` | 2,067,456 | `TypeOK`, `SettledAtCpuEdge`, `ImplementsPort` | does every access have its effect, once and in order? |
| `oam_dma` | 231,168 | `TypeOK`, `ImplementsCopy`, `DmaEnds` | is a DMA an atomic page copy that ends, with the switch moved at any time? |
| `controller` | 8,192 | `TypeOK`, `SettledAtCpuEdge`, `ImplementsPort` | does each read take one bit? |
| `apu_frame` | 998,040 | `TypeOK`, `InhibitedFlagIsDown`, `ClearedWhenReturned`, `NoHalfClockLost`, `LengthExpires` | are interrupts inhibited, none taken back unseen, and no length clock lost? |
| `ppu_vblank` | 7,542 | `TypeOK`, `FlagOnlyInVblank`, `ClearedAtOnce`, `LoweredOnlyWhenReported`, `NmiSeenBeforeLowered` | can a blank or its NMI be lost? |
| `ppu_scroll` | 567,138 | `TypeOK`, `PixelsInPlace`, `ImplementsPicture` | is every pixel the one the scroll registers ask for? |
| `video` | 1,716,384 | `TypeOK`, `PlacesHoldFirst`, `OverflowReported`, `OverflowEarned`, `HitIsSpriteZeros`, `HitFound`, `ScreenShows` | are the right sprites chosen, flagged and shown? |
| `usb_host` | 193,808 | `TypeOK`, `AddressIsRight`, `PolledIsNewest`, `ImplementsPort`, `ReportsArrive`, `DeviceIsServed`, `UnplugIsNoticed` | does a device that stays get served, and each report through once? |
| `double_read`, `palette_buffer`, `usb_cleanup`, `sprite_hits` | | one each | the first findings of section 5 |

Some properties hold with an exception that is written into them because the
code has it. `LoweredOnlyWhenReported` and `NmiSeenBeforeLowered` leave out the
one PPU cycle after the flag rises: a read at the edge at which it is set returns
0, asks for the clear all the same and takes the flag away. `ClearedWhenReturned` has the same exception for the frame
interrupt and a read of `$4015`. `PixelsInPlace` describes
that the shifters already move in cycle 1 of a line although no new tile has
fallen due: the first pixel of the second tile is shown twice and the rest of
the line is one cycle late (sprites are drawn with a delay as well, so the two stay
near each other). `DeviceIsServed` and `UnplugIsNoticed` leave out two losses
of the USB side: `Lost`, a change of connection between the sample of the bus and
its acknowledgement (`MAX3421E.c:241-264`, `222-225`), or one ignored as the echo
of a bus reset (`:173`, `:185`), which the program never hears of; and
`NeverSettles`, a settling time begun in the last 200 ms before the millisecond
clock starts again, every 71 minutes (`transfer.c:277-281`), which is a finding
of its own. `HitIsSpriteZeros` leaves out the line above sprite 0, and
`HitFound` the last row and the columns left of the evaluation; neither says
anything of the last column: all of these are the finding `sprite_hits`.
`ImplementsCopy` and `DmaEnds` are checked with `HoldsOwnPage` off.
`AddressIsRight` holds under the premise that every change of connection was seen, and
`ControllerPort` lets the register take any mixture of old and new key bits while strobe
is on, as the code does.

Every property of a passing run has a *mutant* in `PROJECT.json`: a definition
of the model changed as a plausible bug would change the code (the definitions commented
"Sensitivity variant"), under which TLC must find the property violated.

### Bounds

- `R = 3` is the code's ratio, `M = 3` stands for 12: two edges are needed to
  notice and serve a read and a third shows that nothing more happens; the
  proofs cover every larger ratio.
- `Width = 3`: a first, a middle and a last bit; eight bits differ in number only.
- `N = 3` bytes a page instead of 256, with OAMADDR anywhere, so that the copy
  wraps at every place; two pages, one of them the page of the DMA register
  itself. The switch is moved between any two edges.
- Four video addresses: ROM, RAM, and one palette entry with its mirror, the
  four kinds the bus decodes; one-bit bytes; increments of 1 and 2 for 1 and 32.
- Sequencer steps 3, 6 and 7 for 14913, 29839 and 37281: all that counts is that
  the steps are at least `AccessGap = 3` cycles apart, which the assumption
  `StepAssumption` states, so that writes of one instruction meet each step
  in every alignment. One channel (channels share no state), lengths 1 and 2.
- `Frame = 14` for 341 x 262: as in the code one less than a multiple of three,
  so the CPU edge meets every tick of the frame; the blank is long enough for
  two reads and a late enable.
- Three tiles a line and four columns a nametable, so that the two-tile
  prefetch and the line itself cross the nametable's edge; three lines of
  two-pixel rows cross from a row of tiles to the next, from the last row of a
  page to the other page, and through the rows past the page. Three scroll
  settings, fine x 0 and 7. Cycle numbers keep their residues modulo 8.

- Four sprites and three places for 64 and 8, two passes for three, so that one
  sprite in range leaves a place free, two fill them by repetition and four are too
  many; sprites of two by two pixels; three lines, two blank ones and the pre-render line; a
  line of 24 cycles in which clearing, evaluation, fetch and the rest have the code's
  order and the VGA line its relation to it. Each sprite is one of four: overlapping in
  front and behind, at the left edge on the line before the first, at the last column on the
  last line. One sprite has one opaque pixel in each of its rows, in different columns. The
  background is opaque in four cycles: left of the evaluation, in and across
  the columns of the sprites, and in the last column. The instances of the
  hit tests take one entry, or two, and the background their test needs.
- A device table of three (two slots) for eight, so that a third device finds
  none; limits of two for 200 NAKs and 3 retries; three reports, so that one
  can be repeated and another follow; four kinds of plug (a full-speed keyboard,
  a low-speed mouse, a device nobody drives, both lines high); two changes of connection, of which one
  may be a replug, and one fault (lost packet, lost acknowledge, failed control
  transfer, echo of a bus reset): what a third would do starts from a state two
  have reached, because each change leads the program back to the same few states.

### Fairness

`ApuFrame` assumes weak fairness of the whole next-state relation, `OamDma` of
`ClockEdge`, and nothing more: the clock is a free-running PLL
output, so another edge always comes, whatever the switch does. No fairness is asked of the program: it
may halt, repeat any access for ever or reset the machine again and again.
`DmaEnds` therefore rests on the DMA alone, and `LengthExpires` asks for its
premise that the program from some point on neither loads nor halts that channel.
`UsbHost` assumes that the program runs on (weak fairness of `Firmware`: one
thread, no blocking call), that a bus reset ends and the chip finishes a
transaction (weak: a time-out of its own ends one nobody answers), and that the
clock moves while the program waits for it (strong, because the wait is a loop whose
turns may or may not see a tick). Nothing is assumed of plugging, of lost packets
or of the device, which may NAK for ever.
`CHECK_DEADLOCK` is on everywhere: nothing here ever stops.

## 4. The proofs

| theorem | says | for every |
|---|---|---|
| `PPUHandshakeProofs!TypeCorrect`, `PortSettles`, `HandshakeImplementsPort` | registers in range; each access served by the next CPU edge; the handshake implements the atomic port | address space, memory map and R >= 3, if `DoubleReads` is off |
| `OamDmaProofs!TypeCorrect`, `DmaImplementsCopy` | the copy is atomic, and what a RESET in its middle leaves | page size N >= 2, RAM decoding, ENABLE at any time; the refinement if `HoldsOwnPage` is off |
| `ControllerProofs!TypeCorrect`, `ControllerSettles`, `ControllerImplementsPort` | one bit a read | M >= 3, width >= 2 |
| `ApuFrameProofs!TypeCorrect`, `InhibitHolds`, `InterruptReported`, `ClocksAnswered` | the counter stays in its frame; inhibited flag down; a flag is cleared only when returned; no half clock lost | frame lengths, channels, lengths |
| `PPUVblankProofs!TypeCorrect`, `FlagStaysInVblank`, `ClearSettles`, `FlagIsReported`, `NmiIsSeen` | all five properties of the run | frame geometry, R >= 3 |
| `PPUScrollProofs!TypeCorrect`, `ScrollImplementsPicture`, `PixelsShown` | v implements the picture; both bit planes of every pixel are the ones the scroll registers ask for | line, frame, tile and nametable sizes with Tiles + 2 <= 2 * Columns |
| `UsbHostProofs!TypeCorrect`, `PollsNewest`, `AddressCorrect`, `HostImplementsPort` | the three invariants of the run; every report through once and in order | device table, NAK and retry limits, reports, plugs, number of changes and faults |
| `VideoProofs!TypeCorrect`, `FirstInPlaces`, `OverflowIsReported`, `OverflowIsEarned`, `HitIsFound`, `HitIsZeros`, `ScreenIsInStep` | the right sprites in the places; the overflow flag up when it must be, and only with enough sprites; a hit found where it must be and only sprite 0's; VGA shows the whole line drawn before | sprites, places, passes, geometry of lines and pictures, Entries, with sprites no higher than `scanline_count` (a sprite at the top is not on the line before line 0) |

The inductive invariants, and why each conjunct is there:

- `PPUHandshake`: `Timing` says how long a request stays open (one edge
  serves a load, a read or a write; the next one finishes the memory access and
  advances the address); `Exclusion` that at most one kind of access is in flight and that
  `PPU_READ` and `one_after_read` are in step; `ReadsWait` that a read is on the bus only
  when no write or load is open, and the direct palette path only when nothing is,
  which is where `DoubleReads = FALSE` enters. The refinement has one lemma per
  action: a CPU action is the port's action, an internal edge stutters or is
  the port's `Prefetch`.
- `OamDma`: `IdleAtZero` (the byte counter is zero between copies, so the next
  one starts at the front), `FrozenWrite` (the write of `$4014` the switch holds does not
  name page `$40`) and `HeldWrite` (under a copy with a write
  on the bus, the page copied is not the DMA register's own).
  `HeldWrite` is what excludes the retriggered copy. It needs two facts: the byte a
  read-modify-write writes back is the open bus's, and `$FF` is not `$40`; and the switch
  does not hold a write of `$40`, which is `HoldsOwnPage = FALSE`.
- `Controller`: `Timing`, which ties the edge detector and the shift toggle to
  the phase.
- `ApuFrame`: `InhibitedFlagIsDown` is inductive on top of `TypeOK`;
  `ClearWasReported` says of a clear that waits who asked for it. For `NoHalfClockLost`,
  `UpdateTimed` says that an immediate clock is owed only just after a write of
  `$4017`, which `quiet` keeps away from the next register access, and `LoadTimed`
  that a load meets an unanswered clock only in the cycles right after a
  step, while `StepAssumption` puts the next step further away than the load, with its
  repetition, lasts: the channel answers one toggle before the next is flipped.
- `PPUVblank`: `ClearWasReported` says that a clear waiting under a raised flag
  was asked for by a read that returned the flag and sampled the line with it,
  unless the flag rose with that very edge; without it the step that lowers the
  flag could not tell why.
- `PPUScroll`: `LoadTimed` keeps loads of v out of the fetched part of a line;
  the refinement is arithmetic on columns and rows (`ColumnIncrement`,
  `RowIncrement`) and on where in the line v is (`FetchedStep`). `PixelsInPlace` is the
  end of a pipeline and its invariant has a part for each stage, all functions of
  the cycle: `BytesFetched` what the latches hold within a tile's eight cycles,
  `Assembled` what a load puts together, `FirstTile` and `TwoTiles` the sixteen places of
  the shifters while the two tiles ahead are fetched, `LineShown` the places still
  valid as the line is drawn. `StrobeTimed` says that the bus is driven wherever a byte is
  taken from it.
- `UsbHost`: `TableInOrder` (the slots taken are 1 to n) makes the last slot the one just
  given (`LastSlot`), which is what `GetDriverandReport` relies on. For the address:
  `SpeedIsRight`, `ResetIsOver` (a bus reset that is over has put the device at address
  0) and `EventRead`, `Resetting`, `Leaving`, which follow the two places where something other
  than `USB_Task` moves the task state: the handler, whose pending bus event belongs
  to a reset of an earlier enumeration, and `main()`, which resets the chip only in the
  turn in which a running device left. The refinement needs to know where a report is:
  `FifoFull` (the chip holds one exactly when the transfer has ended well),
  `PollsOnlyRunning` (no packet is out to a device that is not in use) and `InSequence`
  (the toggles of the two ends differ exactly when the program has not yet taken
  the report last sent, which is what makes a repeated packet recognisable). It has one
  lemma per kind of step: the device goes away (`Close`), makes a report (`Make`), the chip moves one
  (a stutter: `pending` counts both ends), the program takes it (`Deliver`).
- `Video`: evaluation stops where the places are full, which may be anywhere in
  any pass. `InPass` gives its position before that as a pass q and an index, and the
  count of what was found as q times the sprites in range plus those before the
  index; `Complete` is what remains of it after the first pass, and with it the places
  written later are only those no sprite has by right (`Filled`, `OnlyFound`).
  `Enough` is the bound on the product that the overflow flag rests on, `Raised` that
  full places of the line before cannot raise it on the next, `Cleaning` that the
  cycles of clearing cover all places, and `Fetched` ties the index of the fetch to the
  cycle, without which it could leave the places. The counts are facts about
  `Cardinality` (`BeforeNext`, `BeforeIncreases`, `BeforeIsUnique`, `BeforeEnds`).
  For the sprite 0 hit, `Path` follows a sprite from its place to the screen: `InOrder` (no
  place holds a sprite later in OAM order than its number, so sprite 0, if on the line, is in place 0),
  `Loading` and `Displayed` (each shifter as a function of the cycle, while it
  is loaded and while it counts down and moves), `Possible` and `HitSoFar` (when the
  possible flag is up, and by when the hit itself). `LineDrawn` and `LineShown` say what
  the two line buffers hold of the line drawn and of the one shown. That of the sprites that are opaque in a column the first
  wins needs a least element, which the lemma `Least` finds by counting, as
  induction is out of reach. For `ScreenShows`, `InStep` makes the VGA beam a
  function of the PPU's cycle up to a `lead` of one VGA clock, which is the phase RESET left,
  and `Unblanked` keeps the beam in the picture while it reads.

The assumptions used are the named ASSUMEs of the modules, which TLC evaluates in
every run.

Every invariant, action property and refinement that a passing run checks is
stated by a theorem. Only model-checked is liveness, which is outside the prover's
reach: `DmaEnds`, `LengthExpires`, `ReportsArrive`, `DeviceIsServed` and `UnplugIsNoticed`.

## 5. Findings

- **Two palette reads in a row move the address by nothing** (`double_read`,
  `PPU.sv:388`). An indexed load of `$2007` reads it twice in adjacent cycles.
  The palette read is answered directly and its request waits; the second read
  flips the request, and the increment's, back. `PPU.sv:257` says the address
  increments after access.
- **A palette read fills the read buffer with the palette byte**
  (`palette_buffer`, `PPU.sv:1237`); `ppu_tests_basic/readme.txt:73` asks for the
  nametable byte below it.
- **A device unplugged after an error keeps its slot** (`usb_cleanup`,
  `MAX3421E.c:259`). The end of a bus reset sets BUSEVENTIRQ; its interrupt is not
  enabled, so it stays pending until the next change of connection makes the handler
  read it. Unplugging a device that ended in `USB_STATE_ERROR` sets the task
  state to `INITIALIZE` and then, for the old event, adds one: state 2 has no case, so
  `USB_init` is not called, although `MAX3421E.c:200` goes there to "clear device data
  structures". A device that was running is saved by `main()`'s own
  reinitialisation (`main.c:226-230`). After seven devices that nobody drives every further
  one fails with `0xfe`, until one is pulled out before its bus reset or the board
  restarts.
- **Sprite 0 hit fails five of the repository's hit tests** (`sprite_hits`, `HitsAsTested`,
  `tests/readme.txt`). The run shows the first of them; `MCVideo` has an instance for each.
  1. The possible flag belongs to the next line (`PPU.sv:675`), so on the line
     above sprite 0 the sprite in the first place hits; line 32 says "Should always miss
     other sprites" (`MCVideoHitOther.cfg`, the run).
  2. The range of cycles that hit ends one late (`PPU.sv:682`), so x = 255 hits;
     line 90: "Should always miss when X = 255" (`MCVideoHitRight.cfg`, `MissesRightEdge`).
  3. A sprite 0 at y = 239 and x = 0, fetched on line 239, hits on line 240, where nothing
     asks for the scanline any more (`PPU.sv:712`); line 101: "Should always miss
     when Y >= 239" (`MCVideoHitBelow.cfg`).
  4. On its last row sprite 0 is no longer in range of the next line and cannot hit
     (`PPU.sv:996`); line 57: "Lower-right pixel should hit" (`MCVideoHitCorner.cfg`).
  5. The possible flag is cleared at cycle 0 and set from cycle 65 on (`PPU.sv:999`), so the
     first 64 columns do not hit; line 81: "Should hit; sprite pixel outside left-edge clip"
     (`MCVideoHitLeft.cfg`).

Three more are not among the runs of `PROJECT.json`; the `.cfg` named with each has TLC find
the violation.

- **A sprite DMA can run for ever, or mix two pages** (`MCOamDmaStuck.cfg`,
  `MCOamDmaMixed.cfg`,
  `NES_ARCHITECTURE.sv:127-128`). `ENABLE` low in the cycle that writes page `$40` to
  `$4014` keeps the write on the bus while the ungated DMA runs. Its address passes over
  `$4014`, the comparison is true again, and the byte at `$14` becomes the page: if it is
  `$40` the copy stays where it is ("This might get stuck high", the comment above the
  line says), else the rest comes from the page it names, where
  `ppu_tests_basic/readme.txt:50` expects a copy of the one written.
- **`$00` then `$80` to `$4017` gives no immediate clock** (`MCApuFrameMode.cfg`,
  `APU_FRAME_SEQUENCER.sv:33`). The sequencer answers the update toggle only in
  mode 1, so the first write's edge is still open when the second cancels it;
  `apu_test/readme.txt:13` says that writing `$80` clocks length immediately.
- **A device plugged in just before the clock wraps is not enumerated** (`MCUsbHostSettle.cfg`,
  `transfer.c:281`). `alt_nticks() * 1000` overflows every 71 minutes, so the millisecond count never passes
  4294967; a settling time that would end above it is never over, though the state is
  "waiting for settle timer to expire" (`:280`). Unplugging the device frees the task.

## 6. Not modelled, and why

The pulse channels, the ROM programmer and the game loader are planned
(below). Most C of the repository is not the program's: of 21,445 lines of `.c` and
`.h` all but about 3,400 are the vendor's board support package (HAL, drivers, generated
`system.h`), half of the rest are headers of register and descriptor names, and
the console itself is in SystemVerilog. Measured against all C lines the map therefore
stays small even though the firmware's own state machine is modelled whole.
The memories are wrappers of block RAM on a clock fast enough to look
combinational; their contents are state of the modules that use them. T65 is a
third-party core: what the bus modules need of it is the order of bus cycles
and the NMI edge detector, and both were taken from its source. The top level,
PLLs, audio codec start-up and displays are wiring; the Qsys output, the board
support package, databases and output files are generated; the `.bak` files,
the VGA controllers other than 342 and the triangle sequencer (commented out)
are not part of the build.

## 7. Plan

1. `PPUHandshake` / `PPUPort`, `OamDma` / `OamCopy`, `Controller`, `ApuFrame`,
   `PPUVblank`, `PPUScroll` / `Picture`, each with its proofs: done.
2. `PPUSprites` and `Video`: done. `UsbTransfer`, `UsbHost` / `ReportPort` with
   their proofs: done.
3. Proofs of every safety property of those modules: done, the last of them
   `ScreenShows`, `HitFound`, `HitIsSpriteZeros`, `NoHalfClockLost`, `PixelsInPlace`
   and the refinement of `ReportPort`.
4. `ApuPulse` (envelope, divider, timer, sweep against quarter and half clocks), and
   `RomProgrammer` with the loader: the byte written when the master changes address
   and data as the registered strobe rises.
5. The RESET and ENABLE slice of `PPUHandshake`; compositions:
   `$2007` accesses under the renderer, and DMA, CPU and PPU on one bus.

## 8. Running

    tlc -workers 2 -config MCPPUHandshake.cfg MCPPUHandshake
    tlapm PPUHandshakeProofs.tla

Each run takes at most about two minutes on two workers. Every `.cfg`
belongs to the module whose name it starts with.
