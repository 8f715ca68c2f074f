------------------------------ MODULE MCApuFrame ------------------------------
(* One channel, loaded with 1 or 2; a frame of a few times AccessGap cycles,   *)
(* so that an instruction's writes meet every step of the sequencer.           *)
EXTENDS ApuFrame
=============================================================================
