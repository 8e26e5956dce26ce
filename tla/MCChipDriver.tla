---------------------------- MODULE MCChipDriver ----------------------------
(***************************************************************************)
(* Bytes of four values: a receive memory of eight, so that its size takes *)
(* both bytes of the register, and pointers that begin at thirteen and     *)
(* wrap at sixteen.  Five bytes arrive and calls ask for four, so that one *)
(* leaves a byte behind; a byte on the way through the SPI at a time.      *)
(***************************************************************************)
EXTENDS ChipDriver
==============================================================================
