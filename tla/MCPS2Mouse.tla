----------------------------- MODULE MCPS2Mouse -----------------------------
(***************************************************************************)
(* Reports for TLC: one to the right, overflowing, and up; one to the left *)
(* and down.  They take the dot past the edges of the small screen.  Their *)
(* byte 9, also the keyboard's code, may be mistaken for a first byte.     *)
(***************************************************************************)
EXTENDS PS2Mouse

MCReports == {<<72, 1, 9>>, <<56, 9, 1>>}

MCKeyCodes == {9}
=============================================================================
