--------------------------- MODULE MCTextRenderer ---------------------------
(***************************************************************************)
(* A screen of three columns and three lines: a first, a middle and a last *)
(* of each.                                                                *)
(***************************************************************************)
EXTENDS TextRenderer
=============================================================================
