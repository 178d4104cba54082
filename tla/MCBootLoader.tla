---------------------------- MODULE MCBootLoader ----------------------------
(***************************************************************************)
(* The boot loader for TLC: five pages of two bytes, a kernel of two       *)
(* segments, the second ending inside a page.  Memory starts all free, or  *)
(* with a page of the firmware's in the way of the image or beside it.     *)
(***************************************************************************)
EXTENDS BootLoader

MCSegments == <<[p_paddr |-> 0, p_memsz |-> 2], [p_paddr |-> 2, p_memsz |-> 3]>>

\* Memory with the firmware in a set of pages and the rest free.
Busy(pages) ==
  [p \in Pages |-> IF p \in pages THEN "firmware" ELSE "conventional"]

MCMaps == {Busy({}), Busy({1}), Busy({4})}
=============================================================================
