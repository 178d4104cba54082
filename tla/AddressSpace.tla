---------------------------- MODULE AddressSpace ----------------------------
(***************************************************************************)
(* What building a page map promises, and nothing of its tables: pages are *)
(* mapped one at a time, and mapping one leaves every other where it was.  *)
(* The promise ends when a table cannot be allocated.                      *)
(***************************************************************************)

VARIABLES
  mapping,          \* from the virtual pages mapped so far to physical ones
  broken            \* whether a table could not be allocated

vars == <<mapping, broken>>

Init ==
  /\ DOMAIN mapping = {}
  /\ broken = FALSE

Map ==
  /\ ~broken'
  /\ \E v \in DOMAIN mapping' :
       mapping' = [w \in DOMAIN mapping \cup {v} |->
                     IF w = v THEN mapping'[v] ELSE mapping[w]]

Break == broken'

Next == Map \/ Break

Spec == Init /\ [][Next]_vars
=============================================================================
