--------------------------- MODULE FrameOwnership ---------------------------
(***************************************************************************)
(* What a page frame allocator promises its callers, and nothing of how it *)
(* keeps that promise.  A frame is available, owned, or neither; frames    *)
(* become available once, at boot; a request hands out one available frame *)
(* or fails; a claim takes named frames; owned frames can be given back.   *)
(***************************************************************************)
EXTENDS Naturals

NoFrame == 0        \* what a failed request answers; never a frame

VARIABLES
  booted,           \* whether the frames have been handed to the allocator
  available,        \* frames a caller may still obtain
  owned,            \* frames a caller has obtained and not returned
  answer            \* the frame the last request returned, or NoFrame

vars == <<booted, available, owned, answer>>

Init ==
  /\ booted = FALSE
  /\ available = {} /\ owned = {}
  /\ answer = NoFrame

Boot ==
  /\ ~booted
  /\ booted' = TRUE
  /\ available' \subseteq Nat \ {NoFrame}
  /\ UNCHANGED <<owned, answer>>

\* The only way a frame is granted by number: it was available until now.
Request ==
  \E f \in available :
    /\ available' = available \ {f}
    /\ owned' = owned \cup {f}
    /\ answer' = f
    /\ UNCHANGED booted

Refuse ==
  /\ answer' = NoFrame
  /\ UNCHANGED <<booted, available, owned>>

Claim ==
  \E S \in SUBSET available :
    /\ available' = available \ S
    /\ owned' = owned \cup S
    /\ UNCHANGED <<booted, answer>>

Return ==
  \E S \in SUBSET owned :
    /\ available' = available \cup S
    /\ owned' = owned \ S
    /\ UNCHANGED <<booted, answer>>

Next == Boot \/ Request \/ Refuse \/ Claim \/ Return

Spec == Init /\ [][Next]_vars
=============================================================================
