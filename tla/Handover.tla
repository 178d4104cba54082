------------------------------ MODULE Handover ------------------------------
(***************************************************************************)
(* What a boot loader promises, and nothing of how it keeps it: memory is  *)
(* the firmware's to change until the machine is handed to the kernel,     *)
(* once, together with a map of memory as it is at that moment; nothing    *)
(* changes behind the kernel's back afterwards.                            *)
(***************************************************************************)

CONSTANT Nothing    \* no map has been given

VARIABLES
  owner,            \* "firmware" or "kernel"
  memory,           \* what each page is used for
  given             \* the map the kernel was given

vars == <<owner, memory, given>>

Init ==
  /\ owner = "firmware"
  /\ given = Nothing

Change ==
  /\ owner = "firmware" /\ owner' = "firmware"
  /\ given' = given

HandOver ==
  /\ owner = "firmware" /\ owner' = "kernel"
  /\ given' = memory
  /\ memory' = memory

Next == Change \/ HandOver

Spec == Init /\ [][Next]_vars
=============================================================================
