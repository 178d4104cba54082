--------------------------- MODULE MCInputSystem ---------------------------
(***************************************************************************)
(* The firmware left the keyboard's interrupt enabled and the mouse's      *)
(* interface disabled; the timer was open.  Taken for configurations, the  *)
(* key codes disable the keyboard or the mouse, and their interrupts.      *)
(***************************************************************************)
EXTENDS InputSystem

MCFirmwareConfigs == {97}
MCFirmwareMasks == {[master |-> Line \ {0}, slave |-> Line]}
MCKeyCodes == {42}
MCMouseBytes == {8}
=============================================================================
