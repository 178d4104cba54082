--------------------------- MODULE MCTranslations ---------------------------
(***************************************************************************)
(* The kernel's two translations, of scan codes to chars and of numbers to *)
(* text. They share nothing, so one rests while the other is under way: the *)
(* conversions are made with no shift key held, which is any of the starts.*)
(***************************************************************************)
EXTENDS Keyboard, Strings

MCBeyondTable == -1
MCOtherCodes == {2, 29, 56, 58, 72}
MCExtendedCodes == {42, 56, 72, 170, 182}

MCIntegerValues == -128 .. 255
MCHexValues ==
  {<<16 * a + b>> : a, b \in {0, 1, 9, 10, 15}} \cup {<<0, 0>>, <<255, 1>>, <<16, 171>>}
MCDecimalValues ==
  {-32768, -2057, -2048, -257, -256, -255, -1, 0, 1, 3, 255, 256, 384, 2559, 2560, 2561}
MCLiterals == {[i \in 1 .. n |-> 97] : n \in {0, 1, 15, 127, 128, 255}}

Init == KeyboardInit /\ StringsInit

Next ==
  \/ StringsInit /\ KeyboardNext /\ UNCHANGED stringsVars
  \/ KeyboardInit /\ held = {} /\ StringsNext /\ UNCHANGED keyboardVars

Spec == Init /\ [][Next]_<<keyboardVars, stringsVars>>
=============================================================================
