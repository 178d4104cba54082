------------------------------ MODULE Keyboard ------------------------------
(***************************************************************************)
(* The keyboard's driver (io/keyboard): what handlePS2_Keyboard and        *)
(* Translate make of the scan codes, against the keys that were struck.    *)
(* The codes come in the order the keyboard sent them, one step each; how  *)
(* they get there is in InputSystem, what an echo does to the screen in    *)
(* TextRenderer.                                                           *)
(***************************************************************************)
EXTENDS Integers, Sequences, FiniteSets

CONSTANTS
  BeyondTable,     \* the char that follows ASCIITable in memory
  OtherCodes,      \* codes of keys that are neither letters nor shifts
  ExtendedCodes,   \* codes that follow the prefix 0xe0
  MaxUnderWay      \* bound: codes sent and not handled yet

LEFT_SHIFT == 42
RIGHT_SHIFT == 54
ENTER == 28
BACKSPACE == 14
SPACEBAR == 57
PRESSED_TO_RELEASE_OFFSET == 128
PREFIX == 224                \* 0xe0

ShiftKeys == {LEFT_SHIFT, RIGHT_SHIFT}
Released(key) == key + PRESSED_TO_RELEASE_OFFSET
ShiftCodes == ShiftKeys \cup {Released(k) : k \in ShiftKeys}

\* The letters of a US keyboard, upper case, in the order of their codes.
Letters ==
  <<81, 87, 69, 82, 84, 89, 85, 73, 79, 80, 65, 83, 68, 70, 71, 72, 74, 75, 76,
    90, 88, 67, 86, 66, 78, 77>>
LetterCodes == (16 .. 25) \cup (30 .. 38) \cup (44 .. 50)

ASSUME CodesAssumption ==
  /\ BeyondTable \in -128 .. 127
  /\ OtherCodes \subseteq (1 .. 83) \ (ShiftKeys \cup LetterCodes)
  /\ ExtendedCodes \subseteq 1 .. 255
  /\ MaxUnderWay \in Nat

VARIABLES
  shift,      \* the shift keys whose flag is set
  held,       \* the shift keys held down
  sent,       \* the codes under way, oldest first
  intended,   \* history: of each, the char meant, or NoClaim
  known       \* history: shift keys whose last code is not made up

keyboardVars == <<shift, held, sent, intended, known>>

NoClaim == -1

-----------------------------------------------------------------------------
(***************************************************************************)
(* The driver.                                                             *)
(***************************************************************************)

\* Entry n of the code's table is the element n + 1 here; 0 is no character.
ASCIITable ==
  <<0, 0, 49, 50, 51, 52, 53, 54, 55, 56, 57, 48, 45, 61, 0, 0,
    113, 119, 101, 114, 116, 121, 117, 105, 111, 112, 91, 93, 0, 0,
    97, 115, 100, 102, 103, 104, 106, 107, 108, 59, 39, 96, 0, 92,
    122, 120, 99, 118, 98, 110, 109, 44, 46, 47, 0, 42, 0, 32>>

\* Code 58 passes Translate's test, and the last entry is 57.
Entry(scanCode) ==
  IF scanCode < Len(ASCIITable) THEN ASCIITable[scanCode + 1] ELSE BeyondTable

\* MUTANT FORM of Translate: only releases are kept from the table.
TranslateAnyPress(scanCode, isUpperCase) ==
  IF scanCode >= 128 THEN 0
                     ELSE Entry(scanCode) - (IF isUpperCase THEN 32 ELSE 0)

Translate(scanCode, isUpperCase) ==
  IF scanCode > 58 THEN 0
                   ELSE Entry(scanCode) - (IF isUpperCase THEN 32 ELSE 0)

\* MUTANT FORM of ShiftAfter: there is one flag for both keys.
ShiftAfterAnyRelease(pressed, scanCode) ==
  CASE scanCode \in ShiftKeys                       -> pressed \cup {scanCode}
    [] \E k \in ShiftKeys : scanCode = Released(k)  -> {}
    [] scanCode \notin ShiftCodes                   -> pressed

ShiftAfter(pressed, scanCode) ==
  CASE scanCode \in ShiftKeys            -> pressed \cup {scanCode}
    [] scanCode = Released(LEFT_SHIFT)   -> pressed \ {LEFT_SHIFT}
    [] scanCode = Released(RIGHT_SHIFT)  -> pressed \ {RIGHT_SHIFT}
    [] scanCode \notin ShiftCodes        -> pressed

\* MUTANT FORM of Echo: only the left shift key counts.
EchoLeftShift(pressed, scanCode) ==
  CASE scanCode \in ShiftCodes \cup {ENTER, BACKSPACE}  -> 0
    [] scanCode = SPACEBAR                              -> 32
    [] OTHER -> Translate(scanCode, LEFT_SHIFT \in pressed)

\* The char handed to the renderer; 0 when there is none.
Echo(pressed, scanCode) ==
  CASE scanCode \in ShiftCodes \cup {ENTER, BACKSPACE}  -> 0
    [] scanCode = SPACEBAR                              -> 32
    [] OTHER -> Translate(scanCode, pressed # {})

handlePS2_Keyboard ==
  /\ sent # <<>>
  /\ shift' = ShiftAfter(shift, Head(sent))
  /\ sent' = Tail(sent) /\ intended' = Tail(intended)
  /\ UNCHANGED <<held, known>>

-----------------------------------------------------------------------------
(***************************************************************************)
(* The keyboard.                                                           *)
(***************************************************************************)

\* A shift key may be held down already; the flags are clear.
KeyboardInit ==
  /\ shift = {} /\ sent = <<>> /\ intended = <<>>
  /\ held \in SUBSET ShiftKeys
  /\ known = ShiftKeys \ held

Send(codes, meant) ==
  /\ Len(sent) + Len(codes) <= MaxUnderWay
  /\ sent' = sent \o codes /\ intended' = intended \o meant
  /\ UNCHANGED shift

\* Pressed, or repeated while it is held; or released.
ShiftKey ==
  \E k \in ShiftKeys :
    /\ \/ held' = held \cup {k} /\ Send(<<k>>, <<NoClaim>>)
       \/ k \in held /\ held' = held \ {k} /\ Send(<<Released(k)>>, <<NoClaim>>)
    /\ known' = known \cup {k}

LetterOf(code) ==
  LET below == Cardinality({c \in LetterCodes : c <= code})
  IN IF held # {} THEN Letters[below] ELSE Letters[below] + 32

LetterKey ==
  \E code \in LetterCodes :
    /\ Send(<<code>>, <<IF known = ShiftKeys THEN LetterOf(code) ELSE NoClaim>>)
    /\ UNCHANGED <<held, known>>

OtherKey ==
  \E code \in OtherCodes \cup {Released(c) : c \in OtherCodes} :
    Send(<<code>>, <<NoClaim>>) /\ UNCHANGED <<held, known>>

\* Some extended keys send a shift they make up after the prefix.
ExtendedKey ==
  \E code \in ExtendedCodes :
    /\ Send(<<PREFIX, code>>, <<NoClaim, NoClaim>>)
    /\ known' = known \ {k \in ShiftKeys : code \in {k, Released(k)}}
    /\ UNCHANGED held

KeyboardNext ==
  \/ ShiftKey \/ LetterKey \/ OtherKey \/ ExtendedKey \/ handlePS2_Keyboard

KeyboardSpec == KeyboardInit /\ [][KeyboardNext]_keyboardVars

-----------------------------------------------------------------------------
(***************************************************************************)
(* Properties.                                                             *)
(***************************************************************************)

\* The flags pressed, after the first codes of a sequence are handled.
FlagsAfter(pressed, codes) ==
  LET flags[i \in 0 .. Len(codes)] ==
        IF i = 0 THEN pressed ELSE ShiftAfter(flags[i - 1], codes[i])
  IN flags

\* Each flag is right, once the codes under way are handled, from the first
\* time its key is pressed or released; a shift made up by an extended key puts
\* it wrong, and the key's next press or release puts it right again.
FlagsFollowKeys ==
  FlagsAfter(shift, sent)[Len(sent)] \cap known = held \cap known

\* While both flags are right, a letter is echoed in the case of the shift keys
\* held when it was struck, not when it is handled.
LettersKeepTheirCase ==
  sent # <<>> => Head(intended) \in {NoClaim, Echo(shift, Head(sent))}

\* What is echoed has a glyph in the font, with or without a shift flag, for
\* every key but Caps Lock (58), whose entry lies beyond the table, and under a
\* flag the keys of the table that have no char.
EchoHasAGlyph ==
  LET code    == Head(sent)
      noGlyph == code = 58 \/ (shift # {} /\ code < 58 /\ Entry(code) = 0)
  IN sent # <<>> /\ ~noGlyph => Echo(shift, code) \in 0 .. 127
=============================================================================
