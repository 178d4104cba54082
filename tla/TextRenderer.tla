---------------------------- MODULE TextRenderer ----------------------------
(***************************************************************************)
(* The text renderer (io/graphics/TextRenderer.cpp) as the running kernel  *)
(* uses it: the main thread prints, and the keyboard's interrupt handler   *)
(* (io/keyboard/PS2_Keyboard.cpp) echoes keys through the same             *)
(* g_TextRenderer, with nothing to keep them apart.                        *)
(*                                                                         *)
(* The handler runs behind an interrupt gate on the only processor, so a   *)
(* key is one step.  The main thread's steps are its loads and stores of   *)
(* CursorPosition, in program order: the kernel is built without           *)
(* optimisation.  A position is in characters, not in pixels.              *)
(***************************************************************************)
EXTENDS Integers

CONSTANTS
  Columns,     \* getBufferWidthCharacterCount
  Lines        \* getBufferHeightLineCount

ASSUME ScreenAssumption ==
  /\ Columns \in Nat \ {0} /\ Columns > 1
  /\ Lines \in Nat \ {0} /\ Lines > 1

VARIABLES
  CursorPosition,
  pc, chr,     \* where the main thread is in _printChar, and its argument
  loaded,      \* the coordinate it loaded last
  offset,      \* the position it passes to _putChar
  drawn,       \* history: the position last drawn or cleared by a print
               \* or a key; the mouse's dot, which moves no cursor, is left out
  before,      \* history: the cursor when the main thread began to print
  strikes      \* history: whether a key ever came in the middle of a print

vars == <<CursorPosition, pc, chr, loaded, offset, drawn, before, strikes>>

Character == {"glyph", "newline", "return"}

Origin == [X |-> 0, Y |-> 0]

OnScreen(pos) == pos.X < Columns /\ pos.Y < Lines

-----------------------------------------------------------------------------
(***************************************************************************)
(* The operations run from start to end: what each makes of the cursor.    *)
(***************************************************************************)

\* MUTANT FORM of newline: the line after the last counts as a line.
newlinePastEnd(cursor) ==
  [cursor EXCEPT !.Y = IF @ + 1 > Lines THEN 0 ELSE @ + 1]

\* '\n': down, and back to the top past the last line.
newline(cursor) ==
  [cursor EXCEPT !.Y = IF @ + 1 >= Lines THEN 0 ELSE @ + 1]

return(cursor) == [cursor EXCEPT !.X = 0]

\* MUTANT FORM of glyph: a line may be filled one character past its end.
glyphPastEnd(cursor) ==
  IF cursor.X >= Columns
    THEN IF cursor.Y + 1 >= Lines THEN Origin
                                  ELSE [X |-> 0, Y |-> cursor.Y + 1]
    ELSE [cursor EXCEPT !.X = @ + 1]

\* Any other character: right, then to the next line, then to the top.
glyph(cursor) ==
  IF cursor.X + 1 >= Columns
    THEN IF cursor.Y + 1 >= Lines THEN Origin
                                  ELSE [X |-> 0, Y |-> cursor.Y + 1]
    ELSE [cursor EXCEPT !.X = @ + 1]

printChar(cursor, c) ==
  CASE c = "newline" -> newline(cursor)
    [] c = "return"  -> return(cursor)
    [] c = "glyph"   -> glyph(cursor)

\* MUTANT FORM of clearChar: the top line is not looked for.
clearCharNoTop(cursor) ==
  IF cursor.X > 0 THEN [cursor EXCEPT !.X = @ - 1]
                  ELSE [X |-> Columns - 1, Y |-> cursor.Y - 1]

\* clearChar: left, then to the end of the line above, then to the bottom.
clearChar(cursor) ==
  CASE cursor.X > 0                  -> [cursor EXCEPT !.X = @ - 1]
    [] cursor.X = 0 /\ cursor.Y > 0  -> [X |-> Columns - 1, Y |-> cursor.Y - 1]
    [] cursor.X = 0 /\ cursor.Y = 0  -> [X |-> Columns - 1, Y |-> Lines - 1]

-----------------------------------------------------------------------------

Init ==
  /\ CursorPosition = Origin
  /\ pc = "idle" /\ chr = "glyph" /\ loaded = 0 /\ offset = Origin
  /\ drawn = Origin /\ before = Origin /\ strikes = "never"

(***************************************************************************)
(* The keyboard's interrupt handler: handlePS2_Keyboard.                   *)
(***************************************************************************)

Strike == strikes' = IF pc = "idle" THEN strikes ELSE "during"

\* A translated key may be any character: with a shift, '-' translates to
\* '\r' and '*' to '\n'.
EchoCharacter ==
  \E ascii \in Character :
    /\ CursorPosition' = printChar(CursorPosition, ascii)
    /\ drawn' = IF ascii = "glyph" THEN CursorPosition ELSE drawn

EchoEnter ==
  /\ CursorPosition' = return(newline(CursorPosition))
  /\ UNCHANGED drawn

\* The cursor moves before the character is cleared.
EchoBackspace ==
  /\ CursorPosition' = clearChar(CursorPosition)
  /\ drawn' = CursorPosition'

KeyboardInterrupt ==
  /\ EchoCharacter \/ EchoEnter \/ EchoBackspace
  /\ Strike
  /\ UNCHANGED <<pc, chr, loaded, offset, before>>

-----------------------------------------------------------------------------
(***************************************************************************)
(* The main thread: _printChar, one load or store of the cursor at a time. *)
(***************************************************************************)

Goto(here, next) == pc = here /\ pc' = next

Load(coordinate) ==
  /\ loaded' = CursorPosition[coordinate]
  /\ UNCHANGED <<CursorPosition, offset, drawn>>

Store(coordinate, value) ==
  /\ CursorPosition' = [CursorPosition EXCEPT ![coordinate] = value]
  /\ UNCHANGED <<loaded, offset, drawn>>

Test == UNCHANGED <<CursorPosition, loaded, offset, drawn>>

BeginPrint ==
  /\ pc = "idle"
  /\ chr' \in Character
  /\ pc' = CASE chr' = "newline" -> "newline: load Y"
             [] chr' = "return"  -> "return: store X"
             [] chr' = "glyph"   -> "glyph: pass"
  /\ before' = CursorPosition
  /\ strikes' = IF strikes = "never" THEN "never" ELSE "before"
  /\ UNCHANGED <<CursorPosition, loaded, offset, drawn>>

\* CursorPosition.Y += 1, and X kept with Y at 0 when that was the last line.
Newline ==
  \/ Goto("newline: load Y", "newline: store Y") /\ Load("Y")
  \/ Goto("newline: store Y", "newline: test Y") /\ Store("Y", loaded + 1)
  \/ /\ Goto("newline: test Y",
             IF CursorPosition.Y >= Lines THEN "newline: load X" ELSE "idle")
     /\ Test
  \/ Goto("newline: load X", "newline: store X") /\ Load("X")
  \/ Goto("newline: store X", "newline: reset Y") /\ Store("X", loaded)
  \/ Goto("newline: reset Y", "idle") /\ Store("Y", 0)

Return == Goto("return: store X", "idle") /\ Store("X", 0)

\* The two offsets passed to _putChar are loaded in either order.
Pass(coordinate, next) ==
  /\ offset' = [offset EXCEPT ![coordinate] = CursorPosition[coordinate]]
  /\ pc' = next
  /\ UNCHANGED <<CursorPosition, loaded, drawn>>

PassOffsets ==
  \/ pc = "glyph: pass" /\ (Pass("X", "glyph: pass Y") \/ Pass("Y", "glyph: pass X"))
  \/ pc = "glyph: pass X" /\ Pass("X", "glyph: draw")
  \/ pc = "glyph: pass Y" /\ Pass("Y", "glyph: draw")

PutChar ==
  /\ Goto("glyph: draw", "glyph: test X")
  /\ drawn' = offset
  /\ UNCHANGED <<CursorPosition, loaded, offset>>

\* The end of the line: X is stored before Y, then Y is tested again.
Wrap ==
  \/ Goto("wrap: load Y", "wrap: store X") /\ Load("Y")
  \/ Goto("wrap: store X", "wrap: store Y") /\ Store("X", 0)
  \/ Goto("wrap: store Y", "wrap: test Y") /\ Store("Y", loaded + 1)
  \/ /\ Goto("wrap: test Y",
             IF CursorPosition.Y >= Lines THEN "wrap: reset X" ELSE "idle")
     /\ Test
  \/ Goto("wrap: reset X", "wrap: reset Y") /\ Store("X", 0)
  \/ Goto("wrap: reset Y", "idle") /\ Store("Y", 0)

\* MUTANT FORM of Advance: the end of the line is tested too late.
AdvanceLate ==
  \/ /\ Goto("glyph: test X",
             IF CursorPosition.X >= Columns THEN "wrap: load Y"
                                            ELSE "advance: load X")
     /\ Test
  \/ Goto("advance: load X", "advance: store X") /\ Load("X")
  \/ Goto("advance: store X", "idle") /\ Store("X", loaded + 1)

Advance ==
  \/ /\ Goto("glyph: test X",
             IF CursorPosition.X + 1 >= Columns THEN "wrap: load Y"
                                                ELSE "advance: load X")
     /\ Test
  \/ Goto("advance: load X", "advance: store X") /\ Load("X")
  \/ Goto("advance: store X", "idle") /\ Store("X", loaded + 1)

PrintStep ==
  /\ Newline \/ Return \/ PassOffsets \/ PutChar \/ Wrap \/ Advance
  /\ UNCHANGED <<chr, before, strikes>>

Next == KeyboardInterrupt \/ BeginPrint \/ PrintStep

Spec == Init /\ [][Next]_vars

-----------------------------------------------------------------------------
(***************************************************************************)
(* Properties.                                                             *)
(***************************************************************************)

Position == [X : Nat, Y : Nat]

Location ==
  {"idle",
   "newline: load Y", "newline: store Y", "newline: test Y",
   "newline: load X", "newline: store X", "newline: reset Y",
   "return: store X",
   "glyph: pass", "glyph: pass X", "glyph: pass Y", "glyph: draw",
   "glyph: test X", "advance: load X", "advance: store X",
   "wrap: load Y", "wrap: store X", "wrap: store Y", "wrap: test Y",
   "wrap: reset X", "wrap: reset Y"}

Near == [X : 0 .. Columns, Y : 0 .. Lines]

TypeOK ==
  /\ CursorPosition \in Position
  /\ chr \in Character
  /\ loaded \in Nat /\ offset \in Position
  /\ drawn \in Position /\ before \in Position
  /\ strikes \in {"never", "before", "during"}
  /\ pc \in Location

\* However keys and prints interleave, the cursor and everything drawn stay
\* within one column and one line of the screen: updates lost between a load
\* and a store never add up.
OvershootsByOneAtMost == CursorPosition \in Near /\ drawn \in Near

\* Between prints the cursor is on a line of the screen again, although it
\* may be one column past its end.
IdleCursorOnALine == pc = "idle" => CursorPosition.Y < Lines

\* As long as keys come between prints and never inside one, everything is
\* drawn on the screen.
OverflowNeedsPreemption ==
  strikes = "never" =>
    OnScreen(drawn) /\ (pc = "idle" => OnScreen(CursorPosition))

\* A print no key struck has the effect of _printChar run in one piece, even
\* when an earlier one left the cursor past the end of its line.
UndisturbedPrintIsAtomic ==
  [][pc # "idle" /\ pc' = "idle" /\ strikes # "during" =>
       CursorPosition' = printChar(before, chr)]_vars

(***************************************************************************)
(* What the code's comments claim, and the code does not do.               *)
(***************************************************************************)

\* _printChar: "Prevent line overflows."
NoLineOverflow == drawn.X < Columns
=============================================================================
