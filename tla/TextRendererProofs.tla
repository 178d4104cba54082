------------------------- MODULE TextRendererProofs -------------------------
(***************************************************************************)
(* Proofs about TextRenderer for screens of every size.                    *)
(***************************************************************************)
EXTENDS TextRenderer, TLAPS

(***************************************************************************)
(* The inductive invariant, in three parts.                                *)
(***************************************************************************)

\* Where Y may have been stored past the last line and not yet been reset.
PastLastLine ==
  {"newline: test Y", "newline: load X", "newline: store X", "newline: reset Y",
   "wrap: test Y", "wrap: reset X", "wrap: reset Y"}

\* What a coordinate loaded before a store can be by now, whatever keys came.
Bounds ==
  /\ CursorPosition \in Near /\ offset \in Near /\ drawn \in Near
  /\ pc \notin PastLastLine => CursorPosition.Y < Lines
  /\ pc \in {"newline: store Y", "wrap: store X", "wrap: store Y"} => loaded < Lines
  /\ pc = "newline: store X" => loaded <= Columns
  /\ pc = "advance: load X" => CursorPosition.X < Columns
  /\ pc = "advance: store X" => loaded < Columns

\* What holds until a key strikes inside a print.
Quiet ==
  strikes = "never" =>
    /\ CursorPosition.X < Columns /\ OnScreen(offset) /\ OnScreen(drawn)
    /\ pc = "newline: store X" => loaded < Columns
    /\ pc = "advance: load X" => CursorPosition.X + 1 < Columns
    /\ pc = "advance: store X" => loaded + 1 < Columns

\* How far the print under way has come from the cursor it started at, if no
\* key struck it.
Moved(x, y) == CursorPosition.X = x /\ CursorPosition.Y = y

Undisturbed ==
  LET x == before.X
      y == before.Y
  IN
  /\ pc = "newline: load Y" => Moved(x, y)
  /\ pc = "newline: store Y" => Moved(x, y) /\ loaded = y
  /\ pc = "newline: test Y" => Moved(x, y + 1)
  /\ pc = "newline: load X" => Moved(x, y + 1) /\ y + 1 >= Lines
  /\ pc = "newline: store X" => Moved(x, y + 1) /\ y + 1 >= Lines /\ loaded = x
  /\ pc = "newline: reset Y" => Moved(x, y + 1) /\ y + 1 >= Lines
  /\ pc \in {"return: store X", "glyph: pass", "glyph: pass X", "glyph: pass Y",
             "glyph: draw", "glyph: test X"} => Moved(x, y)
  /\ pc = "advance: load X" => Moved(x, y) /\ x + 1 < Columns
  /\ pc = "advance: store X" => Moved(x, y) /\ x + 1 < Columns /\ loaded = x
  /\ pc = "wrap: load Y" => Moved(x, y) /\ x + 1 >= Columns
  /\ pc = "wrap: store X" => Moved(x, y) /\ x + 1 >= Columns /\ loaded = y
  /\ pc = "wrap: store Y" => Moved(0, y) /\ x + 1 >= Columns /\ loaded = y
  /\ pc = "wrap: test Y" => Moved(0, y + 1) /\ x + 1 >= Columns
  /\ pc \in {"wrap: reset X", "wrap: reset Y"} =>
       Moved(0, y + 1) /\ x + 1 >= Columns /\ y + 1 >= Lines

\* Which character is printed where.
Dispatch ==
  /\ pc \in {"newline: load Y", "newline: store Y", "newline: test Y",
             "newline: load X", "newline: store X", "newline: reset Y"}
       => chr = "newline"
  /\ pc = "return: store X" => chr = "return"
  /\ pc \in {"glyph: pass", "glyph: pass X", "glyph: pass Y", "glyph: draw",
             "glyph: test X", "advance: load X", "advance: store X",
             "wrap: load Y", "wrap: store X", "wrap: store Y", "wrap: test Y",
             "wrap: reset X", "wrap: reset Y"} => chr = "glyph"

IInv ==
  /\ TypeOK
  /\ Bounds
  /\ Quiet
  /\ Dispatch
  /\ strikes # "during" => Undisturbed

-----------------------------------------------------------------------------
(***************************************************************************)
(* Positions.                                                              *)
(***************************************************************************)

LEMMA NearPositions ==
  \A p : p \in Near <=> p \in Position /\ p.X <= Columns /\ p.Y <= Lines
BY ScreenAssumption DEF Near, Position

\* A key takes the cursor from near the screen onto the screen, but for the
\* line below it, which it leaves or stays on; only a key that draws there
\* draws off the screen.
LEMMA KeysStayNear ==
  ASSUME NEW c \in Near
  PROVE  /\ glyph(c) \in Near /\ glyph(c).X < Columns
         /\ newline(c) \in Near /\ newline(c).X = c.X
         /\ return(c) \in Near /\ return(c).X < Columns /\ return(c).Y = c.Y
         /\ return(newline(c)) \in Near /\ return(newline(c)).X < Columns
         /\ clearChar(c) \in Near /\ clearChar(c).X < Columns
         /\ c.Y < Lines => /\ glyph(c).Y < Lines
                           /\ newline(c).Y < Lines
                           /\ return(newline(c)).Y < Lines
                           /\ clearChar(c).Y < Lines
<1>1. c \in [X : 0 .. Columns, Y : 0 .. Lines]
  BY DEF Near
<1>2. /\ glyph(c) \in Near /\ glyph(c).X < Columns
      /\ c.Y < Lines => glyph(c).Y < Lines
  BY <1>1, ScreenAssumption DEF glyph, Near, Origin
<1>3. /\ newline(c) \in Near /\ newline(c).X = c.X
      /\ c.Y < Lines => newline(c).Y < Lines
  BY <1>1, ScreenAssumption DEF newline, Near
<1>return. \A d \in Near : return(d) \in Near /\ return(d).X = 0 /\ return(d).Y = d.Y
  BY ScreenAssumption DEF return, Near
<1>4. /\ clearChar(c) \in Near /\ clearChar(c).X < Columns
      /\ c.Y < Lines => clearChar(c).Y < Lines
  <2>1. CASE c.X > 0
    BY <1>1, <2>1, ScreenAssumption DEF clearChar, Near
  <2>2. CASE c.X = 0 /\ c.Y > 0
    BY <1>1, <2>2, ScreenAssumption DEF clearChar, Near
  <2>3. CASE c.X = 0 /\ c.Y = 0
    BY <1>1, <2>3, ScreenAssumption DEF clearChar, Near
  <2> QED
    BY <1>1, <2>1, <2>2, <2>3
<1> QED
  BY <1>2, <1>3, <1>return, <1>4, ScreenAssumption

-----------------------------------------------------------------------------
(***************************************************************************)
(* The invariant, action by action.                                        *)
(***************************************************************************)

LEMMA InitIInv == Init => IInv
<1> SUFFICES ASSUME Init PROVE IInv
  OBVIOUS
<1>1. Origin \in Near /\ Origin \in Position /\ OnScreen(Origin)
  BY ScreenAssumption DEF Origin, Near, Position, OnScreen
<1>2. Origin.X = 0 /\ Origin.Y = 0
  BY DEF Origin
<1>3. TypeOK
  BY <1>1 DEF Init, TypeOK, Location, Character
<1> QED
  BY <1>1, <1>2, <1>3, ScreenAssumption
     DEF Init, IInv, Bounds, PastLastLine, Quiet, Dispatch, Undisturbed

LEMMA StutterIInv == IInv /\ UNCHANGED vars => IInv'
<1> SUFFICES ASSUME IInv, UNCHANGED vars PROVE IInv'
  OBVIOUS
<1>1. TypeOK' /\ Bounds'
  BY DEF IInv, TypeOK, Bounds, vars
<1>2. Quiet' /\ Dispatch'
  BY DEF IInv, Quiet, OnScreen, Dispatch, vars
<1>3. strikes' # "during" => Undisturbed'
  BY DEF IInv, Undisturbed, Moved, vars
<1> QED
  BY <1>1, <1>2, <1>3 DEF IInv

LEMMA KeyboardInterruptIInv == IInv /\ KeyboardInterrupt => IInv'
<1> SUFFICES ASSUME IInv, KeyboardInterrupt PROVE IInv'
  OBVIOUS
<1>1. /\ pc' = pc /\ chr' = chr /\ loaded' = loaded /\ offset' = offset
      /\ before' = before
      /\ strikes' = IF pc = "idle" THEN strikes ELSE "during"
  BY DEF KeyboardInterrupt, Strike
<1>2. \/ CursorPosition \in Near /\ OnScreen(CursorPosition)
      \/ pc # "idle"
      \/ strikes # "never"
  BY DEF IInv, Bounds, Quiet, OnScreen, PastLastLine
<1>3. /\ CursorPosition' \in Near
      /\ CursorPosition.X < Columns => CursorPosition'.X < Columns
      /\ CursorPosition.Y < Lines => CursorPosition'.Y < Lines
      /\ drawn' \in {drawn, CursorPosition, CursorPosition'}
  <2> DEFINE c == CursorPosition
  <2>1. c \in Near
    BY DEF IInv, Bounds
  <2>2. CASE EchoCharacter
    <3>1. PICK ascii \in Character :
            /\ CursorPosition' = printChar(c, ascii)
            /\ drawn' = IF ascii = "glyph" THEN c ELSE drawn
      BY <2>2 DEF EchoCharacter
    <3>2. CursorPosition' \in {glyph(c), newline(c), return(c)}
      BY <3>1 DEF printChar, Character
    <3> QED
      BY <2>1, <3>1, <3>2, KeysStayNear
  <2>3. CASE EchoEnter
    BY <2>1, <2>3, KeysStayNear DEF EchoEnter
  <2>4. CASE EchoBackspace
    BY <2>1, <2>4, KeysStayNear DEF EchoBackspace
  <2> QED
    BY <2>2, <2>3, <2>4 DEF KeyboardInterrupt
<1>4. drawn' \in Near
  BY <1>3 DEF IInv, Bounds
<1>5. TypeOK'
  BY <1>1, <1>3, <1>4, NearPositions DEF IInv, TypeOK
<1>6. Bounds'
  BY <1>1, <1>3, <1>4 DEF IInv, Bounds, PastLastLine
<1>7. Quiet'
  <2> SUFFICES ASSUME strikes' = "never" PROVE Quiet'
    BY DEF Quiet
  <2>1. pc = "idle" /\ strikes = "never"
    BY <1>1
  <2>2. OnScreen(CursorPosition) /\ OnScreen(drawn) /\ OnScreen(offset)
    BY <2>1 DEF IInv, Bounds, Quiet, OnScreen, PastLastLine
  <2>3. OnScreen(CursorPosition')
    BY <1>3, <2>2 DEF OnScreen
  <2> QED
    BY <1>1, <1>3, <2>1, <2>2, <2>3 DEF Quiet, OnScreen
<1>8. Dispatch'
  BY <1>1 DEF IInv, Dispatch
<1>9. strikes' # "during" => Undisturbed'
  BY <1>1 DEF Undisturbed
<1> QED
  BY <1>5, <1>6, <1>7, <1>8, <1>9 DEF IInv

LEMMA PrintIInv == IInv /\ BeginPrint => IInv'
<1> SUFFICES ASSUME IInv, BeginPrint PROVE IInv'
  OBVIOUS
<1>1. /\ pc = "idle" /\ chr' \in Character /\ before' = CursorPosition
      /\ strikes' = IF strikes = "never" THEN "never" ELSE "before"
      /\ CursorPosition' = CursorPosition /\ loaded' = loaded
      /\ offset' = offset /\ drawn' = drawn
  BY DEF BeginPrint
<1>2. \/ chr' = "newline" /\ pc' = "newline: load Y"
      \/ chr' = "return" /\ pc' = "return: store X"
      \/ chr' = "glyph" /\ pc' = "glyph: pass"
  BY <1>1 DEF BeginPrint, Character
<1>3. TypeOK'
  BY <1>1, <1>2 DEF IInv, TypeOK, Location
<1>4. Bounds'
  BY <1>1, <1>2 DEF IInv, Bounds, PastLastLine
<1>5. Quiet'
  BY <1>1, <1>2 DEF IInv, Quiet, OnScreen
<1>6. Dispatch'
  BY <1>2 DEF Dispatch
<1>7. Undisturbed'
  BY <1>1, <1>2 DEF Undisturbed, Moved
<1> QED
  BY <1>3, <1>4, <1>5, <1>6, <1>7 DEF IInv

\* What a step that loads a coordinate, stores one, or tests one leaves.
LEMMA LoadEffect ==
  ASSUME IInv, NEW c \in {"X", "Y"}, Load(c)
  PROVE  /\ CursorPosition' = CursorPosition /\ offset' = offset /\ drawn' = drawn
         /\ loaded' = CursorPosition[c] /\ loaded' \in Nat
BY DEF IInv, TypeOK, Position, Load

LEMMA StoreEffect ==
  ASSUME IInv, NEW value \in Nat
  PROVE  /\ Store("X", value) =>
              /\ CursorPosition' \in Position
              /\ CursorPosition'.X = value /\ CursorPosition'.Y = CursorPosition.Y
              /\ loaded' = loaded /\ offset' = offset /\ drawn' = drawn
         /\ Store("Y", value) =>
              /\ CursorPosition' \in Position
              /\ CursorPosition'.Y = value /\ CursorPosition'.X = CursorPosition.X
              /\ loaded' = loaded /\ offset' = offset /\ drawn' = drawn
BY DEF IInv, TypeOK, Position, Store

LEMMA Coordinates ==
  ASSUME IInv
  PROVE  /\ CursorPosition.X \in Nat /\ CursorPosition.Y \in Nat
         /\ CursorPosition.X <= Columns /\ CursorPosition.Y <= Lines
         /\ before.X \in Nat /\ before.Y \in Nat /\ loaded \in Nat
         /\ Columns \in Nat /\ Lines \in Nat /\ Columns > 1 /\ Lines > 1
<1>1. CursorPosition \in Position /\ CursorPosition.X <= Columns /\ CursorPosition.Y <= Lines
  BY NearPositions DEF IInv, Bounds
<1>2. before \in Position /\ loaded \in Nat
  BY DEF IInv, TypeOK
<1> QED
  BY <1>1, <1>2, ScreenAssumption DEF Position

\* A step of the print under way keeps the invariant if it keeps the bounds,
\* the quiet screen and the trace of the print.
LEMMA StepKeeps ==
  ASSUME IInv, UNCHANGED <<chr, before, strikes>>, offset' = offset,
         drawn' = drawn, loaded' \in Nat, CursorPosition' \in Position,
         pc' \in Location,
         CursorPosition'.X <= Columns, CursorPosition'.Y <= Lines
  PROVE  TypeOK' /\ CursorPosition' \in Near /\ offset' \in Near /\ drawn' \in Near
BY NearPositions DEF IInv, TypeOK, Bounds

LEMMA NewlineIInv ==
  ASSUME IInv, Newline, UNCHANGED <<chr, before, strikes>>
  PROVE  IInv'
<1>1. chr' = chr /\ before' = before /\ strikes' = strikes
  OBVIOUS
<1>2. /\ CursorPosition.X \in Nat /\ CursorPosition.Y \in Nat
      /\ CursorPosition.X <= Columns /\ CursorPosition.Y <= Lines
      /\ before.X \in Nat /\ before.Y \in Nat /\ loaded \in Nat
      /\ Columns \in Nat /\ Lines \in Nat /\ Columns > 1 /\ Lines > 1
      /\ CursorPosition \in Position
  BY Coordinates DEF IInv, TypeOK
<1>3. CASE Goto("newline: load Y", "newline: store Y") /\ Load("Y")
  <2>2. /\ pc = "newline: load Y" /\ pc' = "newline: store Y"
        /\ CursorPosition' = CursorPosition /\ offset' = offset /\ drawn' = drawn
    BY <1>3, LoadEffect DEF Goto
  <2>eff. /\ CursorPosition'.X = CursorPosition.X /\ CursorPosition'.Y = CursorPosition.Y
        /\ loaded' = CursorPosition.Y /\ loaded' \in Nat
    BY <1>3, LoadEffect
  <2>3. CursorPosition.Y < Lines
    BY <2>2 DEF IInv, Bounds, PastLastLine
  <2>4. CursorPosition'.X <= Columns /\ CursorPosition'.Y <= Lines
    BY <1>2, <2>eff, <2>3
  <2>5. TypeOK' /\ CursorPosition' \in Near /\ offset' \in Near /\ drawn' \in Near
    BY <2>2, <2>eff, <2>4, StepKeeps, <1>1, <1>2 DEF Location
  <2>6. loaded' < Lines /\ CursorPosition'.Y < Lines
    BY <1>2, <2>eff, <2>3
  <2>7. Bounds'
    BY <2>2, <2>eff, <2>5, <2>6 DEF Bounds, PastLastLine
  <2>8. Quiet'
    <3> SUFFICES ASSUME strikes' = "never" PROVE Quiet'
      BY DEF Quiet
    <3>1. /\ CursorPosition.X < Columns /\ OnScreen(offset) /\ OnScreen(drawn)
      BY <1>1, <2>2 DEF IInv, Quiet
    <3>2. CursorPosition'.X < Columns
      BY <1>2, <2>eff, <3>1
    <3> QED
      BY <2>2, <2>eff, <3>1, <3>2 DEF Quiet, OnScreen
  <2>9. Dispatch' /\ (strikes' # "during" => Undisturbed')
    BY <1>1, <1>2, <2>2, <2>eff DEF IInv, Dispatch, Undisturbed, Moved
  <2> QED
    BY <2>5, <2>7, <2>8, <2>9 DEF IInv
<1>4. CASE Goto("newline: store Y", "newline: test Y") /\ Store("Y", loaded + 1)
  <2>1. loaded + 1 \in Nat
    BY <1>2
  <2>2. /\ pc = "newline: store Y" /\ pc' = "newline: test Y"
        /\ CursorPosition' \in Position /\ offset' = offset /\ drawn' = drawn
    BY <1>4, <2>1, StoreEffect DEF Goto
  <2>eff. /\ CursorPosition'.Y = loaded + 1 /\ CursorPosition'.X = CursorPosition.X
        /\ loaded' = loaded /\ loaded' \in Nat
    BY <1>2, <1>4, <2>1, StoreEffect
  <2>3. loaded < Lines
    BY <2>2 DEF IInv, Bounds, PastLastLine
  <2>4. CursorPosition'.X <= Columns /\ CursorPosition'.Y <= Lines
    BY <1>2, <2>eff, <2>3
  <2>5. TypeOK' /\ CursorPosition' \in Near /\ offset' \in Near /\ drawn' \in Near
    BY <2>2, <2>eff, <2>4, StepKeeps, <1>1, <1>2 DEF Location
  <2>7. Bounds'
    BY <2>2, <2>eff, <2>5 DEF Bounds, PastLastLine
  <2>8. Quiet'
    <3> SUFFICES ASSUME strikes' = "never" PROVE Quiet'
      BY DEF Quiet
    <3>1. /\ CursorPosition.X < Columns /\ OnScreen(offset) /\ OnScreen(drawn)
      BY <1>1, <2>2 DEF IInv, Quiet
    <3>2. CursorPosition'.X < Columns
      BY <1>2, <2>eff, <3>1
    <3> QED
      BY <2>2, <2>eff, <3>1, <3>2 DEF Quiet, OnScreen
  <2>9. Dispatch' /\ (strikes' # "during" => Undisturbed')
    BY <1>1, <1>2, <2>2, <2>eff DEF IInv, Dispatch, Undisturbed, Moved
  <2> QED
    BY <2>5, <2>7, <2>8, <2>9 DEF IInv
<1>5. CASE /\ Goto("newline: test Y",
                 IF CursorPosition.Y >= Lines THEN "newline: load X" ELSE "idle")
           /\ Test
  <2>1. \/ CursorPosition.Y >= Lines /\ pc' = "newline: load X"
        \/ ~(CursorPosition.Y >= Lines) /\ pc' = "idle"
    BY <1>5 DEF Goto
  <2>2. /\ pc = "newline: test Y"
        /\ CursorPosition' = CursorPosition /\ offset' = offset /\ drawn' = drawn
    BY <1>5 DEF Goto, Test
  <2>eff. /\ CursorPosition'.X = CursorPosition.X /\ CursorPosition'.Y = CursorPosition.Y
        /\ loaded' = loaded /\ loaded' \in Nat
    BY <1>2, <1>5 DEF Test
  <2>4. CursorPosition'.X <= Columns /\ CursorPosition'.Y <= Lines
    BY <1>2, <2>eff
  <2>5. TypeOK' /\ CursorPosition' \in Near /\ offset' \in Near /\ drawn' \in Near
    BY <2>1, <2>2, <2>eff, <2>4, StepKeeps, <1>1, <1>2 DEF Location
  <2>6. pc' = "idle" => CursorPosition'.Y < Lines
    BY <1>2, <2>eff, <2>1
  <2>7. Bounds'
    BY <2>1, <2>2, <2>eff, <2>5, <2>6 DEF Bounds, PastLastLine
  <2>8. Quiet'
    <3> SUFFICES ASSUME strikes' = "never" PROVE Quiet'
      BY DEF Quiet
    <3>1. /\ CursorPosition.X < Columns /\ OnScreen(offset) /\ OnScreen(drawn)
      BY <1>1, <2>2 DEF IInv, Quiet
    <3>2. CursorPosition'.X < Columns
      BY <1>2, <2>eff, <3>1, <2>1
    <3> QED
      BY <2>1, <2>2, <2>eff, <3>1, <3>2 DEF Quiet, OnScreen
  <2>9. Dispatch' /\ (strikes' # "during" => Undisturbed')
    BY <1>1, <1>2, <2>1, <2>2, <2>eff DEF IInv, Dispatch, Undisturbed, Moved
  <2> QED
    BY <2>5, <2>7, <2>8, <2>9 DEF IInv
<1>6. CASE Goto("newline: load X", "newline: store X") /\ Load("X")
  <2>2. /\ pc = "newline: load X" /\ pc' = "newline: store X"
        /\ CursorPosition' = CursorPosition /\ offset' = offset /\ drawn' = drawn
    BY <1>6, LoadEffect DEF Goto
  <2>eff. /\ CursorPosition'.X = CursorPosition.X /\ CursorPosition'.Y = CursorPosition.Y
        /\ loaded' = CursorPosition.X /\ loaded' \in Nat
    BY <1>6, LoadEffect
  <2>4. CursorPosition'.X <= Columns /\ CursorPosition'.Y <= Lines
    BY <1>2, <2>eff
  <2>5. TypeOK' /\ CursorPosition' \in Near /\ offset' \in Near /\ drawn' \in Near
    BY <2>2, <2>eff, <2>4, StepKeeps, <1>1, <1>2 DEF Location
  <2>6. loaded' <= Columns
    BY <1>2, <2>eff
  <2>7. Bounds'
    BY <2>2, <2>eff, <2>5, <2>6 DEF Bounds, PastLastLine
  <2>8. Quiet'
    <3> SUFFICES ASSUME strikes' = "never" PROVE Quiet'
      BY DEF Quiet
    <3>1. /\ CursorPosition.X < Columns /\ OnScreen(offset) /\ OnScreen(drawn)
      BY <1>1, <2>2 DEF IInv, Quiet
    <3>2. /\ CursorPosition'.X < Columns
          /\ loaded' < Columns
      BY <1>2, <2>eff, <3>1
    <3> QED
      BY <2>2, <2>eff, <3>1, <3>2 DEF Quiet, OnScreen
  <2>9. Dispatch' /\ (strikes' # "during" => Undisturbed')
    BY <1>1, <1>2, <2>2, <2>eff DEF IInv, Dispatch, Undisturbed, Moved
  <2> QED
    BY <2>5, <2>7, <2>8, <2>9 DEF IInv
<1>7. CASE Goto("newline: store X", "newline: reset Y") /\ Store("X", loaded)
  <2>1. loaded \in Nat
    BY <1>2
  <2>2. /\ pc = "newline: store X" /\ pc' = "newline: reset Y"
        /\ CursorPosition' \in Position /\ offset' = offset /\ drawn' = drawn
    BY <1>7, <2>1, StoreEffect DEF Goto
  <2>eff. /\ CursorPosition'.X = loaded /\ CursorPosition'.Y = CursorPosition.Y
        /\ loaded' = loaded /\ loaded' \in Nat
    BY <1>2, <1>7, <2>1, StoreEffect
  <2>3. loaded <= Columns
    BY <2>2 DEF IInv, Bounds, PastLastLine
  <2>4. CursorPosition'.X <= Columns /\ CursorPosition'.Y <= Lines
    BY <1>2, <2>eff, <2>3
  <2>5. TypeOK' /\ CursorPosition' \in Near /\ offset' \in Near /\ drawn' \in Near
    BY <2>2, <2>eff, <2>4, StepKeeps, <1>1, <1>2 DEF Location
  <2>7. Bounds'
    BY <2>2, <2>eff, <2>5 DEF Bounds, PastLastLine
  <2>8. Quiet'
    <3> SUFFICES ASSUME strikes' = "never" PROVE Quiet'
      BY DEF Quiet
    <3>1. /\ CursorPosition.X < Columns /\ OnScreen(offset) /\ OnScreen(drawn)
          /\ loaded < Columns
      BY <1>1, <2>2 DEF IInv, Quiet
    <3>2. CursorPosition'.X < Columns
      BY <1>2, <2>eff, <3>1
    <3> QED
      BY <2>2, <2>eff, <3>1, <3>2 DEF Quiet, OnScreen
  <2>9. Dispatch' /\ (strikes' # "during" => Undisturbed')
    BY <1>1, <1>2, <2>2, <2>eff DEF IInv, Dispatch, Undisturbed, Moved
  <2> QED
    BY <2>5, <2>7, <2>8, <2>9 DEF IInv
<1>8. CASE Goto("newline: reset Y", "idle") /\ Store("Y", 0)
  <2>1. 0 \in Nat
    BY <1>2
  <2>2. /\ pc = "newline: reset Y" /\ pc' = "idle"
        /\ CursorPosition' \in Position /\ offset' = offset /\ drawn' = drawn
    BY <1>8, <2>1, StoreEffect DEF Goto
  <2>eff. /\ CursorPosition'.Y = 0 /\ CursorPosition'.X = CursorPosition.X
        /\ loaded' = loaded /\ loaded' \in Nat
    BY <1>2, <1>8, <2>1, StoreEffect
  <2>4. CursorPosition'.X <= Columns /\ CursorPosition'.Y <= Lines
    BY <1>2, <2>eff
  <2>5. TypeOK' /\ CursorPosition' \in Near /\ offset' \in Near /\ drawn' \in Near
    BY <2>2, <2>eff, <2>4, StepKeeps, <1>1, <1>2 DEF Location
  <2>6. CursorPosition'.Y < Lines
    BY <1>2, <2>eff
  <2>7. Bounds'
    BY <2>2, <2>eff, <2>5, <2>6 DEF Bounds, PastLastLine
  <2>8. Quiet'
    <3> SUFFICES ASSUME strikes' = "never" PROVE Quiet'
      BY DEF Quiet
    <3>1. /\ CursorPosition.X < Columns /\ OnScreen(offset) /\ OnScreen(drawn)
      BY <1>1, <2>2 DEF IInv, Quiet
    <3>2. CursorPosition'.X < Columns
      BY <1>2, <2>eff, <3>1
    <3> QED
      BY <2>2, <2>eff, <3>1, <3>2 DEF Quiet, OnScreen
  <2>9. Dispatch' /\ (strikes' # "during" => Undisturbed')
    BY <1>1, <1>2, <2>2, <2>eff DEF IInv, Dispatch, Undisturbed, Moved
  <2> QED
    BY <2>5, <2>7, <2>8, <2>9 DEF IInv
<1> QED
  BY <1>3, <1>4, <1>5, <1>6, <1>7, <1>8 DEF Newline

LEMMA ReturnIInv ==
  ASSUME IInv, Return, UNCHANGED <<chr, before, strikes>>
  PROVE  IInv'
<1>1. chr' = chr /\ before' = before /\ strikes' = strikes
  OBVIOUS
<1>2. /\ CursorPosition.X \in Nat /\ CursorPosition.Y \in Nat
      /\ CursorPosition.X <= Columns /\ CursorPosition.Y <= Lines
      /\ before.X \in Nat /\ before.Y \in Nat /\ loaded \in Nat
      /\ Columns \in Nat /\ Lines \in Nat /\ Columns > 1 /\ Lines > 1
      /\ CursorPosition \in Position
  BY Coordinates DEF IInv, TypeOK
<1>3. CASE Goto("return: store X", "idle") /\ Store("X", 0)
  <2>1. 0 \in Nat
    BY <1>2
  <2>2. /\ pc = "return: store X" /\ pc' = "idle"
        /\ CursorPosition' \in Position /\ offset' = offset /\ drawn' = drawn
    BY <1>3, <2>1, StoreEffect DEF Goto
  <2>eff. /\ CursorPosition'.X = 0 /\ CursorPosition'.Y = CursorPosition.Y
        /\ loaded' = loaded /\ loaded' \in Nat
    BY <1>2, <1>3, <2>1, StoreEffect
  <2>3. CursorPosition.Y < Lines
    BY <2>2 DEF IInv, Bounds, PastLastLine
  <2>4. CursorPosition'.X <= Columns /\ CursorPosition'.Y <= Lines
    BY <1>2, <2>eff, <2>3
  <2>5. TypeOK' /\ CursorPosition' \in Near /\ offset' \in Near /\ drawn' \in Near
    BY <2>2, <2>eff, <2>4, StepKeeps, <1>1, <1>2 DEF Location
  <2>6. CursorPosition'.Y < Lines
    BY <1>2, <2>eff, <2>3
  <2>7. Bounds'
    BY <2>2, <2>eff, <2>5, <2>6 DEF Bounds, PastLastLine
  <2>8. Quiet'
    <3> SUFFICES ASSUME strikes' = "never" PROVE Quiet'
      BY DEF Quiet
    <3>1. /\ CursorPosition.X < Columns /\ OnScreen(offset) /\ OnScreen(drawn)
      BY <1>1, <2>2 DEF IInv, Quiet
    <3>2. CursorPosition'.X < Columns
      BY <1>2, <2>eff, <3>1
    <3> QED
      BY <2>2, <2>eff, <3>1, <3>2 DEF Quiet, OnScreen
  <2>9. Dispatch' /\ (strikes' # "during" => Undisturbed')
    BY <1>1, <1>2, <2>2, <2>eff DEF IInv, Dispatch, Undisturbed, Moved
  <2> QED
    BY <2>5, <2>7, <2>8, <2>9 DEF IInv
<1> QED
  BY <1>3 DEF Return

LEMMA WrapIInv ==
  ASSUME IInv, Wrap, UNCHANGED <<chr, before, strikes>>
  PROVE  IInv'
<1>1. chr' = chr /\ before' = before /\ strikes' = strikes
  OBVIOUS
<1>2. /\ CursorPosition.X \in Nat /\ CursorPosition.Y \in Nat
      /\ CursorPosition.X <= Columns /\ CursorPosition.Y <= Lines
      /\ before.X \in Nat /\ before.Y \in Nat /\ loaded \in Nat
      /\ Columns \in Nat /\ Lines \in Nat /\ Columns > 1 /\ Lines > 1
      /\ CursorPosition \in Position
  BY Coordinates DEF IInv, TypeOK
<1>3. CASE Goto("wrap: load Y", "wrap: store X") /\ Load("Y")
  <2>2. /\ pc = "wrap: load Y" /\ pc' = "wrap: store X"
        /\ CursorPosition' = CursorPosition /\ offset' = offset /\ drawn' = drawn
    BY <1>3, LoadEffect DEF Goto
  <2>eff. /\ CursorPosition'.X = CursorPosition.X /\ CursorPosition'.Y = CursorPosition.Y
        /\ loaded' = CursorPosition.Y /\ loaded' \in Nat
    BY <1>3, LoadEffect
  <2>3. CursorPosition.Y < Lines
    BY <2>2 DEF IInv, Bounds, PastLastLine
  <2>4. CursorPosition'.X <= Columns /\ CursorPosition'.Y <= Lines
    BY <1>2, <2>eff, <2>3
  <2>5. TypeOK' /\ CursorPosition' \in Near /\ offset' \in Near /\ drawn' \in Near
    BY <2>2, <2>eff, <2>4, StepKeeps, <1>1, <1>2 DEF Location
  <2>6. loaded' < Lines /\ CursorPosition'.Y < Lines
    BY <1>2, <2>eff, <2>3
  <2>7. Bounds'
    BY <2>2, <2>eff, <2>5, <2>6 DEF Bounds, PastLastLine
  <2>8. Quiet'
    <3> SUFFICES ASSUME strikes' = "never" PROVE Quiet'
      BY DEF Quiet
    <3>1. /\ CursorPosition.X < Columns /\ OnScreen(offset) /\ OnScreen(drawn)
      BY <1>1, <2>2 DEF IInv, Quiet
    <3>2. CursorPosition'.X < Columns
      BY <1>2, <2>eff, <3>1
    <3> QED
      BY <2>2, <2>eff, <3>1, <3>2 DEF Quiet, OnScreen
  <2>9. Dispatch' /\ (strikes' # "during" => Undisturbed')
    BY <1>1, <1>2, <2>2, <2>eff DEF IInv, Dispatch, Undisturbed, Moved
  <2> QED
    BY <2>5, <2>7, <2>8, <2>9 DEF IInv
<1>4. CASE Goto("wrap: store X", "wrap: store Y") /\ Store("X", 0)
  <2>1. 0 \in Nat
    BY <1>2
  <2>2. /\ pc = "wrap: store X" /\ pc' = "wrap: store Y"
        /\ CursorPosition' \in Position /\ offset' = offset /\ drawn' = drawn
    BY <1>4, <2>1, StoreEffect DEF Goto
  <2>eff. /\ CursorPosition'.X = 0 /\ CursorPosition'.Y = CursorPosition.Y
        /\ loaded' = loaded /\ loaded' \in Nat
    BY <1>2, <1>4, <2>1, StoreEffect
  <2>3. CursorPosition.Y < Lines /\ loaded < Lines
    BY <2>2 DEF IInv, Bounds, PastLastLine
  <2>4. CursorPosition'.X <= Columns /\ CursorPosition'.Y <= Lines
    BY <1>2, <2>eff, <2>3
  <2>5. TypeOK' /\ CursorPosition' \in Near /\ offset' \in Near /\ drawn' \in Near
    BY <2>2, <2>eff, <2>4, StepKeeps, <1>1, <1>2 DEF Location
  <2>6. CursorPosition'.Y < Lines /\ loaded' < Lines
    BY <1>2, <2>eff, <2>3
  <2>7. Bounds'
    BY <2>2, <2>eff, <2>5, <2>6 DEF Bounds, PastLastLine
  <2>8. Quiet'
    <3> SUFFICES ASSUME strikes' = "never" PROVE Quiet'
      BY DEF Quiet
    <3>1. /\ CursorPosition.X < Columns /\ OnScreen(offset) /\ OnScreen(drawn)
      BY <1>1, <2>2 DEF IInv, Quiet
    <3>2. CursorPosition'.X < Columns
      BY <1>2, <2>eff, <3>1
    <3> QED
      BY <2>2, <2>eff, <3>1, <3>2 DEF Quiet, OnScreen
  <2>9. Dispatch' /\ (strikes' # "during" => Undisturbed')
    BY <1>1, <1>2, <2>2, <2>eff DEF IInv, Dispatch, Undisturbed, Moved
  <2> QED
    BY <2>5, <2>7, <2>8, <2>9 DEF IInv
<1>5. CASE Goto("wrap: store Y", "wrap: test Y") /\ Store("Y", loaded + 1)
  <2>1. loaded + 1 \in Nat
    BY <1>2
  <2>2. /\ pc = "wrap: store Y" /\ pc' = "wrap: test Y"
        /\ CursorPosition' \in Position /\ offset' = offset /\ drawn' = drawn
    BY <1>5, <2>1, StoreEffect DEF Goto
  <2>eff. /\ CursorPosition'.Y = loaded + 1 /\ CursorPosition'.X = CursorPosition.X
        /\ loaded' = loaded /\ loaded' \in Nat
    BY <1>2, <1>5, <2>1, StoreEffect
  <2>3. loaded < Lines
    BY <2>2 DEF IInv, Bounds, PastLastLine
  <2>4. CursorPosition'.X <= Columns /\ CursorPosition'.Y <= Lines
    BY <1>2, <2>eff, <2>3
  <2>5. TypeOK' /\ CursorPosition' \in Near /\ offset' \in Near /\ drawn' \in Near
    BY <2>2, <2>eff, <2>4, StepKeeps, <1>1, <1>2 DEF Location
  <2>7. Bounds'
    BY <2>2, <2>eff, <2>5 DEF Bounds, PastLastLine
  <2>8. Quiet'
    <3> SUFFICES ASSUME strikes' = "never" PROVE Quiet'
      BY DEF Quiet
    <3>1. /\ CursorPosition.X < Columns /\ OnScreen(offset) /\ OnScreen(drawn)
      BY <1>1, <2>2 DEF IInv, Quiet
    <3>2. CursorPosition'.X < Columns
      BY <1>2, <2>eff, <3>1
    <3> QED
      BY <2>2, <2>eff, <3>1, <3>2 DEF Quiet, OnScreen
  <2>9. Dispatch' /\ (strikes' # "during" => Undisturbed')
    BY <1>1, <1>2, <2>2, <2>eff DEF IInv, Dispatch, Undisturbed, Moved
  <2> QED
    BY <2>5, <2>7, <2>8, <2>9 DEF IInv
<1>6. CASE /\ Goto("wrap: test Y",
                 IF CursorPosition.Y >= Lines THEN "wrap: reset X" ELSE "idle")
           /\ Test
  <2>1. \/ CursorPosition.Y >= Lines /\ pc' = "wrap: reset X"
        \/ ~(CursorPosition.Y >= Lines) /\ pc' = "idle"
    BY <1>6 DEF Goto
  <2>2. /\ pc = "wrap: test Y"
        /\ CursorPosition' = CursorPosition /\ offset' = offset /\ drawn' = drawn
    BY <1>6 DEF Goto, Test
  <2>eff. /\ CursorPosition'.X = CursorPosition.X /\ CursorPosition'.Y = CursorPosition.Y
        /\ loaded' = loaded /\ loaded' \in Nat
    BY <1>2, <1>6 DEF Test
  <2>4. CursorPosition'.X <= Columns /\ CursorPosition'.Y <= Lines
    BY <1>2, <2>eff
  <2>5. TypeOK' /\ CursorPosition' \in Near /\ offset' \in Near /\ drawn' \in Near
    BY <2>1, <2>2, <2>eff, <2>4, StepKeeps, <1>1, <1>2 DEF Location
  <2>6. pc' = "idle" => CursorPosition'.Y < Lines
    BY <1>2, <2>eff, <2>1
  <2>7. Bounds'
    BY <2>1, <2>2, <2>eff, <2>5, <2>6 DEF Bounds, PastLastLine
  <2>8. Quiet'
    <3> SUFFICES ASSUME strikes' = "never" PROVE Quiet'
      BY DEF Quiet
    <3>1. /\ CursorPosition.X < Columns /\ OnScreen(offset) /\ OnScreen(drawn)
      BY <1>1, <2>2 DEF IInv, Quiet
    <3>2. CursorPosition'.X < Columns
      BY <1>2, <2>eff, <3>1, <2>1
    <3> QED
      BY <2>1, <2>2, <2>eff, <3>1, <3>2 DEF Quiet, OnScreen
  <2>9. Dispatch' /\ (strikes' # "during" => Undisturbed')
    BY <1>1, <1>2, <2>1, <2>2, <2>eff DEF IInv, Dispatch, Undisturbed, Moved
  <2> QED
    BY <2>5, <2>7, <2>8, <2>9 DEF IInv
<1>7. CASE Goto("wrap: reset X", "wrap: reset Y") /\ Store("X", 0)
  <2>1. 0 \in Nat
    BY <1>2
  <2>2. /\ pc = "wrap: reset X" /\ pc' = "wrap: reset Y"
        /\ CursorPosition' \in Position /\ offset' = offset /\ drawn' = drawn
    BY <1>7, <2>1, StoreEffect DEF Goto
  <2>eff. /\ CursorPosition'.X = 0 /\ CursorPosition'.Y = CursorPosition.Y
        /\ loaded' = loaded /\ loaded' \in Nat
    BY <1>2, <1>7, <2>1, StoreEffect
  <2>4. CursorPosition'.X <= Columns /\ CursorPosition'.Y <= Lines
    BY <1>2, <2>eff
  <2>5. TypeOK' /\ CursorPosition' \in Near /\ offset' \in Near /\ drawn' \in Near
    BY <2>2, <2>eff, <2>4, StepKeeps, <1>1, <1>2 DEF Location
  <2>7. Bounds'
    BY <2>2, <2>eff, <2>5 DEF Bounds, PastLastLine
  <2>8. Quiet'
    <3> SUFFICES ASSUME strikes' = "never" PROVE Quiet'
      BY DEF Quiet
    <3>1. /\ CursorPosition.X < Columns /\ OnScreen(offset) /\ OnScreen(drawn)
      BY <1>1, <2>2 DEF IInv, Quiet
    <3>2. CursorPosition'.X < Columns
      BY <1>2, <2>eff, <3>1
    <3> QED
      BY <2>2, <2>eff, <3>1, <3>2 DEF Quiet, OnScreen
  <2>9. Dispatch' /\ (strikes' # "during" => Undisturbed')
    BY <1>1, <1>2, <2>2, <2>eff DEF IInv, Dispatch, Undisturbed, Moved
  <2> QED
    BY <2>5, <2>7, <2>8, <2>9 DEF IInv
<1>8. CASE Goto("wrap: reset Y", "idle") /\ Store("Y", 0)
  <2>1. 0 \in Nat
    BY <1>2
  <2>2. /\ pc = "wrap: reset Y" /\ pc' = "idle"
        /\ CursorPosition' \in Position /\ offset' = offset /\ drawn' = drawn
    BY <1>8, <2>1, StoreEffect DEF Goto
  <2>eff. /\ CursorPosition'.Y = 0 /\ CursorPosition'.X = CursorPosition.X
        /\ loaded' = loaded /\ loaded' \in Nat
    BY <1>2, <1>8, <2>1, StoreEffect
  <2>4. CursorPosition'.X <= Columns /\ CursorPosition'.Y <= Lines
    BY <1>2, <2>eff
  <2>5. TypeOK' /\ CursorPosition' \in Near /\ offset' \in Near /\ drawn' \in Near
    BY <2>2, <2>eff, <2>4, StepKeeps, <1>1, <1>2 DEF Location
  <2>6. CursorPosition'.Y < Lines
    BY <1>2, <2>eff
  <2>7. Bounds'
    BY <2>2, <2>eff, <2>5, <2>6 DEF Bounds, PastLastLine
  <2>8. Quiet'
    <3> SUFFICES ASSUME strikes' = "never" PROVE Quiet'
      BY DEF Quiet
    <3>1. /\ CursorPosition.X < Columns /\ OnScreen(offset) /\ OnScreen(drawn)
      BY <1>1, <2>2 DEF IInv, Quiet
    <3>2. CursorPosition'.X < Columns
      BY <1>2, <2>eff, <3>1
    <3> QED
      BY <2>2, <2>eff, <3>1, <3>2 DEF Quiet, OnScreen
  <2>9. Dispatch' /\ (strikes' # "during" => Undisturbed')
    BY <1>1, <1>2, <2>2, <2>eff DEF IInv, Dispatch, Undisturbed, Moved
  <2> QED
    BY <2>5, <2>7, <2>8, <2>9 DEF IInv
<1> QED
  BY <1>3, <1>4, <1>5, <1>6, <1>7, <1>8 DEF Wrap

LEMMA AdvanceIInv ==
  ASSUME IInv, Advance, UNCHANGED <<chr, before, strikes>>
  PROVE  IInv'
<1>1. chr' = chr /\ before' = before /\ strikes' = strikes
  OBVIOUS
<1>2. /\ CursorPosition.X \in Nat /\ CursorPosition.Y \in Nat
      /\ CursorPosition.X <= Columns /\ CursorPosition.Y <= Lines
      /\ before.X \in Nat /\ before.Y \in Nat /\ loaded \in Nat
      /\ Columns \in Nat /\ Lines \in Nat /\ Columns > 1 /\ Lines > 1
      /\ CursorPosition \in Position
  BY Coordinates DEF IInv, TypeOK
<1>3. CASE /\ Goto("glyph: test X",
                 IF CursorPosition.X + 1 >= Columns THEN "wrap: load Y" ELSE "advance: load X")
           /\ Test
  <2>1. \/ CursorPosition.X + 1 >= Columns /\ pc' = "wrap: load Y"
        \/ ~(CursorPosition.X + 1 >= Columns) /\ pc' = "advance: load X"
    BY <1>3 DEF Goto
  <2>test. CursorPosition.X + 1 >= Columns \/ CursorPosition.X + 1 < Columns
    BY <1>2
  <2>cases. \/ CursorPosition.X + 1 >= Columns /\ pc' = "wrap: load Y"
            \/ CursorPosition.X + 1 < Columns /\ pc' = "advance: load X"
    BY <2>1, <2>test
  <2>2. /\ pc = "glyph: test X"
        /\ CursorPosition' = CursorPosition /\ offset' = offset /\ drawn' = drawn
    BY <1>3 DEF Goto, Test
  <2>eff. /\ CursorPosition'.X = CursorPosition.X /\ CursorPosition'.Y = CursorPosition.Y
        /\ loaded' = loaded /\ loaded' \in Nat
    BY <1>2, <1>3 DEF Test
  <2>3. CursorPosition.Y < Lines
    BY <2>2 DEF IInv, Bounds, PastLastLine
  <2>4. CursorPosition'.X <= Columns /\ CursorPosition'.Y <= Lines
    BY <1>2, <2>eff, <2>3
  <2>5. TypeOK' /\ CursorPosition' \in Near /\ offset' \in Near /\ drawn' \in Near
    BY <2>1, <2>2, <2>eff, <2>4, StepKeeps, <1>1, <1>2 DEF Location
  <2>6. CursorPosition'.Y < Lines /\ (pc' = "advance: load X" => CursorPosition'.X < Columns)
    <3>1. CursorPosition'.Y < Lines
      BY <2>eff, <2>3
    <3>2. CursorPosition.X + 1 < Columns => CursorPosition'.X < Columns
      BY <1>2, <2>eff
    <3> QED
      BY <2>1, <2>test, <2>cases, <3>1, <3>2, Zenon
  <2>7. Bounds'
    BY <2>1, <2>2, <2>eff, <2>5, <2>6 DEF Bounds, PastLastLine
  <2>8. Quiet'
    <3> SUFFICES ASSUME strikes' = "never" PROVE Quiet'
      BY DEF Quiet
    <3>1. CursorPosition.X < Columns /\ OnScreen(offset) /\ OnScreen(drawn)
      BY <1>1, <2>2 DEF IInv, Quiet
    <3>2. /\ CursorPosition'.X < Columns
          /\ pc' = "advance: load X" => CursorPosition'.X + 1 < Columns
      BY <1>2, <2>eff, <2>cases, <3>1
    <3> QED
      BY <2>1, <2>2, <2>eff, <3>1, <3>2 DEF Quiet, OnScreen
  <2>9. Dispatch' /\ (strikes' # "during" => Undisturbed')
    <3>1. Dispatch'
      BY <1>1, <2>2, <2>cases DEF IInv, Dispatch
    <3>2. strikes' # "during" => Moved(before.X, before.Y)
      BY <1>1, <2>2 DEF IInv, Undisturbed
    <3>3. strikes' # "during" => /\ Moved(before.X, before.Y)'
                                /\ CursorPosition.X = before.X
      BY <3>2, <1>1, <2>eff DEF Moved
    <3> QED
      BY <1>1, <2>cases, <3>1, <3>3 DEF Undisturbed
  <2> QED
    BY <2>5, <2>7, <2>8, <2>9 DEF IInv
<1>4. CASE Goto("advance: load X", "advance: store X") /\ Load("X")
  <2>2. /\ pc = "advance: load X" /\ pc' = "advance: store X"
        /\ CursorPosition' = CursorPosition /\ offset' = offset /\ drawn' = drawn
    BY <1>4, LoadEffect DEF Goto
  <2>eff. /\ CursorPosition'.X = CursorPosition.X /\ CursorPosition'.Y = CursorPosition.Y
        /\ loaded' = CursorPosition.X /\ loaded' \in Nat
    BY <1>4, LoadEffect
  <2>3. CursorPosition.Y < Lines /\ CursorPosition.X < Columns
    BY <2>2 DEF IInv, Bounds, PastLastLine
  <2>4. CursorPosition'.X <= Columns /\ CursorPosition'.Y <= Lines
    BY <1>2, <2>eff, <2>3
  <2>5. TypeOK' /\ CursorPosition' \in Near /\ offset' \in Near /\ drawn' \in Near
    BY <2>2, <2>eff, <2>4, StepKeeps, <1>1, <1>2 DEF Location
  <2>6. CursorPosition'.Y < Lines /\ loaded' < Columns
    BY <1>2, <2>eff, <2>3
  <2>7. Bounds'
    BY <2>2, <2>eff, <2>5, <2>6 DEF Bounds, PastLastLine
  <2>8. Quiet'
    <3> SUFFICES ASSUME strikes' = "never" PROVE Quiet'
      BY DEF Quiet
    <3>1. /\ CursorPosition.X < Columns /\ OnScreen(offset) /\ OnScreen(drawn)
          /\ CursorPosition.X + 1 < Columns
      BY <1>1, <2>2 DEF IInv, Quiet
    <3>2. /\ CursorPosition'.X < Columns
          /\ loaded' + 1 < Columns
      BY <1>2, <2>eff, <3>1
    <3> QED
      BY <2>2, <2>eff, <3>1, <3>2 DEF Quiet, OnScreen
  <2>9. Dispatch' /\ (strikes' # "during" => Undisturbed')
    BY <1>1, <1>2, <2>2, <2>eff DEF IInv, Dispatch, Undisturbed, Moved
  <2> QED
    BY <2>5, <2>7, <2>8, <2>9 DEF IInv
<1>5. CASE Goto("advance: store X", "idle") /\ Store("X", loaded + 1)
  <2>1. loaded + 1 \in Nat
    BY <1>2
  <2>2. /\ pc = "advance: store X" /\ pc' = "idle"
        /\ CursorPosition' \in Position /\ offset' = offset /\ drawn' = drawn
    BY <1>5, <2>1, StoreEffect DEF Goto
  <2>eff. /\ CursorPosition'.X = loaded + 1 /\ CursorPosition'.Y = CursorPosition.Y
        /\ loaded' = loaded /\ loaded' \in Nat
    BY <1>2, <1>5, <2>1, StoreEffect
  <2>3. CursorPosition.Y < Lines /\ loaded < Columns
    BY <2>2 DEF IInv, Bounds, PastLastLine
  <2>4. CursorPosition'.X <= Columns /\ CursorPosition'.Y <= Lines
    BY <1>2, <2>eff, <2>3
  <2>5. TypeOK' /\ CursorPosition' \in Near /\ offset' \in Near /\ drawn' \in Near
    BY <2>2, <2>eff, <2>4, StepKeeps, <1>1, <1>2 DEF Location
  <2>6. CursorPosition'.Y < Lines
    BY <1>2, <2>eff, <2>3
  <2>7. Bounds'
    BY <2>2, <2>eff, <2>5, <2>6 DEF Bounds, PastLastLine
  <2>8. Quiet'
    <3> SUFFICES ASSUME strikes' = "never" PROVE Quiet'
      BY DEF Quiet
    <3>1. /\ CursorPosition.X < Columns /\ OnScreen(offset) /\ OnScreen(drawn)
          /\ loaded + 1 < Columns
      BY <1>1, <2>2 DEF IInv, Quiet
    <3>2. CursorPosition'.X < Columns
      BY <1>2, <2>eff, <3>1
    <3> QED
      BY <2>2, <2>eff, <3>1, <3>2 DEF Quiet, OnScreen
  <2>9. Dispatch' /\ (strikes' # "during" => Undisturbed')
    BY <1>1, <1>2, <2>2, <2>eff DEF IInv, Dispatch, Undisturbed, Moved
  <2> QED
    BY <2>5, <2>7, <2>8, <2>9 DEF IInv
<1> QED
  BY <1>3, <1>4, <1>5 DEF Advance

LEMMA PassOffsetsIInv ==
  ASSUME IInv, PassOffsets, UNCHANGED <<chr, before, strikes>>
  PROVE  IInv'
<1>1. /\ CursorPosition' = CursorPosition /\ loaded' = loaded /\ drawn' = drawn
      /\ chr' = chr /\ before' = before /\ strikes' = strikes
      /\ pc \in {"glyph: pass", "glyph: pass X", "glyph: pass Y"}
      /\ pc' \in {"glyph: pass X", "glyph: pass Y", "glyph: draw"}
  BY DEF PassOffsets, Pass
<1>2. /\ offset' \in Position
      /\ offset'.X \in {offset.X, CursorPosition.X}
      /\ offset'.Y \in {offset.Y, CursorPosition.Y}
  BY DEF PassOffsets, Pass, IInv, TypeOK, Position
<1>3. /\ offset \in Near /\ CursorPosition \in Near /\ CursorPosition.Y < Lines
  BY <1>1 DEF IInv, Bounds, PastLastLine
<1>4. offset' \in Near
  BY <1>2, <1>3, NearPositions
<1>5. TypeOK'
  BY <1>1, <1>2 DEF IInv, TypeOK, Location
<1>6. Bounds'
  BY <1>1, <1>3, <1>4 DEF IInv, Bounds, PastLastLine
<1>7. Quiet'
  <2> SUFFICES ASSUME strikes' = "never" PROVE Quiet'
    BY DEF Quiet
  <2>1. CursorPosition.X < Columns /\ OnScreen(offset) /\ OnScreen(drawn)
    BY <1>1 DEF IInv, Quiet
  <2>2. OnScreen(offset')
    BY <1>2, <1>3, <2>1 DEF OnScreen
  <2> QED
    BY <1>1, <2>1, <2>2 DEF Quiet, OnScreen
<1>8. Dispatch'
  BY <1>1 DEF IInv, Dispatch
<1>9. strikes' # "during" => Undisturbed'
  BY <1>1 DEF IInv, Undisturbed, Moved
<1> QED
  BY <1>5, <1>6, <1>7, <1>8, <1>9 DEF IInv

LEMMA PutCharIInv ==
  ASSUME IInv, PutChar, UNCHANGED <<chr, before, strikes>>
  PROVE  IInv'
<1>1. /\ CursorPosition' = CursorPosition /\ loaded' = loaded /\ offset' = offset
      /\ chr' = chr /\ before' = before /\ strikes' = strikes
      /\ pc = "glyph: draw" /\ pc' = "glyph: test X" /\ drawn' = offset
  BY DEF PutChar, Goto
<1>2. TypeOK'
  BY <1>1 DEF IInv, TypeOK, Location
<1>3. Bounds'
  BY <1>1 DEF IInv, Bounds, PastLastLine
<1>4. Quiet'
  BY <1>1 DEF IInv, Quiet, OnScreen
<1>5. Dispatch'
  BY <1>1 DEF IInv, Dispatch
<1>6. strikes' # "during" => Undisturbed'
  BY <1>1 DEF IInv, Undisturbed, Moved
<1> QED
  BY <1>2, <1>3, <1>4, <1>5, <1>6 DEF IInv

LEMMA NextIInv == IInv /\ [Next]_vars => IInv'
<1> SUFFICES ASSUME IInv, [Next]_vars PROVE IInv'
  OBVIOUS
<1>1. CASE KeyboardInterrupt
  BY <1>1, KeyboardInterruptIInv
<1>2. CASE BeginPrint
  BY <1>2, PrintIInv
<1>3. CASE PrintStep
  BY <1>3, NewlineIInv, ReturnIInv, PassOffsetsIInv, PutCharIInv, WrapIInv,
     AdvanceIInv DEF PrintStep
<1>4. CASE UNCHANGED vars
  BY <1>4, StutterIInv
<1> QED
  BY <1>1, <1>2, <1>3, <1>4 DEF Next

-----------------------------------------------------------------------------
(***************************************************************************)
(* The theorems.                                                           *)
(***************************************************************************)

\* IInv holds in every reachable state, however keys and prints interleave.
THEOREM InductiveInvariant == Spec => []IInv
<1>1. Init => IInv
  BY InitIInv
<1>2. IInv /\ [Next]_vars => IInv'
  BY NextIInv
<1> QED
  BY <1>1, <1>2, PTL DEF Spec

\* The cursor's coordinates never wrap below zero, whichever keys are echoed.
THEOREM TypeCorrect == Spec => []TypeOK
<1>1. IInv => TypeOK
  BY DEF IInv
<1> QED
  BY <1>1, InductiveInvariant, PTL

\* On a screen of any size, the cursor and what is drawn stay within one
\* column and one line of it, whatever interrupts _printChar.
THEOREM BoundedOvershoot == Spec => []OvershootsByOneAtMost
<1>1. IInv => OvershootsByOneAtMost
  BY DEF IInv, Bounds, OvershootsByOneAtMost
<1> QED
  BY <1>1, InductiveInvariant, PTL

\* Between prints the cursor is back on a line of the screen.
THEOREM CursorRecovers == Spec => []IdleCursorOnALine
<1>1. IInv => IdleCursorOnALine
  BY DEF IInv, Bounds, PastLastLine, IdleCursorOnALine
<1> QED
  BY <1>1, InductiveInvariant, PTL

\* Nothing is drawn off the screen unless a key struck inside a print.
THEOREM OverflowIsPreemption == Spec => []OverflowNeedsPreemption
<1>1. IInv => OverflowNeedsPreemption
  BY DEF IInv, Bounds, Quiet, PastLastLine, OnScreen, OverflowNeedsPreemption
<1> QED
  BY <1>1, InductiveInvariant, PTL

LEMMA SamePosition ==
  \A p, q \in Position : p.X = q.X /\ p.Y = q.Y => p = q
BY DEF Position

\* What _printChar makes of a cursor, coordinate by coordinate.
LEMMA PrintedPosition ==
  ASSUME NEW b \in Position
  PROVE  /\ newline(b) \in Position /\ newline(b).X = b.X
         /\ newline(b).Y = IF b.Y + 1 >= Lines THEN 0 ELSE b.Y + 1
         /\ return(b) \in Position /\ return(b).X = 0 /\ return(b).Y = b.Y
         /\ glyph(b) \in Position
         /\ b.X + 1 < Columns => glyph(b).X = b.X + 1 /\ glyph(b).Y = b.Y
         /\ b.X + 1 >= Columns =>
              /\ glyph(b).X = 0
              /\ glyph(b).Y = IF b.Y + 1 >= Lines THEN 0 ELSE b.Y + 1
<1>1. b \in [X : Nat, Y : Nat] /\ Columns \in Nat /\ Lines \in Nat
  BY ScreenAssumption DEF Position
<1>2. /\ newline(b) \in Position /\ newline(b).X = b.X
      /\ newline(b).Y = IF b.Y + 1 >= Lines THEN 0 ELSE b.Y + 1
  BY <1>1 DEF newline, Position
<1>3. return(b) \in Position /\ return(b).X = 0 /\ return(b).Y = b.Y
  BY <1>1 DEF return, Position
<1>4. /\ glyph(b) \in Position
      /\ b.X + 1 < Columns => glyph(b).X = b.X + 1 /\ glyph(b).Y = b.Y
      /\ b.X + 1 >= Columns =>
           /\ glyph(b).X = 0
           /\ glyph(b).Y = IF b.Y + 1 >= Lines THEN 0 ELSE b.Y + 1
  <2>1. CASE b.X + 1 < Columns
    BY <1>1, <2>1 DEF glyph, Position, Origin
  <2>2. CASE b.X + 1 >= Columns /\ b.Y + 1 >= Lines
    BY <1>1, <2>2 DEF glyph, Position, Origin
  <2>3. CASE b.X + 1 >= Columns /\ b.Y + 1 < Lines
    BY <1>1, <2>3 DEF glyph, Position, Origin
  <2> QED
    BY <1>1, <2>1, <2>2, <2>3
<1> QED
  BY <1>2, <1>3, <1>4

\* The step that ends an undisturbed print ends it where printChar does.
LEMMA LastStepOfPrint ==
  ASSUME IInv, PrintStep, pc' = "idle", strikes # "during"
  PROVE  CursorPosition' = printChar(before, chr)
<1> DEFINE b == before
<1>1. /\ CursorPosition \in Position /\ b \in Position /\ Undisturbed /\ Dispatch
      /\ CursorPosition.X \in Nat /\ CursorPosition.Y \in Nat
      /\ b.X \in Nat /\ b.Y \in Nat /\ loaded \in Nat
      /\ Columns \in Nat /\ Lines \in Nat
  BY Coordinates DEF IInv, TypeOK
<1>2. loaded + 1 \in Nat /\ 0 \in Nat
  BY <1>1
<1>3. \/ pc = "newline: test Y" /\ Test /\ ~(CursorPosition.Y >= Lines)
      \/ pc = "newline: reset Y" /\ Store("Y", 0)
      \/ pc = "return: store X" /\ Store("X", 0)
      \/ pc = "wrap: test Y" /\ Test /\ ~(CursorPosition.Y >= Lines)
      \/ pc = "wrap: reset Y" /\ Store("Y", 0)
      \/ pc = "advance: store X" /\ Store("X", loaded + 1)
  <2>1. CASE Newline
    BY <2>1 DEF Newline, Goto
  <2>2. CASE Return
    BY <2>2 DEF Return, Goto
  <2>3. CASE PassOffsets \/ PutChar
    BY <2>3 DEF PassOffsets, Pass, PutChar, Goto
  <2>4. CASE Wrap
    BY <2>4 DEF Wrap, Goto
  <2>5. CASE Advance
    BY <2>5 DEF Advance, Goto
  <2> QED
    BY <2>1, <2>2, <2>3, <2>4, <2>5 DEF PrintStep
<1>4. CASE pc = "newline: test Y" /\ Test /\ ~(CursorPosition.Y >= Lines)
  <2>1. Moved(b.X, b.Y + 1) /\ chr = "newline" /\ CursorPosition' = CursorPosition
    BY <1>1, <1>4 DEF Undisturbed, Dispatch, Test
  <2>2. CursorPosition.X = b.X /\ CursorPosition.Y = b.Y + 1
    BY <2>1 DEF Moved
  <2>3. newline(b).X = CursorPosition.X /\ newline(b).Y = CursorPosition.Y
    BY <1>1, <1>4, <2>2, PrintedPosition
  <2> QED
    BY <1>1, <2>1, <2>3, SamePosition, PrintedPosition DEF printChar
<1>5. CASE pc = "newline: reset Y" /\ Store("Y", 0)
  <2>1. Moved(b.X, b.Y + 1) /\ b.Y + 1 >= Lines /\ chr = "newline"
    BY <1>1, <1>5 DEF Undisturbed, Dispatch
  <2>2. /\ CursorPosition' \in Position
        /\ CursorPosition'.X = b.X /\ CursorPosition'.Y = 0
    BY <1>2, <1>5, <2>1, StoreEffect DEF Moved
  <2>3. newline(b).X = b.X /\ newline(b).Y = 0 /\ newline(b) \in Position
    BY <1>1, <2>1, PrintedPosition
  <2> QED
    BY <2>1, <2>2, <2>3, SamePosition DEF printChar
<1>6. CASE pc = "return: store X" /\ Store("X", 0)
  <2>1. Moved(b.X, b.Y) /\ chr = "return"
    BY <1>1, <1>6 DEF Undisturbed, Dispatch
  <2>2. /\ CursorPosition' \in Position
        /\ CursorPosition'.X = 0 /\ CursorPosition'.Y = b.Y
    BY <1>2, <1>6, <2>1, StoreEffect DEF Moved
  <2>3. return(b).X = 0 /\ return(b).Y = b.Y /\ return(b) \in Position
    BY <1>1, PrintedPosition
  <2> QED
    BY <2>1, <2>2, <2>3, SamePosition DEF printChar
<1>7. CASE pc = "wrap: test Y" /\ Test /\ ~(CursorPosition.Y >= Lines)
  <2>1. /\ Moved(0, b.Y + 1) /\ b.X + 1 >= Columns /\ chr = "glyph"
        /\ CursorPosition' = CursorPosition
    BY <1>1, <1>7 DEF Undisturbed, Dispatch, Test
  <2>2. CursorPosition.X = 0 /\ CursorPosition.Y = b.Y + 1
    BY <2>1 DEF Moved
  <2>3. glyph(b).X = CursorPosition.X /\ glyph(b).Y = CursorPosition.Y
    BY <1>1, <1>7, <2>1, <2>2, PrintedPosition
  <2> QED
    BY <1>1, <2>1, <2>3, SamePosition, PrintedPosition DEF printChar
<1>8. CASE pc = "wrap: reset Y" /\ Store("Y", 0)
  <2>1. /\ Moved(0, b.Y + 1) /\ b.X + 1 >= Columns /\ b.Y + 1 >= Lines
        /\ chr = "glyph"
    BY <1>1, <1>8 DEF Undisturbed, Dispatch
  <2>2. /\ CursorPosition' \in Position
        /\ CursorPosition'.X = 0 /\ CursorPosition'.Y = 0
    BY <1>2, <1>8, <2>1, StoreEffect DEF Moved
  <2>3. glyph(b).X = 0 /\ glyph(b).Y = 0 /\ glyph(b) \in Position
    BY <1>1, <2>1, PrintedPosition
  <2> QED
    BY <2>1, <2>2, <2>3, SamePosition DEF printChar
<1>9. CASE pc = "advance: store X" /\ Store("X", loaded + 1)
  <2>1. /\ Moved(b.X, b.Y) /\ b.X + 1 < Columns /\ loaded = b.X
        /\ chr = "glyph"
    BY <1>1, <1>9 DEF Undisturbed, Dispatch
  <2>2. /\ CursorPosition' \in Position
        /\ CursorPosition'.X = b.X + 1 /\ CursorPosition'.Y = b.Y
    BY <1>2, <1>9, <2>1, StoreEffect DEF Moved
  <2>3. glyph(b).X = b.X + 1 /\ glyph(b).Y = b.Y /\ glyph(b) \in Position
    BY <1>1, <2>1, PrintedPosition
  <2> QED
    BY <2>1, <2>2, <2>3, SamePosition DEF printChar
<1> QED
  BY <1>3, <1>4, <1>5, <1>6, <1>7, <1>8, <1>9

\* A print no key struck leaves the cursor where _printChar run in one piece
\* would, from every position an earlier overshoot can have left it at.
THEOREM PrintsAreAtomic == Spec => UndisturbedPrintIsAtomic
<1>1. ASSUME IInv, [Next]_vars
      PROVE  [pc # "idle" /\ pc' = "idle" /\ strikes # "during" =>
                CursorPosition' = printChar(before, chr)]_vars
  <2> SUFFICES ASSUME Next, pc # "idle", pc' = "idle", strikes # "during"
               PROVE  CursorPosition' = printChar(before, chr)
    BY <1>1
  <2>1. PrintStep
    BY DEF Next, KeyboardInterrupt, BeginPrint
  <2> QED
    BY <1>1, <2>1, LastStepOfPrint
<1> QED
  BY <1>1, InductiveInvariant, PTL DEF Spec, UndisturbedPrintIsAtomic
=============================================================================
