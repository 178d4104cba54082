------------------------- MODULE TranslationsProofs -------------------------
(***************************************************************************)
(* Proofs about the kernel's two translations, of scan codes to chars      *)
(* (Keyboard) and of numbers to text (Strings), for every set of keys, of  *)
(* values and of widths. Both are recursions: over the codes under way,    *)
(* over the digits of a number. The library's induction takes a predicate, *)
(* which no prover at hand can instantiate, so induction is had here from  *)
(* the least number of a set, and a recursive function from its steps.     *)
(***************************************************************************)
EXTENDS Keyboard, Strings, TLAPS, WellFoundedInduction, FiniteSetTheorems,
        SequenceTheorems

-----------------------------------------------------------------------------
(***************************************************************************)
(* Induction and recursion.                                                *)
(***************************************************************************)

\* The library's well-founded order on the numbers, without its operator.
LEMMA LessIsWellFounded ==
  IsWellFoundedOn({pair \in Nat \X Nat : pair[1] < pair[2]}, Nat)
BY NatLessThanWellFounded DEF OpToRel

\* Numbers, if there are any, have a least one.
LEMMA LeastNumber ==
  ASSUME NEW S \in SUBSET Nat, S # {}
  PROVE  \E n \in S : \A m \in S : n <= m
<1> DEFINE R == {pair \in Nat \X Nat : pair[1] < pair[2]}
<1>1. IsWellFoundedOn(R, Nat)
  BY LessIsWellFounded
<1> HIDE DEF R
<1>2. PICK n \in S : \A m \in S : <<m, n>> \notin R
  BY <1>1, WFMin
<1>3. \A m \in S : ~ (m < n)
  BY <1>2 DEF R
<1> QED
  BY <1>3

\* Induction, for a set instead of a predicate.
LEMMA Climb ==
  ASSUME NEW S, 0 \in S, \A n \in Nat : n \in S => n + 1 \in S
  PROVE  \A n \in Nat : n \in S
<1> SUFFICES ASSUME Nat \ S # {} PROVE FALSE
  OBVIOUS
<1>1. PICK n \in Nat \ S : \A m \in Nat \ S : n <= m
  BY LeastNumber
<1>2. n # 0 /\ n - 1 \in Nat
  BY <1>1
<1>3. n - 1 \in S
  BY <1>1, <1>2
<1> QED
  BY <1>1, <1>2, <1>3

\* As long as f and g are alike, a step leaves them alike.
GoOnAlike(f, g, n) == \A i \in 1 .. n : f[i - 1] = g[i - 1] => f[i] = g[i]

\* Two functions that start alike and go on alike are alike.
LEMMA Agree ==
  ASSUME NEW n \in Nat, NEW f, NEW g, f[0] = g[0], GoOnAlike(f, g, n)
  PROVE  \A i \in 0 .. n : f[i] = g[i]
<1> DEFINE T == {i \in Nat : i <= n => f[i] = g[i]}
<1>1. 0 \in T
  OBVIOUS
<1>2. ASSUME NEW i \in Nat, i \in T PROVE i + 1 \in T
  <2>1. CASE i + 1 > n
    BY <2>1
  <2>2. CASE i + 1 <= n
    <3>1. f[i] = g[i] /\ i + 1 \in 1 .. n /\ (i + 1) - 1 = i
      BY <1>2, <2>2
    <3> QED
      BY <3>1 DEF GoOnAlike
  <2> QED
    BY <2>1, <2>2
<1> HIDE DEF T
<1>3. \A i \in Nat : i \in T
  BY <1>1, <1>2, Climb
<1> QED
  BY <1>3 DEF T

\* f is built from base by n steps.
Builds(f, n, base, step) ==
  /\ f[0] = base
  /\ \A i \in 1 .. n : f[i] = step[i][f[i - 1]]

\* f is built from base by steps without end.
BuildsOn(f, base, step) ==
  /\ f[0] = base
  /\ \A i \in Nat \ {0} : f[i] = step[i][f[i - 1]]

\* Any number of steps can be taken.
LEMMA Segments ==
  ASSUME NEW S, NEW base \in S, NEW step \in [Nat -> [S -> S]]
  PROVE  \A n \in Nat : \E f \in [0 .. n -> S] : Builds(f, n, base, step)
<1> DEFINE T == {n \in Nat : \E f \in [0 .. n -> S] : Builds(f, n, base, step)}
<1>1. 0 \in T
  <2>1. /\ [i \in 0 .. 0 |-> base] \in [0 .. 0 -> S]
        /\ Builds([i \in 0 .. 0 |-> base], 0, base, step)
    BY DEF Builds
  <2> QED
    BY <2>1
<1>2. ASSUME NEW n \in Nat, n \in T PROVE n + 1 \in T
  <2>1. PICK f \in [0 .. n -> S] : Builds(f, n, base, step)
    BY <1>2
  <2> DEFINE g == [i \in 0 .. n + 1 |-> IF i <= n THEN f[i] ELSE step[n + 1][f[n]]]
  <2>2. step[n + 1][f[n]] \in S
    OBVIOUS
  <2>3. g \in [0 .. n + 1 -> S]
    BY <2>2
  <2>4. Builds(g, n + 1, base, step)
    BY <2>1 DEF Builds
  <2> QED
    BY <2>3, <2>4
<1> HIDE DEF T
<1>3. \A n \in Nat : n \in T
  BY <1>1, <1>2, Climb
<1> QED
  BY <1>3 DEF T

\* As far as two of them go, the same steps build the same.
LEMMA SameBuild ==
  ASSUME NEW base, NEW step, NEW f, NEW g, NEW m \in Nat, NEW n \in Nat,
         Builds(f, m, base, step), Builds(g, n, base, step)
  PROVE  \A i \in 0 .. m : i <= n => f[i] = g[i]
<1> DEFINE T == {i \in Nat : i <= m /\ i <= n => f[i] = g[i]}
<1>1. 0 \in T
  BY DEF Builds
<1>2. ASSUME NEW i \in Nat, i \in T PROVE i + 1 \in T
  BY <1>2 DEF Builds
<1> HIDE DEF T
<1>3. \A i \in Nat : i \in T
  BY <1>1, <1>2, Climb
<1> QED
  BY <1>3 DEF T

\* Steps without end can be taken.
LEMMA Recursion ==
  ASSUME NEW S, NEW base \in S, NEW step \in [Nat -> [S -> S]]
  PROVE  \E f \in [Nat -> S] : BuildsOn(f, base, step)
<1> DEFINE Segment(n) == CHOOSE f \in [0 .. n -> S] : Builds(f, n, base, step)
           f == [i \in Nat |-> Segment(i)[i]]
<1>1. \A n \in Nat : Segment(n) \in [0 .. n -> S] /\ Builds(Segment(n), n, base, step)
  BY Segments
<1> HIDE DEF Segment
<1>2. f \in [Nat -> S]
  BY <1>1
<1>3. f[0] = base
  BY <1>1 DEF Builds
<1>4. ASSUME NEW i \in Nat \ {0} PROVE f[i] = step[i][f[i - 1]]
  <2>1. Segment(i)[i] = step[i][Segment(i)[i - 1]]
    BY <1>1 DEF Builds
  <2>2. Segment(i)[i - 1] = Segment(i - 1)[i - 1]
    BY <1>1, SameBuild, i - 1 \in Nat, i - 1 \in 0 .. i, i - 1 <= i - 1
  <2> QED
    BY <2>1, <2>2
<1> HIDE DEF f
<1>5. BuildsOn(f, base, step)
  BY <1>3, <1>4 DEF BuildsOn
<1> QED
  BY <1>2, <1>5

-----------------------------------------------------------------------------
(***************************************************************************)
(* The keyboard: the flags after a sequence of codes.                      *)
(***************************************************************************)

\* What ShiftAfter does, one kind of code at a time.
LEMMA ShiftAfterIs ==
  ASSUME NEW pressed
  PROVE  /\ \A k \in ShiftKeys : ShiftAfter(pressed, k) = pressed \cup {k}
         /\ \A k \in ShiftKeys : ShiftAfter(pressed, Released(k)) = pressed \ {k}
         /\ \A c : c \notin ShiftCodes => ShiftAfter(pressed, c) = pressed
<1>1. ShiftAfter(pressed, LEFT_SHIFT) = pressed \cup {LEFT_SHIFT}
  BY DEF ShiftAfter, ShiftKeys, ShiftCodes, Released, LEFT_SHIFT, RIGHT_SHIFT,
         PRESSED_TO_RELEASE_OFFSET
<1>2. ShiftAfter(pressed, RIGHT_SHIFT) = pressed \cup {RIGHT_SHIFT}
  BY DEF ShiftAfter, ShiftKeys, ShiftCodes, Released, LEFT_SHIFT, RIGHT_SHIFT,
         PRESSED_TO_RELEASE_OFFSET
<1>3. ShiftAfter(pressed, Released(LEFT_SHIFT)) = pressed \ {LEFT_SHIFT}
  BY DEF ShiftAfter, ShiftKeys, ShiftCodes, Released, LEFT_SHIFT, RIGHT_SHIFT,
         PRESSED_TO_RELEASE_OFFSET
<1>4. ShiftAfter(pressed, Released(RIGHT_SHIFT)) = pressed \ {RIGHT_SHIFT}
  BY DEF ShiftAfter, ShiftKeys, ShiftCodes, Released, LEFT_SHIFT, RIGHT_SHIFT,
         PRESSED_TO_RELEASE_OFFSET
<1>5. ASSUME NEW c, c \notin ShiftCodes PROVE ShiftAfter(pressed, c) = pressed
  BY <1>5 DEF ShiftAfter, ShiftKeys, ShiftCodes, Released
<1> QED
  BY <1>1, <1>2, <1>3, <1>4, <1>5 DEF ShiftKeys

\* Whatever the code, the flags stay those of the shift keys.
LEMMA ShiftAfterType ==
  ASSUME NEW pressed \in SUBSET ShiftKeys, NEW c
  PROVE  ShiftAfter(pressed, c) \in SUBSET ShiftKeys
<1>1. CASE c \in ShiftCodes
  <2>1. PICK k \in ShiftKeys : c = k \/ c = Released(k)
    BY <1>1 DEF ShiftCodes
  <2>2. ShiftAfter(pressed, c) \in {pressed \cup {k}, pressed \ {k}}
    BY <2>1, ShiftAfterIs
  <2> QED
    BY <2>2
<1>2. CASE c \notin ShiftCodes
  BY <1>2, ShiftAfterIs
<1> QED
  BY <1>1, <1>2

\* F are the flags along the codes, from those pressed.
FlagsAlong(F, pressed, codes) ==
  /\ F \in [0 .. Len(codes) -> SUBSET ShiftKeys]
  /\ F[0] = pressed
  /\ \A i \in 1 .. Len(codes) : F[i] = ShiftAfter(F[i - 1], codes[i])

\* The recursive function FlagsAfter is there, and is what it says.
LEMMA FlagsAfterIs ==
  ASSUME NEW pressed \in SUBSET ShiftKeys, NEW C, NEW codes \in Seq(C)
  PROVE  FlagsAlong(FlagsAfter(pressed, codes), pressed, codes)
<1> DEFINE S == SUBSET ShiftKeys
           n == Len(codes)
           step == [i \in Nat |-> [p \in S |-> ShiftAfter(p, codes[i])]]
           F == FlagsAfter(pressed, codes)
<1>1. step \in [Nat -> [S -> S]] /\ pressed \in S /\ n \in Nat
  BY ShiftAfterType
<1>2. PICK f \in [0 .. n -> S] : Builds(f, n, pressed, step)
  <2> HIDE DEF S, step, n
  <2> QED
    BY <1>1, Segments
<1>3. \A i \in 1 .. n : f[i] = ShiftAfter(f[i - 1], codes[i])
  <2> TAKE i \in 1 .. n
  <2>1. f[i - 1] \in S /\ i \in Nat
    BY <1>1
  <2>2. step[i][f[i - 1]] = ShiftAfter(f[i - 1], codes[i])
    BY <2>1
  <2> HIDE DEF step
  <2> QED
    BY <2>2, <1>2 DEF Builds
<1>4. f = [i \in 0 .. n |-> IF i = 0 THEN pressed ELSE ShiftAfter(f[i - 1], codes[i])]
  <2> HIDE DEF step
  <2> QED
    BY <1>1, <1>2, <1>3 DEF Builds
<1>5. F = [i \in 0 .. n |-> IF i = 0 THEN pressed ELSE ShiftAfter(F[i - 1], codes[i])]
  BY <1>4 DEF FlagsAfter
<1> HIDE DEF F
<1>6. F[0] = pressed /\ \A i \in 1 .. n : F[i] = ShiftAfter(F[i - 1], codes[i])
  BY <1>1, <1>5
<1>7. \A i \in 0 .. n : F[i] = f[i]
  <2>1. F[0] = f[0] /\ GoOnAlike(F, f, n)
    BY <1>2, <1>3, <1>6 DEF Builds, GoOnAlike
  <2> HIDE DEF n
  <2> QED
    BY <1>1, <2>1, Agree
<1>8. F \in [0 .. n -> S]
  BY <1>5, <1>7, <1>2
<1> QED
  BY <1>6, <1>8 DEF F, FlagsAlong

\* One code more at the end leaves the flags before it as they are.
LEMMA FlagsAppended ==
  ASSUME NEW pressed \in SUBSET ShiftKeys, NEW C, NEW codes \in Seq(C), NEW c \in C
  PROVE  /\ \A i \in 0 .. Len(codes) :
              FlagsAfter(pressed, codes \o <<c>>)[i] = FlagsAfter(pressed, codes)[i]
         /\ FlagsAfter(pressed, codes \o <<c>>)[Len(codes) + 1] =
              ShiftAfter(FlagsAfter(pressed, codes)[Len(codes)], c)
<1> DEFINE n == Len(codes)
           F == FlagsAfter(pressed, codes)
           more == codes \o <<c>>
           G == FlagsAfter(pressed, more)
<1>1. /\ n \in Nat /\ more \in Seq(C) /\ Len(more) = n + 1
      /\ \A i \in 1 .. n : more[i] = codes[i]
      /\ more[n + 1] = c
  OBVIOUS
<1>2. F[0] = pressed /\ \A i \in 1 .. n : F[i] = ShiftAfter(F[i - 1], codes[i])
  BY FlagsAfterIs DEF FlagsAlong
<1> HIDE DEF more
<1>7. FlagsAlong(G, pressed, more)
  BY <1>1, FlagsAfterIs
<1> HIDE DEF F, G, n
<1>3. G[0] = pressed /\ \A i \in 1 .. n + 1 : G[i] = ShiftAfter(G[i - 1], more[i])
  BY <1>1, <1>7 DEF FlagsAlong
<1>4. GoOnAlike(G, F, n)
  BY <1>1, <1>2, <1>3 DEF GoOnAlike
<1>5. \A i \in 0 .. n : G[i] = F[i]
  BY <1>1, <1>2, <1>3, <1>4, Agree
<1>6. G[n + 1] = ShiftAfter(F[n], c)
  BY <1>1, <1>3, <1>5
<1> QED
  BY <1>5, <1>6 DEF F, G, n, more

\* Handling the first code is going one step along the flags.
LEMMA FlagsHandled ==
  ASSUME NEW pressed \in SUBSET ShiftKeys, NEW C, NEW codes \in Seq(C), codes # <<>>
  PROVE  \A i \in 0 .. Len(codes) - 1 :
           FlagsAfter(ShiftAfter(pressed, Head(codes)), Tail(codes))[i] =
             FlagsAfter(pressed, codes)[i + 1]
<1> DEFINE n == Len(codes)
           F == FlagsAfter(pressed, codes)
           rest == Tail(codes)
           first == ShiftAfter(pressed, Head(codes))
           G == FlagsAfter(first, rest)
           H == [i \in 0 .. n - 1 |-> F[i + 1]]
<1>1. /\ n \in Nat /\ n - 1 \in Nat /\ rest \in Seq(C) /\ Len(rest) = n - 1
      /\ \A i \in 1 .. n - 1 : rest[i] = codes[i + 1]
      /\ Head(codes) = codes[1]
  OBVIOUS
<1>2. first \in SUBSET ShiftKeys
  BY ShiftAfterType
<1>3. F[0] = pressed /\ \A i \in 1 .. n : F[i] = ShiftAfter(F[i - 1], codes[i])
  BY FlagsAfterIs DEF FlagsAlong
<1>5. first = H[0]
  BY <1>1, <1>3
<1> HIDE DEF rest, first
<1>9. FlagsAlong(G, first, rest)
  BY <1>1, <1>2, FlagsAfterIs
<1> HIDE DEF F, G, n
<1>4. G[0] = first /\ \A i \in 1 .. n - 1 : G[i] = ShiftAfter(G[i - 1], rest[i])
  BY <1>1, <1>9 DEF FlagsAlong
<1>6. ASSUME NEW i \in 1 .. n - 1, G[i - 1] = H[i - 1] PROVE G[i] = H[i]
  <2>1. i \in 0 .. n - 1 /\ i - 1 \in 0 .. n - 1 /\ i + 1 \in 1 .. n /\ (i - 1) + 1 = i
        /\ (i + 1) - 1 = i
    BY <1>1
  <2>2. H[i] = F[i + 1] /\ H[i - 1] = F[i]
    BY <2>1
  <2>3. F[i + 1] = ShiftAfter(F[i], codes[i + 1])
    BY <1>3, <2>1
  <2> QED
    BY <1>1, <1>4, <1>6, <2>2, <2>3
<1> HIDE DEF H
<1>7. GoOnAlike(G, H, n - 1)
  BY <1>6 DEF GoOnAlike
<1>8. \A i \in 0 .. n - 1 : G[i] = H[i]
  BY <1>1, <1>4, <1>5, <1>7, Agree
<1> QED
  BY <1>8 DEF F, G, H, n, rest, first

-----------------------------------------------------------------------------
(***************************************************************************)
(* The keyboard: what is echoed.                                           *)
(***************************************************************************)

\* The table agrees with the letters of a US keyboard, row by row.
LEMMA LetterRows ==
  /\ \A code \in 16 .. 25 : Letters[code - 15] + 32 = ASCIITable[code + 1]
  /\ \A code \in 30 .. 38 : Letters[code - 19] + 32 = ASCIITable[code + 1]
  /\ \A code \in 44 .. 50 : Letters[code - 24] + 32 = ASCIITable[code + 1]
<1>1. \A code \in 16 .. 25 : Letters[code - 15] + 32 = ASCIITable[code + 1]
  BY DEF Letters, ASCIITable
<1>2. \A code \in 30 .. 38 : Letters[code - 19] + 32 = ASCIITable[code + 1]
  BY DEF Letters, ASCIITable
<1>3. \A code \in 44 .. 50 : Letters[code - 24] + 32 = ASCIITable[code + 1]
  BY DEF Letters, ASCIITable
<1> QED
  BY <1>1, <1>2, <1>3

\* Every entry of the table has a glyph, and is no char or at least a blank.
LEMMA TableHasGlyphs ==
  Len(ASCIITable) = 58 /\ \A i \in 1 .. 58 : ASCIITable[i] \in {0} \cup (32 .. 127)
<1>1. Len(ASCIITable) = 58
  BY DEF ASCIITable
<1>2. \A i \in 1 .. 58 : ASCIITable[i] \in {0} \cup (32 .. 127)
  BY DEF ASCIITable
<1> QED
  BY <1>1, <1>2

\* How many numbers there are from a to b.
LEMMA IntervalSize ==
  ASSUME NEW a \in Int, NEW b \in Int, a <= b
  PROVE  IsFiniteSet(a .. b) /\ Cardinality(a .. b) = b - a + 1
BY FS_Interval

\* How many letters there are up to one of them.
LEMMA LettersUpTo ==
  LET below(code) == Cardinality({c \in LetterCodes : c <= code})
  IN /\ \A code \in 16 .. 25 : below(code) = code - 15
     /\ \A code \in 30 .. 38 : below(code) = code - 19
     /\ \A code \in 44 .. 50 : below(code) = code - 24
<1> DEFINE upTo(code) == {c \in LetterCodes : c <= code}
<1>1. ASSUME NEW code \in 16 .. 25 PROVE Cardinality(upTo(code)) = code - 15
  <2>1. upTo(code) = 16 .. code
    BY DEF LetterCodes
  <2>2. Cardinality(16 .. code) = code - 15
    BY IntervalSize
  <2> HIDE DEF upTo
  <2> QED
    BY <2>1, <2>2
<1>2. ASSUME NEW code \in 30 .. 38
      PROVE  IsFiniteSet(upTo(code)) /\ Cardinality(upTo(code)) = code - 19
  <2> DEFINE A == 16 .. 25
             B == 30 .. code
  <2>1. upTo(code) = A \cup B /\ A \cap B = {}
    BY DEF LetterCodes
  <2>2. IsFiniteSet(A) /\ Cardinality(A) = 10
    <3>1. 16 \in Int /\ 25 \in Int /\ 16 <= 25 /\ 25 - 16 + 1 = 10
      OBVIOUS
    <3>2. IsFiniteSet(A) /\ Cardinality(A) = 25 - 16 + 1
      BY <3>1, IntervalSize
    <3> QED
      BY <3>1, <3>2
  <2>3. IsFiniteSet(B) /\ Cardinality(B) = code - 29
    <3>1. code \in Int /\ 30 <= code /\ code - 30 + 1 = code - 29
      OBVIOUS
    <3>2. IsFiniteSet(B) /\ Cardinality(B) = code - 30 + 1
      BY <3>1, IntervalSize
    <3> QED
      BY <3>1, <3>2
  <2> HIDE DEF upTo, A, B
  <2>5. Cardinality({}) = 0
    BY FS_EmptySet
  <2>4. IsFiniteSet(A \cup B) /\ Cardinality(A \cup B) = Cardinality(A) + Cardinality(B) - Cardinality(A \cap B)
    BY <2>2, <2>3, FS_Union
  <2>6. Cardinality(upTo(code)) = 10 + (code - 29) - 0
    BY <2>1, <2>2, <2>3, <2>4, <2>5
  <2>7. 10 + (code - 29) - 0 = code - 19
    OBVIOUS
  <2> QED
    BY <2>1, <2>4, <2>6, <2>7
<1>3. ASSUME NEW code \in 44 .. 50 PROVE Cardinality(upTo(code)) = code - 24
  <2> DEFINE A == upTo(38)
             B == 44 .. code
  <2>1. upTo(code) = A \cup B /\ A \cap B = {}
    BY DEF LetterCodes
  <2>2. IsFiniteSet(A) /\ Cardinality(A) = 38 - 19
    BY <1>2
  <2>3. IsFiniteSet(B) /\ Cardinality(B) = code - 43
    BY IntervalSize
  <2> HIDE DEF upTo, A, B
  <2>5. Cardinality({}) = 0
    BY FS_EmptySet
  <2>4. Cardinality(A \cup B) = Cardinality(A) + Cardinality(B) - Cardinality(A \cap B)
    BY <2>2, <2>3, FS_Union
  <2> QED
    BY <2>1, <2>2, <2>3, <2>4, <2>5
<1> QED
  BY <1>1, <1>2, <1>3

\* A letter's code is translated.
LEMMA LetterIsTranslated ==
  ASSUME NEW code \in LetterCodes
  PROVE  Echo(held, code) = Translate(code, held # {})
<1>1. code \in Int /\ 16 <= code /\ code <= 50 /\ code \notin {28, 42}
  BY DEF LetterCodes
<1> QED
  BY <1>1 DEF Echo, ShiftCodes, ShiftKeys, Released, LEFT_SHIFT, RIGHT_SHIFT, ENTER,
              BACKSPACE, SPACEBAR, PRESSED_TO_RELEASE_OFFSET

\* A letter struck is the letter echoed, if the flags are the keys held.
LEMMA EchoOfLetter ==
  ASSUME NEW code \in LetterCodes
  PROVE  Echo(held, code) = LetterOf(code)
<1> DEFINE below == Cardinality({c \in LetterCodes : c <= code})
<1>1. below \in 1 .. 26 /\ Letters[below] + 32 = ASCIITable[code + 1]
  <2>1. CASE code \in 16 .. 25
    <3>1. below = code - 15
      BY <2>1, LettersUpTo
    <3> HIDE DEF below
    <3> QED
      BY <2>1, <3>1, LetterRows
  <2>2. CASE code \in 30 .. 38
    <3>1. below = code - 19
      BY <2>2, LettersUpTo
    <3> HIDE DEF below
    <3> QED
      BY <2>2, <3>1, LetterRows
  <2>3. CASE code \in 44 .. 50
    <3>1. below = code - 24
      BY <2>3, LettersUpTo
    <3> HIDE DEF below
    <3> QED
      BY <2>3, <3>1, LetterRows
  <2> QED
    BY <2>1, <2>2, <2>3 DEF LetterCodes
<1>2. /\ code \in Int /\ 16 <= code /\ code <= 50 /\ code \notin {28, 42}
  BY DEF LetterCodes
<1>3. ASCIITable[code + 1] \in Int /\ Letters[below] = ASCIITable[code + 1] - 32
  <2>1. ASCIITable[code + 1] \in Int
    BY <1>2, TableHasGlyphs
  <2>2. \A i \in 1 .. 26 : Letters[i] \in Int
    BY DEF Letters
  <2> HIDE DEF below
  <2> QED
    BY <1>1, <2>1, <2>2
<1>4. Entry(code) = ASCIITable[code + 1]
  BY <1>2, TableHasGlyphs DEF Entry
<1>5. Echo(held, code) = Translate(code, held # {})
  BY LetterIsTranslated
<1>6. LetterOf(code) = IF held # {} THEN Letters[below] ELSE Letters[below] + 32
  BY DEF LetterOf
<1>7. Translate(code, held # {}) = Entry(code) - (IF held # {} THEN 32 ELSE 0)
  BY <1>2 DEF Translate
<1> HIDE DEF below
<1>8. CASE held = {}
  BY <1>1, <1>3, <1>4, <1>5, <1>6, <1>7, <1>8
<1>9. CASE held # {}
  BY <1>1, <1>3, <1>4, <1>5, <1>6, <1>7, <1>9
<1> QED
  BY <1>8, <1>9

\* The letter meant is a char.
LEMMA LetterOfIsInt ==
  ASSUME NEW code \in LetterCodes
  PROVE  LetterOf(code) \in Int
<1>1. LetterOf(code) = Translate(code, held # {})
  BY EchoOfLetter, LetterIsTranslated
<1>2. Entry(code) \in Int
  BY TableHasGlyphs DEF Entry, LetterCodes
<1> QED
  BY <1>1, <1>2 DEF Translate

\* A code is echoed as its entry, less 32 under a flag, or not at all; a char
\* that is not 0 is at least 32.
LEMMA EchoOfCode ==
  ASSUME NEW pressed, NEW code \in Nat \ {58},
         pressed # {} /\ code < 58 => Entry(code) # 0
  PROVE  Echo(pressed, code) \in 0 .. 127
<1>1. Echo(pressed, code) \in {0, 32, Translate(code, pressed # {})}
  BY DEF Echo
<1>2. CASE code > 58
  BY <1>1, <1>2 DEF Translate
<1>3. CASE code < 58
  <2>1. Entry(code) \in {0} \cup (32 .. 127)
    BY <1>3, TableHasGlyphs DEF Entry
  <2>2. CASE pressed = {}
    <3>1. Translate(code, pressed # {}) = Entry(code)
      BY <1>3, <2>1, <2>2 DEF Translate
    <3> QED
      BY <1>1, <2>1, <3>1
  <2>3. CASE pressed # {}
    <3>1. Translate(code, pressed # {}) = Entry(code) - 32
      BY <1>3, <2>3 DEF Translate
    <3>2. Entry(code) \in 32 .. 127
      BY <1>3, <2>1, <2>3
    <3> QED
      BY <1>1, <3>1, <3>2
  <2> QED
    BY <2>2, <2>3
<1> QED
  BY <1>2, <1>3

-----------------------------------------------------------------------------
(***************************************************************************)
(* The keyboard: the inductive invariant.                                  *)
(***************************************************************************)

\* The flags are shift keys, the codes numbers, and each has its char meant.
QueueTypes(pressed, codes, meant, down, sure) ==
  /\ pressed \in SUBSET ShiftKeys /\ down \in SUBSET ShiftKeys
  /\ sure \in SUBSET ShiftKeys
  /\ codes \in Seq(Nat) /\ meant \in Seq(Int) /\ Len(meant) = Len(codes)

\* Handled, the codes make of the flags pressed the keys held down, of those
\* that are sure.
FlagsEndUp(pressed, codes, down, sure) ==
  FlagsAfter(pressed, codes)[Len(codes)] \cap sure = down \cap sure

\* Every code under way, not the first only, will be echoed as it was meant,
\* under the flags that the codes before it leave.
EchoedAsMeant(pressed, codes, meant) ==
  \A i \in 1 .. Len(codes) :
    meant[i] \in {NoClaim, Echo(FlagsAfter(pressed, codes)[i - 1], codes[i])}

QueueInv(pressed, codes, meant, down, sure) ==
  /\ QueueTypes(pressed, codes, meant, down, sure)
  /\ FlagsEndUp(pressed, codes, down, sure)
  /\ EchoedAsMeant(pressed, codes, meant)

\* The inductive invariant. LettersKeepTheirCase speaks of the first code under
\* way; when it is handled the next is the first, so all must be spoken of, and
\* what is meant is settled when a code is sent, under the flags that the codes
\* still before it will have left by then.
KeyboardInv == QueueInv(shift, sent, intended, held, known)

\* A code sent behind the others keeps the invariant, if it makes of the last
\* flags what the keys now held are, and is meant as those flags echo it.
LEMMA CodeSent ==
  ASSUME NEW pressed, NEW codes, NEW meant, NEW down, NEW sure,
         QueueInv(pressed, codes, meant, down, sure),
         NEW c \in Nat, NEW m \in Int,
         NEW down2 \in SUBSET ShiftKeys, NEW sure2 \in SUBSET ShiftKeys,
         m \in {NoClaim, Echo(FlagsAfter(pressed, codes)[Len(codes)], c)},
         ShiftAfter(FlagsAfter(pressed, codes)[Len(codes)], c) \cap sure2 = down2 \cap sure2
  PROVE  QueueInv(pressed, codes \o <<c>>, meant \o <<m>>, down2, sure2)
<1> DEFINE n == Len(codes)
           more == codes \o <<c>>
           meantMore == meant \o <<m>>
           F == FlagsAfter(pressed, codes)
           G == FlagsAfter(pressed, more)
<1>1. /\ pressed \in SUBSET ShiftKeys
      /\ codes \in Seq(Nat) /\ meant \in Seq(Int) /\ Len(meant) = n
  BY DEF QueueInv, QueueTypes
<1>2. /\ n \in Nat /\ more \in Seq(Nat) /\ Len(more) = n + 1
      /\ \A i \in 1 .. n : more[i] = codes[i]
      /\ more[n + 1] = c
  BY <1>1
<1>3. /\ meantMore \in Seq(Int) /\ Len(meantMore) = n + 1
      /\ \A i \in 1 .. n : meantMore[i] = meant[i]
      /\ meantMore[n + 1] = m
  BY <1>1
<1>4. (\A i \in 0 .. n : G[i] = F[i]) /\ G[n + 1] = ShiftAfter(F[n], c)
  BY <1>1, FlagsAppended
<1>5. \A i \in 1 .. n : meant[i] \in {NoClaim, Echo(F[i - 1], codes[i])}
  BY DEF QueueInv, EchoedAsMeant
<1> HIDE DEF n, more, meantMore, F, G
<1>6. QueueTypes(pressed, more, meantMore, down2, sure2)
  BY <1>1, <1>2, <1>3 DEF QueueTypes
<1>7. FlagsEndUp(pressed, more, down2, sure2)
  BY <1>2, <1>4 DEF FlagsEndUp, F, G, n
<1>8. EchoedAsMeant(pressed, more, meantMore)
  <2>1. ASSUME NEW i \in 1 .. n + 1
        PROVE  meantMore[i] \in {NoClaim, Echo(G[i - 1], more[i])}
    <3>1. CASE i \in 1 .. n
      <4>1. G[i - 1] = F[i - 1]
        BY <1>2, <1>4, <3>1
      <4> QED
        BY <1>2, <1>3, <1>5, <3>1, <4>1
    <3>2. CASE i = n + 1
      <4>1. G[i - 1] = F[n]
        BY <1>2, <1>4, <3>2
      <4> QED
        BY <1>2, <1>3, <3>2, <4>1 DEF F, n
    <3> QED
      BY <1>2, <3>1, <3>2
  <2> QED
    BY <1>2, <2>1 DEF EchoedAsMeant, G
<1> QED
  BY <1>6, <1>7, <1>8 DEF QueueInv, more, meantMore

\* So does handling the first.
LEMMA CodeHandled ==
  ASSUME NEW pressed, NEW codes, NEW meant, NEW down, NEW sure,
         QueueInv(pressed, codes, meant, down, sure), codes # <<>>
  PROVE  QueueInv(ShiftAfter(pressed, Head(codes)), Tail(codes), Tail(meant), down, sure)
<1> DEFINE n == Len(codes)
           first == ShiftAfter(pressed, Head(codes))
           rest == Tail(codes)
           meantRest == Tail(meant)
           F == FlagsAfter(pressed, codes)
           G == FlagsAfter(first, rest)
<1>1. /\ pressed \in SUBSET ShiftKeys /\ down \in SUBSET ShiftKeys
      /\ sure \in SUBSET ShiftKeys
      /\ codes \in Seq(Nat) /\ meant \in Seq(Int) /\ Len(meant) = n
  BY DEF QueueInv, QueueTypes
<1>2. /\ n \in Nat \ {0} /\ rest \in Seq(Nat) /\ Len(rest) = n - 1
      /\ \A i \in 1 .. n - 1 : rest[i] = codes[i + 1]
  BY <1>1
<1>3. /\ meantRest \in Seq(Int) /\ Len(meantRest) = n - 1
      /\ \A i \in 1 .. n - 1 : meantRest[i] = meant[i + 1]
  BY <1>1, <1>2
<1>4. first \in SUBSET ShiftKeys
  BY <1>1, ShiftAfterType
<1>5. \A i \in 0 .. n - 1 : G[i] = F[i + 1]
  BY <1>1, FlagsHandled
<1>6. \A i \in 1 .. n : meant[i] \in {NoClaim, Echo(F[i - 1], codes[i])}
  BY DEF QueueInv, EchoedAsMeant
<1>7. F[n] \cap sure = down \cap sure
  BY DEF QueueInv, FlagsEndUp
<1> HIDE DEF n, first, rest, meantRest, F, G
<1>8. QueueTypes(first, rest, meantRest, down, sure)
  BY <1>1, <1>2, <1>3, <1>4 DEF QueueTypes
<1>9. FlagsEndUp(first, rest, down, sure)
  <2>1. G[n - 1] = F[n]
    BY <1>2, <1>5
  <2> QED
    BY <1>2, <1>7, <2>1 DEF FlagsEndUp, G
<1>10. EchoedAsMeant(first, rest, meantRest)
  <2>1. ASSUME NEW i \in 1 .. n - 1
        PROVE  meantRest[i] \in {NoClaim, Echo(G[i - 1], rest[i])}
    <3>1. G[i - 1] = F[i] /\ i + 1 \in 1 .. n /\ (i + 1) - 1 = i
      BY <1>2, <1>5
    <3> QED
      BY <1>2, <1>3, <1>6, <3>1
  <2> QED
    BY <1>2, <2>1 DEF EchoedAsMeant, G
<1> QED
  BY <1>8, <1>9, <1>10 DEF QueueInv, first, rest, meantRest

\* What the last flags are, as far as the invariant knows them.
LEMMA LastFlags ==
  ASSUME KeyboardInv
  PROVE  /\ FlagsAfter(shift, sent)[Len(sent)] \in SUBSET ShiftKeys
         /\ FlagsAfter(shift, sent)[Len(sent)] \cap known = held \cap known
         /\ held \in SUBSET ShiftKeys /\ known \in SUBSET ShiftKeys
<1>1. /\ shift \in SUBSET ShiftKeys /\ sent \in Seq(Nat)
      /\ held \in SUBSET ShiftKeys /\ known \in SUBSET ShiftKeys
  BY DEF KeyboardInv, QueueInv, QueueTypes
<1>2. FlagsAlong(FlagsAfter(shift, sent), shift, sent)
  BY <1>1, FlagsAfterIs
<1>3. Len(sent) \in 0 .. Len(sent)
  BY <1>1
<1>4. FlagsAfter(shift, sent)[Len(sent)] \in SUBSET ShiftKeys
  BY <1>2, <1>3 DEF FlagsAlong
<1> QED
  BY <1>1, <1>4 DEF KeyboardInv, QueueInv, FlagsEndUp

\* The codes of the other keys are no shift's.
LEMMA OtherCodesAreNoShifts ==
  /\ \A code \in LetterCodes : code \in Nat /\ code \notin ShiftCodes
  /\ \A code \in OtherCodes \cup {Released(c) : c \in OtherCodes} :
       code \in Nat /\ code \notin ShiftCodes
  /\ PREFIX \in Nat /\ PREFIX \notin ShiftCodes
<1>1. \A code \in LetterCodes : code \in Nat /\ code \notin ShiftCodes
  BY DEF LetterCodes, ShiftCodes, ShiftKeys, Released, LEFT_SHIFT, RIGHT_SHIFT,
         PRESSED_TO_RELEASE_OFFSET
<1>2. \A code \in OtherCodes : /\ code \in 1 .. 83
                               /\ code \notin ShiftCodes /\ Released(code) \notin ShiftCodes
  BY CodesAssumption DEF CodesAssumption, ShiftCodes, ShiftKeys, Released, LEFT_SHIFT,
     RIGHT_SHIFT, PRESSED_TO_RELEASE_OFFSET
<1>3. \A code \in OtherCodes : Released(code) \in Nat
  BY <1>2 DEF Released, PRESSED_TO_RELEASE_OFFSET
<1>4. PREFIX \in Nat /\ PREFIX \notin ShiftCodes
  BY DEF PREFIX, ShiftCodes, ShiftKeys, Released, LEFT_SHIFT, RIGHT_SHIFT,
         PRESSED_TO_RELEASE_OFFSET
<1> QED
  BY <1>1, <1>2, <1>3, <1>4

\* Two elements appended one by one.
LEMMA OneThenAnother ==
  ASSUME NEW S, NEW s \in Seq(S), NEW a \in S, NEW b \in S
  PROVE  (s \o <<a>>) \o <<b>> = s \o <<a, b>>
<1> DEFINE l == (s \o <<a>>) \o <<b>>
           r == s \o <<a, b>>
<1>1. s \o <<a>> \in Seq(S) /\ Len(s \o <<a>>) = Len(s) + 1
  OBVIOUS
<1>2. l \in Seq(S) /\ Len(l) = Len(s) + 2
  BY <1>1
<1>3. r \in Seq(S) /\ Len(r) = Len(s) + 2
  OBVIOUS
<1>4. ASSUME NEW i \in 1 .. Len(s) + 2 PROVE l[i] = r[i]
  <2>1. CASE i <= Len(s)
    BY <1>1, <2>1
  <2>2. CASE i = Len(s) + 1
    BY <1>1, <2>2
  <2>3. CASE i = Len(s) + 2
    BY <1>1, <2>3
  <2> QED
    BY <2>1, <2>2, <2>3
<1> HIDE DEF l, r
<1>5. l = r
  BY <1>2, <1>3, <1>4, SeqEqual
<1> QED
  BY <1>5 DEF l, r

\* The invariant at the start.
LEMMA KeyboardStarts ==
  ASSUME KeyboardInit
  PROVE  KeyboardInv
<1>1. /\ shift = {} /\ sent = <<>> /\ intended = <<>>
      /\ held \in SUBSET ShiftKeys /\ known = ShiftKeys \ held
  BY DEF KeyboardInit
<1>2. {} \in SUBSET ShiftKeys /\ <<>> \in Seq(Nat) /\ Len(<<>>) = 0
  OBVIOUS
<1>3. FlagsAlong(FlagsAfter({}, <<>>), {}, <<>>)
  BY <1>2, FlagsAfterIs
<1>4. FlagsAfter({}, <<>>)[0] = {}
  BY <1>3 DEF FlagsAlong
<1>5. QueueTypes(shift, sent, intended, held, known)
  BY <1>1 DEF QueueTypes
<1>6. FlagsEndUp(shift, sent, held, known)
  BY <1>1, <1>2, <1>4 DEF FlagsEndUp
<1>7. EchoedAsMeant(shift, sent, intended)
  BY <1>1 DEF EchoedAsMeant
<1> QED
  BY <1>5, <1>6, <1>7 DEF KeyboardInv, QueueInv

\* A shift key pressed, repeated or released: its flag ends up right, whatever
\* it was.
LEMMA ShiftKeyKeeps ==
  ASSUME KeyboardInv, ShiftKey
  PROVE  KeyboardInv'
<1> DEFINE F == FlagsAfter(shift, sent)[Len(sent)]
<1>1. PICK k \in ShiftKeys :
        /\ \/ held' = held \cup {k} /\ Send(<<k>>, <<NoClaim>>)
           \/ k \in held /\ held' = held \ {k} /\ Send(<<Released(k)>>, <<NoClaim>>)
        /\ known' = known \cup {k}
  BY DEF ShiftKey
<1>2. /\ F \in SUBSET ShiftKeys /\ F \cap known = held \cap known
      /\ held \in SUBSET ShiftKeys /\ known \in SUBSET ShiftKeys
  BY LastFlags
<1>3. k \in Nat /\ Released(k) \in Nat /\ NoClaim \in Int
  BY DEF ShiftKeys, Released, LEFT_SHIFT, RIGHT_SHIFT, PRESSED_TO_RELEASE_OFFSET, NoClaim
<1>4. ShiftAfter(F, k) = F \cup {k} /\ ShiftAfter(F, Released(k)) = F \ {k}
  BY ShiftAfterIs
<1>5. held' \in SUBSET ShiftKeys /\ known' \in SUBSET ShiftKeys
  BY <1>1, <1>2
<1>6. QueueInv(shift, sent, intended, held, known)
  BY DEF KeyboardInv
<1>7. CASE held' = held \cup {k} /\ Send(<<k>>, <<NoClaim>>)
  <2>1. shift' = shift /\ sent' = sent \o <<k>> /\ intended' = intended \o <<NoClaim>>
    BY <1>7 DEF Send
  <2>2. ShiftAfter(F, k) \cap known' = held' \cap known'
    BY <1>1, <1>2, <1>4, <1>7
  <2>3. QueueInv(shift, sent \o <<k>>, intended \o <<NoClaim>>, held', known')
    BY <1>3, <1>5, <1>6, <2>2, CodeSent
  <2> QED
    BY <2>1, <2>3 DEF KeyboardInv
<1>8. CASE k \in held /\ held' = held \ {k} /\ Send(<<Released(k)>>, <<NoClaim>>)
  <2>1. /\ shift' = shift /\ sent' = sent \o <<Released(k)>>
        /\ intended' = intended \o <<NoClaim>>
    BY <1>8 DEF Send
  <2>2. ShiftAfter(F, Released(k)) \cap known' = held' \cap known'
    BY <1>1, <1>2, <1>4, <1>8
  <2>3. QueueInv(shift, sent \o <<Released(k)>>, intended \o <<NoClaim>>, held', known')
    BY <1>3, <1>5, <1>6, <2>2, CodeSent
  <2> QED
    BY <2>1, <2>3 DEF KeyboardInv
<1> QED
  BY <1>1, <1>7, <1>8

\* A letter is meant as it will be echoed, once both flags are sure.
LEMMA LetterKeyKeeps ==
  ASSUME KeyboardInv, LetterKey
  PROVE  KeyboardInv'
<1> DEFINE F == FlagsAfter(shift, sent)[Len(sent)]
<1>1. PICK code \in LetterCodes :
        /\ Send(<<code>>, <<IF known = ShiftKeys THEN LetterOf(code) ELSE NoClaim>>)
        /\ UNCHANGED <<held, known>>
  BY DEF LetterKey
<1> DEFINE m == IF known = ShiftKeys THEN LetterOf(code) ELSE NoClaim
<1>2. /\ F \in SUBSET ShiftKeys /\ F \cap known = held \cap known
      /\ held \in SUBSET ShiftKeys /\ known \in SUBSET ShiftKeys
  BY LastFlags
<1>3. code \in Nat /\ ShiftAfter(F, code) = F
  BY ShiftAfterIs, OtherCodesAreNoShifts
<1>4. m \in {NoClaim, Echo(F, code)}
  <2>1. CASE known = ShiftKeys
    <3>1. F = held
      BY <1>2, <2>1
    <3>2. m = Echo(F, code)
      BY <2>1, <3>1, EchoOfLetter
    <3> QED
      BY <3>2
  <2>2. CASE known # ShiftKeys
    BY <2>2
  <2> QED
    BY <2>1, <2>2
<1>5. m \in Int
  BY LetterOfIsInt DEF NoClaim
<1>6. QueueInv(shift, sent, intended, held, known)
  BY DEF KeyboardInv
<1>7. /\ shift' = shift /\ sent' = sent \o <<code>> /\ intended' = intended \o <<m>>
      /\ held' = held /\ known' = known
  BY <1>1 DEF Send
<1> HIDE DEF m
<1>8. QueueInv(shift, sent \o <<code>>, intended \o <<m>>, held, known)
  BY <1>2, <1>3, <1>4, <1>5, <1>6, CodeSent
<1> QED
  BY <1>7, <1>8 DEF KeyboardInv

\* Other keys leave the flags alone and mean no char.
LEMMA OtherKeyKeeps ==
  ASSUME KeyboardInv, OtherKey
  PROVE  KeyboardInv'
<1> DEFINE F == FlagsAfter(shift, sent)[Len(sent)]
<1>1. PICK code \in OtherCodes \cup {Released(c) : c \in OtherCodes} :
        Send(<<code>>, <<NoClaim>>) /\ UNCHANGED <<held, known>>
  BY DEF OtherKey
<1>2. /\ F \in SUBSET ShiftKeys /\ F \cap known = held \cap known
      /\ held \in SUBSET ShiftKeys /\ known \in SUBSET ShiftKeys
  BY LastFlags
<1>3. code \in Nat /\ ShiftAfter(F, code) = F
  BY ShiftAfterIs, OtherCodesAreNoShifts
<1>4. QueueInv(shift, sent, intended, held, known)
  BY DEF KeyboardInv
<1>5. /\ shift' = shift /\ sent' = sent \o <<code>> /\ intended' = intended \o <<NoClaim>>
      /\ held' = held /\ known' = known
  BY <1>1 DEF Send
<1>6. NoClaim \in Int
  BY DEF NoClaim
<1>7. QueueInv(shift, sent \o <<code>>, intended \o <<NoClaim>>, held, known)
  BY <1>2, <1>3, <1>4, <1>6, CodeSent
<1> QED
  BY <1>5, <1>7 DEF KeyboardInv

\* An extended key sends two codes; a flag that its second makes wrong is no
\* longer sure.
LEMMA ExtendedKeyKeeps ==
  ASSUME KeyboardInv, ExtendedKey
  PROVE  KeyboardInv'
<1> DEFINE F == FlagsAfter(shift, sent)[Len(sent)]
           sent1 == sent \o <<PREFIX>>
           intended1 == intended \o <<NoClaim>>
           F1 == FlagsAfter(shift, sent1)[Len(sent1)]
<1>1. PICK code \in ExtendedCodes :
        /\ Send(<<PREFIX, code>>, <<NoClaim, NoClaim>>)
        /\ known' = known \ {k \in ShiftKeys : code \in {k, Released(k)}}
        /\ UNCHANGED held
  BY DEF ExtendedKey
<1>2. /\ F \in SUBSET ShiftKeys /\ F \cap known = held \cap known
      /\ held \in SUBSET ShiftKeys /\ known \in SUBSET ShiftKeys
  BY LastFlags
<1>3. PREFIX \in Nat /\ ShiftAfter(F, PREFIX) = F /\ NoClaim \in Int
  <2>1. PREFIX \in Nat /\ PREFIX \notin ShiftCodes
    BY OtherCodesAreNoShifts
  <2>2. ShiftAfter(F, PREFIX) = F
    BY <2>1, ShiftAfterIs
  <2> QED
    BY <2>1, <2>2 DEF NoClaim
<1>4. QueueInv(shift, sent, intended, held, known)
  BY DEF KeyboardInv
<1>5. QueueInv(shift, sent1, intended1, held, known)
  BY <1>2, <1>3, <1>4, CodeSent
<1>6. F1 = F
  <2>1. shift \in SUBSET ShiftKeys /\ sent \in Seq(Nat)
    BY <1>4 DEF QueueInv, QueueTypes
  <2>2. FlagsAfter(shift, sent1)[Len(sent) + 1] = ShiftAfter(F, PREFIX)
    <3>1. PICK C : C = Nat
      OBVIOUS
    <3>2. sent \in Seq(C) /\ PREFIX \in C
      BY <1>3, <2>1, <3>1
    <3> QED
      BY <2>1, <3>2, FlagsAppended
  <2>3. Len(sent1) = Len(sent) + 1
    BY <2>1, <1>3
  <2> QED
    BY <1>3, <2>2, <2>3
<1>7. code \in Nat
  BY CodesAssumption DEF CodesAssumption
<1>8. ShiftAfter(F, code) \cap known' = held \cap known'
  <2>1. CASE code \notin ShiftCodes
    <3>1. ShiftAfter(F, code) = F
      BY <2>1, ShiftAfterIs
    <3>2. known' \subseteq known
      BY <1>1
    <3> QED
      BY <1>2, <3>1, <3>2
  <2>2. CASE code \in ShiftCodes
    <3>1. PICK k \in ShiftKeys : code = k \/ code = Released(k)
      BY <2>2 DEF ShiftCodes
    <3>2. k \notin known' /\ known' \subseteq known
      BY <1>1, <3>1
    <3>3. ShiftAfter(F, code) \in {F \cup {k}, F \ {k}}
      BY <3>1, ShiftAfterIs
    <3> QED
      BY <1>2, <3>2, <3>3
  <2> QED
    BY <2>1, <2>2
<1>9. known' \in SUBSET ShiftKeys
  BY <1>1, <1>2
<1> HIDE DEF F1, sent1, intended1
<1>10. QueueInv(shift, sent1 \o <<code>>, intended1 \o <<NoClaim>>, held, known')
  BY <1>2, <1>3, <1>5, <1>6, <1>7, <1>8, <1>9, CodeSent DEF F1
<1>11. /\ sent1 \o <<code>> = sent \o <<PREFIX, code>>
       /\ intended1 \o <<NoClaim>> = intended \o <<NoClaim, NoClaim>>
  <2>1. sent \in Seq(Nat) /\ intended \in Seq(Int)
    BY <1>4 DEF QueueInv, QueueTypes
  <2> QED
    BY <1>3, <1>7, <2>1, OneThenAnother DEF sent1, intended1
<1>12. /\ shift' = shift /\ sent' = sent \o <<PREFIX, code>>
       /\ intended' = intended \o <<NoClaim, NoClaim>> /\ held' = held
  BY <1>1 DEF Send
<1> QED
  BY <1>10, <1>11, <1>12 DEF KeyboardInv

\* The driver takes the first code.
LEMMA HandlingKeeps ==
  ASSUME KeyboardInv, handlePS2_Keyboard
  PROVE  KeyboardInv'
<1>1. /\ sent # <<>> /\ shift' = ShiftAfter(shift, Head(sent))
      /\ sent' = Tail(sent) /\ intended' = Tail(intended)
      /\ held' = held /\ known' = known
  BY DEF handlePS2_Keyboard
<1>2. QueueInv(shift, sent, intended, held, known)
  BY DEF KeyboardInv
<1>3. QueueInv(ShiftAfter(shift, Head(sent)), Tail(sent), Tail(intended), held, known)
  BY <1>1, <1>2, CodeHandled
<1> QED
  BY <1>1, <1>3 DEF KeyboardInv

\* The invariant is inductive.
THEOREM KeyboardInvHolds == KeyboardSpec => []KeyboardInv
<1>1. KeyboardInit => KeyboardInv
  BY KeyboardStarts
<1>2. KeyboardInv /\ [KeyboardNext]_keyboardVars => KeyboardInv'
  <2> SUFFICES ASSUME KeyboardInv, [KeyboardNext]_keyboardVars
               PROVE  KeyboardInv'
    OBVIOUS
  <2>1. CASE ShiftKey
    BY <2>1, ShiftKeyKeeps
  <2>2. CASE LetterKey
    BY <2>2, LetterKeyKeeps
  <2>3. CASE OtherKey
    BY <2>3, OtherKeyKeeps
  <2>4. CASE ExtendedKey
    BY <2>4, ExtendedKeyKeeps
  <2>5. CASE handlePS2_Keyboard
    BY <2>5, HandlingKeeps
  <2>6. CASE UNCHANGED keyboardVars
    BY <2>6 DEF KeyboardInv, keyboardVars
  <2> QED
    BY <2>1, <2>2, <2>3, <2>4, <2>5, <2>6 DEF KeyboardNext
<1> QED
  BY <1>1, <1>2, PTL DEF KeyboardSpec

\* Once the codes under way are handled, each flag that is sure is right, for
\* every queue of codes and every set of other keys.
THEOREM FlagsFollowKeysHolds == KeyboardSpec => []FlagsFollowKeys
<1>1. KeyboardInv => FlagsFollowKeys
  BY DEF KeyboardInv, QueueInv, FlagsEndUp, FlagsFollowKeys
<1> QED
  BY <1>1, KeyboardInvHolds, PTL

\* A letter struck while both flags are sure is echoed in the case of the shift
\* keys held when it was struck, however long it was under way.
THEOREM LettersKeepTheirCaseHolds == KeyboardSpec => []LettersKeepTheirCase
<1>1. ASSUME KeyboardInv, sent # <<>>
      PROVE  Head(intended) \in {NoClaim, Echo(shift, Head(sent))}
  <2>1. /\ shift \in SUBSET ShiftKeys /\ sent \in Seq(Nat) /\ intended \in Seq(Int)
        /\ Len(intended) = Len(sent)
    BY <1>1 DEF KeyboardInv, QueueInv, QueueTypes
  <2>2. /\ 1 \in 1 .. Len(sent) /\ Head(sent) = sent[1] /\ Head(intended) = intended[1]
    BY <1>1, <2>1
  <2>3. FlagsAlong(FlagsAfter(shift, sent), shift, sent)
    BY <2>1, FlagsAfterIs
  <2>4. FlagsAfter(shift, sent)[1 - 1] = shift
    BY <2>3 DEF FlagsAlong
  <2>5. EchoedAsMeant(shift, sent, intended)
    BY <1>1 DEF KeyboardInv, QueueInv
  <2>6. intended[1] \in {NoClaim, Echo(FlagsAfter(shift, sent)[1 - 1], sent[1])}
    BY <2>2, <2>5 DEF EchoedAsMeant
  <2> QED
    BY <2>2, <2>4, <2>6
<1>2. KeyboardInv => LettersKeepTheirCase
  BY <1>1 DEF LettersKeepTheirCase
<1> QED
  BY <1>2, KeyboardInvHolds, PTL

\* Under any flags, every key that has a char is echoed with a glyph of the
\* font, and without a flag every key but Caps Lock, if it is echoed at all.
THEOREM EchoHasAGlyphHolds == KeyboardSpec => []EchoHasAGlyph
<1>1. ASSUME KeyboardInv, sent # <<>>, Head(sent) # 58,
             shift # {} /\ Head(sent) < 58 => Entry(Head(sent)) # 0
      PROVE  Echo(shift, Head(sent)) \in 0 .. 127
  <2>1. sent \in Seq(Nat)
    BY <1>1 DEF KeyboardInv, QueueInv, QueueTypes
  <2>2. Head(sent) \in Nat \ {58}
    BY <1>1, <2>1
  <2> QED
    BY <1>1, <2>2, EchoOfCode
<1>2. KeyboardInv => EchoHasAGlyph
  BY <1>1 DEF EchoHasAGlyph
<1> QED
  BY <1>2, KeyboardInvHolds, PTL

-----------------------------------------------------------------------------
(***************************************************************************)
(* The conversions: the recursive functions they are made of.              *)
(***************************************************************************)

\* The powers of a number.
PowersOf(P, base) ==
  /\ P \in [Nat -> Nat]
  /\ P[0] = 1
  /\ \A n \in Nat : P[n + 1] = base * P[n]

LEMMA PowerIs ==
  ASSUME NEW base \in Nat
  PROVE  PowersOf(Power(base), base)
<1> DEFINE S == Nat
           step == [i \in Nat |-> [p \in S |-> base * p]]
           P == Power(base)
<1>1. step \in [Nat -> [S -> S]] /\ 1 \in S
  OBVIOUS
<1>2. PICK f \in [Nat -> S] : BuildsOn(f, 1, step)
  <2> HIDE DEF step, S
  <2> QED
    BY <1>1, Recursion
<1>3. \A i \in Nat \ {0} : f[i] = base * f[i - 1]
  <2> TAKE i \in Nat \ {0}
  <2>1. f[i - 1] \in Nat
    OBVIOUS
  <2>2. step[i][f[i - 1]] = base * f[i - 1]
    BY <2>1
  <2> QED
    BY <2>2, <1>2 DEF BuildsOn
<1>4. f = [i \in Nat |-> IF i = 0 THEN 1 ELSE base * f[i - 1]]
  <2> HIDE DEF step
  <2> QED
    BY <1>2, <1>3 DEF BuildsOn
<1>5. P = [i \in Nat |-> IF i = 0 THEN 1 ELSE base * P[i - 1]]
  BY <1>4 DEF Power
<1> HIDE DEF P
<1>6. P[0] = 1 /\ \A i \in Nat : P[i + 1] = base * P[i]
  <2>1. P[0] = 1
    BY <1>5
  <2>2. ASSUME NEW i \in Nat PROVE P[i + 1] = base * P[i]
    <3>1. i + 1 \in Nat /\ i + 1 # 0 /\ (i + 1) - 1 = i
      OBVIOUS
    <3> QED
      BY <1>5, <3>1
  <2> QED
    BY <2>1, <2>2
<1>7. \A i \in Nat : P[i] \in Nat
  <2> DEFINE T == {i \in Nat : P[i] \in Nat}
  <2>1. 0 \in T
    BY <1>6
  <2>2. ASSUME NEW i \in Nat, i \in T PROVE i + 1 \in T
    BY <1>6, <2>2
  <2> HIDE DEF T
  <2>3. \A i \in Nat : i \in T
    BY <2>1, <2>2, Climb
  <2> QED
    BY <2>3 DEF T
<1>8. P \in [Nat -> Nat]
  BY <1>5, <1>7
<1> QED
  BY <1>6, <1>8 DEF PowersOf, P

\* None is zero.
LEMMA PowersArePositive ==
  ASSUME NEW base \in Nat \ {0}, NEW P, PowersOf(P, base)
  PROVE  \A n \in Nat : P[n] \in Nat \ {0}
<1> DEFINE T == {n \in Nat : P[n] \in Nat \ {0}}
<1>1. 0 \in T
  BY DEF PowersOf
<1>2. ASSUME NEW n \in Nat, n \in T PROVE n + 1 \in T
  <2>1. P[n] \in Nat \ {0} /\ P[n + 1] = base * P[n]
    BY <1>2 DEF PowersOf
  <2>2. base * P[n] \in Nat \ {0}
    BY <2>1
  <2> QED
    BY <2>1, <2>2
<1> HIDE DEF T
<1>3. \A n \in Nat : n \in T
  BY <1>1, <1>2, Climb
<1> QED
  BY <1>3 DEF T

\* What divisions by ten leave of a number.
QuotientsOf(Q, value) ==
  /\ Q \in [0 .. Width -> Nat]
  /\ Q[0] = value
  /\ \A k \in 1 .. Width : Q[k] = Q[k - 1] \div 10

LEMMA QuotientsIs ==
  ASSUME NEW value \in Nat
  PROVE  QuotientsOf(Quotients(value), value)
<1> DEFINE S == Nat
           n == Width
           step == [i \in Nat |-> [q \in S |-> q \div 10]]
           Q == Quotients(value)
<1>1. step \in [Nat -> [S -> S]] /\ value \in S /\ n \in Nat
  BY TextsAssumption DEF TextsAssumption
<1>2. PICK f \in [0 .. n -> S] : Builds(f, n, value, step)
  <2> HIDE DEF S, step, n
  <2> QED
    BY <1>1, Segments
<1>3. \A i \in 1 .. n : f[i] = f[i - 1] \div 10
  <2> TAKE i \in 1 .. n
  <2>1. f[i - 1] \in S /\ i \in Nat
    BY <1>1
  <2>2. step[i][f[i - 1]] = f[i - 1] \div 10
    BY <2>1
  <2> HIDE DEF step
  <2> QED
    BY <2>2, <1>2 DEF Builds
<1>4. f = [i \in 0 .. n |-> IF i = 0 THEN value ELSE f[i - 1] \div 10]
  <2>1. f[0] = value
    BY <1>2 DEF Builds
  <2> HIDE DEF step, n
  <2>2. \A i \in 0 .. n : f[i] = IF i = 0 THEN value ELSE f[i - 1] \div 10
    BY <1>1, <1>3, <2>1
  <2> QED
    BY <1>2, <2>2
<1>5. Q = [i \in 0 .. n |-> IF i = 0 THEN value ELSE Q[i - 1] \div 10]
  BY <1>4 DEF Quotients
<1> HIDE DEF Q, n
<1>6. Q[0] = value /\ \A i \in 1 .. n : Q[i] = Q[i - 1] \div 10
  BY <1>1, <1>5
<1>7. \A i \in 0 .. n : Q[i] = f[i]
  <2>1. Q[0] = f[0] /\ GoOnAlike(Q, f, n)
    BY <1>2, <1>3, <1>6 DEF Builds, GoOnAlike
  <2> QED
    BY <1>1, <2>1, Agree
<1>8. Q \in [0 .. n -> Nat]
  BY <1>5, <1>7, <1>2
<1> QED
  BY <1>6, <1>8 DEF QuotientsOf, Q, n

\* Ten times what was left less the next digit is what is left, and no more than
\* a unit.
RestsOf(R, value, places) ==
  /\ R \in [0 .. places -> Nat]
  /\ R[0] = value % Unit
  /\ \A i \in 1 .. places : R[i] = (10 * R[i - 1]) % Unit

\* Fractions are counted in units, of which there is one at least.
LEMMA UnitIsPositive == Unit \in Nat \ {0}
<1>1. PICK k \in 0 .. 10 : Unit = Power(2)[k]
  BY TextsAssumption DEF TextsAssumption
<1>2. PowersOf(Power(2), 2)
  BY PowerIs
<1> QED
  BY <1>1, <1>2, PowersArePositive

LEMMA RestsIs ==
  ASSUME NEW value \in Nat, NEW places \in Nat
  PROVE  RestsOf(Rests(value, places), value, places)
<1> DEFINE S == Nat
           n == places
           step == [i \in Nat |-> [x \in S |-> (10 * x) % Unit]]
           f0 == value % Unit
           R == Rests(value, places)
<1>1. step \in [Nat -> [S -> S]] /\ f0 \in S /\ n \in Nat
  BY UnitIsPositive
<1>2. PICK f \in [0 .. n -> S] : Builds(f, n, f0, step)
  <2> HIDE DEF S, step, n, f0
  <2> QED
    BY <1>1, Segments
<1>3. \A i \in 1 .. n : f[i] = (10 * f[i - 1]) % Unit
  <2> TAKE i \in 1 .. n
  <2>1. f[i - 1] \in S /\ i \in Nat
    BY <1>1
  <2>2. step[i][f[i - 1]] = (10 * f[i - 1]) % Unit
    BY <2>1
  <2> HIDE DEF step
  <2> QED
    BY <2>2, <1>2 DEF Builds
<1>4. f = [i \in 0 .. n |-> IF i = 0 THEN f0 ELSE (10 * f[i - 1]) % Unit]
  <2>1. f[0] = f0
    BY <1>2 DEF Builds
  <2> HIDE DEF step, n, f0
  <2>2. \A i \in 0 .. n :
          f[i] = IF i = 0 THEN f0 ELSE (10 * f[i - 1]) % Unit
    BY <1>1, <1>3, <2>1
  <2> QED
    BY <1>2, <2>2
<1>5. R = [i \in 0 .. n |-> IF i = 0 THEN f0 ELSE (10 * R[i - 1]) % Unit]
  BY <1>4 DEF Rests
<1> HIDE DEF R, n, f0
<1>6. R[0] = f0 /\ \A i \in 1 .. n : R[i] = (10 * R[i - 1]) % Unit
  BY <1>1, <1>5
<1>7. \A i \in 0 .. n : R[i] = f[i]
  <2>1. R[0] = f[0] /\ GoOnAlike(R, f, n)
    BY <1>2, <1>3, <1>6 DEF Builds, GoOnAlike
  <2>2. n \in Nat
    BY <1>1
  <2> QED
    BY <2>1, <2>2, Agree
<1>8. R \in [0 .. n -> S]
  BY <1>5, <1>7, <1>2
<1> QED
  BY <1>6, <1>8 DEF RestsOf, R, n, f0

\* The value of a digit.
DigitValue(char) == IF char > 57 THEN char - 55 ELSE char - 48

\* The numbers that the first digits of a text stand for.
NumbersAlong(N, text, base) ==
  /\ N \in [0 .. Len(text) -> Int]
  /\ N[0] = 0
  /\ \A i \in 1 .. Len(text) : N[i] = base * N[i - 1] + DigitValue(text[i])

LEMMA NumbersInIs ==
  ASSUME NEW base \in Nat, NEW text \in Seq(Int)
  PROVE  NumbersAlong(NumbersIn(text, base), text, base)
<1> DEFINE S == Int
           n == Len(text)
           step == [i \in Nat |-> [x \in S |-> IF i \in 1 .. n THEN base * x + DigitValue(text[i]) ELSE 0]]
           f0 == 0
           R == NumbersIn(text, base)
<1>1. step \in [Nat -> [S -> S]] /\ f0 \in S /\ n \in Nat
  BY DEF DigitValue
<1>2. PICK f \in [0 .. n -> S] : Builds(f, n, f0, step)
  <2> HIDE DEF S, step, n, f0
  <2> QED
    BY <1>1, Segments
<1>3. \A i \in 1 .. n : f[i] = base * f[i - 1] + DigitValue(text[i])
  <2> TAKE i \in 1 .. n
  <2>1. f[i - 1] \in S /\ i \in Nat
    BY <1>1
  <2>2. step[i][f[i - 1]] = base * f[i - 1] + DigitValue(text[i])
    BY <2>1
  <2> HIDE DEF step
  <2> QED
    BY <2>2, <1>2 DEF Builds
<1>4. f = [i \in 0 .. n |-> IF i = 0 THEN f0 ELSE base * f[i - 1] + DigitValue(text[i])]
  <2>1. f[0] = f0
    BY <1>2 DEF Builds
  <2> HIDE DEF step, n, f0
  <2>2. \A i \in 0 .. n :
          f[i] = IF i = 0 THEN f0 ELSE base * f[i - 1] + DigitValue(text[i])
    BY <1>1, <1>3, <2>1
  <2> QED
    BY <1>2, <2>2
<1>5. R = [i \in 0 .. n |-> IF i = 0 THEN f0 ELSE base * R[i - 1] + DigitValue(text[i])]
  BY <1>4 DEF NumbersIn, DigitValue
<1> HIDE DEF R, n, f0
<1>6. R[0] = f0 /\ \A i \in 1 .. n : R[i] = base * R[i - 1] + DigitValue(text[i])
  <2>1. R[0] = f0
    BY <1>1, <1>5
  <2>2. ASSUME NEW i \in 1 .. n PROVE R[i] = base * R[i - 1] + DigitValue(text[i])
    <3>1. i \in 0 .. n /\ i # 0
      BY <1>1
    <3> QED
      BY <1>5, <3>1, Zenon
  <2> QED
    BY <2>1, <2>2
<1>7. \A i \in 0 .. n : R[i] = f[i]
  <2>1. R[0] = f[0] /\ GoOnAlike(R, f, n)
    BY <1>2, <1>3, <1>6 DEF Builds, GoOnAlike
  <2>2. n \in Nat
    BY <1>1
  <2> QED
    BY <2>1, <2>2, Agree
<1>8. R \in [0 .. n -> S]
  BY <1>5, <1>7, <1>2
<1> QED
  BY <1>6, <1>8 DEF NumbersAlong, R, n, f0

\* The numbers that the highest bytes stand for.
BytesAlong(N, bytes) ==
  /\ N \in [0 .. Len(bytes) -> Nat]
  /\ N[0] = 0
  /\ \A i \in 1 .. Len(bytes) : N[i] = 256 * N[i - 1] + bytes[Len(bytes) + 1 - i]

\* A byte is a number below 256.
LEMMA BytesAreNumbers ==
  ASSUME NEW bytes \in Seq(0 .. 255), NEW i \in 1 .. Len(bytes)
  PROVE  bytes[i] \in Nat /\ bytes[i] <= 255
<1>1. bytes[i] \in 0 .. 255
  BY ElementOfSeq
<1>2. \A v \in 0 .. 255 : v \in Nat /\ v <= 255
  OBVIOUS
<1> QED
  BY <1>1, <1>2, Zenon

LEMMA NumbersOfIs ==
  ASSUME NEW bytes \in Seq(0 .. 255)
  PROVE  BytesAlong(NumbersOf(bytes), bytes)
<1> DEFINE S == Nat
           n == Len(bytes)
           step == [i \in Nat |-> [x \in S |-> IF i \in 1 .. n THEN 256 * x + bytes[n + 1 - i] ELSE 0]]
           f0 == 0
           R == NumbersOf(bytes)
<1>1. step \in [Nat -> [S -> S]] /\ f0 \in S /\ n \in Nat
  <2>1. ASSUME NEW i \in 1 .. n PROVE bytes[n + 1 - i] \in Nat
    <3>1. n + 1 - i \in 1 .. Len(bytes)
      OBVIOUS
    <3> QED
      BY <3>1, BytesAreNumbers
  <2>2. n \in Nat
    OBVIOUS
  <2> HIDE DEF n
  <2> QED
    BY <2>1, <2>2
<1>2. PICK f \in [0 .. n -> S] : Builds(f, n, f0, step)
  <2> HIDE DEF S, step, n, f0
  <2> QED
    BY <1>1, Segments
<1>3. \A i \in 1 .. n : f[i] = 256 * f[i - 1] + bytes[n + 1 - i]
  <2> TAKE i \in 1 .. n
  <2>1. f[i - 1] \in S /\ i \in Nat
    BY <1>1
  <2>2. step[i][f[i - 1]] = 256 * f[i - 1] + bytes[n + 1 - i]
    BY <2>1
  <2> HIDE DEF step
  <2> QED
    BY <2>2, <1>2 DEF Builds
<1>4. f = [i \in 0 .. n |-> IF i = 0 THEN f0 ELSE 256 * f[i - 1] + bytes[n + 1 - i]]
  <2>1. f[0] = f0
    BY <1>2 DEF Builds
  <2> HIDE DEF step, n, f0
  <2>2. \A i \in 0 .. n :
          f[i] = IF i = 0 THEN f0 ELSE 256 * f[i - 1] + bytes[n + 1 - i]
    BY <1>1, <1>3, <2>1
  <2> QED
    BY <1>2, <2>2
<1>5. R = [i \in 0 .. n |-> IF i = 0 THEN f0 ELSE 256 * R[i - 1] + bytes[n + 1 - i]]
  BY <1>4 DEF NumbersOf
<1> HIDE DEF R, n, f0
<1>6. R[0] = f0 /\ \A i \in 1 .. n : R[i] = 256 * R[i - 1] + bytes[n + 1 - i]
  BY <1>1, <1>5
<1>7. \A i \in 0 .. n : R[i] = f[i]
  <2>1. R[0] = f[0] /\ GoOnAlike(R, f, n)
    BY <1>2, <1>3, <1>6 DEF Builds, GoOnAlike
  <2>2. n \in Nat
    BY <1>1
  <2> QED
    BY <2>1, <2>2, Agree
<1>8. R \in [0 .. n -> S]
  BY <1>5, <1>7, <1>2
<1> QED
  BY <1>6, <1>8 DEF BytesAlong, R, n, f0


-----------------------------------------------------------------------------
(***************************************************************************)
(* The conversions: digits.                                                *)
(***************************************************************************)

\* Divided by ten, a number loses a binary digit at least.
LEMMA TenthIsLess == \A q, p \in Nat : q < 2 * p => q \div 10 < p
OBVIOUS

\* A value of Width bits is used up by Width divisions.
LEMMA QuotientsRunOut ==
  ASSUME NEW value \in Nat, NEW Q, QuotientsOf(Q, value), value < Power(2)[Width]
  PROVE  Q[Width] = 0
<1> DEFINE n == Width
           P == Power(2)
           T == {k \in Nat : k <= n => Q[k] < P[n - k]}
<1>1. n \in Nat /\ PowersOf(P, 2)
  <2>1. n \in Nat
    BY TextsAssumption DEF TextsAssumption
  <2>2. PowersOf(P, 2)
    <3>1. 2 \in Nat
      OBVIOUS
    <3> QED
      BY <3>1, PowerIs, Zenon
  <2> QED
    BY <2>1, <2>2, Zenon
<1>2. P \in [Nat -> Nat] /\ P[0] = 1 /\ \A k \in Nat : P[k + 1] = 2 * P[k]
  BY <1>1 DEF PowersOf
<1>3. /\ Q \in [0 .. n -> Nat] /\ Q[0] < P[n]
      /\ \A k \in 1 .. n : Q[k] = Q[k - 1] \div 10
  BY DEF QuotientsOf
<1> HIDE DEF n, P
<1>4. 0 \in T
  BY <1>1, <1>3
<1>5. ASSUME NEW k \in Nat, k \in T PROVE k + 1 \in T
  <2> SUFFICES ASSUME k + 1 <= n PROVE Q[k + 1] < P[n - (k + 1)]
    OBVIOUS
  <2>1. n - (k + 1) \in Nat /\ (n - (k + 1)) + 1 = n - k /\ k \in 0 .. n
        /\ k + 1 \in 1 .. n /\ (k + 1) - 1 = k
    BY <1>1
  <2>2. P[n - k] = 2 * P[n - (k + 1)] /\ P[n - (k + 1)] \in Nat
    BY <1>2, <2>1
  <2>3. Q[k] \in Nat /\ Q[k] < P[n - k] /\ Q[k + 1] = Q[k] \div 10
    BY <1>1, <1>3, <1>5, <2>1
  <2> QED
    BY <2>2, <2>3, TenthIsLess
<1> HIDE DEF T
<1>6. n \in T
  BY <1>1, <1>4, <1>5, Climb
<1>7. Q[n] < P[n - n] /\ n - n = 0 /\ n \in 0 .. n
  BY <1>1, <1>6 DEF T
<1>8. Q[n] = 0
  <2>1. Q[n] \in Nat
    BY <1>3, <1>7
  <2>2. P[n - n] = 1
    BY <1>2, <1>7
  <2> QED
    BY <1>7, <2>1, <2>2
<1> QED
  BY <1>8 DEF n

\* The digits of a number are the remainders of what is left, the last first, as
\* many as it takes.
DigitsOf(text, Q, size) ==
  /\ size \in 0 .. Width /\ Q[size] < 10
  /\ text = [i \in 1 .. size + 1 |-> 48 + (Q[size + 1 - i] % 10)]

LEMMA DigitsAre ==
  ASSUME NEW value \in Nat, value < Power(2)[Width]
  PROVE  \E size : DigitsOf(Digits(value), Quotients(value), size)
<1> DEFINE Q == Quotients(value)
           enough(k) == Q[k] < 10 /\ \A j \in 0 .. k - 1 : Q[j] >= 10
           S == {k \in 0 .. Width : Q[k] < 10}
           size == CHOOSE k \in 0 .. Width : enough(k)
<1>1. Width \in Nat
  BY TextsAssumption DEF TextsAssumption
<1>2. QuotientsOf(Q, value)
  BY QuotientsIs
<1>3. Q[Width] = 0
  BY <1>2, QuotientsRunOut
<1>4. Q \in [0 .. Width -> Nat]
  BY <1>2 DEF QuotientsOf
<1> HIDE DEF Q
<1>5. S \in SUBSET Nat /\ Width \in S
  BY <1>1, <1>3
<1>6. PICK k \in S : \A m \in S : k <= m
  BY <1>5, LeastNumber
<1>7. ASSUME NEW j \in 0 .. k - 1 PROVE Q[j] >= 10
  <2>1. j \in 0 .. Width /\ j < k /\ Q[j] \in Nat
    BY <1>1, <1>4
  <2>2. j \notin S
    BY <1>6, <2>1
  <2> QED
    BY <2>1, <2>2
<1>8. enough(k) /\ k \in 0 .. Width
  BY <1>7
<1>9. size \in 0 .. Width /\ enough(size)
  <2> HIDE DEF enough
  <2> QED
    BY <1>8
<1>10. Digits(value) = [i \in 1 .. size + 1 |-> 48 + (Q[size + 1 - i] % 10)]
  BY DEF Digits, Q
<1> HIDE DEF size
<1>11. DigitsOf(Digits(value), Q, size)
  BY <1>9, <1>10 DEF DigitsOf
<1> QED
  BY <1>11 DEF Q

\* A number below ten is its own last digit.
LEMMA LastDigit == \A q \in Nat : q < 10 => q % 10 = q
OBVIOUS

\* A number is ten times its tenth and its last digit.
LEMMA TenthAndDigit == \A q \in Nat : 10 * (q \div 10) + (q % 10) = q
OBVIOUS

\* What a digit's char stands for.
LEMMA DigitOfChar ==
  \A d \in 0 .. 9 : 48 + d \in 48 .. 57 /\ DigitValue(48 + d) = d
BY DEF DigitValue

\* A remainder by ten is a digit.
LEMMA RemainderIsDigit == \A q \in Nat : q % 10 \in 0 .. 9
OBVIOUS

\* Read from the front, the digits of a number are what was left of it, the more
\* the further, and in the end the number.
LEMMA DigitsRead ==
  ASSUME NEW value \in Nat, NEW Q, QuotientsOf(Q, value),
         NEW text, NEW size, DigitsOf(text, Q, size)
  PROVE  /\ text \in Seq(48 .. 57) /\ Len(text) = size + 1
         /\ NumberIn(text, 10) = value
<1> DEFINE N == NumbersIn(text, 10)
           T == {i \in Nat : i <= size => N[i + 1] = Q[size - i]}
<1>1. Width \in Nat /\ size \in 0 .. Width /\ size \in Nat
  BY TextsAssumption DEF TextsAssumption, DigitsOf
<1>2. /\ Q \in [0 .. Width -> Nat] /\ Q[0] = value
      /\ \A k \in 1 .. Width : Q[k] = Q[k - 1] \div 10
  BY DEF QuotientsOf
<1>3. Q[size] < 10 /\ text = [i \in 1 .. size + 1 |-> 48 + (Q[size + 1 - i] % 10)]
  BY DEF DigitsOf
<1>4. ASSUME NEW i \in 1 .. size + 1
      PROVE  /\ text[i] \in 48 .. 57
             /\ DigitValue(text[i]) = Q[size + 1 - i] % 10
  <2>1. size + 1 - i \in 0 .. Width
    BY <1>1
  <2>2. Q[size + 1 - i] % 10 \in 0 .. 9
    BY <1>2, <2>1, RemainderIsDigit
  <2>3. text[i] = 48 + (Q[size + 1 - i] % 10)
    BY <1>3
  <2> QED
    BY <2>2, <2>3, DigitOfChar
<1>5. text \in Seq(48 .. 57) /\ Len(text) = size + 1
  BY <1>1, <1>3, <1>4
<1>6. text \in Seq(Int)
  BY <1>5
<1>7. NumbersAlong(N, text, 10)
  BY <1>6, NumbersInIs
<1> HIDE DEF N
<1>8. /\ N[0] = 0
      /\ \A i \in 1 .. size + 1 : N[i] = 10 * N[i - 1] + (Q[size + 1 - i] % 10)
  BY <1>4, <1>5, <1>7 DEF NumbersAlong
<1>9. 0 \in T
  <2>1. N[1] = 10 * N[0] + (Q[size] % 10)
    BY <1>1, <1>8
  <2>2. Q[size] \in Nat /\ Q[size] % 10 = Q[size]
    BY <1>1, <1>2, <1>3, LastDigit
  <2> QED
    BY <1>1, <1>8, <2>1, <2>2
<1>10. ASSUME NEW i \in Nat, i \in T PROVE i + 1 \in T
  <2> SUFFICES ASSUME i + 1 <= size PROVE N[(i + 1) + 1] = Q[size - (i + 1)]
    OBVIOUS
  <2> DEFINE k == size - i
  <2>1. /\ k \in 1 .. Width /\ k - 1 \in 0 .. Width /\ size - (i + 1) = k - 1
        /\ (i + 1) + 1 \in 1 .. size + 1 /\ ((i + 1) + 1) - 1 = i + 1
        /\ size + 1 - ((i + 1) + 1) = k - 1
    BY <1>1
  <2>2. N[i + 1] = Q[k]
    BY <1>10, <1>1
  <2>3. Q[k] = Q[k - 1] \div 10 /\ Q[k - 1] \in Nat
    BY <1>2, <2>1
  <2>4. N[(i + 1) + 1] = 10 * N[i + 1] + (Q[k - 1] % 10)
    BY <1>8, <2>1
  <2> HIDE DEF k
  <2>5. N[(i + 1) + 1] = Q[k - 1]
    BY <2>2, <2>3, <2>4, TenthAndDigit
  <2> QED
    BY <2>1, <2>5
<1> HIDE DEF T
<1>11. size \in T
  BY <1>1, <1>9, <1>10, Climb
<1>12. N[size + 1] = value
  BY <1>1, <1>2, <1>11 DEF T
<1> QED
  BY <1>5, <1>12 DEF NumberIn, N

-----------------------------------------------------------------------------
(***************************************************************************)
(* The conversions: integers.                                              *)
(***************************************************************************)

\* The integers of a type, or what the cast of a fraction can yield.
Convertible == {v \in Int : v >= MostNegative /\ v < Power(2)[Width]}

\* The sizes of the types.
LEMMA TypeBounds ==
  /\ Power(2)[Width] \in Nat \ {0} /\ Power(2)[Width - 1] \in Nat \ {0}
  /\ Power(2)[Width] = 2 * Power(2)[Width - 1]
  /\ Width \in Nat /\ Width <= 64
<1>1. Width \in Nat \ {0} /\ Width <= 64
  BY TextsAssumption DEF TextsAssumption
<1>2. PowersOf(Power(2), 2)
  BY PowerIs
<1>3. \A n \in Nat : Power(2)[n] \in Nat \ {0}
  BY <1>2, PowersArePositive
<1>4. \A n \in Nat : Power(2)[n + 1] = 2 * Power(2)[n]
  BY <1>2 DEF PowersOf
<1>5. Width - 1 \in Nat /\ (Width - 1) + 1 = Width
  BY <1>1
<1> QED
  BY <1>1, <1>3, <1>4, <1>5

\* The text of a number that is not negative.
LEMMA DigitsText ==
  ASSUME NEW value \in Nat, value < Power(2)[Width]
  PROVE  /\ Digits(value) \in Seq(48 .. 57)
         /\ Len(Digits(value)) \in 1 .. Width + 1
         /\ NumberIn(Digits(value), 10) = value
<1>1. PICK size : DigitsOf(Digits(value), Quotients(value), size)
  BY DigitsAre
<1>2. QuotientsOf(Quotients(value), value)
  BY QuotientsIs
<1>3. /\ Digits(value) \in Seq(48 .. 57) /\ Len(Digits(value)) = size + 1
      /\ NumberIn(Digits(value), 10) = value
  BY <1>1, <1>2, DigitsRead
<1>4. size \in 0 .. Width /\ Width \in Nat
  BY <1>1, TypeBounds DEF DigitsOf
<1> QED
  BY <1>3, <1>4

\* A text of digits, after a sign or not.
IntegerIs(text, value) ==
  /\ text \in Seq(Int \ {0, 46}) /\ Len(text) \in 1 .. Width + 2
  /\ IntegerIn(text) = value
  /\ text[Len(text)] \in 48 .. 57

\* Digits alone.
LEMMA UnsignedText ==
  ASSUME NEW digits \in Seq(48 .. 57), Len(digits) \in 1 .. Width + 1
  PROVE  IntegerIs(digits, NumberIn(digits, 10))
<1>1. \A i \in 1 .. Len(digits) : digits[i] \in 48 .. 57
  BY ElementOfSeq
<1>2. 1 \in 1 .. Len(digits) /\ Len(digits) \in 1 .. Len(digits)
      /\ Len(digits) \in 1 .. Width + 2
  BY TypeBounds
<1>3. Head(digits) = digits[1] /\ digits[1] # 45
  BY <1>1, <1>2
<1>4. digits \in Seq(Int \ {0, 46})
  <2>1. 48 .. 57 \subseteq Int \ {0, 46}
    OBVIOUS
  <2> QED
    BY <2>1, SeqMonotonic
<1>5. IntegerIn(digits) = NumberIn(digits, 10)
  BY <1>3 DEF IntegerIn
<1> QED
  BY <1>1, <1>2, <1>4, <1>5 DEF IntegerIs

\* Digits after a sign.
LEMMA SignedText ==
  ASSUME NEW digits \in Seq(48 .. 57), Len(digits) \in 1 .. Width + 1
  PROVE  IntegerIs(<<45>> \o digits, -NumberIn(digits, 10))
<1> DEFINE text == <<45>> \o digits
<1>1. \A i \in 1 .. Len(digits) : digits[i] \in 48 .. 57
  BY ElementOfSeq
<1>2. Width \in Nat
  BY TypeBounds
<1>3. digits \in Seq(Int \ {0, 46})
  <2>1. 48 .. 57 \subseteq Int \ {0, 46}
    OBVIOUS
  <2> QED
    BY <2>1, SeqMonotonic
<1>4. <<45>> \in Seq(Int \ {0, 46}) /\ Len(<<45>>) = 1
  OBVIOUS
<1>5. /\ text \in Seq(Int \ {0, 46}) /\ Len(text) = Len(digits) + 1
      /\ text[Len(text)] = digits[Len(digits)]
      /\ Head(text) = 45
  BY <1>3, <1>4
<1>6. Tail(text) = digits
  BY <1>3, <1>4
<1>7. Len(text) \in 1 .. Width + 2
  BY <1>2, <1>5
<1>8. text[Len(text)] \in 48 .. 57
  BY <1>1, <1>5
<1>9. IntegerIn(text) = -NumberIn(digits, 10)
  BY <1>5, <1>6 DEF IntegerIn
<1> QED
  BY <1>5, <1>7, <1>8, <1>9 DEF IntegerIs

\* Read back, the text of an integer is the integer, except the most negative.
LEMMA IntegerTextSaysIt ==
  ASSUME NEW value \in Convertible, value # MostNegative
  PROVE  IntegerIs(IntegerText(value), value)
<1>1. CASE value >= 0
  <2>1. value \in Nat /\ value < Power(2)[Width]
    BY <1>1 DEF Convertible
  <2>2. IntegerText(value) = Digits(value)
    BY <2>1 DEF IntegerText
  <2> QED
    BY <2>1, <2>2, DigitsText, UnsignedText
<1>2. CASE value < 0
  <2>1. -value \in Nat /\ -value < Power(2)[Width] /\ -(-value) = value
    BY <1>2, TypeBounds DEF Convertible, MostNegative
  <2>2. IntegerText(value) = <<45>> \o Digits(-value)
    BY <1>2 DEF IntegerText
  <2>3. IntegerIs(<<45>> \o Digits(-value), -NumberIn(Digits(-value), 10))
    BY <2>1, DigitsText, SignedText
  <2>4. NumberIn(Digits(-value), 10) = -value
    BY <2>1, DigitsText
  <2> QED
    BY <2>1, <2>2, <2>3, <2>4
<1>3. value \in Int
  BY DEF Convertible
<1> QED
  BY <1>1, <1>2, <1>3

\* The most negative value's text is wrong, but it ends.
LEMMA MostNegativeText ==
  /\ IntegerText(MostNegative) \in Seq(Int \ {0})
  /\ Len(IntegerText(MostNegative)) = 2
<1> DEFINE low == Power(2)[Width - 1] % 10
<1>1. MostNegative < 0 /\ -MostNegative = Power(2)[Width - 1]
  BY TypeBounds DEF MostNegative
<1>2. low \in 0 .. 9
  BY TypeBounds, RemainderIsDigit
<1>3. Digits(MostNegative) = <<48 - low>>
  BY <1>1 DEF Digits
<1>4. IntegerText(MostNegative) = <<45>> \o <<48 - low>>
  BY <1>1, <1>3 DEF IntegerText
<1> HIDE DEF low
<1>5. /\ <<45>> \in Seq(Int \ {0}) /\ Len(<<45>>) = 1
      /\ <<48 - low>> \in Seq(Int \ {0}) /\ Len(<<48 - low>>) = 1
  BY <1>2
<1>6. /\ <<45>> \o <<48 - low>> \in Seq(Int \ {0})
      /\ Len(<<45>> \o <<48 - low>>) = 1 + 1
  BY <1>5, ConcatProperties
<1> QED
  BY <1>4, <1>6

-----------------------------------------------------------------------------
(***************************************************************************)
(* The buffers: what is written is what is read.                           *)
(***************************************************************************)

\* A buffer of chars with a zero in it, so that a reader's loop ends.
Buffer(buffer, size) ==
  /\ buffer \in [0 .. size - 1 -> Int]
  /\ \E i \in 0 .. size - 1 : buffer[i] = 0

\* The first zero of a buffer is at an index.
EndsAt(buffer, end) ==
  /\ end \in DOMAIN buffer /\ DOMAIN buffer \subseteq Nat
  /\ buffer[end] = 0 /\ \A j \in 0 .. end - 1 : buffer[j] # 0

\* The first zero is where a text ends.
LEMMA TextEnds ==
  ASSUME NEW buffer, NEW end, EndsAt(buffer, end)
  PROVE  TextIn(buffer) = [i \in 1 .. end |-> buffer[i - 1]]
<1> DEFINE ends(i) == buffer[i] = 0 /\ \A j \in 0 .. i - 1 : buffer[j] # 0
           e == CHOOSE i \in DOMAIN buffer : ends(i)
<1>1. e \in DOMAIN buffer /\ ends(e)
  <2>1. ends(end) /\ end \in DOMAIN buffer
    BY DEF EndsAt
  <2> HIDE DEF ends
  <2> QED
    BY <2>1
<1>2. e \in Nat /\ end \in Nat
  BY <1>1 DEF EndsAt
<1> HIDE DEF e
<1>3. e = end
  <2>1. CASE e < end
    BY <1>1, <1>2, <2>1 DEF EndsAt
  <2>2. CASE end < e
    BY <1>1, <1>2, <2>2 DEF EndsAt
  <2> QED
    BY <1>2, <2>1, <2>2
<1> QED
  BY <1>3 DEF TextIn, e

\* Chars fit in a buffer, with a zero at an index.
Fits(buffer, size, chars, end) ==
  /\ size \in Nat /\ buffer \in [0 .. size - 1 -> Int]
  /\ chars \in Seq(Int \ {0})
  /\ end \in Nat /\ end < size /\ end <= Len(chars)

\* A text is read back as far as the zero behind it, whatever was in the buffer.
LEMMA WrittenIsRead ==
  ASSUME NEW size, NEW buffer, NEW chars, NEW end, Fits(buffer, size, chars, end)
  PROVE  /\ Buffer(Written(buffer, chars, end), size)
         /\ TextIn(Written(buffer, chars, end)) = [i \in 1 .. end |-> chars[i]]
<1> USE DEF Fits
<1> DEFINE B == Written(buffer, chars, end)
<1>1. Len(chars) \in Nat /\ \A i \in 1 .. Len(chars) : chars[i] \in Int /\ chars[i] # 0
  <2>1. \A i \in 1 .. Len(chars) : chars[i] \in Int \ {0}
    BY ElementOfSeq
  <2> QED
    BY <2>1
<1>2. DOMAIN B = 0 .. size - 1
  BY DEF Written
<1>3. ASSUME NEW i \in 0 .. size - 1
      PROVE  /\ i = end => B[i] = 0
             /\ i # end /\ i < Len(chars) => B[i] = chars[i + 1]
             /\ i # end /\ i >= Len(chars) => B[i] = buffer[i]
  BY <1>1 DEF Written
<1>4. B = [i \in 0 .. size - 1 |-> B[i]]
  BY DEF Written
<1> HIDE DEF B
<1>5. \A i \in 0 .. size - 1 : B[i] \in Int
  <2> TAKE i \in 0 .. size - 1
  <2>1. CASE i # end /\ i < Len(chars)
    BY <1>1, <1>3, <2>1
  <2>2. CASE i = end
    BY <1>3, <2>2
  <2>3. CASE i # end /\ i >= Len(chars)
    BY <1>3, <2>3
  <2> QED
    BY <1>1, <2>1, <2>2, <2>3
<1>6. B[end] = 0 /\ end \in 0 .. size - 1
  BY <1>3
<1>7. \A j \in 0 .. end - 1 : B[j] = chars[j + 1] /\ B[j] # 0
  BY <1>1, <1>3
<1>8. TextIn(B) = [i \in 1 .. end |-> B[i - 1]]
  <2>1. EndsAt(B, end)
    BY <1>2, <1>6, <1>7 DEF EndsAt
  <2> QED
    BY <2>1, TextEnds
<1>9. [i \in 1 .. end |-> B[i - 1]] = [i \in 1 .. end |-> chars[i]]
  BY <1>7
<1>10. Buffer(B, size)
  BY <1>4, <1>5, <1>6 DEF Buffer
<1> QED
  BY <1>8, <1>9, <1>10 DEF B

\* A text written whole is read whole.
LEMMA TextIsRead ==
  ASSUME NEW size \in Nat, NEW buffer \in [0 .. size - 1 -> Int],
         NEW text \in Seq(Int \ {0}), Len(text) < size
  PROVE  /\ Buffer(Written(buffer, text, Len(text)), size)
         /\ TextIn(Written(buffer, text, Len(text))) = text
<1> DEFINE end == Len(text)
<1>1. end \in Nat /\ end <= Len(text) /\ end < size
  OBVIOUS
<1>2. text = [i \in 1 .. end |-> text[i]]
  OBVIOUS
<1> HIDE DEF end
<1>3. /\ Buffer(Written(buffer, text, end), size)
      /\ TextIn(Written(buffer, text, end)) = [i \in 1 .. end |-> text[i]]
  <2>1. Fits(buffer, size, text, end)
    BY <1>1, Zenon DEF Fits
  <2> QED
    BY <2>1, WrittenIsRead
<1> QED
  BY <1>2, <1>3 DEF end

\* What is read from a buffer is chars.
LEMMA ReadIsText ==
  ASSUME NEW size \in Nat, NEW buffer, Buffer(buffer, size)
  PROVE  TextIn(buffer) \in Seq(Int \ {0}) /\ Len(TextIn(buffer)) < size
<1> DEFINE S == {i \in 0 .. size - 1 : buffer[i] = 0}
<1>1. /\ buffer \in [0 .. size - 1 -> Int]
      /\ \E i \in 0 .. size - 1 : buffer[i] = 0
  BY DEF Buffer
<1>2. S \in SUBSET Nat /\ S # {}
  BY <1>1
<1>3. PICK end \in S : \A m \in S : end <= m
  BY <1>2, LeastNumber
<1>4. /\ end \in 0 .. size - 1 /\ buffer[end] = 0
      /\ \A j \in 0 .. end - 1 : buffer[j] \in Int /\ buffer[j] # 0
  BY <1>1, <1>3
<1>5. TextIn(buffer) = [i \in 1 .. end |-> buffer[i - 1]]
  <2>1. EndsAt(buffer, end)
    BY <1>1, <1>4 DEF EndsAt
  <2> QED
    BY <2>1, TextEnds
<1> QED
  BY <1>4, <1>5

-----------------------------------------------------------------------------
(***************************************************************************)
(* The conversions: fractions.                                             *)
(***************************************************************************)

\* Division with a remainder, by any unit.
LEMMA Division ==
  \A a \in Nat : \A u \in Nat \ {0} :
    a \div u \in Nat /\ a % u \in 0 .. u - 1 /\ a = u * (a \div u) + (a % u)
<1>1. \A a \in Nat : \A u \in Nat \ {0} : a = u * (a \div u) + (a % u)
  OBVIOUS
<1>2. \A a \in Nat : \A u \in Nat \ {0} : a % u \in 0 .. u - 1
  OBVIOUS
<1>3. \A a \in Nat : \A u \in Nat \ {0} : a \div u \in Nat
  OBVIOUS
<1> QED
  BY <1>1, <1>2, <1>3

\* Ten times less than a unit has one digit before the point.
LEMMA OneDigit ==
  \A r \in Nat : \A u \in Nat \ {0} : r < u => (10 * r) \div u \in 0 .. 9
OBVIOUS

\* The digits read so far and what is left of the fraction are the fraction, one
\* place further on.
LEMMA OnePlaceMore ==
  ASSUME NEW n \in Int, NEW u \in Int, NEW r \in Int, NEW d \in Int, NEW r2 \in Int,
         NEW p \in Int, NEW r0 \in Int,
         n * u + r = r0 * p, 10 * r = u * d + r2
  PROVE  (10 * n + d) * u + r2 = r0 * (10 * p)
OBVIOUS

\* What is left is less than a unit: the digits are the fraction, cut.
LEMMA CutBelowUnit ==
  ASSUME NEW n \in Int, NEW u \in Int, NEW r \in Int, NEW x \in Int,
         n * u + r = x, 0 <= r, r < u
  PROVE  n * u <= x /\ x < (n + 1) * u
OBVIOUS

\* What is left of a fraction is less than a unit, at every place.
LEMMA RestsAreFractions ==
  ASSUME NEW value \in Nat, NEW places \in Nat, NEW R, RestsOf(R, value, places)
  PROVE  \A i \in 0 .. places : R[i] \in Nat /\ R[i] < Unit
<1>1. /\ R \in [0 .. places -> Nat] /\ R[0] = value % Unit
      /\ \A i \in 1 .. places : R[i] = (10 * R[i - 1]) % Unit
  BY DEF RestsOf
<1>2. \A a \in Nat : a % Unit \in 0 .. Unit - 1
  BY UnitIsPositive, Division
<1> TAKE i \in 0 .. places
<1>3. CASE i = 0
  <2>1. value % Unit \in 0 .. Unit - 1
    BY <1>2
  <2> QED
    BY <1>1, <1>3, <2>1, UnitIsPositive
<1>4. CASE i # 0
  <2>1. i \in 1 .. places /\ R[i - 1] \in Nat
    BY <1>1, <1>4
  <2>2. 10 * R[i - 1] \in Nat
    BY <2>1
  <2>3. (10 * R[i - 1]) % Unit \in 0 .. Unit - 1
    BY <1>2, <2>2
  <2> QED
    BY <1>1, <2>1, <2>3, UnitIsPositive
<1> QED
  BY <1>3, <1>4

\* Each place's digit.
FractionDigit(R, i) == (10 * R[i - 1]) \div Unit

\* The digits of a fraction are digits, one for each place.
LEMMA FractionShape ==
  ASSUME NEW value \in Nat, NEW places \in Nat
  PROVE  LET text == FractionText(value, places)
             R    == Rests(value, places)
         IN /\ text \in Seq(48 .. 57) /\ Len(text) = places
            /\ value \div Unit < IntLimit =>
                 \A i \in 1 .. places : /\ FractionDigit(R, i) \in 0 .. 9
                                        /\ DigitValue(text[i]) = FractionDigit(R, i)
<1> DEFINE text == FractionText(value, places)
           R == Rests(value, places)
<1>1. RestsOf(R, value, places)
  BY RestsIs
<1>2. text = [i \in 1 .. places |->
               IF value \div Unit < IntLimit THEN 48 + FractionDigit(R, i) ELSE 48]
  BY DEF FractionText, FractionDigit
<1> HIDE DEF text, R
<1>3. \A i \in 1 .. places : FractionDigit(R, i) \in 0 .. 9
  <2> TAKE i \in 1 .. places
  <2>1. i - 1 \in 0 .. places
    OBVIOUS
  <2>2. R[i - 1] \in Nat /\ R[i - 1] < Unit
    BY <1>1, <2>1, RestsAreFractions
  <2> QED
    BY <2>2, OneDigit, UnitIsPositive DEF FractionDigit
<1>4. ASSUME NEW i \in 1 .. places
      PROVE  /\ text[i] \in 48 .. 57
             /\ value \div Unit < IntLimit => DigitValue(text[i]) = FractionDigit(R, i)
  <2>1. CASE value \div Unit < IntLimit
    <3>1. text[i] = 48 + FractionDigit(R, i)
      BY <1>2, <2>1
    <3> QED
      BY <1>3, <3>1, DigitOfChar
  <2>2. CASE ~(value \div Unit < IntLimit)
    <3>1. text[i] = 48
      BY <1>2, <2>2
    <3> QED
      BY <2>2, <3>1
  <2> QED
    BY <2>1, <2>2
<1>5. text \in Seq(48 .. 57) /\ Len(text) = places
  <2>1. text = [i \in 1 .. places |-> text[i]]
    BY <1>2
  <2> QED
    BY <1>4, <2>1
<1> QED
  BY <1>3, <1>4, <1>5 DEF text, R

\* Read back, the digits of a fraction are the fraction, cut after its places.
LEMMA FractionRead ==
  ASSUME NEW value \in Nat, NEW places \in Nat, value \div Unit < IntLimit
  PROVE  LET digits == NumberIn(FractionText(value, places), 10)
             rest   == (value % Unit) * Power(10)[places]
         IN digits * Unit <= rest /\ rest < (digits + 1) * Unit
<1> DEFINE text == FractionText(value, places)
           R == Rests(value, places)
           N == NumbersIn(text, 10)
           P == Power(10)
           r0 == value % Unit
           T == {i \in Nat : i <= places => N[i] * Unit + R[i] = r0 * P[i]}
<1>1. RestsOf(R, value, places)
  BY RestsIs
<1>2. /\ text \in Seq(48 .. 57) /\ Len(text) = places
      /\ \A i \in 1 .. places : /\ FractionDigit(R, i) \in 0 .. 9
                                /\ DigitValue(text[i]) = FractionDigit(R, i)
  BY FractionShape
<1>3. text \in Seq(Int)
  BY <1>2
<1>4. NumbersAlong(N, text, 10) /\ PowersOf(P, 10)
  BY <1>3, NumbersInIs, PowerIs
<1>5. r0 \in Nat /\ Unit \in Nat \ {0}
  BY UnitIsPositive, Division
<1>6. \A i \in 0 .. places : R[i] \in Nat /\ R[i] < Unit
  BY <1>1, RestsAreFractions
<1>7. R[0] = r0 /\ \A i \in 1 .. places : R[i] = (10 * R[i - 1]) % Unit
  BY <1>1 DEF RestsOf
<1> HIDE DEF r0, R, N, P, text
<1>8. /\ N \in [0 .. places -> Int] /\ N[0] = 0
      /\ \A i \in 1 .. places : N[i] = 10 * N[i - 1] + FractionDigit(R, i)
  BY <1>2, <1>4 DEF NumbersAlong
<1>9. P \in [Nat -> Nat] /\ P[0] = 1 /\ \A i \in Nat : P[i + 1] = 10 * P[i]
  BY <1>4 DEF PowersOf
<1>10. 0 \in T
  <2>1. \A u, r \in Int : 0 * u + r = r * 1
    OBVIOUS
  <2>2. r0 \in Int /\ Unit \in Int
    BY <1>5
  <2>3. N[0] * Unit + R[0] = r0 * P[0]
    BY <1>7, <1>8, <1>9, <2>1, <2>2, Zenon
  <2> QED
    BY <2>3
<1>11. ASSUME NEW i \in Nat, i \in T PROVE i + 1 \in T
  <2> SUFFICES ASSUME i + 1 <= places
               PROVE  N[i + 1] * Unit + R[i + 1] = r0 * P[i + 1]
    OBVIOUS
  <2> DEFINE d == FractionDigit(R, i + 1)
  <2>1. i \in 0 .. places /\ i + 1 \in 1 .. places /\ (i + 1) - 1 = i
    OBVIOUS
  <2>2. N[i] * Unit + R[i] = r0 * P[i]
    BY <1>11, <2>1
  <2>3. 10 * R[i] \in Nat
    BY <1>6, <2>1
  <2>4. 10 * R[i] = Unit * d + R[i + 1]
    <3>1. R[i + 1] = (10 * R[i]) % Unit
      BY <1>7, <2>1
    <3>2. d = (10 * R[i]) \div Unit
      BY <2>1 DEF FractionDigit
    <3> QED
      BY <1>5, <2>3, <3>1, <3>2, Division, Zenon
  <2>5. d \in Int
    BY <1>2, <2>1
  <2>6. N[i + 1] = 10 * N[i] + d /\ P[i + 1] = 10 * P[i]
    BY <1>8, <1>9, <2>1
  <2>7. N[i] \in Int /\ R[i] \in Int /\ R[i + 1] \in Int /\ P[i] \in Int
    <3>1. N[i] \in Int
      BY <1>8, <2>1
    <3>2. R[i] \in Int /\ R[i + 1] \in Int
      BY <1>6, <2>1
    <3>3. P[i] \in Int
      BY <1>9
    <3> QED
      BY <3>1, <3>2, <3>3
  <2>9. r0 \in Int /\ Unit \in Int
    BY <1>5
  <2> HIDE DEF d
  <2>8. (10 * N[i] + d) * Unit + R[i + 1] = r0 * (10 * P[i])
    <3> DEFINE n == N[i]
               r == R[i]
               r2 == R[i + 1]
               p == P[i]
               u == Unit
    <3>1. /\ n \in Int /\ r \in Int /\ r2 \in Int /\ p \in Int /\ u \in Int
          /\ d \in Int /\ r0 \in Int
      BY <2>5, <2>7, <2>9
    <3>2. n * u + r = r0 * p /\ 10 * r = u * d + r2
      BY <2>2, <2>4
    <3> HIDE DEF n, r, r2, p, u
    <3>3. (10 * n + d) * u + r2 = r0 * (10 * p)
      BY <3>1, <3>2, OnePlaceMore
    <3> QED
      BY <3>3 DEF n, r, r2, p, u
  <2> QED
    BY <2>6, <2>8
<1> HIDE DEF T
<1>12. places \in T
  BY <1>10, <1>11, Climb
<1>13. N[places] * Unit + R[places] = r0 * P[places]
  BY <1>12 DEF T
<1>14. /\ N[places] \in Int /\ R[places] \in Int /\ r0 * P[places] \in Int
       /\ 0 <= R[places] /\ R[places] < Unit /\ Unit \in Int
  BY <1>5, <1>6, <1>8, <1>9
<1>15. /\ N[places] * Unit <= r0 * P[places]
       /\ r0 * P[places] < (N[places] + 1) * Unit
  BY <1>13, <1>14, CutBelowUnit
<1>16. NumberIn(text, 10) = N[places]
  BY <1>2 DEF NumberIn, N
<1> QED
  BY <1>15, <1>16 DEF text, r0, P

-----------------------------------------------------------------------------
(***************************************************************************)
(* The conversions: decimals and bytes.                                    *)
(***************************************************************************)

\* A text without a point, a point, and digits come apart again at the point.
LEMMA PointSplits ==
  ASSUME NEW a \in Seq(Int \ {0, 46}), NEW b \in Seq(48 .. 57)
  PROVE  LET text  == a \o <<46>> \o b
             point == CHOOSE i \in DOMAIN text : text[i] = 46
         IN /\ text \in Seq(Int \ {0}) /\ Len(text) = Len(a) + 1 + Len(b)
            /\ SubSeq(text, 1, point - 1) = a
            /\ SubSeq(text, point + 1, Len(text)) = b
<1> DEFINE C == Int \ {0}
           t == a \o <<46>> \o b
           m == Len(a)
           n == Len(b)
<1>1. a \in Seq(C) /\ b \in Seq(C) /\ m \in Nat /\ n \in Nat
  <2>1. Int \ {0, 46} \subseteq C /\ 48 .. 57 \subseteq C
    OBVIOUS
  <2>2. m \in Nat /\ n \in Nat
    OBVIOUS
  <2> HIDE DEF C, m, n
  <2> QED
    BY <2>1, <2>2, SeqMonotonic
<1>2. \A i \in 1 .. m : a[i] # 46
  <2>1. \A i \in 1 .. m : a[i] \in Int \ {0, 46}
    BY ElementOfSeq
  <2> QED
    BY <2>1
<1>3. \A i \in 1 .. n : b[i] # 46
  <2>1. \A i \in 1 .. n : b[i] \in 48 .. 57
    BY ElementOfSeq
  <2> QED
    BY <2>1
<1>4. <<46>> \in Seq(C) /\ Len(<<46>>) = 1 /\ <<46>>[1] = 46
  OBVIOUS
<1> HIDE DEF C
<1>5. /\ t \in Seq(C) /\ Len(t) = m + 1 + n
      /\ \A i \in 1 .. m : t[i] = a[i]
      /\ t[m + 1] = 46
      /\ \A i \in 1 .. n : t[m + 1 + i] = b[i]
  BY <1>1, <1>4
<1> HIDE DEF t
<1>6. DOMAIN t = 1 .. m + 1 + n
  BY <1>1, <1>5
<1>7. \A i \in DOMAIN t : t[i] = 46 => i = m + 1
  <2> TAKE i \in DOMAIN t
  <2>1. CASE i <= m
    BY <1>2, <1>5, <1>6, <2>1
  <2>2. CASE i > m + 1
    <3>1. i - (m + 1) \in 1 .. n /\ m + 1 + (i - (m + 1)) = i
      BY <1>1, <1>6, <2>2
    <3>2. t[i] = b[i - (m + 1)]
      BY <1>5, <3>1
    <3> QED
      BY <1>3, <3>1, <3>2
  <2> QED
    BY <1>1, <1>6, <2>1, <2>2
<1>8. (CHOOSE i \in DOMAIN t : t[i] = 46) = m + 1
  BY <1>1, <1>5, <1>6, <1>7
<1>9. SubSeq(t, 1, m) = a
  <2>1. SubSeq(t, 1, m) = [i \in 1 .. m |-> t[i]]
    BY <1>1, <1>5
  <2>2. a = [i \in 1 .. m |-> a[i]]
    OBVIOUS
  <2> QED
    BY <1>5, <2>1, <2>2
<1>10. SubSeq(t, m + 2, m + 1 + n) = b
  <2>1. SubSeq(t, m + 2, m + 1 + n) = [i \in 1 .. n |-> t[m + 1 + i]]
    BY <1>1, <1>5
  <2>2. b = [i \in 1 .. n |-> b[i]]
    OBVIOUS
  <2> QED
    BY <1>5, <2>1, <2>2
<1>11. (m + 1) - 1 = m /\ (m + 1) + 1 = m + 2
  BY <1>1
<1> QED
  BY <1>5, <1>8, <1>9, <1>10, <1>11 DEF t, C

\* The integer part of a fraction, and its size.
LEMMA WholeIs ==
  ASSUME NEW v \in Int
  PROVE  /\ Abs(v) \in Nat /\ Abs(v) \div Unit \in Nat /\ Whole(v) \in Int
         /\ Abs(Whole(v)) = Abs(v) \div Unit
         /\ v <= -Unit => Whole(v) < 0
<1>1. Unit \in Nat \ {0}
  BY UnitIsPositive
<1>2. Abs(v) \in Nat
  BY DEF Abs
<1>3. \A a \in Nat : a \div Unit \in Nat
  BY <1>1, Division
<1>4. \A a \in Nat : a >= Unit => a \div Unit >= 1
  <2>1. \A u \in Nat \ {0} : \A a \in Nat : a >= u => a \div u >= 1
    OBVIOUS
  <2> QED
    BY <1>1, <2>1
<1> DEFINE w == Abs(v) \div Unit
<1>5. w \in Nat
  BY <1>2, <1>3
<1>6. CASE v < 0
  <2>1. Whole(v) = -w
    BY <1>6 DEF Whole
  <2>2. v <= -Unit => w >= 1
    <3>1. v <= -Unit => Abs(v) >= Unit
      BY <1>1, <1>6 DEF Abs
    <3> QED
      BY <1>2, <1>4, <3>1
  <2> HIDE DEF w
  <2>3. Abs(-w) = w /\ -w \in Int
    BY <1>5 DEF Abs
  <2> QED
    BY <1>2, <1>5, <2>1, <2>2, <2>3 DEF w
<1>7. CASE ~(v < 0)
  <2>1. Abs(v) = v
    BY <1>7 DEF Abs
  <2>2. Whole(v) = w
    BY <1>7, <2>1 DEF Whole
  <2>3. ~(v <= -Unit)
    BY <1>1, <1>7
  <2> HIDE DEF w
  <2>4. Abs(w) = w
    BY <1>5 DEF Abs
  <2> QED
    BY <1>2, <1>5, <2>2, <2>3, <2>4 DEF w
<1> QED
  BY <1>6, <1>7

\* The places of a fraction.
LEMMA PlacesAre ==
  ASSUME NEW precision \in Nat
  PROVE  Least(precision, PrecisionCap) \in 0 .. 16
BY TextsAssumption DEF TextsAssumption, Least

\* Read back, the text of a decimal is the decimal, cut after its places.
LEMMA DecimalTextSaysIt ==
  ASSUME NEW v \in DecimalValues, NEW precision \in Nat, Whole(v) # MostNegative
  PROVE  /\ DecimalIsTrue(DecimalText(v, precision), v, precision)
         /\ DecimalText(v, precision) \in Seq(Int \ {0})
         /\ Len(DecimalText(v, precision)) <= 83
<1> DEFINE a == IntegerText(Whole(v))
           places == Least(precision, PrecisionCap)
           b == FractionText(Abs(v), places)
           text == a \o <<46>> \o b
           point == CHOOSE i \in DOMAIN text : text[i] = 46
<1>1. v \in Int /\ Whole(v) \in Convertible
  <2>1. v \in Int /\ Whole(v) \in MostNegative .. -MostNegative - 1
    BY TextsAssumption DEF TextsAssumption
  <2>2. Whole(v) \in Int
    BY <2>1, WholeIs
  <2> QED
    BY <2>1, <2>2, TypeBounds DEF Convertible, MostNegative
<1>2. /\ Abs(v) \in Nat
      /\ Abs(Whole(v)) = Abs(v) \div Unit
      /\ v <= -Unit => Whole(v) < 0
  BY <1>1, WholeIs
<1>3. places \in 0 .. 16 /\ places \in Nat
  BY PlacesAre
<1>4. IntegerIs(a, Whole(v))
  BY <1>1, IntegerTextSaysIt
<1>5. /\ a \in Seq(Int \ {0, 46}) /\ Len(a) <= 66 /\ Len(a) \in Nat
      /\ IntegerIn(a) = Whole(v)
  BY <1>4, TypeBounds DEF IntegerIs
<1> HIDE DEF a, places
<1>6. b \in Seq(48 .. 57) /\ Len(b) = places
  BY <1>2, <1>3, FractionShape
<1>7. /\ text \in Seq(Int \ {0}) /\ Len(text) = Len(a) + 1 + Len(b)
      /\ SubSeq(text, 1, point - 1) = a
      /\ SubSeq(text, point + 1, Len(text)) = b
  BY <1>5, <1>6, PointSplits
<1>8. Abs(v) \div Unit < IntLimit =>
        LET digits == NumberIn(b, 10)
            rest   == (Abs(v) % Unit) * Power(10)[places]
        IN digits * Unit <= rest /\ rest < (digits + 1) * Unit
  BY <1>2, <1>3, FractionRead
<1>9. DecimalText(v, precision) = text
  BY DEF DecimalText, a, places
<1> HIDE DEF b, text, point
<1>10. Len(text) <= 83
  BY <1>3, <1>5, <1>6, <1>7
<1>11. DecimalIsTrue(text, v, precision)
  BY <1>2, <1>5, <1>6, <1>7, <1>8, Zenon DEF DecimalIsTrue, point, places
<1> QED
  BY <1>7, <1>9, <1>10, <1>11

\* The most negative value's text is wrong, but it ends, whatever the places.
LEMMA DecimalTextEnds ==
  ASSUME NEW v \in DecimalValues, NEW precision \in Nat
  PROVE  /\ DecimalText(v, precision) \in Seq(Int \ {0})
         /\ Len(DecimalText(v, precision)) <= 83
<1>1. CASE Whole(v) # MostNegative
  BY <1>1, DecimalTextSaysIt
<1>2. CASE Whole(v) = MostNegative
  <2> DEFINE C == Int \ {0}
             a == IntegerText(MostNegative)
             places == Least(precision, PrecisionCap)
             b == FractionText(Abs(v), places)
             point == <<46>>
  <2>1. v \in Int
    BY TextsAssumption DEF TextsAssumption
  <2>2. places \in 0 .. 16 /\ places \in Nat /\ Abs(v) \in Nat
    BY <2>1, PlacesAre, WholeIs
  <2>3. a \in Seq(C) /\ Len(a) = 2
    BY MostNegativeText
  <2>4. b \in Seq(48 .. 57) /\ Len(b) = places
    BY <2>2, FractionShape
  <2>5. 48 .. 57 \subseteq C
    OBVIOUS
  <2>6. DecimalText(v, precision) = a \o point \o b
    BY <1>2 DEF DecimalText
  <2>7. point \in Seq(C) /\ Len(point) = 1
    OBVIOUS
  <2> HIDE DEF C, a, b, places, point
  <2>8. b \in Seq(C)
    BY <2>4, <2>5, SeqMonotonic
  <2>9. a \o point \in Seq(C) /\ Len(a \o point) = 2 + 1
    <3>1. a \o point \in Seq(C)
      BY <2>3, <2>7
    <3>2. Len(a \o point) = Len(a) + Len(point)
      BY <2>3, <2>7, ConcatProperties
    <3> QED
      BY <2>3, <2>7, <3>1, <3>2
  <2>10. (a \o point) \o b \in Seq(C) /\ Len((a \o point) \o b) = (2 + 1) + places
    BY <2>4, <2>8, <2>9, ConcatProperties
  <2>11. (2 + 1) + places <= 83
    BY <2>2
  <2> QED
    BY <2>6, <2>10, <2>11 DEF C, point
<1> QED
  BY <1>1, <1>2

\* What a hexadecimal digit stands for.
LEMMA HexDigitIs ==
  \A d \in 0 .. 15 : HexDigit(d) \in Int \ {0} /\ DigitValue(HexDigit(d)) = d
BY DEF HexDigit, DigitValue

\* A byte is its two digits.
LEMMA ByteSplits ==
  \A v \in Nat : v <= 255 =>
    v \div 16 \in 0 .. 15 /\ v % 16 \in 0 .. 15 /\ 16 * (v \div 16) + (v % 16) = v
OBVIOUS

\* Two chars of a text stand for a byte.
LEMMA TwoCharsEach ==
  \A j \in Nat \ {0} :
    /\ ((2 * j - 1) - 1) \div 2 = j - 1 /\ (2 * j - 1) % 2 = 1
    /\ (2 * j - 1) \div 2 = j - 1 /\ (2 * j) % 2 = 0
OBVIOUS

\* A place is the first or the second of a byte.
LEMMA FirstOrSecond ==
  \A n \in Nat : \A k \in 1 .. 2 * n : \E j \in 1 .. n : k = 2 * j - 1 \/ k = 2 * j
<1> TAKE n \in Nat
<1> TAKE k \in 1 .. 2 * n
<1>1. (k + 1) \div 2 \in 1 .. n
  OBVIOUS
<1>2. k = 2 * ((k + 1) \div 2) - 1 \/ k = 2 * ((k + 1) \div 2)
  OBVIOUS
<1> QED
  BY <1>1, <1>2

\* The chars of a byte, which is at the other end of the value.
LEMMA HexChars ==
  ASSUME NEW bytes \in Seq(0 .. 255), NEW j \in 1 .. Len(bytes)
  PROVE  LET byte == bytes[Len(bytes) + 1 - j]
         IN /\ byte \in Nat /\ byte <= 255
            /\ HexText(bytes)[2 * j - 1] = HexDigit(byte \div 16)
            /\ HexText(bytes)[2 * j] = HexDigit(byte % 16)
<1> DEFINE n == Len(bytes)
           byte(k) == bytes[n - (k - 1) \div 2]
           digit(k) == HexDigit(IF k % 2 = 1 THEN byte(k) \div 16 ELSE byte(k) % 16)
<1>1. n \in Nat /\ j \in 1 .. n
  OBVIOUS
<1>2. HexText(bytes) = [k \in 1 .. 2 * n |-> digit(k)]
  BY DEF HexText
<1>3. bytes[n + 1 - j] \in Nat /\ bytes[n + 1 - j] <= 255
  <2>1. n + 1 - j \in 1 .. Len(bytes)
    OBVIOUS
  <2> QED
    BY <2>1, BytesAreNumbers
<1> HIDE DEF n
<1>4. 2 * j - 1 \in 1 .. 2 * n /\ 2 * j \in 1 .. 2 * n /\ j \in Nat \ {0}
  BY <1>1
<1>5. /\ ((2 * j - 1) - 1) \div 2 = j - 1 /\ (2 * j - 1) % 2 = 1
      /\ (2 * j - 1) \div 2 = j - 1 /\ (2 * j) % 2 = 0
  BY <1>4, TwoCharsEach
<1>6. n - (j - 1) = n + 1 - j
  BY <1>1
<1>7. digit(2 * j - 1) = HexDigit(bytes[n + 1 - j] \div 16)
  BY <1>5, <1>6
<1>8. digit(2 * j) = HexDigit(bytes[n + 1 - j] % 16)
  <2>1. (2 * j) % 2 # 1
    BY <1>5
  <2> QED
    BY <1>5, <1>6, <2>1
<1> HIDE DEF digit
<1>9. HexText(bytes)[2 * j - 1] = digit(2 * j - 1) /\ HexText(bytes)[2 * j] = digit(2 * j)
  BY <1>2, <1>4
<1> QED
  BY <1>3, <1>7, <1>8, <1>9 DEF n

\* Read back, the text of a value in hexadecimal is the value.
LEMMA HexTextSaysIt ==
  ASSUME NEW bytes \in Seq(0 .. 255)
  PROVE  /\ HexText(bytes) \in Seq(Int \ {0})
         /\ Len(HexText(bytes)) = 2 * Len(bytes)
         /\ NumberIn(HexText(bytes), 16) = NumbersOf(bytes)[Len(bytes)]
<1> DEFINE n == Len(bytes)
           text == HexText(bytes)
           N == NumbersIn(text, 16)
           M == NumbersOf(bytes)
           T == {j \in Nat : j <= n => N[2 * j] = M[j]}
<1>1. n \in Nat
  OBVIOUS
<1>2. ASSUME NEW j \in 1 .. n
      PROVE  /\ bytes[n + 1 - j] \in Nat
             /\ text[2 * j - 1] \in Int \ {0} /\ text[2 * j] \in Int \ {0}
             /\ DigitValue(text[2 * j - 1]) = bytes[n + 1 - j] \div 16
             /\ DigitValue(text[2 * j]) = bytes[n + 1 - j] % 16
             /\ 16 * (bytes[n + 1 - j] \div 16) + (bytes[n + 1 - j] % 16) = bytes[n + 1 - j]
  <2> DEFINE v == bytes[n + 1 - j]
  <2>1. /\ v \in Nat /\ v <= 255
        /\ text[2 * j - 1] = HexDigit(v \div 16) /\ text[2 * j] = HexDigit(v % 16)
    BY HexChars
  <2> HIDE DEF v, text
  <2>2. v \div 16 \in 0 .. 15 /\ v % 16 \in 0 .. 15 /\ 16 * (v \div 16) + (v % 16) = v
    BY <2>1, ByteSplits
  <2>3. /\ HexDigit(v \div 16) \in Int \ {0} /\ DigitValue(HexDigit(v \div 16)) = v \div 16
        /\ HexDigit(v % 16) \in Int \ {0} /\ DigitValue(HexDigit(v % 16)) = v % 16
    BY <2>2, HexDigitIs
  <2> QED
    BY <2>1, <2>2, <2>3, Zenon DEF v
<1>3. text = [k \in 1 .. 2 * n |-> text[k]]
  BY DEF HexText
<1> HIDE DEF text, n
<1>4. \A k \in 1 .. 2 * n : text[k] \in Int \ {0}
  <2> TAKE k \in 1 .. 2 * n
  <2>1. PICK j \in 1 .. n : k = 2 * j - 1 \/ k = 2 * j
    BY <1>1, FirstOrSecond
  <2> QED
    BY <1>2, <2>1, Zenon
<1>5. text \in Seq(Int \ {0}) /\ Len(text) = 2 * n
  <2> DEFINE C == Int \ {0}
  <2>1. \A k \in 1 .. 2 * n : text[k] \in C
    BY <1>4
  <2> HIDE DEF C
  <2>2. text \in Seq(C) /\ Len(text) = 2 * n
    BY <1>1, <1>3, <2>1
  <2> QED
    BY <2>2 DEF C
<1>6. NumbersAlong(N, text, 16)
  <2>1. text \in Seq(Int)
    BY <1>5
  <2> QED
    BY <2>1, NumbersInIs
<1>7. BytesAlong(M, bytes)
  BY NumbersOfIs
<1> HIDE DEF N, M
<1>8. /\ N[0] = 0 /\ N \in [0 .. 2 * n -> Int]
      /\ \A i \in 1 .. 2 * n : N[i] = 16 * N[i - 1] + DigitValue(text[i])
  BY <1>5, <1>6 DEF NumbersAlong
<1>9. /\ M[0] = 0
      /\ \A i \in 1 .. n : M[i] = 256 * M[i - 1] + bytes[n + 1 - i]
  BY <1>7 DEF BytesAlong, n
<1>10. 0 \in T
  BY <1>8, <1>9
<1>11. ASSUME NEW i \in Nat, i \in T PROVE i + 1 \in T
  <2> SUFFICES ASSUME i + 1 <= n PROVE N[2 * (i + 1)] = M[i + 1]
    OBVIOUS
  <2> DEFINE j == i + 1
             v == bytes[n + 1 - j]
             x == N[2 * i]
  <2>1. /\ j \in 1 .. n /\ j - 1 = i /\ 2 * j - 1 \in 1 .. 2 * n /\ 2 * j \in 1 .. 2 * n
        /\ (2 * j - 1) - 1 = 2 * i /\ i <= n /\ 2 * i \in 0 .. 2 * n
    BY <1>1
  <2>2. M[j] = 256 * M[i] + v
    BY <1>9, <2>1
  <2>3. N[2 * j - 1] = 16 * N[2 * i] + DigitValue(text[2 * j - 1])
    BY <1>8, <2>1
  <2>4. N[2 * j] = 16 * N[2 * j - 1] + DigitValue(text[2 * j])
    BY <1>8, <2>1
  <2>5. N[2 * i] = M[i] /\ x \in Int
    BY <1>8, <1>11, <2>1
  <2>6. /\ v \in Nat /\ DigitValue(text[2 * j - 1]) = v \div 16
        /\ DigitValue(text[2 * j]) = v % 16 /\ 16 * (v \div 16) + (v % 16) = v
    BY <1>2, <2>1
  <2>7. N[2 * j] = 16 * (16 * x + (v \div 16)) + (v % 16)
    BY <2>3, <2>4, <2>6
  <2> HIDE DEF v, x, j
  <2>8. v \div 16 \in Int /\ v % 16 \in Int
    BY <2>6
  <2>9. 16 * (16 * x + (v \div 16)) + (v % 16) = 256 * x + v
    BY <2>5, <2>6, <2>8
  <2>10. N[2 * j] = M[j]
    BY <2>2, <2>5, <2>7, <2>9 DEF x
  <2> QED
    BY <2>10 DEF j
<1> HIDE DEF T
<1>12. n \in T
  BY <1>1, <1>10, <1>11, Climb
<1>13. N[2 * n] = M[n]
  BY <1>1, <1>12 DEF T
<1> QED
  BY <1>5, <1>13 DEF NumberIn, N, M, n, text

-----------------------------------------------------------------------------
(***************************************************************************)
(* The buffers hold texts, and the last call's text is what it should be.  *)
(***************************************************************************)

BuffersInv ==
  Buffer(OutputBuffer, OutputSize) /\ Buffer(PadOutputBuffer, PadOutputSize)

StringsInv == BuffersInv /\ TextSaysTheValue /\ PaddedToItsWidth

\* A conversion's text fits its buffer, with its zero.
LEMMA ConversionFits ==
  ASSUME BuffersInv, NEW text \in Seq(Int \ {0}), Len(text) < 128,
         NEW request, Convert(request, text)
  PROVE  BuffersInv' /\ TextIn(OutputBuffer') = text
<1>1. OutputBuffer \in [0 .. 128 - 1 -> Int]
  BY DEF BuffersInv, Buffer, OutputSize
<1>2. OutputBuffer' = Written(OutputBuffer, text, Len(text))
  BY DEF Convert
<1>3. Buffer(OutputBuffer', 128) /\ TextIn(OutputBuffer') = text
  BY <1>1, <1>2, TextIsRead
<1>4. UNCHANGED PadOutputBuffer
  BY DEF Convert
<1> QED
  BY <1>3, <1>4 DEF BuffersInv, OutputSize, PadOutputSize

\* A padded text of up to CountCap chars fits its buffer, with its zero.
LEMMA PaddingFits ==
  ASSUME BuffersInv, NEW chars \in Seq(Int \ {0}), NEW end \in 0 .. 127,
         end <= Len(chars), PadOutputBuffer' = Written(PadOutputBuffer, chars, end)
  PROVE  /\ Buffer(PadOutputBuffer', 256)
         /\ TextIn(PadOutputBuffer') = [i \in 1 .. end |-> chars[i]]
<1> DEFINE size == 256
           B == PadOutputBuffer
<1>1. B \in [0 .. size - 1 -> Int]
  BY DEF BuffersInv, Buffer, PadOutputSize
<1>2. end \in Nat /\ end < size /\ size \in Nat
  OBVIOUS
<1> HIDE DEF size, B
<1>3. /\ Buffer(Written(B, chars, end), size)
      /\ TextIn(Written(B, chars, end)) = [i \in 1 .. end |-> chars[i]]
  <2>1. Fits(B, size, chars, end)
    BY <1>1, <1>2, Zenon DEF Fits
  <2> QED
    BY <2>1, WrittenIsRead
<1> QED
  BY <1>3, Zenon DEF size, B

\* What a padding call is given is a text shorter than its buffer.
LEMMA PaddableTexts ==
  ASSUME BuffersInv, NEW text \in Paddable
  PROVE  text \in Seq(Int \ {0}) /\ Len(text) < 256
<1>1. CASE text \in Literals
  <2>1. text \in Seq(1 .. 127) /\ Len(text) < 256
    BY <1>1, TextsAssumption DEF TextsAssumption
  <2>2. 1 .. 127 \subseteq Int \ {0}
    OBVIOUS
  <2> QED
    BY <2>1, <2>2, SeqMonotonic
<1>2. CASE text = TextIn(OutputBuffer)
  <2>1. Buffer(OutputBuffer, 128)
    BY DEF BuffersInv, OutputSize
  <2>2. text \in Seq(Int \ {0}) /\ Len(text) < 128
    BY <1>2, <2>1, ReadIsText
  <2> QED
    BY <2>2
<1>3. text \in Literals \/ text = TextIn(OutputBuffer)
  BY Zenon DEF Paddable
<1> QED
  BY <1>1, <1>2, <1>3

\* The widths that are padded to.
LEMMA WidthsAre ==
  ASSUME NEW n \in Counts
  PROVE  Least(n, CountCap) \in 0 .. 127
BY TextsAssumption DEF TextsAssumption, Least, CountCap

\* Spaces are chars, as many as asked for.
LEMMA SpacesAre ==
  ASSUME NEW n \in Nat
  PROVE  /\ Spaces(n) \in Seq(Int \ {0}) /\ Len(Spaces(n)) = n
         /\ \A i \in 1 .. n : Spaces(n)[i] = 32
BY DEF Spaces

\* An integer converted is what its text says.
LEMMA IntegerConverted ==
  ASSUME BuffersInv, NEW v \in IntegerValues,
         Convert([name |-> "integer", value |-> v], IntegerText(v))
  PROVE  StringsInv'
<1> DEFINE text == IntegerText(v)
<1>1. v \in Convertible
  <2>1. v \in MostNegative .. Power(2)[Width] - 1
    BY TextsAssumption DEF TextsAssumption
  <2> QED
    BY <2>1, TypeBounds DEF Convertible, MostNegative
<1>2. v # MostNegative => IntegerIs(text, v)
  BY <1>1, IntegerTextSaysIt
<1>3. text \in Seq(Int \ {0}) /\ Len(text) < 128
  <2>1. CASE v = MostNegative
    BY <2>1, MostNegativeText
  <2>2. CASE v # MostNegative
    <3>1. text \in Seq(Int \ {0, 46}) /\ Len(text) <= 66
      BY <1>2, <2>2, TypeBounds DEF IntegerIs
    <3>2. Int \ {0, 46} \subseteq Int \ {0}
      OBVIOUS
    <3> HIDE DEF text
    <3>3. text \in Seq(Int \ {0})
      BY <3>1, <3>2, SeqMonotonic
    <3> QED
      BY <3>1, <3>3
  <2> QED
    BY <2>1, <2>2
<1> HIDE DEF text
<1>4. BuffersInv' /\ TextIn(OutputBuffer') = text
  BY <1>3, ConversionFits DEF text
<1>5. call' = [name |-> "integer", value |-> v]
  BY DEF Convert
<1>6. v # MostNegative => IntegerIn(text) = v /\ text[Len(text)] \in 48 .. 57
  BY <1>2, Zenon DEF IntegerIs
<1>7. TextSaysTheValue'
  BY <1>4, <1>5, <1>6 DEF TextSaysTheValue
<1>8. PaddedToItsWidth'
  BY <1>5 DEF PaddedToItsWidth
<1> QED
  BY <1>4, <1>7, <1>8 DEF StringsInv

\* A decimal converted is what its text says.
LEMMA DecimalConverted ==
  ASSUME BuffersInv, NEW v \in DecimalValues, NEW p \in Precisions,
         Convert([name |-> "decimal", value |-> v, precision |-> p], DecimalText(v, p))
  PROVE  StringsInv'
<1> DEFINE text == DecimalText(v, p)
<1>1. p \in Nat
  BY TextsAssumption DEF TextsAssumption
<1>2. Whole(v) # MostNegative => DecimalIsTrue(text, v, p)
  BY <1>1, DecimalTextSaysIt
<1>3. text \in Seq(Int \ {0}) /\ Len(text) <= 83
  BY <1>1, DecimalTextEnds
<1> HIDE DEF text
<1>4. BuffersInv' /\ TextIn(OutputBuffer') = text
  <2>1. Len(text) < 128
    BY <1>3
  <2> QED
    BY <1>3, <2>1, ConversionFits DEF text
<1>5. call' = [name |-> "decimal", value |-> v, precision |-> p]
  BY DEF Convert
<1>6. TextSaysTheValue'
  BY <1>2, <1>4, <1>5 DEF TextSaysTheValue
<1>7. PaddedToItsWidth'
  BY <1>5 DEF PaddedToItsWidth
<1> QED
  BY <1>4, <1>6, <1>7 DEF StringsInv

\* A value shown in hexadecimal is what its text says.
LEMMA HexConverted ==
  ASSUME BuffersInv, to_hstring
  PROVE  StringsInv'
<1>1. PICK v \in HexValues : Convert([name |-> "hex", value |-> v], HexText(v))
  BY DEF to_hstring
<1> DEFINE text == HexText(v)
<1>2. v \in Seq(0 .. 255) /\ Len(v) <= 8
  BY TextsAssumption DEF TextsAssumption
<1>3. /\ text \in Seq(Int \ {0}) /\ Len(text) = 2 * Len(v)
      /\ NumberIn(text, 16) = NumbersOf(v)[Len(v)]
  BY <1>2, HexTextSaysIt
<1> HIDE DEF text
<1>4. BuffersInv' /\ TextIn(OutputBuffer') = text
  <2>1. Len(text) < 128
    BY <1>2, <1>3
  <2> QED
    BY <1>1, <1>3, <2>1, ConversionFits DEF text
<1>5. call' = [name |-> "hex", value |-> v]
  BY <1>1 DEF Convert
<1>6. TextSaysTheValue'
  BY <1>3, <1>4, <1>5 DEF TextSaysTheValue
<1>7. PaddedToItsWidth'
  BY <1>5 DEF PaddedToItsWidth
<1> QED
  BY <1>4, <1>6, <1>7 DEF StringsInv

\* Text behind spaces is read back behind them.
LEMMA SpacesBefore ==
  ASSUME NEW text \in Seq(Int \ {0}), NEW count \in Nat, Len(text) <= count
  PROVE  LET padded == Spaces(count - Len(text)) \o text
             free   == Len(padded) - Len(text)
         IN /\ padded \in Seq(Int \ {0}) /\ Len(padded) = count
            /\ SubSeq(padded, free + 1, Len(padded)) = text
            /\ \A i \in 1 .. free : padded[i] = 32
<1> DEFINE C == Int \ {0}
           m == count - Len(text)
           n == Len(text)
           a == Spaces(m)
           t == a \o text
<1>1. m \in Nat /\ n \in Nat /\ m + n = count /\ text \in Seq(C)
  OBVIOUS
<1> HIDE DEF m
<1>2. a \in Seq(C) /\ Len(a) = m /\ \A i \in 1 .. m : a[i] = 32
  BY <1>1, SpacesAre
<1> HIDE DEF C, a
<1>3. t \in Seq(C) /\ Len(t) = Len(a) + Len(text)
  BY <1>1, <1>2
<1>4. /\ \A i \in 1 .. m : t[i] = a[i]
      /\ \A i \in 1 .. n : t[m + i] = text[i]
  BY <1>1, <1>2
<1>5. Len(t) = count /\ Len(t) - n = m
  BY <1>1, <1>2, <1>3
<1> HIDE DEF t
<1>6. SubSeq(t, m + 1, Len(t)) = text
  <2>1. SubSeq(t, m + 1, m + n) = [i \in 1 .. n |-> t[m + i]]
    BY <1>1, <1>3, <1>5
  <2>2. text = [i \in 1 .. n |-> text[i]]
    OBVIOUS
  <2> QED
    BY <1>1, <1>4, <1>5, <2>1, <2>2
<1>7. \A i \in 1 .. m : t[i] = 32
  BY <1>2, <1>4
<1>8. t \in Seq(Int \ {0})
  BY <1>3 DEF C
<1> QED
  BY <1>5, <1>6, <1>7, <1>8, Zenon DEF t, a, m, n

\* A text padded on the left has its width.
LEMMA PaddedLeft ==
  ASSUME BuffersInv, str_padleft
  PROVE  BuffersInv' /\ PaddedToItsWidth'
<1>1. PICK text \in Paddable, n \in Counts :
        LET count == Least(n, CountCap)
            fits  == count > 0 /\ count >= Len(text)
        IN /\ call' = [name |-> "padleft", text |-> text, count |-> n, inPlace |-> ~fits]
           /\ PadOutputBuffer' =
                IF fits THEN Written(PadOutputBuffer, Spaces(count - Len(text)) \o text, count)
                        ELSE PadOutputBuffer
           /\ UNCHANGED OutputBuffer
  BY Zenon DEF str_padleft
<1> DEFINE count == Least(n, CountCap)
           fits  == count > 0 /\ count >= Len(text)
           padded == Spaces(count - Len(text)) \o text
<1>2. /\ call' = [name |-> "padleft", text |-> text, count |-> n, inPlace |-> ~fits]
      /\ PadOutputBuffer' = IF fits THEN Written(PadOutputBuffer, padded, count)
                                    ELSE PadOutputBuffer
      /\ UNCHANGED OutputBuffer
  BY <1>1, Zenon
<1>3. text \in Seq(Int \ {0}) /\ Len(text) \in Nat
  BY PaddableTexts
<1>4. count \in 0 .. 127 /\ count \in Nat
  BY WidthsAre
<1> HIDE DEF count
<1>6. CASE fits
  <2>1. /\ padded \in Seq(Int \ {0}) /\ Len(padded) = count
        /\ SubSeq(padded, (Len(padded) - Len(text)) + 1, Len(padded)) = text
        /\ \A i \in 1 .. Len(padded) - Len(text) : padded[i] = 32
    BY <1>3, <1>4, <1>6, SpacesBefore
  <2> HIDE DEF padded
  <2>2. PadOutputBuffer' = Written(PadOutputBuffer, padded, count)
    BY <1>2, <1>6
  <2>3. padded = [i \in 1 .. count |-> padded[i]]
    BY <1>4, <2>1
  <2>4. Buffer(PadOutputBuffer', 256) /\ TextIn(PadOutputBuffer') = padded
    <3>1. padded \in Seq(Int \ {0}) /\ count <= Len(padded)
      BY <1>4, <2>1
    <3>2. TextIn(PadOutputBuffer') = [i \in 1 .. count |-> padded[i]]
      BY <1>4, <2>2, <3>1, PaddingFits, Zenon
    <3>3. Buffer(PadOutputBuffer', 256)
      BY <1>4, <2>2, <3>1, PaddingFits, Zenon
    <3> QED
      BY <2>3, <3>2, <3>3, Zenon
  <2>5. BuffersInv'
    BY <1>2, <2>4 DEF BuffersInv, PadOutputSize
  <2>6. /\ call'.name = "padleft" /\ call'.text = text /\ call'.count = n
        /\ ~call'.inPlace
    BY <1>2, <1>6
  <2>7. ~(count < Len(text))
    BY <1>3, <1>4, <1>6
  <2>8. PaddedToItsWidth'
    BY <2>1, <2>4, <2>6, <2>7 DEF PaddedToItsWidth, count
  <2> QED
    BY <2>5, <2>8
<1>7. CASE ~fits
  <2>1. BuffersInv'
    BY <1>2, <1>7 DEF BuffersInv
  <2>2. /\ call'.name = "padleft" /\ call'.text = text /\ call'.count = n
        /\ call'.inPlace
    BY <1>2, <1>7
  <2>3. ~(count < Len(text)) => Len(text) = count
    BY <1>3, <1>4, <1>7
  <2>4. Len(text) - Len(text) = 0
    BY <1>3
  <2>5. SubSeq(text, 0 + 1, Len(text)) = text /\ \A i \in 1 .. 0 : text[i] = 32
    BY <1>3
  <2>6. PaddedToItsWidth'
    BY <2>2, <2>3, <2>4, <2>5 DEF PaddedToItsWidth, count
  <2> QED
    BY <2>1, <2>6
<1> QED
  BY <1>6, <1>7

\* Chars that are the text as far as it goes, and then spaces, up to a width.
SpacedBehind(chars, text, count) ==
  /\ chars \in Seq(Int \ {0}) /\ count <= Len(chars)
  /\ \A i \in 1 .. count : chars[i] = IF i <= Len(text) THEN text[i] ELSE 32

\* A text and the spaces that are missing.
LEMMA SpacesBehind ==
  ASSUME NEW text \in Seq(Int \ {0}), NEW count \in Nat
  PROVE  SpacedBehind(text \o Spaces(count - Len(text)), text, count)
<1> DEFINE C == Int \ {0}
           m == Len(text)
           k == count - m
           n == IF k < 0 THEN 0 ELSE k
           a == Spaces(k)
           t == text \o a
<1>1. m \in Nat /\ k \in Int /\ n \in Nat /\ count <= m + n /\ n >= k /\ text \in Seq(C)
  OBVIOUS
<1>2. Spaces(k) = Spaces(n)
  <2>1. 1 .. k = 1 .. n
    BY <1>1
  <2> QED
    BY <2>1, Zenon DEF Spaces
<1> HIDE DEF k, n
<1>3. a \in Seq(C) /\ Len(a) = n /\ \A i \in 1 .. n : a[i] = 32
  BY <1>1, <1>2, SpacesAre
<1> HIDE DEF C, a
<1>4. t \in Seq(C) /\ Len(t) = Len(text) + Len(a)
  BY <1>1, <1>3
<1>5. /\ \A i \in 1 .. m : t[i] = text[i]
      /\ \A i \in 1 .. n : t[m + i] = a[i]
  BY <1>1, <1>3
<1>6. Len(t) = m + n
  BY <1>3, <1>4
<1> HIDE DEF t, m
<1>7. \A i \in 1 .. count : t[i] = IF i <= m THEN text[i] ELSE 32
  <2> TAKE i \in 1 .. count
  <2>1. CASE i <= m
    BY <1>1, <1>5, <2>1
  <2>2. CASE i > m
    <3>1. i - m \in 1 .. n /\ m + (i - m) = i
      BY <1>1, <2>2
    <3>2. t[i] = a[i - m] /\ a[i - m] = 32
      BY <1>3, <1>5, <3>1
    <3> QED
      BY <1>1, <2>2, <3>2
  <2> QED
    BY <1>1, <2>1, <2>2
<1>8. t \in Seq(Int \ {0})
  BY <1>4 DEF C
<1>9. count <= Len(t)
  BY <1>1, <1>6
<1> QED
  BY <1>7, <1>8, <1>9, Zenon DEF SpacedBehind, t, a, k, m

\* A text padded on the right has its width, and is cut to it.
LEMMA PaddedOnTheRight ==
  ASSUME BuffersInv, str_padright
  PROVE  BuffersInv' /\ PaddedToItsWidth'
<1>1. PICK text \in Paddable, n \in Counts :
        /\ call' = [name |-> "padright", text |-> text, count |-> n]
        /\ PadOutputBuffer' = PaddedRight(PadOutputBuffer, text, Least(n, CountCap))
        /\ UNCHANGED OutputBuffer
  BY Zenon DEF str_padright
<1> DEFINE count == Least(n, CountCap)
           padded == text \o Spaces(count - Len(text))
<1>2. text \in Seq(Int \ {0}) /\ Len(text) \in Nat
  BY PaddableTexts
<1>3. count \in 0 .. 127 /\ count \in Nat
  BY WidthsAre
<1>5. PadOutputBuffer' = Written(PadOutputBuffer, padded, count)
  BY <1>1 DEF PaddedRight
<1> HIDE DEF count
<1>6. /\ padded \in Seq(Int \ {0}) /\ count <= Len(padded)
      /\ \A i \in 1 .. count : padded[i] = IF i <= Len(text) THEN text[i] ELSE 32
  <2>1. SpacedBehind(padded, text, count)
    BY <1>2, <1>3, SpacesBehind, Zenon
  <2> QED
    BY <2>1, Zenon DEF SpacedBehind
<1> HIDE DEF padded
<1> DEFINE read == [i \in 1 .. count |-> padded[i]]
<1>7. Buffer(PadOutputBuffer', 256) /\ TextIn(PadOutputBuffer') = read
  BY <1>3, <1>5, <1>6, PaddingFits, Zenon
<1>8. BuffersInv'
  BY <1>1, <1>7 DEF BuffersInv, PadOutputSize
<1>9. call'.name = "padright" /\ call'.text = text /\ call'.count = n
  BY <1>1
<1>10. /\ Len(read) = count /\ DOMAIN read = 1 .. count
       /\ \A i \in DOMAIN read : read[i] = IF i <= Len(text) THEN text[i] ELSE 32
  BY <1>3, <1>6
<1> HIDE DEF read
<1>11. PaddedToItsWidth'
  BY <1>7, <1>9, <1>10 DEF PaddedToItsWidth, count
<1> QED
  BY <1>8, <1>11

\* Padding is no conversion.
LEMMA PaddingConvertsNothing ==
  ASSUME str_padleft \/ str_padright
  PROVE  TextSaysTheValue'
<1>1. call'.name \in {"padleft", "padright"}
  BY DEF str_padleft, str_padright
<1> QED
  BY <1>1 DEF TextSaysTheValue

\* The buffers start out empty.
LEMMA StringsStart == StringsInit => StringsInv
<1> SUFFICES ASSUME StringsInit PROVE StringsInv
  OBVIOUS
<1>1. BuffersInv
  BY DEF StringsInit, BuffersInv, Buffer, OutputSize, PadOutputSize
<1>2. call.name = "none"
  BY DEF StringsInit
<1> QED
  BY <1>1, <1>2 DEF StringsInv, TextSaysTheValue, PaddedToItsWidth

\* A call keeps the invariant.
LEMMA CallsKeep ==
  ASSUME StringsInv, [StringsNext]_stringsVars
  PROVE  StringsInv'
<1>1. BuffersInv
  BY DEF StringsInv
<1>2. CASE to_string
  BY <1>1, <1>2, IntegerConverted, DecimalConverted DEF to_string
<1>3. CASE to_hstring
  BY <1>1, <1>3, HexConverted
<1>4. CASE str_padleft
  BY <1>1, <1>4, PaddedLeft, PaddingConvertsNothing DEF StringsInv
<1>5. CASE str_padright
  BY <1>1, <1>5, PaddedOnTheRight, PaddingConvertsNothing DEF StringsInv
<1>6. CASE UNCHANGED stringsVars
  BY <1>6 DEF StringsInv, BuffersInv, TextSaysTheValue, PaddedToItsWidth, stringsVars
<1> QED
  BY <1>2, <1>3, <1>4, <1>5, <1>6 DEF StringsNext

\* Whatever calls of Str.cpp's conversions and paddings follow one another, both
\* buffers always hold a zero that ends a reader's loop, and the last text is
\* what it should be.
THEOREM StringsInvHolds == StringsSpec => []StringsInv
<1>1. StringsInit => StringsInv
  BY StringsStart
<1>2. StringsInv /\ [StringsNext]_stringsVars => StringsInv'
  BY CallsKeep
<1> QED
  BY <1>1, <1>2, PTL DEF StringsSpec

\* What to_string and to_hstring leave in the buffer, read back, is the value
\* that was converted, for every width of the types up to 64 bits.
THEOREM TextSaysTheValueHolds == StringsSpec => []TextSaysTheValue
<1>1. StringsInv => TextSaysTheValue
  BY DEF StringsInv
<1> QED
  BY <1>1, StringsInvHolds, PTL

\* What str_padleft and str_padright return has the width asked for and the text
\* on its side of it, for texts of every length the code can pad.
THEOREM PaddedToItsWidthHolds == StringsSpec => []PaddedToItsWidth
<1>1. StringsInv => PaddedToItsWidth
  BY DEF StringsInv
<1> QED
  BY <1>1, StringsInvHolds, PTL

=============================================================================
