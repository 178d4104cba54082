------------------------- MODULE KernelMemoryProofs -------------------------
(***************************************************************************)
(* Proofs about KernelMemory for every memory map, frame buffer and number *)
(* of entries in a table: what its tables hold, and what they translate.   *)
(***************************************************************************)
EXTENDS KernelMemory, PageFrameAllocatorProofs

\* What is left of an address above a level.
Above(v, lev) ==
  CASE lev = 1 -> Shifted(v)
    [] lev = 2 -> Shifted(Shifted(v))
    [] lev = 3 -> Shifted(Shifted(Shifted(v)))
    [] lev = 4 -> Shifted(Shifted(Shifted(Shifted(v))))

\* Putting back what a shift and a mask took apart.
Child(above, k) == Fanout * above + k

\* The processor's walk, of any contents and from any root.
EntryIn(T, t, v, lev) ==
  IF t \in DOMAIN T THEN T[t][PageMapIndex(v, lev)] ELSE Absent

ReachedIn(T, root, v, lev) ==
  CASE lev = 4 -> root
    [] lev = 3 -> EntryIn(T, root, v, 4)
    [] lev = 2 -> EntryIn(T, EntryIn(T, root, v, 4), v, 3)
    [] lev = 1 -> EntryIn(T, EntryIn(T, EntryIn(T, root, v, 4), v, 3), v, 2)

TranslateIn(T, root, v) == EntryIn(T, ReachedIn(T, root, v, 1), v, 1)

Contents(T) ==
  /\ T \in [DOMAIN T -> [Slots -> Nat \cup {Absent}]]
  /\ DOMAIN T \subseteq Nat

\* The tables are a tree: each has a level and stands for the addresses that
\* begin with the same indexes.  An entry leads a level down, to the table of
\* those addresses, and on the lowest level to the page of the address.
Tree(T, root, lev, above) ==
  /\ lev \in [DOMAIN T -> 1 .. 4] /\ above \in [DOMAIN T -> Nat]
  /\ root \in DOMAIN T => lev[root] = 4 /\ above[root] = 0
  /\ \A t \in DOMAIN T, k \in Slots :
       T[t][k] # Absent =>
         /\ lev[t] = 1 => T[t][k] = Child(above[t], k)
         /\ lev[t] # 1 => /\ T[t][k] \in DOMAIN T
                          /\ lev[T[t][k]] = lev[t] - 1
                          /\ above[T[t][k]] = Child(above[t], k)

-----------------------------------------------------------------------------
(***************************************************************************)
(* Addresses.                                                              *)
(***************************************************************************)

\* Division and remainder, with a divisor that is no literal.
LEMMA DivideAndPutBack ==
  ASSUME NEW f \in Nat, f > 0, NEW v \in Nat
  PROVE  /\ v \div f \in Nat /\ v % f \in 0 .. (f - 1)
         /\ f * (v \div f) + (v % f) = v
<1>1. v % f \in 0 .. (f - 1) /\ v \div f \in Int
  OBVIOUS
<1>2. v = f * (v \div f) + (v % f)
  OBVIOUS
<1>3. v \div f >= 0
  OBVIOUS
<1> QED
  BY <1>1, <1>2, <1>3

\* A quotient is below a bound when the number is below its product.
LEMMA QuotientBelow ==
  ASSUME NEW f \in Nat, f > 0, NEW v \in Nat, NEW m \in Nat, v < f * m
  PROVE  v \div f < m
<1> DEFINE q == v \div f
<1>1. q \in Nat /\ f * q <= v
  BY DivideAndPutBack
<1> HIDE DEF q
<1>2. ASSUME q >= m PROVE FALSE
  <2>1. f * q >= f * m
    BY <1>1, <1>2
  <2>2. f * q \in Nat /\ f * m \in Nat
    BY <1>1
  <2> QED
    BY <1>1, <2>1, <2>2
<1> QED
  BY <1>1, <1>2 DEF q

LEMMA FanoutType == Fanout \in Nat /\ Fanout > 1 /\ Fanout > 0
BY KernelAssumption

LEMMA ShiftedType ==
  ASSUME NEW v \in Nat
  PROVE  /\ Shifted(v) \in Nat /\ v % Fanout \in Slots
         /\ Child(Shifted(v), v % Fanout) = v
BY FanoutType, DivideAndPutBack DEF Shifted, Slots, Child

\* Masking and shifting lose nothing: an index and what is above it make up
\* what was above the level below.
LEMMA IndexesMakeAddress ==
  ASSUME NEW v \in Nat
  PROVE  /\ \A lev \in 1 .. 4 : PageMapIndex(v, lev) \in Slots /\ Above(v, lev) \in Nat
         /\ Child(Above(v, 1), PageMapIndex(v, 1)) = v
         /\ \A lev \in 2 .. 4 :
              Child(Above(v, lev), PageMapIndex(v, lev)) = Above(v, lev - 1)
<1> DEFINE a == Shifted(v)
           b == Shifted(a)
           c == Shifted(b)
           d == Shifted(c)
<1>1. a \in Nat /\ v % Fanout \in Slots /\ Child(a, v % Fanout) = v
  BY ShiftedType
<1>2. b \in Nat /\ a % Fanout \in Slots /\ Child(b, a % Fanout) = a
  BY <1>1, ShiftedType
<1>3. c \in Nat /\ b % Fanout \in Slots /\ Child(c, b % Fanout) = b
  BY <1>2, ShiftedType
<1>4. d \in Nat /\ c % Fanout \in Slots /\ Child(d, c % Fanout) = c
  BY <1>3, ShiftedType
<1>5. /\ Above(v, 1) = a /\ Above(v, 2) = b /\ Above(v, 3) = c /\ Above(v, 4) = d
      /\ PageMapIndex(v, 1) = v % Fanout /\ PageMapIndex(v, 2) = a % Fanout
      /\ PageMapIndex(v, 3) = b % Fanout /\ PageMapIndex(v, 4) = c % Fanout
  BY DEF Above, PageMapIndex
<1> HIDE DEF a, b, c, d
<1>6. ASSUME NEW lev \in 1 .. 4
      PROVE  PageMapIndex(v, lev) \in Slots /\ Above(v, lev) \in Nat
  <2>1. lev = 1 \/ lev = 2 \/ lev = 3 \/ lev = 4
    OBVIOUS
  <2> QED
    BY <2>1, <1>1, <1>2, <1>3, <1>4, <1>5, Zenon
<1>7. ASSUME NEW lev \in 2 .. 4
      PROVE  Child(Above(v, lev), PageMapIndex(v, lev)) = Above(v, lev - 1)
  <2>1. \/ lev = 2 /\ lev - 1 = 1
        \/ lev = 3 /\ lev - 1 = 2
        \/ lev = 4 /\ lev - 1 = 3
    OBVIOUS
  <2> QED
    BY <2>1, <1>2, <1>3, <1>4, <1>5, Zenon
<1> QED
  BY <1>1, <1>5, <1>6, <1>7, Zenon

\* Nothing is left above the highest level.
LEMMA NothingAboveRoot ==
  ASSUME NEW v \in VirtualPages
  PROVE  v \in Nat /\ Above(v, 4) = 0
<1> DEFINE a == Shifted(v)
           b == Shifted(a)
           c == Shifted(b)
           d == Shifted(c)
           f2 == Fanout * Fanout
           f3 == Fanout * f2
           f4 == Fanout * f3
<1>1. f2 \in Nat /\ f3 \in Nat /\ f4 \in Nat
  <2>1. \A x, y \in Nat : x * y \in Nat
    OBVIOUS
  <2>2. f2 \in Nat
    BY <2>1, FanoutType
  <2>3. f3 \in Nat
    BY <2>1, <2>2, FanoutType
  <2> QED
    BY <2>1, <2>2, <2>3, FanoutType
<1>2. v \in Nat /\ v < f4
  <2>1. v \in 0 .. (f4 - 1)
    BY DEF VirtualPages
  <2> HIDE DEF f4
  <2> QED
    BY <1>1, <2>1
<1>3. a \in Nat /\ a < f3
  BY <1>1, <1>2, FanoutType, ShiftedType, QuotientBelow DEF Shifted
<1>4. b \in Nat /\ b < f2
  BY <1>1, <1>3, FanoutType, ShiftedType, QuotientBelow DEF Shifted
<1>5. c \in Nat /\ c < Fanout * 1
  <2>1. c \in Nat /\ c < Fanout
    BY <1>1, <1>4, FanoutType, ShiftedType, QuotientBelow DEF Shifted
  <2> HIDE DEF c
  <2> QED
    BY <2>1, FanoutType
<1>6. d \in Nat /\ d < 1
  BY <1>5, FanoutType, ShiftedType, QuotientBelow DEF Shifted
<1> HIDE DEF d
<1>7. d = 0
  BY <1>6
<1> QED
  BY <1>2, <1>7 DEF Above, d

-----------------------------------------------------------------------------
(***************************************************************************)
(* Trees of tables.                                                        *)
(***************************************************************************)

\* A walk goes down the tree along the address, or ends in no entry.
LEMMA WalkFollowsTree ==
  ASSUME NEW T, Contents(T), NEW root, NEW lev, NEW above, Tree(T, root, lev, above),
         NEW v \in VirtualPages, NEW n \in 2 .. 4, NEW t \in DOMAIN T,
         lev[t] = n, above[t] = Above(v, n), EntryIn(T, t, v, n) # Absent
  PROVE  /\ EntryIn(T, t, v, n) \in DOMAIN T
         /\ lev[EntryIn(T, t, v, n)] = n - 1
         /\ above[EntryIn(T, t, v, n)] = Above(v, n - 1)
<1> DEFINE k == PageMapIndex(v, n)
<1>1. v \in Nat /\ n \in 1 .. 4 /\ n # 1
  BY NothingAboveRoot
<1>2. k \in Slots /\ Child(Above(v, n), k) = Above(v, n - 1)
  BY <1>1, IndexesMakeAddress
<1>3. EntryIn(T, t, v, n) = T[t][k]
  BY DEF EntryIn
<1> HIDE DEF k
<1> QED
  BY <1>1, <1>2, <1>3, Zenon DEF Tree

\* On the lowest level it ends at the page of the address.
LEMMA WalkEndsAtPage ==
  ASSUME NEW T, Contents(T), NEW root, NEW lev, NEW above, Tree(T, root, lev, above),
         NEW v \in VirtualPages, NEW t \in DOMAIN T,
         lev[t] = 1, above[t] = Above(v, 1), EntryIn(T, t, v, 1) # Absent
  PROVE  EntryIn(T, t, v, 1) = v
<1> DEFINE k == PageMapIndex(v, 1)
<1>1. v \in Nat /\ 1 \in 1 .. 4
  BY NothingAboveRoot
<1>2. k \in Slots /\ Child(Above(v, 1), k) = v
  BY <1>1, IndexesMakeAddress
<1>3. EntryIn(T, t, v, 1) = T[t][k]
  BY DEF EntryIn
<1> HIDE DEF k
<1> QED
  BY <1>2, <1>3, Zenon DEF Tree

LEMMA NoEntryOfAbsent ==
  ASSUME NEW T, Contents(T), NEW v, NEW n
  PROVE  Absent \notin DOMAIN T /\ EntryIn(T, Absent, v, n) = Absent
BY DEF Contents, EntryIn, Absent

\* Every table a walk reaches stands for the address, at the walk's level.
LEMMA ReachedFollowsTree ==
  ASSUME NEW T, Contents(T), NEW root, NEW lev, NEW above, Tree(T, root, lev, above),
         NEW v \in VirtualPages, root \in DOMAIN T
  PROVE  \A n \in 1 .. 4 :
           \/ ReachedIn(T, root, v, n) = Absent
           \/ /\ ReachedIn(T, root, v, n) \in DOMAIN T
              /\ lev[ReachedIn(T, root, v, n)] = n
              /\ above[ReachedIn(T, root, v, n)] = Above(v, n)
<1> DEFINE R(n) == ReachedIn(T, root, v, n)
           Good(n) == R(n) \in DOMAIN T /\ lev[R(n)] = n /\ above[R(n)] = Above(v, n)
<1>1. Good(4)
  BY NothingAboveRoot DEF ReachedIn, Tree
<1>2. /\ R(3) = EntryIn(T, R(4), v, 4)
      /\ R(2) = EntryIn(T, R(3), v, 3)
      /\ R(1) = EntryIn(T, R(2), v, 2)
  BY DEF ReachedIn
<1>3. /\ 4 \in 2 .. 4 /\ 3 \in 2 .. 4 /\ 2 \in 2 .. 4
      /\ 4 - 1 = 3 /\ 3 - 1 = 2 /\ 2 - 1 = 1
  OBVIOUS
<1> HIDE DEF R
<1>4. R(3) = Absent \/ Good(3)
  BY <1>1, <1>2, <1>3, WalkFollowsTree
<1>5. R(2) = Absent \/ Good(2)
  BY <1>2, <1>3, <1>4, WalkFollowsTree, NoEntryOfAbsent
<1>6. R(1) = Absent \/ Good(1)
  BY <1>2, <1>3, <1>5, WalkFollowsTree, NoEntryOfAbsent
<1>7. \A n \in 1 .. 4 : n = 1 \/ n = 2 \/ n = 3 \/ n = 4
  OBVIOUS
<1> QED
  BY <1>1, <1>4, <1>5, <1>6, <1>7, Zenon DEF R

\* What the tables translate, they translate to itself.
LEMMA TreeIsIdentity ==
  ASSUME NEW T, Contents(T), NEW root, NEW lev, NEW above, Tree(T, root, lev, above),
         NEW v \in VirtualPages, TranslateIn(T, root, v) # Absent
  PROVE  TranslateIn(T, root, v) = v
<1> DEFINE t == ReachedIn(T, root, v, 1)
<1>1. TranslateIn(T, root, v) = EntryIn(T, t, v, 1)
  BY DEF TranslateIn
<1>2. t # Absent
  BY <1>1, NoEntryOfAbsent
<1>3. root \in DOMAIN T
  <2>1. SUFFICES ASSUME root \notin DOMAIN T PROVE FALSE
    OBVIOUS
  <2>2. EntryIn(T, root, v, 4) = Absent
    BY <2>1 DEF EntryIn
  <2>3. t = Absent
    BY <2>2, NoEntryOfAbsent DEF ReachedIn
  <2> QED
    BY <1>2, <2>3
<1>4. t \in DOMAIN T /\ lev[t] = 1 /\ above[t] = Above(v, 1)
  <2>1. 1 \in 1 .. 4
    OBVIOUS
  <2> QED
    BY <1>2, <1>3, <2>1, ReachedFollowsTree
<1> HIDE DEF t
<1> QED
  BY <1>1, <1>4, WalkEndsAtPage

-----------------------------------------------------------------------------
(***************************************************************************)
(* What the two changes of mapMemory do to a tree.                         *)
(***************************************************************************)

\* A fresh table, linked from an empty entry above the lowest level.
Linked(T, t, k, p) ==
  [u \in DOMAIN T \cup {p} |->
     IF u = p THEN EmptyTable
     ELSE IF u = t THEN [T[u] EXCEPT ![k] = p] ELSE T[u]]

LEMMA LinkedContents ==
  ASSUME NEW T, Contents(T), NEW t \in DOMAIN T, NEW k \in Slots,
         NEW p \in Nat, p \notin DOMAIN T
  PROVE  Contents(Linked(T, t, k, p))
<1> DEFINE L == Linked(T, t, k, p)
<1>1. DOMAIN L = DOMAIN T \cup {p} /\ L[p] = EmptyTable
  BY DEF Linked
<1>2. ASSUME NEW u \in DOMAIN T
      PROVE  L[u] \in [Slots -> Nat \cup {Absent}]
  <2>1. L[u] = IF u = t THEN [T[u] EXCEPT ![k] = p] ELSE T[u]
    BY DEF Linked
  <2>2. T[u] \in [Slots -> Nat \cup {Absent}]
    BY DEF Contents
  <2> HIDE DEF L
  <2> QED
    BY <2>1, <2>2
<1>3. L[p] \in [Slots -> Nat \cup {Absent}]
  BY <1>1 DEF EmptyTable
<1>4. L = [u \in DOMAIN L |-> L[u]]
  BY DEF Linked
<1> HIDE DEF L
<1>5. Contents(L)
  BY <1>1, <1>2, <1>3, <1>4 DEF Contents
<1> QED
  BY <1>5 DEF L

\* It stands for the addresses of the entry, a level below.
LEMMA LinkedTree ==
  ASSUME NEW T, Contents(T), NEW root \in DOMAIN T, NEW lev, NEW above,
         Tree(T, root, lev, above),
         NEW t \in DOMAIN T, lev[t] # 1, NEW k \in Slots, T[t][k] = Absent,
         NEW p \in Nat, p \notin DOMAIN T
  PROVE  Tree(Linked(T, t, k, p), root,
              [u \in DOMAIN T \cup {p} |-> IF u = p THEN lev[t] - 1 ELSE lev[u]],
              [u \in DOMAIN T \cup {p} |-> IF u = p THEN Child(above[t], k) ELSE above[u]])
<1> DEFINE L == Linked(T, t, k, p)
           lev2 == [u \in DOMAIN T \cup {p} |-> IF u = p THEN lev[t] - 1 ELSE lev[u]]
           above2 == [u \in DOMAIN T \cup {p} |->
                        IF u = p THEN Child(above[t], k) ELSE above[u]]
<1>1. /\ DOMAIN L = DOMAIN T \cup {p} /\ L[p] = EmptyTable
      /\ L[t][k] = p
      /\ \A u \in DOMAIN T, j \in Slots : u # t \/ j # k => L[u][j] = T[u][j]
  <2>1. DOMAIN L = DOMAIN T \cup {p} /\ L[p] = EmptyTable
    BY DEF Linked
  <2>2. \A u \in DOMAIN T : L[u] = IF u = t THEN [T[u] EXCEPT ![k] = p] ELSE T[u]
    BY DEF Linked
  <2>3. \A u \in DOMAIN T : T[u] \in [Slots -> Nat \cup {Absent}]
    BY DEF Contents
  <2>4. Contents(L)
    BY LinkedContents, Zenon
  <2> HIDE DEF L
  <2>5. L[t][k] = p
    BY <2>2, <2>3
  <2>6. \A u \in DOMAIN T, j \in Slots : u # t \/ j # k => L[u][j] = T[u][j]
    BY <2>2, <2>3
  <2> QED
    BY <2>1, <2>4, <2>5, <2>6
<1>2. /\ lev[t] \in 2 .. 4 /\ lev[t] - 1 \in 1 .. 4
      /\ lev \in [DOMAIN T -> 1 .. 4] /\ above \in [DOMAIN T -> Nat]
  BY DEF Tree
<1>3. Child(above[t], k) \in Nat
  <2>1. above[t] \in Nat /\ k \in Nat /\ Fanout \in Nat
    BY <1>2, FanoutType DEF Slots
  <2>2. \A x, y \in Nat : x * y \in Nat
    OBVIOUS
  <2>3. Fanout * above[t] \in Nat
    BY <2>1, <2>2
  <2> QED
    BY <2>1, <2>3 DEF Child
<1>4. lev2[p] = lev[t] - 1 /\ above2[p] = Child(above[t], k)
  OBVIOUS
<1>5. \A u \in DOMAIN T : lev2[u] = lev[u] /\ above2[u] = above[u]
  OBVIOUS
<1>6. lev2 \in [DOMAIN L -> 1 .. 4] /\ above2 \in [DOMAIN L -> Nat]
  <2>1. lev2 \in [DOMAIN T \cup {p} -> 1 .. 4]
    BY <1>2
  <2>2. above2 \in [DOMAIN T \cup {p} -> Nat]
    BY <1>2, <1>3
  <2> QED
    BY <1>1, <2>1, <2>2
<1> HIDE DEF L, lev2, above2
<1>7. root \in DOMAIN L => lev2[root] = 4 /\ above2[root] = 0
  BY <1>5 DEF Tree
<1>8. ASSUME NEW u \in DOMAIN L, NEW j \in Slots, L[u][j] # Absent
      PROVE  /\ lev2[u] = 1 => L[u][j] = Child(above2[u], j)
             /\ lev2[u] # 1 => /\ L[u][j] \in DOMAIN L
                               /\ lev2[L[u][j]] = lev2[u] - 1
                               /\ above2[L[u][j]] = Child(above2[u], j)
  <2>1. u \in DOMAIN T
    BY <1>1, <1>8 DEF EmptyTable
  <2>2. CASE u = t /\ j = k
    <3>1. L[u][j] = p
      BY <1>1, <2>1, <2>2
    <3>2. lev2[u] = lev[t] /\ above2[u] = above[t]
      BY <1>5, <2>2
    <3> QED
      BY <1>1, <1>4, <2>2, <3>1, <3>2, Zenon
  <2>3. CASE ~(u = t /\ j = k)
    <3>1. L[u][j] = T[u][j] /\ T[u][j] # Absent
      BY <1>1, <1>8, <2>1, <2>3
    <3>2. /\ lev[u] = 1 => T[u][j] = Child(above[u], j)
          /\ lev[u] # 1 => /\ T[u][j] \in DOMAIN T
                           /\ lev[T[u][j]] = lev[u] - 1
                           /\ above[T[u][j]] = Child(above[u], j)
      BY <2>1, <3>1, Zenon DEF Tree
    <3> QED
      BY <1>1, <1>5, <2>1, <3>1, <3>2, Zenon
  <2> QED
    BY <2>2, <2>3
<1>9. Tree(L, root, lev2, above2)
  BY <1>6, <1>7, <1>8 DEF Tree
<1> QED
  BY <1>9 DEF L, lev2, above2

\* It changes no translation: where there was no entry there is an empty table.
LEMMA LinkedTranslates ==
  ASSUME NEW T, Contents(T), NEW root \in DOMAIN T, NEW lev, NEW above,
         Tree(T, root, lev, above),
         NEW t \in DOMAIN T, lev[t] # 1, NEW k \in Slots, T[t][k] = Absent,
         NEW p \in Nat, p \notin DOMAIN T, NEW v \in VirtualPages
  PROVE  /\ TranslateIn(Linked(T, t, k, p), root, v) = TranslateIn(T, root, v)
         /\ \A n \in 1 .. 4 : ReachedIn(T, root, v, n) # Absent =>
              ReachedIn(Linked(T, t, k, p), root, v, n) = ReachedIn(T, root, v, n)
<1> DEFINE L == Linked(T, t, k, p)
           R(n) == ReachedIn(T, root, v, n)
           S(n) == ReachedIn(L, root, v, n)
           \* Where the walk of the new tables differs, it is in the new table
           \* or has just left it, and the walk of the old ones had ended.
           Same(n) == S(n) = R(n) \/ (R(n) = Absent /\ S(n) = p)
<1>1. /\ DOMAIN L = DOMAIN T \cup {p} /\ L[p] = EmptyTable
      /\ L[t][k] = p
      /\ \A u \in DOMAIN T, j \in Slots : u # t \/ j # k => L[u][j] = T[u][j]
      /\ Contents(L)
  <2>1. DOMAIN L = DOMAIN T \cup {p} /\ L[p] = EmptyTable
    BY DEF Linked
  <2>2. \A u \in DOMAIN T : L[u] = IF u = t THEN [T[u] EXCEPT ![k] = p] ELSE T[u]
    BY DEF Linked
  <2>3. \A u \in DOMAIN T : T[u] \in [Slots -> Nat \cup {Absent}]
    BY DEF Contents
  <2>4. Contents(L)
    BY LinkedContents, Zenon
  <2> HIDE DEF L
  <2>5. L[t][k] = p
    BY <2>2, <2>3
  <2>6. \A u \in DOMAIN T, j \in Slots : u # t \/ j # k => L[u][j] = T[u][j]
    BY <2>2, <2>3
  <2> QED
    BY <2>1, <2>4, <2>5, <2>6
<1>2. p # Absent
  BY DEF Absent
<1>3. \A n \in 1 .. 4 : PageMapIndex(v, n) \in Slots
  BY NothingAboveRoot, IndexesMakeAddress
<1> HIDE DEF L
<1>4. ASSUME NEW u \in DOMAIN T, NEW n \in 1 .. 4
      PROVE  EntryIn(L, u, v, n) = EntryIn(T, u, v, n)
               \/ (EntryIn(T, u, v, n) = Absent /\ EntryIn(L, u, v, n) = p /\ u = t)
  <2> DEFINE j == PageMapIndex(v, n)
  <2>1. EntryIn(L, u, v, n) = L[u][j] /\ EntryIn(T, u, v, n) = T[u][j]
    BY <1>1 DEF EntryIn
  <2>2. j \in Slots
    BY <1>3
  <2> HIDE DEF j
  <2> QED
    BY <1>1, <2>1, <2>2, Zenon
<1>5. ASSUME NEW n \in 1 .. 4
      PROVE  EntryIn(L, p, v, n) = Absent
  BY <1>1, <1>3 DEF EntryIn, EmptyTable
<1>6. ASSUME NEW n \in 1 .. 4
      PROVE  EntryIn(L, Absent, v, n) = Absent /\ EntryIn(T, Absent, v, n) = Absent
  BY <1>1, NoEntryOfAbsent
<1>7. \A n \in 1 .. 4 : R(n) = Absent \/ (R(n) \in DOMAIN T /\ lev[R(n)] = n)
  BY ReachedFollowsTree
<1>8. /\ R(4) = root /\ S(4) = root
      /\ R(3) = EntryIn(T, R(4), v, 4) /\ S(3) = EntryIn(L, S(4), v, 4)
      /\ R(2) = EntryIn(T, R(3), v, 3) /\ S(2) = EntryIn(L, S(3), v, 3)
      /\ R(1) = EntryIn(T, R(2), v, 2) /\ S(1) = EntryIn(L, S(2), v, 2)
      /\ TranslateIn(T, root, v) = EntryIn(T, R(1), v, 1)
      /\ TranslateIn(L, root, v) = EntryIn(L, S(1), v, 1)
  BY DEF ReachedIn, TranslateIn
<1>9. 4 \in 1 .. 4 /\ 3 \in 1 .. 4 /\ 2 \in 1 .. 4 /\ 1 \in 1 .. 4
  OBVIOUS
<1> HIDE DEF R, S
<1>10. Same(3)
  BY <1>4, <1>8, <1>9
<1>11. Same(2)
  <2>1. CASE R(3) = Absent
    BY <1>5, <1>6, <1>8, <1>9, <1>10, <2>1, Zenon
  <2>2. CASE R(3) # Absent
    BY <1>4, <1>7, <1>8, <1>9, <1>10, <2>2
  <2> QED
    BY <2>1, <2>2
<1>12. Same(1)
  <2>1. CASE R(2) = Absent
    BY <1>5, <1>6, <1>8, <1>9, <1>11, <2>1, Zenon
  <2>2. CASE R(2) # Absent
    BY <1>4, <1>7, <1>8, <1>9, <1>11, <2>2
  <2> QED
    BY <2>1, <2>2
<1>13. TranslateIn(L, root, v) = TranslateIn(T, root, v)
  <2>1. CASE S(1) = R(1) /\ R(1) = Absent
    BY <1>6, <1>8, <1>9, <2>1
  <2>2. CASE S(1) = R(1) /\ R(1) # Absent
    <3>1. R(1) \in DOMAIN T /\ R(1) # t
      BY <1>7, <1>9, <2>2
    <3> QED
      BY <1>4, <1>8, <1>9, <2>2, <3>1
  <2>3. CASE R(1) = Absent /\ S(1) = p
    BY <1>5, <1>6, <1>8, <1>9, <2>3
  <2> QED
    BY <1>12, <2>1, <2>2, <2>3
<1>14. \A n \in 1 .. 4 : n = 1 \/ n = 2 \/ n = 3 \/ n = 4
  OBVIOUS
<1>15. \A n \in 1 .. 4 : R(n) # Absent => S(n) = R(n)
  BY <1>8, <1>10, <1>11, <1>12, <1>14, Zenon
<1> QED
  BY <1>13, <1>15 DEF L, R, S

\* An entry of a lowest table set to the page it stands for leaves a tree.
LEMMA SetContents ==
  ASSUME NEW T, Contents(T), NEW t \in DOMAIN T, NEW k \in Slots, NEW a \in Nat
  PROVE  /\ Contents(WithEntry(T, t, k, a))
         /\ DOMAIN WithEntry(T, t, k, a) = DOMAIN T
         /\ \A u \in DOMAIN T :
              WithEntry(T, t, k, a)[u] = IF u = t THEN [T[u] EXCEPT ![k] = a] ELSE T[u]
<1> DEFINE W == WithEntry(T, t, k, a)
<1>1. DOMAIN W = DOMAIN T /\ W = [u \in DOMAIN W |-> W[u]]
  BY DEF WithEntry
<1>2. \A u \in DOMAIN T : W[u] = IF u = t THEN [T[u] EXCEPT ![k] = a] ELSE T[u]
  BY DEF WithEntry
<1>3. \A u \in DOMAIN T : T[u] \in [Slots -> Nat \cup {Absent}]
  BY DEF Contents
<1> HIDE DEF W
<1>4. \A u \in DOMAIN T : W[u] \in [Slots -> Nat \cup {Absent}]
  BY <1>2, <1>3
<1>5. Contents(W)
  BY <1>1, <1>4 DEF Contents
<1> QED
  BY <1>1, <1>2, <1>5 DEF W

LEMMA SetTree ==
  ASSUME NEW T, Contents(T), NEW root, NEW lev, NEW above, Tree(T, root, lev, above),
         NEW t \in DOMAIN T, lev[t] = 1, NEW k \in Slots,
         NEW a \in Nat, a = Child(above[t], k)
  PROVE  Tree(WithEntry(T, t, k, a), root, lev, above)
<1> DEFINE W == WithEntry(T, t, k, a)
<1>1. DOMAIN W = DOMAIN T
  BY SetContents
<1>2. \A u \in DOMAIN T : W[u] = IF u = t THEN [T[u] EXCEPT ![k] = a] ELSE T[u]
  BY SetContents
<1>3. \A u \in DOMAIN T : T[u] \in [Slots -> Nat \cup {Absent}]
  BY DEF Contents
<1> HIDE DEF W
<1>4. /\ W[t][k] = a
      /\ \A u \in DOMAIN T, j \in Slots : u # t \/ j # k => W[u][j] = T[u][j]
  BY <1>2, <1>3
<1>5. ASSUME NEW u \in DOMAIN W, NEW j \in Slots, W[u][j] # Absent
      PROVE  /\ lev[u] = 1 => W[u][j] = Child(above[u], j)
             /\ lev[u] # 1 => /\ W[u][j] \in DOMAIN W
                              /\ lev[W[u][j]] = lev[u] - 1
                              /\ above[W[u][j]] = Child(above[u], j)
  <2>1. CASE u = t /\ j = k
    BY <1>4, <2>1
  <2>2. CASE ~(u = t /\ j = k)
    <3>1. W[u][j] = T[u][j] /\ u \in DOMAIN T /\ T[u][j] # Absent
      BY <1>1, <1>4, <1>5, <2>2
    <3>2. /\ lev[u] = 1 => T[u][j] = Child(above[u], j)
          /\ lev[u] # 1 => /\ T[u][j] \in DOMAIN T
                           /\ lev[T[u][j]] = lev[u] - 1
                           /\ above[T[u][j]] = Child(above[u], j)
      BY <3>1, Zenon DEF Tree
    <3> QED
      BY <1>1, <3>1, <3>2, Zenon
  <2> QED
    BY <2>1, <2>2
<1>6. /\ lev \in [DOMAIN W -> 1 .. 4] /\ above \in [DOMAIN W -> Nat]
      /\ root \in DOMAIN W => lev[root] = 4 /\ above[root] = 0
  BY <1>1 DEF Tree
<1>7. Tree(W, root, lev, above)
  BY <1>5, <1>6 DEF Tree
<1> QED
  BY <1>7 DEF W

\* It maps that page to itself, and disturbs no other page and no walk.
LEMMA SetTranslates ==
  ASSUME NEW T, Contents(T), NEW root \in DOMAIN T, NEW lev, NEW above,
         Tree(T, root, lev, above),
         NEW t \in DOMAIN T, lev[t] = 1,
         NEW a \in VirtualPages, a \in Nat, above[t] = Above(a, 1),
         t = ReachedIn(T, root, a, 1)
  PROVE  /\ TranslateIn(WithEntry(T, t, PageMapIndex(a, 1), a), root, a) = a
         /\ \A v \in VirtualPages :
              v # a => TranslateIn(WithEntry(T, t, PageMapIndex(a, 1), a), root, v)
                         = TranslateIn(T, root, v)
<1> DEFINE k == PageMapIndex(a, 1)
           W == WithEntry(T, t, k, a)
<1>1. k \in Slots /\ a = Child(above[t], k)
  <2>1. 1 \in 1 .. 4
    OBVIOUS
  <2> QED
    BY <2>1, IndexesMakeAddress
<1> HIDE DEF k
<1>2. Tree(W, root, lev, above) /\ Contents(W)
  BY <1>1, SetTree, SetContents, Zenon
<1>3. DOMAIN W = DOMAIN T
  BY <1>1, SetContents
<1>4. \A u \in DOMAIN T : W[u] = IF u = t THEN [T[u] EXCEPT ![k] = a] ELSE T[u]
  BY <1>1, SetContents
<1>5. T[t] \in [Slots -> Nat \cup {Absent}]
  BY DEF Contents
<1>6. a # Absent
  BY DEF Absent
<1> HIDE DEF W
<1>7. ASSUME NEW u, NEW n \in 2 .. 4, NEW v \in VirtualPages,
             u \in DOMAIN T => lev[u] = n
      PROVE  EntryIn(W, u, v, n) = EntryIn(T, u, v, n)
  <2>1. u \in DOMAIN T => u # t
    BY <1>7
  <2> QED
    BY <1>3, <1>4, <2>1 DEF EntryIn
<1>8. ASSUME NEW v \in VirtualPages
      PROVE  ReachedIn(W, root, v, 1) = ReachedIn(T, root, v, 1)
  <2> DEFINE R(n) == ReachedIn(T, root, v, n)
             S(n) == ReachedIn(W, root, v, n)
  <2>1. \A n \in 1 .. 4 : R(n) \in DOMAIN T => lev[R(n)] = n
    BY ReachedFollowsTree, NoEntryOfAbsent
  <2>2. /\ R(4) = root /\ S(4) = root
        /\ R(3) = EntryIn(T, R(4), v, 4) /\ S(3) = EntryIn(W, S(4), v, 4)
        /\ R(2) = EntryIn(T, R(3), v, 3) /\ S(2) = EntryIn(W, S(3), v, 3)
        /\ R(1) = EntryIn(T, R(2), v, 2) /\ S(1) = EntryIn(W, S(2), v, 2)
    BY DEF ReachedIn
  <2>3. /\ 4 \in 1 .. 4 /\ 3 \in 1 .. 4 /\ 2 \in 1 .. 4
        /\ 4 \in 2 .. 4 /\ 3 \in 2 .. 4 /\ 2 \in 2 .. 4
    OBVIOUS
  <2> HIDE DEF R, S
  <2>4. S(3) = R(3)
    BY <1>7, <2>1, <2>2, <2>3
  <2>5. S(2) = R(2)
    BY <1>7, <2>1, <2>2, <2>3, <2>4
  <2>6. S(1) = R(1)
    BY <1>7, <2>1, <2>2, <2>3, <2>5
  <2> QED
    BY <2>6 DEF R, S
<1>9. TranslateIn(W, root, a) = a
  <2>1. TranslateIn(W, root, a) = EntryIn(W, t, a, 1)
    BY <1>8 DEF TranslateIn
  <2>2. EntryIn(W, t, a, 1) = W[t][k]
    BY <1>3 DEF EntryIn, k
  <2>3. W[t][k] = a
    BY <1>1, <1>4, <1>5
  <2> QED
    BY <2>1, <2>2, <2>3
<1>10. ASSUME NEW v \in VirtualPages, v # a
       PROVE  TranslateIn(W, root, v) = TranslateIn(T, root, v)
  <2> DEFINE u == ReachedIn(T, root, v, 1)
             j == PageMapIndex(v, 1)
  <2>1. TranslateIn(W, root, v) = EntryIn(W, u, v, 1)
    BY <1>8 DEF TranslateIn
  <2>2. TranslateIn(T, root, v) = EntryIn(T, u, v, 1)
    BY DEF TranslateIn
  <2>3. CASE u \notin DOMAIN T
    BY <1>3, <2>1, <2>2, <2>3 DEF EntryIn
  <2>4. CASE u \in DOMAIN T
    <3>1. TranslateIn(W, root, v) = W[u][j] /\ TranslateIn(T, root, v) = T[u][j]
      BY <1>3, <2>1, <2>2, <2>4 DEF EntryIn
    <3>2. j \in Slots
      BY NothingAboveRoot, IndexesMakeAddress
    <3>3. ~(u = t /\ j = k)
      <4>1. SUFFICES ASSUME u = t, j = k PROVE FALSE
        OBVIOUS
      <4>2. TranslateIn(W, root, v) = a
        BY <1>1, <1>4, <1>5, <3>1, <4>1
      <4>3. TranslateIn(W, root, v) = v
        BY <1>2, <1>6, <4>2, TreeIsIdentity
      <4> QED
        BY <1>10, <4>2, <4>3
    <3> HIDE DEF u, j
    <3>4. W[u][j] = T[u][j]
      BY <1>1, <1>4, <1>5, <2>4, <3>2, <3>3
    <3> QED
      BY <3>1, <3>4
  <2> QED
    BY <2>3, <2>4
<1> QED
  BY <1>9, <1>10 DEF W, k

-----------------------------------------------------------------------------
(***************************************************************************)
(* The pages to map.                                                       *)
(***************************************************************************)

\* Rounding up: at least one for something, and one more for a page more.
LEMMA CeilingRounds ==
  ASSUME NEW m \in Nat, m > 0, NEW n \in Nat, n > 0
  PROVE  /\ Ceiling(n, m) \in Nat /\ Ceiling(n + m, m) \in Nat
         /\ Ceiling(n, m) <= Ceiling(n + m, m) /\ Ceiling(n + m, m) > 0
<1> DEFINE x == n + m - 1
           y == n + m + m - 1
           p == x \div m
           q == y \div m
<1>1. x \in Nat /\ y \in Nat /\ y = x + m /\ x >= m
  OBVIOUS
<1>2. Ceiling(n, m) = p /\ Ceiling(n + m, m) = q
  BY DEF Ceiling
<1> HIDE DEF x, y
<1>3. p \in Nat /\ (x % m) \in 0 .. (m - 1) /\ m * p + (x % m) = x
  BY <1>1, DivideAndPutBack
<1>4. q \in Nat /\ (y % m) \in 0 .. (m - 1) /\ m * q + (y % m) = y
  BY <1>1, DivideAndPutBack
<1> HIDE DEF p, q
<1>5. m * q > m * p
  <2> DEFINE mp == m * p
             mq == m * q
             r == x % m
             s == y % m
  <2>1. mp \in Int /\ mq \in Int
    BY <1>3, <1>4
  <2>2. r \in 0 .. (m - 1) /\ s \in 0 .. (m - 1) /\ mp + r = x /\ mq + s = y
    BY <1>3, <1>4
  <2> HIDE DEF mp, mq, r, s
  <2>3. mq > mp
    BY <1>1, <2>1, <2>2
  <2> QED
    BY <2>3 DEF mp, mq
<1>6. p < q
  BY <1>3, <1>4, <1>5
<1> QED
  BY <1>2, <1>3, <1>4, <1>6

\* The assumptions on one map and on one frame buffer.
LEMMA MapFacts ==
  ASSUME NEW map \in MemoryMaps
  PROVE  /\ TotalPages(map) \in Nat /\ TotalPages(map) > 0
         /\ LowPages <= TotalPages(map) /\ LowPages \in Nat
         /\ Pages(0, TotalPages(map)) \subseteq VirtualPages
         /\ KernelImage \subseteq Pages(0, LowPages)
         /\ BitMapPages(map) \cap KernelImage = {}
<1> DEFINE total == TotalPages(map)
<1>1. total \in Nat
  BY TotalPagesType
<1>2. /\ LowPages <= total /\ Pages(0, total) \subseteq VirtualPages
      /\ KernelImage \subseteq Pages(0, LowPages)
      /\ BitMapPages(map) \cap KernelImage = {}
  BY KernelAssumption, Zenon
<1>3. LowPages \in Nat /\ LowPages # 0
  BY ParametersAssumption, Zenon
<1> HIDE DEF total
<1>4. total > 0
  BY <1>1, <1>2, <1>3
<1> QED
  BY <1>1, <1>2, <1>3, <1>4 DEF total

LEMMA FrameBufferFacts ==
  ASSUME NEW fb \in FrameBuffers
  PROVE  /\ fb.BaseAddress \in Nat /\ fb.BufferSize \in Nat /\ fb.BufferSize > 0
         /\ FrameBufferMapping(fb) \subseteq VirtualPages
         /\ \A map \in MemoryMaps : FrameBufferPages(fb) \cap ConventionalPages(map) = {}
         /\ PageSize \in Nat /\ PageSize > 0
<1>1. /\ fb \in [BaseAddress : Nat, BufferSize : Nat \ {0}]
      /\ FrameBufferMapping(fb) \subseteq VirtualPages
      /\ \A map \in MemoryMaps : FrameBufferPages(fb) \cap ConventionalPages(map) = {}
  BY FrameBuffersAssumption, Zenon
<1>2. fb.BaseAddress \in Nat /\ fb.BufferSize \in Nat /\ fb.BufferSize > 0
  BY <1>1
<1>3. PageSize \in Nat /\ PageSize > 0
  <2>1. PageSize \in Nat \ {0}
    BY ParametersAssumption, Zenon
  <2> QED
    BY <2>1
<1> QED
  BY <1>1, <1>2, <1>3

LEMMA PagesBelow ==
  ASSUME NEW n \in Nat, NEW m \in Nat, m <= n
  PROVE  /\ Pages(0, m) \subseteq Pages(0, n)
         /\ \A q \in Nat : q < m => q \in Pages(0, n)
BY DEF Pages

LEMMA PagesAreInterval ==
  ASSUME NEW a \in Nat, NEW n \in Nat, n > 0
  PROVE  \E b \in Nat : a <= b /\ Pages(a, n) = a .. b
<1>1. a + n - 1 \in Nat /\ a <= a + n - 1
  OBVIOUS
<1> QED
  BY <1>1, Zenon DEF Pages

\* What each loop maps is an interval of virtual pages, from where it starts.
LEMMA ToMapIsInterval ==
  ASSUME memMap \in MemoryMaps, frameBuffer \in FrameBuffers,
         NEW which \in {"memory", "frame buffer"}
  PROVE  /\ ToMap(which) \subseteq VirtualPages
         /\ \E a, b \in Nat :
              /\ a <= b /\ ToMap(which) = a .. b
              /\ a = IF which = "memory" THEN 0 ELSE frameBuffer.BaseAddress
<1>1. CASE which = "memory"
  <2> DEFINE total == TotalPages(memMap)
  <2>1. total \in Nat /\ total > 0 /\ Pages(0, total) \subseteq VirtualPages
    BY MapFacts
  <2>2. ToMap(which) = Pages(0, total)
    BY <1>1, Zenon DEF ToMap
  <2> HIDE DEF total
  <2>3. PICK b \in Nat : 0 <= b /\ Pages(0, total) = 0 .. b
    BY <2>1, PagesAreInterval
  <2> QED
    BY <1>1, <2>1, <2>2, <2>3, Zenon
<1>2. CASE which = "frame buffer"
  <2> DEFINE base == frameBuffer.BaseAddress
             count == Ceiling(frameBuffer.BufferSize + PageSize, PageSize)
  <2>1. /\ frameBuffer.BaseAddress \in Nat
        /\ frameBuffer.BufferSize \in Nat /\ frameBuffer.BufferSize > 0
        /\ FrameBufferMapping(frameBuffer) \subseteq VirtualPages
    BY FrameBufferFacts
  <2>2. count \in Nat /\ count > 0
    BY <2>1, FrameBufferFacts, CeilingRounds
  <2>3. ToMap(which) = FrameBufferMapping(frameBuffer)
    BY <1>2 DEF ToMap
  <2>4. FrameBufferMapping(frameBuffer) = Pages(base, count)
    BY DEF FrameBufferMapping
  <2> HIDE DEF count
  <2>6. PICK b \in Nat : base <= b /\ Pages(base, count) = base .. b
    BY <2>1, <2>2, PagesAreInterval
  <2>7. base = IF which = "memory" THEN 0 ELSE frameBuffer.BaseAddress
    BY <1>2
  <2> QED
    BY <2>1, <2>3, <2>4, <2>6, <2>7, Zenon
<1> QED
  BY <1>1, <1>2

\* Clearing and drawing touch only pages of the second loop.
LEMMA FrameBufferIsMapped ==
  ASSUME frameBuffer \in FrameBuffers
  PROVE  FrameBufferPages(frameBuffer) \subseteq FrameBufferMapping(frameBuffer)
<1> DEFINE c == Ceiling(frameBuffer.BufferSize, PageSize)
           d == Ceiling(frameBuffer.BufferSize + PageSize, PageSize)
<1>1. /\ frameBuffer.BaseAddress \in Nat
      /\ frameBuffer.BufferSize \in Nat /\ frameBuffer.BufferSize > 0
  BY FrameBufferFacts
<1>2. c \in Nat /\ d \in Nat /\ c <= d
  BY <1>1, FrameBufferFacts, CeilingRounds
<1>3. /\ FrameBufferPages(frameBuffer) = Pages(frameBuffer.BaseAddress, c)
      /\ FrameBufferMapping(frameBuffer) = Pages(frameBuffer.BaseAddress, d)
  BY DEF FrameBufferPages, FrameBufferMapping
<1> HIDE DEF c, d
<1> QED
  BY <1>1, <1>2, <1>3 DEF Pages

-----------------------------------------------------------------------------
(***************************************************************************)
(* The inductive invariant.                                                *)
(***************************************************************************)

Early == {"read memory map", "lock kernel", "request root"}
Mapping == {"walk", "lock frame buffer", "load cr3", "request idt", "running"}

\* Tables and descriptors are pages obtained, with a bit of their own.
Frames ==
  /\ \A t \in DOMAIN tables : t \in held /\ t < LastIndex(pfa)
  /\ idt # nullptr =>
       pc = "running" /\ idt \in held \ DOMAIN tables /\ idt < LastIndex(pfa)

Roots ==
  /\ pc # "read memory map" =>
       g_IsInitialized /\ LastIndex(pfa) <= TotalPages(memMap)
  /\ pc \in Early =>
       DOMAIN tables = {} /\ pageMapLevel4 = nullptr /\ loop = "memory"
  /\ pc \in Mapping => pageMapLevel4 \in DOMAIN tables

Shape == \E lev, above : Tree(tables, pageMapLevel4, lev, above)

\* mapMemory is where the walk of its page has come to.
Position ==
  pc = "walk" =>
    table \in DOMAIN tables /\ table = ReachedIn(tables, pageMapLevel4, page, level)

\* The pages of a set are mapped to themselves.
Covered(S) == \A v \in S : TranslateIn(tables, pageMapLevel4, v) = v

Progress ==
  /\ pc = "walk" =>
       page \in ToMap(loop) /\ Covered({v \in ToMap(loop) : v < page})
  /\ pc = "lock frame buffer" \/ (pc = "walk" /\ loop = "frame buffer") =>
       Covered(ToMap("memory"))
  /\ pc \in {"load cr3", "request idt", "running"} =>
       Covered(ToMap("memory")) /\ Covered(ToMap("frame buffer"))
  /\ pc = "faulted" => ~BitMapBelowTotal(memMap)

MemoryIInv ==
  /\ IInv /\ MemoryTypeOK
  /\ Frames /\ Roots /\ Shape /\ Position /\ Progress

LEMMA MemoryInitIInv == MemoryInit => MemoryIInv
<1> SUFFICES ASSUME MemoryInit PROVE MemoryIInv
  OBVIOUS
<1>1. /\ Init /\ frameBuffer \in FrameBuffers /\ pc = "read memory map"
      /\ loop = "memory" /\ page = 0 /\ level = 4 /\ table = nullptr
      /\ pageMapLevel4 = nullptr /\ idt = nullptr
      /\ tables = [t \in {} |-> EmptyTable]
  BY DEF MemoryInit
<1>2. IInv
  BY <1>1, InitIInv
<1>3. DOMAIN tables = {} /\ tables \in [DOMAIN tables -> [Slots -> Nat \cup {Absent}]]
  BY <1>1
<1>4. 0 \in Indexes
  <2>1. WellFormed(pfa) /\ Indexes = Accepted(pfa)
    BY <1>2, TypedIsWellFormed DEF IInv
  <2> QED
    BY <2>1, LastIndexType DEF Accepted, WellFormed
<1>5. MemoryTypeOK
  <2>1. TypeOK
    BY <1>2 DEF IInv
  <2>2. pc \in Location /\ loop \in {"memory", "frame buffer"}
    BY <1>1 DEF Location
  <2>a. 0 \in Nat /\ 4 \in 1 .. 4
    OBVIOUS
  <2>3. page \in Nat /\ level \in 1 .. 4
    BY <1>1, <2>a, Zenon
  <2>4. table \in DOMAIN tables \cup {nullptr} /\ pageMapLevel4 \in DOMAIN tables \cup {nullptr}
    BY <1>1
  <2>5. idt \in Indexes /\ DOMAIN tables \subseteq Indexes
    BY <1>1, <1>3, <1>4 DEF nullptr
  <2> QED
    BY <1>1, <1>3, <2>1, <2>2, <2>3, <2>4, <2>5 DEF MemoryTypeOK
<1>6. Frames /\ Roots /\ Position /\ Progress
  BY <1>1, <1>3 DEF Frames, Roots, Position, Progress, Mapping
<1>7. Tree(tables, pageMapLevel4, tables, tables)
  BY <1>1, <1>3 DEF Tree
<1>8. Shape
  BY <1>7 DEF Shape
<1> QED
  BY <1>2, <1>5, <1>6, <1>8 DEF MemoryIInv

\* The parts of the invariant that say what is mapped, in a walk.
LEMMA WalkFacts ==
  ASSUME MemoryIInv, pc = "walk"
  PROVE  /\ page \in VirtualPages /\ page \in Nat /\ page \in ToMap(loop)
         /\ loop \in {"memory", "frame buffer"}
         /\ pageMapLevel4 \in DOMAIN tables /\ table \in DOMAIN tables
         /\ Contents(tables)
         /\ table = ReachedIn(tables, pageMapLevel4, page, level)
         /\ level \in 1 .. 4
<1>1. /\ memMap \in MemoryMaps /\ frameBuffer \in FrameBuffers
      /\ loop \in {"memory", "frame buffer"} /\ page \in Nat /\ level \in 1 .. 4
      /\ DOMAIN tables \subseteq Indexes /\ Indexes \subseteq Nat
      /\ tables \in [DOMAIN tables -> [Slots -> Nat \cup {Absent}]]
  BY TypedIsWellFormed DEF MemoryIInv, MemoryTypeOK, TypeOK
<1>2. page \in ToMap(loop)
  BY DEF MemoryIInv, Progress
<1>3. page \in VirtualPages
  BY <1>1, <1>2, ToMapIsInterval
<1>4. pageMapLevel4 \in DOMAIN tables
  BY DEF MemoryIInv, Roots, Mapping
<1>5. table \in DOMAIN tables /\ table = ReachedIn(tables, pageMapLevel4, page, level)
  BY DEF MemoryIInv, Position
<1> QED
  BY <1>1, <1>2, <1>3, <1>4, <1>5 DEF Contents

\* A request that succeeds, as its callers see it.
LEMMA RequestAnswers ==
  ASSUME IInv, g_IsInitialized, RequestPage, answer' # nullptr
  PROVE  /\ IInv' /\ memMap' = memMap /\ g_IsInitialized'
         /\ LastIndex(pfa') = LastIndex(pfa) /\ Indexes' = Indexes
         /\ answer' \in Nat /\ answer' < LastIndex(pfa) /\ answer' \in Indexes
         /\ answer' \notin held /\ held' = held \cup {answer'}
<1>1. IInv' /\ memMap' = memMap /\ g_IsInitialized'
  BY RequestPageIInv DEF RequestPage
<1>2. /\ Found(pfa) # {} /\ pfa' = AfterRequest(pfa)
      /\ answer' = Lowest(Found(pfa)) /\ held' = held \cup {answer'}
  BY DEF RequestPage
<1>3. WellFormed(pfa) /\ Indexes = Accepted(pfa) /\ Indexes \subseteq Nat
  BY TypedIsWellFormed DEF IInv
<1>4. pfa'.size = pfa.size
  BY <1>2, <1>3, RequestEffect
<1>5. LastIndex(pfa') = LastIndex(pfa) /\ Indexes' = Indexes
  BY <1>4 DEF LastIndex, Indexes, Accepted
<1>6. LastIndex(pfa) \in Nat /\ pfa.lastRequested \in Nat
  BY <1>3, LastIndexType DEF WellFormed, AllocatorState
<1>7. Found(pfa) \subseteq Nat /\ \A p \in Found(pfa) : p < LastIndex(pfa)
  <2> DEFINE last == LastIndex(pfa)
             hint == pfa.lastRequested
  <2>1. last \in Nat /\ hint \in Nat
    BY <1>6
  <2>2. Found(pfa) \subseteq hint .. (last - 1)
    BY DEF Found
  <2> HIDE DEF last, hint
  <2>3. Found(pfa) \subseteq Nat /\ \A p \in Found(pfa) : p < last
    BY <2>1, <2>2
  <2> QED
    BY <2>3 DEF last
<1>8. Lowest(Found(pfa)) \in Found(pfa)
  BY <1>2, <1>7, LowestIsLeast
<1>9. Lowest(Found(pfa)) \in Accepted(pfa) \ pfa.bits
  BY <1>2, <1>3, FoundPage
<1>10. held \subseteq pfa.bits
  BY DEF IInv, TypeOK
<1> QED
  BY <1>1, <1>2, <1>3, <1>5, <1>7, <1>8, <1>9, <1>10

\* Locking takes pages and leaves the bitmap's size.
LEMMA LockKeeps ==
  ASSUME IInv, NEW pages, LockRange(pages)
  PROVE  /\ IInv' /\ memMap' = memMap /\ g_IsInitialized'
         /\ LastIndex(pfa') = LastIndex(pfa) /\ Indexes' = Indexes
         /\ held \subseteq held'
<1>1. IInv' /\ memMap' = memMap /\ g_IsInitialized' /\ held \subseteq held'
  BY LockRangeIInv DEF LockRange
<1>2. pfa' = lockPages(pfa, pages)
  BY DEF LockRange
<1>3. WellFormed(pfa)
  BY TypedIsWellFormed DEF IInv
<1>4. pfa'.size = pfa.size
  BY <1>2, <1>3, LockPagesEffect
<1> QED
  BY <1>1, <1>4 DEF LastIndex, Indexes, Accepted

-----------------------------------------------------------------------------
(***************************************************************************)
(* The steps.                                                              *)
(***************************************************************************)

\* Steps that leave the tables alone leave what they are and what they map.
LEMMA TablesUntouched ==
  ASSUME MemoryIInv, UNCHANGED <<tables, pageMapLevel4, frameBuffer, memMap>>
  PROVE  /\ Shape' /\ Contents(tables)
         /\ \A S : Covered(S) => (\A v \in S : TranslateIn(tables', pageMapLevel4', v) = v)
         /\ \A which \in {"memory", "frame buffer"} : ToMap(which)' = ToMap(which)
<1>1. Shape'
  BY DEF MemoryIInv, Shape
<1>2. Contents(tables)
  <2>1. /\ DOMAIN tables \subseteq Indexes /\ Indexes \subseteq Nat
        /\ tables \in [DOMAIN tables -> [Slots -> Nat \cup {Absent}]]
    BY TypedIsWellFormed DEF MemoryIInv, MemoryTypeOK
  <2> QED
    BY <2>1 DEF Contents
<1>3. \A S : Covered(S) => (\A v \in S : TranslateIn(tables', pageMapLevel4', v) = v)
  BY DEF Covered
<1>4. \A which \in {"memory", "frame buffer"} : ToMap(which)' = ToMap(which)
  BY DEF ToMap
<1> QED
  BY <1>1, <1>2, <1>3, <1>4

LEMMA ReadMapIInv == MemoryIInv /\ ReadMap => MemoryIInv'
<1> SUFFICES ASSUME MemoryIInv, ReadMap PROVE MemoryIInv'
  OBVIOUS
<1>1. /\ pc = "read memory map" /\ pc' = "lock kernel" /\ ReadEFIMemoryMap
      /\ UNCHANGED <<frameBuffer, loop, page, level, table, pageMapLevel4, tables, idt>>
  BY DEF ReadMap, walkVars
<1>2. IInv' /\ memMap' = memMap /\ g_IsInitialized'
  BY <1>1, ReadEFIMemoryMapIInv DEF ReadEFIMemoryMap, MemoryIInv
<1>a. LastIndex(pfa') <= TotalPages(memMap)
  <2>1. memMap \in MemoryMaps
    BY DEF MemoryIInv, MemoryTypeOK, TypeOK
  <2>2. /\ stray' \in SUBSET {BitMapBytes(memMap) * ByteBits}
        /\ pfa' = BootState(memMap, stray')
    BY <1>1 DEF ReadEFIMemoryMap
  <2>3. pfa'.size = BitMapBytes(memMap)
    BY <2>1, <2>2, BootEffect
  <2>4. LastIndex(pfa') = BitMapBytes(memMap) * ByteBits
    BY <2>3 DEF LastIndex
  <2> QED
    BY <2>1, <2>4, BitMapFits
<1>3. DOMAIN tables = {} /\ pageMapLevel4 = nullptr /\ idt = nullptr /\ loop = "memory"
  BY <1>1 DEF MemoryIInv, Roots, Early, Frames
<1>4. 0 \in Indexes'
  <2>1. WellFormed(pfa') /\ Indexes' = Accepted(pfa')
    <3>1. TypeOK'
      BY <1>2 DEF IInv
    <3> QED
      BY <3>1 DEF TypeOK, WellFormed, AllocatorState, Indexes, Accepted
  <2> QED
    BY <2>1, LastIndexType DEF Accepted, WellFormed
<1>5. MemoryTypeOK'
  <2>1. TypeOK' /\ pc' \in Location
    BY <1>1, <1>2 DEF IInv, Location
  <2>2. idt' \in Indexes' /\ DOMAIN tables' \subseteq Indexes'
    BY <1>1, <1>3, <1>4 DEF nullptr
  <2> QED
    BY <1>1, <2>1, <2>2 DEF MemoryIInv, MemoryTypeOK
<1>6. Frames' /\ Roots' /\ Position' /\ Progress'
  BY <1>1, <1>2, <1>a, <1>3 DEF Frames, Roots, Position, Progress, Mapping
<1>7. Shape'
  BY <1>1 DEF MemoryIInv, Shape
<1> QED
  BY <1>2, <1>5, <1>6, <1>7 DEF MemoryIInv

LEMMA LockKernelIInv == MemoryIInv /\ LockKernel => MemoryIInv'
<1> SUFFICES ASSUME MemoryIInv, LockKernel PROVE MemoryIInv'
  OBVIOUS
<1>1. /\ pc = "lock kernel" /\ pc' = "request root"
      /\ UNCHANGED <<frameBuffer, loop, page, level, table, pageMapLevel4, tables, idt>>
      /\ \E pages : LockRange(pages)
  BY DEF LockKernel, walkVars
<1>2. /\ IInv' /\ memMap' = memMap /\ g_IsInitialized' /\ Indexes' = Indexes
      /\ LastIndex(pfa') = LastIndex(pfa) /\ held \subseteq held'
      /\ LastIndex(pfa) <= TotalPages(memMap)
  BY <1>1, LockKeeps DEF MemoryIInv, Roots
<1>3. DOMAIN tables = {} /\ pageMapLevel4 = nullptr /\ idt = nullptr /\ loop = "memory"
  BY <1>1 DEF MemoryIInv, Roots, Early, Frames
<1>4. MemoryTypeOK'
  <2>1. TypeOK' /\ pc' \in Location
    BY <1>1, <1>2 DEF IInv, Location
  <2> QED
    BY <1>1, <1>2, <2>1 DEF MemoryIInv, MemoryTypeOK
<1>5. Frames' /\ Roots' /\ Position' /\ Progress'
  BY <1>1, <1>2, <1>3 DEF Frames, Roots, Position, Progress, Early, Mapping
<1>6. Shape'
  BY <1>1 DEF MemoryIInv, Shape
<1> QED
  BY <1>2, <1>4, <1>5, <1>6 DEF MemoryIInv

\* Where a request fails nothing is said any more of what is mapped.
LEMMA OverwriteIInv == MemoryIInv /\ Overwrite => MemoryIInv'
<1> SUFFICES ASSUME MemoryIInv, Overwrite PROVE MemoryIInv'
  OBVIOUS
<1>1. /\ pc \in {"request root", "walk", "request idt"} /\ pc' = "overwritten"
      /\ RequestPage /\ answer' = nullptr
      /\ UNCHANGED <<frameBuffer, loop, page, level, table, pageMapLevel4, tables, idt>>
  BY DEF Overwrite, walkVars
<1>2. IInv' /\ memMap' = memMap /\ g_IsInitialized'
  BY <1>1, RequestPageIInv DEF MemoryIInv, Roots, RequestPage
<1>3. idt = nullptr
  BY <1>1 DEF MemoryIInv, Frames
<1>4. pfa'.size = pfa.size /\ held \subseteq held'
  <2>1. WellFormed(pfa)
    BY TypedIsWellFormed DEF MemoryIInv, IInv
  <2>2. pfa' = AfterRequest(pfa) /\ held \subseteq held'
    BY <1>1 DEF RequestPage
  <2>3. CASE Found(pfa) = {}
    BY <2>1, <2>2, <2>3, RefusalEffect
  <2>4. CASE Found(pfa) # {}
    BY <2>1, <2>2, <2>4, RequestEffect
  <2> QED
    BY <2>2, <2>3, <2>4
<1>5. LastIndex(pfa') = LastIndex(pfa) /\ Indexes' = Indexes
  BY <1>4 DEF LastIndex, Indexes, Accepted
<1>6. MemoryTypeOK'
  <2>1. TypeOK' /\ pc' \in Location
    BY <1>1, <1>2 DEF IInv, Location
  <2> QED
    BY <1>1, <1>5, <2>1 DEF MemoryIInv, MemoryTypeOK
<1>7. Frames'
  BY <1>1, <1>3, <1>4, <1>5 DEF MemoryIInv, Frames
<1>8. Roots' /\ Position' /\ Progress'
  <2>1. LastIndex(pfa) <= TotalPages(memMap)
    BY <1>1 DEF MemoryIInv, Roots
  <2> QED
    BY <1>1, <1>2, <1>5, <2>1 DEF Roots, Position, Progress, Early, Mapping
<1>9. Shape'
  BY <1>1 DEF MemoryIInv, Shape
<1> QED
  BY <1>2, <1>6, <1>7, <1>8, <1>9 DEF MemoryIInv

\* The first table is a tree that translates nothing.
LEMMA RequestRootIInv == MemoryIInv /\ RequestRoot => MemoryIInv'
<1> SUFFICES ASSUME MemoryIInv, RequestRoot PROVE MemoryIInv'
  OBVIOUS
<1> DEFINE p == answer'
<1>1. /\ pc = "request root" /\ RequestPage /\ p # nullptr
      /\ pageMapLevel4' = p /\ tables' = Cleared(p)
      /\ pc' = "walk" /\ page' = 0 /\ level' = 4 /\ table' = p
      /\ frameBuffer' = frameBuffer /\ loop' = loop /\ idt' = idt
  BY DEF RequestRoot, Walk
<1>2. /\ IInv' /\ memMap' = memMap /\ g_IsInitialized'
      /\ LastIndex(pfa') = LastIndex(pfa) /\ Indexes' = Indexes
      /\ LastIndex(pfa) <= TotalPages(memMap)
      /\ p \in Nat /\ p < LastIndex(pfa) /\ p \in Indexes
      /\ held' = held \cup {p}
  BY <1>1, RequestAnswers DEF MemoryIInv, Roots
<1>3. DOMAIN tables = {} /\ loop = "memory" /\ idt = nullptr
  BY <1>1 DEF MemoryIInv, Roots, Early, Frames
<1> HIDE DEF p
<1>4. tables' = [t \in {p} |-> EmptyTable]
  BY <1>1, <1>3 DEF Cleared
<1>5. DOMAIN tables' = {p} /\ tables'[p] = EmptyTable
  BY <1>4
<1>6. tables' \in [DOMAIN tables' -> [Slots -> Nat \cup {Absent}]]
  <2>1. EmptyTable \in [Slots -> Nat \cup {Absent}]
    BY DEF EmptyTable
  <2> QED
    BY <1>4, <2>1
<1>7. MemoryTypeOK'
  <2>1. TypeOK' /\ pc' \in Location
    BY <1>1, <1>2 DEF IInv, Location
  <2>2. frameBuffer' \in FrameBuffers /\ loop' \in {"memory", "frame buffer"} /\ idt' \in Indexes'
    BY <1>1, <1>2 DEF MemoryIInv, MemoryTypeOK
  <2>a. 0 \in Nat /\ 4 \in 1 .. 4
    OBVIOUS
  <2>3. page' \in Nat /\ level' \in 1 .. 4
    BY <1>1, <2>a, Zenon
  <2>4. /\ table' \in DOMAIN tables' \cup {nullptr}
        /\ pageMapLevel4' \in DOMAIN tables' \cup {nullptr}
        /\ DOMAIN tables' \subseteq Indexes'
    BY <1>1, <1>2, <1>5
  <2> QED
    BY <1>6, <2>1, <2>2, <2>3, <2>4 DEF MemoryTypeOK
<1>8. Frames'
  BY <1>1, <1>2, <1>3, <1>5 DEF Frames
<1>9. Roots'
  BY <1>1, <1>2, <1>5 DEF Roots, Early, Mapping
<1>10. Shape'
  <2> DEFINE lev == [u \in {p} |-> 4]
             above == [u \in {p} |-> 0]
  <2>1. /\ lev \in [DOMAIN tables' -> 1 .. 4] /\ above \in [DOMAIN tables' -> Nat]
        /\ lev[p] = 4 /\ above[p] = 0
    BY <1>5
  <2>2. \A t \in DOMAIN tables', k \in Slots : tables'[t][k] = Absent
    BY <1>5 DEF EmptyTable
  <2> HIDE DEF lev, above
  <2>3. Tree(tables', p, lev, above)
    BY <2>1, <2>2 DEF Tree
  <2> QED
    BY <1>1, <2>3 DEF Shape
<1>11. Position'
  <2>1. ReachedIn(tables', p, page', 4) = p
    BY DEF ReachedIn
  <2> QED
    BY <1>1, <1>5, <2>1 DEF Position
<1>12. Progress'
  <2>1. memMap' \in MemoryMaps /\ frameBuffer' \in FrameBuffers
    BY <1>7 DEF MemoryTypeOK, TypeOK
  <2>2. ToMap("memory")' = ToMap("memory")
    BY <1>1, <1>2 DEF ToMap
  <2>3. PICK b \in Nat : ToMap("memory") = 0 .. b
    <3>1. memMap \in MemoryMaps /\ frameBuffer \in FrameBuffers
      BY <1>1, <1>2, <2>1
    <3> QED
      BY <3>1, ToMapIsInterval
  <2>4. 0 \in ToMap("memory") /\ {v \in ToMap("memory") : v < 0} = {}
    <3> DEFINE S == ToMap("memory")
    <3> HIDE DEF S
    <3>1. S = 0 .. b
      BY <2>3 DEF S
    <3>2. 0 \in S /\ {v \in S : v < 0} = {}
      BY <3>1
    <3> QED
      BY <3>2 DEF S
  <2> QED
    BY <1>1, <1>3, <2>2, <2>4 DEF Progress, Covered
<1> QED
  BY <1>2, <1>7, <1>8, <1>9, <1>10, <1>11, <1>12 DEF MemoryIInv

\* One level of a walk.
LEMMA ReachedStep ==
  ASSUME NEW T, NEW root, NEW v, NEW n \in 2 .. 4
  PROVE  ReachedIn(T, root, v, n - 1) = EntryIn(T, ReachedIn(T, root, v, n), v, n)
<1>1. \/ n = 2 /\ n - 1 = 1
      \/ n = 3 /\ n - 1 = 2
      \/ n = 4 /\ n - 1 = 3
  OBVIOUS
<1>2. CASE n = 2
  BY <1>1, <1>2 DEF ReachedIn
<1>3. CASE n = 3
  BY <1>1, <1>3 DEF ReachedIn
<1>4. CASE n = 4
  BY <1>1, <1>4 DEF ReachedIn
<1> QED
  BY <1>1, <1>2, <1>3, <1>4

LEMMA LevelBelow ==
  ASSUME NEW n \in 1 .. 4, n > 1
  PROVE  n \in 2 .. 4 /\ n - 1 \in 1 .. 4 /\ n # 1
OBVIOUS

LEMMA FollowEntryIInv == MemoryIInv /\ FollowEntry => MemoryIInv'
<1> SUFFICES ASSUME MemoryIInv, FollowEntry PROVE MemoryIInv'
  OBVIOUS
<1>1. /\ pc = "walk" /\ level > 1 /\ Entry(table, page, level) # Absent
      /\ table' = Entry(table, page, level) /\ level' = level - 1
      /\ UNCHANGED <<vars, frameBuffer, pc, loop, page, pageMapLevel4, tables, idt>>
  BY DEF FollowEntry
<1>2. /\ page \in VirtualPages /\ Contents(tables) /\ pageMapLevel4 \in DOMAIN tables
      /\ table = ReachedIn(tables, pageMapLevel4, page, level) /\ level \in 1 .. 4
  BY <1>1, WalkFacts
<1>3. level \in 2 .. 4 /\ level' \in 1 .. 4
  BY <1>1, <1>2
<1>4. table' = ReachedIn(tables, pageMapLevel4, page, level')
  <2>1. table' = EntryIn(tables, table, page, level)
    BY <1>1 DEF Entry, EntryIn
  <2> QED
    BY <1>1, <1>2, <1>3, <2>1, ReachedStep
<1>5. PICK lev, above : Tree(tables, pageMapLevel4, lev, above)
  BY DEF MemoryIInv, Shape
<1>6. table' # Absent
  BY <1>1
<1>7. table' \in DOMAIN tables
  BY <1>2, <1>3, <1>4, <1>5, <1>6, ReachedFollowsTree
<1>8. IInv'
  BY <1>1, StutterIInv DEF MemoryIInv
<1>9. MemoryTypeOK'
  <2>1. TypeOK' /\ Indexes' = Indexes
    BY <1>1, <1>8 DEF IInv, vars, Indexes, Accepted, LastIndex
  <2> QED
    BY <1>1, <1>3, <1>7, <2>1 DEF MemoryIInv, MemoryTypeOK
<1>10. Frames' /\ Roots' /\ Shape'
  BY <1>1 DEF MemoryIInv, Frames, Roots, Shape, vars
<1>11. Position'
  BY <1>1, <1>4, <1>7 DEF Position
<1>12. Progress'
  BY <1>1 DEF MemoryIInv, Progress, Covered, ToMap, vars
<1> QED
  BY <1>8, <1>9, <1>10, <1>11, <1>12 DEF MemoryIInv

\* A new table is linked and cleared, as one step.
LEMMA LinkIsLinked ==
  ASSUME NEW t \in DOMAIN tables, NEW k, NEW p, p \notin DOMAIN tables
  PROVE  WithEntry(Cleared(p), t, k, p) = Linked(tables, t, k, p)
<1> DEFINE C == Cleared(p)
           W == WithEntry(C, t, k, p)
           L == Linked(tables, t, k, p)
<1>1. C = [u \in DOMAIN tables \cup {p} |-> IF u = p THEN EmptyTable ELSE tables[u]]
  BY DEF Cleared
<1>2. W = [C EXCEPT ![t] = [C[t] EXCEPT ![k] = p]]
  BY DEF WithEntry
<1>3. t # p /\ C[t] = tables[t]
  BY <1>1
<1> HIDE DEF C
<1>4. W = [u \in DOMAIN tables \cup {p} |->
             IF u = t THEN [tables[t] EXCEPT ![k] = p]
             ELSE IF u = p THEN EmptyTable ELSE tables[u]]
  BY <1>1, <1>2, <1>3
<1>5. L = [u \in DOMAIN tables \cup {p} |->
             IF u = p THEN EmptyTable
             ELSE IF u = t THEN [tables[u] EXCEPT ![k] = p] ELSE tables[u]]
  BY DEF Linked
<1> HIDE DEF W, L
<1>6. W = L
  BY <1>3, <1>4, <1>5
<1> QED
  BY <1>6 DEF W, L, C

\* The tree grows by a table, and neither translations nor walks change.
LEMMA AddTableEffect ==
  ASSUME MemoryIInv, AddTable
  PROVE  /\ Contents(tables') /\ DOMAIN tables' = DOMAIN tables \cup {answer'}
         /\ tables'[table][PageMapIndex(page, level)] = answer'
         /\ pageMapLevel4' = pageMapLevel4 /\ Shape'
         /\ \A v \in VirtualPages :
              /\ TranslateIn(tables', pageMapLevel4, v) = TranslateIn(tables, pageMapLevel4, v)
              /\ \A n \in 1 .. 4 : ReachedIn(tables, pageMapLevel4, v, n) # Absent =>
                   ReachedIn(tables', pageMapLevel4, v, n)
                     = ReachedIn(tables, pageMapLevel4, v, n)
<1> DEFINE p == answer'
           k == PageMapIndex(page, level)
           root == pageMapLevel4
<1>1. /\ pc = "walk" /\ level > 1 /\ Entry(table, page, level) = Absent
      /\ RequestPage /\ p # nullptr
      /\ tables' = WithEntry(Cleared(p), table, k, p)
      /\ table' = p /\ level' = level - 1
      /\ UNCHANGED <<frameBuffer, pc, loop, page, pageMapLevel4, idt>>
  BY DEF AddTable
<1>2. /\ page \in VirtualPages /\ page \in Nat /\ Contents(tables)
      /\ root \in DOMAIN tables /\ table \in DOMAIN tables
      /\ table = ReachedIn(tables, root, page, level) /\ level \in 1 .. 4
      /\ loop \in {"memory", "frame buffer"} /\ page \in ToMap(loop)
  BY <1>1, WalkFacts
<1>3. /\ IInv' /\ memMap' = memMap /\ g_IsInitialized'
      /\ LastIndex(pfa') = LastIndex(pfa) /\ Indexes' = Indexes
      /\ LastIndex(pfa) <= TotalPages(memMap)
      /\ p \in Nat /\ p < LastIndex(pfa) /\ p \in Indexes
      /\ p \notin held /\ held' = held \cup {p}
  BY <1>1, RequestAnswers DEF MemoryIInv, Roots
<1>4. p \notin DOMAIN tables /\ idt = nullptr
  BY <1>1, <1>3 DEF MemoryIInv, Frames
<1>5. level \in 2 .. 4 /\ level' \in 1 .. 4 /\ level # 1
  BY <1>1, <1>2, LevelBelow, Zenon
<1>6. PICK lev, above : Tree(tables, root, lev, above)
  BY DEF MemoryIInv, Shape
<1>7. lev[table] # 1
  <2>1. table # Absent
    BY <1>2, NoEntryOfAbsent
  <2>2. lev[table] = level
    <3>1. \A n \in 1 .. 4 : \/ ReachedIn(tables, root, page, n) = Absent
                           \/ lev[ReachedIn(tables, root, page, n)] = n
      <4>1. Contents(tables) /\ root \in DOMAIN tables /\ page \in VirtualPages
        BY <1>2
      <4> HIDE DEF root
      <4>2. Tree(tables, root, lev, above)
        BY <1>6 DEF root
      <4> QED
        BY <4>1, <4>2, ReachedFollowsTree
    <3> QED
      BY <1>2, <2>1, <3>1, Zenon
  <2> QED
    BY <1>5, <2>2
<1>8. k \in Slots /\ tables[table][k] = Absent
  <2>1. k \in Slots
    BY <1>2, IndexesMakeAddress
  <2>2. Entry(table, page, level) = tables[table][k]
    BY <1>2 DEF Entry
  <2> QED
    BY <1>1, <2>1, <2>2
<1> HIDE DEF p, k
<1>9. tables' = Linked(tables, table, k, p)
  BY <1>1, <1>2, <1>4, LinkIsLinked
<1>10. Contents(tables')
  BY <1>2, <1>3, <1>4, <1>8, <1>9, LinkedContents
<1>11. DOMAIN tables' = DOMAIN tables \cup {p} /\ tables'[table][k] = p
  <2>1. /\ DOMAIN tables' = DOMAIN tables \cup {p}
        /\ tables'[table] = [tables[table] EXCEPT ![k] = p]
    BY <1>2, <1>4, <1>9 DEF Linked
  <2>2. tables[table] \in [Slots -> Nat \cup {Absent}]
    BY <1>2 DEF Contents
  <2> QED
    BY <1>8, <2>1, <2>2
<1>12. \A v \in VirtualPages :
         /\ TranslateIn(tables', root, v) = TranslateIn(tables, root, v)
         /\ \A n \in 1 .. 4 : ReachedIn(tables, root, v, n) # Absent =>
              ReachedIn(tables', root, v, n) = ReachedIn(tables, root, v, n)
  <2> TAKE v \in VirtualPages
  <2>1. /\ TranslateIn(Linked(tables, table, k, p), root, v) = TranslateIn(tables, root, v)
        /\ \A n \in 1 .. 4 : ReachedIn(tables, root, v, n) # Absent =>
             ReachedIn(Linked(tables, table, k, p), root, v, n)
               = ReachedIn(tables, root, v, n)
    <3>1. /\ Contents(tables) /\ root \in DOMAIN tables /\ table \in DOMAIN tables
          /\ k \in Slots /\ p \in Nat /\ p \notin DOMAIN tables
          /\ lev[table] # 1 /\ tables[table][k] = Absent
      BY <1>2, <1>3, <1>4, <1>7, <1>8
    <3> HIDE DEF root
    <3>2. Tree(tables, root, lev, above)
      BY <1>6 DEF root
    <3> QED
      BY <3>1, <3>2, LinkedTranslates
  <2> QED
    BY <1>9, <2>1, Zenon
<1>13. Shape'
  <2>1. \E l, a : Tree(tables', root, l, a)
    BY <1>2, <1>3, <1>4, <1>6, <1>7, <1>8, <1>9, LinkedTree
  <2> QED
    BY <1>1, <2>1 DEF Shape
<1> QED
  BY <1>1, <1>10, <1>11, <1>12, <1>13 DEF p, k

LEMMA AddTableIInv == MemoryIInv /\ AddTable => MemoryIInv'
<1> SUFFICES ASSUME MemoryIInv, AddTable PROVE MemoryIInv'
  OBVIOUS
<1> DEFINE p == answer'
           k == PageMapIndex(page, level)
           root == pageMapLevel4
<1>1. /\ pc = "walk" /\ level > 1 /\ Entry(table, page, level) = Absent
      /\ RequestPage /\ p # nullptr
      /\ tables' = WithEntry(Cleared(p), table, k, p)
      /\ table' = p /\ level' = level - 1
      /\ UNCHANGED <<frameBuffer, pc, loop, page, pageMapLevel4, idt>>
  BY DEF AddTable
<1>2. /\ page \in VirtualPages /\ page \in Nat /\ Contents(tables)
      /\ root \in DOMAIN tables /\ table \in DOMAIN tables
      /\ table = ReachedIn(tables, root, page, level) /\ level \in 1 .. 4
      /\ loop \in {"memory", "frame buffer"} /\ page \in ToMap(loop)
  BY <1>1, WalkFacts
<1>3. /\ IInv' /\ memMap' = memMap /\ g_IsInitialized'
      /\ LastIndex(pfa') = LastIndex(pfa) /\ Indexes' = Indexes
      /\ LastIndex(pfa) <= TotalPages(memMap)
      /\ p \in Nat /\ p < LastIndex(pfa) /\ p \in Indexes
      /\ p \notin held /\ held' = held \cup {p}
  BY <1>1, RequestAnswers DEF MemoryIInv, Roots
<1>4. p \notin DOMAIN tables /\ idt = nullptr
  BY <1>1, <1>3 DEF MemoryIInv, Frames
<1>5. level \in 2 .. 4 /\ level' \in 1 .. 4 /\ level # 1
  BY <1>1, <1>2, LevelBelow, Zenon
<1>6. /\ Contents(tables') /\ DOMAIN tables' = DOMAIN tables \cup {p}
      /\ tables'[table][k] = p /\ Shape'
  BY AddTableEffect
<1>7. \A v \in VirtualPages :
         /\ TranslateIn(tables', root, v) = TranslateIn(tables, root, v)
         /\ \A n \in 1 .. 4 : ReachedIn(tables, root, v, n) # Absent =>
              ReachedIn(tables', root, v, n) = ReachedIn(tables, root, v, n)
  BY AddTableEffect
<1> HIDE DEF p, k
<1>8. MemoryTypeOK'
  <2>1. TypeOK' /\ pc' \in Location
    BY <1>1, <1>3 DEF IInv, MemoryIInv, MemoryTypeOK
  <2>2. /\ frameBuffer' \in FrameBuffers /\ loop' \in {"memory", "frame buffer"}
        /\ idt' \in Indexes' /\ page' \in Nat
    BY <1>1, <1>3 DEF MemoryIInv, MemoryTypeOK
  <2>3. DOMAIN tables \subseteq Indexes
    BY DEF MemoryIInv, MemoryTypeOK
  <2>4. /\ table' \in DOMAIN tables' \cup {nullptr}
        /\ pageMapLevel4' \in DOMAIN tables' \cup {nullptr}
        /\ DOMAIN tables' \subseteq Indexes'
    BY <1>1, <1>2, <1>3, <1>6, <2>3
  <2> QED
    BY <1>5, <1>6, <2>1, <2>2, <2>4 DEF MemoryTypeOK, Contents
<1>9. Frames'
  BY <1>1, <1>3, <1>4, <1>6 DEF MemoryIInv, Frames
<1>10. Roots'
  BY <1>1, <1>2, <1>3, <1>6 DEF Roots, Early, Mapping
<1>11. Position'
  <2>1. ReachedIn(tables', root, page, level) = table
    <3>1. table # Absent
      BY <1>2, NoEntryOfAbsent
    <3> QED
      BY <1>2, <1>7, <3>1
  <2>2. ReachedIn(tables', root, page, level - 1) = EntryIn(tables', table, page, level)
    BY <1>5, <2>1, ReachedStep
  <2>3. EntryIn(tables', table, page, level) = p
    BY <1>2, <1>6 DEF EntryIn, k
  <2> QED
    BY <1>1, <1>6, <2>2, <2>3 DEF Position
<1>12. Progress'
  <2>1. \A which \in {"memory", "frame buffer"} : ToMap(which)' = ToMap(which)
    BY <1>1, <1>3 DEF ToMap
  <2>2. \A which \in {"memory", "frame buffer"} : ToMap(which) \subseteq VirtualPages
    <3>1. memMap \in MemoryMaps /\ frameBuffer \in FrameBuffers
      BY DEF MemoryIInv, MemoryTypeOK, TypeOK
    <3> QED
      BY <3>1, ToMapIsInterval
  <2>3. Covered({v \in ToMap(loop) : v < page})
    BY <1>1 DEF MemoryIInv, Progress
  <2>4. loop = "frame buffer" => Covered(ToMap("memory"))
    BY <1>1 DEF MemoryIInv, Progress
  <2>5. \A S : S \subseteq VirtualPages /\ Covered(S) =>
          (\A v \in S : TranslateIn(tables', pageMapLevel4', v) = v)
    BY <1>1, <1>7 DEF Covered
  <2>6. Covered({v \in ToMap(loop) : v < page})'
    <3>1. {v \in ToMap(loop) : v < page} \subseteq VirtualPages
      BY <1>2, <2>2
    <3>2. \A v \in {w \in ToMap(loop) : w < page} :
            TranslateIn(tables', pageMapLevel4', v) = v
      BY <2>3, <2>5, <3>1, Zenon
    <3>3. {v \in ToMap(loop) : v < page}' = {v \in ToMap(loop) : v < page}
      BY <1>1, <1>2, <2>1, Zenon
    <3> QED
      BY <3>2, <3>3, Zenon DEF Covered
  <2>7. loop' = "frame buffer" => Covered(ToMap("memory"))'
    BY <1>1, <2>1, <2>2, <2>4, <2>5 DEF Covered
  <2>8. page' \in ToMap(loop)'
    BY <1>1, <1>2, <2>1
  <2> QED
    BY <1>1, <2>6, <2>7, <2>8 DEF Progress
<1> QED
  BY <1>3, <1>8, <1>9, <1>10, <1>6, <1>11, <1>12 DEF MemoryIInv

\* Setting an entry: the page is mapped to itself, and nothing else changes.
LEMMA SetEntryEffect ==
  ASSUME MemoryIInv, SetEntry
  PROVE  /\ Contents(tables') /\ DOMAIN tables' = DOMAIN tables
         /\ pageMapLevel4' = pageMapLevel4 /\ Shape'
         /\ TranslateIn(tables', pageMapLevel4', page) = page
         /\ \A v \in VirtualPages :
              v # page => TranslateIn(tables', pageMapLevel4', v)
                            = TranslateIn(tables, pageMapLevel4, v)
<1> DEFINE k == PageMapIndex(page, 1)
           root == pageMapLevel4
<1>1. /\ pc = "walk" /\ level = 1 /\ tables' = WithEntry(tables, table, k, page)
      /\ pageMapLevel4' = root
  BY DEF SetEntry
<1>2. /\ page \in VirtualPages /\ page \in Nat /\ Contents(tables)
      /\ root \in DOMAIN tables /\ table \in DOMAIN tables
      /\ table = ReachedIn(tables, root, page, 1)
  BY <1>1, WalkFacts
<1>3. PICK lev, above : Tree(tables, root, lev, above)
  BY DEF MemoryIInv, Shape
<1>4. lev[table] = 1 /\ above[table] = Above(page, 1)
  <2>1. table # Absent
    BY <1>2, NoEntryOfAbsent
  <2>2. 1 \in 1 .. 4
    OBVIOUS
  <2> HIDE DEF root
  <2>3. \A n \in 1 .. 4 : \/ ReachedIn(tables, root, page, n) = Absent
                         \/ /\ lev[ReachedIn(tables, root, page, n)] = n
                            /\ above[ReachedIn(tables, root, page, n)] = Above(page, n)
    BY <1>2, <1>3, ReachedFollowsTree
  <2> QED
    BY <1>2, <2>1, <2>2, <2>3, Zenon
<1>5. k \in Slots /\ page = Child(above[table], k)
  <2>1. 1 \in 1 .. 4
    OBVIOUS
  <2> QED
    BY <1>2, <1>4, <2>1, IndexesMakeAddress
<1> HIDE DEF k, root
<1>6. Contents(tables') /\ DOMAIN tables' = DOMAIN tables
  BY <1>1, <1>2, <1>5, SetContents
<1>7. Tree(tables', root, lev, above)
  BY <1>1, <1>2, <1>3, <1>4, <1>5, SetTree
<1>8. /\ TranslateIn(tables', root, page) = page
      /\ \A v \in VirtualPages :
           v # page => TranslateIn(tables', root, v) = TranslateIn(tables, root, v)
  <2>1. tables' = WithEntry(tables, table, PageMapIndex(page, 1), page)
    BY <1>1 DEF k
  <2> QED
    BY <1>2, <1>3, <1>4, <2>1, SetTranslates
<1> QED
  BY <1>1, <1>6, <1>7, <1>8 DEF Shape, root

\* Where a loop goes on, it goes on to the next page of an interval; where it
\* ends, all of the interval is behind it.
LEMMA NextPage ==
  ASSUME NEW a \in Nat, NEW b \in Nat, NEW p \in a .. b
  PROVE  /\ \A v \in a .. b : v < p + 1 => v < p \/ v = p
         /\ p + 1 \notin a .. b => \A v \in a .. b : v < p \/ v = p
         /\ p + 1 \in Nat
OBVIOUS

LEMMA SetEntryIInv == MemoryIInv /\ SetEntry => MemoryIInv'
<1> SUFFICES ASSUME MemoryIInv, SetEntry PROVE MemoryIInv'
  OBVIOUS
<1>1. /\ pc = "walk" /\ level = 1
      /\ UNCHANGED <<vars, frameBuffer, loop, pageMapLevel4, idt>>
      /\ \/ /\ page + 1 \in ToMap(loop)
            /\ pc' = "walk" /\ page' = page + 1 /\ level' = 4
            /\ table' = pageMapLevel4
         \/ /\ page + 1 \notin ToMap(loop)
            /\ pc' = IF loop = "memory" THEN "lock frame buffer" ELSE "load cr3"
            /\ UNCHANGED <<page, level, table>>
  BY DEF SetEntry, Walk
<1>2. /\ page \in VirtualPages /\ page \in Nat /\ page \in ToMap(loop)
      /\ loop \in {"memory", "frame buffer"}
      /\ pageMapLevel4 \in DOMAIN tables /\ table \in DOMAIN tables
  BY <1>1, WalkFacts
<1>3. /\ Contents(tables') /\ DOMAIN tables' = DOMAIN tables /\ Shape'
      /\ TranslateIn(tables', pageMapLevel4', page) = page
      /\ \A v \in VirtualPages :
           v # page => TranslateIn(tables', pageMapLevel4', v)
                         = TranslateIn(tables, pageMapLevel4, v)
  BY SetEntryEffect
<1>4. IInv' /\ Indexes' = Indexes /\ idt = nullptr
  BY <1>1, StutterIInv DEF MemoryIInv, Frames, vars, Indexes, Accepted, LastIndex
<1>5. memMap \in MemoryMaps /\ frameBuffer \in FrameBuffers
  BY DEF MemoryIInv, MemoryTypeOK, TypeOK
<1>6. PICK a, b \in Nat : ToMap(loop) = a .. b
  BY <1>2, <1>5, ToMapIsInterval
<1>7. /\ \A v \in ToMap(loop) : v < page + 1 => v < page \/ v = page
      /\ page + 1 \notin ToMap(loop) => \A v \in ToMap(loop) : v < page \/ v = page
      /\ page + 1 \in Nat
  <2>1. page \in a .. b
    BY <1>2, <1>6
  <2>2. /\ \A v \in a .. b : v < page + 1 => v < page \/ v = page
        /\ page + 1 \notin a .. b => \A v \in a .. b : v < page \/ v = page
        /\ page + 1 \in Nat
    BY <2>1, NextPage
  <2> QED
    BY <1>6, <2>2, Zenon
<1>8. MemoryTypeOK'
  <2>1. TypeOK' /\ pc' \in Location
    BY <1>1, <1>4 DEF IInv, Location
  <2>2. /\ frameBuffer' \in FrameBuffers /\ loop' \in {"memory", "frame buffer"}
        /\ idt' \in Indexes' /\ DOMAIN tables' \subseteq Indexes'
        /\ pageMapLevel4' \in DOMAIN tables' \cup {nullptr}
    BY <1>1, <1>3, <1>4 DEF MemoryIInv, MemoryTypeOK
  <2>a. 4 \in 1 .. 4 /\ 1 \in 1 .. 4
    OBVIOUS
  <2>3. page' \in Nat /\ level' \in 1 .. 4
    BY <1>1, <1>2, <1>7, <2>a, Zenon
  <2>4. table' \in DOMAIN tables' \cup {nullptr}
    BY <1>1, <1>2, <1>3
  <2> QED
    BY <1>3, <2>1, <2>2, <2>3, <2>4 DEF MemoryTypeOK, Contents
<1>9. Frames'
  BY <1>1, <1>3, <1>4 DEF MemoryIInv, Frames, vars
<1>10. Roots'
  BY <1>1, <1>2, <1>3 DEF MemoryIInv, Roots, Early, Mapping, vars
<1>11. Position'
  <2>1. SUFFICES ASSUME pc' = "walk"
                 PROVE  table' \in DOMAIN tables'
                          /\ table' = ReachedIn(tables', pageMapLevel4', page', level')
    BY DEF Position
  <2>2. level' = 4 /\ table' = pageMapLevel4
    BY <1>1, <2>1
  <2>3. ReachedIn(tables', pageMapLevel4', page', 4) = pageMapLevel4'
    BY DEF ReachedIn
  <2> QED
    BY <1>1, <1>2, <1>3, <2>2, <2>3
<1>12. Progress'
  <2> DEFINE Now(S) == \A v \in S : TranslateIn(tables', pageMapLevel4', v) = v
  <2>1. \A which \in {"memory", "frame buffer"} : ToMap(which)' = ToMap(which)
    BY <1>1 DEF ToMap, vars
  <2>2. \A which \in {"memory", "frame buffer"} : ToMap(which) \subseteq VirtualPages
    BY <1>5, ToMapIsInterval
  <2>3. \A S : S \subseteq VirtualPages /\ Covered(S) => Now(S)
    BY <1>3 DEF Covered
  <2>4. Now({v \in ToMap(loop) : v < page})
    <3>1. Covered({v \in ToMap(loop) : v < page})
      BY <1>1 DEF MemoryIInv, Progress
    <3>2. {v \in ToMap(loop) : v < page} \subseteq VirtualPages
      BY <1>2, <2>2
    <3> HIDE DEF Now
    <3> QED
      BY <2>3, <3>1, <3>2, Zenon
  <2>5. \A v \in ToMap(loop) :
          v < page \/ v = page => TranslateIn(tables', pageMapLevel4', v) = v
    BY <1>3, <2>4
  <2>6. loop = "frame buffer" => Now(ToMap("memory"))
    <3>1. loop = "frame buffer" => Covered(ToMap("memory"))
      BY <1>1 DEF MemoryIInv, Progress
    <3> QED
      BY <2>2, <2>3, <3>1
  <2>7. loop' = loop
    BY <1>1
  <2>8. CASE page + 1 \in ToMap(loop) /\ pc' = "walk" /\ page' = page + 1
    <3>1. Now({v \in ToMap(loop) : v < page + 1})
      BY <1>7, <2>5
    <3>2. {v \in ToMap(loop) : v < page}' = {v \in ToMap(loop) : v < page + 1}
      BY <1>2, <2>1, <2>7, <2>8, Zenon
    <3>3. Covered({v \in ToMap(loop) : v < page})'
      BY <3>1, <3>2, Zenon DEF Covered
    <3>4. page' \in ToMap(loop)'
      BY <1>2, <2>1, <2>7, <2>8, Zenon
    <3>5. loop' = "frame buffer" => Covered(ToMap("memory"))'
      BY <2>1, <2>6, <2>7 DEF Covered
    <3> QED
      BY <2>8, <3>3, <3>4, <3>5 DEF Progress
  <2>9. CASE /\ page + 1 \notin ToMap(loop)
             /\ pc' = IF loop = "memory" THEN "lock frame buffer" ELSE "load cr3"
    <3>1. Now(ToMap(loop))
      BY <1>7, <2>5, <2>9
    <3>2. CASE loop = "memory"
      <4>1. pc' = "lock frame buffer"
        BY <2>9, <3>2
      <4>2. Covered(ToMap("memory"))'
        BY <2>1, <3>1, <3>2 DEF Covered
      <4> QED
        BY <4>1, <4>2 DEF Progress
    <3>3. CASE loop = "frame buffer"
      <4>1. pc' = "load cr3"
        BY <2>9, <3>3
      <4>2. Covered(ToMap("memory"))' /\ Covered(ToMap("frame buffer"))'
        BY <2>1, <2>6, <3>1, <3>3 DEF Covered
      <4> QED
        BY <4>1, <4>2 DEF Progress
    <3> QED
      BY <1>2, <3>2, <3>3
  <2> QED
    BY <1>1, <2>8, <2>9
<1> QED
  BY <1>3, <1>4, <1>8, <1>9, <1>10, <1>11, <1>12 DEF MemoryIInv

LEMMA IntervalStart ==
  ASSUME NEW a \in Nat, NEW b \in Nat, a <= b
  PROVE  a \in a .. b /\ {v \in a .. b : v < a} = {}
OBVIOUS

LEMMA LockFrameBufferIInv == MemoryIInv /\ LockFrameBuffer => MemoryIInv'
<1> SUFFICES ASSUME MemoryIInv, LockFrameBuffer PROVE MemoryIInv'
  OBVIOUS
<1> DEFINE base == frameBuffer.BaseAddress
<1>1. /\ pc = "lock frame buffer" /\ \E pages : LockRange(pages)
      /\ loop' = "frame buffer" /\ pc' = "walk" /\ page' = base
      /\ level' = 4 /\ table' = pageMapLevel4
      /\ UNCHANGED <<frameBuffer, pageMapLevel4, tables, idt>>
  BY DEF LockFrameBuffer, Walk
<1>2. /\ IInv' /\ memMap' = memMap /\ g_IsInitialized' /\ Indexes' = Indexes
      /\ LastIndex(pfa') = LastIndex(pfa) /\ held \subseteq held'
      /\ LastIndex(pfa) <= TotalPages(memMap)
  BY <1>1, LockKeeps DEF MemoryIInv, Roots
<1>3. /\ pageMapLevel4 \in DOMAIN tables /\ idt = nullptr
      /\ Covered(ToMap("memory"))
  BY <1>1 DEF MemoryIInv, Roots, Mapping, Frames, Progress
<1>4. memMap \in MemoryMaps /\ frameBuffer \in FrameBuffers
  BY DEF MemoryIInv, MemoryTypeOK, TypeOK
<1>5. /\ Shape'
      /\ \A which \in {"memory", "frame buffer"} : ToMap(which)' = ToMap(which)
  BY <1>1, <1>2, TablesUntouched
<1>6. base \in Nat /\ base \in ToMap("frame buffer")
        /\ {v \in ToMap("frame buffer") : v < base} = {}
  <2>1. PICK b \in Nat : base <= b /\ ToMap("frame buffer") = base .. b
    <3>1. "frame buffer" \in {"memory", "frame buffer"} /\ "frame buffer" # "memory"
      OBVIOUS
    <3>2. PICK a, b \in Nat : /\ a <= b /\ ToMap("frame buffer") = a .. b
                              /\ a = IF "frame buffer" = "memory" THEN 0 ELSE base
      BY <1>4, <3>1, ToMapIsInterval
    <3> QED
      BY <3>1, <3>2
  <2>2. base \in Nat
    BY <1>4, FrameBufferFacts
  <2> DEFINE S == ToMap("frame buffer")
  <2> HIDE DEF S, base
  <2>3. S = base .. b
    BY <2>1 DEF S
  <2>4. base \in S /\ {v \in S : v < base} = {}
    BY <2>1, <2>2, <2>3, IntervalStart, Zenon
  <2> QED
    BY <2>2, <2>4 DEF S
<1> HIDE DEF base
<1>7. MemoryTypeOK'
  <2>1. TypeOK' /\ pc' \in Location
    BY <1>1, <1>2 DEF IInv, Location
  <2>a. 4 \in 1 .. 4
    OBVIOUS
  <2>2. /\ page' \in Nat /\ level' \in 1 .. 4 /\ loop' \in {"memory", "frame buffer"}
        /\ table' \in DOMAIN tables' \cup {nullptr}
    BY <1>1, <1>3, <1>6, <2>a
  <2> QED
    BY <1>1, <1>2, <2>1, <2>2 DEF MemoryIInv, MemoryTypeOK
<1>8. Frames'
  BY <1>1, <1>2, <1>3 DEF MemoryIInv, Frames
<1>9. Roots'
  BY <1>1, <1>2, <1>3 DEF Roots, Early, Mapping
<1>10. Position'
  <2>1. ReachedIn(tables', pageMapLevel4', page', 4) = pageMapLevel4'
    BY DEF ReachedIn
  <2> QED
    BY <1>1, <1>3, <2>1 DEF Position
<1>11. Progress'
  <2>1. page' \in ToMap(loop)'
    <3>1. ToMap(loop)' = ToMap("frame buffer")
      BY <1>1, <1>2 DEF ToMap
    <3> QED
      BY <1>1, <1>6, <3>1
  <2>2. Covered({v \in ToMap(loop) : v < page})'
    <3>1. ToMap(loop)' = ToMap("frame buffer")
      BY <1>1, <1>2 DEF ToMap
    <3>2. {v \in ToMap(loop) : v < page}' = {}
      BY <1>1, <1>6, <3>1, Zenon
    <3> QED
      BY <3>2 DEF Covered
  <2>3. Covered(ToMap("memory"))'
    BY <1>1, <1>3, <1>5 DEF Covered
  <2> QED
    BY <1>1, <2>1, <2>2, <2>3 DEF Progress
<1> QED
  BY <1>2, <1>5, <1>7, <1>8, <1>9, <1>10, <1>11 DEF MemoryIInv

LEMMA LoadCR3IInv == MemoryIInv /\ LoadCR3 => MemoryIInv'
<1> SUFFICES ASSUME MemoryIInv, LoadCR3 PROVE MemoryIInv'
  OBVIOUS
<1>1. /\ pc = "load cr3" /\ pc' = "request idt"
      /\ UNCHANGED <<vars, frameBuffer, loop, page, level, table, pageMapLevel4, tables, idt>>
  BY DEF LoadCR3, walkVars
<1>2. IInv'
  BY <1>1, StutterIInv DEF MemoryIInv
<1>3. MemoryTypeOK'
  <2>1. TypeOK' /\ Indexes' = Indexes /\ pc' \in Location
    BY <1>1, <1>2 DEF IInv, vars, Indexes, Accepted, LastIndex, Location
  <2> QED
    BY <1>1, <2>1 DEF MemoryIInv, MemoryTypeOK
<1>4. Frames' /\ Roots' /\ Shape' /\ Position'
  BY <1>1 DEF MemoryIInv, Frames, Roots, Shape, Position, Early, Mapping, vars
<1>5. Progress'
  <2>1. /\ Covered(ToMap("memory")) /\ Covered(ToMap("frame buffer"))
    BY <1>1 DEF MemoryIInv, Progress
  <2>2. \A which \in {"memory", "frame buffer"} : ToMap(which)' = ToMap(which)
    BY <1>1 DEF ToMap, vars
  <2>3. Covered(ToMap("memory"))' /\ Covered(ToMap("frame buffer"))'
    BY <1>1, <2>1, <2>2 DEF Covered
  <2> QED
    BY <1>1, <2>3 DEF Progress
<1> QED
  BY <1>2, <1>3, <1>4, <1>5 DEF MemoryIInv

LEMMA RequestIDTIInv == MemoryIInv /\ RequestIDT => MemoryIInv'
<1> SUFFICES ASSUME MemoryIInv, RequestIDT PROVE MemoryIInv'
  OBVIOUS
<1>1. /\ pc = "request idt" /\ pc' = "running" /\ RequestPage /\ answer' # nullptr
      /\ idt' = answer'
      /\ UNCHANGED <<frameBuffer, loop, page, level, table, pageMapLevel4, tables>>
  BY DEF RequestIDT, walkVars
<1>2. /\ IInv' /\ memMap' = memMap /\ g_IsInitialized'
      /\ LastIndex(pfa') = LastIndex(pfa) /\ Indexes' = Indexes
      /\ LastIndex(pfa) <= TotalPages(memMap)
      /\ answer' \in Nat /\ answer' < LastIndex(pfa) /\ answer' \in Indexes
      /\ answer' \notin held /\ held' = held \cup {answer'}
  BY <1>1, RequestAnswers DEF MemoryIInv, Roots
<1>3. MemoryTypeOK'
  <2>1. TypeOK' /\ pc' \in Location
    BY <1>1, <1>2 DEF IInv, Location
  <2> QED
    BY <1>1, <1>2, <2>1 DEF MemoryIInv, MemoryTypeOK
<1>4. Frames'
  BY <1>1, <1>2 DEF MemoryIInv, Frames
<1>5. Roots' /\ Shape' /\ Position'
  BY <1>1, <1>2 DEF MemoryIInv, Roots, Shape, Position, Early, Mapping
<1>6. Progress'
  <2>1. /\ Covered(ToMap("memory")) /\ Covered(ToMap("frame buffer"))
    BY <1>1 DEF MemoryIInv, Progress
  <2>2. \A which \in {"memory", "frame buffer"} : ToMap(which)' = ToMap(which)
    BY <1>1, <1>2 DEF ToMap
  <2>3. Covered(ToMap("memory"))' /\ Covered(ToMap("frame buffer"))'
    BY <1>1, <2>1, <2>2 DEF Covered
  <2> QED
    BY <1>1, <2>3 DEF Progress
<1> QED
  BY <1>2, <1>3, <1>4, <1>5, <1>6 DEF MemoryIInv

LEMMA TranslateIs ==
  ASSUME NEW v
  PROVE  Translate(v) = TranslateIn(tables, pageMapLevel4, v)
BY DEF Translate, TranslateIn, ReachedIn, Entry, EntryIn

LEMMA PagesArePresent ==
  ASSUME NEW n \in Nat
  PROVE  \A q \in Pages(0, n) : q # Absent
<1> SUFFICES ASSUME NEW q \in Pages(0, n) PROVE q # Absent
  OBVIOUS
<1>1. q \in Int /\ q >= 0
  BY DEF Pages
<1> QED
  BY <1>1 DEF Absent

\* Pages below the map's total are found where they are, once all is mapped.
LEMMA MemoryIsFound ==
  ASSUME MemoryIInv, pc \in {"load cr3", "request idt", "running"},
         NEW p \in Pages(0, TotalPages(memMap))
  PROVE  Translate(p) = p /\ p # Absent
<1>1. Covered(Pages(0, TotalPages(memMap)))
  BY DEF MemoryIInv, Progress, ToMap
<1>2. p # Absent
  <2>1. TotalPages(memMap) \in Nat
    BY MapFacts DEF MemoryIInv, MemoryTypeOK, TypeOK
  <2> QED
    BY <2>1, PagesArePresent
<1> QED
  BY <1>1, <1>2, TranslateIs DEF Covered

\* A page of the bitmap below the total answers: a fault says it is not there.
LEMMA FaultIInv == MemoryIInv /\ Fault => MemoryIInv'
<1> SUFFICES ASSUME MemoryIInv, Fault PROVE MemoryIInv'
  OBVIOUS
<1>1. /\ pc = "request idt" /\ pc' = "faulted" /\ ~BitMapAnswers
      /\ UNCHANGED <<vars, frameBuffer, loop, page, level, table, pageMapLevel4, tables, idt>>
  BY DEF Fault, walkVars
<1>2. IInv'
  BY <1>1, StutterIInv DEF MemoryIInv
<1>3. MemoryTypeOK'
  <2>1. TypeOK' /\ Indexes' = Indexes /\ pc' \in Location
    BY <1>1, <1>2 DEF IInv, vars, Indexes, Accepted, LastIndex, Location
  <2> QED
    BY <1>1, <2>1 DEF MemoryIInv, MemoryTypeOK
<1>4. Frames' /\ Roots' /\ Shape' /\ Position'
  BY <1>1 DEF MemoryIInv, Frames, Roots, Shape, Position, Early, Mapping, vars
<1>5. ~BitMapBelowTotal(memMap)
  <2>1. PICK p \in BitMapPages(memMap) : Translate(p) = Absent
    BY <1>1 DEF BitMapAnswers, PagesTested
  <2>2. ASSUME p \in Pages(0, TotalPages(memMap)) PROVE FALSE
    BY <1>1, <2>1, <2>2, MemoryIsFound
  <2> QED
    BY <2>1, <2>2 DEF BitMapBelowTotal
<1>6. Progress'
  <2>1. memMap' = memMap
    BY <1>1 DEF vars
  <2>2. ~BitMapBelowTotal(memMap)'
    BY <1>5, <2>1
  <2> QED
    BY <1>1, <2>2 DEF Progress
<1> QED
  BY <1>2, <1>3, <1>4, <1>6 DEF MemoryIInv

LEMMA MemoryStutterIInv == MemoryIInv /\ UNCHANGED memoryVars => MemoryIInv'
<1> SUFFICES ASSUME MemoryIInv, UNCHANGED memoryVars PROVE MemoryIInv'
  OBVIOUS
<1>1. UNCHANGED <<vars, frameBuffer, pc, loop, page, level, table, pageMapLevel4, tables, idt>>
  BY DEF memoryVars, walkVars
<1>2. IInv'
  BY <1>1, StutterIInv DEF MemoryIInv
<1>3. TypeOK' /\ Indexes' = Indexes
  BY <1>1, <1>2 DEF IInv, vars, Indexes, Accepted, LastIndex
<1>4. MemoryTypeOK'
  BY <1>1, <1>3 DEF MemoryIInv, MemoryTypeOK
<1>5. Frames' /\ Roots' /\ Shape' /\ Position'
  BY <1>1 DEF MemoryIInv, Frames, Roots, Shape, Position, vars
<1>6. Progress'
  BY <1>1 DEF MemoryIInv, Progress, Covered, ToMap, vars
<1> QED
  BY <1>2, <1>4, <1>5, <1>6 DEF MemoryIInv

-----------------------------------------------------------------------------
(***************************************************************************)
(* The theorems.                                                           *)
(***************************************************************************)

\* The tables stay a tree that maps pages to themselves, made of pages the
\* kernel obtained, and each loop of prepareMemory has mapped all before its
\* page.
THEOREM MemoryInductive == MemorySpec => []MemoryIInv
<1>1. MemoryInit => MemoryIInv
  BY MemoryInitIInv
<1>2. MemoryIInv /\ [MemoryNext]_memoryVars => MemoryIInv'
  <2> SUFFICES ASSUME MemoryIInv, [MemoryNext]_memoryVars PROVE MemoryIInv'
    OBVIOUS
  <2>1. CASE ReadMap
    BY <2>1, ReadMapIInv
  <2>2. CASE LockKernel
    BY <2>2, LockKernelIInv
  <2>3. CASE RequestRoot
    BY <2>3, RequestRootIInv
  <2>4. CASE FollowEntry
    BY <2>4, FollowEntryIInv
  <2>5. CASE AddTable
    BY <2>5, AddTableIInv
  <2>6. CASE SetEntry
    BY <2>6, SetEntryIInv
  <2>7. CASE LockFrameBuffer
    BY <2>7, LockFrameBufferIInv
  <2>8. CASE LoadCR3
    BY <2>8, LoadCR3IInv
  <2>9. CASE RequestIDT
    BY <2>9, RequestIDTIInv
  <2>10. CASE Overwrite
    BY <2>10, OverwriteIInv
  <2>11. CASE Fault
    BY <2>11, FaultIInv
  <2>12. CASE UNCHANGED memoryVars
    BY <2>12, MemoryStutterIInv
  <2> QED
    BY <2>1, <2>2, <2>3, <2>4, <2>5, <2>6, <2>7, <2>8, <2>9, <2>10, <2>11, <2>12
       DEF MemoryNext
<1> QED
  BY <1>1, <1>2, PTL DEF MemorySpec

\* The program state stays well-typed, however the memory map is laid out.
THEOREM MemoryTypeCorrect == MemorySpec => []MemoryTypeOK
<1>1. MemoryIInv => MemoryTypeOK
  BY DEF MemoryIInv
<1> QED
  BY <1>1, MemoryInductive, PTL

\* Page tables never lie in the image, the bitmap or the frame buffer, though
\* the lock of the kernel falls short of its image: the allocator hands out
\* usable pages only.
THEOREM TablesStayExclusive == MemorySpec => []TablesAreExclusive
<1>1. ASSUME MemoryIInv PROVE TablesAreExclusive
  <2>1. memMap \in MemoryMaps /\ frameBuffer \in FrameBuffers
    BY <1>1 DEF MemoryIInv, MemoryTypeOK, TypeOK
  <2>2. DOMAIN tables \subseteq held /\ (idt # nullptr => idt \in held \ DOMAIN tables)
    BY <1>1 DEF MemoryIInv, Frames
  <2>3. DOMAIN tables # {} => g_IsInitialized
    BY <1>1 DEF MemoryIInv, Roots, Early
  <2>4. g_IsInitialized => held \subseteq Usable(memMap)
    BY <1>1 DEF MemoryIInv, IInv
  <2>5. DOMAIN tables \subseteq Usable(memMap)
    BY <2>2, <2>3, <2>4
  <2>6. DOMAIN tables \cap (KernelImage \cup BitMapPages(memMap)) = {}
    BY <2>1, <2>5, MapFacts DEF Usable
  <2>7. DOMAIN tables \cap FrameBufferPages(frameBuffer) = {}
    BY <2>1, <2>5, FrameBufferFacts DEF Usable
  <2> QED
    BY <2>2, <2>6, <2>7 DEF TablesAreExclusive
<1> QED
  BY <1>1, MemoryInductive, PTL

\* Loading cr3 pulls the rug from under nothing but a bitmap past the map's
\* total: what the kernel goes on using is mapped where it was, its tables
\* included, though tables are added while the pages they lie on are being
\* mapped.
THEOREM UsedMemoryStaysMapped == MemorySpec => []UsedMemoryIsMapped
<1>1. ASSUME MemoryIInv PROVE UsedMemoryIsMapped
  <2> DEFINE bitMap == IF BitMapBelowTotal(memMap) THEN BitMapPages(memMap) ELSE {}
  <2>a. pc = "faulted" => ~BitMapBelowTotal(memMap)
    BY <1>1 DEF MemoryIInv, Progress
  <2> SUFFICES ASSUME pc \in {"request idt", "running"},
                      NEW p \in UNION {KernelImage, DOMAIN tables,
                                       FrameBufferPages(frameBuffer),
                                       Pages(0, TotalPages(memMap)), {idt}, bitMap}
               PROVE  TranslateIn(tables, pageMapLevel4, p) = p
    BY <2>a, TranslateIs DEF UsedMemoryIsMapped
  <2>b. bitMap \subseteq Pages(0, TotalPages(memMap))
    BY DEF BitMapBelowTotal
  <2> HIDE DEF bitMap
  <2>1. memMap \in MemoryMaps /\ frameBuffer \in FrameBuffers
    BY <1>1 DEF MemoryIInv, MemoryTypeOK, TypeOK
  <2>2. Covered(Pages(0, TotalPages(memMap))) /\ Covered(FrameBufferMapping(frameBuffer))
    <3>1. Covered(ToMap("memory")) /\ Covered(ToMap("frame buffer"))
      BY <1>1 DEF MemoryIInv, Progress
    <3> QED
      BY <3>1 DEF ToMap
  <2>3. FrameBufferPages(frameBuffer) \subseteq FrameBufferMapping(frameBuffer)
    BY <2>1, FrameBufferIsMapped
  <2>4. KernelImage \subseteq Pages(0, TotalPages(memMap))
    <3> DEFINE total == TotalPages(memMap)
    <3>1. /\ KernelImage \subseteq Pages(0, LowPages)
          /\ LowPages \in Nat /\ total \in Nat /\ LowPages <= total
      BY <2>1, MapFacts
    <3> HIDE DEF total
    <3>2. Pages(0, LowPages) \subseteq Pages(0, total)
      BY <3>1, PagesBelow, Zenon
    <3> QED
      BY <3>1, <3>2 DEF total
  <2>5. \A q \in Indexes : q < LastIndex(pfa) => q \in Pages(0, TotalPages(memMap))
    <3> DEFINE total == TotalPages(memMap)
               last == LastIndex(pfa)
    <3>1. last \in Nat /\ Indexes \subseteq Nat
      BY <1>1, TypedIsWellFormed, LastIndexType DEF MemoryIInv, IInv, WellFormed
    <3>2. total \in Nat /\ last <= total
      BY <1>1, <2>1, MapFacts DEF MemoryIInv, Roots
    <3> HIDE DEF total, last
    <3>3. \A q \in Nat : q < last => q \in Pages(0, total)
      BY <3>1, <3>2, PagesBelow, Zenon
    <3> QED
      BY <3>1, <3>3 DEF total, last
  <2>6. DOMAIN tables \subseteq Pages(0, TotalPages(memMap))
    <3>1. DOMAIN tables \subseteq Indexes /\ \A t \in DOMAIN tables : t < LastIndex(pfa)
      BY <1>1 DEF MemoryIInv, MemoryTypeOK, Frames
    <3> QED
      BY <2>5, <3>1
  <2>7. idt \in Pages(0, TotalPages(memMap))
    <3>1. CASE idt = nullptr
      <4> DEFINE total == TotalPages(memMap)
      <4>1. 0 \in ToMap("memory")
        <5>1. "memory" \in {"memory", "frame buffer"}
          OBVIOUS
        <5>2. PICK b \in Nat : 0 <= b /\ ToMap("memory") = 0 .. b
          BY <2>1, <5>1, ToMapIsInterval
        <5> QED
          BY <5>2, IntervalStart
      <4> QED
        BY <3>1, <4>1 DEF ToMap, nullptr
    <3>2. CASE idt # nullptr
      <4>1. idt \in Indexes /\ idt < LastIndex(pfa)
        BY <1>1, <3>2 DEF MemoryIInv, MemoryTypeOK, Frames
      <4> QED
        BY <2>5, <4>1
    <3> QED
      BY <3>1, <3>2
  <2>8. p \in Pages(0, TotalPages(memMap)) \/ p \in FrameBufferMapping(frameBuffer)
    BY <2>3, <2>4, <2>6, <2>7, <2>b
  <2> QED
    BY <2>2, <2>8 DEF Covered
<1> QED
  BY <1>1, MemoryInductive, PTL

-----------------------------------------------------------------------------
(***************************************************************************)
(* The page tables implement an address space.                             *)
(***************************************************************************)

\* What the tables map, as the refinement gives it to AddressSpace.
MappingNow == [v \in {w \in VirtualPages : Translate(w) # Absent} |-> Translate(v)]

LEMMA SameTranslations ==
  ASSUME \A v \in VirtualPages :
           TranslateIn(tables', pageMapLevel4', v) = TranslateIn(tables, pageMapLevel4, v)
  PROVE  MappingNow' = MappingNow
<1>1. \A v \in VirtualPages : Translate(v)' = Translate(v)
  BY TranslateIs DEF Translate, TranslateIn, ReachedIn, Entry, EntryIn
<1> QED
  BY <1>1 DEF MappingNow

\* An empty root, or none, translates nothing.
LEMMA EmptyTranslates ==
  ASSUME NEW T, Contents(T), NEW root, NEW v \in VirtualPages,
         root \in DOMAIN T => T[root] = EmptyTable
  PROVE  TranslateIn(T, root, v) = Absent
<1>1. EntryIn(T, root, v, 4) = Absent
  <2>1. 4 \in 1 .. 4
    OBVIOUS
  <2>2. PageMapIndex(v, 4) \in Slots
    BY <2>1, NothingAboveRoot, IndexesMakeAddress
  <2> QED
    BY <2>2 DEF EntryIn, EmptyTable
<1> QED
  BY <1>1, NoEntryOfAbsent DEF TranslateIn, ReachedIn

LEMMA ContentsOfTables ==
  ASSUME MemoryTypeOK
  PROVE  Contents(tables)
<1>1. /\ DOMAIN tables \subseteq Indexes /\ Indexes \subseteq Nat
      /\ tables \in [DOMAIN tables -> [Slots -> Nat \cup {Absent}]]
  BY TypedIsWellFormed DEF MemoryTypeOK
<1> QED
  BY <1>1 DEF Contents

LEMMA RootTranslatesNothing ==
  ASSUME MemoryIInv, MemoryIInv', RequestRoot, NEW v \in VirtualPages
  PROVE  TranslateIn(tables', pageMapLevel4', v) = TranslateIn(tables, pageMapLevel4, v)
<1>1. DOMAIN tables = {}
  BY DEF RequestRoot, MemoryIInv, Roots, Early
<1>2. Contents(tables)
  BY ContentsOfTables DEF MemoryIInv
<1>3. TranslateIn(tables, pageMapLevel4, v) = Absent
  BY <1>1, <1>2, EmptyTranslates
<1>4. tables'[pageMapLevel4'] = EmptyTable
  BY DEF RequestRoot, Cleared
<1>5. Contents(tables')
  <2>1. /\ DOMAIN tables' \subseteq Indexes' /\ Indexes' \subseteq Nat
        /\ tables' \in [DOMAIN tables' -> [Slots -> Nat \cup {Absent}]]
    <3>1. MemoryTypeOK' /\ TypeOK'
      BY DEF MemoryIInv, MemoryTypeOK
    <3>2. Indexes' \subseteq Nat
      BY <3>1 DEF TypeOK, Indexes, Accepted
    <3> QED
      BY <3>1, <3>2 DEF MemoryTypeOK
  <2> QED
    BY <2>1 DEF Contents
<1>6. TranslateIn(tables', pageMapLevel4', v) = Absent
  BY <1>4, <1>5, EmptyTranslates
<1> QED
  BY <1>3, <1>6

\* Setting an entry maps one page and leaves every other where it was.
LEMMA SetEntryMaps ==
  ASSUME MemoryIInv, SetEntry
  PROVE  \E v \in DOMAIN MappingNow' :
           MappingNow' = [w \in DOMAIN MappingNow \cup {v} |->
                            IF w = v THEN MappingNow'[v] ELSE MappingNow[w]]
<1> DEFINE old(v) == TranslateIn(tables, pageMapLevel4, v)
           new(v) == TranslateIn(tables', pageMapLevel4', v)
<1>1. page \in VirtualPages /\ page \in Nat
  BY WalkFacts DEF SetEntry
<1>2. /\ new(page) = page
      /\ \A v \in VirtualPages : v # page => new(v) = old(v)
  BY SetEntryEffect
<1>3. MappingNow = [v \in {w \in VirtualPages : old(w) # Absent} |-> old(v)]
  BY TranslateIs DEF MappingNow
<1>4. MappingNow' = [v \in {w \in VirtualPages : new(w) # Absent} |-> new(v)]
  BY DEF MappingNow, Translate, TranslateIn, ReachedIn, Entry, EntryIn
<1>5. page # Absent
  BY <1>1 DEF Absent
<1> HIDE DEF old, new
<1>6. DOMAIN MappingNow' = DOMAIN MappingNow \cup {page}
  BY <1>1, <1>2, <1>3, <1>4, <1>5
<1>7. MappingNow' = [w \in DOMAIN MappingNow \cup {page} |->
                       IF w = page THEN MappingNow'[page] ELSE MappingNow[w]]
  BY <1>1, <1>2, <1>3, <1>4, <1>6
<1> QED
  BY <1>6, <1>7

LEMMA SpaceInit == MemoryInit => Space!Init
<1> SUFFICES ASSUME MemoryInit PROVE Space!Init
  OBVIOUS
<1>1. MemoryIInv
  BY MemoryInitIInv
<1>2. DOMAIN tables = {} /\ pc # "overwritten"
  BY DEF MemoryInit
<1>3. Contents(tables)
  BY <1>1, ContentsOfTables DEF MemoryIInv
<1>4. \A v \in VirtualPages : Translate(v) = Absent
  BY <1>2, <1>3, EmptyTranslates, TranslateIs
<1> QED
  BY <1>2, <1>4 DEF Space!Init

LEMMA SpaceStep ==
  MemoryIInv /\ MemoryIInv' /\ [MemoryNext]_memoryVars => [Space!Next]_Space!vars
<1> SUFFICES ASSUME MemoryIInv, MemoryIInv', [MemoryNext]_memoryVars
             PROVE  Space!Next \/ UNCHANGED Space!vars
  OBVIOUS
<1>1. ASSUME MappingNow' = MappingNow, pc # "overwritten", pc' # "overwritten"
      PROVE  UNCHANGED Space!vars
  BY <1>1 DEF Space!vars, MappingNow
<1>2. ASSUME UNCHANGED <<tables, pageMapLevel4>>
      PROVE  MappingNow' = MappingNow
  BY <1>2 DEF MappingNow, Translate, Entry
<1>3. CASE ReadMap
  BY <1>1, <1>2, <1>3 DEF ReadMap
<1>4. CASE LockKernel
  BY <1>1, <1>2, <1>4 DEF LockKernel
<1>5. CASE RequestRoot
  <2>1. MappingNow' = MappingNow
    BY <1>5, RootTranslatesNothing, SameTranslations
  <2> QED
    BY <1>1, <1>5, <2>1 DEF RequestRoot, Walk
<1>6. CASE FollowEntry
  BY <1>1, <1>2, <1>6 DEF FollowEntry
<1>7. CASE AddTable
  <2>1. \A v \in VirtualPages :
          TranslateIn(tables', pageMapLevel4', v) = TranslateIn(tables, pageMapLevel4, v)
    BY <1>7, AddTableEffect
  <2>2. MappingNow' = MappingNow
    BY <2>1, SameTranslations
  <2> QED
    BY <1>1, <1>7, <2>2 DEF AddTable
<1>8. CASE SetEntry
  <2>1. pc' # "overwritten"
    BY <1>8 DEF SetEntry, Walk
  <2>2. Space!Map
    BY <1>8, <2>1, SetEntryMaps DEF Space!Map, MappingNow
  <2> QED
    BY <2>2 DEF Space!Next
<1>9. CASE LockFrameBuffer
  BY <1>1, <1>2, <1>9 DEF LockFrameBuffer, Walk
<1>10. CASE LoadCR3
  BY <1>1, <1>2, <1>10 DEF LoadCR3
<1>11. CASE RequestIDT
  BY <1>1, <1>2, <1>11 DEF RequestIDT, walkVars
<1>12. CASE Overwrite
  BY <1>12 DEF Overwrite, Space!Next, Space!Break
<1>13. CASE Fault
  BY <1>1, <1>2, <1>13 DEF Fault
<1>14. CASE UNCHANGED memoryVars
  BY <1>14 DEF memoryVars, Space!vars, Translate, Entry
<1> QED
  BY <1>3, <1>4, <1>5, <1>6, <1>7, <1>8, <1>9, <1>10, <1>11, <1>12, <1>13, <1>14
     DEF MemoryNext

\* mapMemory promises what an address space does: pages are mapped one at a
\* time, and neither a new table nor an entry moves a page mapped before.
THEOREM MappingIsAnAddressSpace == MemorySpec => ImplementsAddressSpace
<1>1. MemoryInit => Space!Init
  BY SpaceInit
<1>2. MemoryIInv /\ MemoryIInv' /\ [MemoryNext]_memoryVars => [Space!Next]_Space!vars
  BY SpaceStep
<1> QED
  BY <1>1, <1>2, MemoryInductive, PTL
     DEF MemorySpec, ImplementsAddressSpace, Space!Spec

\* A step of the set-up is a step of its frames' owner: it obtains or claims
\* frames that were available, or leaves them alone.
LEMMA FramesStep ==
  MemoryIInv /\ MemoryIInv' /\ [MemoryNext]_memoryVars
    => [Ownership!Next]_Ownership!vars
<1> SUFFICES ASSUME MemoryIInv, MemoryIInv', [MemoryNext]_memoryVars
             PROVE  [Ownership!Next]_Ownership!vars
  OBVIOUS
<1>1. IInv /\ IInv'
  BY DEF MemoryIInv
<1>2. ASSUME [Next]_vars PROVE [Ownership!Next]_Ownership!vars
  BY <1>1, <1>2, StepRefines
<1>3. ASSUME NEW pages, LockRange(pages) PROVE [Ownership!Next]_Ownership!vars
  BY <1>1, <1>3, LockRangeClaims DEF Ownership!Next
<1>4. CASE ReadMap
  BY <1>2, <1>4 DEF ReadMap, Next
<1>5. CASE LockKernel
  BY <1>3, <1>5 DEF LockKernel
<1>6. CASE RequestRoot \/ AddTable \/ RequestIDT \/ Overwrite
  <2>1. RequestPage
    BY <1>6 DEF RequestRoot, AddTable, RequestIDT, Overwrite
  <2> QED
    BY <1>2, <2>1 DEF Next
<1>7. CASE LockFrameBuffer
  BY <1>3, <1>7 DEF LockFrameBuffer
<1>8. CASE FollowEntry \/ SetEntry \/ LoadCR3 \/ Fault \/ UNCHANGED memoryVars
  <2>1. UNCHANGED vars
    BY <1>8 DEF FollowEntry, SetEntry, LoadCR3, Fault, memoryVars
  <2> QED
    BY <1>2, <2>1
<1> QED
  BY <1>4, <1>5, <1>6, <1>7, <1>8 DEF MemoryNext

\* What the allocator promises it keeps while prepareMemory and prepareInterrupts
\* call it: every table and the interrupt descriptors lie on a frame that was
\* available until then, also where the kernel does not look at the answer, and
\* for ranges of any length, which the allocator's own specification bounds.
THEOREM SetUpOwnsItsFrames == MemorySpec => ImplementsOwnership
<1>1. MemoryInit => Ownership!Init
  BY InitRefines DEF MemoryInit
<1>2. MemoryIInv /\ MemoryIInv' /\ [MemoryNext]_memoryVars
        => [Ownership!Next]_Ownership!vars
  BY FramesStep
<1> QED
  BY <1>1, <1>2, MemoryInductive, PTL
     DEF MemorySpec, ImplementsOwnership, Ownership!Spec

\* Whatever the kernel locks and requests while it sets up its memory, only
\* conventional memory circulates.
THEOREM SetUpKeepsReservations == MemorySpec => []OnlyUsableCirculates
<1>1. MemoryIInv => OnlyUsableCirculates
  BY DEF MemoryIInv, IInv, OnlyUsableCirculates
<1> QED
  BY <1>1, MemoryInductive, PTL

\* The sizes that main prints once memory is set up are those of the bitmap.
THEOREM SetUpAccounts == MemorySpec => []SizesMatchBitMap
<1>1. MemoryIInv => SizesMatchBitMap
  BY SizesMatch DEF MemoryIInv
<1> QED
  BY <1>1, MemoryInductive, PTL
=============================================================================
