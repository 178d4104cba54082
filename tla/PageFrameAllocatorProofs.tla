---------------------- MODULE PageFrameAllocatorProofs ----------------------
(***************************************************************************)
(* Proofs about PageFrameAllocator for every memory map and every value of *)
(* its parameters.                                                         *)
(***************************************************************************)
EXTENDS PageFrameAllocator, FiniteSetTheorems, SequenceTheorems,
        WellFoundedInduction, TLAPS

AllocatorState ==
  [size : Nat, bits : SUBSET Nat, free : Int, used : Int, reserved : Int,
   lastRequested : Nat]

\* An allocator whose bits and hint are within its bitmap.
WellFormed(a) ==
  /\ a \in AllocatorState
  /\ a.bits \subseteq Accepted(a)
  /\ a.lastRequested \in Accepted(a)

\* The inductive invariant.  Before the boot there is nothing; after it, the
\* free counter and the number of set bits have a constant sum.
Unbooted == pfa = Zeroed /\ held = {} /\ freed = {} /\ stray = {}

Balanced(a, map, residue) ==
  /\ a.free + a.used + a.reserved = TotalPages(map)
  /\ a.free + Cardinality(a.bits) = TotalPages(map) + Cardinality(residue)

IInv ==
  /\ TypeOK
  /\ ~g_IsInitialized => Unbooted
  /\ g_IsInitialized => /\ pfa.used = Cardinality(held)
                        /\ Balanced(pfa, memMap, stray)
                        /\ (ClearBits \cup held) \subseteq Usable(memMap)
  /\ StrandedWereFreed

-----------------------------------------------------------------------------
(***************************************************************************)
(* The operators the operations are built from.                            *)
(***************************************************************************)

\* Every nonempty set of naturals has a least element, and Lowest finds it.
LEMMA LowestIsLeast ==
  ASSUME NEW S \in SUBSET Nat, S # {}
  PROVE  Lowest(S) \in S /\ \A y \in S : Lowest(S) <= y
<1>1. PICK x \in S : \A y \in S : ~(<<y, x>> \in OpToRel(<, Nat))
  BY NatLessThanWellFounded, WFMin, Zenon
<1>2. ASSUME NEW y \in S PROVE x <= y
  <2>1. x \in Nat /\ y \in Nat
    OBVIOUS
  <2>2. ~(<<y, x>> \in {ss \in Nat \X Nat : ss[1] < ss[2]})
    BY <1>1 DEF OpToRel
  <2>3. ~(y < x)
    BY <2>1, <2>2
  <2> QED
    BY <2>1, <2>3
<1> QED
  BY <1>2 DEF Lowest

\* The total of a memory map (getTotalMemorySize) is a natural number.
LEMMA TotalPagesType ==
  ASSUME NEW map \in MemoryMaps
  PROVE  TotalPages(map) \in Nat
<1> DEFINE Slots(i) == {i} \X (1 .. map[i].PageCount)
           Family == {Slots(i) : i \in DOMAIN map}
           slotsOf == [i \in DOMAIN map |-> Slots(i)]
<1>1. map \in Seq(Descriptor)
  BY MemoryMapsAssumption
<1>2. IsFiniteSet(DOMAIN map)
  <2>1. DOMAIN map = 1 .. Len(map) /\ Len(map) \in Nat
    BY <1>1
  <2> QED
    BY <2>1, FS_Interval
<1>3. \A i \in DOMAIN map : IsFiniteSet(Slots(i))
  <2> TAKE i \in DOMAIN map
  <2>1. map[i].PageCount \in Nat
    <3>1. map[i] \in Descriptor
      BY <1>1, ElementOfSeq
    <3> QED
      BY <3>1 DEF Descriptor
  <2>2. IsFiniteSet(1 .. map[i].PageCount)
    BY <2>1, FS_Interval
  <2>3. IsFiniteSet({i})
    BY FS_Singleton
  <2> QED
    BY <2>2, <2>3, FS_Product
<1>4. slotsOf \in Surjection(DOMAIN map, Family)
  BY DEF Surjection
<1>5. IsFiniteSet(Family)
  BY <1>2, <1>4, FS_Surjection
<1>6. IsFiniteSet(UNION Family)
  BY <1>3, <1>5, FS_UNION
<1> QED
  BY <1>6, FS_CardinalityType DEF TotalPages

\* The bitmap's bits are no more than the map's pages.
LEMMA BitMapFits ==
  ASSUME NEW map \in MemoryMaps
  PROVE  /\ BitMapBytes(map) \in Nat
         /\ BitMapBytes(map) * ByteBits \in Nat
         /\ BitMapBytes(map) * ByteBits <= TotalPages(map)
<1>1. TotalPages(map) \in Nat /\ ByteBits \in Nat \ {0}
  BY TotalPagesType, ParametersAssumption
<1> DEFINE T == TotalPages(map)
<1>2. T \div ByteBits \in Nat
  BY <1>1
<1>3. T = (ByteBits * (T \div ByteBits)) + (T % ByteBits) /\ (T % ByteBits) \in 0 .. (ByteBits - 1)
  BY <1>1
<1>4. (T \div ByteBits) * ByteBits = ByteBits * (T \div ByteBits)
  BY <1>1, <1>2
<1>5. (T \div ByteBits) * ByteBits \in Nat
  BY <1>1, <1>2
<1>6. T - (T % ByteBits) <= T
  BY <1>1, <1>3
<1> QED
  BY <1>1, <1>2, <1>3, <1>4, <1>5, <1>6 DEF BitMapBytes

LEMMA LastIndexType ==
  ASSUME NEW a \in AllocatorState
  PROVE  LastIndex(a) \in Nat
BY ParametersAssumption DEF LastIndex, AllocatorState

LEMMA BitsAreFinite ==
  ASSUME NEW a, WellFormed(a), NEW S \in SUBSET Accepted(a)
  PROVE  /\ IsFiniteSet(S) /\ Cardinality(S) \in Nat
         /\ Cardinality(Accepted(a)) = LastIndex(a) + 1
<1>1. LastIndex(a) \in Nat
  BY LastIndexType DEF WellFormed
<1>2. /\ IsFiniteSet(Accepted(a))
      /\ Cardinality(Accepted(a)) = LastIndex(a) + 1
  BY <1>1, FS_Interval DEF Accepted
<1> QED
  BY <1>2, FS_Subset, FS_CardinalityType

LEMMA DisjointUnion ==
  ASSUME NEW S, NEW T, IsFiniteSet(S), IsFiniteSet(T), S \cap T = {}
  PROVE  Cardinality(S \cup T) = Cardinality(S) + Cardinality(T)
<1>1. Cardinality(S \cup T)
        = Cardinality(S) + Cardinality(T) - Cardinality(S \cap T)
  BY FS_Union
<1>2. Cardinality(S \cap T) = 0
  BY FS_EmptySet
<1>3. Cardinality(S) \in Nat /\ Cardinality(T) \in Nat
  BY FS_CardinalityType
<1> QED
  BY <1>1, <1>2, <1>3

\* Setting clear bits: their number adds to the number of set bits.
LEMMA SettableBits ==
  ASSUME NEW a, WellFormed(a), NEW pages
  PROVE  LET new == Settable(a, pages)
         IN  /\ new \subseteq Accepted(a) /\ new \cap a.bits = {}
             /\ IsFiniteSet(new) /\ Cardinality(new) \in Nat
             /\ Cardinality(a.bits \cup new)
                  = Cardinality(a.bits) + Cardinality(new)
<1> DEFINE new == Settable(a, pages)
<1>1. new \subseteq Accepted(a) /\ new \cap a.bits = {}
  BY DEF Settable
<1>2. IsFiniteSet(new) /\ Cardinality(new) \in Nat
  BY <1>1, BitsAreFinite
<1>3. IsFiniteSet(a.bits) /\ Cardinality(a.bits) \in Nat
  BY BitsAreFinite DEF WellFormed
<1>4. a.bits \cap new = {}
  BY <1>1
<1> HIDE DEF new
<1>5. Cardinality(a.bits \cup new) = Cardinality(a.bits) + Cardinality(new)
  BY <1>2, <1>3, <1>4, DisjointUnion
<1> QED
  BY <1>1, <1>2, <1>5 DEF new

\* Clearing set bits: their number leaves the number of set bits.
LEMMA ClearableBits ==
  ASSUME NEW a, WellFormed(a), NEW pages
  PROVE  LET new == Clearable(a, pages)
         IN  /\ new \subseteq a.bits /\ new \subseteq pages
             /\ IsFiniteSet(new) /\ Cardinality(new) \in Nat
             /\ Cardinality(a.bits \ new)
                  = Cardinality(a.bits) - Cardinality(new)
<1> DEFINE new == Clearable(a, pages)
           rest == a.bits \ new
<1>1. new \subseteq a.bits /\ new \subseteq pages /\ a.bits \subseteq Accepted(a)
  BY DEF Clearable, WellFormed
<1>2. IsFiniteSet(new) /\ Cardinality(new) \in Nat
  BY <1>1, BitsAreFinite
<1>3. IsFiniteSet(rest) /\ Cardinality(rest) \in Nat
  BY <1>1, BitsAreFinite
<1>4. rest \cap new = {} /\ rest \cup new = a.bits
  BY <1>1
<1> HIDE DEF new, rest
<1>5. Cardinality(a.bits) = Cardinality(rest) + Cardinality(new)
  BY <1>2, <1>3, <1>4, DisjointUnion
<1>6. Cardinality(rest) = Cardinality(a.bits) - Cardinality(new)
  BY <1>2, <1>3, <1>5
<1> QED
  BY <1>1, <1>2, <1>6 DEF new, rest

\* The hint after bits of a range were touched: it never rises, and a page
\* below it was below it before.
LEMMA LoweredHint ==
  ASSUME NEW a, WellFormed(a), NEW new \in SUBSET Accepted(a)
  PROVE  LET hint == Lowest(new \cup {a.lastRequested})
         IN  hint \in Accepted(a) /\ hint <= a.lastRequested
<1> DEFINE S == new \cup {a.lastRequested}
<1>1. S \subseteq Accepted(a) /\ S \subseteq Nat /\ S # {}
  <2>1. Accepted(a) \subseteq Nat
    BY DEF Accepted
  <2> QED
    BY <2>1 DEF WellFormed
<1>2. Lowest(S) \in S /\ Lowest(S) <= a.lastRequested
  BY <1>1, LowestIsLeast
<1> QED
  BY <1>1, <1>2

-----------------------------------------------------------------------------
(***************************************************************************)
(* What each loop over a range of pages does to the bitmap and counters.   *)
(***************************************************************************)

LEMMA ReservePages ==
  ASSUME NEW a, WellFormed(a), NEW pages
  PROVE  LET r == reservePages(a, pages)
         IN  /\ WellFormed(r)
             /\ r.size = a.size
             /\ r.bits = a.bits \cup (pages \cap Accepted(a))
             /\ r.lastRequested = a.lastRequested
             /\ r.used = a.used
             /\ r.free + r.reserved = a.free + a.reserved
             /\ r.free + Cardinality(r.bits) = a.free + Cardinality(a.bits)
<1> DEFINE new == Settable(a, pages)
           n == Cardinality(new)
           r == reservePages(a, pages)
<1>1. /\ new \subseteq Accepted(a) /\ n \in Nat
      /\ Cardinality(a.bits \cup new) = Cardinality(a.bits) + n
      /\ Cardinality(a.bits) \in Nat
  BY SettableBits, BitsAreFinite DEF WellFormed
<1>2. a.bits \cup new = a.bits \cup (pages \cap Accepted(a))
  BY DEF Settable
<1>3. a \in AllocatorState /\ a.bits \subseteq Accepted(a)
  BY DEF WellFormed
<1> HIDE DEF n, new
<1>4. r = [a EXCEPT !.bits = a.bits \cup new, !.free = a.free - n,
                    !.reserved = a.reserved + n]
  BY DEF reservePages, new, n
<1>5. Accepted(a) \subseteq Nat
  BY DEF Accepted
<1>6. /\ r \in AllocatorState
      /\ r.size = a.size /\ r.bits = a.bits \cup new
      /\ r.lastRequested = a.lastRequested /\ r.used = a.used
      /\ r.free = a.free - n /\ r.reserved = a.reserved + n
  <2>1. a.bits \cup new \in SUBSET Nat
    BY <1>1, <1>3, <1>5
  <2>2. a.free - n \in Int /\ a.reserved + n \in Int
    BY <1>1, <1>3 DEF AllocatorState
  <2> QED
    BY <1>3, <1>4, <2>1, <2>2 DEF AllocatorState
<1>7. Accepted(r) = Accepted(a)
  BY <1>6 DEF Accepted, LastIndex
<1>8. WellFormed(r)
  BY <1>1, <1>3, <1>6, <1>7 DEF WellFormed
<1>9. a.free \in Int /\ a.reserved \in Int
  BY <1>3 DEF AllocatorState
<1>10. /\ r.free + r.reserved = a.free + a.reserved
       /\ r.free + Cardinality(r.bits) = a.free + Cardinality(a.bits)
  BY <1>1, <1>6, <1>9
<1> QED
  BY <1>2, <1>6, <1>8, <1>10 DEF r

LEMMA ReleasePages ==
  ASSUME NEW a, WellFormed(a), NEW pages
  PROVE  LET r == releasePages(a, pages)
         IN  /\ WellFormed(r)
             /\ r.size = a.size
             /\ r.bits = a.bits \ pages
             /\ r.lastRequested <= a.lastRequested
             /\ r.used = a.used
             /\ r.free + r.reserved = a.free + a.reserved
             /\ r.free + Cardinality(r.bits) = a.free + Cardinality(a.bits)
<1> DEFINE new == Clearable(a, pages)
           n == Cardinality(new)
           r == releasePages(a, pages)
           hint == Lowest(new \cup {a.lastRequested})
<1>1. /\ new \subseteq Accepted(a) /\ n \in Nat
      /\ Cardinality(a.bits \ new) = Cardinality(a.bits) - n
      /\ Cardinality(a.bits) \in Nat
  BY ClearableBits, BitsAreFinite DEF WellFormed
<1>2. a.bits \ new = a.bits \ pages
  BY DEF Clearable, WellFormed
<1>3. a \in AllocatorState /\ a.bits \subseteq Accepted(a)
  BY DEF WellFormed
<1>4. hint \in Accepted(a) /\ hint <= a.lastRequested
  BY <1>1, LoweredHint
<1> HIDE DEF n, new, hint
<1>5. r = [a EXCEPT !.bits = a.bits \ new, !.free = a.free + n,
                    !.reserved = a.reserved - n, !.lastRequested = hint]
  BY DEF releasePages, new, n, hint
<1>6. Accepted(a) \subseteq Nat
  BY DEF Accepted
<1>7. /\ r \in AllocatorState
      /\ r.size = a.size /\ r.bits = a.bits \ new
      /\ r.lastRequested = hint /\ r.used = a.used
      /\ r.free = a.free + n /\ r.reserved = a.reserved - n
  <2>1. a.bits \ new \in SUBSET Nat
    BY <1>1, <1>3, <1>6
  <2>2. a.free + n \in Int /\ a.reserved - n \in Int
    BY <1>1, <1>3 DEF AllocatorState
  <2>3. hint \in Nat
    BY <1>4, <1>6
  <2> QED
    BY <1>3, <1>5, <2>1, <2>2, <2>3 DEF AllocatorState
<1>8. Accepted(r) = Accepted(a)
  BY <1>7 DEF Accepted, LastIndex
<1>9. WellFormed(r)
  BY <1>3, <1>4, <1>7, <1>8 DEF WellFormed
<1>10. a.free \in Int /\ a.reserved \in Int
  BY <1>3 DEF AllocatorState
<1>11. /\ r.free + r.reserved = a.free + a.reserved
       /\ r.free + Cardinality(r.bits) = a.free + Cardinality(a.bits)
  BY <1>1, <1>7, <1>10
<1> QED
  BY <1>2, <1>4, <1>7, <1>9, <1>11 DEF r

LEMMA LockPagesEffect ==
  ASSUME NEW a, WellFormed(a), NEW pages
  PROVE  LET r == lockPages(a, pages)
             new == Settable(a, pages)
         IN  /\ WellFormed(r)
             /\ r.size = a.size
             /\ r.bits = a.bits \cup new
             /\ r.lastRequested <= a.lastRequested
             /\ r.reserved = a.reserved
             /\ r.used = a.used + Cardinality(new)
             /\ r.free + r.used = a.free + a.used
             /\ r.free + Cardinality(r.bits) = a.free + Cardinality(a.bits)
<1> DEFINE new == Settable(a, pages)
           n == Cardinality(new)
           r == lockPages(a, pages)
           hint == Lowest(new \cup {a.lastRequested})
<1>1. /\ new \subseteq Accepted(a) /\ n \in Nat
      /\ Cardinality(a.bits \cup new) = Cardinality(a.bits) + n
      /\ Cardinality(a.bits) \in Nat
  BY SettableBits, BitsAreFinite DEF WellFormed
<1>3. a \in AllocatorState /\ a.bits \subseteq Accepted(a)
  BY DEF WellFormed
<1>4. hint \in Accepted(a) /\ hint <= a.lastRequested
  BY <1>1, LoweredHint
<1> HIDE DEF n, new, hint
<1>5. r = [a EXCEPT !.bits = a.bits \cup new, !.free = a.free - n,
                    !.used = a.used + n, !.lastRequested = hint]
  BY DEF lockPages, new, n, hint
<1>6. Accepted(a) \subseteq Nat
  BY DEF Accepted
<1>7. /\ r \in AllocatorState
      /\ r.size = a.size /\ r.bits = a.bits \cup new
      /\ r.lastRequested = hint /\ r.reserved = a.reserved
      /\ r.free = a.free - n /\ r.used = a.used + n
  <2>1. a.bits \cup new \in SUBSET Nat
    BY <1>1, <1>3, <1>6
  <2>2. a.free - n \in Int /\ a.used + n \in Int
    BY <1>1, <1>3 DEF AllocatorState
  <2>3. hint \in Nat
    BY <1>4, <1>6
  <2> QED
    BY <1>3, <1>5, <2>1, <2>2, <2>3 DEF AllocatorState
<1>8. Accepted(r) = Accepted(a)
  BY <1>7 DEF Accepted, LastIndex
<1>9. WellFormed(r)
  BY <1>1, <1>3, <1>4, <1>7, <1>8 DEF WellFormed
<1>10. a.free \in Int /\ a.used \in Int
  BY <1>3 DEF AllocatorState
<1>11. /\ r.free + r.used = a.free + a.used
       /\ r.free + Cardinality(r.bits) = a.free + Cardinality(a.bits)
  BY <1>1, <1>7, <1>10
<1> QED
  BY <1>4, <1>7, <1>9, <1>11 DEF r, n, new

LEMMA FreePagesEffect ==
  ASSUME NEW a, WellFormed(a), NEW pages
  PROVE  LET r == freePages(a, pages)
             new == Clearable(a, pages)
         IN  /\ WellFormed(r)
             /\ r.size = a.size
             /\ r.bits = a.bits \ new
             /\ r.lastRequested = a.lastRequested
             /\ r.reserved = a.reserved
             /\ r.used = a.used - Cardinality(new)
             /\ r.free + r.used = a.free + a.used
             /\ r.free + Cardinality(r.bits) = a.free + Cardinality(a.bits)
<1> DEFINE new == Clearable(a, pages)
           n == Cardinality(new)
           r == freePages(a, pages)
<1>1. /\ new \subseteq Accepted(a) /\ n \in Nat
      /\ Cardinality(a.bits \ new) = Cardinality(a.bits) - n
      /\ Cardinality(a.bits) \in Nat
  BY ClearableBits, BitsAreFinite DEF WellFormed
<1>3. /\ a \in AllocatorState /\ a.bits \subseteq Accepted(a)
      /\ a.lastRequested \in Accepted(a)
  BY DEF WellFormed
<1> HIDE DEF n, new
<1>5. r = [a EXCEPT !.bits = a.bits \ new, !.free = a.free + n,
                    !.used = a.used - n]
  BY DEF freePages, new, n
<1>6. Accepted(a) \subseteq Nat
  BY DEF Accepted
<1>7. /\ r \in AllocatorState
      /\ r.size = a.size /\ r.bits = a.bits \ new
      /\ r.lastRequested = a.lastRequested /\ r.reserved = a.reserved
      /\ r.free = a.free + n /\ r.used = a.used - n
  <2>1. a.bits \ new \in SUBSET Nat
    BY <1>1, <1>3, <1>6
  <2>2. a.free + n \in Int /\ a.used - n \in Int
    BY <1>1, <1>3 DEF AllocatorState
  <2> QED
    BY <1>3, <1>5, <2>1, <2>2 DEF AllocatorState
<1>8. Accepted(r) = Accepted(a)
  BY <1>7 DEF Accepted, LastIndex
<1>9. WellFormed(r)
  BY <1>3, <1>7, <1>8 DEF WellFormed
<1>10. a.free \in Int /\ a.used \in Int
  BY <1>3 DEF AllocatorState
<1>11. /\ r.free + r.used = a.free + a.used
       /\ r.free + Cardinality(r.bits) = a.free + Cardinality(a.bits)
  BY <1>1, <1>7, <1>10
<1> QED
  BY <1>7, <1>9, <1>11 DEF r, n, new

\* What readEFIMemoryMap builds, whatever the bit past the buffer held.
LEMMA BootEffect ==
  ASSUME NEW map \in MemoryMaps,
         NEW residue \in SUBSET {BitMapBytes(map) * ByteBits}
  PROVE  LET b == BootState(map, residue)
         IN  /\ WellFormed(b)
             /\ b.size = BitMapBytes(map)
             /\ b.used = 0 /\ b.lastRequested = 0
             /\ Balanced(b, map, residue)
             /\ Accepted(b) \ b.bits \subseteq Usable(map)
<1> DEFINE T        == TotalPages(map)
           built    == [Zeroed EXCEPT !.size = BitMapBytes(map), !.bits = residue,
                                      !.free = T]
           full     == reservePages(built, Pages(0, T + 1))
           released == releasePages(full, ConventionalPages(map))
           ownPages == reservePages(released, BitMapPages(map))
           b        == reservePages(ownPages, Pages(0, LowPages))
           same(a)  == /\ WellFormed(a)
                       /\ a.size = BitMapBytes(map)
                       /\ a.used = 0 /\ a.lastRequested = 0
                       /\ a.free + a.reserved = T
                       /\ a.free + Cardinality(a.bits) = T + Cardinality(residue)
<1>1. /\ T \in Nat /\ BitMapBytes(map) \in Nat
      /\ BitMapBytes(map) * ByteBits \in Nat
      /\ BitMapBytes(map) * ByteBits <= T
  BY TotalPagesType, BitMapFits
<1>2. same(built)
  <2>1. Zeroed \in AllocatorState
    BY FS_EmptySet DEF Zeroed, AllocatorState
  <2>2. /\ BitMapBytes(map) * ByteBits \in Nat /\ residue \in SUBSET Nat
        /\ BitMapBytes(map) \in Nat /\ T \in Int
    BY <1>1
  <2> HIDE DEF T
  <2>3. built = [Zeroed EXCEPT !.size = BitMapBytes(map), !.bits = residue,
                               !.free = T]
    OBVIOUS
  <2> HIDE DEF built
  <2>4. /\ built \in AllocatorState
        /\ built.size = BitMapBytes(map) /\ built.bits = residue
        /\ built.free = T
        /\ built.used = 0 /\ built.reserved = 0 /\ built.lastRequested = 0
    <3>1. Zeroed.used = 0 /\ Zeroed.reserved = 0 /\ Zeroed.lastRequested = 0
      BY DEF Zeroed
    <3> QED
      BY <2>1, <2>2, <2>3, <3>1 DEF AllocatorState
  <2>5. Accepted(built) = 0 .. (BitMapBytes(map) * ByteBits)
    BY <2>4 DEF Accepted, LastIndex
  <2>6. residue \subseteq Accepted(built) /\ 0 \in Accepted(built)
    BY <2>2, <2>5
  <2>7. WellFormed(built)
    BY <2>4, <2>6 DEF WellFormed
  <2>8. /\ built.free + built.reserved = T
        /\ built.free + Cardinality(built.bits) = T + Cardinality(residue)
    BY <1>1, <2>4
  <2> QED
    BY <2>4, <2>7, <2>8
<1> HIDE DEF built
<1>3. same(full) /\ full.bits = Accepted(full)
  <2>1. full.bits = built.bits \cup (Pages(0, T + 1) \cap Accepted(built))
    BY <1>2, ReservePages
  <2>2. same(full)
    BY <1>2, ReservePages
  <2>3. Accepted(full) = Accepted(built)
    BY <1>2, <2>2 DEF Accepted, LastIndex
  <2>4. Accepted(built) \subseteq Pages(0, T + 1)
    BY <1>1, <1>2 DEF Accepted, LastIndex, Pages
  <2>5. built.bits \subseteq Accepted(built)
    BY <1>2 DEF WellFormed
  <2> QED
    BY <2>1, <2>2, <2>3, <2>4, <2>5
<1> HIDE DEF full
<1>4. same(released) /\ released.bits = Accepted(full) \ ConventionalPages(map)
  <2>1. /\ WellFormed(released) /\ released.size = full.size
        /\ released.bits = full.bits \ ConventionalPages(map)
        /\ released.lastRequested <= full.lastRequested
        /\ released.used = full.used
        /\ released.free + released.reserved = full.free + full.reserved
        /\ released.free + Cardinality(released.bits)
             = full.free + Cardinality(full.bits)
    BY <1>3, ReleasePages
  <2>2. released.lastRequested = 0
    <3>1. released.lastRequested \in Nat /\ released.lastRequested <= 0
      BY <1>3, <2>1 DEF WellFormed, AllocatorState
    <3> QED
      BY <3>1
  <2> QED
    BY <1>3, <2>1, <2>2
<1> HIDE DEF released
<1>5. /\ same(ownPages)
      /\ ownPages.bits = released.bits \cup (BitMapPages(map) \cap Accepted(released))
  BY <1>4, ReservePages
<1> HIDE DEF ownPages
<1>6. /\ same(b)
      /\ b.bits = ownPages.bits \cup (Pages(0, LowPages) \cap Accepted(ownPages))
  BY <1>5, ReservePages
<1>7. /\ Accepted(full) = Accepted(b) /\ Accepted(released) = Accepted(b)
      /\ Accepted(ownPages) = Accepted(b)
  BY <1>3, <1>4, <1>5, <1>6 DEF Accepted, LastIndex
<1>8. Accepted(b) \ b.bits \subseteq Usable(map)
  BY <1>4, <1>5, <1>6, <1>7 DEF Usable
<1> HIDE DEF b
<1>9. Balanced(b, map, residue)
  <2>1. b.free \in Int /\ b.reserved \in Int /\ b.used = 0
    BY <1>6 DEF WellFormed, AllocatorState
  <2> QED
    BY <1>1, <1>6, <2>1 DEF Balanced
<1>10. b = BootState(map, residue)
  BY DEF BootState, b, ownPages, released, full, built
<1> QED
  BY <1>6, <1>8, <1>9, <1>10

\* The page requestPage finds is the lowest clear one from the hint on.
LEMMA FoundPage ==
  ASSUME NEW a, WellFormed(a), Found(a) # {}
  PROVE  LET f == Lowest(Found(a))
         IN  /\ f \in Accepted(a) \ a.bits
             /\ a.lastRequested <= f
             /\ \A p \in Accepted(a) \ a.bits :
                  a.lastRequested <= p /\ p < f => FALSE
             /\ WellFormed([a EXCEPT !.lastRequested = f])
<1> DEFINE f == Lowest(Found(a))
<1>1. a.lastRequested \in Nat /\ LastIndex(a) \in Nat /\ a \in AllocatorState
  BY LastIndexType DEF WellFormed, AllocatorState
<1>2. Found(a) \subseteq Nat
  BY <1>1 DEF Found
<1>3. f \in Found(a) /\ \A y \in Found(a) : f <= y
  BY <1>2, LowestIsLeast
<1> HIDE DEF f
<1>4. f \in Accepted(a) \ a.bits /\ a.lastRequested <= f /\ f < LastIndex(a)
  BY <1>1, <1>3 DEF Found, Accepted
<1>5. ASSUME NEW p \in Accepted(a) \ a.bits, a.lastRequested <= p, p < f
      PROVE  FALSE
  <2>1. p \in Found(a)
    BY <1>1, <1>4, <1>5 DEF Found, Accepted
  <2>2. p \in Nat /\ f \in Nat
    BY <1>4 DEF Accepted
  <2> QED
    BY <1>3, <1>5, <2>1, <2>2
<1>6. WellFormed([a EXCEPT !.lastRequested = f])
  <2> DEFINE c == [a EXCEPT !.lastRequested = f]
  <2>1. f \in Nat
    BY <1>4 DEF Accepted
  <2>2. /\ c \in AllocatorState /\ c.bits = a.bits /\ c.size = a.size
        /\ c.lastRequested = f
    BY <1>1, <2>1 DEF AllocatorState
  <2>3. Accepted(c) = Accepted(a)
    BY <2>2 DEF Accepted, LastIndex
  <2> QED
    BY <1>4, <2>2, <2>3 DEF WellFormed
<1> QED
  BY <1>4, <1>5, <1>6 DEF f

\* A request that finds a page.
LEMMA RequestEffect ==
  ASSUME NEW a, WellFormed(a), Found(a) # {}
  PROVE  LET r == AfterRequest(a)
             f == Lowest(Found(a))
         IN  /\ WellFormed(r)
             /\ r.size = a.size
             /\ r.bits = a.bits \cup {f}
             /\ r.lastRequested <= f
             /\ r.reserved = a.reserved
             /\ r.used = a.used + 1
             /\ r.free + r.used = a.free + a.used
             /\ r.free + Cardinality(r.bits) = a.free + Cardinality(a.bits)
<1> DEFINE f == Lowest(Found(a))
           c == [a EXCEPT !.lastRequested = f]
<1>1. f \in Accepted(a) \ a.bits /\ WellFormed(c)
  BY FoundPage
<1>2. /\ c.bits = a.bits /\ c.size = a.size /\ c.free = a.free
      /\ c.used = a.used /\ c.reserved = a.reserved
      /\ c.lastRequested = f
  BY DEF WellFormed, AllocatorState
<1> HIDE DEF f
<1>3. AfterRequest(a) = lockPages(c, {f})
  BY DEF AfterRequest, f
<1> HIDE DEF c
<1>4. Accepted(c) = Accepted(a)
  BY <1>2 DEF Accepted, LastIndex
<1>5. Settable(c, {f}) = {f}
  BY <1>1, <1>2, <1>4 DEF Settable
<1>6. Cardinality(Settable(c, {f})) = 1
  BY <1>5, FS_Singleton, Zenon
<1> DEFINE r == lockPages(c, {f})
<1>7. /\ WellFormed(r)
      /\ r.size = c.size /\ r.bits = c.bits \cup Settable(c, {f})
      /\ r.lastRequested <= c.lastRequested
      /\ r.reserved = c.reserved /\ r.used = c.used + 1
      /\ r.free + r.used = c.free + c.used
      /\ r.free + Cardinality(r.bits) = c.free + Cardinality(c.bits)
  BY <1>1, <1>6, LockPagesEffect
<1> HIDE DEF r
<1> QED
  BY <1>2, <1>3, <1>5, <1>7 DEF f, r

\* A request that finds none leaves all but the hint.
LEMMA RefusalEffect ==
  ASSUME NEW a, WellFormed(a), Found(a) = {}
  PROVE  LET r == AfterRequest(a)
         IN  /\ WellFormed(r)
             /\ r.size = a.size /\ r.bits = a.bits /\ r.free = a.free
             /\ r.used = a.used /\ r.reserved = a.reserved
             /\ r.lastRequested = LastIndex(a)
<1> DEFINE r == [a EXCEPT !.lastRequested = LastIndex(a)]
<1>1. AfterRequest(a) = r
  BY DEF AfterRequest
<1>2. LastIndex(a) \in Nat /\ a \in AllocatorState
  BY LastIndexType DEF WellFormed
<1>3. /\ r \in AllocatorState
      /\ r.size = a.size /\ r.bits = a.bits /\ r.free = a.free
      /\ r.used = a.used /\ r.reserved = a.reserved
      /\ r.lastRequested = LastIndex(a)
  BY <1>2 DEF AllocatorState
<1>4. Accepted(r) = Accepted(a) /\ LastIndex(a) \in Accepted(a)
  BY <1>2, <1>3 DEF Accepted, LastIndex
<1>5. WellFormed(r)
  BY <1>3, <1>4 DEF WellFormed
<1> QED
  BY <1>1, <1>3, <1>5

-----------------------------------------------------------------------------
(***************************************************************************)
(* The invariant.                                                          *)
(***************************************************************************)

LEMMA TypedIsWellFormed ==
  ASSUME TypeOK
  PROVE  WellFormed(pfa) /\ Indexes = Accepted(pfa) /\ Indexes \subseteq Nat
BY DEF TypeOK, WellFormed, AllocatorState, Indexes, Accepted

LEMMA WellFormedIsTyped ==
  ASSUME WellFormed(pfa)'
  PROVE  (pfa \in [size : Nat, bits : SUBSET Indexes, free : Int, used : Int,
                   reserved : Int, lastRequested : Indexes])'
BY DEF WellFormed, AllocatorState, Indexes, Accepted

LEMMA InitIInv == Init => IInv
<1> SUFFICES ASSUME Init PROVE IInv
  OBVIOUS
<1>1. pfa = Zeroed /\ held = {} /\ freed = {} /\ stray = {} /\ ~g_IsInitialized
  BY DEF Init
<1>2. Indexes = {0}
  <2>1. 0 * ByteBits = 0
    BY ParametersAssumption
  <2> QED
    BY <1>1, <2>1 DEF Indexes, Accepted, LastIndex, Zeroed
<1>3. TypeOK
  <2>1. Zeroed \in [size : Nat, bits : SUBSET Indexes, free : Int, used : Int,
                    reserved : Int, lastRequested : Indexes]
    BY <1>2 DEF Zeroed
  <2> QED
    BY <1>1, <1>2, <2>1 DEF Init, TypeOK, nullptr
<1>4. StrandedWereFreed
  BY <1>1, <1>2 DEF StrandedWereFreed, ClearBits, Zeroed
<1> QED
  BY <1>1, <1>3, <1>4 DEF IInv, Unbooted

LEMMA StutterIInv == IInv /\ UNCHANGED vars => IInv'
BY DEF IInv, Unbooted, Balanced, TypeOK, StrandedWereFreed, ClearBits, Indexes,
       Accepted, LastIndex, vars

LEMMA ReadEFIMemoryMapIInv == IInv /\ ReadEFIMemoryMap => IInv'
<1> SUFFICES ASSUME IInv, ReadEFIMemoryMap PROVE IInv'
  OBVIOUS
<1>1. /\ ~g_IsInitialized /\ g_IsInitialized' = TRUE
      /\ stray' \in SUBSET {BitMapBytes(memMap) * ByteBits}
      /\ pfa' = BootState(memMap, stray')
      /\ memMap' = memMap /\ answer' = answer /\ held' = held /\ freed' = freed
  BY DEF ReadEFIMemoryMap
<1>2. memMap \in MemoryMaps /\ pfa = Zeroed /\ held = {} /\ freed = {}
  BY <1>1 DEF IInv, TypeOK, Unbooted
<1>3. /\ WellFormed(pfa') /\ pfa'.size = BitMapBytes(memMap)
      /\ pfa'.used = 0 /\ pfa'.lastRequested = 0
      /\ Balanced(pfa', memMap, stray')
      /\ Accepted(pfa') \ pfa'.bits \subseteq Usable(memMap)
  BY <1>1, <1>2, BootEffect
<1>4. Accepted(pfa') \subseteq Nat /\ 0 \in Accepted(pfa')
  BY <1>3 DEF Accepted, WellFormed
<1>5. TypeOK'
  <2>1. answer' \in Indexes'
    <3>1. answer = 0
      <4>1. answer \in 0 .. (0 * ByteBits) /\ 0 * ByteBits = 0
        BY <1>2, ParametersAssumption
           DEF IInv, TypeOK, Indexes, Accepted, LastIndex, Zeroed
      <4> QED
        BY <4>1
    <3> QED
      BY <1>1, <1>4, <3>1 DEF Indexes
  <2>2. stray' \subseteq {LastIndex(pfa')}
    BY <1>1, <1>3 DEF LastIndex
  <2> QED
    BY <1>1, <1>2, <1>3, <2>1, <2>2, WellFormedIsTyped DEF TypeOK
<1>6. pfa'.used = Cardinality(held')
  BY <1>1, <1>2, <1>3, FS_EmptySet
<1>7. (ClearBits \cup held)' \subseteq Usable(memMap')
  BY <1>1, <1>2, <1>3 DEF ClearBits, Indexes
<1>8. StrandedWereFreed'
  BY <1>3, <1>4 DEF StrandedWereFreed, ClearBits, Indexes
<1> QED
  BY <1>1, <1>3, <1>5, <1>6, <1>7, <1>8 DEF IInv, Unbooted

\* What every later step of the allocator has in common.
LEMMA LaterStep ==
  ASSUME IInv, WellFormed(pfa'), pfa'.size = pfa.size,
         memMap' = memMap, g_IsInitialized' = g_IsInitialized, stray' = stray,
         answer' \in Indexes,
         held' \subseteq pfa'.bits, freed' \subseteq ClearBits'
  PROVE  TypeOK' /\ Indexes' = Indexes
<1>1. Indexes' = Indexes /\ LastIndex(pfa') = LastIndex(pfa)
  BY DEF Indexes, Accepted, LastIndex
<1> QED
  BY <1>1, WellFormedIsTyped DEF IInv, TypeOK

\* The clauses on the counters and on what circulates, for a step after boot
\* that moves pages between the clear bits and the clients.
LEMMA BalancedStep ==
  ASSUME IInv, g_IsInitialized, WellFormed(pfa'),
         memMap' = memMap, stray' = stray,
         pfa'.reserved = pfa.reserved,
         pfa'.free + pfa'.used = pfa.free + pfa.used,
         pfa'.free + Cardinality(pfa'.bits) = pfa.free + Cardinality(pfa.bits)
  PROVE  Balanced(pfa', memMap', stray')
<1>1. WellFormed(pfa) /\ Balanced(pfa, memMap, stray)
  BY TypedIsWellFormed DEF IInv
<1>2. /\ pfa.free \in Int /\ pfa.used \in Int /\ pfa.reserved \in Int
      /\ pfa'.free \in Int /\ pfa'.used \in Int
  BY <1>1 DEF WellFormed, AllocatorState
<1>3. pfa'.free + pfa'.used + pfa'.reserved = pfa.free + pfa.used + pfa.reserved
  BY <1>2
<1> QED
  BY <1>1, <1>3 DEF Balanced

LEMMA RequestPageIInv == IInv /\ RequestPage => IInv'
<1> SUFFICES ASSUME IInv, RequestPage PROVE IInv'
  OBVIOUS
<1>1. /\ pfa' = AfterRequest(pfa)
      /\ memMap' = memMap /\ g_IsInitialized' = g_IsInitialized
      /\ stray' = stray
  BY DEF RequestPage
<1>2. WellFormed(pfa) /\ Indexes = Accepted(pfa) /\ Indexes \subseteq Nat
  BY TypedIsWellFormed DEF IInv
<1>3. TypeOK /\ StrandedWereFreed
  BY DEF IInv
<1>4. CASE Found(pfa) = {}
  <2>1. answer' = 0 /\ held' = held /\ freed' = freed
    BY <1>4 DEF RequestPage, nullptr
  <2>2. /\ WellFormed(pfa') /\ pfa'.size = pfa.size /\ pfa'.bits = pfa.bits
        /\ pfa'.free = pfa.free /\ pfa'.used = pfa.used
        /\ pfa'.reserved = pfa.reserved /\ pfa'.lastRequested = LastIndex(pfa)
    BY <1>1, <1>2, <1>4, RefusalEffect
  <2>3. Indexes' = Indexes /\ ClearBits' = ClearBits
    BY <2>2 DEF Indexes, Accepted, LastIndex, ClearBits
  <2>4. TypeOK'
    <3>1. 0 \in Indexes
      BY <1>2, LastIndexType DEF Accepted, WellFormed
    <3> QED
      BY <1>1, <1>3, <2>1, <2>2, <2>3, <3>1, LaterStep DEF TypeOK
  <2>5. ~g_IsInitialized' => Unbooted'
    <3> SUFFICES ASSUME ~g_IsInitialized PROVE Unbooted'
      BY <1>1
    <3>1. Unbooted
      BY DEF IInv
    <3>2. LastIndex(Zeroed) = 0 /\ Zeroed.lastRequested = 0
      BY ParametersAssumption DEF LastIndex, Zeroed
    <3>3. pfa' = Zeroed
      BY <1>1, <1>4, <3>1, <3>2 DEF AfterRequest, Unbooted, Zeroed
    <3> QED
      BY <1>1, <2>1, <3>1, <3>3 DEF Unbooted
  <2>6. g_IsInitialized' => /\ pfa'.used = Cardinality(held')
                            /\ Balanced(pfa', memMap', stray')
                            /\ (ClearBits \cup held)' \subseteq Usable(memMap')
    BY <1>1, <2>1, <2>2, <2>3 DEF IInv, Balanced
  <2>7. StrandedWereFreed'
    <3> SUFFICES ASSUME NEW p \in ClearBits, p < LastIndex(pfa)
                 PROVE  p \in freed
      BY <2>1, <2>2, <2>3 DEF StrandedWereFreed
    <3>1. p \in Nat /\ pfa.lastRequested \in Nat /\ LastIndex(pfa) \in Nat
      BY <1>2, LastIndexType DEF ClearBits, WellFormed, AllocatorState
    <3>2. p < pfa.lastRequested
      BY <1>2, <1>4, <3>1 DEF Found, ClearBits
    <3> QED
      BY <1>3, <3>2 DEF StrandedWereFreed
  <2> QED
    BY <2>4, <2>5, <2>6, <2>7 DEF IInv
<1>5. CASE Found(pfa) # {}
  <2> DEFINE f == Lowest(Found(pfa))
  <2>1. answer' = f /\ held' = held \cup {f} /\ freed' = freed \ {f}
    BY <1>5 DEF RequestPage
  <2>2. /\ f \in Accepted(pfa) \ pfa.bits
        /\ \A p \in Accepted(pfa) \ pfa.bits :
             pfa.lastRequested <= p /\ p < f => FALSE
    BY <1>2, <1>5, FoundPage
  <2>3. /\ WellFormed(pfa') /\ pfa'.size = pfa.size
        /\ pfa'.bits = pfa.bits \cup {f} /\ pfa'.lastRequested <= f
        /\ pfa'.reserved = pfa.reserved /\ pfa'.used = pfa.used + 1
        /\ pfa'.free + pfa'.used = pfa.free + pfa.used
        /\ pfa'.free + Cardinality(pfa'.bits) = pfa.free + Cardinality(pfa.bits)
    BY <1>1, <1>2, <1>5, RequestEffect
  <2> HIDE DEF f
  <2>4. g_IsInitialized
    <3> SUFFICES ASSUME ~g_IsInitialized PROVE FALSE
      BY <1>3 DEF TypeOK
    <3>1. pfa = Zeroed /\ 0 * ByteBits = 0
      BY ParametersAssumption DEF IInv, Unbooted
    <3> QED
      BY <1>5, <3>1 DEF Found, LastIndex, Zeroed
  <2>5. ClearBits' = ClearBits \ {f} /\ Accepted(pfa') = Accepted(pfa)
    BY <2>3 DEF ClearBits, Indexes, Accepted, LastIndex
  <2>6. TypeOK'
    <3>1. held' \subseteq pfa'.bits /\ freed' \subseteq ClearBits'
      BY <1>3, <2>1, <2>3, <2>5 DEF TypeOK
    <3> QED
      BY <1>1, <1>2, <2>1, <2>2, <2>3, <3>1, LaterStep
  <2>7. pfa'.used = Cardinality(held')
    <3>1. f \notin held /\ held \subseteq Accepted(pfa)
      BY <1>2, <1>3, <2>2 DEF TypeOK, WellFormed
    <3>2. IsFiniteSet(held)
      BY <1>2, <3>1, BitsAreFinite
    <3>3. Cardinality(held \cup {f}) = Cardinality(held) + 1
      BY <3>1, <3>2, FS_AddElement
    <3>4. pfa.used = Cardinality(held)
      BY <2>4 DEF IInv
    <3> QED
      BY <2>1, <2>3, <3>3, <3>4
  <2>8. Balanced(pfa', memMap', stray')
    BY <1>1, <2>3, <2>4, BalancedStep
  <2>9. (ClearBits \cup held)' \subseteq Usable(memMap')
    <3>1. (ClearBits \cup held) \subseteq Usable(memMap) /\ f \in ClearBits
      BY <1>2, <2>2, <2>4 DEF IInv, ClearBits
    <3> QED
      BY <1>1, <2>1, <2>5, <3>1
  <2>10. StrandedWereFreed'
    <3> SUFFICES ASSUME NEW p \in ClearBits', p < pfa'.lastRequested
                 PROVE  p \in freed'
      BY DEF StrandedWereFreed
    <3>1. p \in ClearBits /\ p # f /\ p \in Accepted(pfa) \ pfa.bits
      BY <1>2, <2>5 DEF ClearBits
    <3>2. /\ p \in Nat /\ f \in Nat /\ pfa.lastRequested \in Nat
          /\ pfa'.lastRequested \in Nat
      BY <1>2, <2>2, <2>3, <3>1 DEF WellFormed, AllocatorState
    <3>3. p < f
      BY <2>3, <3>2
    <3>4. p < pfa.lastRequested
      BY <2>2, <3>1, <3>2, <3>3
    <3> QED
      BY <1>3, <2>1, <3>1, <3>4 DEF StrandedWereFreed
  <2> QED
    BY <1>1, <2>4, <2>6, <2>7, <2>8, <2>9, <2>10 DEF IInv
<1> QED
  BY <1>4, <1>5

LEMMA LockRangeIInv ==
  ASSUME IInv, NEW pages, LockRange(pages)
  PROVE  IInv'
<1>1. /\ pfa' = lockPages(pfa, pages)
      /\ held' = held \cup Settable(pfa, pages)
      /\ freed' = freed \ pages
  BY DEF LockRange
<1> DEFINE new == Settable(pfa, pages)
<1>2. /\ g_IsInitialized /\ memMap' = memMap
      /\ g_IsInitialized' = g_IsInitialized
      /\ answer' = answer /\ stray' = stray
  BY DEF LockRange
<1>3. WellFormed(pfa) /\ Indexes = Accepted(pfa) /\ Indexes \subseteq Nat
  BY TypedIsWellFormed DEF IInv
<1>4. TypeOK /\ StrandedWereFreed
  BY DEF IInv
<1>5. new = (pages \cap Indexes) \ pfa.bits
  BY <1>3 DEF Settable
<1>6. held \subseteq pfa.bits /\ freed \subseteq ClearBits
  BY <1>4 DEF TypeOK
<1> HIDE DEF new
<1>7. /\ WellFormed(pfa') /\ pfa'.size = pfa.size
      /\ pfa'.bits = pfa.bits \cup new
      /\ pfa'.lastRequested <= pfa.lastRequested
      /\ pfa'.reserved = pfa.reserved
      /\ pfa'.used = pfa.used + Cardinality(new)
      /\ pfa'.free + pfa'.used = pfa.free + pfa.used
      /\ pfa'.free + Cardinality(pfa'.bits) = pfa.free + Cardinality(pfa.bits)
  BY <1>1, <1>3, LockPagesEffect DEF new
<1>8. held' = held \cup new /\ freed' = freed \ pages
  BY <1>1 DEF new
<1>9. ClearBits' = ClearBits \ new
  BY <1>3, <1>7 DEF ClearBits, Indexes, Accepted, LastIndex
<1>10. TypeOK'
  <2>1. held' \subseteq pfa'.bits
    BY <1>6, <1>7, <1>8
  <2>2. freed' \subseteq ClearBits'
    BY <1>5, <1>6, <1>8, <1>9
  <2>3. answer' \in Indexes
    BY <1>2, <1>4 DEF TypeOK
  <2> QED
    BY <1>2, <1>7, <2>1, <2>2, <2>3, LaterStep
<1>11. pfa'.used = Cardinality(held')
  <2>1. IsFiniteSet(new) /\ IsFiniteSet(held) /\ held \cap new = {}
    <3>1. new \subseteq Accepted(pfa) /\ held \subseteq Accepted(pfa)
      BY <1>3, <1>5, <1>6 DEF WellFormed
    <3> QED
      BY <1>3, <1>5, <1>6, <3>1, BitsAreFinite
  <2>2. Cardinality(held \cup new) = Cardinality(held) + Cardinality(new)
    BY <2>1, DisjointUnion
  <2>3. pfa.used = Cardinality(held)
    BY <1>2 DEF IInv
  <2> QED
    BY <1>7, <1>8, <2>2, <2>3
<1>12. Balanced(pfa', memMap', stray')
  BY <1>2, <1>7, BalancedStep
<1>13. (ClearBits \cup held)' \subseteq Usable(memMap')
  <2>1. ClearBits \cup held \subseteq Usable(memMap)
    BY <1>2 DEF IInv
  <2>2. new \subseteq ClearBits
    BY <1>5 DEF ClearBits
  <2> QED
    BY <1>2, <1>8, <1>9, <2>1, <2>2
<1>14. StrandedWereFreed'
  <2> SUFFICES ASSUME NEW p \in ClearBits', p < pfa'.lastRequested
               PROVE  p \in freed'
    BY DEF StrandedWereFreed
  <2>1. p \in ClearBits /\ p \notin new
    BY <1>9
  <2>2. p \notin pages
    BY <1>5, <2>1 DEF ClearBits
  <2>3. p \in Nat /\ pfa.lastRequested \in Nat /\ pfa'.lastRequested \in Nat
    BY <1>3, <1>7, <2>1 DEF ClearBits, WellFormed, AllocatorState
  <2>4. p < pfa.lastRequested
    BY <1>7, <2>3
  <2> QED
    BY <1>4, <1>8, <2>1, <2>2, <2>4 DEF StrandedWereFreed
<1> QED
  BY <1>2, <1>10, <1>11, <1>12, <1>13, <1>14 DEF IInv

LEMMA LockPagesIInv == IInv /\ LockPages => IInv'
BY LockRangeIInv DEF LockPages

LEMMA FreePagesIInv == IInv /\ FreePages => IInv'
<1> SUFFICES ASSUME IInv, FreePages PROVE IInv'
  OBVIOUS
<1>1. PICK first \in held, count \in 0 .. MaxCount :
        /\ Pages(first, count) \subseteq held
        /\ pfa' = freePages(pfa, Pages(first, count))
        /\ held' = held \ Pages(first, count)
        /\ freed' = freed \cup Pages(first, count)
  BY DEF FreePages
<1> DEFINE pages == Pages(first, count)
<1>2. /\ g_IsInitialized /\ memMap' = memMap
      /\ g_IsInitialized' = g_IsInitialized
      /\ answer' = answer /\ stray' = stray
  BY DEF FreePages
<1>3. WellFormed(pfa) /\ Indexes = Accepted(pfa) /\ Indexes \subseteq Nat
  BY TypedIsWellFormed DEF IInv
<1>4. TypeOK /\ StrandedWereFreed
  BY DEF IInv
<1>5. held \subseteq pfa.bits /\ freed \subseteq ClearBits
      /\ pages \subseteq held /\ pfa.bits \subseteq Accepted(pfa)
  BY <1>1, <1>3, <1>4 DEF TypeOK, WellFormed
<1> HIDE DEF pages
<1>6. Clearable(pfa, pages) = pages
  BY <1>5 DEF Clearable
<1>7. /\ WellFormed(pfa') /\ pfa'.size = pfa.size
      /\ pfa'.bits = pfa.bits \ Clearable(pfa, pages)
      /\ pfa'.lastRequested = pfa.lastRequested
      /\ pfa'.reserved = pfa.reserved
      /\ pfa'.used = pfa.used - Cardinality(Clearable(pfa, pages))
      /\ pfa'.free + pfa'.used = pfa.free + pfa.used
      /\ pfa'.free + Cardinality(pfa'.bits) = pfa.free + Cardinality(pfa.bits)
  BY <1>1, <1>3, FreePagesEffect DEF pages
<1>8. held' = held \ pages /\ freed' = freed \cup pages
  BY <1>1 DEF pages
<1>9. pfa'.bits = pfa.bits \ pages /\ pages \subseteq Indexes
  BY <1>3, <1>5, <1>6, <1>7
<1>10. ClearBits' = ClearBits \cup pages
  BY <1>5, <1>7, <1>9 DEF ClearBits, Indexes, Accepted, LastIndex
<1>11. TypeOK'
  <2>1. held' \subseteq pfa'.bits /\ freed' \subseteq ClearBits'
    BY <1>5, <1>8, <1>9, <1>10
  <2>2. answer' \in Indexes
    BY <1>2, <1>4 DEF TypeOK
  <2> QED
    BY <1>2, <1>7, <2>1, <2>2, LaterStep
<1>12. pfa'.used = Cardinality(held')
  <2>1. IsFiniteSet(held \ pages) /\ IsFiniteSet(pages)
    BY <1>3, <1>5, BitsAreFinite
  <2>2. held = (held \ pages) \cup pages
    BY <1>5
  <2>3. Cardinality((held \ pages) \cup pages)
          = Cardinality(held \ pages) + Cardinality(pages)
    BY <2>1, DisjointUnion
  <2>4. Cardinality(held) = Cardinality(held \ pages) + Cardinality(pages)
    BY <2>2, <2>3, Zenon
  <2>5. Cardinality(Clearable(pfa, pages)) = Cardinality(pages)
    BY <1>6, Zenon
  <2>6. pfa.used = Cardinality(held)
    BY <1>2 DEF IInv
  <2>7. Cardinality(held \ pages) \in Nat /\ Cardinality(pages) \in Nat
    BY <2>1, FS_CardinalityType
  <2> QED
    BY <1>7, <1>8, <2>4, <2>5, <2>6, <2>7
<1>13. Balanced(pfa', memMap', stray')
  BY <1>2, <1>7, BalancedStep
<1>14. (ClearBits \cup held)' \subseteq Usable(memMap')
  <2>1. ClearBits \cup held \subseteq Usable(memMap)
    BY <1>2 DEF IInv
  <2> QED
    BY <1>2, <1>5, <1>8, <1>10, <2>1
<1>15. StrandedWereFreed'
  BY <1>4, <1>7, <1>8, <1>10 DEF StrandedWereFreed
<1> QED
  BY <1>2, <1>11, <1>12, <1>13, <1>14, <1>15 DEF IInv

THEOREM InductiveInvariant == Spec => []IInv
<1>1. Init => IInv
  BY InitIInv
<1>2. IInv /\ [Next]_vars => IInv'
  <2> SUFFICES ASSUME IInv, [Next]_vars PROVE IInv'
    OBVIOUS
  <2>1. CASE ReadEFIMemoryMap
    BY <2>1, ReadEFIMemoryMapIInv
  <2>2. CASE RequestPage
    BY <2>2, RequestPageIInv
  <2>3. CASE LockPages
    BY <2>3, LockPagesIInv
  <2>4. CASE FreePages
    BY <2>4, FreePagesIInv
  <2>5. CASE UNCHANGED vars
    BY <2>5, StutterIInv
  <2> QED
    BY <2>1, <2>2, <2>3, <2>4, <2>5 DEF Next
<1> QED
  BY <1>1, <1>2, PTL DEF Spec

-----------------------------------------------------------------------------
(***************************************************************************)
(* The theorems.                                                           *)
(***************************************************************************)

\* Every value the allocator's state can take, whatever the memory map.
THEOREM TypeCorrect == Spec => []TypeOK
<1>1. IInv => TypeOK
  BY DEF IInv
<1> QED
  BY <1>1, InductiveInvariant, PTL

\* No request, lock or free ever puts a page of the firmware, of the bitmap
\* or of the first megabyte into circulation.
THEOREM Safety == Spec => []OnlyUsableCirculates
<1>1. IInv => OnlyUsableCirculates
  BY DEF IInv, OnlyUsableCirculates
<1> QED
  BY <1>1, InductiveInvariant, PTL

\* The bitmap's parts add up to its bits, and the counters follow them.
LEMMA SizesMatch == IInv => SizesMatchBitMap
<1> SUFFICES ASSUME IInv, g_IsInitialized
             PROVE  /\ pfa.used = Cardinality(held)
                    /\ pfa.free + pfa.used + pfa.reserved = TotalPages(memMap)
                    /\ pfa.free = Cardinality(ClearBits)
                         + (TotalPages(memMap) - LastIndex(pfa))
                         - 1 + Cardinality(stray)
  BY DEF SizesMatchBitMap
<1>1. pfa.used = Cardinality(held) /\ Balanced(pfa, memMap, stray)
  BY DEF IInv
<1>2. WellFormed(pfa) /\ Indexes = Accepted(pfa)
  BY TypedIsWellFormed DEF IInv
<1>3. /\ IsFiniteSet(ClearBits) /\ IsFiniteSet(pfa.bits)
      /\ Cardinality(ClearBits) \in Nat /\ Cardinality(pfa.bits) \in Nat
      /\ Cardinality(Indexes) = LastIndex(pfa) + 1
  BY <1>2, BitsAreFinite DEF ClearBits, WellFormed
<1>4. ClearBits \cap pfa.bits = {} /\ ClearBits \cup pfa.bits = Indexes
  BY <1>2 DEF ClearBits, WellFormed
<1>5. Cardinality(ClearBits \cup pfa.bits)
        = Cardinality(ClearBits) + Cardinality(pfa.bits)
  BY <1>3, <1>4, DisjointUnion
<1>6. Cardinality(ClearBits \cup pfa.bits) = LastIndex(pfa) + 1
  BY <1>3, <1>4, Zenon
<1>7. /\ LastIndex(pfa) \in Nat /\ TotalPages(memMap) \in Nat
      /\ Cardinality(stray) \in Nat /\ pfa.free \in Int
  <2>1. stray \subseteq Accepted(pfa)
    BY <1>2, LastIndexType DEF IInv, TypeOK, Accepted, WellFormed
  <2> QED
    BY <1>2, <2>1, LastIndexType, TotalPagesType, BitsAreFinite
       DEF IInv, TypeOK, WellFormed, AllocatorState
<1> QED
  BY <1>1, <1>3, <1>5, <1>6, <1>7 DEF Balanced

\* The counters of the three sizes follow the bitmap exactly.
THEOREM Accounting == Spec => []SizesMatchBitMap
BY SizesMatch, InductiveInvariant, PTL

\* requestPage skips no free page but those freePages returned behind it.
THEOREM OnlyFreedPagesAreStranded == Spec => []StrandedWereFreed
<1>1. IInv => StrandedWereFreed
  BY DEF IInv
<1> QED
  BY <1>1, InductiveInvariant, PTL

LEMMA InitRefines == Init => Ownership!Init
BY DEF Init, Ownership!Init, nullptr, Ownership!NoFrame

\* Locking a range claims the pages of it that were available, whatever the range.
LEMMA LockRangeClaims ==
  ASSUME IInv, NEW pages, LockRange(pages)
  PROVE  Ownership!Claim
<1> DEFINE new == Settable(pfa, pages)
<1>1. WellFormed(pfa) /\ Indexes = Accepted(pfa)
  BY TypedIsWellFormed DEF IInv
<1>2. /\ g_IsInitialized /\ g_IsInitialized' = g_IsInitialized
      /\ answer' = answer
      /\ pfa' = lockPages(pfa, pages) /\ held' = held \cup new
  BY DEF LockRange
<1>3. pfa'.bits = pfa.bits \cup new /\ pfa'.size = pfa.size
  BY <1>1, <1>2, LockPagesEffect
<1>4. new \in SUBSET ClearBits
  BY <1>1 DEF Settable, ClearBits
<1> HIDE DEF new
<1>5. ClearBits' = ClearBits \ new
  BY <1>3 DEF ClearBits, Indexes, Accepted, LastIndex
<1> QED
  BY <1>2, <1>4, <1>5 DEF Ownership!Claim

LEMMA StepRefines == IInv /\ IInv' /\ [Next]_vars => [Ownership!Next]_Ownership!vars
<1> SUFFICES ASSUME IInv, IInv', [Next]_vars
             PROVE  Ownership!Next \/ UNCHANGED Ownership!vars
  OBVIOUS
<1>1. WellFormed(pfa) /\ Indexes = Accepted(pfa) /\ Indexes \subseteq Nat
  BY TypedIsWellFormed DEF IInv
<1>2. TypeOK
  BY DEF IInv
<1>3. CASE ReadEFIMemoryMap
  <2>1. /\ ~g_IsInitialized /\ g_IsInitialized' = TRUE
        /\ held' = held /\ answer' = answer
    BY <1>3 DEF ReadEFIMemoryMap
  <2>2. ClearBits' \subseteq Nat \ {0}
    <3>1. ClearBits' \subseteq Usable(memMap')
      BY <2>1 DEF IInv
    <3>2. 0 \in Pages(0, LowPages)
      BY ParametersAssumption DEF Pages
    <3>3. ClearBits' \subseteq Nat
      BY DEF ClearBits, Indexes, Accepted
    <3> QED
      BY <3>1, <3>2, <3>3 DEF Usable
  <2>3. Ownership!Boot
    BY <2>1, <2>2 DEF Ownership!Boot, Ownership!NoFrame
  <2> QED
    BY <2>3 DEF Ownership!Next
<1>4. CASE RequestPage /\ Found(pfa) = {}
  <2>1. /\ answer' = 0 /\ held' = held /\ g_IsInitialized' = g_IsInitialized
        /\ pfa' = AfterRequest(pfa)
    BY <1>4 DEF RequestPage, nullptr
  <2>2. pfa'.bits = pfa.bits /\ pfa'.size = pfa.size
    BY <1>1, <1>4, <2>1, RefusalEffect
  <2>3. ClearBits' = ClearBits
    BY <2>2 DEF ClearBits, Indexes, Accepted, LastIndex
  <2>4. Ownership!Refuse
    BY <2>1, <2>3 DEF Ownership!Refuse, Ownership!NoFrame
  <2> QED
    BY <2>4 DEF Ownership!Next
<1>5. CASE RequestPage /\ Found(pfa) # {}
  <2> DEFINE f == Lowest(Found(pfa))
  <2>1. /\ answer' = f /\ held' = held \cup {f}
        /\ g_IsInitialized' = g_IsInitialized /\ pfa' = AfterRequest(pfa)
    BY <1>5 DEF RequestPage
  <2>2. f \in ClearBits
    BY <1>1, <1>5, FoundPage DEF ClearBits
  <2>3. pfa'.bits = pfa.bits \cup {f} /\ pfa'.size = pfa.size
    BY <1>1, <1>5, <2>1, RequestEffect
  <2> HIDE DEF f
  <2>4. ClearBits' = ClearBits \ {f}
    BY <2>3 DEF ClearBits, Indexes, Accepted, LastIndex
  <2>5. g_IsInitialized
    <3> SUFFICES ASSUME ~g_IsInitialized PROVE FALSE
      BY <1>2 DEF TypeOK
    <3>1. pfa = Zeroed /\ 0 * ByteBits = 0
      BY ParametersAssumption DEF IInv, Unbooted
    <3> QED
      BY <1>5, <3>1 DEF Found, LastIndex, Zeroed
  <2>6. Ownership!Request
    BY <2>1, <2>2, <2>4, <2>5 DEF Ownership!Request
  <2> QED
    BY <2>6 DEF Ownership!Next
<1>6. CASE LockPages
  <2>1. PICK first \in 0 .. (LastIndex(pfa) + 1), count \in 0 .. MaxCount :
          LockRange(Pages(first, count))
    BY <1>6 DEF LockPages
  <2> QED
    BY <2>1, LockRangeClaims DEF Ownership!Next
<1>7. CASE FreePages
  <2>1. PICK first \in held, count \in 0 .. MaxCount :
          /\ Pages(first, count) \subseteq held
          /\ pfa' = freePages(pfa, Pages(first, count))
          /\ held' = held \ Pages(first, count)
    BY <1>7 DEF FreePages
  <2> DEFINE pages == Pages(first, count)
  <2>2. /\ g_IsInitialized /\ g_IsInitialized' = g_IsInitialized
        /\ answer' = answer
    BY <1>7 DEF FreePages
  <2>3. /\ pfa'.bits = pfa.bits \ Clearable(pfa, pages)
        /\ pfa'.size = pfa.size
    BY <1>1, <2>1, FreePagesEffect
  <2>4. /\ pages \in SUBSET held /\ held' = held \ pages
        /\ held \subseteq pfa.bits /\ pfa.bits \subseteq Indexes
    BY <1>1, <1>2, <2>1 DEF TypeOK, WellFormed
  <2> HIDE DEF pages
  <2>5. pfa'.bits = pfa.bits \ pages /\ pages \subseteq Indexes
    BY <1>1, <2>3, <2>4 DEF Clearable
  <2>6. ClearBits' = ClearBits \cup pages
    BY <2>3, <2>4, <2>5 DEF ClearBits, Indexes, Accepted, LastIndex
  <2>7. Ownership!Return
    BY <2>2, <2>4, <2>6 DEF Ownership!Return
  <2> QED
    BY <2>7 DEF Ownership!Next
<1>8. CASE UNCHANGED vars
  BY <1>8 DEF vars, Ownership!vars, ClearBits, Indexes, Accepted, LastIndex
<1> QED
  BY <1>3, <1>4, <1>5, <1>6, <1>7, <1>8 DEF Next

\* The allocator implements exclusive ownership of page frames: no frame is
\* granted while a caller has it, and frame 0 is never granted.
THEOREM Refinement == Spec => ImplementsOwnership
<1>1. Init => Ownership!Init
  BY InitRefines
<1>2. IInv /\ IInv' /\ [Next]_vars => [Ownership!Next]_Ownership!vars
  BY StepRefines
<1> QED
  BY <1>1, <1>2, InductiveInvariant, PTL
     DEF Spec, ImplementsOwnership, Ownership!Spec
=============================================================================
