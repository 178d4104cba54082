-------------------------- MODULE BootLoaderProofs --------------------------
(***************************************************************************)
(* Proofs about BootLoader for every memory, kernel image and slack.       *)
(***************************************************************************)
EXTENDS BootLoader, FiniteSetTheorems, SequenceTheorems, TLAPS

\* What is known at each step: of the map and its key, of the room left in
\* the map's buffer, and of the tries made.
MapInv ==
  /\ pc \in {"exit", "entered"} /\ MapKey => map = memory
  /\ services = (pc # "entered")
  /\ pc = "entered" => MapKey

SizeInv ==
  /\ pc = "map pool" /\ ~moved => MapSize >= Descriptors(memory) + PoolGrowth
  /\ pc = "map" /\ ~moved => MapSize >= Descriptors(memory)
  /\ pc \notin Returned => failure = "EFI_SUCCESS"
  /\ TooSmallOnlyWhenMoved

TryInv ==
  /\ attempt = 2 => 1 \in struck
  /\ pc = "exit" /\ ~MapKey => attempt \in struck
  /\ GivesUpOnlyWhenStruckTwice

GrantInv ==
  /\ granted \subseteq 1 .. (segment - 1)
  /\ \A s \in granted : \A p \in ImagePages(s) \cap Pages : memory[p] = "loader"

IInv == TypeOK /\ MapInv /\ SizeInv /\ TryInv /\ GrantInv

-----------------------------------------------------------------------------
(***************************************************************************)
(* Descriptors.                                                            *)
(***************************************************************************)

\* The pages are finitely many, and so are the descriptors of any memory.
LEMMA DescriptorsType ==
  ASSUME NEW m
  PROVE  /\ IsFiniteSet(Starts(m))
         /\ Descriptors(m) \in Nat
<1>1. IsFiniteSet(Pages)
  BY FirmwareAssumption, FS_Interval DEF Pages
<1>2. Starts(m) \in SUBSET Pages
  BY DEF Starts
<1> QED
  BY <1>1, <1>2, FS_Subset, FS_CardinalityType DEF Descriptors

\* Changing one page adds two descriptors at most: it can begin one, and so
\* can the page after it.
LEMMA OnePageAddsTwo ==
  ASSUME NEW m, NEW n, NEW q \in Int,
         \A p \in Pages : p # q => n[p] = m[p]
  PROVE  Descriptors(n) <= Descriptors(m) + PoolGrowth
<1> DEFINE T == Starts(m) \cup {q} \cup {q + 1}
<1>1. Starts(n) \subseteq T
  <2> SUFFICES ASSUME NEW p \in Starts(n), p # q, p # q + 1
               PROVE  p \in Starts(m)
    OBVIOUS
  <2>1. p \in Pages /\ (p = 0 \/ n[p] # n[p - 1])
    BY DEF Starts
  <2>2. CASE p = 0
    BY <2>1, <2>2 DEF Starts
  <2>3. CASE p # 0
    <3>1. p - 1 \in Pages /\ p - 1 # q
      BY <2>1, <2>3, FirmwareAssumption DEF Pages
    <3>2. n[p] = m[p] /\ n[p - 1] = m[p - 1]
      BY <2>1, <3>1
    <3> QED
      BY <2>1, <2>3, <3>2 DEF Starts
  <2> QED
    BY <2>2, <2>3
<1>2. IsFiniteSet(Starts(m)) /\ Cardinality(Starts(m)) \in Nat
  BY DescriptorsType DEF Descriptors
<1>3. /\ IsFiniteSet(Starts(m) \cup {q})
      /\ Cardinality(Starts(m) \cup {q}) \in Nat
      /\ Cardinality(Starts(m) \cup {q}) <= Cardinality(Starts(m)) + 1
  BY <1>2, FS_AddElement, FS_CardinalityType
<1>4. /\ IsFiniteSet(T)
      /\ Cardinality(T) \in Nat
      /\ Cardinality(T) <= Cardinality(Starts(m) \cup {q}) + 1
  BY <1>3, FS_AddElement, FS_CardinalityType
<1>5. Cardinality(Starts(n)) <= Cardinality(T) /\ Cardinality(Starts(n)) \in Nat
  BY <1>1, <1>4, FS_Subset, DescriptorsType DEF Descriptors
<1> HIDE DEF T
<1> QED
  BY <1>2, <1>3, <1>4, <1>5 DEF Descriptors, PoolGrowth

-----------------------------------------------------------------------------
(***************************************************************************)
(* Pages of a segment.                                                     *)
(***************************************************************************)

\* Dividing a multiple of the page size and less than a page more.
LEMMA WholePages ==
  ASSUME NEW k \in Nat, NEW r \in Nat, r < PageSize
  PROVE  (PageSize * k + r) \div PageSize = k
<1>1. PageSize \in Nat /\ PageSize > 0
  BY SegmentsAssumption
<1> DEFINE x == (PageSize * k + r) \div PageSize
           y == (PageSize * k + r) % PageSize
<1>2. /\ x \in Int /\ y \in Int
      /\ PageSize * k + r = PageSize * x + y
      /\ 0 <= y /\ y < PageSize
  BY <1>1
<1> HIDE DEF x, y
<1>3. PageSize * (x - k) = r - y
  BY <1>1, <1>2
<1>4. ~(x - k >= 1)
  <2> SUFFICES ASSUME x - k >= 1 PROVE FALSE
    OBVIOUS
  <2>1. PageSize * (x - k) >= PageSize
    BY <1>1, <1>2
  <2> QED
    BY <1>1, <1>2, <1>3, <2>1
<1>5. ~(x - k <= -1)
  <2> SUFFICES ASSUME x - k <= -1 PROVE FALSE
    OBVIOUS
  <2>1. PageSize * (x - k) <= -PageSize
    BY <1>1, <1>2
  <2> QED
    BY <1>1, <1>2, <1>3, <2>1
<1>6. x = k
  BY <1>2, <1>4, <1>5
<1> QED
  BY <1>6 DEF x

\* The pages asked for are those that a byte of the segment lies in.
LEMMA AskedIsImage ==
  ASSUME NEW s \in DOMAIN Segments
  PROVE  AskedPages(s) = ImagePages(s)
<1> DEFINE a == Segments[s].p_paddr
           z == Segments[s].p_memsz
<1>1. /\ PageSize \in Nat /\ PageSize > 0
      /\ a \in Nat /\ z \in Nat /\ z > 0 /\ a % PageSize = 0
  <2>1. Segments[s] \in [p_paddr : Nat, p_memsz : Nat \ {0}]
    <3> DEFINE S == [p_paddr : Nat, p_memsz : Nat \ {0}]
    <3>1. Segments \in Seq(S)
      BY SegmentsAssumption
    <3> HIDE DEF S
    <3>2. Segments[s] \in S
      BY <3>1, LenProperties, ElementOfSeq
    <3> QED
      BY <3>2 DEF S
  <2>2. a \in Nat /\ z \in Nat /\ z > 0
    BY <2>1
  <2> QED
    BY <2>2, SegmentsAssumption
<1> HIDE DEF a, z
<1> DEFINE k == a \div PageSize
           q == (z - 1) \div PageSize
           r == (z - 1) % PageSize
<1>2. k \in Nat /\ a = PageSize * k
  <2>1. k \in Int /\ k >= 0 /\ a = PageSize * k + (a % PageSize)
    BY <1>1
  <2> HIDE DEF k
  <2> QED
    BY <1>1, <2>1
<1>3. /\ q \in Nat /\ r \in Nat /\ r < PageSize
      /\ z - 1 = PageSize * q + r
  BY <1>1
<1> HIDE DEF k, q, r
<1>4. (a + z - 1) \div PageSize = k + q
  <2>1. a + z - 1 = PageSize * (k + q) + r
    BY <1>1, <1>2, <1>3
  <2> QED
    BY <1>2, <1>3, <2>1, WholePages
<1>5. (z + PageSize - 1) \div PageSize = q + 1
  <2>1. z + PageSize - 1 = PageSize * (q + 1) + r
    BY <1>1, <1>3
  <2> QED
    BY <1>3, <2>1, WholePages
<1>6. ImagePages(s) = k .. (k + q)
  BY <1>4 DEF ImagePages, PagesOfBytes, a, z, k
<1>7. AskedPages(s) = k .. (k + (q + 1) - 1)
  BY <1>5 DEF AskedPages, a, z, k
<1> QED
  BY <1>2, <1>3, <1>6, <1>7

-----------------------------------------------------------------------------
(***************************************************************************)
(* What the steps of the firmware do to memory.                            *)
(***************************************************************************)

\* The loader's pages stay the loader's.
Keeps == \A p \in Pages : memory[p] = "loader" => memory'[p] = "loader"

LEMMA TakenKeeps ==
  ASSUME TypeOK, NEW pages \in SUBSET Pages, Memory(Taken(pages))
  PROVE  /\ memory' \in [Pages -> Use] /\ MapKey' \in BOOLEAN
         /\ Keeps
         /\ \A p \in pages : memory'[p] = "loader"
<1>1. memory \in [Pages -> Use] /\ memory' = Taken(pages)
  BY DEF TypeOK, Memory
<1>2. MapKey' \in BOOLEAN
  BY Zenon DEF Memory
<1>3. memory' \in [Pages -> Use]
  BY <1>1 DEF Taken, Use
<1>4. Keeps /\ \A p \in pages : memory'[p] = "loader"
  BY <1>1 DEF Taken, Keeps
<1> QED
  BY <1>2, <1>3, <1>4

LEMMA PoolKeeps ==
  ASSUME TypeOK, NEW n \in Nat, AllocatePool(n)
  PROVE  /\ memory' \in [Pages -> Use] /\ MapKey' \in BOOLEAN
         /\ Keeps
<1>1. PICK pages \in SUBSET ConventionalPages : Memory(Taken(pages))
  BY DEF AllocatePool
<1>2. pages \in SUBSET Pages
  BY DEF ConventionalPages
<1> QED
  BY <1>1, <1>2, TakenKeeps

\* A piece of pool adds PoolGrowth descriptors at most.
LEMMA PoolGrows ==
  ASSUME TypeOK, AllocatePool(1)
  PROVE  Descriptors(memory') <= Descriptors(memory) + PoolGrowth
<1>1. PICK pages \in SUBSET ConventionalPages :
        Cardinality(pages) <= 1 /\ memory' = Taken(pages)
  BY DEF AllocatePool, Memory
<1>2. pages \in SUBSET Pages /\ IsFiniteSet(Pages)
  BY FirmwareAssumption, FS_Interval DEF Pages, ConventionalPages
<1>3. IsFiniteSet(pages) /\ Cardinality(pages) \in Nat
  BY <1>2, FS_Subset, FS_CardinalityType
<1>4. Cardinality(pages) = 0 \/ Cardinality(pages) = 1
  BY <1>1, <1>3
<1>5. \E q \in Int : pages \subseteq {q}
  <2>1. CASE Cardinality(pages) = 0
    BY <1>3, <2>1, FS_EmptySet
  <2>2. CASE Cardinality(pages) = 1
    <3>1. PICK q : pages = {q}
      BY <1>3, <2>2, FS_Singleton
    <3>2. q \in Int
      BY <1>2, <3>1 DEF Pages
    <3> QED
      BY <3>1, <3>2
  <2> QED
    BY <1>4, <2>1, <2>2
<1>6. PICK q \in Int : pages \subseteq {q}
  BY <1>5
<1>7. \A p \in Pages : p # q => memory'[p] = memory[p]
  BY <1>1, <1>6 DEF Taken
<1> QED
  BY <1>7, OnePageAddsTwo

\* While the loader's pages are kept, so are the granted segments.
LEMMA GrantsKept ==
  ASSUME GrantInv, Keeps, granted' = granted, segment' = segment
  PROVE  GrantInv'
BY DEF GrantInv, Keeps

-----------------------------------------------------------------------------
(***************************************************************************)
(* The inductive invariant.                                                *)
(***************************************************************************)

LEMMA InitIInv == Init => IInv
<1> SUFFICES ASSUME Init PROVE IInv
  OBVIOUS
<1>1. TypeOK
  <2>1. Len(Segments) \in Nat
    BY SegmentsAssumption, LenProperties
  <2>2. segment \in 1 .. (Len(Segments) + 1) /\ MapSize \in Nat
    BY <2>1 DEF Init
  <2>3. memory \in [Pages -> Use]
    BY FirmwareAssumption DEF Init
  <2>4. map \in [Pages -> Use] \cup {Nothing}
    BY DEF Init
  <2> QED
    BY <2>2, <2>3, <2>4 DEF Init, TypeOK, Steps, Status
<1>2. MapInv
  BY DEF Init, MapInv
<1>3. SizeInv
  BY DEF Init, SizeInv, TooSmallOnlyWhenMoved
<1>4. TryInv /\ GrantInv
  BY DEF Init, TryInv, GivesUpOnlyWhenStruckTwice, GrantInv
<1> QED
  BY <1>1, <1>2, <1>3, <1>4 DEF IInv

LEMMA FirmwareEventIInv == IInv /\ FirmwareEvent => IInv'
<1> SUFFICES ASSUME IInv, FirmwareEvent PROVE IInv'
  OBVIOUS
<1> USE DEF IInv
<1>1. PICK p \in Pages, use \in {"conventional", "firmware"} :
        /\ memory[p] # "loader" /\ memory[p] # use
        /\ Memory([memory EXCEPT ![p] = use])
  BY DEF FirmwareEvent
<1>2. memory' = [memory EXCEPT ![p] = use] /\ memory' # memory
  BY <1>1 DEF Memory, TypeOK
<1>3. MapKey' = FALSE
  BY <1>1, <1>2, Zenon DEF Memory
<1>4. TypeOK'
  <2>1. memory' \in [Pages -> Use]
    BY <1>2 DEF TypeOK, Use
  <2>2. struck' \subseteq {1, 2}
    BY DEF FirmwareEvent, TypeOK
  <2> QED
    BY <1>3, <2>1, <2>2 DEF FirmwareEvent, TypeOK
<1>5. MapInv'
  BY <1>3 DEF FirmwareEvent, MapInv
<1>6. SizeInv'
  BY DEF FirmwareEvent, SizeInv, TooSmallOnlyWhenMoved
<1>7. TryInv'
  BY DEF FirmwareEvent, TryInv, GivesUpOnlyWhenStruckTwice
<1>8. GrantInv'
  <2>1. Keeps
    BY <1>1, <1>2 DEF Keeps, TypeOK
  <2> QED
    BY <2>1, GrantsKept DEF FirmwareEvent
<1> QED
  BY <1>4, <1>5, <1>6, <1>7, <1>8

LEMMA ReadKernelIInv == IInv /\ ReadKernel => IInv'
<1> SUFFICES ASSUME IInv, ReadKernel PROVE IInv'
  OBVIOUS
<1> USE DEF IInv
<1>1. memory' \in [Pages -> Use] /\ MapKey' \in BOOLEAN /\ Keeps
  <2>1. CASE AllocatePool(1) \/ AllocatePool(2)
    BY <2>1, PoolKeeps
  <2>2. CASE UNCHANGED <<memory, MapKey>>
    BY <2>2 DEF TypeOK, Keeps
  <2> QED
    BY <2>1, <2>2 DEF ReadKernel
<1>2. \/ /\ pc' = "returned"
         /\ failure' \in {"EFI_LOAD_ERROR", "EFI_INVALID_PARAMETER"}
      \/ pc' \in {"lost", "segments"} /\ failure' = failure
  BY DEF ReadKernel, Return, Proceed
<1>3. TypeOK'
  BY <1>1, <1>2 DEF ReadKernel, TypeOK, history, Steps, Status, Returned
<1>4. MapInv'
  BY <1>2 DEF ReadKernel, MapInv
<1>5. SizeInv'
  BY <1>2 DEF ReadKernel, SizeInv, TooSmallOnlyWhenMoved, Returned, history
<1>6. TryInv'
  BY <1>2 DEF ReadKernel, TryInv, GivesUpOnlyWhenStruckTwice, history
<1>7. GrantInv'
  BY <1>1, GrantsKept DEF ReadKernel, history
<1> QED
  BY <1>3, <1>4, <1>5, <1>6, <1>7

LEMMA LoadSegmentIInv == IInv /\ LoadSegment => IInv'
<1> SUFFICES ASSUME IInv, LoadSegment PROVE IInv'
  OBVIOUS
<1> USE DEF IInv
<1>1. segment \in DOMAIN Segments /\ segment' = segment + 1 /\ Len(Segments) \in Nat
      /\ segment' \in 1 .. (Len(Segments) + 1)
  BY SegmentsAssumption, LenProperties DEF LoadSegment, TypeOK
<1>2. CASE /\ AskedPages(segment) \subseteq ConventionalPages
           /\ Memory(Taken(AskedPages(segment)))
           /\ granted' = granted \cup {segment}
  <2>1. AskedPages(segment) \in SUBSET Pages
    BY <1>2 DEF ConventionalPages
  <2>2. /\ memory' \in [Pages -> Use] /\ MapKey' \in BOOLEAN
        /\ Keeps
        /\ \A p \in ImagePages(segment) : memory'[p] = "loader"
    BY <1>1, <1>2, <2>1, TakenKeeps, AskedIsImage
  <2>3. TypeOK'
    BY <1>1, <1>2, <2>2 DEF LoadSegment, TypeOK
  <2>4. GrantInv'
    <3>1. granted' \subseteq 1 .. (segment' - 1)
      BY <1>1, <1>2 DEF GrantInv, TypeOK
    <3>2. \A s \in granted' : \A p \in ImagePages(s) \cap Pages : memory'[p] = "loader"
      BY <1>2, <2>2 DEF GrantInv, Keeps
    <3> QED
      BY <3>1, <3>2 DEF GrantInv
  <2> QED
    BY <2>3, <2>4, <1>2
       DEF LoadSegment, MapInv, SizeInv, TryInv, TooSmallOnlyWhenMoved,
           GivesUpOnlyWhenStruckTwice
<1>3. CASE UNCHANGED <<memory, MapKey, granted>>
  <2>1. TypeOK'
    BY <1>1, <1>3 DEF LoadSegment, TypeOK
  <2>2. GrantInv'
    BY <1>1, <1>3 DEF GrantInv, TypeOK
  <2> QED
    BY <1>3, <2>1, <2>2
       DEF LoadSegment, MapInv, SizeInv, TryInv, TooSmallOnlyWhenMoved,
           GivesUpOnlyWhenStruckTwice
<1> QED
  BY <1>2, <1>3 DEF LoadSegment

LEMMA InitializeGOPIInv == IInv /\ InitializeGOP => IInv'
<1> SUFFICES ASSUME IInv, InitializeGOP PROVE IInv'
  OBVIOUS
<1> USE DEF IInv
<1>1. \/ /\ pc' = "returned"
         /\ failure' \in {"EFI_NOT_FOUND", "EFI_DEVICE_ERROR"}
      \/ pc' = "font" /\ failure' = failure
  BY DEF InitializeGOP, Return, Proceed
<1>2. TypeOK'
  BY <1>1 DEF InitializeGOP, TypeOK, history, mapInfo, Steps, Status, Returned
<1>3. MapInv'
  BY <1>1 DEF InitializeGOP, MapInv, mapInfo
<1>4. SizeInv'
  BY <1>1 DEF InitializeGOP, SizeInv, TooSmallOnlyWhenMoved, Returned, history
<1>5. TryInv'
  BY <1>1 DEF InitializeGOP, TryInv, GivesUpOnlyWhenStruckTwice, history
<1>6. GrantInv'
  BY DEF InitializeGOP, GrantInv, history
<1> QED
  BY <1>2, <1>3, <1>4, <1>5, <1>6

LEMMA LoadFontIInv == IInv /\ LoadFont => IInv'
<1> SUFFICES ASSUME IInv, LoadFont PROVE IInv'
  OBVIOUS
<1> USE DEF IInv
<1>1. memory' \in [Pages -> Use] /\ MapKey' \in BOOLEAN /\ Keeps
  <2>1. CASE AllocatePool(1) \/ AllocatePool(3)
    BY <2>1, PoolKeeps
  <2>2. CASE UNCHANGED <<memory, MapKey>>
    BY <2>2 DEF TypeOK, Keeps
  <2> QED
    BY <2>1, <2>2 DEF LoadFont
<1>2. \/ /\ pc' = "returned"
         /\ failure' = "EFI_INVALID_PARAMETER"
      \/ pc' \in {"lost", "map size"} /\ failure' = failure
  BY DEF LoadFont, Return, Proceed
<1>3. TypeOK'
  BY <1>1, <1>2 DEF LoadFont, TypeOK, history, Steps, Status, Returned
<1>4. MapInv'
  BY <1>2 DEF LoadFont, MapInv
<1>5. SizeInv'
  BY <1>2 DEF LoadFont, SizeInv, TooSmallOnlyWhenMoved, Returned, history
<1>6. TryInv'
  BY <1>2 DEF LoadFont, TryInv, GivesUpOnlyWhenStruckTwice, history
<1>7. GrantInv'
  BY <1>1, GrantsKept DEF LoadFont, history
<1> QED
  BY <1>3, <1>4, <1>5, <1>6, <1>7

LEMMA GetMapSizeIInv == IInv /\ GetMapSize => IInv'
<1> SUFFICES ASSUME IInv, GetMapSize PROVE IInv'
  OBVIOUS
<1> USE DEF IInv
<1>1. \/ /\ pc' = "returned"
         /\ failure' = "EFI_INVALID_PARAMETER"
         /\ UNCHANGED <<MapSize, MapKey, moved>>
      \/ /\ pc' = "map pool" /\ failure' = failure
         /\ MapSize' = Descriptors(memory) + Slack /\ MapKey' \in BOOLEAN
         /\ moved' = FALSE
  BY DEF GetMapSize, Return, Proceed, Asked
<1>2. Descriptors(memory) \in Nat /\ Slack \in Nat /\ Slack >= PoolGrowth
  BY DescriptorsType, FirmwareAssumption
<1>3. MapSize' \in Nat
  <2>1. MapSize' = MapSize \/ MapSize' = Descriptors(memory) + Slack
    BY <1>1
  <2>2. MapSize \in Nat
    BY DEF TypeOK
  <2> QED
    BY <1>2, <2>1, <2>2
<1>4. TypeOK'
  BY <1>1, <1>3 DEF GetMapSize, TypeOK, Steps, Status, Returned
<1>5. MapInv'
  BY <1>1 DEF GetMapSize, MapInv
<1>6. SizeInv'
  <2>1. memory' = memory /\ failure' # "EFI_BUFFER_TOO_SMALL"
    BY <1>1 DEF GetMapSize, SizeInv, Returned
  <2>2. pc' = "map pool" => MapSize' >= Descriptors(memory') + PoolGrowth
    <3>1. pc' = "map pool" => MapSize' = Descriptors(memory) + Slack
      BY <1>1
    <3>2. Descriptors(memory) + Slack >= Descriptors(memory) + PoolGrowth
      BY <1>2 DEF PoolGrowth
    <3> QED
      BY <2>1, <3>1, <3>2
  <2> QED
    BY <1>1, <2>1, <2>2 DEF GetMapSize, SizeInv, TooSmallOnlyWhenMoved, Returned
<1>7. TryInv'
  BY <1>1 DEF GetMapSize, TryInv, GivesUpOnlyWhenStruckTwice
<1>8. GrantInv'
  BY DEF GetMapSize, GrantInv
<1> QED
  BY <1>4, <1>5, <1>6, <1>7, <1>8

LEMMA AllocateMapIInv == IInv /\ AllocateMap => IInv'
<1> SUFFICES ASSUME IInv, AllocateMap PROVE IInv'
  OBVIOUS
<1> USE DEF IInv
<1>1. memory' \in [Pages -> Use] /\ MapKey' \in BOOLEAN /\ Keeps
  <2>1. CASE AllocatePool(1)
    BY <2>1, PoolKeeps
  <2>2. CASE UNCHANGED <<memory, MapKey>>
    BY <2>2 DEF TypeOK, Keeps
  <2> QED
    BY <2>1, <2>2 DEF AllocateMap
<1>2. \/ /\ pc' = "returned"
         /\ failure' = "EFI_OUT_OF_RESOURCES"
      \/ /\ pc' = "map" /\ failure' = failure
         /\ AllocatePool(1)
  BY DEF AllocateMap, Return, Proceed
<1>3. TypeOK'
  BY <1>1, <1>2 DEF AllocateMap, TypeOK, history, Steps, Status, Returned
<1>4. MapInv'
  BY <1>2 DEF AllocateMap, MapInv
<1>5. SizeInv'
  <2>1. pc = "map pool" /\ MapSize' = MapSize /\ moved' = moved /\ MapSize \in Nat
    BY DEF AllocateMap, history, TypeOK
  <2>2. Descriptors(memory) \in Nat /\ Descriptors(memory') \in Nat
    BY DescriptorsType
  <2>3. ASSUME pc' = "map", ~moved' PROVE MapSize' >= Descriptors(memory')
    <3>1. Descriptors(memory') <= Descriptors(memory) + PoolGrowth
      BY <1>2, <2>3, PoolGrows
    <3>2. MapSize >= Descriptors(memory) + PoolGrowth
      BY <2>1, <2>3 DEF SizeInv
    <3>3. MapSize' = MapSize /\ MapSize \in Nat
      BY <2>1
    <3> QED
      BY <2>2, <3>1, <3>2, <3>3 DEF PoolGrowth
  <2>4. failure' # "EFI_BUFFER_TOO_SMALL" /\ pc' # "map pool"
    BY <1>2, <2>1 DEF SizeInv, Returned
  <2> QED
    BY <1>2, <2>1, <2>3, <2>4 DEF SizeInv, TooSmallOnlyWhenMoved, Returned
<1>6. TryInv'
  BY <1>2 DEF AllocateMap, TryInv, GivesUpOnlyWhenStruckTwice, history
<1>7. GrantInv'
  BY <1>1, GrantsKept DEF AllocateMap, history
<1> QED
  BY <1>3, <1>4, <1>5, <1>6, <1>7

LEMMA GetMapIInv == IInv /\ GetMap => IInv'
<1> SUFFICES ASSUME IInv, GetMap PROVE IInv'
  OBVIOUS
<1> USE DEF IInv
<1>1. \/ /\ Descriptors(memory) > MapSize
         /\ pc' = "returned"
         /\ failure' = "EFI_BUFFER_TOO_SMALL"
         /\ MapKey' \in BOOLEAN /\ map' = map /\ MapSize' = MapSize
      \/ /\ pc' = "exit" /\ failure' = failure
         /\ map' = memory /\ MapKey' = TRUE
         /\ MapSize' = Descriptors(memory)
  BY DEF GetMap, Return, Proceed
<1>2. /\ pc = "map" /\ memory' = memory /\ services' = services /\ segment' = segment
      /\ attempt' = attempt /\ granted' = granted /\ moved' = moved /\ struck' = struck
  BY DEF GetMap, history
<1>3. Descriptors(memory) \in Nat
  BY DescriptorsType
<1>4. TypeOK'
  BY <1>1, <1>2, <1>3 DEF TypeOK, Steps, Status, Returned
<1>5. MapInv'
  BY <1>1, <1>2 DEF MapInv
<1>6. SizeInv'
  <2>1. ASSUME failure' = "EFI_BUFFER_TOO_SMALL" PROVE moved'
    <3>1. Descriptors(memory) > MapSize
      BY <1>1, <1>2, <2>1 DEF SizeInv, Returned
    <3>2. ~(MapSize >= Descriptors(memory))
      BY <1>3, <3>1 DEF TypeOK
    <3> QED
      BY <1>2, <3>2 DEF SizeInv
  <2>2. pc' \notin Returned => failure' = "EFI_SUCCESS"
    BY <1>1, <1>2 DEF SizeInv, Returned
  <2>3. pc' # "map pool" /\ pc' # "map"
    BY <1>1
  <2> QED
    BY <2>1, <2>2, <2>3 DEF SizeInv, TooSmallOnlyWhenMoved
<1>7. TryInv'
  BY <1>1, <1>2 DEF TryInv, GivesUpOnlyWhenStruckTwice
<1>8. GrantInv'
  BY <1>2 DEF GrantInv
<1> QED
  BY <1>4, <1>5, <1>6, <1>7, <1>8

LEMMA ExitBootServicesIInv == IInv /\ ExitBootServices => IInv'
<1> SUFFICES ASSUME IInv, ExitBootServices PROVE IInv'
  OBVIOUS
<1> USE DEF IInv
<1>1. /\ pc = "exit" /\ UNCHANGED <<memory, segment, MapSize, map, MapKey>>
      /\ UNCHANGED <<granted, moved, struck>>
  BY DEF ExitBootServices, mapInfo, history
<1>2. \/ /\ MapKey /\ services' = FALSE /\ pc' = "entered"
         /\ UNCHANGED <<attempt, failure>>
      \/ /\ ~MapKey /\ services' = services
         /\ attempt = 1 /\ attempt' = 2 /\ pc' = "map size"
         /\ failure' = failure
      \/ /\ ~MapKey /\ services' = services
         /\ attempt # 1 /\ attempt' = attempt /\ pc' = "gave up"
         /\ failure' = "EFI_INVALID_PARAMETER"
  BY DEF ExitBootServices, Retry, Proceed
<1>3. TypeOK'
  BY <1>1, <1>2 DEF TypeOK, Steps, Status, Returned
<1>4. MapInv'
  BY <1>1, <1>2 DEF MapInv
<1>5. SizeInv'
  BY <1>1, <1>2 DEF SizeInv, TooSmallOnlyWhenMoved, Returned
<1>6. TryInv'
  <2>1. ~MapKey => attempt \in struck
    BY <1>1 DEF TryInv
  <2>2. attempt \in {1, 2} /\ struck \subseteq {1, 2}
    BY DEF TypeOK
  <2> QED
    BY <1>1, <1>2, <2>1, <2>2 DEF TryInv, GivesUpOnlyWhenStruckTwice
<1>7. GrantInv'
  BY <1>1 DEF GrantInv
<1> QED
  BY <1>3, <1>4, <1>5, <1>6, <1>7

LEMMA StutterIInv == IInv /\ UNCHANGED vars => IInv'
<1> SUFFICES ASSUME IInv, UNCHANGED vars PROVE IInv'
  OBVIOUS
<1> USE DEF vars, mapInfo, history
<1>1. TypeOK'
  BY DEF IInv, TypeOK
<1>2. MapInv' /\ TryInv' /\ GrantInv'
  BY DEF IInv, MapInv, TryInv, GrantInv, GivesUpOnlyWhenStruckTwice
<1>3. SizeInv'
  BY DEF IInv, SizeInv, TooSmallOnlyWhenMoved
<1> QED
  BY <1>1, <1>2, <1>3 DEF IInv

THEOREM InductiveInvariant == Spec => []IInv
<1>1. ASSUME IInv, [Next]_vars PROVE IInv'
  <2>1. CASE FirmwareEvent
    BY <1>1, <2>1, FirmwareEventIInv
  <2>2. CASE ReadKernel
    BY <1>1, <2>2, ReadKernelIInv
  <2>3. CASE LoadSegment
    BY <1>1, <2>3, LoadSegmentIInv
  <2>4. CASE InitializeGOP
    BY <1>1, <2>4, InitializeGOPIInv
  <2>5. CASE LoadFont
    BY <1>1, <2>5, LoadFontIInv
  <2>6. CASE GetMapSize
    BY <1>1, <2>6, GetMapSizeIInv
  <2>7. CASE AllocateMap
    BY <1>1, <2>7, AllocateMapIInv
  <2>8. CASE GetMap
    BY <1>1, <2>8, GetMapIInv
  <2>9. CASE ExitBootServices
    BY <1>1, <2>9, ExitBootServicesIInv
  <2>10. CASE UNCHANGED vars
    BY <1>1, <2>10, StutterIInv
  <2> QED
    BY <1>1, <2>1, <2>2, <2>3, <2>4, <2>5, <2>6, <2>7, <2>8, <2>9, <2>10
       DEF Next, Loader
<1> QED
  BY <1>1, InitIInv, PTL DEF Spec

-----------------------------------------------------------------------------
(***************************************************************************)
(* The theorems.                                                           *)
(***************************************************************************)

\* Every variable always has its type.
THEOREM TypeCorrect == Spec => []TypeOK
<1>1. IInv => TypeOK
  BY DEF IInv
<1> QED
  BY <1>1, InductiveInvariant, PTL

\* A key that the firmware accepts comes with a map that is true.
THEOREM KeyIsGood == Spec => []KeyVouchesForMap
<1>1. IInv => KeyVouchesForMap
  BY DEF IInv, MapInv, KeyVouchesForMap
<1> QED
  BY <1>1, InductiveInvariant, PTL

\* The loader gives up only when the firmware's events struck both tries.
THEOREM TriesBothStruck == Spec => []GivesUpOnlyWhenStruckTwice
<1>1. IInv => GivesUpOnlyWhenStruckTwice
  BY DEF IInv, TryInv
<1> QED
  BY <1>1, InductiveInvariant, PTL

\* A slack of two descriptors or more is enough, however large the map, unless
\* the firmware's events add to it.
THEOREM SlackSuffices == Spec => []TooSmallOnlyWhenMoved
<1>1. IInv => TooSmallOnlyWhenMoved
  BY DEF IInv, SizeInv
<1> QED
  BY <1>1, InductiveInvariant, PTL

\* No page of a granted segment is free in the map the kernel gets.
THEOREM ImageReserved == Spec => []GrantedImageIsReserved
<1>1. IInv => GrantedImageIsReserved
  BY DEF IInv, MapInv, GrantInv, GrantedImageIsReserved
<1> QED
  BY <1>1, InductiveInvariant, PTL

\* The loader implements Handover: one handing over, with the map of memory as
\* it is, and nothing changed behind the kernel's back.
THEOREM Refinement == Spec => ImplementsHandover
<1> DEFINE owner == IF services THEN "firmware" ELSE "kernel"
           given == IF pc = "entered" THEN map ELSE Nothing
<1>1. Init => HandedOver!Init
  BY DEF Init, HandedOver!Init
<1>2. ASSUME IInv, [Next]_vars PROVE [HandedOver!Next]_(HandedOver!vars)
  <2> USE DEF HandedOver!Next, HandedOver!Change, HandedOver!HandOver, HandedOver!vars
  <2>1. services = (pc # "entered")
    BY <1>2 DEF IInv, MapInv
  <2>2. CASE UNCHANGED vars
    BY <2>2 DEF vars, mapInfo
  <2>3. CASE FirmwareEvent
    BY <2>1, <2>3 DEF FirmwareEvent
  <2>4. CASE ReadKernel \/ LoadSegment \/ InitializeGOP \/ LoadFont
    <3>1. services /\ services' = services /\ pc # "entered" /\ pc' # "entered"
      BY <2>1, <2>4 DEF ReadKernel, LoadSegment, InitializeGOP, LoadFont, Return, Proceed
    <3> QED
      BY <3>1
  <2>5. CASE GetMapSize \/ AllocateMap \/ GetMap
    <3>1. services /\ services' = services /\ pc # "entered" /\ pc' # "entered"
      BY <2>1, <2>5 DEF GetMapSize, AllocateMap, GetMap, Return, Proceed
    <3> QED
      BY <3>1
  <2>6. CASE ExitBootServices
    <3>1. pc = "exit" /\ services /\ memory' = memory /\ map' = map
      BY <2>1, <2>6 DEF ExitBootServices, mapInfo
    <3>2. CASE MapKey
      <4>1. services' = FALSE /\ pc' = "entered" /\ map = memory
        BY <1>2, <2>6, <3>1, <3>2 DEF ExitBootServices, Proceed, IInv, MapInv
      <4> QED
        BY <3>1, <4>1
    <3>3. CASE ~MapKey
      <4>1. services' = services /\ pc' # "entered"
        BY <2>6, <3>3 DEF ExitBootServices, Retry, Proceed
      <4> QED
        BY <3>1, <4>1
    <3> QED
      BY <3>2, <3>3
  <2> QED
    BY <1>2, <2>2, <2>3, <2>4, <2>5, <2>6 DEF Next, Loader
<1> QED
  BY <1>1, <1>2, InductiveInvariant, PTL DEF Spec, ImplementsHandover, HandedOver!Spec
=============================================================================
