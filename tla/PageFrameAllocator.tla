------------------------- MODULE PageFrameAllocator -------------------------
(***************************************************************************)
(* The physical page frame allocator of the kernel                         *)
(* (memory/PageFrameAllocator.cpp) over the bitmap of utils/BitMap.cpp.    *)
(*                                                                         *)
(* Addresses and sizes are counted in pages, so the byte counters of the   *)
(* code are PAGE_SIZE times the ones here.  The bitmap is the set of the   *)
(* indexes whose bit is set.  Nothing in the kernel calls the allocator    *)
(* from an interrupt handler, so each operation is one step.               *)
(***************************************************************************)
EXTENDS Integers, FiniteSets, Sequences

CONSTANTS
  MemoryMaps,     \* the firmware memory maps the kernel may be started with
  ByteBits,       \* bits in a byte of the bitmap (8)
  PageSize,       \* bytes in a page (PAGE_SIZE)
  LowPages,       \* pages below 1 MiB, always kept back (0x100)
  SizeModulus,    \* pages in 2^64 bytes: where the uint64_t counters wrap
  MaxCount        \* bound: pages named by one lockPages or freePages call

EFI_MEMORY_TYPE == {"EfiConventionalMemory", "EfiLoaderData", "EfiMemoryMappedIO"}

Descriptor ==
  [Type : EFI_MEMORY_TYPE, PhysicalAddress : Nat, PageCount : Nat \ {0}]

\* The count pages from page first on: the index of each turn of the loops.
Pages(first, count) == first .. (first + count - 1)

DescriptorPages(desc) == Pages(desc.PhysicalAddress, desc.PageCount)

Conventional(map) == {i \in DOMAIN map : map[i].Type = "EfiConventionalMemory"}

\* Firmware promises: segments do not overlap and some memory is usable.
ASSUME MemoryMapsAssumption ==
  \A map \in MemoryMaps :
    /\ map \in Seq(Descriptor)
    /\ Conventional(map) # {}
    /\ \A i, j \in DOMAIN map :
         i # j => DescriptorPages(map[i]) \cap DescriptorPages(map[j]) = {}

ASSUME ParametersAssumption ==
  /\ ByteBits \in Nat \ {0} /\ PageSize \in Nat \ {0}
  /\ LowPages \in Nat \ {0} /\ SizeModulus \in Nat \ {0}
  /\ MaxCount \in Nat

VARIABLES
  memMap,           \* memMapInfo: the memory map the boot loader handed over
  g_IsInitialized,
  pfa,              \* _pageBitMap, the counters and g_lastRequestedIndex
  answer,           \* the page the last requestPage returned, 0 for nullptr
  stray,            \* history: bits past the buffer found set when it was built
  held,             \* history: pages clients obtained and have not freed
  freed             \* history: pages freed and not obtained again

vars == <<memMap, g_IsInitialized, pfa, answer, stray, held, freed>>

nullptr == 0

-----------------------------------------------------------------------------
(***************************************************************************)
(* The memory map.                                                         *)
(***************************************************************************)

\* getTotalMemorySize: the sum of the PageCounts, holes left out.
TotalPages(map) ==
  Cardinality(UNION {{i} \X (1 .. map[i].PageCount) : i \in DOMAIN map})

\* The first of the largest conventional segments holds the bitmap.
LargestSegment(map) ==
  map[CHOOSE i \in Conventional(map) :
        \A j \in Conventional(map) :
          \/ map[j].PageCount < map[i].PageCount
          \/ map[j].PageCount = map[i].PageCount /\ i <= j]

BitMapBytes(map) == TotalPages(map) \div ByteBits

\* The pages reserved for the bitmap.
BitMapPages(map) ==
  Pages(LargestSegment(map).PhysicalAddress, BitMapBytes(map) \div PageSize + 1)

ConventionalPages(map) ==
  UNION {DescriptorPages(map[i]) : i \in Conventional(map)}

-----------------------------------------------------------------------------
(***************************************************************************)
(* The bitmap: Get and Set accept every index up to and including          *)
(* _size * 8, one more than the buffer has bits.                           *)
(***************************************************************************)

LastIndex(a) == a.size * ByteBits

\* The indexes Get and Set accept.
Accepted(a) == 0 .. LastIndex(a)

\* MUTANT FORM of Settable: the test for a bit already set is left out.
SettableUntested(a, pages) == pages \cap Accepted(a)

\* Pages of a range whose bit Get reports clear and Set can set.
Settable(a, pages) == (pages \cap Accepted(a)) \ a.bits

\* Pages of a range whose bit Get reports set.
Clearable(a, pages) == pages \cap Accepted(a) \cap a.bits

Lowest(S) == CHOOSE x \in S : \A y \in S : x <= y

(***************************************************************************)
(* The four loops over a range of pages, each as what it leaves behind.    *)
(***************************************************************************)

reservePages(a, pages) ==
  LET new == Settable(a, pages)
  IN [a EXCEPT !.bits = @ \cup new,
               !.free = @ - Cardinality(new),
               !.reserved = @ + Cardinality(new)]

\* MUTANT FORM of releasePages: the hint is the last page released.
releasePagesLastHint(a, pages) ==
  LET new == Clearable(a, pages)
  IN [a EXCEPT !.bits = @ \ new,
               !.free = @ + Cardinality(new),
               !.reserved = @ - Cardinality(new),
               !.lastRequested = IF new = {} THEN @
                                 ELSE CHOOSE x \in new : \A y \in new : y <= x]

releasePages(a, pages) ==
  LET new == Clearable(a, pages)
  IN [a EXCEPT !.bits = @ \ new,
               !.free = @ + Cardinality(new),
               !.reserved = @ - Cardinality(new),
               !.lastRequested = Lowest(new \cup {@})]

\* MUTANT FORM of lockPages: the used counter is charged the whole range.
lockPagesByRange(a, pages) ==
  LET new == Settable(a, pages)
  IN [a EXCEPT !.bits = @ \cup new,
               !.free = @ - Cardinality(pages),
               !.used = @ + Cardinality(pages),
               !.lastRequested = Lowest(new \cup {@})]

lockPages(a, pages) ==
  LET new == Settable(a, pages)
  IN [a EXCEPT !.bits = @ \cup new,
               !.free = @ - Cardinality(new),
               !.used = @ + Cardinality(new),
               !.lastRequested = Lowest(new \cup {@})]

\* Unlike releasePages, freePages leaves g_lastRequestedIndex where it is.
freePages(a, pages) ==
  LET new == Clearable(a, pages)
  IN [a EXCEPT !.bits = @ \ new,
               !.free = @ + Cardinality(new),
               !.used = @ - Cardinality(new)]

-----------------------------------------------------------------------------
(***************************************************************************)
(* The operations.                                                         *)
(***************************************************************************)

Zeroed == [size |-> 0, bits |-> {}, free |-> 0, used |-> 0, reserved |-> 0,
           lastRequested |-> 0]

Init ==
  /\ memMap \in MemoryMaps
  /\ g_IsInitialized = FALSE
  /\ pfa = Zeroed
  /\ answer = nullptr
  /\ stray = {} /\ held = {} /\ freed = {}

\* MUTANT FORM of BootState: the pages below 1 MiB are not kept back.
BootStateWithLowPages(map, residue) ==
  LET built    == [Zeroed EXCEPT !.size = BitMapBytes(map), !.bits = residue,
                                 !.free = TotalPages(map)]
      full     == reservePages(built, Pages(0, TotalPages(map) + 1))
      released == releasePages(full, ConventionalPages(map))
  IN reservePages(released, BitMapPages(map))

\* Everything readEFIMemoryMap does to the bitmap and the counters.  The
\* constructor clears the buffer; the first bit after it keeps whatever the
\* memory held.  Releasing the segments one by one releases their union.
BootState(map, residue) ==
  LET built    == [Zeroed EXCEPT !.size = BitMapBytes(map), !.bits = residue,
                                 !.free = TotalPages(map)]
      full     == reservePages(built, Pages(0, TotalPages(map) + 1))
      released == releasePages(full, ConventionalPages(map))
      ownPages == reservePages(released, BitMapPages(map))
  IN reservePages(ownPages, Pages(0, LowPages))

\* A second call returns at once.
ReadEFIMemoryMap ==
  /\ ~g_IsInitialized
  /\ g_IsInitialized' = TRUE
  /\ stray' \in SUBSET {BitMapBytes(memMap) * ByteBits}
  /\ pfa' = BootState(memMap, stray')
  /\ UNCHANGED <<memMap, answer, held, freed>>

\* The clear bits requestPage scans: from the hint to the end of the buffer.
Found(a) == {p \in a.lastRequested .. (LastIndex(a) - 1) : p \notin a.bits}

\* MUTANT FORM of AfterRequest: the page is returned but not locked.
AfterRequestUnlocked(a) ==
  IF Found(a) = {}
    THEN [a EXCEPT !.lastRequested = LastIndex(a)]
    ELSE [a EXCEPT !.lastRequested = Lowest(Found(a)) + 1]

AfterRequest(a) ==
  IF Found(a) = {}
    THEN [a EXCEPT !.lastRequested = LastIndex(a)]
    ELSE lockPages([a EXCEPT !.lastRequested = Lowest(Found(a))],
                   {Lowest(Found(a))})

RequestPage ==
  /\ pfa' = AfterRequest(pfa)
  /\ IF Found(pfa) = {}
       THEN /\ answer' = nullptr
            /\ UNCHANGED <<held, freed>>
       ELSE /\ answer' = Lowest(Found(pfa))
            /\ held' = held \cup {answer'}
            /\ freed' = freed \ {answer'}
  /\ UNCHANGED <<memMap, g_IsInitialized, stray>>

\* A client locks a range of pages.
LockRange(pages) ==
  /\ g_IsInitialized
  /\ pfa' = lockPages(pfa, pages)
  /\ held' = held \cup Settable(pfa, pages)
  /\ freed' = freed \ pages
  /\ UNCHANGED <<memMap, g_IsInitialized, answer, stray>>

\* It may be any range, over pages already in use and past the bitmap.
LockPages ==
  \E first \in 0 .. (LastIndex(pfa) + 1), count \in 0 .. MaxCount :
    LockRange(Pages(first, count))

\* A client frees only pages it obtained: freePages itself does not check.
FreePages ==
  /\ g_IsInitialized
  /\ \E first \in held, count \in 0 .. MaxCount :
       /\ Pages(first, count) \subseteq held
       /\ pfa' = freePages(pfa, Pages(first, count))
       /\ held' = held \ Pages(first, count)
       /\ freed' = freed \cup Pages(first, count)
  /\ UNCHANGED <<memMap, g_IsInitialized, answer, stray>>

Next == ReadEFIMemoryMap \/ RequestPage \/ LockPages \/ FreePages

Spec == Init /\ [][Next]_vars

getFreeMemorySize == IF g_IsInitialized THEN pfa.free % SizeModulus ELSE 0

-----------------------------------------------------------------------------
(***************************************************************************)
(* Properties.                                                             *)
(***************************************************************************)

Indexes == Accepted(pfa)
ClearBits == Indexes \ pfa.bits

\* Memory a client may be given: conventional, not the bitmap's own pages,
\* and not below 1 MiB.
Usable(map) == ConventionalPages(map) \ (BitMapPages(map) \cup Pages(0, LowPages))

TypeOK ==
  /\ memMap \in MemoryMaps
  /\ g_IsInitialized \in BOOLEAN
  /\ pfa \in [size : Nat, bits : SUBSET Indexes, free : Int, used : Int,
              reserved : Int, lastRequested : Indexes]
  /\ answer \in Indexes
  /\ stray \subseteq {LastIndex(pfa)}
  /\ held \subseteq pfa.bits
  /\ freed \subseteq ClearBits

\* Whatever sequence of requests, locks and frees follows the boot, a page
\* that is free or in a client's hands is conventional memory outside the
\* bitmap and the first megabyte (readEFIMemoryMap's reservations survive).
OnlyUsableCirculates ==
  g_IsInitialized => (ClearBits \cup held) \subseteq Usable(memMap)

\* The counters never drift from the bitmap: used counts the clients' pages,
\* the three sizes always add up to the map's total, and the free size errs
\* by a constant, the pages past the last bit, less the one bit that is no
\* page of the buffer unless it was found set.
SizesMatchBitMap ==
  g_IsInitialized =>
    /\ pfa.used = Cardinality(held)
    /\ pfa.free + pfa.used + pfa.reserved = TotalPages(memMap)
    /\ pfa.free = Cardinality(ClearBits) + (TotalPages(memMap) - LastIndex(pfa))
                    - 1 + Cardinality(stray)

\* A free page below the search hint, which requestPage will not look at,
\* was put there by freePages; no other operation loses a page this way.
StrandedWereFreed ==
  \A p \in ClearBits : p < pfa.lastRequested => p \in freed

\* The allocator implements exclusive ownership of frames.
Ownership ==
  INSTANCE FrameOwnership WITH
    booted <- g_IsInitialized,
    available <- IF g_IsInitialized THEN ClearBits ELSE {},
    owned <- held

ImplementsOwnership == Ownership!Spec

(***************************************************************************)
(* What the code's comments claim, and the code does not do.               *)
(***************************************************************************)

\* requestPage: "We've run out of free pages." is said only when no page it
\* could return is free.
NullOnlyWhenOutOfPages ==
  [][RequestPage /\ answer' = nullptr => ClearBits \ {LastIndex(pfa)} = {}]_vars

\* getFreeMemorySize: "Current size of free RAM in bytes."  On a map whose
\* pages fill the bitmap exactly, that is what requestPage could hand out.
FreeSizeIsFreeRAM ==
  g_IsInitialized /\ TotalPages(memMap) = LastIndex(pfa) =>
    getFreeMemorySize = Cardinality(ClearBits \ {LastIndex(pfa)})
=============================================================================
