---------------------------- MODULE KernelMemory ----------------------------
(***************************************************************************)
(* How the kernel sets up its memory: prepareMemory and prepareInterrupts  *)
(* (utils/KernelUtility.cpp), which identity-map all memory and the frame  *)
(* buffer with the four-level page tables of memory/PageTableManager.cpp,  *)
(* out of pages of the allocator.                                          *)
(*                                                                         *)
(* The kernel registers its interrupt handlers only after all of this, and *)
(* the firmware's, should one run before, know nothing of this state: the  *)
(* steps below are the calls of the allocator and the levels of mapMemory, *)
(* in program order.  Addresses are counted in pages, like the             *)
(* allocator's.                                                            *)
(***************************************************************************)
EXTENDS PageFrameAllocator

CONSTANTS
  Fanout,         \* entries of a page table (512)
  KernelBytes,    \* size of the kernel image, linked at address 0
  WordBytes,      \* bytes of a size_t (8)
  FrameBuffers    \* the frame buffers the firmware may hand over

Ceiling(n, m) == (n + m - 1) \div m

KernelImage == Pages(0, Ceiling(KernelBytes, PageSize))

\* The pages that clearing and drawing touch.
FrameBufferPages(fb) ==
  Pages(fb.BaseAddress, Ceiling(fb.BufferSize, PageSize))

\* A virtual address less the bits of the lowest level (virtualAddress >>= 9).
Shifted(virtual) == virtual \div Fanout

\* Every virtual page that tables of four levels tell apart.
VirtualPages == 0 .. (Fanout * (Fanout * (Fanout * Fanout)) - 1)

\* The pages the second loop of prepareMemory maps: one to spare.
FrameBufferMapping(fb) ==
  Pages(fb.BaseAddress, Ceiling(fb.BufferSize + PageSize, PageSize))

\* The loader asks for the image's pages but ignores the answer: they may be
\* conventional memory, though not the start of its largest segment.
ASSUME KernelAssumption ==
  /\ Fanout \in Nat /\ Fanout > 1
  /\ WordBytes \in Nat \ {0} /\ KernelBytes \in Nat \ {0}
  /\ KernelImage \subseteq Pages(0, LowPages)
  /\ \A map \in MemoryMaps :
       /\ LowPages <= TotalPages(map)
       /\ Pages(0, TotalPages(map)) \subseteq VirtualPages
       /\ BitMapPages(map) \cap KernelImage = {}

\* A frame buffer is memory of the graphics device, within reach of a page map.
ASSUME FrameBuffersAssumption ==
  \A fb \in FrameBuffers :
    /\ fb \in [BaseAddress : Nat, BufferSize : Nat \ {0}]
    /\ FrameBufferMapping(fb) \subseteq VirtualPages
    /\ \A map \in MemoryMaps : FrameBufferPages(fb) \cap ConventionalPages(map) = {}

VARIABLES
  frameBuffer,
  pc,
  loop,             \* which of prepareMemory's two loops is running
  page,             \* the page it maps
  level, table,     \* mapMemory: the level it is at, and the table there
  pageMapLevel4,
  tables,           \* the contents of every page used as a table
  idt               \* idtRegister.Offset

allocatorVars == vars
walkVars == <<loop, page, level, table>>
memoryVars == <<vars, frameBuffer, pc, walkVars, pageMapLevel4, tables, idt>>

Slots == 0 .. (Fanout - 1)
Absent == -1                          \* an entry without its PRESENT flag
EmptyTable == [k \in Slots |-> Absent]

-----------------------------------------------------------------------------
(***************************************************************************)
(* Page tables.                                                            *)
(***************************************************************************)

\* MUTANT FORM of PageMapIndex: the last shift is left out.
PageMapIndexUnshifted(virtual, lev) ==
  CASE lev = 1 -> virtual % Fanout
    [] lev = 2 -> Shifted(virtual) % Fanout
    [] lev = 3 -> Shifted(Shifted(virtual)) % Fanout
    [] lev = 4 -> Shifted(Shifted(virtual)) % Fanout

\* The entry that leads to a virtual page in the tables of a level: what is
\* left of the address is masked, then shifted for the level above.
PageMapIndex(virtual, lev) ==
  CASE lev = 1 -> virtual % Fanout
    [] lev = 2 -> Shifted(virtual) % Fanout
    [] lev = 3 -> Shifted(Shifted(virtual)) % Fanout
    [] lev = 4 -> Shifted(Shifted(Shifted(virtual))) % Fanout

\* memset(p, 0, PAGE_SIZE)
Cleared(p) == [t \in DOMAIN tables \cup {p} |->
                 IF t = p THEN EmptyTable ELSE tables[t]]

WithEntry(contents, t, k, address) ==
  [contents EXCEPT ![t] = [@ EXCEPT ![k] = address]]

\* What a table's entry for a virtual page holds; nothing below no table.
Entry(t, virtual, lev) ==
  IF t \in DOMAIN tables THEN tables[t][PageMapIndex(virtual, lev)] ELSE Absent

\* Where the processor finds a virtual page.
Translate(virtual) ==
  LET t3 == Entry(pageMapLevel4, virtual, 4)
      t2 == Entry(t3, virtual, 3)
      t1 == Entry(t2, virtual, 2)
  IN Entry(t1, virtual, 1)

-----------------------------------------------------------------------------
(***************************************************************************)
(* prepareMemory.                                                          *)
(***************************************************************************)

MemoryInit ==
  /\ Init
  /\ frameBuffer \in FrameBuffers
  /\ pc = "read memory map"
  /\ loop = "memory" /\ page = 0 /\ level = 4 /\ table = nullptr
  /\ pageMapLevel4 = nullptr
  /\ tables = [t \in {} |-> EmptyTable]
  /\ idt = nullptr

ReadMap ==
  /\ pc = "read memory map" /\ pc' = "lock kernel"
  /\ ReadEFIMemoryMap
  /\ UNCHANGED <<frameBuffer, walkVars, pageMapLevel4, tables, idt>>

\* The image's bounds are subtracted as pointers to size_t, so the pages
\* counted are those of an eighth of it.
LockKernel ==
  /\ pc = "lock kernel" /\ pc' = "request root"
  /\ LockRange(Pages(0, (KernelBytes \div WordBytes) \div PageSize + 1))
  /\ UNCHANGED <<frameBuffer, walkVars, pageMapLevel4, tables, idt>>

\* Start mapMemory for a page.
Walk(next, root) ==
  /\ pc' = "walk"
  /\ page' = next
  /\ level' = 4 /\ table' = root

RequestRoot ==
  /\ pc = "request root"
  /\ RequestPage /\ answer' # nullptr
  /\ pageMapLevel4' = answer'
  /\ tables' = Cleared(answer')
  /\ Walk(0, answer')
  /\ UNCHANGED <<frameBuffer, loop, idt>>

\* mapMemory, a level whose entry is present.
FollowEntry ==
  /\ pc = "walk" /\ level > 1
  /\ Entry(table, page, level) # Absent
  /\ table' = Entry(table, page, level)
  /\ level' = level - 1
  /\ UNCHANGED <<vars, frameBuffer, pc, loop, page, pageMapLevel4, tables, idt>>

\* mapMemory, a level whose entry is not: request, clear, then link.
AddTable ==
  /\ pc = "walk" /\ level > 1
  /\ Entry(table, page, level) = Absent
  /\ RequestPage /\ answer' # nullptr
  /\ tables' = WithEntry(Cleared(answer'), table, PageMapIndex(page, level), answer')
  /\ table' = answer'
  /\ level' = level - 1
  /\ UNCHANGED <<frameBuffer, pc, loop, page, pageMapLevel4, idt>>

\* MUTANT FORM of ToMap: the last page of memory is left out.
ToMapButLast(which) ==
  CASE which = "memory"       -> Pages(0, TotalPages(memMap) - 1)
    [] which = "frame buffer" -> FrameBufferMapping(frameBuffer)

\* The pages each loop maps.
ToMap(which) ==
  CASE which = "memory"       -> Pages(0, TotalPages(memMap))
    [] which = "frame buffer" -> FrameBufferMapping(frameBuffer)

\* mapMemory, the last level, and the next turn of the loop.
SetEntry ==
  /\ pc = "walk" /\ level = 1
  /\ tables' = WithEntry(tables, table, PageMapIndex(page, 1), page)
  /\ IF page + 1 \in ToMap(loop)
       THEN Walk(page + 1, pageMapLevel4)
       ELSE /\ pc' = IF loop = "memory" THEN "lock frame buffer" ELSE "load cr3"
            /\ UNCHANGED <<page, level, table>>
  /\ UNCHANGED <<vars, frameBuffer, loop, pageMapLevel4, idt>>

\* The frame buffer's pages are locked only now.
LockFrameBuffer ==
  /\ pc = "lock frame buffer"
  /\ LockRange(Pages(frameBuffer.BaseAddress,
                     (frameBuffer.BufferSize + PageSize) \div PageSize + 1))
  /\ loop' = "frame buffer"
  /\ Walk(frameBuffer.BaseAddress, pageMapLevel4)
  /\ UNCHANGED <<frameBuffer, pageMapLevel4, tables, idt>>

\* From here on every access, the first to the frame buffer, is translated.
\* Pages of the loader's that the kernel goes on reading, as the stack and the
\* font, are mapped with the rest as far as they lie below the map's total.
LoadCR3 ==
  /\ pc = "load cr3" /\ pc' = "request idt"
  /\ UNCHANGED <<vars, frameBuffer, walkVars, pageMapLevel4, tables, idt>>

\* The bits a request tests, from the hint to the page it answers, and the
\* pages of the bitmap they lie on.
Tested(a) ==
  {k \in a.lastRequested .. (LastIndex(a) - 1) : \A p \in Found(a) : k <= p}

PagesTested(a) ==
  {p \in BitMapPages(memMap) : \E k \in Tested(a) :
     p = LargestSegment(memMap).PhysicalAddress + (k \div ByteBits) \div PageSize}

\* The first request after cr3 is loaded reaches the bitmap through it.
BitMapAnswers == \A p \in PagesTested(pfa) : Translate(p) # Absent

\* prepareInterrupts puts the interrupt descriptors on a page of their own.
RequestIDT ==
  /\ pc = "request idt" /\ pc' = "running"
  /\ BitMapAnswers
  /\ RequestPage /\ answer' # nullptr
  /\ idt' = answer'
  /\ UNCHANGED <<frameBuffer, walkVars, pageMapLevel4, tables>>

\* A request that fails answers address 0, and no caller looks: the kernel's
\* own first page is overwritten, and nothing more can be said.
Overwrite ==
  /\ pc \in {"request root", "walk", "request idt"}
  /\ pc = "walk" => level > 1 /\ Entry(table, page, level) = Absent
  /\ pc = "request idt" => BitMapAnswers
  /\ RequestPage /\ answer' = nullptr
  /\ pc' = "overwritten"
  /\ UNCHANGED <<frameBuffer, walkVars, pageMapLevel4, tables, idt>>

\* The request of prepareInterrupts meets a page of the bitmap that no entry
\* leads to: a page fault, with no handler of the kernel's registered yet.
Fault ==
  /\ pc = "request idt" /\ pc' = "faulted"
  /\ ~BitMapAnswers
  /\ UNCHANGED <<vars, frameBuffer, walkVars, pageMapLevel4, tables, idt>>

MemoryNext ==
  \/ ReadMap \/ LockKernel \/ RequestRoot
  \/ FollowEntry \/ AddTable \/ SetEntry
  \/ LockFrameBuffer \/ LoadCR3 \/ RequestIDT
  \/ Overwrite \/ Fault

MemorySpec == MemoryInit /\ [][MemoryNext]_memoryVars

-----------------------------------------------------------------------------
(***************************************************************************)
(* Properties.                                                             *)
(***************************************************************************)

Location ==
  {"read memory map", "lock kernel", "request root", "walk",
   "lock frame buffer", "load cr3", "request idt", "running", "overwritten",
   "faulted"}

MemoryTypeOK ==
  /\ TypeOK
  /\ frameBuffer \in FrameBuffers
  /\ pc \in Location
  /\ loop \in {"memory", "frame buffer"} /\ page \in Nat /\ level \in 1 .. 4
  /\ table \in DOMAIN tables \cup {nullptr}
  /\ pageMapLevel4 \in DOMAIN tables \cup {nullptr}
  /\ DOMAIN tables \subseteq Indexes
  /\ tables \in [DOMAIN tables -> [Slots -> Nat \cup {Absent}]]
  /\ idt \in Indexes

\* No page table lies in the kernel's image, the bitmap or the frame buffer,
\* each is a page the kernel holds, and the interrupt descriptors share none:
\* although the kernel's lock falls short of its image.
TablesAreExclusive ==
  /\ DOMAIN tables \subseteq held
  /\ DOMAIN tables \cap (KernelImage \cup BitMapPages(memMap)) = {}
  /\ DOMAIN tables \cap FrameBufferPages(frameBuffer) = {}
  /\ idt # nullptr => idt \in held \ DOMAIN tables

\* The bitmap lies below the map's total, the part of memory that is mapped.
\* readEFIMemoryMap does not see to it: with holes, the largest segment may
\* lie past the sum of the segments' sizes.
BitMapBelowTotal(map) == BitMapPages(map) \subseteq Pages(0, TotalPages(map))

\* Once cr3 is loaded, the memory the kernel goes on using is mapped where it
\* was: its image, the page tables themselves, the frame buffer, the
\* interrupt descriptors, all pages below the map's total, and the bitmap
\* where it is below the total, too.  Elsewhere the next request may fault, and
\* it faults nowhere else.
UsedMemoryIsMapped ==
  /\ pc \in {"request idt", "running"} =>
       \A p \in UNION {KernelImage, DOMAIN tables, FrameBufferPages(frameBuffer),
                       Pages(0, TotalPages(memMap)), {idt},
                       IF BitMapBelowTotal(memMap) THEN BitMapPages(memMap) ELSE {}} :
         Translate(p) = p
  /\ pc = "faulted" => ~BitMapBelowTotal(memMap)

\* Page tables implement an address space: a new table maps nothing, and an
\* entry is set without disturbing the translation of any other page.
Space ==
  INSTANCE AddressSpace WITH
    mapping <- [v \in {w \in VirtualPages : Translate(w) # Absent} |-> Translate(v)],
    broken <- pc = "overwritten"

ImplementsAddressSpace == Space!Spec

(***************************************************************************)
(* What a comment claims, and the code does not do.                        *)
(***************************************************************************)

\* requestPage: "@return Pointer to allocated page."
AnswersAreAllocated ==
  pc \notin {"read memory map", "lock kernel", "request root"} => answer \in held
=============================================================================
