----------------------- MODULE MCPageFrameAllocator -----------------------
(***************************************************************************)
(* Memory maps for TLC: every kind of page the allocator tells apart, with *)
(* a byte of four bits and a page of two bytes.                            *)
(***************************************************************************)
EXTENDS PageFrameAllocator

Seg(type, first, count) ==
  [Type |-> type, PhysicalAddress |-> first, PageCount |-> count]

Ram(first, count) == Seg("EfiConventionalMemory", first, count)
Loader(first, count) == Seg("EfiLoaderData", first, count)

\* Eight pages, the bitmap exactly covers them: the extra bit is no page.
WholeMap == <<Ram(0, 2), Loader(2, 1), Ram(3, 5)>>

\* Eleven pages: the last three have no bit in the buffer, one of them the
\* extra bit.
TailMap == <<Ram(0, 2), Loader(2, 1), Ram(3, 8)>>

\* A hole at pages 2 and 3: the map's total is less than its last page, and
\* the page at the extra bit is conventional.
HoleMap == <<Ram(0, 2), Ram(4, 5), Seg("EfiMemoryMappedIO", 12, 1)>>

MCMemoryMaps == {WholeMap, TailMap, HoleMap}
===========================================================================
