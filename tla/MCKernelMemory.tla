--------------------------- MODULE MCKernelMemory ---------------------------
(***************************************************************************)
(* Memory for TLC: bytes of eight bits, pages of two bytes, page tables of *)
(* four entries, and a kernel image of three pages.  The page tables of a  *)
(* memory of 24 pages are ten or more, so a map may suffice for them or    *)
(* not.                                                                    *)
(***************************************************************************)
EXTENDS KernelMemory

Seg(type, first, count) ==
  [Type |-> type, PhysicalAddress |-> first, PageCount |-> count]

Ram(first, count) == Seg("EfiConventionalMemory", first, count)
Loader(first, count) == Seg("EfiLoaderData", first, count)

\* All memory in one piece, but for the kernel's image and a page of the
\* loader's.
WholeMap == <<Loader(0, 3), Ram(3, 2), Loader(5, 1), Ram(6, 18)>>

\* Two pages more, past the last bit of the bitmap, and an image the loader
\* failed to allocate.
TailMap == <<Ram(0, 5), Loader(5, 1), Ram(6, 20)>>

\* A hole above the low memory: the last pages lie past the map's total.
HoleMap == <<Loader(0, 3), Ram(3, 13), Ram(20, 6), Seg("EfiMemoryMappedIO", 30, 2)>>

\* Most of the memory is not conventional: the tables do not fit.
TightMap == <<Loader(0, 3), Ram(3, 7), Loader(10, 14)>>

\* Three pieces of low memory, and the largest segment, with the bitmap, above
\* the map's total of 42 pages (HighMap), or with only its last page there
\* (CutMap), which the set-up does not come to read.
SplitMap(high) ==
  <<Loader(0, 3), Ram(3, 9), Loader(12, 1), Ram(13, 9), Loader(22, 1), Ram(23, 9),
    Ram(high, 10)>>

HighMap == SplitMap(50)
CutMap == SplitMap(40)

MCMemoryMaps == {WholeMap, TailMap, HoleMap, TightMap, HighMap, CutMap}

FB(base, size) == [BaseAddress |-> base, BufferSize |-> size]

\* Next to the memory; in the last quarter of the address space, with a
\* buffer of whole pages and with one that ends inside a page.
MCFrameBuffers == {FB(32, 2), FB(63, 4), FB(192, 3)}
=============================================================================
