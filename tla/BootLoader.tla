----------------------------- MODULE BootLoader -----------------------------
(***************************************************************************)
(* The boot loader, gnu-efi/bootloader/main.c: it loads the kernel's       *)
(* segments, finds the frame buffer and a font, and then has to leave the  *)
(* firmware with a memory map that is still true.  The firmware's own      *)
(* events (timers, drivers) go on changing memory between any two of the   *)
(* loader's calls, until its boot services end.                            *)
(*                                                                         *)
(* The firmware is modelled from how the loader uses it: memory is what    *)
(* each page is used for, and the map has one descriptor for each run of   *)
(* pages of the same use.  A map key is kept as whether it still is the    *)
(* firmware's key.                                                         *)
(***************************************************************************)
EXTENDS Integers, Sequences, FiniteSets

CONSTANTS
  NumPages,    \* pages of memory
  PageSize,    \* bytes of a page (0x1000)
  Maps,        \* the memory the firmware may start the loader in
  Segments,    \* the PT_LOAD segments of kernel.elf, in order
  Slack        \* descriptors that fit in the 0x100 bytes getMemoryMap adds

Pages == 0 .. (NumPages - 1)

Use == {"conventional", "firmware", "loader"}

\* A piece of pool splits a descriptor in three at most.
PoolGrowth == 2

ASSUME FirmwareAssumption ==
  /\ NumPages \in Nat \ {0}
  /\ Maps \subseteq [Pages -> Use]
  /\ Slack \in Nat /\ Slack >= PoolGrowth

\* Segments begin on a page (LinkScript.ld).
ASSUME SegmentsAssumption ==
  /\ PageSize \in Nat \ {0}
  /\ Segments \in Seq([p_paddr : Nat, p_memsz : Nat \ {0}])
  /\ \A s \in DOMAIN Segments : Segments[s].p_paddr % PageSize = 0

VARIABLES
  memory,      \* the firmware's: what each page is used for
  services,    \* the firmware's: whether boot services have not ended
  pc,
  segment,     \* the segment loaded next
  granted,     \* history: the segments whose pages the firmware granted
  attempt,     \* the first or the second try to exit boot services
  MapSize,     \* memoryMapInfo: descriptors its buffer holds, ...
  map,         \* ... the map in it, ...
  MapKey,      \* ... and whether the key with it still is the firmware's
  moved,       \* history: did memory change since the map's size was read?
  struck,      \* history: the tries whose key became stale before the exit
  failure      \* the status of the call that failed

mapInfo == <<MapSize, map, MapKey>>
history == <<granted, moved, struck>>
vars == <<memory, services, pc, segment, attempt, mapInfo, history, failure>>

Nothing == <<>>

ConventionalPages == {p \in Pages : memory[p] = "conventional"}

\* The pages whose use begins a descriptor.
Starts(m) == {p \in Pages : p = 0 \/ m[p] # m[p - 1]}
Descriptors(m) == Cardinality(Starts(m))

\* The pages that byte first and the count - 1 after it lie in.
PagesOfBytes(first, count) ==
  (first \div PageSize) .. ((first + count - 1) \div PageSize)

ImagePages(s) == PagesOfBytes(Segments[s].p_paddr, Segments[s].p_memsz)

\* MUTANT FORM of AskedPages: whole pages only.
AskedWholePages(s) ==
  LET first == Segments[s].p_paddr \div PageSize
  IN  first .. (first + (Segments[s].p_memsz \div PageSize) - 1)

\* What efi_main asks for: p_memsz rounded up to whole pages.
AskedPages(s) ==
  LET pages == (Segments[s].p_memsz + PageSize - 1) \div PageSize
      first == Segments[s].p_paddr \div PageSize
  IN  first .. (first + pages - 1)

(***************************************************************************)
(* The firmware.                                                           *)
(***************************************************************************)

Taken(pages) == [p \in Pages |-> IF p \in pages THEN "loader" ELSE memory[p]]

\* Whatever changes memory changes the firmware's key.
Memory(m) ==
  /\ memory' = m
  /\ MapKey' = (MapKey /\ m = memory)

\* AllocatePool, called up to n times: a page is taken only when the pages
\* the pool has are full.
AllocatePool(n) ==
  \E pages \in SUBSET ConventionalPages :
    /\ Cardinality(pages) <= n
    /\ Memory(Taken(pages))

\* An event of the firmware takes a page or gives one back.
FirmwareEvent ==
  /\ services
  /\ \E p \in Pages, use \in {"conventional", "firmware"} :
       /\ memory[p] # "loader" /\ memory[p] # use
       /\ Memory([memory EXCEPT ![p] = use])
  /\ moved' = TRUE
  /\ struck' = IF pc = "exit" THEN struck \cup {attempt} ELSE struck
  /\ UNCHANGED <<services, pc, segment, granted, attempt, MapSize, map, failure>>

(***************************************************************************)
(* efi_main up to the memory map.                                          *)
(***************************************************************************)

Init ==
  /\ memory \in Maps
  /\ services = TRUE
  /\ pc = "kernel"
  /\ segment = 1 /\ granted = {}
  /\ attempt = 1
  /\ MapSize = 0 /\ map = Nothing /\ MapKey = FALSE
  /\ moved = FALSE /\ struck = {}
  /\ failure = "EFI_SUCCESS"

\* efi_main returns to the firmware.
Return(status) ==
  /\ pc' = "returned"
  /\ failure' = status

Proceed(next) ==
  /\ pc' = next
  /\ UNCHANGED failure

\* The file is missing, or is no kernel, or its headers are read, into pool
\* (for fileInfo, then programHeaders) whose allocation nobody checks: when it
\* fails the loader writes through a pointer it never set.
ReadKernel ==
  /\ pc = "kernel"
  /\ \/ /\ Return("EFI_LOAD_ERROR")
        /\ UNCHANGED <<memory, MapKey>>
     \/ /\ Return("EFI_INVALID_PARAMETER")
        /\ AllocatePool(1)
     \/ /\ Proceed("lost")
        /\ UNCHANGED <<memory, MapKey>>
     \/ /\ Proceed("segments")
        /\ AllocatePool(2)
  /\ UNCHANGED <<services, segment, attempt, MapSize, map, history>>

\* AllocatePages grants the pages if all are free.  Its answer is ignored: the
\* segment is read to its address either way.
LoadSegment ==
  /\ pc = "segments" /\ segment <= Len(Segments)
  /\ LET pages == AskedPages(segment)
     IN  IF pages \subseteq ConventionalPages
         THEN /\ Memory(Taken(pages))
              /\ granted' = granted \cup {segment}
         ELSE UNCHANGED <<memory, MapKey, granted>>
  /\ segment' = segment + 1
  /\ UNCHANGED <<services, pc, attempt, MapSize, map, moved, struck, failure>>

\* GOP is missing or will not tell its mode.
InitializeGOP ==
  /\ pc = "segments" /\ segment > Len(Segments)
  /\ \/ \E status \in {"EFI_NOT_FOUND", "EFI_DEVICE_ERROR"} : Return(status)
     \/ Proceed("font")
  /\ UNCHANGED <<memory, services, segment, attempt, mapInfo, history>>

\* The file is missing or, once its header is read, no font (NULL); or it is
\* read into three pieces of pool whose allocations nobody checks.
LoadFont ==
  /\ pc = "font"
  /\ \/ /\ Return("EFI_INVALID_PARAMETER")
        /\ AllocatePool(1)
     \/ /\ Proceed("lost")
        /\ UNCHANGED <<memory, MapKey>>
     \/ /\ Proceed("map size")
        /\ AllocatePool(3)
  /\ UNCHANGED <<services, segment, attempt, MapSize, map, history>>

(***************************************************************************)
(* getMemoryMap: ask for the size, allocate that and some more, ask for    *)
(* the map.                                                                *)
(***************************************************************************)

\* MUTANT FORM of Asked: the size as it was told.
AskedExactly == Descriptors(memory)

Asked == Descriptors(memory) + Slack

\* Called without a buffer, GetMemoryMap answers EFI_BUFFER_TOO_SMALL and the
\* size; whether it then writes the key is its own affair.
GetMapSize ==
  /\ pc = "map size"
  /\ \/ /\ Return("EFI_INVALID_PARAMETER")
        /\ UNCHANGED <<MapSize, MapKey, moved>>
     \/ /\ Proceed("map pool")
        /\ MapSize' = Asked
        /\ MapKey' \in BOOLEAN
        /\ moved' = FALSE
  /\ UNCHANGED <<memory, services, segment, granted, attempt, map, struck>>

AllocateMap ==
  /\ pc = "map pool"
  /\ \/ /\ Return("EFI_OUT_OF_RESOURCES")
        /\ UNCHANGED <<memory, MapKey>>
     \/ /\ Proceed("map")
        /\ AllocatePool(1)
  /\ UNCHANGED <<services, segment, attempt, MapSize, map, history>>

\* MUTANT FORM of GetMap: without the test of the second status.
GetMapUnchecked ==
  /\ pc = "map"
  /\ Proceed("exit")
  /\ IF Descriptors(memory) > MapSize
     THEN /\ MapKey' \in BOOLEAN
          /\ UNCHANGED <<map, MapSize>>
     ELSE /\ map' = memory /\ MapKey' = TRUE
          /\ MapSize' = Descriptors(memory)
  /\ UNCHANGED <<memory, services, segment, attempt, history>>

GetMap ==
  /\ pc = "map"
  /\ \/ /\ Descriptors(memory) > MapSize
        /\ Return("EFI_BUFFER_TOO_SMALL")
        /\ MapKey' \in BOOLEAN
        /\ UNCHANGED <<map, MapSize>>
     \/ /\ Descriptors(memory) <= MapSize
        /\ Proceed("exit")
        /\ map' = memory /\ MapKey' = TRUE
        /\ MapSize' = Descriptors(memory)
  /\ UNCHANGED <<memory, services, segment, attempt, history>>

(***************************************************************************)
(* Leaving the firmware: with a stale key, once more from the map's size.  *)
(***************************************************************************)

\* MUTANT FORMs of Retry: for ever; once too often; with the same map.
RetryForever ==
  /\ Proceed("map size")
  /\ attempt' = 2

RetryTwice ==
  IF attempt <= 2
  THEN /\ Proceed("map size")
       /\ attempt' = attempt + 1
  ELSE /\ pc' = "gave up"
       /\ failure' = "EFI_INVALID_PARAMETER"
       /\ attempt' = attempt

RetryWithSameMap ==
  IF attempt = 1
  THEN /\ Proceed("exit")
       /\ attempt' = 2
  ELSE /\ pc' = "gave up"
       /\ failure' = "EFI_INVALID_PARAMETER"
       /\ attempt' = attempt

Retry ==
  IF attempt = 1
  THEN /\ Proceed("map size")
       /\ attempt' = 2
  ELSE /\ pc' = "gave up"
       /\ failure' = "EFI_INVALID_PARAMETER"
       /\ attempt' = attempt

\* MUTANT FORM of ExitBootServices: the second answer is not looked at.
ExitBootServicesUnchecked ==
  /\ pc = "exit"
  /\ IF MapKey \/ attempt = 2
     THEN /\ services' = ~MapKey
          /\ Proceed("entered")
          /\ attempt' = attempt
     ELSE /\ services' = services
          /\ Retry
  /\ UNCHANGED <<memory, segment, mapInfo, history>>

ExitBootServices ==
  /\ pc = "exit"
  /\ IF MapKey
     THEN /\ services' = FALSE
          /\ Proceed("entered")
          /\ attempt' = attempt
     ELSE /\ services' = services
          /\ Retry
  /\ UNCHANGED <<memory, segment, mapInfo, history>>

(***************************************************************************)
(* The loader runs on; the firmware's events come at their own time.       *)
(***************************************************************************)

Loader ==
  \/ ReadKernel \/ LoadSegment \/ InitializeGOP \/ LoadFont
  \/ GetMapSize \/ AllocateMap \/ GetMap \/ ExitBootServices

Next == FirmwareEvent \/ Loader

Spec == Init /\ [][Next]_vars

FairSpec == Spec /\ WF_vars(Loader)

(***************************************************************************)
(* Properties.                                                             *)
(***************************************************************************)

Returned == {"returned", "gave up"}

Steps == {"kernel", "segments", "font", "map size", "map pool", "map", "exit"}

Status == {"EFI_SUCCESS", "EFI_LOAD_ERROR", "EFI_INVALID_PARAMETER", "EFI_NOT_FOUND",
           "EFI_DEVICE_ERROR", "EFI_OUT_OF_RESOURCES", "EFI_BUFFER_TOO_SMALL"}

\* Every variable is of its type.
TypeOK ==
  /\ memory \in [Pages -> Use]
  /\ services \in BOOLEAN
  /\ pc \in Steps \cup Returned \cup {"lost", "entered"}
  /\ segment \in 1 .. (Len(Segments) + 1)
  /\ granted \subseteq DOMAIN Segments
  /\ attempt \in {1, 2}
  /\ MapSize \in Nat
  /\ map \in [Pages -> Use] \cup {Nothing}
  /\ MapKey \in BOOLEAN
  /\ moved \in BOOLEAN
  /\ struck \subseteq {1, 2}
  /\ failure \in Status

\* When the loader tries to leave with a key the firmware still accepts, the
\* map in its buffer, perhaps of the second try, is memory as it is.
KeyVouchesForMap ==
  pc = "exit" /\ MapKey => map = memory

\* The loader gives up only when memory was changed under it, between reading
\* the map and leaving, in both tries: it never makes its own key stale ("we
\* must NOT use any services that may update the map after retrieval").
GivesUpOnlyWhenStruckTwice ==
  pc = "gave up" => struck = {1, 2}

\* The hard coded slack is enough for what allocating the map's own buffer
\* adds to the map: if the map does not fit, the firmware has been at work.
TooSmallOnlyWhenMoved ==
  failure = "EFI_BUFFER_TOO_SMALL" => moved

\* Every page that a byte of a granted segment lies in, its .bss included, is
\* still the loader's in the map the kernel is given: the kernel's allocator
\* never takes it for free.
GrantedImageIsReserved ==
  pc = "entered" =>
    \A s \in granted : \A p \in ImagePages(s) \cap Pages : map[p] = "loader"

\* The loader always ends, in the kernel, in the firmware or lost, whatever
\* the firmware's events: it does not retry for ever.
LoaderEnds == <>(pc \in Returned \cup {"lost", "entered"})

\* The loader hands the machine over once, with the map of memory as it is.
HandedOver == INSTANCE Handover WITH
  owner <- IF services THEN "firmware" ELSE "kernel",
  given <- IF pc = "entered" THEN map ELSE Nothing

ImplementsHandover == HandedOver!Spec

\* "[OK]: Kernel program loaded." is printed when the segments have been read.
\* The loader owns their pages then.
LoadedProgramIsOwned ==
  segment > Len(Segments) => granted = DOMAIN Segments
=============================================================================
