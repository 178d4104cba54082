# NucleaOS in TLA+

A verification development of NucleaOS, a small x86-64 kernel with its UEFI
boot loader: TLA+ modules of the parts that carry its logic, TLC
configurations that check them on small instances, and proofs, checked by
TLAPS, that hold for every value of the constants.

## 1. The system

The kernel is some 1200 lines of C++ under `src/kernel/src` with headers under
`src/kernel/inc`; the boot loader is one C file,
`src/gnu-efi/bootloader/main.c`. The rest of `src/gnu-efi` is a third-party
library.

The boot loader reads the kernel image, finds the frame buffer and a font, takes
the firmware's memory map and jumps to `_kernelEntry`. `initializeKernel` then
loads the GDT, sets up memory (`prepareMemory`), the interrupt descriptors and
the PIC (`prepareInterrupts`), the mouse (`initPS2Mouse`) and enables
interrupts. From there on three things run on the one processor: the main
thread, which prints a greeting and then polls for mouse packets for ever, and
the keyboard's and the mouse's interrupt handlers.

| Part | Its state | Its operations | Shared with |
|---|---|---|---|
| Page frame allocator (`memory/PageFrameAllocator.cpp`) | bitmap, three size counters, `g_lastRequestedIndex`, `g_IsInitialized` | `readEFIMemoryMap`, `requestPage`, `lockPages`, `freePages` | start-up, page tables |
| Bitmap (`utils/BitMap.cpp`) | a buffer inside the memory it describes | `Get`, `Set` | the allocator |
| Page tables (`memory/PageTableManager.cpp`, `Paging.cpp`) | a tree of four levels in pages of the allocator | `mapMemory` | allocator, processor |
| Start-up (`utils/KernelUtility.cpp`) | `cr3`, `idtRegister` | `prepareMemory`, `prepareInterrupts`, `initializeKernel` | all |
| Mouse (`io/mouse/PS2_Mouse.cpp`) | `MousePacket`, its index, `IsMousePacketReady`, `MousePosition` | the interrupt handler; `processPS2MousePacket`; `initPS2Mouse` | handler and main loop share the packet without a lock |
| Keyboard (`io/keyboard`) | the two shift flags | the interrupt handler, `Translate` | calls the text renderer |
| Text renderer (`io/graphics/TextRenderer.cpp`) | `CursorPosition`, colours | `_printChar`, `_print`, `clearChar`, `_putChar` | main thread and keyboard handler, without a lock |
| Interrupts (`interrupts/`, `io/IOBus.cpp`) | the descriptors, the two 8259 chips, the PS/2 controller | `registerInterrupt`, `remapPIC`, the handlers, end of interrupt | start-up, keyboard, mouse |
| GDT (`gdt/`) | a constant table | loaded once | processor |
| Strings (`utils/Str.cpp`) | two static output buffers | `to_string`, padding, `strcpy` | printing |
| Boot loader (`gnu-efi/bootloader/main.c`) | memory map and its key, frame buffer, font, image | load, read the map, exit boot services | firmware, kernel |

What makes each hard:

* *Allocator.* Four loops move bits and counters together; the search hint is
  state kept across calls; the bitmap lives in the memory it manages, is sized
  by a rounded quotient and lets one index too many through. Correct means:
  pages are owned exclusively, only usable ones circulate, the counters follow
  the bitmap, no free page is hidden.
* *Page tables.* Tables are allocated while mapping and must themselves be
  mapped when `cr3` is loaded; mapping one page must not move another; a failed
  request answers address 0, where the kernel is.
* *Mouse.* A handler that may strike between any two accesses of the main loop;
  bytes dropped in the middle of a report; requests left over from the
  set-up, whose handlers read what is not theirs; unsigned coordinates. Correct means: packets are made of consecutive
  bytes, a torn read mixes at most two, the dot stays on the screen, no packet
  waits for ever.
* *Text renderer.* The keyboard handler moves the cursor between the main
  thread's loads, tests and stores. Correct means: lost updates stay bounded, and
  nothing is wrong while no key strikes.
* *Boot loader.* A firmware that changes memory between any two calls, a map key
  that goes stale, one retry, ignored answers. Correct means: the kernel is
  entered once, with a map that is true, in which the image is not free memory.
* *Interrupts.* The chips are reset and the mouse configured while devices go on
  sending; answers are polled although each also raises a request; a byte that is
  not read holds its line up, and a line that does not fall never rises again.
  Correct means: every interrupt reaches its handler and is ended on the chips it
  came through, no byte waits for ever, the controller is configured as the
  firmware had it, and the set-up ends.
* *Keyboard.* Codes are handled long after the keys were struck, and extended keys
  make up shifts that nobody pressed. Correct means: the flags follow the keys, and
  what is echoed is the letter struck, in its case.
* *Strings.* Two buffers that keep what the last call left, widths that are cut,
  the signs and zeroes next to a power of ten. Correct means: the text read back
  is the number, and a padded text has its width.

`PROJECT.json` lists every hazard at its line, with the properties that cover it.

## 2. The modules

| Module | Models | Checked by |
|---|---|---|
| `FrameOwnership` | abstract: what an allocator of frames promises | implemented by `PageFrameAllocator` |
| `PageFrameAllocator` | the allocator and its bitmap | `allocator`, `allocator_hint`, `allocator_size` |
| `PageFrameAllocatorProofs` | theorems about it | TLAPS |
| `Handover` | abstract: what a boot loader promises | implemented by `BootLoader` |
| `BootLoader` | `efi_main` and the functions it calls, against the firmware | `boot`, `boot_image` |
| `BootLoaderProofs` | theorems about it | TLAPS |
| `AddressSpace` | abstract: what building a page map promises | implemented by `KernelMemory` |
| `KernelMemory` | `prepareMemory`, `mapMemory`, the page of the IDT; extends `PageFrameAllocator` | `kernel_memory`, `kernel_memory_null` |
| `KernelMemoryProofs` | theorems about it, from the allocator's | TLAPS |
| `InputSystem` | `prepareInterrupts`, `initPS2Mouse`, the handlers and the PICs, against the devices | `input_system` |
| `InputSystemProofs` | theorems about it | TLAPS |
| `ConfigurationProofs` | theorems about the configuration byte in it | TLAPS |
| `PS2Mouse` | the mouse's packet between handler and main loop | `mouse` |
| `PS2MouseProofs` | theorems about it | TLAPS |
| `TextRenderer` | main thread and keyboard handler on one cursor | `text_renderer`, `text_overflow` |
| `TextRendererProofs` | theorems about it | TLAPS |
| `Keyboard` | the shift flags and the translation of scan codes | `translations` |
| `Strings` | conversions of numbers and the pads | `translations` |
| `TranslationsProofs` | theorems about `Keyboard` and `Strings` | TLAPS |

Modules named `MC...` only give the constants values for TLC; `MCTranslations` also
joins `Keyboard` and `Strings`, which share nothing, in one run where one rests
while the other works. Definitions keep
the source's names. An operator whose comment says MUTANT FORM is a plausible
bug: no specification uses it; put in the place of the definition it names, it
must break the property `PROJECT.json` pairs it with, which shows that the
property can fail.

### PageFrameAllocator

Addresses and sizes are in pages. `pfa` is a record of the bitmap (`size` in
bytes, `bits`: the indexes whose bit is set), the three counters and the hint.
`reservePages`, `releasePages`, `lockPages` and `freePages` are what each loop
leaves behind: which bits change (`Settable`, `Clearable`, with the code's test
`index > _size * 8`), how the counters move, and whether the hint is lowered.
`BootState` is the whole of `readEFIMemoryMap`, in its order: reserve everything
(and a page more), release the conventional segments, reserve the bitmap's
pages, reserve the first megabyte. Nothing calls the allocator from an interrupt
handler, so an operation is a step. The bit after the buffer is whatever memory
held (`stray`). `held` and `freed` are histories: the pages clients obtained and
have not returned, and those they returned. Clients free only pages they hold:
`freePages` does not check, so this is a condition on its callers (the kernel
has none yet).

### KernelMemory

The steps are the calls of the allocator and the levels of `mapMemory`, in
program order. The kernel's own interrupt handlers are registered only afterwards;
the firmware's may run until then, but know nothing of this state. `tables` holds the contents of each page used
as a table, an entry being `Absent` or the page it points to. `FollowEntry` and
`AddTable` are the two branches that `mapMemory` repeats for three levels,
`SetEntry` its last level and the next turn of the loop. A failed request ends
the behaviour in `"overwritten"`: its caller clears address 0, the kernel's own
code. `Translate` is the processor's walk, through which `KernelMemory` is shown
to implement `AddressSpace`. The loader ignores the answer of `AllocatePages`
for the image's pages, so they may be conventional memory; that the bitmap, at
the start of the largest conventional segment, is not put there is an assumption
(`KernelAssumption`), and so is that the frame buffer is no conventional memory and
that memory and frame buffer are within reach of four levels of tables.
`PageMapIndex` shifts the address level by level, as the code does.

Once `cr3` is loaded the allocator reaches its bitmap through the tables, and only
what lies below the map's total, the sum of its segments, is mapped. Nothing keeps
the bitmap below it: with holes in the map the largest segment may begin past the
sum. So the first request after `cr3`, that of `prepareInterrupts`, looks at the
pages of the bitmap it comes to read (`Tested`, `PagesTested`), and `Fault` is the
step that finds one without a translation; it ends the behaviour in `"faulted"`.

### BootLoader

The steps are the loader's calls that can fail, change memory or read the map,
in program order, and `FirmwareEvent`, which may come between any two of them
while boot services run. The firmware is modelled from how the loader uses it:
`memory` says what each page is used for, the map has a descriptor for each run
of pages of one use, and `MapKey` says whether the loader's key still is the
firmware's; every change of memory makes it stale, the loader's own allocations
included. `AllocatePool` takes a page or finds room in one it has, so it
lengthens the map by two descriptors at most (`PoolGrowth`); `Slack` is what the
0x100 bytes of `getMemoryMap` hold, five descriptors of 48 bytes. Ignored answers
stay ignored: `LoadSegment` goes on without its pages, and a pool allocation
nobody checks ends the behaviour in `"lost"`, since the next write goes through a
pointer never set. The firmware may or may not write the key when the buffer is
too small. `granted`, `moved` and `struck` are histories: the segments whose pages
were granted, whether memory changed since the map's size was read, and the tries
whose key became stale before the exit.

What it hands to `KernelMemory` is what that module assumes: a true map, in which
the image's pages may be free memory when the firmware refused them.

### InputSystem

The set-up from `prepareInterrupts` to `sti` is straight-line code: registrations,
port accesses and waits. So it is written down as what it is, a sequence of
instructions (`Program`, composed of `prepareInterrupts`, `remapPIC` and
`initPS2Mouse`), and the processor's actions execute the instruction at `pc`. Between any
two of them a key may be struck, the mouse may report, the timer may tick, and the
controllers take commands and pass bytes on. A wait polls `Timeout` times, then
prints an error and goes on, as the code does. The handlers' accesses are steps
too: an interrupt gate keeps other interrupts out, not the devices. The model begins at
`prepareInterrupts`, and no interrupt is taken before `lidt`: the firmware's own
descriptors, replaced just before, are not modelled. `idt` says which handler is
registered for a vector; the page of the descriptors is not cleared, so a vector
that is not registered leads to `"garbage"`, which must never run. The three fault
handlers are registered and never run.

The devices are modelled from how the code uses them: a controller with one output
byte, which it fills from its own answers, the keyboard or the mouse, and whose line
is up while the byte is there and its interrupt enabled in the configuration; a
later write to a port replaces one it has not taken. The chips are edge-triggered,
with requests, lines in service, masks, a base vector and the words they expect; a
request whose line falls before it is acknowledged is kept or dropped, as a real
8259 may do either. `found` and `disturbed` are histories: the firmware's
configuration, and whether a device's byte came before it was read or a wait gave
up, the two ways in which another byte is taken for it.

### Keyboard

`shift` is the two flags, `held` the shift keys held down, `sent` the codes not
handled yet, oldest first, and `intended` the char each was meant to give: a key may be pressed, repeated and
released while older codes wait. Extended keys send the prefix 0xe0, which
the code does not know, and a second byte, which may be that of a shift
(`ExtendedKey`): that key's flag follows the made-up shift until its next real
press or release, and leaves `known` for that long. `FlagsAfter` is the flags that the
code will have after each of the codes under way.
`Translate` answers a char of any value: code 58 (Caps Lock) passes the test and
reads `BeyondTable`, the byte after the table of 58.

### Strings

A buffer is a function from indexes to chars and keeps what earlier calls left in
it; only the main thread converts, so a call is a step. Digits are written from
their computed length down, as in the code: `Quotients` is what is left of the value
after each of its divisions by ten, and `Rests` what is left of a fraction behind
each of its places. A fraction is counted in 1/`Unit`, a power of two, so that the
code's steps on a double are exact; `Whole` is its cast to an integer, towards
zero, and one that no integer holds is not converted (its cast is undefined). `str_padleft` and `str_padright` cut the
width to 127 and fill around the text; the index of the second has 8 bits, so a literal
of 256 chars or more would keep it going for ever, and literals shorter than that are an
assumption (`TextsAssumption`). A text that is padded is a literal or one of the
conversions' (`Paddable`), as in `_kernelEntry`. `ensureBufferSafety` writes its zero
through an address read past the pointer, which has no description at this level:
the buffers are taken as untouched by it. `strcpy`, which nothing calls, is left out.

### PS2Mouse

The handler of IRQ 12 runs behind an interrupt gate on the only processor: one
step. The main loop's steps are its accesses to the shared variables, in program
order (`src/kernel/Makefile` gives the compiler no `-O`). The mouse sends
three-byte reports from a set. `initPS2Mouse` polls for bytes whose requests may
stay `latched`, on either line, as `InputSystem` has it. Such a request strikes at
any moment after `sti`: the mouse's handler then reads whatever is at the port
(`SurplusMouse`), the byte read last once more, which is the mouse's or the 0xfa
polled for, or a code of the keyboard (`KeyCodes`); the keyboard's handler may take
the mouse's byte (`SurplusKeyboard`). A handler that takes a byte of the other device
may leave that device's request latched in turn (`TakeOther`). `dropped` records
whether the handler's last call dropped its byte, `origin` of each
slot whether its byte followed the one in the slot before and which packet it is of, `taken` the packet the loop took, `inStep`
whether every byte so far was the one due and was kept.

### TextRenderer

Positions are in characters. A key is one step (handlers are not interrupted);
the main thread's steps are its loads, tests and stores of `CursorPosition`,
each at a location `pc` named for it. With a shift, `-` translates to `\r` and
`*` to `\n`, so a key may print any kind of character. `printChar` and
`clearChar` are the operations in one piece: what a key does, and what
`UndisturbedPrintIsAtomic` compares an uninterrupted print with.

## 3. The runs

| Run | Expected | Shows |
|---|---|---|
| `allocator` | passes | usable pages only, counters follow the bitmap, only freed pages are hidden by the hint, exclusive ownership (refinement) |
| `allocator_hint` | violation | `requestPage` says "We've run out of free pages." while a freed page is below its hint |
| `allocator_size` | violation | the free size is a page short ("Current size of free RAM in bytes.") |
| `kernel_memory` | passes | tables exclusive, all used memory mapped when `cr3` is loaded, the bitmap too unless it lies above the map's total, and only then may the next request fault; mapping disturbs no other page (refinement) |
| `kernel_memory_null` | violation | `requestPage` answers address 0, no allocated page, and its callers use it |
| `boot` | passes | one handing over with a true map (refinement), the image reserved, no key spoilt by the loader itself, enough slack, an end |
| `boot_image` | violation | "Kernel program loaded." is printed although a segment's pages belong to somebody else |
| `input_system` | passes | every interrupt handled and ended on the right chips, no byte without a request, configuration restored, start-up ends, input is read |
| `translations` | passes | flags and echoes are those of the keys struck; texts say the numbers; pads have their width |
| `mouse` | passes | packets of consecutive bytes whatever latched requests read, torn reads bounded, dot on the screen, no packet waits for ever |
| `text_renderer` | passes | overshoot bounded, recovered between prints, needs a key inside a print; uninterrupted prints are atomic |
| `text_overflow` | violation | "Prevent line overflows." does not hold against the keyboard |

Bounds, and why they are enough:

* *Allocator.* Eight to eleven pages, a byte of four bits, a page of two bytes;
  ranges of up to `MaxCount` = 3 pages. The maps have pages past the last bit, a
  hole, segments of other types, and a bitmap exactly covered; the ranges reach
  past the bitmap's end. Longer ranges repeat the same turn of a loop, and the
  theorems of section 5 have no bound.
* *Kernel memory.* Page tables of four entries (256 virtual pages), memories of
  24, 26 and 42 pages, in the last of which the bitmap lies above the total, wholly
  or with its last page only, which the set-up never reads; a frame buffer right above and one in the last quarter, which
  needs tables of its own from level 3 down; one map in which the tables do not
  fit. `MaxCount` is 0: the ranges locked are those of the code. The run may
  stop (`CHECK_DEADLOCK FALSE`) because start-up ends.
* *Boot loader.* Five pages of two bytes: enough for a map of one descriptor to
  grow past any slack that fits (`Slack` is 2, the least the assumption allows),
  and for firmware, loader and free pages to alternate. Two segments, the second
  ending inside a page; memory free, or with a page of the firmware's in the image
  or beside it. The firmware's events are not bounded. The run may stop
  (`CHECK_DEADLOCK FALSE`) because the loader ends.
* *Mouse.* Two reports: one to the right, overflowing, and up, one to the left and
  down, both past the edges; the byte 9 in them, which is also the one key code, looks
  like a first byte. The screen is 9 by 16 pixels, so the dot has two places one
  way and one the other; coordinates wrap at 65536
  instead of 2^32, both far above screen and movements. Packet numbers are
  counted modulo 3, enough to tell a packet from the one before and after. Any of the
  two lines may be latched at the start, and a request may be passed on from one to
  the other without bound.
* *Input system.* One configuration (keyboard's interrupt on, mouse's interface off,
  both as firmware leaves them), one key code and one mouse byte: the bytes only
  matter when one is taken for the configuration, and these two change it. A wait
  polls twice, so it can succeed early, late, or give up; the keyboard
  holds back one byte besides the one in the controller. Keys, reports and ticks
  are not bounded in number. The theorems hold for all values of these.
* *Translations.* All integers of eight bits, signed and unsigned, in place of 64;
  decimals in 1/256, with int's limit at 10 in place of 2^31 and precisions around
  `PrecisionCap` = 4 in place of 16, so that each is met from both sides; widths and
  literals next to 127, 128 and 255. Two calls are enough for one to find
  what another left (`MaxCalls`), two codes under way (`MaxUnderWay`) for a handler
  to lag behind a press and its release. The run may stop (`CHECK_DEADLOCK
  FALSE`) because calls are bounded.
* *Text renderer.* Three columns and three lines: a first, a middle and a last
  of each; keys may strike without bound.

Fairness: `mouse` assumes weak fairness of the main loop's steps. The loop never
blocks and every handler returns, so the processor comes back to it. `boot`
assumes weak fairness of the loader's steps: each is a call that returns, and
the firmware's timers interrupt the loader without stopping it. Nothing is assumed
of the firmware's events, which may go on for ever. `input_system` assumes weak
fairness of the processor's steps, which are instructions, and nothing of the
devices: `StartUpEnds` holds even if no device ever answers, because the waits give
up, and `InputIsRead` although keys and ticks never end.

## 4. Findings

The five violation runs are disagreements between the code and its own words;
`PROJECT.json` quotes the lines. In short: `freePages` hides what it frees;
`getFreeMemorySize` errs by a page, and wraps when memory is full; a failed
`requestPage` is used as a page; the loader does not look whether it got the
pages of the image; the text renderer's test for the end of the line does not
survive the keyboard's handler.

Others were met while modelling, and no run states them. The models show some:

* A key struck during start-up, before `initPS2Mouse` reads the configuration, is
  taken for it and written back; it can disable the keyboard or the mouse.
  `ConfigIsFirmwares` says that nothing else does this but a wait that gives up.
* The bitmap of the allocator lies at the start of the largest conventional segment,
  and `prepareMemory` maps only what lies below the sum of all segments. On a
  machine with, say, 1 GB of memory at 0 and 2 GB at 4 GB, the sum is 3 GB, and the
  request of `prepareInterrupts` reads the bitmap through a `cr3` that does not map
  it: a page fault, before a handler is registered (`Fault`, in the map `HighMap`
  of `MCKernelMemory`). No comment, document or test says otherwise, so there is
  no violation run; `UsedMemoryIsMapped` says that this is the only way to fault.
* Under a shift, `Translate` subtracts 32 from every entry of the table, 0 included:
  keys without a char get a negative one, whose glyph would lie before the font; and
  Caps Lock's code reads past the table. `EchoHasAGlyph` leaves out exactly these.
* `to_string` of the most negative integer is `-(`, since its digits are computed
  from a number still negative, and a decimal with that integer part fares no
  better; -0.5 loses its sign, and a decimal beyond an int its
  fraction. `TextSaysTheValue` leaves these out.

The rest are outside what the models can say: the stray write of
`ensureBufferSafety`; the fields of an interrupt descriptor that `registerInterrupt`
does not write, on a page nobody cleared; `strcpy`, which writes no zero for an empty source; the
panic screen, whose text would run over a narrow screen's edge. The loader copies only the
`p_filesz` bytes of a segment and clears nothing, so that the kernel's static
variables are zero is an assumption about fresh memory (`Init` of
`PageFrameAllocator` makes it); and `getMemoryMap` prints the status of the wrong
call when `AllocatePool` fails (`main.c` line 67).

## 5. What is proved

`PageFrameAllocatorProofs`, for every memory map, width and bound that the named
assumptions `MemoryMapsAssumption` and `ParametersAssumption` admit:

* `TypeCorrect`, `Safety`, `Accounting`, `OnlyFreedPagesAreStranded`: the four
  invariants of the run `allocator`.
* `Refinement`: `Spec => ImplementsOwnership`, exclusive ownership of frames.

The inductive invariant `IInv` adds to the invariants that before
`readEFIMemoryMap` nothing is held, clear or counted, and that (`Balanced`) the
free counter plus the number of set bits is constant: the difference the four
loops preserve because each moves a counter by the number of bits it changes.
`SizesMatchBitMap` by itself is not inductive: a step knows how many bits a loop
sets only through it. The lemmas `...Effect` say what each loop does to a
well-formed allocator; the step lemmas combine them with cardinalities of
disjoint unions.

`TextRendererProofs`, for every screen of at least two columns and two lines
(`ScreenAssumption`):

* `TypeCorrect`, `BoundedOvershoot`, `CursorRecovers`, `OverflowIsPreemption`,
  and `PrintsAreAtomic`, the action property.

Its inductive invariant says, for each location of the main thread, what the
cursor and the coordinate last loaded can be by then: `Bounds` whatever keys
came, `Quiet` while none ever came inside a print, `Undisturbed` while none came
inside this one, where it traces the print from the cursor it began at. The
properties hold only because, for instance, a coordinate about to be stored plus
one was below the edge when it was loaded.

`BootLoaderProofs`, for every memory, every list of segments that begin on a page
and every slack of at least two descriptors (`FirmwareAssumption`,
`SegmentsAssumption`):

* `TypeCorrect`, `KeyIsGood`, `TriesBothStruck`, `SlackSuffices`, `ImageReserved`:
  the five invariants of the run `boot`.
* `Refinement`: `Spec => ImplementsHandover`.

The inductive invariant follows the map through the steps: while the firmware has
not changed memory since the size was read, the buffer holds the map and
`PoolGrowth` descriptors more, and after the buffer's allocation still the map; a
key still good at the exit means the map in the buffer is memory; a key stale
there means this try was struck. `OnePageAddsTwo` counts the pages that begin a
descriptor, and `AskedIsImage` is the arithmetic of rounding up.

`KernelMemoryProofs`, for every fan-out above one, every memory map and every frame
buffer within reach of four levels (`KernelAssumption`, `FrameBuffersAssumption`,
and the allocator's own):

* `MemoryTypeCorrect`, `TablesStayExclusive`, `UsedMemoryStaysMapped`: the invariants
  of the run `kernel_memory`.
* `MappingIsAnAddressSpace`: `MemorySpec => ImplementsAddressSpace`.

It begins from the allocator's inductive invariant, whose step lemmas are cited as they
are. What is added says that the tables are a tree (`Shape`): each has a level and
an address prefix it stands for, an entry leads one level down to the table of
the longer prefix, and on the lowest level to the very page. `Position` says where
in the tree `mapMemory`'s walk has come, `Progress` that the pages behind the
loop's page are mapped. A walk through such a tree
can lead only to the page it began from or nowhere, and entries are never taken
back, so mapping one page moves no other, which is the refinement; and since the
pages behind the loops cover memory, they cover the tables, and the bitmap below the
map's total; a fault needs a bitmap above it.

The same steps are steps of the allocator, but that its own specification bounds the
ranges locked. So what the allocator promises is proved once more of its client:

* `SetUpOwnsItsFrames`: `MemorySpec => ImplementsOwnership`. Each table, and the page of
  the interrupt descriptors, was available until it was requested.
* `SetUpKeepsReservations`, `SetUpAccounts`: `OnlyUsableCirculates` and
  `SizesMatchBitMap`, for ranges of any length.

`InputSystemProofs`, for all firmware configurations and masks, codes, time-outs
and buffers (`DevicesAssumption`):

* `TypeCorrect`, `HandlersMatch`, `WakeupsKept`, `SurplusBounded`: safety properties
  of the run `input_system`.
* `HandlersReadTheirOwn`: with no request left over from the polling, each handler
  reads a byte of its own device, once.

The inductive invariant follows `Program` instruction by instruction: which vectors
are `Registered`, which words the chips expect (`Remapped`), which commands the
controller holds (`CommandsKnown`), and, once interrupts are on, that requests match
lines (`Awake`). A request is surplus when its byte is gone; `Surplus` counts them as
a sum of six conditions, and each step is shown to raise none.

`ConfigurationProofs` adds the one left, `ConfigIsFirmwares` (`ConfigurationKept`). Its
invariant `Stages` says where the configuration byte is at each instruction: still
the firmware's, with the interface being enabled, asked for and on its way to the
status, held there, announced, on its way back, written. Each wait that ends
without giving up is what leads from one stage to the next, and no device's byte can
come between while the status is not read, since that is what `disturbed` records.

`PS2MouseProofs`, for every screen that holds a glyph, every report and any number
of packets (`ScreenAssumption`, `ReportsAssumption`, `KeyCodesAssumption`,
`PacketNumbersAssumption`):

* `TypeCorrect`, `BytesConsecutive`, `ReportsArrive`, `TornReadsAreBounded`,
  `DotStaysOnScreen`: the invariants of the run `mouse`.

Its inductive invariant says, for each location of the main loop, which bytes it has
read from which packet, and that the packet a loop is reading can be replaced by
at most the next one.

`TranslationsProofs`, for every set of keys and any number of codes under way
(`CodesAssumption`), and for integers of up to 64 bits, values of up to eight bytes,
texts of up to 255 chars and all widths (`TextsAssumption`):

* `FlagsFollowKeysHolds`, `LettersKeepTheirCaseHolds`, `EchoHasAGlyphHolds` and
  `TextSaysTheValueHolds`, `PaddedToItsWidthHolds`: the invariants of the run
  `translations`, from `KeyboardInvHolds` and `StringsInvHolds`.

The keyboard's inductive invariant speaks of all codes under way where
`LettersKeepTheirCase` speaks of the first: each will be echoed as it was meant, under
the flags that the codes before it leave (`EchoedAsMeant`). A code sent lengthens the
sequence of flags and leaves its beginning as it was (`FlagsAppended`); one handled
takes its first away (`FlagsHandled`).

About the strings nothing is proved from the call before: what `StringsInv` adds to
the two properties is that each buffer holds chars and a zero (`BuffersInv`), so that a
text read has an end and is shorter than its buffer, and may be padded. The rest is
arithmetic. `DigitsRead`: read from the front, the digits of a number are what the
divisions left of it, the last of them first; `QuotientsRunOut`: a value of `Width`
bits is used up by `Width` divisions. `FractionRead`: the digits of a fraction times the
unit, and what is left behind them, are the fraction. `HexTextSaysIt`: two chars of the
text are one byte, from the other end. `WrittenIsRead`: what is read of a buffer ends at
the zero just written, whatever was there.

All of this is induction over data. The library's induction theorems take a
predicate, which the provers cannot instantiate; `LeastNumber` is had from its
theorem on well-founded orders, which takes a set, and `Climb` is induction for a set.
A recursive function is for the prover a choice among the functions that
satisfy its equation, so one must be shown to exist: `Segments` and `Recursion` build
it, for finitely many steps and for all numbers, and `PowerIs`, `QuotientsIs`,
`RestsIs`, `NumbersInIs`, `NumbersOfIs` and `FlagsAfterIs` apply them.

Left to TLC is liveness under fairness, which the prover cannot do:
`PendingPacketTaken`, `LoaderEnds`, `StartUpEnds`, `InputIsRead`. Every safety property
of a passing run is proved. `TotalPages` is a cardinality and not a recursive sum, so
that it can be reasoned about with the theorems on finite sets.

## 6. Not modelled, and the plan

Not modelled, and why:

* `src/gnu-efi` apart from the boot loader: a third-party library, with headers and
  C of the UEFI interface for several processors. It is most of the
  repository's lines, so the modelled share of the whole stays small although nearly
  all of the kernel's and the loader's logic is modelled.
* The GDT (a constant table loaded once), the panic screen and the fault handlers
  (print and stop), the printing of the memory map (nothing calls it): no state
  that outlives them.
* Pixels, glyphs and colours: data that nothing reads back. `CursorPosition` is 64
  bits wide and never near its limits, which `BoundedOvershoot` proves.
* `strcpy` and the other functions nothing calls; the flags of page table entries,
  which are written and never read.

Left to do: the mouse's packet and the controller as one system, so that `PS2Mouse`
takes its bytes from `InputSystem`'s handler instead of from a mouse of its own. Until
then `PS2Mouse` lets a latched request's handler read more than the controller would
have it read: the old byte, the 0xfa, or any key code, at any moment.
