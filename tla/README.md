# A formal model of BSP-GRUB

BSP-GRUB is the bootstrapper of the Arctan kernel. GRUB loads it as a 32-bit
Multiboot2 image together with the kernel (an ELF file) and an initramfs; it
builds the kernel's memory map, allocates and fills page tables, loads the
kernel and jumps to it in long mode. This directory holds TLA+ models of its
parts, the TLC runs that check them and TLAPS proofs about them. Source paths
below are relative to `src/src/c` of the repository.

## The system

| part | state it keeps | operations |
|---|---|---|
| memory map (`arc_mmap[512]`) | the array, entries in use | written by the parser, changed by the allocator, handed to the kernel |
| tag parser, `boot/mb2parse.c` | `Arc_KernelMeta`, `Arc_BootMeta`, extent of bootstrapper and modules | `parse_mb2i()`, `mb2_MMType2Type()` |
| watermark allocator, `mm/watermark.c` | `current_entry`, `watermark_off` | `watermark_update_mmap()` (twice, meaning two different things), `alloc()`, `watermark_get_new_base()` |
| pager, `arch/x86/pager.c` | the page tables, in memory from `alloc()` | `pager_create_page_tables()`, `pager_map()` |
| ELF loader, `elf.c` | none | `load_elf()`: maps sections with `pager_map()`, takes .bss from `alloc()` |
| `bsp.c`, `entry.asm` | `pt_root`, `kernel_entry` | the order of all stages, hangs on errors, the switch to long mode |
| exceptions, `idt.c`, `idt.asm` | IDT, the stack frame of an interrupt | stubs, `interrupt_junction()`, `init_idt()` |
| GDT, control registers | descriptor tables | installed once |
| `cpuid.c` | `paging_features` | `check_cpuid()` |
| terminal and UART | cursor, colour | `term_putchar()`, `init_uart()` |
| `util.c`, `arith64.c`, `printf.c` | none | copies, 64-bit division, formatting |

The program is sequential: `bsp()` calls the parts one after the other, and they
meet in shared state. The parser publishes the map. The allocator picks an entry
of it and hands out memory from it to the pager (tables) and to the loader
(.bss). `mem_size` of the parser becomes the size of the direct map. At the end
the allocator splits the entry it used, so that the kernel does not use that
memory again. NMI and faults are the only things that interrupt; paging and 64-bit
mode are off until the end.

What is hard, then, is not concurrency but
  * in-place edits of one array by two parts, with loop bounds that change
    inside the loop and block moves whose counts must be right;
  * arithmetic with three widths (32-bit `size_t`, 64-bit addresses, offsets
    against addresses), at zero, at 4 GiB and at the end of the array;
  * input from firmware and GRUB in any order;
  * failures halfway: an allocation that fails in the middle of a mapping,
    results that are ignored;
  * long sequences of legal calls: enough blocks to exhaust an entry, a second
    mapping on top of a first;
  * what an interruption meets: a handler that prints uses the same cursor, the
    same serial port and the same stack as what it interrupts.

`PROJECT.json` lists these hazards line by line with the properties that watch
each.

What makes each part correct:
  * parser: the published map says of every address what the firmware said,
    except that memory of the bootstrapper and its modules is marked; it is
    sorted and without overlaps; it fits the array; its size covers all memory;
    the parser ends;
  * allocator: no byte twice, only available memory above 1 MiB, every request
    that fits is served, and the hand-off marks exactly what was taken;
  * pager: the processor translates every page of a successful request to what
    was asked, failures are reported, tables form a tree, every call returns;
  * loader: each section's bytes appear at its address, .bss is zero, sections
    do not hide one another;
  * `bsp()`: every boot ends, with the kernel running or the machine stopped;
    while the allocator has the memory, the direct map is there whatever the loader
    does, so is a well linked kernel, and the memory of both is marked;
  * exceptions: the interrupted code resumes with its own stack and registers;
  * terminal: nothing is drawn outside of the screen, no character is lost unless
    an NMI explains it, and every call returns;
  * arithmetic and copies: the results are those of the operations they stand for.

## Modules

`MemoryMap` is the array and the operations on it (`ShiftUp` is `nmemcpy()` of
whole entries, `ShiftDown` is `memcpy()`, `Align` is `ALIGN()` in 32 bits). The
widths are constants, U32 and U64, so that a small instance still wraps and
truncates where the code does. The codes of the memory types come from the
kernel's `arctan.h`, which this repository does not hold; what is assumed of
them is `TypeCodeAssumption`.

`Watermark` extends it with the allocator. One action per outcome of a call:
`FirstBase` and `HandOff`/`HandOffUnset` are the two calls of
`watermark_update_mmap()`, `AllocHere`, `AllocRebased`, `AllocNull` and
`AllocWild` the four ways through `alloc()`. `blocks`, `map0` and `fits` are
history: what was handed out, the map at the start, whether every request so far
was within the entry. A read of `mmap[-1]`, which happens when no entry is
usable, is a nondeterministic choice: NULL or any pointer (`phase = "wild"`).
Writes past the array are recorded in `overrun`; what lies there is not modelled.

`Mb2Parse` extends it with the parser. `pc` says which loop it is in. A tag is a
record, the tags a sequence; one action per `case` of each pass, one per round
of the sort (`InsertEntry`) and of the overlap loop (`ResolveEntry`, which is
`Overlap`, then `Reserve`, as in the loop body), and `Publish`. The loop variable
and the number of entries are state, because the loop changes both.

`EntryBits` is the flags of an entry: `GetEntryBits` is `get_entry_bits()` bit by
bit, `Rights` and `MemoryType` what the processor makes of the flags on a walk,
modelled from the architecture.

`Pager` is the page tables as a function from table numbers to arrays of
entries. One action per table visited: `Round` decides the page size and starts
at the root, `MakeTable`, `Enter` and `GiveUp` are the outcomes of
`get_page_table()` followed by the descent, `MapPage` is the callback and the
advance of the request, `Ask` the call (`Call` where it takes no memory of the
caller's), `Return` the end with `result`. `features` says whether the processor
has 1 GiB pages and NX. `Walk` is the processor's translation with its rights.
Tables have ENTRIES entries, 512 in the code. `AbsPager` is the abstract
specification: a translation of pages, with rights, that a request extends run by
run, touching no other page, and that may give up.

`Elf` extends `Pager` with `load_elf()`: one action per way through the loop over
the sections (`SkipSection`, `MapSection`, `ClearSection` and `MapCleared` for .bss,
`MappedSection` when `pager_map()` is back). It shares `alloc()` with the tables:
both get pages of one bank, `bank` pages long, with `mark` as `watermark_off` and
`frame` the page that each table is in. `Overflows` is the test of `alloc()`, which
compares an offset with an address and so lets the mark run `Behind` pages past the
end of the bank. What overflows the first time begins the bank again (`rebased`),
because `watermark_get_new_base()` picks the largest entry before it retires the one
in use; what overflows after that gets NULL. `NewTable`, `OldTable` and
`NoTable` are `get_page_table()` with a page that was never handed out, one of the
bank begun again (which it clears, whatever is in it) and none; `ClearSection`
clears the tables that lie where .bss is put. `cleared` and `lost` are history. The
properties ask the processor's walk for every byte of a section.

`Boot` extends `Elf` with `bsp()` and the two pieces of entry assembly: one action
per call in the order of the code, each with its hang, `stage` being the place.
Pager, loader and `alloc()` run step by step; of the parser `Boot` uses what
`Mb2Parse` shows of it, and of the hand-off where it splits the bank (`reserved`). `CheckCpuid` is `check_cpuid()`
with the page attribute register, `Gates` the descriptors of `init_gdt()`. The
instructions of the switch to long mode are an action each; from the one that
turns paging on, the image must translate to itself, and the far jump needs a
64-bit code segment. What faults there is `stage = "fault"`; a jump to where
nothing is mapped is `stage = "lost"`. Once the bank was begun again, a table may serve
at two levels; what the processor then reads below a root entry that is present is
left open (`Unclear`), so that both outcomes are possible.

`Idt` is what the processor, the stubs of `idt.asm` and `interrupt_junction()`
do to the one stack and the registers, one action per instruction that touches
them, so that a further interruption may come between any two: `Fault` and
`Interrupt` deliver through a gate (with an error code for the vectors that have
one), `PushCode` to `PopAll` are the stub, `DropCode` and `DropErrorCode` the two
corrections of `args->esp`, `Iret` the return. `InstallGate` and `InstallIdt` are
`init_idt()`: an exception before `lidt` resets the machine. Maskable interrupts
are off from `_entry` on, so what comes at any time is NMI; the C code may fault
as well. `saved` is history: the contexts that were interrupted. Delivery and
`iret` are modelled from the architecture. The C code is assumed to leave the
slot of its argument alone, from which the stub takes the stack pointer back; the
calling convention does not promise that. What the handler prints and its
end-of-interrupt writes to the ports do not touch the stack and are left out.

`Terminal` is `terminal.c` with the serial port as a device of its own (a 16550:
status, data, line control with the bit that leads to the divisor, loopback).
`InitUart` has one action per register access. `term_putchar()` is run by the
program and by the handler of an NMI that comes at any instruction: the cursor
is two static variables, so that tests are reads, and an increment is a load and
a store (`WrapLine`, `Newline`, `Tab`, `Glyph`). `Transmit` is the device. A character
is drawn as the last pixel of its cell. `beyond`, `overruns` and `cuts` are history.

`Arith64` is `arith64.c` at a width of W bits, words of two halves as in the
code; the functions on 32-bit integers are the same operators at half the width.
`__divmoddi4()` is one action per round. `Util` is the loops of `util.c`, one
action per iteration, over a small memory, in which leaving it is `"wild"`.

`MCWatermark`, `MCMb2Parse`, `MCPager`, `MCPagerOdd`, `MCBoot`, `MCIdt`, `MCTerminal` and
`MCLibrary` (`Arith64` and `Util`) give the constants their values.
`WatermarkProofs`, `Mb2ParseProofs`, `PagerProofs`, `IdtProofs`, `TerminalProofs`
and `UtilProofs` hold the proofs about the modules they are named for, `BootProofs`
those about `Elf` and `Boot`, on top of `PagerProofs`;
`LeastElement` proves for them that sets of naturals have a least element and
bounded ones a greatest. Operators with `Mutant` in their comment are
plausible mistakes that no specification uses: substituting one for the operator
it follows makes the property that PROJECT.json pairs it with fail.

## Runs

| run | question | bounds | result |
|---|---|---|---|
| `MCWatermark.cfg` | is memory handed out once, where allowed, and marked? | 73 maps of up to 7 of 9 entries, 64 addresses of which 32 are below "4 GiB", pages of 2, up to 4 blocks of 0, 1, 4, 16 or 31 bytes | holds, 74 826 states |
| `MCMb2Parse.cfg` | what is published? | three entries from all combinations of two bases, three lengths, two or three types, with six placements of the bootstrapper, one inside a bank; a PC map of six entries, full and too long ones | holds, 79 973 states |
| `MCPager.cfg` | do the tables translate and protect as asked, and implement `AbsPager`? | tables of 2 entries, 16 pages, six requests (one read-only for programs in small pages) in any order and any subset, memory for 0, 1, 5, 7 or 16 tables, with and without 1 GiB pages and NX | holds, 59 734 states |
| `MCBoot.cfg` | where does a boot end, and what is mapped when the kernel is entered? | pages of 32 bytes, tables of 4 entries, five kernels, seven processors, four answers of GRUB, no bank, or one of 1 to 14 pages that begins 2 pages from 0 | holds, 56 559 states |
| `MCIdt.cfg` | does what is interrupted resume as it was? | 32 gates; three interruptions, nested as they like, from the first gate on; nine vectors in the program (all with an error code, one without), #GP in the C code, NMI anywhere | holds, 327 755 states |
| `MCTerminal.cfg` | what does an NMI that prints do to a character being printed? | screens of 16 x 48 and 80 x 56 and none, a port and none, any sequence of the four kinds of character, one NMI that prints up to two at any instruction | holds, 616 208 states |
| `MCLibrary.cfg` | are division, shifts, counts and copies what they stand for? | words of 16 bits: all of them for counts, those with up to three significant bits (and their neighbours) at every place for division and shifts, all shift counts to 32; copies of up to three bytes within seven, in words of up to four, overlapping both ways | holds, 1 031 872 states |
| `MCMb2ParsePrecedence.cfg` | are overlaps resolved by type? | a hole inside a bank | violated |
| `MCMb2ParseExcluded.cfg` | are modules excluded? | load base inside a bank | violated |
| `MCPagerOdd.cfg` | does the call for the direct map return? | a memory of 6.5 pages | violated |
| `MCBootUnpacked.cfg` | is the kernel mapped where it is linked? | one kernel with a large section beside a 2 MiB boundary | violated |
| `MCBootExhausted.cfg` | does the image stay mapped? | banks of 7 to 11 pages, used up while the kernel is loaded | violated |

Why the bounds are enough. The allocator's interesting cases are an entry that
is exhausted, a rebase on the same or on another entry, no entry, an entry that
is first, last or alone, one that crosses 4 GiB, an array that is nearly full:
each has a map of its own, and a cross product of types and lengths over three
banks covers the choice between them. `MaxAllocs` bounds the history only. In
the parser each round of the loop looks at two neighbours, so three entries make
every chain of consequences (an entry removed, split or shortened, then met
again as the neighbour of the next); two bases that coincide, touch, overlap or
nest in all types make all cases of two. In the pager, tables with two entries
give each of the three page sizes a neighbour in its own table and in the next.
In the boot every number of pages from none to more than enough makes each
allocation the one that passes the end of the bank once, and the one that begins it
again or gets NULL; the direct map needs a large page of each
size and small ones, and the kernels have between them a null section, one
without an address, .bss, one in the middle of a page, two in one page, one that
reaches a page further than its size, and a large one. In `Idt` the third
interruption is the one that finds a handler of a handler; all vectors without
an error code take the same path, so one stands for them. In the terminal NMIs
do not nest (the processor blocks them until `iret`), so one at every place,
with two characters, is what a single character of the program can meet; the
screens are the lowest ones, with one and two lines, of which one has no column
for a tab. In the arithmetic carries and comparisons depend on where the
significant bits are, which is enumerated for every place of a word of two
halves; the round of the division does not depend on the width. For the
allocator, the parser, the pager, the boot, the exceptions, the terminal and the
copies the theorems below say the same for every value of the constants.

The properties state what they need.
  * `BlocksApart`, `BlocksInAvailable`, `FittingServed` and the hand-off
    properties hold while requests fit the entry (`fits`), `HandOffExact` and
    `HandOffSorted` also if the entry is not the first of the map. Both are what a
    PC provides (memory below 1 MiB comes first, banks are large), and both matter:
    past the end of the entry the code goes on, because `alloc()` (`mm/watermark.c:89`)
    compares an offset with an end address: with a bank at 1 MiB it hands out up to
    1 MiB beyond the end of the bank. If the same entry is then begun again, blocks
    overlap, and the hand-off leaves what was taken beyond the end as it was published,
    although `bsp.c:44` says that what the bootstrapper occupies must be reserved; if it
    is not, the length of what is left of the bank wraps at the hand-off.
  * `PublishedExact` needs firmware entries without overlaps and an image that
    begins at the beginning of an entry (`WellPlaced`). It is about the range from the
    load base to the end of the last module, which is what the parser marks;
    `BootstrapperReserved` is about the bytes that the tags give to the image and the
    modules, and needs in addition that the image lies below them
    (`ImageBelowModules`). The end of what is marked is raised by modules only
    (`boot/mb2parse.c:124`), although `boot/mb2parse.c:150-151` says that the load base
    serves to calculate the last address of the image: with the modules below it the
    image stays available.
  * `StaggeredPrecedence` is for overlaps of two neighbours of different types. Equal
    types that overlap are merged to the sum of the lengths, less the overlap measured before, which the
    next entry can turn into something else; nothing is claimed of them.
  * `MemSizeCovers` is about maps with overlaps, in which the last entry may be cut or
    swallowed, of different types and two at a time, and needs that one entry both
    begins and ends last (`TopLast`). The memory size is the end of the entry that
    begins last (`boot/mb2parse.c:283`): with a hole in the topmost bank that is the hole,
    and the direct map, which according to `bsp.c:89` reaches all of memory, ends with it.
  * `MappedAsAsked` is for requests as `bsp()` and `load_elf()` make them:
    disjoint, aligned to the pages they get, of memory type 0. A request of type 1
    would get its bit one place too low (`arch/x86/pager.c:85`: the type goes to bits
    2 and 3, PWT and PCD are 3 and 4), a table made for a mapping without
    execution would keep NX for all that share it (`arch/x86/pager.c:133`), and
    `ARC_PAGER_OVW` (`arch/pager.h:39`) is never read: a second request for a page
    replaces the first. No caller does any of these.
  * `Returns` is about calls of whole pages; for any other size, see finding 3.
  * `KernelComplete`, `DirectMapComplete`, `SwitchNeverFaults` and `PagesReserved` are
    about boots in which the mark never passes the end of the bank (`Fits`). Beyond it
    lies memory that is somebody else's, and when the bank is begun again tables are
    cleared while they are in use (finding 5). The run includes these boots: `BootTypeOK`
    and `BootEnds` speak of them as well.
  * `KernelComplete` and `DirectMapComplete` need a kernel whose sections share no page,
    lie above the direct map and are aligned to large pages where they are large
    (`Linked`, `Straight`).
  * `SwitchNeverFaults` needs that GRUB reported the load base: without the tag
    an image of size 0 is mapped, that is, none.
  * `PortReady` is about the divisor and the loopback. The format of the line is what it
    was found to be: `init_uart()` computes a line control value for 8N1
    (`interface/terminal.c:116-123`) and never writes it, only `dlab`, read from the
    register again, although `bsp.c:42` says that the port is configured for 8N1.
  * `PixelsInside` is for screens of at least 48 lines: below, the bound in
    `interface/terminal.c:66` is not positive, and what it does depends on a type
    of the kernel's headers.
  * `CopiesExact` is for calls whose ranges are in memory and whose overlap, if any,
    is in the direction the copy is for (`Safe`), and for `nmemcpy()` of at least one
    byte. `wordcpy()` moves whole words but advances by bytes, so it also copies the
    rest of the last word; that is allowed for. Its destination must then be below
    the source by a word less one byte, or what it reads next is what it wrote:
    for words of four bytes and a destination one byte below, the second step
    copies bytes of the first. `DivisionCorrect` leaves out
    what C leaves undefined, division by 0 and the least number by -1.

### What the runs that are violated show

1. The overlap loop (`boot/mb2parse.c:242-258`) shortens an entry that contains
   a stronger one at its end instead of cutting a hole.
2. Only entries that begin inside the bootstrapper's range are reserved
   (`boot/mb2parse.c:262`): an image in the middle of a bank stays available,
   although `boot/mb2parse.c:121-123` says it is to be excluded.
3. `pager_map()` lowers an unsigned size by a page until it is 0
   (`arch/x86/pager.c:292`), and `bsp.c:90` passes the memory size unrounded. Where
   memory does not end on a page it passes 0 and never returns: it maps the address
   space anew in large pages, until it takes one of them for a table.
4. The page size depends on the remaining size only (`arch/x86/pager.c:215-218`):
   a section of 2 MiB or more at an address that is not a multiple of 2 MiB is
   not mapped as asked, `pager_map()` reports success, and the kernel is entered
   without it, although `bsp.c:105-106` says that the file is mapped into memory.
5. `watermark_get_new_base()` looks for the largest entry (`mm/watermark.c:39-48`)
   before it retires the one in use (`mm/watermark.c:52`): with one usable bank, an
   exhausted bank is begun again, and the first page handed out is that of the root
   table, which is cleared. Where that happens in `load_elf()` the image is no longer
   mapped, and turning paging on faults, against `bsp.c:97-98`.

## Liveness and fairness

`Terminates` (the parser ends) assumes weak fairness of the parser's steps, and
`Returns` (every `pager_map()` of whole pages returns) weak fairness of the pager's own
steps, not of the calls; so does `HhdmReturns`, which is violated under it. Both parts
run alone with nothing to wait for, so a step that can be taken is taken: there is no
stronger assumption. The models include the cases that could go wrong: the loop whose
bound moves, a size that is counted down, and, in `BootEnds`, tables that are lost while
they are filled. `BootEnds` (every boot comes to the kernel or to a place where the
machine stops) assumes the same of the whole, which is one sequential program.
`HandlersFinish` (the interrupted program runs again) assumes only that the
processor goes on executing, and is about finitely many interruptions
(`MaxTaken`): NMIs without end would indeed keep the program from running.
`PutcharReturns` assumes that the processor goes on and that the port sends a
character it was given, each on its own, and is about finitely many NMIs. With a
port that does not send, the loop of `interface/terminal.c:49` has no limit. A port
that is not there reads as all ones, that is, as ready.

Deadlock checking is off where the program part really stops: `parse_mb2i()`,
`bsp()` and the routines of the library return, or the machine hangs; in `Idt` the
interrupted program has no steps of its own. It is on for the terminal, which
can always be given another character.

## Proofs

TLAPS checks the theorems for every value of the constants that the named
assumptions admit. Each part has an inductive invariant, stronger than the
properties the runs check; it holds in the initial state, every action keeps it,
and it implies them. The proof that a step keeps it has a lemma or a step for
each action.

| module | theorems, `Spec => ...` | inductive invariant |
|---|---|---|
| `WatermarkProofs` | `TypeOK`, `BlocksApart`, `BlocksInAvailable`, `FittingServed`, `HandOffExact`, `HandOffSorted`, `StaysInArray` | `LayoutInv`, `HandOffInv` |
| `Mb2ParseProofs` | `TypeOK`, `SortedSoFar`, `PublishedExact`, `BootstrapperReserved`, `PublishedSorted`, `MemSizeCovers`, `OneSlotIsEnough`, `StaggeredPrecedence` | `TypeInv`, `ModulesInv`, `SortInv`, `PhaseInv`, `StaggerInv`, `TopInv` |
| `PagerProofs` | `TypeOK`, and for `Orderly` requests `NeverWild`, `TablesFormTree`, `MappedAsAsked`, `ImplementsAbsPager` | `TypeInv`, `IInv` |
| `BootProofs` | `BootTypeOK`, `PagesReserved`; for `LoadersOrderly` machines `DirectMapComplete`, `KernelComplete`; for those and `KernelsAbove` also `SwitchNeverFaults` | `TypesInv`; until the bank is begun again `BootInv`, `PoolInv`, `MapsInv`, `SwitchInv` |
| `IdtProofs` | `TypeOK`, `SuspendedIntact`, `ReportsItsVector`, `Resumes` | `IInv` |
| `TerminalProofs` | `TypeOK`, `PixelsInside`, `LossExplained`, `PortReady` | `IInv` |
| `UtilProofs` | `CopiesExact` | `UInv` |

**Allocator.** That two blocks do not meet follows only from where each was put.
`LayoutInv` says that: until the hand-off the array keeps the published ranges
(`SameRanges`), nothing is handed out without an entry (`FirstThings`), and while
requests fit the blocks are stacked in ascending order from the base of the entry
to the mark, which stays inside the entry and below 4 GiB (`BelowMark`); the array
is left only at the hand-off of a long map (`NoOverrun`). The central lemma is
`FittingRequest`: if a request fits, no 32-bit operation of `alloc()` wraps and its
test does not fire. This needs entries above 1 MiB and pages no larger than that,
which is `WidthAssumption`. `HandOffInv` adds what the split needs: the blocks
fill the entry from its base to the mark, to the byte, the entry can still be
chosen while requests fit, and after the split the map is the published one with
that entry in two.

**Parser.** `SortInv` says that the entries inserted so far are an arrangement of
the firmware's first ones: a bijection and ascending bases. For a firmware map
without overlaps `PhaseInv` then carries two predicates through the loop.
`Ranges`: the array is in order, has grown by one entry at most, and if it has,
everything from the loop variable on lies above the bootstrapper; that is why a
second split cannot happen, and one spare slot is enough. `Pieces`: each entry is
a piece of one the firmware reported, `Untouched` from the loop variable on,
`Settled` (marked if it is occupied and yields, never occupied in part) below it,
and together they cover what was reported. One round either keeps the entry, marks
it or cuts it (`RoundIs`), and each case keeps both predicates (`RangesStep`,
`PiecesStep`). The loop does not look at the last entry: `WellPlaced` says it need
not (`AllSettled`), and `PublishedExact` follows; `PublishedSorted` is what
`InitMapsAssumption` of the allocator assumes. `ModulesInv` is the first pass: the end
is above all modules seen, and the beginning is a load base that was seen. With
`PublishedExact` that gives `BootstrapperReserved`, since an available entry yields.

`StaggeredPrecedence` is about maps with overlaps, so it has an invariant of its own.
From `Staggered` follows that the sorted entries ascend without a tie and that only
neighbours share memory (`Stairs`); `Low` and `High` are what the rule leaves of an
entry on either side. `StaggerInv` says that the loop has cut the entries before
its variable at both ends, the one at it at its beginning, and touched no other
(`Trimmed`). A round cuts one of two neighbours by what they share (`OverlapCuts`),
and that this never reaches the cut made one round before is the part of `Staggered`
that speaks of a third entry.

`MemSizeCovers` is about overlaps of every shape, one entry holding another included, and
`TopInv` is its invariant: from the loop variable on the array
is in order, each entry is what is left of one that the firmware reported, and the last
one ends above all of them (`Topped`). A round can shorten only the entry that it leaves
behind, or the next one at its beginning; one that takes all of the next, which is then
removed, ends no lower (`MidRound` is the array between the two halves of a round,
resolving and reserving).
Because no three entries meet, what a split or a cut leaves never reaches the entry after
the next.

**Pager.** `TypeOK` is proved of all requests; no run checks it on its own. The other
theorems are for requests that come in order (`InOrder`): apart,
inside the address space, aligned to the pages they get, of memory type 0 and without
NX, as `bsp()` and `load_elf()` make them. `IInv` speaks of the requests made so
far, not of a set given in advance, so that it can be used for a caller who makes
them up as he goes; `Orderly` says that any of `Requests` may follow any other
(`MCPager` assumes it, so that TLC evaluates it). `IInv` gives every table a level
and a block of addresses (`Branches`; with tables that restrict nothing, `Tree`) and
one referrer (`Parents`), says which blocks of which request are mapped, that nothing
else is, and that the walk has come to the table of the block that is next. From
alignment follows that a large page never meets a table and a table never a page
(`Roads`), and so that no entry is replaced. `PagerImplementsAbsPager` is the
refinement: `MapPage` is a run of the abstract request, all other steps change nothing
of the translation.

**Boot.** `TypesInv` holds always. All else is an induction under `~ rebased`: a bank that
was begun again is never a fresh one (`NeverBack`), so a step that ends without it
began without it. `BootInv` and `PoolInv` need no hypothesis about the machine or the
kernel. `BootInv` says what each stage can rely on (`MachineInv`: the registers of the
switch are set one after the other, the parser's result is there before the tables are),
where the loop of `load_elf()` stands and which of its sections are cleared (`LoaderInv`),
and exactly which requests were made by then and that each was served (`AskedInv`): the
direct map, the image and one for each loaded section so far, built from what `alloc()`
gave at the time. `PoolInv` is the account of the bank: the mark is the number of
pages that tables and cleared sections have, each has pages of its own below it, and what
is left for tables reaches as far as the test of `alloc()` does, which is beyond the end.
`PagesReserved` follows where the mark is still in the bank, because the hand-off
splits there.

`MapsInv` is `IInv` of the pager until `load_elf()` begins, and after that if the
kernel is well linked: the requests of `AskedInv` are then in order, because sections
that share no page, and what `bsp()` asks for, are apart (`LinkedInOrder`).
`DirectMapComplete` and `KernelComplete` follow, since what was served stays mapped, and
since no table lies on a cleared section (`PoolInv`).

`SwitchNeverFaults` is claimed of every kernel, and one that is badly linked breaks
`IInv`: a large page replaces a table of other sections. `SwitchInv` keeps what is
left then. The tables stay a tree (`Branches`), and whatever the loader writes is in a
block of the root above the start of the direct map (`LeftInv`, `RootApart`), while
the image is below: its walk meets none of the entries that are written (`WalkElsewhere`),
and the image, which is in place when the loader begins (`ImageMapped`), stays (`ImageKept`).
This is why `KernelsAbove` is needed: a section linked below could be mapped over the
code that turns paging on, and nothing in the code looks.

`LoadersOrderly` is what the code takes for granted of the machine: memory ends at a
page and fits above HHDM, HHDM begins an entry of the root table, the image is whole
pages below it that hold the code of the switch, aligned to a large page if as large
as one. `MCBoot` assumes both, so that TLC evaluates them.

**Exceptions.** `IInv` says of each suspended context where its frame lies, which
words of it the stub has pushed at the instruction where it was interrupted, and
that the stack pointer of everything above is lower. `RoomAssumption` bounds
nesting by the stack; on a smaller one a deep enough nesting of NMI and faults
would leave it.

**Terminal.** `IInv` bounds the cursor by where the program is between its loads
and its stores (`MainX`, `MainY`): further out while a test of the cursor is still
to come, and while the handler prints, no further than the program left it
(`NmiCursor`). What is drawn then stays in the five lines that are kept free.
`Losses` is the poll: who has seen the port ready finds it so, or an NMI came in
between. `TypeOK` bounds the line number by three lines past the last, more than
the run with its one NMI reaches: three NMIs between the loads and stores of one
character get there.

**Copies.** `UInv` says of each loop what was moved, what was not, and that what
is still to be read has not been overwritten.

Assumed, not proved: widths and the order of type codes (`WidthAssumption`,
`CapAssumption`, `TypeCodeAssumption`, `TypeCodesAssumption`, `ImageSizeAssumption`);
that inputs have their types (`InitTagsAssumption`, `RequestAssumption`,
`RequestsAssumption`, `LimitsAssumption`, `FoundAssumption`, `CharsAssumption`,
`BoundsAssumption`, `JobsAssumption`, `FilesAssumption`, `HhdmAssumption`,
`ImageAssumption`); that what GRUB loads and the memory of the allocator lie in the
address space (`LoadersAssumption`, `PoolAssumption`); tables with an even number of
entries (`PagerAssumption`); a map the parser published (`InitMapsAssumption`); screens
of at least 48 lines (`ScreensAssumption`); room for the stack (`StackAssumption`,
`RoomAssumption`). A run evaluates each of them.

Only model-checked:
  * the liveness properties `Terminates`, `Returns`, `HandlersFinish`, `BootEnds` and
    `PutcharReturns`: the prover does not handle ENABLED;
  * `DivisionCorrect` and `ShiftsAndCountsExact` of `Arith64`: the reference
    definitions use bitwise operators and folds, which the prover does not reach, and
    what a loop over the bits computes is an induction over the width.

The library's theorems for induction take an operator as a parameter, which none of
the provers can instantiate. Where an argument needs one, it uses a least element
(`LeastElement`, from the well-foundedness of finite sets), or the invariant is
stated so that a step of the program is the step of the induction.

## Not modelled

`printf.c` and `multiboot2.h` are vendored, `efi.h` is empty, the build files
have no behaviour. Messages are left out everywhere, so are glyphs, colours and
pixel formats of the terminal. Accessors of control registers that nothing calls
are left out; the one for CR3 is called, but returns whatever `eax` held
(`asm/arch/x86/ctrl_regs.asm:80`), which `pager_map()` would use if it were
given no tables; its callers always give some. The end-of-interrupt writes of
`interrupt_junction()` reach interrupt controllers in which nothing is in
service, because interrupts are off. An NMI after the switch to long mode meets
a table of 32-bit gates and resets the machine; `Boot` leaves NMI out. Memory
types 4 to 7 are not in `EntryBits`. Tags of size 0, which would stop
the parser's loops from advancing, are outside the model, because a tag's size is
abstracted to its place in a sequence; GRUB writes none. In `Boot` the map has at most one usable bank: what `alloc()` does
with several is in `Watermark`. The image, the kernel file and the memory behind the bank
are taken to be apart from its pages, so that what is written behind the bank is not seen
by the boot, and neither is the clearing of memory at NULL, once `alloc()` has returned
that (`elf.c:184`). The size of the tag list and of the map are bounded by the runs.

## Plan

1. `MemoryMap`, `Watermark` and its proofs, `Mb2Parse`, `Pager` over `AbsPager`,
   `Idt` (done).
2. `Elf`, the section loop over the pager and the allocator; `Boot`, `bsp()` from
   the UART to the jump with the switch to long mode, and the processor check and
   descriptors in it (done).
3. `EntryBits` and rights in `Pager` and `AbsPager`; `init_idt()` in `Idt` (done).
4. `Terminal` with its device, `Util`, `Arith64` (done).
5. Proofs: the allocator and its hand-off; the parser, with and without overlaps; the
   pager and its refinement of `AbsPager`; the order of the boot, what the kernel
   finds mapped and the switch to long mode; exceptions; the terminal; the copies
   (done).
6. What would come next: the composition of `Boot` with `Mb2Parse` and `Watermark`, so
   that the boot starts from GRUB's tags and `alloc()` may go on in another bank, with the
   memory itself as state, so that what is written behind a bank or through NULL shows.
