# Synos kernel: a TLA+ verification project

Synos is a small kernel for X86_64, written in C and assembly. This project
models its memory management, from the boot loader's map and the bitmaps of a
physical region up to the kernel heap and the page tables, its clock with the
interrupts that drive it, its log with the text screen, and the smaller parts around
them: containers, system calls, the date, ELF files, stack traces and the handlers
of interrupts. It checks the models with TLC and proves with TLAPS the central safety
properties of the page allocator with its reservations, frees and merges, of the frame allocator, of the page tables, of the
heap, of the clock, of the log's array and of three of the smaller parts. Paths below are relative to `src/`; `page.c`, `mm.c` and
`printk.c` without a directory are the files of `kernel/`, `memory.c`, `cmos.c`
and `multiboot.c` those of `arch/X86_64/`, and "the screen's `printk.c`" is
`arch/X86_64/printk.c`.

`PROJECT.json` lists the components, the runs, the lines that each definition
models, the hazards the properties are for, and the theorems.

## 1. Inventory

### Memory management

| Component | State | Operations | Hard about it |
|---|---|---|---|
| Page allocator of a region (`page.c:227-584`) | `region->lock`, `pages_free`, `mem_full`; in the map, for each of 10 orders, a bitmap, a counter and the first free block | `region_map`, `pages_alloc`, `pages_reserve`, `pages_free`, with `block_split`, `zblock_split`, `block_merge`, `find_next_free_page` | three representations of the free blocks that each function updates on its own; recursion over the orders; a spinlock with early returns; table sizes for small regions |
| Frame allocator (`page.c:86-176`) | the list of regions, `next_region`, `outOfMem` | `alloc_page`, `alloc_pages`, `free_page`, `free_pages`, `findFreeRegion` | globals without a lock, read several times in a call; searches by `goto` |
| Protection of the kernel (`memory.c:144-166`) | none of its own; two blocks of a region | `mem_p_protect`, called by `ppage_init` | the address of the region and the offset in it are mixed |
| Set-up of the regions (`page.c:176-225`) | `next_region`, each region's map | `ppage_init` | order: map, protect, allocate; tables of other regions come from the first one, which may run out |
| Virtual pages (`page.c:18-84`) and page tables (`memory.c:22-142`) | tables in frames, `next_free_vpage` | `vpage_init`, `vpage(s)_map`, `vpage(s)_smap`, `vpages_reserve`, `vpage(s)_unmap`, `page_table_alloc` | tables are added in the middle of a block; callers and the allocator choose from the same pages |
| Kernel heap (`mm.c`) | list of headers with pointers, `size_max`; `MemStack` before `mm_init` | `kmalloc`, `kfree`, `mm_init`, `memstck_malloc` | arithmetic on units; no lock, and interrupt handlers call it too |

They build on each other: `kmalloc` takes pages from `__get_free_pages`
(`mm.c:198`), which calls `alloc_pages` and `vpages_map`; `alloc_pages` calls
`pages_alloc` of one region after the other; `vpages_map` calls `pga_map`, which
calls `alloc_page` for its tables; `ppage_init` calls `kmalloc` (the early
stack), `region_map`, `mem_p_protect`, `pages_alloc` and `vpages_map`. In the
kernel as it is, nobody calls `free_page(s)`, `return_free_page(s)`,
`vpages_smap`, `vpages_reserve` or `vpages_unmap`.

### The rest of the kernel

| Component | State | Operations | Hard about it |
|---|---|---|---|
| Memory map (`multiboot.c`, `arch.c`) | the list of regions, the symbol tables, the display | `mbootInit`, `tab_search`, `getMEMID` | takes its memory from the early stack, and goes on through null pointers when that is used up; types of memory it does not know |
| Interrupts (`arch/X86_64/interrupts/`) | table of gates, masks, `irq_spurious` | `idt_map`, `irq_0`..`irq_15`, `PIC_SOI`, `PIC_EOI`, `IRQ_save/kill/restore` | handlers run inside any code, but not inside each other (interrupt gates); spurious interrupts; registers |
| Clock (`cmos.c`, `kernel/time.c`) | `irqCount`, `ctime` | `arch_time_init`, `irq_8` with `ms_update`, `arch_gettime` | the date is read while the chip goes on; carry and correction must stay in step for ever; readers are interrupted |
| Log (`printk.c`) | `logs`, `printk_enabled` | `printk`, `printk_init` | runs in the main line and in the handler of the clock, which interrupts it anywhere |
| Containers (`mutils/impl/array.c`, `string.c`) and conversions (`mutils/string/`) | length, allocated length, memory | push, insert, pop, pull, append; `c_str`, `hex_str`, `reverse` | growing and shrinking at the boundaries; texts without an end |
| Text screen (the screen's `printk.c`) | buffer, `cursor_pos`, the registers of the display | `arch_print`, `scroll`, `setCursorPos`, `clear_screen` | the cursor is read, moved, checked and shown in steps, and both contexts do it |
| System calls (`kernel/syscall.c`) | a table that is copied to grow | `syscall_init`, `syscall_set`; dispatch is empty | |
| ELF files (`mutils/elf/`) | three tables, copied field by field | `ParseELF` with its three tables | two classes, two byte orders, offsets by hand |
| Stack trace (`stack.c`) | frames on the stack, the table of symbols | `PrintStackTrace`, `TraceName` | unsigned differences, a table that may be empty |
| Start-up (`kernel/system.c`) | `System` | `startup`, `panic` | interrupts are on from line 46, the clock starts at line 48 |
| Boot code, GDT, TSS, CPUID, APIC (not in use), serial port, strings, sigFS stub | constant or text | | |

What makes each component correct:

- region: no page is handed out twice; bitmaps, counters and first blocks agree;
  a request is refused only when nothing fits; the lock is always given back;
- frames: a region with free pages is forgotten only where `next_region` moves
  between two loads of one test; memory that is not
  available is not given out; calls return;
- protection: the kernel's image and the boot information are not given out;
- virtual pages: a mapping stays until it is removed, and only what was mapped is;
- heap: blocks neither overlap nor cover the heap's own records, and lie in pages
  the heap has;
- clock: 8192 ticks of 122 microseconds and 8 corrections of 72 are one second,
  and the milliseconds keep up;
- start-up: the regions are what the boot loader told, and what the kernel takes
  for its own tables is nobody else's;
- log and containers: an array is the sequence of what was pushed, a message what
  its format means;
- screen: nothing is stored away from it, it shows the last rows, and the cursor is
  where the kernel thinks it is;
- interrupts: each real interrupt is acknowledged once on the right chip, and the
  code interrupted does not notice;
- system calls: a number has one entry, with the function set last;
- ELF files: a field is the bytes of its place, all and no others, in the order of
  the processor, in every entry of a table;
- stack trace: every frame, each with the nearest symbol below it.

## 2. Modules

| Module | Models | State and actions |
|---|---|---|
| `FreeArea` | layout of a region's table: lengths, bytes, where an offset behind the end of a bitmap leads (`Loc`), initial lists | no state; closed forms |
| `FreeAreaLoops` | the same as the loops of the source (`_free_area_map`, `region_map`, `order_max`, `log_order`), and what they are meant to compute for a number of pages | no state |
| `Boot` | `mbootInit`, `tab_search`, `getMEMID`, `ppage_init`, the first page of `mm_init` | `load` is what the boot loader left; `regions` the list with, of each region, its map as `FreeLists` has it, its counts and its tables; `creg`, `chain_length` and `size_at_0` the list while it is made; `MemStack` the early memory; `pc` the place in the start |
| `FreeLists` | the parts of `pages_alloc`, `pages_reserve`, `pages_free` and of the functions they call, as operators on a region's map (`take_next`, `split_next`, `zsplit_at`, `merge_at`, `reserve_at`); used by `Buddy` in steps and by `Boot` in whole calls | no state |
| `Buddy` | `pages_alloc`, `pages_reserve`, `pages_free` of one region, several processors | `lock`, `map`, `pages_free`, `mem_full`; `held` is what clients were told; `pc`, `req`, `lvl`, `pos`, `ret` are the locals of a call |
| `PageRegion` | what a region promises: blocks from a set of free pages | `free`, `held`, `call` |
| `BuddyProps` | properties of `Buddy`, the inductive invariants `AllocInv` and `CountInv`, the refinement mappings to `PageRegion` | |
| `BuddyProofs` | theorems of `Buddy`: the lock; while nothing is freed, the lists, the counts, and that it is a `PageRegion` | |
| `Protect` | `mem_p_protect` in front of the clients of a region | `Buddy` and `place`, where the region lies |
| `ProtectProofs` | theorems of `Protect`: reservations, frees and merges | |
| `Frames` | `alloc_page`, `alloc_pages`, `free_page(s)` over the regions | `next_region`, `outOfMem`, and of each region what `PageRegion` promises |
| `FramesProofs` | theorems of `Frames` | |
| `VPage` | virtual pages over page tables in memory | `mem`, `next_free_vpage`; `next_frame` is what `alloc_page` gives next; `mapped` is what callers have mapped |
| `VPageProofs` | theorems of `VPage` | |
| `Heap` | `kmalloc`, `kfree`, `mm_init`, `memstck_malloc` | headers and pointers with addresses; calls in steps, so that a handler can come in between |
| `HeapProofs` | theorems of `Heap` | |
| `Clock` | the start of the clock in the main line, the handlers of interrupts 0 and 8, `ms_update`, `PIC_SOI`, `PIC_EOI`; the chip and the controllers as the code uses them | `main` and `handler` are the two contexts and their steps; `index`, `periodic`, `flag` the chip; `requests`, `in_service` the controllers; `time` is `irqCount` and `ctime` |
| `ClockProofs` | theorems of `Clock` | |
| `Text` | `string_append`, the conversions of numbers, `printk`'s loop over a format | no state; a text is a sequence of characters |
| `Screen` | `arch_print`, `scroll`, `setCursorPos`, `clear_screen` | no state; a screen is a record with cells, cursor and the display's registers |
| `Log` | `printk` in the main line, in steps, and in the tick, which interrupts it; the array of entries | `main` is the call and its locals, `screen`, `logs`; `printed` is the paper that shows all that was printed so far, and `order` is what was pushed |
| `LogProofs` | theorems of `Log`: the screen between ticks, and its array of entries | |
| `Array` | the growing array: push, insert, pop, pull, `array_resize` | `arr`, `length`, `alloc_length`; `entries` is the sequence it stands for |
| `Syscalls` | `syscall_init`, `syscall_set`, `syscall_find_index` | `syscall_VT`; `last` is what was set last for each number |
| `Calendar` | the reading of the date in `arch_time_init`, and the clock chip that counts meanwhile | `chip`, `updating`; `ctime` and the next register in `pc`; `waited`, `begun` remember the end of the wait |
| `Elf` | `ParseELF` with the tables of the header, the programs and the sections | `file` (its class and byte order), and the three tables; a value is the places its bytes came from |
| `Trace` | `PrintStackTrace`, `TraceName` | `frames`, `elf_sym`, and what was `shown` |
| `Interrupts` | `idt_map`, `interrupt_init`, the handlers of `isr.asm` by instruction, `PIC_SOI`, `PIC_EOI`; the processor and the controllers as the code uses them | `IDT`, `regs`, `stack`, `iflag`, `pc`; `pic1`, `pic2` the lines in service |
| `Parts` | the six modules above, of which a behaviour shows one | `part`, and the variables of that part |
| `PartsProofs` | theorems of `Parts`: the array, the system calls, the time of day, the stack trace, ELF files, the handlers | |
| `MCBuddy`, `MCBoot`, `MCProtect`, `MCFrames`, `MCClock`, `MCLog`, `MCParts` | values of constants for TLC | |

Abstract and detailed: `Buddy` implements `PageRegion` (`ImplementsPageRegion`),
and `Frames` uses a region as `PageRegion` describes it, with one action for a
call of `pages_alloc`. `VPage` and `Heap` take frames and pages from a counter,
since what they do does not depend on which they get.

How steps correspond to code:

- In `Buddy` the spinlock's compare-and-exchange is an action (`Lock`), the bodies
  are cut at each block they handle, and the recursion over the orders is a walk
  in `lvl` and `pos`. The operators on the map (`take_next`, `split_next`,
  `zsplit_at`, `merge_at`, `find_next_free_page`) follow the assignments of the
  source in order, its slips included: `pages_free` returns with the lock taken
  (`page.c:556-563`), counts the offset in pages for every order, and does not
  set the first block of an empty list; `pages_reserve` counts the pages whether
  or not it found the block.
- In `Frames` every load and store of `next_region` and `outOfMem` is a step of its
  own, a test and the store that it decides included. The compiler may load
  `next_region` once or again for the test of `mem_full`, for the search behind the
  region and for the call of `page_alloc`; `PageNext` and `PageTake` allow both.
  `passed` is history: the regions that a search began behind although another one
  had been tested. Reading through a null pointer is the step to `fault`: page 0 is
  mapped, so that the code goes on with what lies there, which is not followed.
- In `VPage` an operation is one action: there is no lock and no handler that maps
  pages, but `kmalloc` in a handler may grow the heap, which is not modelled here.
- In `Clock` an access to a register of the chip is two steps, the write of its
  number to one port and the use of the other one, in the main line (`Select`,
  `Use`) as in the handler (`SelectC`, `ReadC`); between them the other context, the
  chip and the controllers may move. A handler begins with interrupts disabled
  (interrupt gates) and ends with `PIC_EOI` and `iretq` in one step, as nothing can
  come in between. Reading register C takes back a request that has not been
  delivered: the controller has forgotten it, still delivers it, or delivers the
  spurious interrupt 15 in its place, and then `PIC_SOI` faults.
- In `Boot` a step is an entry of the boot loader's map or a part of `ppage_init`, and
  the calls of the page allocator in it are whole: nothing else runs. They leave the
  maps that the source leaves, block by block: `pages_reserve` splits the smallest free
  block around the one it wants, follows its left halves (`page.c:535-539`), and takes
  the block only if that has made it free. Early memory that is used up stops nothing,
  since page 0 is mapped and can be written (`boot32.asm:84-93`): `tab_search` copies a
  table to address 0 and looks for the next one, and in `Entry` the record of a region
  goes to address 0, the next entry overwrites the first region, and the one after it
  cuts the list off behind that. `wild` is where the model follows the kernel no
  further, because the source does not say what happens: a call that a bit decides
  which nothing has set (`WithZeros`), a first region whose map lies under its own
  bitmaps (`Reaches`), an allocation from a region that is not set up, tables of two
  regions at address 0, and what was at address 0 before a copy. Where there may be no
  harm the model goes on as well.
- In `Log` the main line reads `cursor_pos`, stores the character, moves the
  cursor, compares it with the end, scrolls row by row and writes the display's four
  registers in steps of their own, as they are in the source, and array_push is three
  steps. A tick runs `arch_print` and `array_push` as a whole in one step, since
  interrupts are disabled in it. Putting a message together touches only the call's
  own memory and is part of the step that begins the call.
- In `Interrupts` a step is an instruction of a handler, a call of a C function
  included, after which the registers that C functions need not keep hold anything
  (`Clobbered`); `Enter` is what the processor pushes, with the error code for the
  exceptions that have one. A value of a register or of the stack is known by whose it
  is, the interrupted code's or not.
- In `Calendar` a step is the read of a register, or the beginning or the end of an
  update of the chip, which may come between any two of them, as interrupts are on.
- In `Elf` a step is one table. `PTR` is `sizeof(uintptr_t)`; both classes are read with
  it, as they are in the source.
- In `Heap` the steps of `kmalloc` are the choice of the header, a new header, the
  choice of the pointer, the split, `findSize_max`, and the store of `size_max`. With
  `Nested` a handler's call runs between two of them. In the code it can also come within
  one, while a loop runs or a header or pointer is being written; the model leaves those
  interleavings out, which is enough for the counterexample of `heap_nested`, and no
  property that holds is claimed with a handler.

## 3. Runs

| Run | Bounds | Shows |
|---|---|---|
| `boot` | real `MAX_ORDER`; regions of every size up to 1100 pages; low memory of four sizes, regions from 1 MB, tables of several pages, regions of 31 to 2048 pages with the boot information anywhere in them, maps of up to 20 entries and symbols of several sizes, for which the early memory suffices or not | the loops compute the closed forms, the initial blocks divide the region, each bitmap holds its blocks; `log_order` is the least sufficient order (`InitialMapRight`); regions are set up, and have the pages they count, when the first page is asked for (`FramesReady`); the list of regions is what was told as far as there is memory for it; the kernel's memory is not given out, nor the boot information, and the tables are nobody else's, both where `pages_reserve` finds the page (`Tracked`) |
| `buddy_alloc` | 2 processors, 10 pages, 4 orders, every value of the bits that `region_map` leaves unset | no page is given out twice, a region that is not full has a page, the lock is released, `PageRegion` implemented while nothing is freed |
| `protect` | 2 processors, 8 pages, 3 orders, two places of the region, frees of single pages, and of one behind the region | each page in one place, lists exact, buddies merged, counters right, protected pages kept, one processor at a time, `PageRegion` implemented |
| `protect_at_one_mb` | 14 pages, a region from page 2 with the limit at 4 | a violation, see below |
| `frames_shared` | 2 processors, regions of 2, 0, 2 and 1 pages, one unusable | a region that is not full is forgotten only by the race of two loads, only usable memory, calls return |
| `frames_large` | 1 processor, two regions of 1 page | a violation |
| `vpage` | 3 levels of 3 entries (18 pages), 8 free frames, blocks of 1 and 2 pages | mappings kept and exact and the next page free (`MappingsExact`), tables apart |
| `clock` | a second of 8 ticks and 2 corrections in 5 milliseconds, `unix_t` of 3 values, two of the six registers with the time | the right register, interrupts acknowledged, the clock exact and never back, ticks go on |
| `heap` | pages of 12 units, headers and pointers of 3, requests of 1, 3 and 8, room for 3 pages | blocks apart, room exact, `size_max` exact, early blocks below 2 MB |
| `heap_nested` | the same, with a handler | a violation |
| `log` | a screen of 3 rows of 5 characters, tabs of 3, strings that grow by 4, an array that grows by 2, two calls of the main line and two ticks | stores at the screen, the cursor shown, the last rows on the screen, messages right, the log complete, calls return |
| `library` | an array that grows by 2 to 6 entries; 3 numbers and 3 functions; six instants before numbers carry, 4 seconds, each setting of the chip; tables of 2 entries, both classes and byte orders; 3 symbols, 2 frames; every exception and line, four vectors for system calls | tables that grow keep what was put in (`TablesRight`); the date is right or ahead (`TimeRead`); fields come from their places (`ElfReads`); names are the nearest (`NearestSymbol`); the interrupted code does not notice, but for what is named below (`LeavesNoTrace`) |

Why the bounds are enough. The allocator treats orders alike but for the lowest
and the highest, so three or four orders have every case of a split or merge:
from the top, in the middle, at the bottom. Ten pages are not a power of two, so
the initial lists have several orders, and their table is shorter than its
areas. Two processors suffice for a lock and for every pair of accesses to a
global. In `vpage` blocks of two pages cross the end of a table at two levels, so
that one call adds two tables in the middle of its loop. In `heap` the sizes make
every comparison go both ways: a remainder that holds a pointer and one that does
not, a request that needs one page and one that needs two, a header that is
filled to its last unit. In `clock` a tick is shorter than a
millisecond and a correction is added in the middle of one and at the end of
another, so that both carries meet it; the real second, of 8192 ticks and 8
corrections, is left to the theorems. The sizes of regions in `boot` need no scaling: it uses
the real orders.
In `boot` pages have 64 bytes, so that the table of a region of 300 pages needs two
pages and requests of orders 0 to 3 and of the low memory's order occur; 1 MB and 2 MB
are 16 and 32 pages, powers of two as in the source. The regions with the tables have 31,
63, 127, 1023 or 2048 pages, which the bitmaps of the first one fit (`Reaches`), and
others, which they do not. In `log` the last row is reached by
characters, by a tab and by a new line, in each call of each context. In `library` an
array grows and shrinks twice by its step, a year, a month and a day end while the
date is read, the chip updates before, between and after any of the reads, and each
handler of the table is entered from every state another one leaves. 
The inductive invariants of section 4 (`AllocInv`, `CountInv`, `FramesInv`, `ClockInv`,
`HeapInv`, `BlocksInv`, `VPageInv`, `LogInv`, `ScreenInv`, `TailInv`, `HandlingInv`, `TraceInv`,
`TimeInv`, `ElfInv`, `ProtectInv`)
hold at every state of these instances, as TLC found before they were proved; no run repeats what a theorem says of every instance.
Sizes that the models name (`NPages`, `Frames`, `HeapEnd`, `Requests`,
`AllocOrders`, `FixedPages`) are bounds of the instance only.

Deadlock is checked in `buddy_alloc`. In the other runs the system may stop: the kernel
faults (`clock`), no
frame is left (`vpage`, `heap`), a free of a page behind the region never gives the
lock back (`protect`), a processor faults (`frames_shared`), the start is over
(`boot`), the calls of the instance are used up (`log`), or a file or a stack is read to
its end (`library`).

### Fairness

`FairAllocSpec` says of each processor that while it is in a body of the
allocator it goes on (weak fairness of its own steps, without `Lock`): bodies
neither wait nor are they descheduled for good. Nothing is assumed of who wins
the lock. `FairSpec` of `Frames` says the same of a processor in a call; its
calls are not forced to begin. `CallsReturn` is stated for behaviours in which
frees end, since each free may send a search of `alloc_page` back to its start.

`FairSpec` of `Clock`: the main line and the handler each go on while they can
(weak fairness; interrupts may keep the main line back for ever), periods of the
chip end (`Period`), and a request that stays is delivered (`DeliverInterval`).
For interrupt 8 fairness is strong (`DeliverTick`): the interval timer has the
higher priority and makes the delivery impossible again and again, but 18 times a
second for a few instructions, so that interrupt 8 comes in between.

`FairSpec` of `Log` is weak fairness of the main line's steps: each tick is an end of
its own, and the instance has finitely many of them, as `PrintkReturns` needs; a
processor that does nothing but serve ticks prints no line.

### Where the code falls short

The three violation runs, each against a line of the source:

- `protect_at_one_mb`: `mem_p_protect` passes the address of the region in pages
  as the offset of a block, so that of a region that begins between 0 and 2 MB
  another part is reserved, and memory below 2 MB is given out (`memory.c:148`
  says what is meant).
- `frames_large`: one request for two pages, which neither of two regions of one page
  can serve, marks both full; `alloc_page` then refuses while both pages are free
  (`mm.h:100`).
- `heap_nested`: a tick of the clock during `kmalloc` calls `printk` and with it
  `kmalloc`; both calls take the same pointer (`mm.c:124`).

Others that were met while modelling, in functions that nobody calls yet or that
no line of the source speaks about. The passing runs stay on this side of them,
and the guards that keep them there are named:

- `pages_free` of a block of order 1 or more reads and writes the bit of another
  block (`page.c:559`): `FreeOrders = {0}` and `FreeIsTracked` in `protect`;
- a page freed while the list of single pages is empty is counted, but page 0
  stays the first of the list and is given out again (`page.c:570`):
  `FreeIsTracked`;
- with the table of a small region shorter than its bitmaps (`page.c:343`), a
  merge may read a bit that was never set: `Garbage` is empty where pages are
  freed;
- `zblock_split` takes the new first block from the wrong place when the block
  split is not the first of its order (`page.c:415`): reservations lie at the
  start of the region;
- `mem_full` is set by `pages_free` for an empty region and cleared by nobody
  (`page.c:564`), so a region that was full once stays unused: `NoRegionSkipped`
  speaks of regions that are not marked full;
- `alloc_page` tests one region and may search behind another, which another
  processor has stored in `next_region` in between (`page.c:128-129`): that region is
  left behind with free pages, and `NoRegionSkipped` says that no other is;
- `free_page` after memory ran out reads through a null pointer (`page.c:159`),
  and `alloc_page` may, when another call sets `next_region` (`page.c:128`): the
  steps to `fault`;
- the pointer of a header that `kmalloc` adds has the size of all the header's pages
  as its room, so that the last blocks lie behind them (`mm.c:105`): `RoomToTheEnd`
  fixes by how much;
- a region of a type that `mbootInit` does not know keeps the attributes its memory
  held before (`multiboot.c:70`): `Remains`;
- `tab_search` takes the first table of strings, which need not be the one of the
  table of symbols (`arch.c:30`);
- when the early memory is used up, the list loses entries and its first region may be a
  later entry (`multiboot.c:54-65`), and symbols are copied to address 0 (`arch.c:28`):
  `RegionsAsTold` says what is left of the list;
- of the free block around the page with the boot information `pages_reserve` splits the
  left halves, whichever one has the page (`page.c:538`), and `zblock_split` sets the
  lists as if it were the first free block (`page.c:415`). Unless the page is one of
  the first two of the region or a free block by itself it may be given out, the
  tables of other regions may be laid over it, and a page may be given out twice:
  `KernelKept`, `TablesKept` and the exact lists of `FramesReady` are stated for these
  places only (`Tracked`), and TLC finds each of them violated at other places;
- the bitmaps of the first region may be longer than the room for them, and then cover
  the region's own map (`page.c:190-193`): `Reaches`;
- the boot information is reserved as if it began a page (`memory.c:163`), so that a
  second page that it reaches into stays free: `KernelKept` speaks of the first;
- memory below 2 MB of a region that lies in it is mostly kept because the failed
  reservation marks the region full, not because it is reserved (`page.c:546`);
- where the region for the tables runs out of pages, tables lie at address 0
  (`page.c:213`): `NoBlock`;
- `panic` before `printk_init` shows nothing, since `printk` returns at once
  (`printk.c:24`);
- `array_push` stores at `length` and replaces the array afterwards, so that a tick in
  the middle of it stores behind the block or into the array that is given up
  (`array.c:30`): the constant `TickInPush`, with which TLC shows it;
- characters are stored before the cursor is compared with the end, so that a tick
  between the move and `scroll` prints just behind the screen
  (the screen's `printk.c:92`); the pages that are mapped have room for it, as
  `StoresNearScreen` says;
- `string_append` grows by one step, however long the piece (`string.c:8`), `c_str` of
  0 leaves a string without an end (`c_str.c:8`), numbers are cut to 32 bits for `%u`
  and `%X`, `%o` takes an argument and prints nothing, and the entry pushed is the
  address of a local variable (`printk.c:101`): the messages of `MCLog` are the kinds
  the kernel has, without the number 0 in decimal;
- `kfree` never finds the block it is given, and takes another for it only to call
  `memset` with a negative size (`mm.c:144`): `Mistaken`;
- `page_table_alloc` neither clears a new table nor notices that no frame was left
  (`memory.c:96`): the frames of `VPage` are clear, and suffice;
- a spurious interrupt 7 or 15 makes `PIC_SOI` execute `iretq` with its own frame on
  the stack, and the tests for it (`pic.c:90`, `pic.c:96`) take every interrupt 7 and
  15 for spurious: the step `Spurious` to `fault`;
- `log_order` does not see the highest bit of a number of pages when that bit is the one
  of `MAX_ORDER + 1`, and returns an order that is too small, or 0 (`page.c:227-245`), so
  that `kmalloc` would go on with too few pages: `HeapAssumption` keeps requests below;
- each tick logs a line, and `kfree` gives nothing back, so that memory runs out in
  the handler sooner or later (`cmos.c:115`): `TickNoMemory`;
- a period that ends while register C has not been read yet is lost, without
  trace in the time: `Period` needs a clear flag, and `ClockExact` speaks of the
  ticks that were delivered;
- the controllers replace the low three bits of the vector by the number of their
  input, and `IRQ_start` is 100 (`interrupts.c:13`), so that interrupt 8 arrives at
  the gate meant for interrupt 4: `Clock` and `heap_nested` take the vectors that
  the code means to set, and that the firmware leaves inputs 2 and 8 unmasked;
- `array_pop` reads the entry after the block may have been replaced by a shorter one,
  to which that entry was not copied (`array.c:47`): `TablesRight` allows `Junk` exactly
  when the block has just become shorter. Nobody calls it yet;
- the date is taken as binary numbers of a 24-hour day, which the chip is not asked for;
  of a 12-hour day, 12 o'clock is taken for 24 or, in the morning, for noon; a month has
  2629800 and a year 31557600 seconds, the day of the month counts from 1, and the
  product with the years exceeds an `int` from 2040 (`cmos.c:81-100`, against "Seconds
  since 1971" in `kernel/include/synos/time.h`); an update may begin while the registers
  are read: `TimeRead` says for which settings and times the result is right, and that
  it is otherwise ahead;
- of ELF files of the other byte order, `e_machine` is swapped twice, `e_shoff` is
  computed from `e_phoff` and `sh_offset` from `sh_flags` (`header.c:72`, `:77`, and the
  like for sections); pointers of the 32-bit class are read with 64 bits, of which the
  upper half belongs to what follows, and so the tables of that class are looked for
  where such values lead: `Misread` names these fields, and of such a table `ElfReads`
  says only how it is read from there;
- handlers keep `rdi` only of the registers that C functions may change, and those of
  interrupts 4 and 8 not even that, as they call C code outside of the macros
  (`isr.asm:157`, `isr.asm:183`): `Kept` lists what the interrupted code gets back;
- the handlers of exceptions 8, 10 to 12, 14, 17 and 30 leave the error code on the
  stack, and return to it (`isr.asm:91`), and exception 13 overwrites `rax`
  (`isr.asm:109`): `NotReturning`, `Kept`;
- `TraceName` takes the first string of the table of strings without looking whether
  there is one (`stack.c:42`), and its first symbol is compared with nothing: it is the
  null symbol in every file;
- `vpages_smap` of the very page that comes next is overwritten by the next
  `vpage_map` (`page.c:38`): `Choosable`.

## 4. Proofs

`BuddyProofs` proves, for every number of processors and pages, every `MAX_ORDER`
from 1 to 10, every size of a word and every content of the unset bits:

| Theorem | Of | States |
|---|---|---|
| `MutexAlways` | `Spec` | at most one processor is in a body, whatever clients do |
| `AllocInvAlways` | `AllocSpec` | the inductive invariant |
| `TypesAlways` | `AllocSpec` | types, and that no counter leaves its word |
| `NoDoubleGrant` | `AllocSpec` | no page is given out twice, and blocks lie in the region |

`AllocSpec` is `Buddy` without frees and reservations. The assumptions are
`MaxOrderAssumption` and `RegionAssumption`: a word counts the pages of the
region and the blocks of the highest order, and unset bits lie behind the table.

The argument. `GrantsDisjoint` is not inductive: that the next block is free
depends on the list. The strengthening `AllocInv` says that the free blocks of an
order are a run, `next_free_page[o] .. next_free_page[o] + pages_free[o] - 1`
(`RunsFree`). At first every order below the top has at most one block, and the
top one all of its blocks in a row. A split empties the run of its order from the
left and makes a run of two one order below, which was empty, as `WalkOK` says of
the orders that `pages_alloc` has walked through. This makes
`find_next_free_page` return the next block of the run, if there is one, and so
the bits outside of the runs, among them the ones never set, do not matter. That
pages are given out once then follows from three statements about pages
(`ListedOnce`, `TakenOnce`, `ListedNotTaken`), which are kept because a half of a
block covers pages of that block only (`HalvePage`, `HalfInBlock`) and because a
block that is taken leaves its run. The initial state needs that blocks of
different orders do not meet: the rest of a region behind the larger blocks
(`InitialOrdersDiffer`). The proof has a lemma for each operator on the map, a
step for each action, and the temporal theorems at the end.

`ClockProofs` proves of `Clock`, for every length of a tick and of the correction,
every number of ticks between corrections, of milliseconds in a second, of
registers read at the start and every width of `unix_t`:

| Theorem | States |
|---|---|
| `ClockInvAlways` | the inductive invariant |
| `RightRegisterAlways` | the second port is used with the right register selected |
| `AcknowledgedAlways` | outside of handlers no interrupt is in service |
| `ClockExactAlways` | no drift, milliseconds that keep up, carries at the second |
| `NeverBackAlways` | each step moves the time by nothing, a tick, or a tick and the correction |

The assumption is `ClockAssumption`: the constants are positive, a tick with the
correction is not longer than a millisecond, and a second is a whole number of
milliseconds and of corrections. The values of the source (122, 72, 1024, 1000,
1000000) satisfy it, since 122 * 1024 + 72 is an eighth of a second.

The argument has two parts. The first is arithmetic (`TickExact`): with `k`
corrections in this second, the microseconds are `k` eighths and the ticks since;
the eighth that ends the second ends it exactly, because every other tick stays
below the next eighth (`CarryInTime`); and the milliseconds are the microseconds
rounded down, since a tick never passes two of them (`MillisFollow`). The second
is about the contexts: `RightRegister` is not inductive, as the handler selects
register C whatever the main line has selected. `ClockInv` says where the main
line is when that can happen: before `rtc_irq_init` the chip requests no ticks,
from there to the enabling of interrupts none is delivered (`Critical`), and
behind that the one access left is to register C itself (`Counting`, `Quiet`).
`Serviced` lists what each step of a handler still has to acknowledge.

`FramesProofs` proves of `Frames`, for every list of regions, any number of processors,
and any orders that clients ask for and give back:

| Theorem | States |
|---|---|
| `FramesInvAlways` | the inductive invariant |
| `NoRegionSkippedAlways` | the usable regions in front of `next_region` are full, or were left behind by the race of the two loads |
| `NothingBehindAlone` | one processor that no handler which allocates interrupts leaves none behind that is not full |
| `OnlyUsableAlways` | no block of an unusable region is given out |

The assumptions are `MaxOrderAssumption` and `FramesAssumption`, that sizes are numbers
and orders are those of the allocator. `NoRegionSkipped` holds although results of
searches are stored late, because nothing ever clears `mem_full` (`Filling`): what a
search has passed is still full when its result is stored, and `free_pages` only stores
a region that was in front of `next_region` when it was compared. The exception is the
region that `alloc_page` loads the second time (`page.c:129`) and has not tested: the
history variable `passed` names it, and `Loaded` says that what is in front of the
region tested, and that region, is full. A processor alone loads the same region twice
(`Alone`), and `passed` stays empty. `OnlyUsable` needs `PointersUsable`: `findNextRegion` stops
at usable regions alone, and every other pointer a call goes on with comes from
`next_region`, from a search, or from a block that was given out. `Placed` says this of
a label and a pointer, so that a step has to be looked at for the one processor that
moves (`OneMoves`).

`BuddyProofs` proves as well, while nothing is freed:

| Theorem | States |
|---|---|
| `CountInvAlways` | the counters of the orders, the counter of the region and `mem_full` agree |
| `NotFullHasPageAlways` | a region that is not marked full has a block to give |
| `AllocRefinesRegion` | every behaviour of `AllocSpec` is one of `PageRegion` |

The counts. `PagesCounted` says that `pages_free` is the sum of the blocks that the
orders count, each with its pages. At first that is the binary form of the number of
pages, order by order (`HalveArea`). A split takes one block and adds two of half the
size, whatever the order (`SplitCounts`), and a grant subtracts the pages of the block
in both counts (`TakeCounts`). So the counters are zero together, and
`NotFullHasPage` follows.
`FewBelowTop`, that an order below the top has one block to spare at most, is kept
because blocks are split one at a time, and only when their order is asked for and
empty.

The refinement. Under the mapping the free pages are those of the blocks in the lists
(`ListedPages`), not those whose bit says so: where a bit was never set the two
differ. The initial lists cover every page (`InitialListed`: from the top order down,
the first order whose area reaches the page is the one whose block has it). A split
changes no page, as a block has the pages of its halves (`SplitSame`). A grant takes
exactly the block's pages, since listed blocks do not meet. A refusal is a step of
`PageRegion` only if no block of the order is free in the whole region: `WalkOK` says
that the orders from the requested one up are empty, and the lower ones have at most one
block each (`FewBelowTop`), which together are smaller than the one asked for
(`NothingOverlooked`).

`ProtectProofs` proves of `Protect`, with the reservations of `mem_p_protect`, frees of
single pages and merges, for every number of processors and pages, every `MAX_ORDER`
from 1 to 10, every limit and every place of the region that `RightUse` allows:

| Theorem | States |
|---|---|
| `ProtectInvAlways` | the inductive invariant |
| `PartitionAlways` | each page is in one block, at one place |
| `ListsExactAlways` | the counters, and the first block of each order, are those of the bits |
| `CoalescedAlways` | no two buddies are free whenever the lock is |
| `ProtectedKeptAlways` | no block that is given out has a page of the kernel or of the boot information |
| `ProtectRefinesRegion` | every behaviour of `ProtectSpec` is one of `PageRegion` |

Each has the condition `RightUse`, beside the assumptions of `Buddy` and
`ProtectAssumption`. It names the uses for which section 3 does not list a fault: the table
covers all bitmaps (`page.c:343`), clients give back single pages they hold (`page.c:559`)
or what lies behind the region, and `mem_p_protect` asks for one block, the first ones of a
region at address 0 that has a block that large, or the page of the boot information of a
region above the limit, if that is page 0 or a free block by itself (`memory.c:153`,
`page.c:415`). `MCProtect` has TLC confirm that the instance of `protect` is such a use, and
`protect_at_one_mb` is one that is not. `FreeIsTracked` in the specification is the
remaining one (`page.c:570`).

The argument. With frees the free blocks of an order are no run any more, so the
invariant speaks of the bits. `Exact` is about the map alone: in each order the bits lie in
the region, the counter is their number, and the list begins with the least of them. Each
operator on the map has a lemma that it keeps `Exact` and what it makes of the bits
(`TakeExact`, `SplitExact`, `ZsplitExact`, `ReserveExact`, `FreeExact`, `MergeExact`); what
makes `zsplit_at` and the insertion in `pages_free` right although they look in the wrong
place is that the block split is block 0, and that the list of single pages is not empty.
`Placed` is about where blocks are: a thing is a free block, a held one, or the one that a
processor brings back or takes away (`Hands`), and each page is covered by exactly one thing.
Every action moves one block from one place to another (`FreeToHand`, `HandToHeld`,
`HeldToHand`, `HandToFree`), or replaces a block by its halves or the other way round
(`Halving`, `Joining`), and all of these are one lemma (`Replaced`): what comes has the pages
of what goes. So `CountedInv`, that `pages_free` counts the free pages, follows the same
moves. `CoalescedInv` allows two free buddies only at the block a body is working on: the one
just split, or the one to be merged next. `Protecting` and `AfterProtect` are the two phases:
first nothing is taken, the one request is on its way and its block can be had; then what
was reserved stays taken, which is what `ProtectedKept` needs, since a block that meets the
protected pages meets the reserved block and is therefore the same.

The refinement takes the free pages from the bits. Splits and merges change no page of
them, a reservation or a grant takes exactly its block's pages, a free returns them, and
what is behind the region is a stutter. A refusal is right for the reason that
`CoalescedInv` gives (`NothingFits`): all orders from the requested one up are empty, and
below there are no two buddies, so that some page of each block that could be
given is not free (`NotPutTogether`, by induction over the orders).

`HeapProofs` proves of `Heap`, for any sizes of pages, headers, pointers, the early
stack and the heap, and any requests:

| Theorem | States |
|---|---|
| `HeapInvAlways` | the first inductive invariant |
| `SizeMaxExactAlways` | `size_max` is exact where no call is at work |
| `EarlyBelowEndAlways` | early blocks stay below 2 MB, and out of the heap |
| `BlocksInvAlways` | the second inductive invariant |
| `RoomToTheEndAlways` | room is neither lost nor invented |
| `BlocksApartAlways` | blocks share no cell with each other, a header or a pointer |

All of them under `~ Nested`, that is as long as no handler calls `kmalloc`.
The assumption is `HeapAssumption`: the early stack lies below the heap and both begin
above address 0, a pointer and a header take room, the heap has whole pages, and the
pages that a request needs fit the orders.

With a handler that calls `kmalloc` they are not true: `BlocksApart` fails in the run
`heap_nested`; a handler that comes between `findSize_max` and the store of `mm.c:125`
leaves a `size_max` that is out of date; and a call that found no header sets `hl->next`
anew (`mm.c:94`), which cuts off a header that the handler has added. `HeapInv` says that
the header and the pointer a call goes on with exist, and that `size_max` of a header is
right unless a call between the choice of the header and the store has it
(`SizeMaxKept`). `BlocksInv` adds the shape of the heap: the pointers of a header
divide its room from its first unit to its end (`Divided`), headers follow each other
(`HeadersInOrder`), each block given out belongs to one pointer without room
(`HeldOwned`), and the pointer in hand has the room that was asked for (`InHand`).
A split keeps `Divided` (`DividedKept`), because what it takes from one pointer it gives
to the next one, or leaves unused when no pointer fits.

`PartsProofs` proves of `Parts`, for every length by which an array grows, all
numbers and functions of system calls, all instants and settings of the clock chip, all
tables of symbols and stacks, any number of headers, and all vectors of lines and system calls:

| Theorem | States |
|---|---|
| `TablesRightAlways` | an array holds the entries it stands for; a system call is found as it was set last |
| `TimeReadAlways` | the date is read as the chip shows it, and with updates in between it is not behind |
| `NearestSymbolAlways` | a trace shows each return address once, with the nearest name at or below it |
| `ElfReadsAlways` | every field of an ELF file that is not named as misread is exactly its own bytes; tables begin where the file says and entries follow without a gap |
| `LeavesNoTraceAlways` | stack, kept registers, flag and controllers are as before each handler that returns |

The assumptions are `ArrayAssumption`; `InterruptsAssumption`, that no line takes the
gate of an exception and vectors are bytes (`IRQ_start` is 100 in the source);
`TraceAssumption`, that addresses have a bounded width and tables of symbols begin with the null
symbol, as the tables of ELF files do; and `CalendarAssumption`, that the chip holds a time with
each field in its range and is looked at for less than 28 days, which the reading of six
registers does not take: seconds are compared within a month, and no month must come back.

The array (`ArrayInv`): its block is as long as `alloc_length`, which is longer than the
entries by one at least and by one step at most. `array_resize` decides by that
difference alone, and copies all entries when it adds room (`ResizeKeeps`); when it takes
room away, the block loses one entry too many, the one that `array_pop` then reads. The
system calls (`SyscallsInv`): numbers occur once, so that `syscall_find_index`, which takes
the first, takes the one that was set.

The stack trace (`TraceInv`): the frames shown and those to come are all frames, and each name
shown is the nearest. The search of `TraceName` is a recursive function on the table; `SearchFound`
says that there is one, and `NextSymbol` that each step keeps the symbol nearest so far
(`NearestOf`). Differences are unsigned, but since only symbols at or below the address are
compared with one that is, none of them wraps around.

The time of day (`TimeInv`). While no update has begun since the wait, the chip stands still, and
each register gives what it shows (`StandsStill`, `RegisterIs`). The seconds that went by are
counted within the month (`Elapsed`): either no month has ended and they are the difference, or one
has, and then less than the shortest month lies behind in the new one, so that it does not end as
well. When updates come between reads, `GoesOn` looks at the time that would be put together if
the registers to come were read at once (`Together`): a read does not change it, and a second
that goes by carries into higher fields only, so that it grows (`Onward`), which is where it
matters that the seconds are read first and the year last. Instants are compared by a number in a
mixed base (`Number`), and `Behind` takes the order of fields that the property speaks of to it.

ELF files (`ElfInv`): each table is what its reader makes of the file, whose class and byte order
do not change. Where the fields lie is added up from their widths (`Places`), and `PlacesAre`
compares that with the offsets written down in the code (`HeaderPlaces` and the like), for both
classes; `Strides` does so with the sizes of an entry. A field is copied with the room that 64 bits
take (`Room`), which is its width unless it is a pointer of a 32-bit file (`RoomIs`): that is why
`Misread` names all of these.

The handlers (`HandlingInv`): the gates of exceptions 1 and 3 leave interrupts on, all
others turn them off, and no handler turns them on again. So at most two handlers are
on the stack, and there are only three things underneath a line's handler (`Bases`):
nothing, or the handler of exception 1 or 3, itself at its only instruction. Hence the
invariant can name the whole stack at each instruction: `AtSystemCall(k)` is the pile
of the registers that are pushed before instruction `k`, `AtInterrupt(n, k, base, v)` the
same of line `n`, with the line in service until the end of the interrupt is told. Since
handlers of lines do not nest, the line in service is the only one and `PIC_EOI` removes
it. What `PIC_SOI` makes of the bits of the controllers does not matter for this: it
either goes on or is one of the handlers that do not return.

`VPageProofs` proves of `VPage`, for every number of levels and of entries of a table, any
orders that are mapped, any pages that callers choose, and any number of frames:

| Theorem | States |
|---|---|
| `VPageInvAlways` | the inductive invariant |
| `MappingsExactAlways` | each page mapped leads to its frame, no other page is present, the next page is free |
| `TablesApartAlways` | a frame is the table of one place only, and no frame of a caller is one |

The assumption is `VPageAssumption`: tables have more than two entries, there are two
levels at least, the boot tables and the first pages have frames, and no block is larger
than what the boot tables map (512 pages in the source, the highest order). What the
theorems take over from the model: a new table is clear, `alloc_page` has a frame whenever one
is asked for (`EnoughFrames` is a guard, with the tables a block can need at most), and it
never gives a frame twice, which `NoDoubleGrant` says of the allocator.

The walk through the tables, and the loops of `pga_map` and `pga_unmap`, are recursive
functions. That such a function is what its equation says, and that a statement kept by each step
holds at the end, is proved once (`Computation`, `Upwards`, `Descent`, `Downwards`) by the
well-foundedness of the numbers. Neither of the two properties is inductive.
A write to an entry must not change another page's walk: for this the invariant says
that there is a set of frames `B` in which the tables form a tree (`Tree`). Two pages share
a table exactly if they agree in the indices above it, and every frame outside of `B`
is clear. A table is added at a place that had none, and changes no other place
(`AddTable`); the entry of a page is written in the lowest table, and changes that
page only (`MapLeaf`). So each step of the loop adds tables to the tree from the frames that
were not given out yet (`AllocTables`, `NextPageMapped`), and a block is mapped as a whole
(`BlockMapped`) or removed as a whole (`BlockUnmapped`). `OwnFrames` keeps the tables out of
what callers have, and `BlocksPlaced` keeps the blocks apart, so that removing one leaves
the others.

`LogProofs` proves of `Log`, for every size of the screen and of tabs, every length by which
the array grows, all messages, and any number of calls and ticks:

| Theorem | Of | States |
|---|---|---|
| `ScreenInvAlways` | `Spec` | the inductive invariant about the screen |
| `StoresNearScreenAlways` | `Spec` | no store lies more than a tab behind the screen |
| `CursorShownAlways` | `Spec` | between calls both registers of the display show the cursor |
| `ScreenShowsTailAlways` | `Spec` | as long as the main line prints alone, the screen shows the last rows of what it printed |
| `LogKeptAlways` | `~ TickInPush` | every call has its entry, in order, none was stored behind the block, and there is room for the next one |

The assumptions about the screen are `ScreenAssumption`, that it has two rows and fits in the
pages mapped for it and in 16 bits with a row and a tab to spare, and `MessagesAssumption`,
that texts are sequences of characters without vertical tabs: those of the kernel have none,
and one would take the cursor a whole row behind the screen before it is checked.
`ScreenShowsTailAlways` needs `PrintoutAssumption`, too: the texts of the main line move about by tabs
and new lines only, and the character 0, which ends a string in C, is not one of theirs. A
backspace or a carriage return would go back to where something stands already, which the
paper of `printed` does not show.

The argument about the screen. `ScreenInv` says for each step of the main line where
`cursor_pos`, and the position read from it, may be, as a tick leaves the cursor anywhere on
the screen below the first row. The cursor is on the screen when it is read for a character,
so that one character takes it at most a tab behind (`TargetIs`), and that is where a tick
may find it. `scroll` between ticks moves the cursor up from what may be a row of the screen
by then, but never the first one (`Aimed`): what the handler prints ends its line, so that
`LineIs` has the cursor below the first row, and the row number that `scroll` subtracts from
is at least 1 (`MixedIs`). In the middle of `setCursorPos` (`Half`) the low byte is right, or will be
written to the register of the low byte; if a tick has selected the register of the high byte in
between, the main line writes the low byte there, but the low byte was made right by the tick
and the high byte is written anew. The loops of `scroll`, `scrollRep` and `arch_print` are
recursive functions; `Computation` says that there is a function that they define, and
`StepByStep` carries the facts through them (`RowsCopiedIs`, `ScrolledIs`, `PrintedIs`).

What the screen shows. `TailInv` has it that cell `i` shows the position `J + i` of the paper, `J`
being as many whole rows as were scrolled away, and 0 unless the cursor is in the last row or
behind it. In the middle of `scroll` the rows that are copied already show a row further down,
and when all are, so does every row; the last one is blank, since the character that
made `scroll` begin took the cursor behind the screen and nothing is printed there yet. In the
middle of a character the paper is ahead by that character (`Sheet`), and behind it by the
cell that `arch_print` has not written yet (`Put`). The invariant speaks of every step of the
main line, since `scroll` and `arch_print` are divided where ticks come, and it ends with the
first tick, whose own lines would need a paper for each context. At rest `J` is the number of
rows that `ScreenShowsTail` computes from the length of the paper (`OnScreen`, `OneRow`).

`LogKept` is false when a tick may come inside `array_push`, where nothing in the code keeps
it out, and the theorem has the constant `TickInPush` as its condition. Its invariant,
`LogInv`, follows the three steps of a push of the main line: after the store the room may be used
up; after the new length is set `alloc_length` is ahead of the block, which is full; after the
block is replaced there is room again. A tick pushes in one step, between calls or anywhere else
in them.

Only model-checked. `Boot`, which runs the loops of `FreeAreaLoops`: their recursive operators
compute for sizes up to 1100 what `FreeArea` states in closed form, and the proofs use the closed
forms. Of `Log` what is about texts (`MessageRight`), which compares folds over characters:
the library's theorems say nothing of its folds, and nothing can be proved by induction over
them. Liveness (`LockReleased`, `CallsReturn`, `TicksGoOn`, `PrintkReturns`) is out of the
prover's reach, as is `ENABLED`.

## 5. Not modelled

See the components in `PROJECT.json`. In short: descriptors and CPUID, the APIC code
(not in use), the serial port and stubs have no behaviour over time, and the code that
starts further processors is not called. `PIC_Configure`, `IRQ_save`, `IRQ_kill` and
`IRQ_restore` write masks that the models take as open. `arch_gettime` hands out a
pointer, and nobody in the kernel reads through it. Colours, flags of page table
entries, the TLB, and memory ordering are abstracted: the accesses of the models are
sequentially consistent, as those of the spinlock are in the source. In `Interrupts`
exceptions come from the kernel's code and not from its handlers, and the segment and
privilege of a gate are left out, since all code runs in one of each.

## 6. Plan

Done: the allocator with `Protect`, `Frames`, `VPage`, `Heap`, `Clock`, the array and the
screen of `Log`, and `Parts` with their proofs; `Boot` and `Text` with
runs. To come, in this order:

1. Readers of `ctime` that a tick interrupts; `return_free_page` with `VPage` and `Frames`
   together.
2. `panic` as a whole, on top of `Trace` and `Log`.
