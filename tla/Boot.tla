--------------------------------- MODULE Boot ---------------------------------
(***************************************************************************)
(* How the kernel finds its memory: mbootInit makes the list of regions    *)
(* from the boot loader's map, getMEMID adds up their sizes, ppage_init    *)
(* sets up the page allocator of each region, with its tables in memory    *)
(* taken from one of them, mm_init takes the first page of the heap, and    *)
(* printk_init looks at the display.                                       *)
(* Interrupts are disabled and nothing else runs, so that a call of the    *)
(* page allocator is one step here: it does to the region's map what       *)
(* FreeLists says.  Addresses and sizes are in bytes.                      *)
(***************************************************************************)
EXTENDS FreeAreaLoops, Sequences, SequencesExt

CONSTANTS
    Loads,              \* what boot loaders leave: see Init
    page_size, LM_SIZE, mm_sb_size,
    RegionSize,         \* sizeof(struct mem_regions)
    MemStart, MemLimit, \* the memory of memstck_malloc; MemLimit is 2 MB
    mboot_info_size,
    WORD,               \* one more than the largest size_t
    Remains,            \* attributes that memory may hold by chance
    MaxPages            \* the largest region whose initial map is looked at

ASSUME BootAssumption ==
    /\ {page_size, LM_SIZE, mm_sb_size, RegionSize, mboot_info_size} \subseteq Nat \ {0}
    /\ MemStart \in Nat /\ MemLimit \in Nat /\ WORD \in Nat /\ MaxPages \in Nat

VARIABLES
    load,       \* the boot loader's information
    pc,         \* "panic" if it has halted, "wild" if it is followed no further
    MemStack,
    regions,    \* the list X64.mmap
    creg,       \* the last one written, a position in it; 0 for NULL
    chain_length,   \* the entries of the boot loader's map read so far
    size_at_0,  \* the size in a record written through NULL, at address 0
    symbols,    \* the sections copied to elf_sym and elf_str, 0 for NULL
    framebuffer,    \* the type of the display
    totalSize,
    alloc_region, map_reg, next_region,    \* positions in the list, 0 for NULL
    blocks      \* for map_reg: the blocks for its map and its table

told == <<creg, chain_length, size_at_0, symbols, framebuffer>>
vars == <<load, pc, MemStack, regions, told, totalSize, alloc_region, map_reg, next_region, blocks>>

(* The free areas of a region of n pages. *)
Lists(n) == INSTANCE FreeLists WITH NPages <- n

NoBlock == <<>>
Pages(b) == IF b = NoBlock THEN {} ELSE BlockPages(b[1], b[2])

CeilDiv(a, b) == (a + b - 1) \div b

-----------------------------------------------------------------------------
(* The early kmalloc: the size that was asked for and a byte behind it. *)
RoomAt(stack, bytes) == bytes > 0 /\ stack < MemLimit /\ stack + bytes < MemLimit

Room(bytes) == RoomAt(MemStack, bytes)

Goto(l) == pc' = l

(***************************************************************************)
(* tab_search: of the sections behind the first one, the first table of    *)
(* symbols and the first table of strings for which there is memory are    *)
(* copied.  The others are copied to address 0, which is mapped and where  *)
(* the kernel may need what was there.                                     *)
(***************************************************************************)
Copied(s, i) ==
    LET sec   == load.sections[i]
        field == IF sec.type = "symtab" THEN "sym" ELSE "str"
    IN  IF sec.type \notin {"symtab", "strtab"} \/ s.symbols[field] # 0 THEN s
        ELSE IF RoomAt(s.stack, sec.size)
        THEN [s EXCEPT !.stack = @ + sec.size + 1, !.symbols[field] = i]
        ELSE [s EXCEPT !.over0 = @ \/ sec.size > 0]

tab_search ==
    LET start == [stack |-> MemStack, symbols |-> [sym |-> 0, str |-> 0], over0 |-> FALSE]
        end   == FoldLeft(Copied, start, [i \in 1 .. Len(load.sections) - 1 |-> i + 1])
    IN  /\ pc = "load"
        /\ symbols' = end.symbols /\ MemStack' = end.stack
        /\ Goto("entries") \/ (end.over0 /\ Goto("wild"))
        /\ UNCHANGED <<load, regions, creg, chain_length, size_at_0, framebuffer, totalSize,
                       alloc_region, map_reg, next_region, blocks>>

Known == {"available", "reserved", "acpi", "nvs", "badram"}

(* Mutant of Attributes: the first case has no break. *)
AttributesFall(type, before) ==
    CASE type \in {"available", "reserved"} -> {{"PROTECTED"}}
      [] type = "acpi"      -> {{"PROTECTED", "MAPPED", "READ", "WRITE"}}
      [] type = "nvs"       -> {{"PRESERVE", "MAPPED", "READ", "WRITE"}}
      [] type = "badram"    -> {{"BAD", "MAPPED", "PROTECTED"}}
      [] type \notin Known  -> before

(* The attributes of mbootInit; a type it does not know keeps what there was. *)
Attributes(type, before) ==
    CASE type = "available" -> {{"AVAILABLE", "MAPPED", "READ", "WRITE"}}
      [] type = "reserved"  -> {{"PROTECTED"}}
      [] type = "acpi"      -> {{"PROTECTED", "MAPPED", "READ", "WRITE"}}
      [] type = "nvs"       -> {{"PRESERVE", "MAPPED", "READ", "WRITE"}}
      [] type = "badram"    -> {{"BAD", "MAPPED", "PROTECTED"}}
      [] type \notin Known  -> before

Region(ent, attrib) ==
    [start |-> ent.addr, size |-> ent.len, attrib |-> attrib,
     mapped |-> FALSE, pages |-> 0, map |-> EmptyMap, pages_free |-> 0,
     mem_full |-> FALSE, tables |-> <<>>]

(***************************************************************************)
(* An entry of the map.  Its record is the next one of the list; after a   *)
(* record that was written through NULL it is the first one, again.        *)
(* Without memory the list ends where it was, and the record is written to *)
(* address 0; without memory for the first one there is no list.           *)
(***************************************************************************)
Entry ==
    LET ent  == load.mmap[chain_length + 1]
        list == SubSeq(regions, 1, creg)
    IN  /\ pc = "entries" /\ chain_length < Len(load.mmap)
        /\ chain_length' = chain_length + 1
        /\ \/ /\ creg = 0 /\ regions # <<>>
              /\ \E a \in Attributes(ent.type, {regions[1].attrib}) :
                   regions' = [regions EXCEPT ![1] = Region(ent, a)]
              /\ creg' = 1
              /\ UNCHANGED <<MemStack, size_at_0>>
           \/ /\ creg # 0 \/ regions = <<>>
              /\ Room(RegionSize)
              /\ \E a \in Attributes(ent.type, Remains) : regions' = Append(list, Region(ent, a))
              /\ creg' = creg + 1
              /\ MemStack' = MemStack + RegionSize + 1
              /\ UNCHANGED size_at_0
           \/ /\ creg # 0 \/ regions = <<>>
              /\ ~ Room(RegionSize)
              /\ regions' = list /\ creg' = 0 /\ size_at_0' = ent.len
              /\ UNCHANGED MemStack
        /\ UNCHANGED <<load, pc, symbols, framebuffer, totalSize,
                       alloc_region, map_reg, next_region, blocks>>

(* The end of mbootInit: the display that the boot loader has set up, if any. *)
Display ==
    /\ pc = "entries" /\ chain_length = Len(load.mmap)
    /\ framebuffer' = IF load.display \in {"EGA_TEXT", "INDEXED_COLOR", "DIRECT_RGB"}
                      THEN load.display ELSE "FRAMEBUFFER_TYPE_LENGTH"
    /\ Goto("memid")
    /\ UNCHANGED <<load, MemStack, regions, creg, chain_length, size_at_0, symbols, totalSize,
                   alloc_region, map_reg, next_region, blocks>>

(* An empty map stands for no map: without a list the size stays 0.  The   *)
(* walk takes as many steps as there were entries; behind the end of the   *)
(* list it stays at address 0.                                             *)
getMEMID ==
    LET behind == chain_length - Len(regions)
    IN  /\ pc = "memid"
        /\ totalSize' = IF regions = <<>> THEN 0
                        ELSE MapThenSumSet(LAMBDA i : regions[i].size, DOMAIN regions)
                             + behind * size_at_0
        /\ Goto("choose")
        /\ UNCHANGED <<load, MemStack, regions, told, alloc_region, map_reg, next_region, blocks>>

-----------------------------------------------------------------------------
(* The regions that findNextRegion stops at, and findFreeRegion from the first. *)
Usable ==
    {i \in DOMAIN regions :
        /\ {"AVAILABLE", "READ", "WRITE"} \subseteq regions[i].attrib
        /\ regions[i].attrib \cap {"BAD", "PRESERVE", "PROTECTED"} = {}
        /\ regions[i].size >= page_size}

findFreeRegion ==
    LET found == {i \in Usable : ~ regions[i].mem_full}
    IN  IF found = {} THEN 0 ELSE Min(found)

(* region_map: the lists that the loops of _free_area_map leave. *)
region_map(r, pages, tables) ==
    LET loops == free_area_map(pages)
        areas == [o \in 0 .. MAX_ORDER |-> IF o \in Orders THEN loops.clear[o] ELSE {}]
    IN  [r EXCEPT !.mapped = TRUE, !.pages = pages, !.pages_free = pages,
                  !.mem_full = FALSE, !.tables = tables,
                  !.map = Lists(pages)!Map(areas, loops.count, loops.next)]

(* The pages that are in a free block. *)
FreePages(r) ==
    UNION {BlockPages(o, i) : <<o, i>> \in
        UNION {{o} \X Lists(r.pages)!FreeFrom(r.map, o, 0) : o \in Orders}}

(* Mutant of Taken: a region that is emptied is not marked full. *)
TakenNotFull(r, map, order) ==
    [r EXCEPT !.map = map, !.pages_free = (@ - 2^order) % WORD]

(* A block of the order leaves the count of free pages. *)
Taken(r, map, order) ==
    [r EXCEPT !.map = map, !.pages_free = (@ - 2^order) % WORD,
              !.mem_full = @ \/ r.pages_free <= 2^order]

(* Split the first free block of order top, and then the first halves. *)
SplitFirst(r, top, order) ==
    LET split(map, k) == Lists(r.pages)!split_next(map, top - k)
    IN  FoldLeft(split, r.map, [k \in 1 .. top - order |-> k - 1])

TakeFirst(r, map, order) ==
    LET i == map.next_free_page[order]
    IN  [block  |-> <<order, i>>,
         region |-> Taken(r, Lists(r.pages)!take_next(
                                Lists(r.pages)!block_set(map, order, i), order), order)]

(* pages_alloc: the block, and the region as it leaves it. *)
pages_alloc(r, order) ==
    LET tops == {o \in order .. MAX_ORDER - 1 : r.map.pages_free[o] > 0}
    IN  IF order >= MAX_ORDER THEN [block |-> NoBlock, region |-> r]
        ELSE IF tops = {} THEN [block |-> NoBlock, region |-> [r EXCEPT !.mem_full = TRUE]]
        ELSE TakeFirst(r, SplitFirst(r, Min(tops), order), order)

(***************************************************************************)
(* pages_reserve: if the block is not free itself, the smallest free block *)
(* around it is split, and then always the left half, down to the order.   *)
(* Only if that has made the block free is it taken; the pages are counted *)
(* in any case.                                                            *)
(***************************************************************************)
Around(r, order, offset) ==
    {<<o, i>> \in {<<o, offset \div 2^(o - order)>> : o \in order .. MAX_ORDER - 1} :
        Lists(r.pages)!IsFree(r.map, o, i)}

SplitLeft(r, block, order) ==
    LET split(map, k) == Lists(r.pages)!zsplit_at(map, block[1] - k, block[2] * 2^k)
    IN  FoldLeft(split, r.map, [k \in 1 .. block[1] - order |-> k - 1])

SplitAround(r, around, order) ==
    IF around = {} THEN r.map
    ELSE SplitLeft(r, CHOOSE b \in around : \A c \in around : b[1] <= c[1], order)

TakeIfFree(r, map, order, offset) ==
    Taken(r, IF Lists(r.pages)!IsFree(map, order, offset)
             THEN Lists(r.pages)!reserve_at(map, order, offset) ELSE map, order)

(* Mutant of pages_reserve: the last split is left out. *)
ReserveOneShort(r, order, offset) ==
    TakeIfFree(r, SplitAround(r, Around(r, order, offset), order + 1), order, offset)

pages_reserve(r, order, offset) ==
    TakeIfFree(r, SplitAround(r, Around(r, order, offset), order), order, offset)

(***************************************************************************)
(* region_map leaves the bits behind the bytes it was given as they are.   *)
(* A call is taken as with ones there; where zeros would make a difference *)
(* it is in doubt, and the model follows it no further.                    *)
(***************************************************************************)
WithZeros(r) ==
    LET first(o) == Max({0, 8 * (TableBytes(r.pages) - AreaStart(r.pages, o))})
        end(o)   == IF o \in Orders THEN 8 * AreaBytes(r.pages, o) ELSE MemLimit \div page_size
        unset(o) == first(o) .. end(o) - 1
    IN  [r EXCEPT !.map.free_area = [o \in DOMAIN @ |-> @[o] \cup unset(o)]]

SameLists(r, s) ==
    /\ r.map.pages_free = s.map.pages_free /\ r.map.next_free_page = s.map.next_free_page
    /\ r.mem_full = s.mem_full

Allocs(r, order) ==
    {[from |-> s, to |-> pages_alloc(s, order)] : s \in {r, WithZeros(r)}}

(* The outcome of the call, from all of its outcomes. *)
Outcome(calls, r) == {c.to : c \in {c \in calls : c.from = r}}

InDoubt(calls) ==
    \E c, d \in calls : c.to.block # d.to.block \/ ~ SameLists(c.to.region, d.to.region)

Follow(doubt, l) == Goto(l) \/ (doubt /\ Goto("wild"))

(***************************************************************************)
(* mem_p_protect: the requests it makes, as orders and offsets in blocks,  *)
(* and the region after them.                                              *)
(***************************************************************************)
LowRequest(r) ==
    LET size == Min({MemLimit - r.start, r.size})
    IN  IF r.start < MemLimit
        THEN <<<<log_order(CeilDiv(size, page_size)), r.start \div page_size>>>> ELSE <<>>

InfoRequest(r) ==
    LET mbp   == load.mbp
        start == Max({mbp, r.start})
        size  == Min({mboot_info_size - (start - mbp), r.size - (start - r.start)})
    IN  IF r.start < mbp + mboot_info_size /\ r.start + r.size > mbp
        THEN <<<<log_order(CeilDiv(size, page_size)), (start - r.start) \div page_size>>>>
        ELSE <<>>

Requests(r) == LowRequest(r) \o InfoRequest(r)

mem_p_protect(r) ==
    LET reserve(s, q) == pages_reserve(s, q[1], q[2])
    IN  FoldLeft(reserve, r, Requests(r))

Protects(r) ==
    {[from |-> s, to |-> [block |-> NoBlock, region |-> mem_p_protect(s)]] :
        s \in {r, WithZeros(r)}}

-----------------------------------------------------------------------------
(* ppage_init *)

TOTAL_PAGE_TABLE_SIZE == ((totalSize \div page_size) * BITS_PER_PAGE) \div 8

TableSize(r) == TableBytes(r.size \div page_size)

(* The search by regup; the kernel halts if there is no region for it. *)
Choose ==
    LET found == {i \in Usable : /\ regions[i].size >= TOTAL_PAGE_TABLE_SIZE
                                 /\ regions[i].start >= LM_SIZE}
    IN  /\ pc = "choose"
        /\ IF found = {} THEN Goto("panic") /\ UNCHANGED alloc_region
           ELSE Goto("first") /\ alloc_region' = Min(found)
        /\ UNCHANGED <<load, MemStack, regions, told, totalSize, map_reg, next_region, blocks>>

Set(i, r) == regions' = [regions EXCEPT ![i] = r]

(***************************************************************************)
(* Whether a bit of a block is behind the table and the byte after it: in  *)
(* the early memory the map of the region itself is there, and the first   *)
(* call that sets the bit changes the map.                                 *)
(***************************************************************************)
Reaches(n) ==
    \E o \in Orders : /\ free_area_length(n, o) > 0
                      /\ AreaStart(n, o) + (free_area_length(n, o) - 1) \div 8 > TableBytes(n)

(* The table and the map of the first region are in the early memory. *)
MapFirst ==
    LET r     == regions[alloc_region]
        bytes == TableSize(r) + 1 + mm_sb_size
    IN  /\ pc = "first"
        /\ IF Room(bytes)
           THEN /\ MemStack' = MemStack + bytes + 1
                /\ Set(alloc_region, region_map(r, r.size \div page_size, <<>>))
                /\ Goto("protect")
                /\ next_region' = alloc_region /\ map_reg' = 1
           ELSE Goto("panic") /\ UNCHANGED <<MemStack, regions, next_region, map_reg>>
        /\ UNCHANGED <<load, told, totalSize, alloc_region, blocks>>

(* mem_p_protect follows on region_map, for the first region and the others. *)
JustMapped == IF map_reg = 1 THEN alloc_region ELSE map_reg - 1

Protect ==
    /\ pc = "protect"
    /\ \E calls \in {Protects(regions[JustMapped])} :
       \E end \in Outcome(calls, regions[JustMapped]) :
        /\ Set(JustMapped, end.region)
        /\ IF map_reg = 1 /\ Reaches(end.region.pages) THEN Goto("wild")
           ELSE Follow(InDoubt(calls), "others")
    /\ UNCHANGED <<load, MemStack, told, totalSize, alloc_region, map_reg, next_region, blocks>>

(* Mutant of Skips: the region that has the tables is set up again. *)
SkipsNone(i) == regions[i].size < page_size

Skips(i) == i = alloc_region \/ regions[i].size < page_size

Skip ==
    /\ pc = "others" /\ map_reg \in DOMAIN regions /\ Skips(map_reg)
    /\ Set(map_reg, [regions[map_reg] EXCEPT !.mem_full = @ \/ map_reg # alloc_region])
    /\ map_reg' = map_reg + 1
    /\ UNCHANGED <<load, pc, MemStack, told, totalSize, alloc_region, next_region, blocks>>

(* The block for the map, then the one for the table.  Without one it is   *)
(* put at address 0, where others may be.                                  *)
AllocTables ==
    LET sb_order  == log_order(CeilDiv(mm_sb_size, page_size))
        tbl_order == log_order(CeilDiv(TableSize(regions[map_reg]), page_size))
    IN  /\ pc = "others" /\ map_reg \in DOMAIN regions /\ ~ Skips(map_reg)
        /\ \E sbs \in {Allocs(regions[alloc_region], sb_order)} :
           \E sb \in Outcome(sbs, regions[alloc_region]) :
           \E tbls \in {Allocs(sb.region, tbl_order)} : \E tbl \in Outcome(tbls, sb.region) :
            /\ Set(alloc_region, tbl.region)
            /\ blocks' = <<sb.block, tbl.block>>
            /\ Follow(InDoubt(sbs) \/ InDoubt(tbls) \/ NoBlock \in {sb.block, tbl.block}, "tables")
        /\ UNCHANGED <<load, MemStack, told, totalSize, alloc_region, map_reg, next_region>>

(***************************************************************************)
(* vpages_map may take a frame for a page table, from the same region (one *)
(* of them stands for the several it may take); when that is full,         *)
(* alloc_page goes on to regions that are not set up.                      *)
(***************************************************************************)
PageTable ==
    /\ pc = "tables" /\ Len(blocks) = 2
    /\ IF regions[alloc_region].mem_full THEN Goto("wild") /\ UNCHANGED <<regions, blocks>>
       ELSE \E calls \in {Allocs(regions[alloc_region], 0)} :
            \E page \in Outcome(calls, regions[alloc_region]) :
            /\ Set(alloc_region, page.region)
            /\ blocks' = Append(blocks, page.block)
            /\ Follow(InDoubt(calls), pc)
    /\ UNCHANGED <<load, MemStack, told, totalSize, alloc_region, map_reg, next_region>>

MapOther ==
    LET r == regions[map_reg]
    IN  /\ pc = "tables"
        /\ Set(map_reg, region_map(r, r.size \div page_size, blocks))
        /\ map_reg' = map_reg + 1 /\ blocks' = <<>>
        /\ Goto("protect")
        /\ UNCHANGED <<load, MemStack, told, totalSize, alloc_region, next_region>>

Mapped ==
    /\ pc = "others" /\ map_reg \notin DOMAIN regions
    /\ next_region' = findFreeRegion
    /\ Goto("heap")
    /\ UNCHANGED <<load, MemStack, regions, told, totalSize, alloc_region, map_reg, blocks>>

(* mm_init: the first page of the heap, or the kernel halts.  The frames *)
(* for page tables that follow are taken as Frames has it.               *)
HeapPage ==
    /\ pc = "heap"
    /\ IF next_region = 0 THEN Goto("panic") /\ UNCHANGED <<regions, blocks>>
       ELSE \E calls \in {Allocs(regions[next_region], 0)} :
            \E page \in Outcome(calls, regions[next_region]) :
            /\ Set(next_region, page.region) /\ blocks' = <<page.block>>
            /\ Follow(InDoubt(calls), IF page.block = NoBlock THEN "panic" ELSE "log")
    /\ UNCHANGED <<load, MemStack, told, totalSize, alloc_region, map_reg, next_region>>

(* Messages can be shown from here on, not before. *)
printk_init ==
    /\ pc = "log"
    /\ Goto(IF framebuffer = "EGA_TEXT" THEN "up" ELSE "panic")
    /\ UNCHANGED <<load, MemStack, regions, told, totalSize,
                   alloc_region, map_reg, next_region, blocks>>

Init ==
    /\ load \in Loads
    /\ pc = "load" /\ MemStack = MemStart
    /\ regions = <<>> /\ creg = 0 /\ chain_length = 0 /\ size_at_0 = 0
    /\ symbols = [sym |-> 0, str |-> 0] /\ totalSize = 0
    /\ framebuffer = "EGA_TEXT"    \* the value 0
    /\ alloc_region = 0 /\ map_reg = 0 /\ next_region = 0 /\ blocks = <<>>

Next ==
    \/ tab_search \/ Entry \/ Display \/ getMEMID \/ Choose \/ MapFirst \/ Protect \/ Skip
    \/ AllocTables \/ PageTable \/ MapOther \/ Mapped \/ HeapPage \/ printk_init

Spec == Init /\ [][Next]_vars

-----------------------------------------------------------------------------
(***************************************************************************)
(* Whenever a region is set up, its free areas are what the loops of       *)
(* region_map and _free_area_map (kernel/page.c:307-358) are meant to      *)
(* leave there: the parts are explained in FreeAreaLoops.  And the order   *)
(* that is asked for a number of pages is the least one that holds them    *)
(* (kernel/page.c:227-245).                                                *)
(***************************************************************************)
InitialMapRight ==
    LET n == regions[JustMapped].pages
    IN  pc = "protect" =>
            /\ LogOrderLeast(n)
            /\ n <= MaxPages =>
                /\ InitialMapPartitions(n) /\ InitialNextIsLeast(n)
                /\ ClosedForms(n) /\ AreasHoldTheirBlocks(n)

(***************************************************************************)
(* pages_reserve takes the page with the boot information if it is one of  *)
(* the first two of the region, or a free block by itself; or the region   *)
(* does not have it.  A region that begins inside the low memory and ends  *)
(* behind it has blocks reserved that are not the low ones.                *)
(***************************************************************************)
PagesOf(r, from, to) == {n \in 0 .. r.pages - 1 :
    r.start + n * page_size < to /\ r.start + (n + 1) * page_size > from}

InfoPage(r) == PagesOf(r, load.mbp, load.mbp + 1)

Crosses(r) == r.start \in 1 .. MemLimit - 1 /\ r.start + r.size > MemLimit

Tracked(r) ==
    /\ InfoPage(r) \subseteq {0, 1} \cup init_free_area(r.pages, 0)
    /\ ~ Crosses(r)

(***************************************************************************)
(* When ppage_init is over (kernel/page.c:222-225), the regions are as the *)
(* calls of alloc_page (Frames) rely on: next_region is the first usable   *)
(* one that is not full, or NULL; and every usable region that is not full *)
(* has been set up and has free pages, at least as many as are counted,    *)
(* although the reservations count pages that they do not find free.       *)
(***************************************************************************)
ListsRight(r) ==
    \A o \in Orders :
        LET free == Lists(r.pages)!FreeFrom(r.map, o, 0)
        IN  /\ r.map.pages_free[o] = Cardinality(free)
            /\ free # {} => r.map.next_free_page[o] = Min(free)

FramesReady ==
    LET open == {i \in Usable : ~ regions[i].mem_full}
    IN  pc = "heap" =>
            /\ next_region = IF open = {} THEN 0 ELSE Min(open)
            /\ \A i \in open :
                LET r == regions[i]
                IN  /\ r.mapped
                    /\ r.pages_free \in 1 .. Cardinality(FreePages(r))
                    /\ Tracked(r) => ListsRight(r)

(***************************************************************************)
(* The list of regions is the boot loader's map, and memory of the types   *)
(* the kernel knows is used when and only when it is available             *)
(* (arch/X86_64/multiboot.c:41-89), with a total that is the sum over the  *)
(* list: as far as the early memory goes.  When it is used up the list     *)
(* ends where it was, if it has not lost the regions behind the first, and *)
(* that may be any later entry.                                            *)
(***************************************************************************)
RegionsAsTold ==
    /\ Len(regions) = chain_length \/ ~ Room(RegionSize)
    /\ \A i \in DOMAIN regions :
        \E j \in {i} \cup (IF i = 1 THEN Len(regions) + 1 .. chain_length ELSE {}) :
            LET ent == load.mmap[j]
            IN  /\ regions[i].start = ent.addr /\ regions[i].size = ent.len
                /\ ent.type \in Known /\ ent.len >= page_size =>
                        (i \in Usable <=> ent.type = "available")
    /\ pc \notin {"load", "entries", "memid"} /\ Len(regions) = Len(load.mmap) =>
            totalSize = MapThenSumSet(LAMBDA i : load.mmap[i].len, DOMAIN load.mmap)

(***************************************************************************)
(* Memory below 2 MB is not given out: it is reserved, or its region is    *)
(* full (arch/X86_64/memory.c:148), but for a region that begins in it and *)
(* ends behind it.  Nor is the page where the boot information begins,     *)
(* where pages_reserve takes it.                                           *)
(***************************************************************************)
KernelKept ==
    \A i \in {j \in Usable : regions[j].mapped /\ (pc = "protect" => j # JustMapped)} :
        LET r    == regions[i]
            kept == (IF Crosses(r) THEN {} ELSE PagesOf(r, 0, MemLimit))
                    \cup (IF Tracked(r) THEN InfoPage(r) ELSE {})
        IN  r.mem_full \/ FreePages(r) \cap kept = {}

(***************************************************************************)
(* The maps and tables of the regions, and the page tables for them, are   *)
(* in blocks of their own of available memory, which stay out of the       *)
(* allocator they were taken from and off the boot information, whatever   *)
(* is set up later (kernel/page.c:196-222).                                *)
(***************************************************************************)
TablesKept ==
    LET taken == {<<i, k>> \in (DOMAIN regions) \X (1 .. 3) : k <= Len(regions[i].tables)}
        pages(t) == Pages(regions[t[1]].tables[t[2]])
        r == regions[alloc_region]
    IN  alloc_region # 0 /\ Tracked(r) =>
        /\ \A t, u \in taken : t # u => pages(t) \cap pages(u) = {}
        /\ \A t \in taken :
            /\ pages(t) \subseteq 0 .. r.pages - 1
            /\ pages(t) \cap (FreePages(r) \cup InfoPage(r)) = {}
===============================================================================
