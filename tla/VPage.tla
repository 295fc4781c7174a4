-------------------------------- MODULE VPage --------------------------------
(***************************************************************************)
(* Virtual pages: the allocator of kernel/page.c (vpage_map, vpages_map,   *)
(* vpages_smap, vpages_reserve, vpages_unmap) on the page tables of        *)
(* arch/X86_64/memory.c (pga_map, pga_unmap, page_table_alloc).  Tables    *)
(* are in frames of physical memory and are walked as the processor walks  *)
(* them; the kernel reaches them through the slot of the root that points  *)
(* to the root itself (get_table_address), which comes to the same.        *)
(* Abstracted: an entry is the frame it points to; its flags are left out. *)
(***************************************************************************)
EXTENDS FreeArea, FiniteSets

CONSTANTS
    T,          \* entries of a table, 512
    Levels,     \* 4
    BootPages,  \* the first pages, which boot32.asm maps to the same frames
    Start,      \* 0x100000 as a page: where the search for free pages begins
    Frames,     \* number of frames; the tables of boot32.asm are the last ones
    MapOrders,  \* orders of what callers map
    FixedPages  \* where callers of vpages_smap and vpages_reserve map

(* The pages that an entry of the root stands for. *)
RootEntryPages ==
    LET pages[n \in 0 .. Levels - 1] == IF n = 0 THEN 1 ELSE T * pages[n - 1]
    IN  pages[Levels - 1]

VPages == 0 .. (T - 1) * RootEntryPages - 1    \* without the root's own slot

Root == Frames - 1

(* An entry that is not present; as a frame, a table with no entry.        *)
NotPresent == Frames

ASSUME VPageAssumption ==
    /\ T \in Nat /\ T > 2 /\ Levels \in Nat /\ Levels > 1
    /\ BootPages = T /\ Start \in 0 .. BootPages
    /\ Frames \in Nat /\ Frames > BootPages + Levels
    /\ MapOrders \subseteq Orders
    /\ \A o \in MapOrders : ORDER(o) <= BootPages    \* the highest has 512 pages, too
    /\ FixedPages \subseteq VPages

VARIABLES
    mem,                \* the entries of every frame, were it a table
    next_free_vpage,
    next_frame,         \* alloc_page gives the frames in order
    mapped              \* <<page, order, frame>> of what callers have mapped

vars == <<mem, next_free_vpage, next_frame, mapped>>

EmptyTable == [i \in 0 .. T - 1 |-> NotPresent]

(* A page without its indices in the lowest n tables: 9 bits for each. *)
Above(v, n) ==
    LET shifted[k \in 0 .. Levels] == IF k = 0 THEN v ELSE shifted[k - 1] \div T
    IN  shifted[n]

(* The index of a page in the table of a level. *)
IndexAt(v, level) == Above(v, level - 1) % T

(* The table of a level that a page is looked up in, from the root down.   *)
TableAt(m, v, level) ==
    LET table[l \in 1 .. Levels] ==
          IF l = Levels THEN Root ELSE m[table[l + 1]][IndexAt(v, l + 1)]
    IN  table[level]

EntryAt(m, v, level) == m[TableAt(m, v, level)][IndexAt(v, level)]

page_ispresent(m, v, level) == EntryAt(m, v, level) # NotPresent

WriteEntry(m, v, level, frame) ==
    [m EXCEPT ![TableAt(m, v, level)][IndexAt(v, level)] = frame]

(* fnfp: the first page from v on that is not present. *)
fnfp(m, v) == Min({w \in VPages : w >= v /\ ~ page_ispresent(m, w, 1)})

Init ==    \* vpage_init, on the tables of boot32.asm
    /\ mem = [f \in 0 .. Frames |->
                IF f = Frames - Levels THEN [i \in 0 .. T - 1 |-> i]
                ELSE IF f \in Frames - Levels .. Root THEN [EmptyTable EXCEPT ![0] = f - 1]
                ELSE EmptyTable]
    /\ next_free_vpage = fnfp(mem, Start)
    /\ next_frame = BootPages
    /\ mapped = {}

-----------------------------------------------------------------------------
PagesFrom(v, o) == v .. v + ORDER(o) - 1

(* Mutant of page_table_alloc: the table is put into what the caller maps. *)
TableInData(s, v) ==
    LET alloc[l \in 1 .. Levels] ==
          IF l = Levels \/ page_ispresent(alloc[l + 1].m, v, l + 1)
          THEN IF l = Levels THEN s ELSE alloc[l + 1]
          ELSE [m    |-> WriteEntry(alloc[l + 1].m, v, l + 1, alloc[l + 1].next - 1),
                next |-> alloc[l + 1].next + 1]
    IN  alloc[1]

(***************************************************************************)
(* page_table_alloc for every level whose entry is missing, the highest    *)
(* first, with frames from s.next on.  Nothing clears a new table: it holds *)
(* what was in the frame.  The frames of the model are clear.              *)
(***************************************************************************)
page_table_alloc(s, v) ==
    LET alloc[l \in 1 .. Levels] ==    \* the tables down to level l
          IF l = Levels THEN s
          ELSE IF page_ispresent(alloc[l + 1].m, v, l + 1) THEN alloc[l + 1]
          ELSE [m    |-> WriteEntry(alloc[l + 1].m, v, l + 1, alloc[l + 1].next),
                next |-> alloc[l + 1].next + 1]
    IN  alloc[1]

MapPage(s, v, frame) == [s EXCEPT !.m = WriteEntry(@, v, 1, frame)]

(* pga_map: the pages of a block one after the other, tables as needed. *)
pga_map(s, v, o, f) ==
    LET step[i \in 0 .. ORDER(o)] ==
          IF i = 0 THEN s
          ELSE MapPage(page_table_alloc(step[i - 1], v + i - 1), v + i - 1, f + i - 1)
    IN  step[ORDER(o)]

(* Bound of the model: there are n frames, and some for the tables a block  *)
(* may need.                                                               *)
EnoughFrames(o, n) == next_frame + n + ORDER(o) * (Levels - 1) <= Frames - Levels

(* The blocks of pages from next_free_vpage on with none present. *)
FreeRuns(o) ==
    {v \in VPages : /\ v >= next_free_vpage
                    /\ PagesFrom(v, o) \subseteq VPages
                    /\ \A w \in PagesFrom(v, o) : ~ page_ispresent(mem, w, 1)}

(* The block of pages at v, mapped to frames the caller has from           *)
(* alloc_pages.  There are pages behind it, or fnfp would not end.         *)
MapNew(v, o) ==
    /\ EnoughFrames(o, ORDER(o))
    /\ LET s == pga_map([m |-> mem, next |-> next_frame + ORDER(o)], v, o, next_frame)
       IN  /\ \E w \in VPages : w >= v + ORDER(o) /\ ~ page_ispresent(s.m, w, 1)
           /\ mem' = s.m
           /\ next_frame' = s.next
           /\ mapped' = mapped \cup {<<v, o, next_frame>>}

(* Mutant of vpages_map: the pages of the block are not looked at. *)
MapAtNext(o) ==
    /\ PagesFrom(next_free_vpage, o) \subseteq VPages
    /\ MapNew(next_free_vpage, o)
    /\ next_free_vpage' = fnfp(mem', next_free_vpage + ORDER(o))

(* Mutant of vpages_map: the page behind the block is taken to be free. *)
MapSkips(o) ==
    /\ FreeRuns(o) # {}
    /\ LET v == Min(FreeRuns(o))
       IN  /\ MapNew(v, o)
           /\ next_free_vpage' = IF v = next_free_vpage THEN v + ORDER(o)
                                                        ELSE next_free_vpage

(***************************************************************************)
(* vpages_map; vpage_map is the case of order 0.  The search begins at     *)
(* next_free_vpage, which moves only when the block begins there.          *)
(***************************************************************************)
vpages_map(o) ==
    /\ FreeRuns(o) # {}
    /\ LET v == Min(FreeRuns(o))
       IN  /\ MapNew(v, o)
           /\ next_free_vpage' = IF v = next_free_vpage THEN fnfp(mem', v + ORDER(o))
                                                        ELSE next_free_vpage

(***************************************************************************)
(* vpages_smap and vpages_reserve map where the caller says and leave      *)
(* next_free_vpage alone.  Callers choose pages that are neither present   *)
(* nor the next free one: the allocator does not notice the latter.        *)
(***************************************************************************)
Choosable(v, o) ==
    \A w \in PagesFrom(v, o) :
        w \in VPages \ {next_free_vpage} /\ ~ page_ispresent(mem, w, 1)

vpages_smap(v, o) ==
    /\ Choosable(v, o)
    /\ MapNew(v, o)
    /\ UNCHANGED next_free_vpage

(* The pages are mapped, read-only, to the frames from 0 on. *)
vpages_reserve(v, o) ==
    /\ Choosable(v, o)
    /\ EnoughFrames(o, 0)
    /\ LET s == pga_map([m |-> mem, next |-> next_frame], v, o, 0)
       IN  mem' = s.m /\ next_frame' = s.next
    /\ mapped' = mapped \cup {<<v, o, 0>>}
    /\ UNCHANGED next_free_vpage

(* Mutant of pga_unmap: the last page of the block is left. *)
UnmapShort(m, v, o) ==
    LET step[i \in 0 .. ORDER(o)] ==
          IF i = 0 THEN m
          ELSE IF i < ORDER(o) /\ page_ispresent(step[i - 1], v + i - 1, 1)
            THEN WriteEntry(step[i - 1], v + i - 1, 1, NotPresent)
          ELSE step[i - 1]
    IN  step[ORDER(o)]

(* pga_unmap: a page that is not present is passed over. *)
pga_unmap(m, v, o) ==
    LET step[i \in 0 .. ORDER(o)] ==
          IF i = 0 THEN m
          ELSE IF page_ispresent(step[i - 1], v + i - 1, 1)
            THEN WriteEntry(step[i - 1], v + i - 1, 1, NotPresent)
          ELSE step[i - 1]
    IN  step[ORDER(o)]

(* next_free_vpage is not lowered: pages in front of it are not used again. *)
vpages_unmap ==
    /\ \E b \in mapped :
         /\ mem' = pga_unmap(mem, b[1], b[2])
         /\ mapped' = mapped \ {b}
    /\ UNCHANGED <<next_free_vpage, next_frame>>

Next ==
    \/ \E o \in MapOrders : vpages_map(o)
    \/ \E v \in FixedPages, o \in MapOrders : vpages_smap(v, o) \/ vpages_reserve(v, o)
    \/ vpages_unmap

Spec == Init /\ [][Next]_vars

-----------------------------------------------------------------------------
(***************************************************************************)
(* Every page that a caller has mapped leads to its own frame, whatever    *)
(* was mapped and unmapped since: no mapping is overwritten and no table   *)
(* on the way is lost (page.c:36-75, memory.c:105-142).                    *)
(***************************************************************************)
MappingsKept ==
    \A b \in mapped : \A w \in PagesFrom(b[1], b[2]) :
        EntryAt(mem, w, 1) = b[3] + w - b[1]

(***************************************************************************)
(* Nothing else is mapped: besides the pages of the boot tables, a page is *)
(* present exactly while a caller has it mapped, so that a page that was   *)
(* unmapped faults when it is used (memory.c:130-142).                     *)
(***************************************************************************)
OnlyMapped ==
    \A v \in VPages : page_ispresent(mem, v, 1) =>
        v < BootPages \/ \E b \in mapped : v \in PagesFrom(b[1], b[2])

(***************************************************************************)
(* next_free_vpage is free after every operation: vpage_map writes its     *)
(* entry without looking (page.c:38).                                      *)
(***************************************************************************)
NextIsFree == ~ page_ispresent(mem, next_free_vpage, 1)

(* The mappings are exactly those the callers have asked for, and the next *)
(* one has a place of its own.                                             *)
MappingsExact == MappingsKept /\ OnlyMapped /\ NextIsFree

(* The places of the tree that have a table: level, first page and frame.  *)
Tables ==
    {t \in {<<l, Above(v, l), TableAt(mem, v, l)>> : v \in VPages, l \in 1 .. Levels} :
        t[3] # NotPresent}

(***************************************************************************)
(* A frame is the table of one place of the tree only, and no frame that a *)
(* caller has mapped is a table: otherwise a caller's write would change   *)
(* mappings (memory.c:89-104).                                             *)
(***************************************************************************)
TablesApart ==
    /\ \A t, u \in Tables : t[3] = u[3] => t = u
    /\ \A b \in mapped : \A t \in Tables : t[3] - b[3] \notin 0 .. ORDER(b[2]) - 1
=============================================================================
