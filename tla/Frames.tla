------------------------------- MODULE Frames -------------------------------
(***************************************************************************)
(* The frame allocator over the list of memory regions: alloc_page,        *)
(* alloc_pages, free_page and free_pages of kernel/page.c.  next_region    *)
(* and outOfMem are globals without a lock, so every access to them is a   *)
(* step.  The allocator of one region is taken as what PageRegion promises *)
(* (Buddy is shown to keep that), together with its mem_full flag.         *)
(***************************************************************************)
EXTENDS FreeArea, Sequences

CONSTANTS
    Procs,          \* processors, or a processor and its interrupt handlers
    Sizes,          \* pages of each region of get_regions(), in list order
    Unusable,       \* the regions findNextRegion passes over by attribute
    AllocOrders,    \* orders that clients ask alloc_pages for
    FreeOrders      \* orders of the blocks that clients give back

Regions == 1 .. Len(Sizes)
NULL    == Len(Sizes) + 1    \* region->next of the last region

ASSUME FramesAssumption ==
    /\ Sizes \in Seq(Nat)
    /\ Unusable \subseteq Regions
    /\ AllocOrders \subseteq 0 .. MAX_ORDER
    /\ FreeOrders \subseteq Orders

VARIABLES
    next_region, outOfMem,
    free,       \* the free pages of each region
    mem_full,   \* region->mem_full
    held,       \* <<region, order, block>>: what clients hold
    pc, order,  \* where each processor is, and the order it was called with
    areg,       \* its local pointer to a region: areg, start or reg
    passed      \* history: regions that a search began behind, where another was tested

vars == <<next_region, outOfMem, free, mem_full, held, pc, order, areg, passed>>

Pages(b) == BlockPages(b[2], b[3])

(* The blocks of an order that a region has free. *)
FreeBlocks(r, o) ==
    {b \in {r} \X {o} \X (0 .. free_area_length(Sizes[r], o) - 1) : Pages(b) \subseteq free[r]}

(* Mutant of Usable: the attributes are not looked at. *)
UsableAny == {r \in Regions : Sizes[r] > 0}

(* The regions that findNextRegion stops at. *)
Usable == {r \in Regions : r \notin Unusable /\ Sizes[r] > 0}

Init ==    \* as ppage_init leaves it
    /\ free = [r \in Regions |-> 0 .. Sizes[r] - 1]
    /\ mem_full = [r \in Regions |-> Sizes[r] = 0]
    /\ next_region = IF Usable = {} THEN NULL ELSE Min(Usable)
    /\ outOfMem = (Usable = {})
    /\ held = {}
    /\ pc = [p \in Procs |-> "idle"]
    /\ order = [p \in Procs |-> 0]
    /\ areg = [p \in Procs |-> NULL]
    /\ passed = {}

-----------------------------------------------------------------------------
Goto(p, l) == pc' = [pc EXCEPT ![p] = l]
Point(p, r) == areg' = [areg EXCEPT ![p] = r]

Return(p) ==
    /\ Goto(p, "idle") /\ Point(p, NULL)
    /\ order' = [order EXCEPT ![p] = 0]

(* A region is read or written through the null pointer: page 0 is mapped,  *)
(* so that the call goes on with whatever is there, and is not followed.    *)
Fault(p) == Goto(p, "fault") /\ UNCHANGED <<order, areg>>

globals == <<next_region, outOfMem>>
memory  == <<free, mem_full, held>>

(***************************************************************************)
(* pages_alloc of a region.  An order that is too large is refused at once *)
(* and changes nothing; running out of blocks marks the region full.       *)
(***************************************************************************)
Grant(r, o) ==
    /\ o < MAX_ORDER
    /\ \E b \in FreeBlocks(r, o) :
        /\ free' = [free EXCEPT ![r] = @ \ Pages(b)]
        /\ mem_full' = [mem_full EXCEPT ![r] = @ \/ Cardinality(free[r]) <= ORDER(o)]
        /\ held' = held \cup {b}

Refuse(r, o) ==
    /\ o >= MAX_ORDER \/ FreeBlocks(r, o) = {}
    /\ mem_full' = [mem_full EXCEPT ![r] = @ \/ o < MAX_ORDER]
    /\ UNCHANGED <<free, held>>

(***************************************************************************)
(* findFreeRegion, one region of the list a step: `from' is where it is    *)
(* called and `to' where its result is used.                               *)
(***************************************************************************)
findFreeRegion(p, from, to) ==
    /\ pc[p] = from
    /\ IF areg[p] = NULL
         THEN Goto(p, to) /\ outOfMem' = TRUE /\ UNCHANGED areg
       ELSE IF areg[p] \in Usable /\ ~ mem_full[areg[p]]
         THEN Goto(p, to) /\ UNCHANGED <<outOfMem, areg>>
       ELSE Point(p, areg[p] + 1) /\ UNCHANGED <<outOfMem, pc>>
    /\ UNCHANGED <<next_region, order, memory, passed>>

-----------------------------------------------------------------------------
(* alloc_page *)

CallPage(p) ==
    /\ pc[p] = "idle" /\ Goto(p, "page")
    /\ UNCHANGED <<globals, memory, order, areg, passed>>

(* if (outOfMem) return 0 *)
PageStart(p) ==
    /\ pc[p] = "page"
    /\ IF outOfMem THEN Return(p) ELSE Goto(p, "load") /\ UNCHANGED <<order, areg>>
    /\ UNCHANGED <<globals, memory, passed>>

(* if (next_region->mem_full): the pointer is loaded ... *)
PageLoad(p) ==
    /\ pc[p] = "load"
    /\ IF next_region = NULL THEN Fault(p)
       ELSE Goto(p, "test") /\ Point(p, next_region) /\ UNCHANGED order
    /\ UNCHANGED <<globals, memory, passed>>

(* Mutant of PageTest: the search starts whether or not the region is full. *)
PageTestAlways(p) ==
    /\ pc[p] = "test" /\ Goto(p, "next")
    /\ UNCHANGED <<globals, memory, order, areg, passed>>

(* ... and the region looked at. *)
PageTest(p) ==
    /\ pc[p] = "test" /\ Goto(p, IF mem_full[areg[p]] THEN "next" ELSE "take")
    /\ UNCHANGED <<globals, memory, order, areg, passed>>

(***************************************************************************)
(* findFreeRegion(next_region->next): next_region may be loaded again, and *)
(* be another region by now, that nobody has looked at.                    *)
(***************************************************************************)
PageNext(p) ==
    /\ pc[p] = "next"
    /\ \E r \in {areg[p], next_region} :
         IF r = NULL THEN Fault(p) /\ UNCHANGED passed
         ELSE /\ Goto(p, "search") /\ Point(p, r + 1) /\ UNCHANGED order
              /\ passed' = passed \cup ({r} \ {areg[p]})
    /\ UNCHANGED <<globals, memory>>

PageSearch(p) == findFreeRegion(p, "search", "store")

(* Mutant of PageStore: the region found is not stored. *)
PageStoreNot(p) ==
    /\ pc[p] = "store" /\ Goto(p, "page")
    /\ UNCHANGED <<globals, memory, order, areg, passed>>

(* next_region = findFreeRegion(...) and goto start *)
PageStore(p) ==
    /\ pc[p] = "store"
    /\ next_region' = areg[p]
    /\ Goto(p, "page")
    /\ UNCHANGED <<outOfMem, memory, order, areg, passed>>

(* page_alloc(next_region): it may be read again, or be the one tested. *)
PageTake(p) ==
    /\ pc[p] = "take"
    /\ \E r \in {areg[p], next_region} :
         \/ r = NULL /\ Fault(p) /\ UNCHANGED memory
         \/ r # NULL /\ (Grant(r, 0) \/ Refuse(r, 0)) /\ Return(p)
    /\ UNCHANGED <<globals, passed>>

-----------------------------------------------------------------------------
(* alloc_pages *)

CallPages(p) ==
    /\ pc[p] = "idle" /\ Goto(p, "pages")
    /\ \E o \in AllocOrders : order' = [order EXCEPT ![p] = o]
    /\ Point(p, next_region)
    /\ UNCHANGED <<globals, memory, passed>>

(* if (outOfMem) return 0, before the loop *)
PagesStart(p) ==
    /\ pc[p] = "pages"
    /\ IF outOfMem THEN Return(p) ELSE Goto(p, "loop") /\ UNCHANGED <<order, areg>>
    /\ UNCHANGED <<globals, memory, passed>>

(* if (outOfMem) in the loop, with outOfMem = false; return 0; as a step of *)
(* its own: two calls may both have found it set.                           *)
PagesLoop(p) ==
    /\ pc[p] = "loop" /\ Goto(p, IF outOfMem THEN "clear" ELSE "try")
    /\ UNCHANGED <<globals, memory, order, areg, passed>>

PagesClear(p) ==
    /\ pc[p] = "clear" /\ outOfMem' = FALSE /\ Return(p)
    /\ UNCHANGED <<next_region, memory, passed>>

PagesTry(p) ==
    /\ pc[p] = "try"
    /\ \/ areg[p] = NULL /\ Fault(p) /\ UNCHANGED memory
       \/ areg[p] # NULL /\ Grant(areg[p], order[p]) /\ Return(p)
       \/ /\ areg[p] # NULL /\ Refuse(areg[p], order[p])
          /\ Goto(p, "walk") /\ Point(p, areg[p] + 1) /\ UNCHANGED order
    /\ UNCHANGED <<globals, passed>>

PagesWalk(p) == findFreeRegion(p, "walk", "loop")

-----------------------------------------------------------------------------
(* free_page and free_pages *)

CallFree(p) ==
    /\ pc[p] = "idle"
    /\ \E b \in held :
         /\ b[2] \in FreeOrders
         /\ held' = held \ {b}
         /\ free' = [free EXCEPT ![b[1]] = @ \cup Pages(b)]
         /\ mem_full' = [mem_full EXCEPT ![b[1]] = @ \/ free[b[1]] = {}]
         /\ Point(p, b[1])
    /\ Goto(p, "freed")
    /\ UNCHANGED <<globals, order, passed>>

(* if (reg->start < next_region->start), and next_region = reg after it *)
FreeTest(p) ==
    /\ pc[p] = "freed"
    /\ IF next_region = NULL THEN Fault(p)
       ELSE Goto(p, IF areg[p] < next_region THEN "move" ELSE "moved") /\ UNCHANGED <<order, areg>>
    /\ UNCHANGED <<globals, memory, passed>>

FreeMove(p) ==
    /\ pc[p] = "move" /\ Goto(p, "moved")
    /\ next_region' = areg[p]
    /\ UNCHANGED <<outOfMem, memory, order, areg, passed>>

FreeEnd(p) ==
    /\ pc[p] = "moved"
    /\ outOfMem' = FALSE
    /\ Return(p)
    /\ UNCHANGED <<next_region, memory, passed>>

-----------------------------------------------------------------------------
AllocPage(p) ==
    \/ PageStart(p) \/ PageLoad(p) \/ PageTest(p) \/ PageNext(p)
    \/ PageSearch(p) \/ PageStore(p) \/ PageTake(p)

AllocPages(p) ==
    PagesStart(p) \/ PagesLoop(p) \/ PagesClear(p) \/ PagesTry(p) \/ PagesWalk(p)

Free(p) == FreeTest(p) \/ FreeMove(p) \/ FreeEnd(p)

Step(p) == AllocPage(p) \/ AllocPages(p) \/ Free(p)

Next == \E p \in Procs : CallPage(p) \/ CallPages(p) \/ CallFree(p) \/ Step(p)

Spec == Init /\ [][Next]_vars

(* Every processor that is in a call goes on with it. *)
FairSpec == Spec /\ \A p \in Procs : WF_vars(Step(p))

-----------------------------------------------------------------------------
TypeOK ==
    /\ next_region \in Regions \cup {NULL}
    /\ outOfMem \in BOOLEAN
    /\ free \in [Regions -> SUBSET Nat]
    /\ mem_full \in [Regions -> BOOLEAN]
    /\ held \subseteq Regions \X Orders \X Nat
    /\ pc \in [Procs -> {"idle", "page", "load", "test", "next", "search", "store", "take",
                         "pages", "loop", "clear", "try", "walk",
                         "freed", "move", "moved", "fault"}]
    /\ order \in [Procs -> 0 .. MAX_ORDER]
    /\ areg \in [Procs -> Regions \cup {NULL}]
    /\ passed \subseteq Regions

(***************************************************************************)
(* A region with room is left behind in one way only: alloc_page looks at  *)
(* next_region, and by the time it loads it again to search behind it, it  *)
(* is another one (page.c:128-129).  Whatever else is in front of          *)
(* next_region, of a search or of a result about to be stored is full,     *)
(* although processors store results of searches, and regions they have    *)
(* compared, that are old by then.                                         *)
(***************************************************************************)
Behind(a) == {r \in Usable : r < a /\ ~ mem_full[r]}

NoRegionSkipped ==
    /\ Behind(next_region) \subseteq passed
    /\ \A p \in Procs : pc[p] \in {"search", "store", "move"} => Behind(areg[p]) \subseteq passed

(***************************************************************************)
(* Memory that the boot loader reports as reserved, bad or in use is never *)
(* given out, by either function (findNextRegion, page.c:86-98).           *)
(***************************************************************************)
OnlyUsable == \A b \in held : b[1] \notin Unusable


(***************************************************************************)
(* Once nothing more is given back, every call returns, unless it has      *)
(* faulted: the goto loops end, although other processors fill regions and *)
(* move next_region while one is searching.  (While another processor goes *)
(* on freeing, each free can send a search of alloc_page back.)            *)
(***************************************************************************)
FreesEnd == <>[][\A p \in Procs : ~ CallFree(p)]_vars

CallsReturn ==
    FreesEnd => \A p \in Procs : pc[p] # "idle" ~> pc[p] \in {"idle", "fault"}
=============================================================================
