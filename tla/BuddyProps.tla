----------------------------- MODULE BuddyProps -----------------------------
(***************************************************************************)
(* The properties of the page allocator of a region, and fairness.         *)
(***************************************************************************)
EXTENDS Buddy

Pages(b) == BlockPages(b[1], b[2])

Disjoint(B) == \A b, c \in B : b # c => Pages(b) \cap Pages(c) = {}

(* The blocks whose bit is 0. *)
FreeBlocks == UNION {{o} \X FreeFrom(map, o, 0) : o \in Orders}

FreePages == UNION {Pages(b) : b \in FreeBlocks}

(* The blocks that pages_alloc and pages_reserve are about to return. *)
Returning == {ret[p] : p \in Procs} \ {NoBlock}

(* The block a pages_free request is about. *)
Requested(r) == <<r.order, r.off \div ORDER(r.order)>>

(* A free of something behind the region, which is no memory of it. *)
Stray(r) == r.op = "free" /\ r.off >= NPages

(* The blocks that clients have given back and pages_free has not taken. *)
GivenBack == {Requested(req[p]) :
                 p \in {q \in Procs : /\ pc[q] \in {"call", "free"}
                                      /\ req[q].op = "free" /\ ~ Stray(req[q])}}

InBody(p) == pc[p] \notin {"idle", "call"}

-----------------------------------------------------------------------------
(* A processor that is in a body keeps running; one that spins need not win. *)
Fairness == \A p \in Procs :
    WF_vars(Unlock(p) \/ Alloc(p) \/ Reserve(p) \/ Free(p))

FairAllocSpec == AllocSpec /\ Fairness

-----------------------------------------------------------------------------
(* Types: counters stay in a size_t, locals are the ones of the call. *)
MapType == [free_area      : [0 .. MAX_ORDER -> SUBSET Nat],
            pages_free     : [Orders -> Counter],
            next_free_page : [Orders -> Nat]]

TypeOK ==
    /\ lock \in {0, 1}
    /\ map \in MapType
    /\ pages_free \in Counter
    /\ mem_full \in BOOLEAN
    /\ held \subseteq Blocks
    /\ pc \in [Procs -> {"idle", "call", "alloc", "reserve", "zsplit",
                         "free", "merge", "unlock"}]
    /\ req \in [Procs -> Requests]
    /\ lvl \in [Procs -> Nat]
    /\ pos \in [Procs -> Nat]
    /\ ret \in [Procs -> Blocks \cup {NoBlock}]

(***************************************************************************)
(* At most one processor is in a body of the allocator, and the lock is    *)
(* taken while one is: the spinlock of pages_alloc, pages_reserve and      *)
(* pages_free, whatever clients ask for and whichever way a body ends.     *)
(***************************************************************************)
MutualExclusion ==
    \A p \in Procs : InBody(p) =>
        /\ lock = 1
        /\ \A q \in Procs : InBody(q) => p = q

(***************************************************************************)
(* Nobody is given a block whose pages another client holds: the block     *)
(* that is being returned is not held and overlaps nothing that is, and    *)
(* lies in the region (pages_alloc lines 471-486, mm.h:100).               *)
(***************************************************************************)
GrantsDisjoint ==
    /\ Returning \cap held = {}
    /\ Disjoint(held \cup Returning)
    /\ \A b \in held \cup Returning : Pages(b) \subseteq 0 .. NPages - 1

(***************************************************************************)
(* Every page of the region is, at every step of split, merge, alloc and   *)
(* free, in exactly one block that is free, held or on its way in or out:  *)
(* no page is lost and none is in two places.                              *)
(***************************************************************************)
Partition ==
    /\ Disjoint(FreeBlocks \cup held \cup Returning \cup GivenBack)
    /\ UNION {Pages(b) : b \in FreeBlocks \cup held \cup Returning \cup GivenBack}
         = 0 .. NPages - 1
    /\ \A B, C \in {FreeBlocks, held, Returning, GivenBack} : B = C \/ B \cap C = {}

(***************************************************************************)
(* The lists agree with the bits: an order's counter is the number of its  *)
(* zero bits and its next_free_page the first of them (block_split,        *)
(* block_merge and find_next_free_page update the three separately), and   *)
(* region->pages_free counts the pages of all free blocks.                 *)
(***************************************************************************)
ListsExact ==
    /\ pages_free = Cardinality(FreePages)
    /\ \A o \in Orders :
        /\ map.pages_free[o] = Cardinality(FreeFrom(map, o, 0))
        /\ FreeFrom(map, o, 0) # {} =>
              map.next_free_page[o] = Min(FreeFrom(map, o, 0))

(***************************************************************************)
(* Whenever nobody is in a body, no two buddies are both free: block_split *)
(* hands out one of two halves at the lowest order only, and block_merge   *)
(* goes on until the buddy is taken; otherwise memory would fragment.      *)
(***************************************************************************)
Coalesced ==
    lock = 0 =>
        \A o \in Orders \ {MAX_ORDER - 1} :
            \A i \in FreeFrom(map, o, 0) : BuddyOf(i) \notin FreeFrom(map, o, 0)

(***************************************************************************)
(* While mem_full is clear and nobody is in a body, there is a free page:  *)
(* alloc_page of the frame allocator calls page_alloc on that promise and  *)
(* does not try another region when it fails (page.c:128-133).             *)
(***************************************************************************)
NotFullHasPage ==
    lock = 0 /\ ~ mem_full => \E o \in Orders : map.pages_free[o] > 0

(* The lock is given back, however deep the body splits or merges. *)
LockReleased == lock = 1 ~> lock = 0

-----------------------------------------------------------------------------
(***************************************************************************)
(* What holds while nothing is freed: the free blocks of an order are the  *)
(* ones from next_free_page on, as many as the counter says.  This does    *)
(* not speak of the other bits, which region_map may have left set to      *)
(* anything when the table is too short for all free areas.                *)
(***************************************************************************)
Run(o) == map.next_free_page[o] .. map.next_free_page[o] + map.pages_free[o] - 1

Listed == UNION {{o} \X Run(o) : o \in Orders}

Taken == held \cup Returning

Covers(b, page) == page \div ORDER(b[1]) = b[2]

(* The blocks in a run are free and in the region. *)
RunsFree ==
    \A o \in Orders : \A i \in Run(o) :
        i \in map.free_area[o] /\ i < free_area_length(NPages, o)

(* No page is in two listed blocks, in two taken ones or in one of each. *)
ListedOnce ==
    \A page \in 0 .. NPages - 1 : \A b, c \in Listed : Covers(b, page) /\ Covers(c, page) => b = c
TakenOnce ==
    \A page \in 0 .. NPages - 1 : \A b, c \in Taken : Covers(b, page) /\ Covers(c, page) => b = c
ListedNotTaken ==
    \A page \in 0 .. NPages - 1 : \A b \in Listed, c \in Taken : ~ (Covers(b, page) /\ Covers(c, page))

TakenInside == \A b \in Taken : b \in Blocks /\ b[2] < free_area_length(NPages, b[1])

(* The walk of pages_alloc through the orders: those it has left are empty. *)
WalkOK ==
    \A p \in Procs :
        /\ pc[p] \in {"idle", "call", "alloc", "unlock"}
        /\ pc[p] # "idle" => req[p].op = "alloc"
        /\ pc[p] # "unlock" => ret[p] = NoBlock
        /\ pc[p] = "alloc" =>
              /\ req[p].order \in 0 .. lvl[p] /\ lvl[p] \in Orders
              /\ \A o \in Orders : req[p].order <= o /\ o < lvl[p] => map.pages_free[o] = 0

ReturnOnce == Returning \cap held = {}

AllocInv ==
    /\ TypeOK /\ MutualExclusion /\ WalkOK /\ RunsFree
    /\ ListedOnce /\ TakenOnce /\ ListedNotTaken /\ TakenInside /\ ReturnOnce

(* Below the top an order has one free block at most, and two for as long as *)
(* a split has just left its halves there.                                   *)
FewBelowTop ==
    \A o \in Orders \ {MAX_ORDER - 1} :
        map.pages_free[o] <= IF \E p \in Procs : pc[p] = "alloc" /\ lvl[p] = o THEN 2 ELSE 1

(* The sum over the orders, of which there are at most ten. *)
Counted(o) == IF o \in Orders THEN map.pages_free[o] ELSE 0

PagesCounted ==
    pages_free = Counted(0) + 2 * Counted(1) + 4 * Counted(2) + 8 * Counted(3)
                 + 16 * Counted(4) + 32 * Counted(5) + 64 * Counted(6)
                 + 128 * Counted(7) + 256 * Counted(8) + 512 * Counted(9)

(***************************************************************************)
(* The three counts agree while nothing is freed: region->pages_free is    *)
(* the pages of the blocks that the orders count, a region with none is    *)
(* marked full (page.c:471-486), and blocks are split one at a time, so    *)
(* that no order has two halves to spare (page.c:365-401).                 *)
(***************************************************************************)
CountInv == FewBelowTop /\ PagesCounted /\ (pages_free = 0 => mem_full)

-----------------------------------------------------------------------------
(* The promise of PageRegion, kept by the map, the lists and the lock. *)
callBar == [p \in Procs |->
    IF pc[p] = "idle" \/ Stray(req[p]) THEN [state |-> "idle"]
    ELSE IF pc[p] \in {"unlock", "merge"}
      THEN [state |-> "answered", block |-> ret[p]]
    ELSE IF req[p].op = "free"
      THEN [state |-> "free", block |-> Requested(req[p])]
    ELSE [state  |-> "ask",
          wanted |-> IF req[p].op = "reserve" THEN {<<req[p].order, req[p].off>>}
                     ELSE IF req[p].order >= MAX_ORDER THEN {}
                     ELSE {req[p].order} \X
                            (0 .. free_area_length(NPages, req[p].order) - 1)]]

Region == INSTANCE PageRegion WITH
    free <- FreePages, held <- held, call <- callBar

(***************************************************************************)
(* The allocator implements PageRegion: every body grants, refuses or      *)
(* takes back in one step of it, refusing only when no block of the order  *)
(* is free in the whole region, and splitting and merging change nothing.  *)
(***************************************************************************)
ImplementsPageRegion == Region!RSpec

(* While nothing is freed the runs are what is free, whatever the other bits. *)
ListedPages == UNION {Pages(b) : b \in Listed}

Runs == INSTANCE PageRegion WITH
    free <- ListedPages, held <- held, call <- callBar

(***************************************************************************)
(* pages_alloc implements PageRegion even where region_map has left bits   *)
(* unset: what is given out is what the lists say (page.c:440-490).        *)
(***************************************************************************)
AllocImplementsPageRegion == Runs!RSpec
=============================================================================
