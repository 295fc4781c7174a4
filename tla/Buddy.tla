-------------------------------- MODULE Buddy --------------------------------
(***************************************************************************)
(* The physical page allocator of one memory region: pages_alloc,          *)
(* pages_reserve and pages_free of kernel/page.c with block_split,         *)
(* zblock_split and block_merge, called by several processors.             *)
(*                                                                         *)
(* The region's spinlock serialises the bodies of the three functions; an  *)
(* action is the part of a body that handles one block, so that another    *)
(* processor's spinning and its early returns are interleaved with them.   *)
(* The recursion of block_split, zblock_split and block_merge is a walk up *)
(* or down the orders, kept in lvl and pos.                                *)
(***************************************************************************)
EXTENDS FreeLists

CONSTANTS
    Procs,          \* the processors that call the allocator
    Garbage,        \* <<order, offset>>: bits region_map leaves as they were
    AllocOrders,    \* orders that clients ask pages_alloc for
    ReserveBlocks,  \* <<order, offset>> that clients ask pages_reserve for
    FreeOrders,     \* orders of the held blocks that clients give back
    StrayFrees      \* <<order, page>> that clients give back without holding it

ASSUME RegionAssumption ==
    /\ NPages \in Nat \ {0}
    /\ WORD \in Nat /\ WORD > NPages /\ WORD >= ORDER(MAX_ORDER)
    /\ Garbage \subseteq (0 .. MAX_ORDER) \X Nat
    /\ \A g \in Garbage : g[1] \in Orders => ~ InTable(NPages, g[1], g[2])
    /\ AllocOrders \subseteq Nat
    /\ ReserveBlocks \subseteq Orders \X Nat
    /\ FreeOrders \subseteq Orders
    /\ StrayFrees \subseteq Orders \X Nat

VARIABLES
    lock,       \* region->lock
    map,        \* *region->page_alloc_si: the bits that are 0, by free area;
                \* the free blocks of each order, and the first one of them
    pages_free, \* region->pages_free
    mem_full,   \* region->mem_full
    held,       \* blocks that clients hold (what they were told, not the map)
    pc, req,    \* where each processor is, and what it was called with
    lvl, pos,   \* the order and offset it has got to in that call
    ret         \* the block it is about to return

locals == <<pc, req, lvl, pos, ret>>
vars == <<lock, map, pages_free, mem_full, held, locals>>

Blocks  == Orders \X Nat
NoBlock == <<MAX_ORDER, 0>>    \* the address 0 of a failed allocation

Requests == [op : {"alloc", "reserve", "free"}, order : Nat, off : Nat]
NoRequest == [op |-> "alloc", order |-> 0, off |-> 0]

-----------------------------------------------------------------------------
Init ==
    /\ lock = 0
    /\ \E bits \in SUBSET Garbage :
         map = [free_area |->
                  [o \in 0 .. MAX_ORDER |->
                     (IF o \in Orders THEN init_free_area(NPages, o) ELSE {})
                     \cup {g[2] : g \in {h \in bits : h[1] = o}}],
                pages_free     |-> [o \in Orders |-> init_pages_free(NPages, o)],
                next_free_page |-> [o \in Orders |-> init_next_free_page(NPages, o)]]
    /\ pages_free = NPages
    /\ mem_full = FALSE
    /\ held = {}
    /\ pc = [p \in Procs |-> "idle"]
    /\ req = [p \in Procs |-> NoRequest]
    /\ lvl = [p \in Procs |-> 0]
    /\ pos = [p \in Procs |-> 0]
    /\ ret = [p \in Procs |-> NoBlock]

(* The steps of a processor between its calls. *)
Return(p) ==
    /\ pc' = [pc EXCEPT ![p] = "idle"]
    /\ req' = [req EXCEPT ![p] = NoRequest]
    /\ lvl' = [lvl EXCEPT ![p] = 0]
    /\ pos' = [pos EXCEPT ![p] = 0]
    /\ ret' = [ret EXCEPT ![p] = NoBlock]

Call(p, op, order, off) ==
    /\ pc[p] = "idle"
    /\ pc' = [pc EXCEPT ![p] = "call"]
    /\ req' = [req EXCEPT ![p] = [op |-> op, order |-> order, off |-> off]]
    /\ UNCHANGED <<lock, map, pages_free, mem_full, lvl, pos, ret>>

CallAlloc(p) ==
    \E o \in AllocOrders : Call(p, "alloc", o, 0) /\ UNCHANGED held

CallReserve(p) ==
    \E b \in ReserveBlocks : Call(p, "reserve", b[1], b[2]) /\ UNCHANGED held

(* pages_free is given the address of the block's first page. *)
CallFree(p) ==
    \E b \in held : /\ b[1] \in FreeOrders
                    /\ Call(p, "free", b[1], b[2] * ORDER(b[1]))
                    /\ held' = held \ {b}

CallStrayFree(p) ==
    \E b \in StrayFrees : Call(p, "free", b[1], b[2]) /\ UNCHANGED held

TooLarge(r) == r.op = "alloc" /\ r.order >= MAX_ORDER

(* pages_alloc, before it takes the lock. *)
Reject(p) ==
    /\ pc[p] = "call" /\ TooLarge(req[p])
    /\ Return(p)
    /\ UNCHANGED <<lock, map, pages_free, mem_full, held>>

(* Mutant of Lock: the lock is not tested. *)
LockUntested(p) ==
    /\ pc[p] = "call" /\ ~ TooLarge(req[p])
    /\ lock' = 1
    /\ pc' = [pc EXCEPT ![p] = req[p].op]
    /\ lvl' = [lvl EXCEPT ![p] = req[p].order]
    /\ pos' = [pos EXCEPT ![p] = req[p].off]
    /\ UNCHANGED <<map, pages_free, mem_full, held, req, ret>>

(* The successful compare-and-exchange of spinlock_lock. *)
Lock(p) ==
    /\ pc[p] = "call" /\ ~ TooLarge(req[p])
    /\ lock = 0
    /\ lock' = 1
    /\ pc' = [pc EXCEPT ![p] = req[p].op]
    /\ lvl' = [lvl EXCEPT ![p] = req[p].order]
    /\ pos' = [pos EXCEPT ![p] = req[p].off]
    /\ UNCHANGED <<map, pages_free, mem_full, held, req, ret>>

(* spinlock_unlock and the return to the caller. *)
Unlock(p) ==
    /\ pc[p] = "unlock"
    /\ lock' = 0
    /\ held' = IF ret[p] = NoBlock THEN held ELSE held \cup {ret[p]}
    /\ Return(p)
    /\ UNCHANGED <<map, pages_free, mem_full>>

(* Mutant of Deliver: the last page does not make the region full. *)
DeliverLate(p, block) ==
    /\ mem_full' = (mem_full \/ pages_free < ORDER(block[1]))
    /\ pages_free' = Wrap(pages_free - ORDER(block[1]))
    /\ ret' = [ret EXCEPT ![p] = block]
    /\ pc' = [pc EXCEPT ![p] = "unlock"]

(* Mutant of Deliver: one page is counted for a block of any order. *)
DeliverOnePage(p, block) ==
    /\ mem_full' = (mem_full \/ pages_free <= ORDER(block[1]))
    /\ pages_free' = Wrap(pages_free - 1)
    /\ ret' = [ret EXCEPT ![p] = block]
    /\ pc' = [pc EXCEPT ![p] = "unlock"]

(* The end of a body: pages leave the region, and a block is returned. *)
Deliver(p, block) ==
    /\ mem_full' = (mem_full \/ pages_free <= ORDER(block[1]))
    /\ pages_free' = Wrap(pages_free - ORDER(block[1]))
    /\ ret' = [ret EXCEPT ![p] = block]
    /\ pc' = [pc EXCEPT ![p] = "unlock"]

-----------------------------------------------------------------------------
(* pages_alloc *)

AllocTake(p) ==
    /\ pc[p] = "alloc" /\ lvl[p] = req[p].order
    /\ map.pages_free[lvl[p]] > 0
    /\ LET o == lvl[p]
           i == map.next_free_page[o]
       IN  /\ map' = take_next(block_set(map, o, i), o)
           /\ Deliver(p, <<o, i>>)
    /\ UNCHANGED <<lock, held, req, lvl, pos>>

(* No free block of this order: block_split the next order. *)
AllocAscend(p) ==
    /\ pc[p] = "alloc" /\ lvl[p] < MAX_ORDER - 1
    /\ map.pages_free[lvl[p]] = 0
    /\ lvl' = [lvl EXCEPT ![p] = @ + 1]
    /\ UNCHANGED <<lock, map, pages_free, mem_full, held, pc, req, pos, ret>>

(* The recursion returns one order down, where the count is now 2. *)
AllocSplit(p) ==
    /\ pc[p] = "alloc" /\ lvl[p] > req[p].order
    /\ map.pages_free[lvl[p]] > 0
    /\ map' = split_next(map, lvl[p])
    /\ lvl' = [lvl EXCEPT ![p] = @ - 1]
    /\ UNCHANGED <<lock, pages_free, mem_full, held, pc, req, pos, ret>>

(* Mutant of AllocFail: the failing return keeps the lock. *)
AllocFailLocked(p) ==
    /\ pc[p] = "alloc" /\ lvl[p] = MAX_ORDER - 1
    /\ map.pages_free[lvl[p]] = 0
    /\ mem_full' = TRUE
    /\ Return(p)
    /\ UNCHANGED <<lock, map, pages_free, held>>

(* Every order up to the top is empty: each level returns at once. *)
AllocFail(p) ==
    /\ pc[p] = "alloc" /\ lvl[p] = MAX_ORDER - 1
    /\ map.pages_free[lvl[p]] = 0
    /\ mem_full' = TRUE
    /\ pc' = [pc EXCEPT ![p] = "unlock"]
    /\ UNCHANGED <<lock, map, pages_free, held, req, lvl, pos, ret>>

-----------------------------------------------------------------------------
(* pages_reserve *)

ReserveTake(p) ==
    /\ pc[p] = "reserve"
    /\ IsFree(map, req[p].order, req[p].off)
    /\ map' = reserve_at(map, req[p].order, req[p].off)
    /\ Deliver(p, <<req[p].order, req[p].off>>)
    /\ UNCHANGED <<lock, held, req, lvl, pos>>

(* Look for the smallest free block around the one wanted. *)
ReserveSearch(p) ==
    /\ pc[p] = "reserve"
    /\ ~ IsFree(map, req[p].order, req[p].off)
    /\ LET o      == req[p].order
           Around(i) == req[p].off \div ORDER(i - o)
           found  == {i \in o + 1 .. MAX_ORDER - 1 : IsFree(map, i, Around(i))}
           start  == IF found = {} THEN o ELSE Min(found)
       IN  /\ lvl' = [lvl EXCEPT ![p] = start]
           /\ pos' = [pos EXCEPT ![p] = Around(start)]
    /\ pc' = [pc EXCEPT ![p] = "zsplit"]
    /\ UNCHANGED <<lock, map, pages_free, mem_full, held, req, ret>>

(***************************************************************************)
(* Split on the way down; the offset is doubled, so that it is always the  *)
(* left half that is split next.  The block is free here (it was found, or *)
(* cleared one step ago), so zblock_split never recurses upward.           *)
(***************************************************************************)
ReserveSplit(p) ==
    /\ pc[p] = "zsplit" /\ lvl[p] > req[p].order
    /\ map' = zsplit_at(map, lvl[p], pos[p])
    /\ lvl' = [lvl EXCEPT ![p] = @ - 1]
    /\ pos' = [pos EXCEPT ![p] = 2 * @]
    /\ UNCHANGED <<lock, pages_free, mem_full, held, pc, req, ret>>

(* The pages are counted as taken whether or not the block is now free. *)
ReserveEnd(p) ==
    /\ pc[p] = "zsplit" /\ lvl[p] = req[p].order
    /\ map' = IF IsFree(map, req[p].order, req[p].off)
                THEN reserve_at(map, req[p].order, req[p].off) ELSE map
    /\ Deliver(p, <<req[p].order, req[p].off>>)
    /\ UNCHANGED <<lock, held, req, lvl, pos>>

-----------------------------------------------------------------------------
(* pages_free: the offset is a number of pages, at every order. *)

(* The two early returns: they leave the lock taken. *)
FreeIgnore(p) ==
    /\ pc[p] = "free"
    /\ req[p].off >= NPages \/ IsFree(map, req[p].order, req[p].off)
    /\ Return(p)
    /\ UNCHANGED <<lock, map, pages_free, mem_full, held>>

FreeTake(p) ==
    /\ pc[p] = "free"
    /\ req[p].off < NPages /\ ~ IsFree(map, req[p].order, req[p].off)
    /\ mem_full' = (mem_full \/ pages_free = 0)
    /\ pages_free' = Wrap(pages_free + ORDER(req[p].order))
    /\ LET o == req[p].order
           i == req[p].off
           m == count_add(block_clear(map, o, i), o, 1)
       IN  /\ map' = IF i < m.next_free_page[o]
                       THEN set_next(m, o, i) ELSE m
           /\ pc' = [pc EXCEPT ![p] =
                       IF IsFree(m, o, BuddyOf(i)) /\ o < MAX_ORDER - 1
                         THEN "merge" ELSE "unlock"]
    /\ UNCHANGED <<lock, held, req, lvl, pos, ret>>

(* Mutant of FreeMerge: only the first pair of buddies is merged. *)
FreeMergeOnce(p) ==
    /\ pc[p] = "merge"
    /\ map' = merge_at(map, lvl[p], pos[p])
    /\ lvl' = [lvl EXCEPT ![p] = @ + 1]
    /\ pos' = [pos EXCEPT ![p] = @ \div 2]
    /\ pc' = [pc EXCEPT ![p] = "unlock"]
    /\ UNCHANGED <<lock, pages_free, mem_full, held, req, ret>>

FreeMerge(p) ==
    /\ pc[p] = "merge"
    /\ LET up == lvl[p] + 1
           i  == pos[p] \div 2
           m  == merge_at(map, lvl[p], pos[p])
       IN  /\ map' = m
           /\ lvl' = [lvl EXCEPT ![p] = up]
           /\ pos' = [pos EXCEPT ![p] = i]
           /\ pc' = [pc EXCEPT ![p] =
                       IF IsFree(m, up, BuddyOf(i)) /\ up < MAX_ORDER - 1
                         THEN "merge" ELSE "unlock"]
    /\ UNCHANGED <<lock, pages_free, mem_full, held, req, ret>>

-----------------------------------------------------------------------------
(* The allocator's own steps, by the function they belong to. *)
Enter(p)   == Reject(p) \/ Lock(p) \/ Unlock(p)
Alloc(p)   == AllocTake(p) \/ AllocAscend(p) \/ AllocSplit(p) \/ AllocFail(p)
Reserve(p) == ReserveTake(p) \/ ReserveSearch(p) \/ ReserveSplit(p) \/ ReserveEnd(p)
Free(p)    == FreeIgnore(p) \/ FreeTake(p) \/ FreeMerge(p)

(* Everything clients could do. *)
Next == \E p \in Procs :
    \/ CallAlloc(p) \/ CallReserve(p) \/ CallFree(p) \/ CallStrayFree(p)
    \/ Enter(p) \/ Alloc(p) \/ Reserve(p) \/ Free(p)

Spec == Init /\ [][Next]_vars

(* What the kernel does today: nothing in it gives pages back. *)
AllocNext == \E p \in Procs : CallAlloc(p) \/ Enter(p) \/ Alloc(p)

AllocSpec == Init /\ [][AllocNext]_vars
=============================================================================
