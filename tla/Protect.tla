------------------------------- MODULE Protect -------------------------------
(***************************************************************************)
(* How the kernel keeps its own image and the boot information out of the  *)
(* page allocator: ppage_init maps a region and calls mem_p_protect        *)
(* (arch/X86_64/memory.c), which calls pages_reserve for the part of the   *)
(* region below 2 MB and for the multiboot information, before anything    *)
(* else is allocated from the region.                                      *)
(***************************************************************************)
EXTENDS BuddyProps

CONSTANTS
    ProtectEnd,     \* 0x200000 / page_size
    Places          \* where the region may lie: [start, info] records

VARIABLE place      \* region->start / page_size, and the pages of the region
                    \* that hold the information: one or none

ASSUME ProtectAssumption ==
    /\ ProtectEnd \in Nat
    /\ \A pl \in Places : /\ pl.start \in Nat
                          /\ pl.info \subseteq 0 .. NPages - 1
                          /\ Cardinality(pl.info) <= 1

(* Mutant of log_order: rounded down. *)
LogOrderDown(n) == Max({0} \cup {o \in 0 .. MAX_ORDER : ORDER(o) <= n})

(* log_order, for the sizes where it is the least order (FreeAreaLoops). *)
log_order(n) == Min({o \in 0 .. MAX_ORDER : n <= ORDER(o)})

(* The part of the region that is below ProtectEnd, counted in the region. *)
LowPages ==
    0 .. Min({ProtectEnd - place.start, NPages}) - 1

(***************************************************************************)
(* The two requests.  For the first one the offset is the address of the   *)
(* region in pages, although pages_reserve counts blocks of the order from *)
(* the start of the region.                                                *)
(***************************************************************************)
LowRequest ==
    {r \in {<<log_order(Cardinality(LowPages)), place.start>>} : place.start < ProtectEnd}

(* Mutant of InfoRequest: the page after the information. *)
InfoRequestAfter == {0} \X {i + 1 : i \in place.info}

InfoRequest == {0} \X place.info

(* The next call of mem_p_protect; its requests are what it is "given". *)
mem_p_protect(p) ==
    /\ \A q \in Procs : pc[q] = "idle"
    /\ \E r \in IF LowRequest \subseteq held THEN InfoRequest \ held ELSE LowRequest :
         Call(p, "reserve", r[1], r[2])
    /\ UNCHANGED <<held, place>>

Protected == LowRequest \cup InfoRequest

(***************************************************************************)
(* Clients come after mem_p_protect.  They free single pages, and only     *)
(* while the list of free pages is not empty (or page 0): this is the part *)
(* of pages_free that is right.  They also free what is not in the region, *)
(* after which the lock stays taken.                                       *)
(***************************************************************************)
Clients(p) ==
    /\ Protected \subseteq held
    /\ CallAlloc(p) \/ CallFree(p) \/ CallStrayFree(p)
    /\ Protected \subseteq held'
    /\ UNCHANGED place

FreeIsTracked(r) ==
    r.op = "free" => Stray(r) \/ (r.order = 0 /\ (map.pages_free[0] > 0 \/ r.off = 0))

Bodies(p) ==
    /\ \/ Reject(p) \/ (Lock(p) /\ FreeIsTracked(req[p])) \/ Unlock(p)
       \/ Alloc(p) \/ Reserve(p) \/ Free(p)
    /\ UNCHANGED place

ProtectNext == \E p \in Procs : mem_p_protect(p) \/ Clients(p) \/ Bodies(p)

ProtectInit == Init /\ place \in Places

ProtectSpec == ProtectInit /\ [][ProtectNext]_<<vars, place>>

(***************************************************************************)
(* The use of the allocator for which its frees and reservations are right *)
(* (the findings are about the others): the table covers all free areas,   *)
(* clients give back single pages or what is behind the region, and        *)
(* mem_p_protect asks for one block at most, in a region at address 0 that *)
(* has a block large enough, or above the limit for a first page or for    *)
(* one that is a free block of its own.                                    *)
(***************************************************************************)
RightUse ==
    /\ Garbage = {} /\ FreeOrders \subseteq {0}
    /\ \A b \in StrayFrees : b[2] >= NPages
    /\ \A pl \in Places :
          \/ /\ pl.start = 0 /\ pl.info = {}
             /\ \E o \in Orders : /\ Min({ProtectEnd, NPages}) <= ORDER(o)
                                  /\ ORDER(o) <= NPages
          \/ /\ pl.start >= ProtectEnd
             /\ pl.info \subseteq {0} \cup init_free_area(NPages, 0)

(***************************************************************************)
(* No block that pages_alloc returns contains a page of the part of the    *)
(* region where the kernel is ("Region is part of 0x000000 - 0x200000",    *)
(* arch/X86_64/memory.c:148), or the page of the multiboot information,    *)
(* which the kernel reads after the allocator is set up.                   *)
(***************************************************************************)
ProtectedKept ==
    \A b \in held \cup Returning :
        b \in Protected \/ Pages(b) \cap (LowPages \cup place.info) = {}
=============================================================================
