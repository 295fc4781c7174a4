--------------------------- MODULE FreeAreaLoops ---------------------------
(***************************************************************************)
(* The loops of kernel/page.c behind the closed forms of FreeArea, and     *)
(* log_order, which turns a number of pages into the order that is asked   *)
(* for.  The statements at the end are about regions, or requests, of any  *)
(* number n of pages; Boot states them of the regions it sets up.          *)
(***************************************************************************)
EXTENDS FreeArea

-----------------------------------------------------------------------------
(***************************************************************************)
(* log_order: from the top bit down, the first bit set is the order and a  *)
(* second one rounds it up.  `order' doubles as the flag for "no bit seen  *)
(* yet", by the value MAX_ORDER + 1.                                       *)
(***************************************************************************)
WordBits == 16    \* width of size_t that is walked; 64 in the code

(* Mutant of log_order_from: a second bit does not round the order up. *)
RECURSIVE LogOrderFloor(_, _, _)
LogOrderFloor(n, i, order) ==
    LET next == IF order = MAX_ORDER + 1 /\ (n \div 2^i) % 2 = 1 THEN i ELSE order
    IN  IF i = 0 THEN next ELSE LogOrderFloor(n, i - 1, next)

RECURSIVE log_order_from(_, _, _)
log_order_from(n, i, order) ==
    LET set  == (n \div 2^i) % 2 = 1
        seen == order # MAX_ORDER + 1
    IN  IF set /\ seen THEN order + 1
        ELSE LET next == IF set THEN i ELSE order
             IN  IF i = 0 THEN next ELSE log_order_from(n, i - 1, next)

log_order(n) ==
    LET order == log_order_from(n, WordBits - 1, MAX_ORDER + 1)
    IN  IF order = MAX_ORDER + 1 THEN 0 ELSE order

-----------------------------------------------------------------------------
(* order_max: the largest order that divides the number of pages. *)
RECURSIVE order_max_from(_, _)
order_max_from(n, order) ==
    IF order = MAX_ORDER THEN MAX_ORDER - 1
    ELSE IF n % 2 = 1 THEN order ELSE order_max_from(n \div 2, order + 1)

order_max(n) == order_max_from(n, 0)

RECURSIVE halved(_, _)
halved(n, order) == IF order = 0 THEN n ELSE halved(n \div 2, order - 1)

(***************************************************************************)
(* _free_area_map: take the smallest block off the end of the region until *)
(* a multiple of the top order, or the last block, is left.                *)
(***************************************************************************)
EmptyMap == [count |-> [o \in Orders |-> 0],
             next  |-> [o \in Orders |-> 0],
             clear |-> [o \in Orders |-> {}]]

FirstBlocks(map, p, order) ==
    LET n == halved(p, order)
    IN  [map EXCEPT !.count[order] = n,
                    !.clear[order] = @ \cup (0 .. n - 1)]

(* Mutant of TailBlock: the block behind the last one. *)
TailBlockBehind(map, p, order) ==
    LET last == halved(p, order)
    IN  [map EXCEPT !.count[order] = @ + 1,
                    !.next[order]  = last,
                    !.clear[order] = @ \cup {last}]

(* Mutant of TailBlock: the index is the one before the block's. *)
TailBlockNext(map, p, order) ==
    LET last == halved(p, order) - 1
    IN  [map EXCEPT !.count[order] = @ + 1,
                    !.next[order]  = last - 1,
                    !.clear[order] = @ \cup {last}]

(* Mutant of TailBlock: the block is not counted. *)
TailBlockUncounted(map, p, order) ==
    LET last == halved(p, order) - 1
    IN  [map EXCEPT !.next[order]  = last,
                    !.clear[order] = @ \cup {last}]

TailBlock(map, p, order) ==
    LET last == halved(p, order) - 1
    IN  [map EXCEPT !.count[order] = @ + 1,
                    !.next[order]  = last,
                    !.clear[order] = @ \cup {last}]

RECURSIVE free_area_map_from(_, _, _)
free_area_map_from(n, p, map) ==
    LET order == order_max(p)
    IN  IF order = MAX_ORDER - 1 \/ halved(n, order + 1) = 0
          THEN FirstBlocks(map, p, order)
          ELSE free_area_map_from(n, p - 2^order, TailBlock(map, p, order))

free_area_map(n) == free_area_map_from(n, n, EmptyMap)

(* Mutant of area_layout: sizes are halved and rounded down. *)
RECURSIVE AreaLayoutDown(_, _)
AreaLayoutDown(n, order) ==
    IF order = 0 THEN [pos |-> 0, size |-> (n + 7) \div 8]
    ELSE LET last == AreaLayoutDown(n, order - 1)
         IN  [pos |-> last.pos + last.size, size |-> last.size \div 2]

(* region_map: where the free area of each order starts, and its size. *)
RECURSIVE area_layout(_, _)
area_layout(n, order) ==
    IF order = 0 THEN [pos |-> 0, size |-> (n + 7) \div 8]
    ELSE LET last == area_layout(n, order - 1)
         IN  [pos |-> last.pos + last.size, size |-> (last.size + 1) \div 2]

-----------------------------------------------------------------------------
(***************************************************************************)
(* The initial map of a region of any size gives every page to exactly one *)
(* free block (no page lost at the end, none in two blocks), and counts    *)
(* each order's blocks right: the code is _free_area_map's goto loop.      *)
(***************************************************************************)
InitialMapPartitions(n) ==
    LET map    == free_area_map(n)
        blocks == UNION {{o} \X map.clear[o] : o \in Orders}
    IN  /\ UNION {BlockPages(b[1], b[2]) : b \in blocks} = 0 .. n - 1
        /\ MapThenSumSet(LAMBDA b : ORDER(b[1]), blocks) = n
        /\ \A o \in Orders : map.count[o] = Cardinality(map.clear[o])

(***************************************************************************)
(* The first free block that _free_area_map records for an order is the    *)
(* least clear bit of its free area whenever there is one: a wrong index   *)
(* would be handed out by the first pages_alloc of that order.             *)
(***************************************************************************)
InitialNextIsLeast(n) ==
    LET map == free_area_map(n)
    IN  \A o \in Orders :
            map.clear[o] # {} => map.next[o] = Min(map.clear[o])

(***************************************************************************)
(* The closed forms that the allocator's model and its proofs use are what *)
(* the loops of region_map and _free_area_map compute.                     *)
(***************************************************************************)
ClosedForms(n) ==
    LET map == free_area_map(n)
    IN  \A o \in Orders :
            /\ free_area_length(n, o) = halved(n, o)
            /\ AreaStart(n, o) = area_layout(n, o).pos
            /\ AreaBytes(n, o) = area_layout(n, o).size
            /\ init_free_area(n, o) = map.clear[o]
            /\ init_pages_free(n, o) = map.count[o]
            /\ init_next_free_page(n, o) = map.next[o]

(***************************************************************************)
(* No two free areas share a bit that stands for a block, whatever the     *)
(* region's size: each free area is long enough for its order, although    *)
(* the sizes are only halved and rounded.                                  *)
(***************************************************************************)
AreasHoldTheirBlocks(n) ==
    \A o \in Orders :
        free_area_length(n, o) <= 8 * area_layout(n, o).size

(***************************************************************************)
(* log_order gives the least order whose block holds the pages, for all    *)
(* requests up to a block of 2^MAX_ORDER pages.  (Above that the value     *)
(* MAX_ORDER + 1 is also an order.)                                        *)
(***************************************************************************)
LogOrderLeast(n) ==
    n \in 1 .. 2^MAX_ORDER =>
        LET o == log_order(n)
        IN  /\ n <= 2^o
            /\ o > 0 => 2^(o - 1) < n
=============================================================================
