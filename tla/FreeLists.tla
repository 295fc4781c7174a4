------------------------------ MODULE FreeLists ------------------------------
(***************************************************************************)
(* What kernel/page.c keeps of the free blocks of a region of NPages       *)
(* pages: the bits of its free areas and, for each order, the number of    *)
(* free blocks and the first of them.  The operators take such a map and   *)
(* return the one that a part of pages_alloc, pages_reserve or pages_free  *)
(* leaves.  Buddy makes steps of them, and Boot whole calls.               *)
(***************************************************************************)
EXTENDS FreeArea

CONSTANTS
    NPages,     \* map->pages: the pages of the region
    WORD        \* size_t counters wrap around at WORD (2^64)

Counter == 0 .. WORD - 1

(* The value of a size_t after an addition or a subtraction. *)
Wrap(x) == IF x < 0 THEN x + WORD ELSE IF x >= WORD THEN x - WORD ELSE x

-----------------------------------------------------------------------------
(* Operations on the map.  They take a map and return the one they leave. *)

IsFree(m, order, offset) ==
    LET l == Loc(NPages, order, offset) IN l[2] \in m.free_area[l[1]]

Map(area, count, next) ==
    [free_area |-> area, pages_free |-> count, next_free_page |-> next]

block_set(m, order, offset) ==
    LET l == Loc(NPages, order, offset)
    IN  Map([m.free_area EXCEPT ![l[1]] = @ \ {l[2]}], m.pages_free, m.next_free_page)

block_clear(m, order, offset) ==
    LET l == Loc(NPages, order, offset)
    IN  Map([m.free_area EXCEPT ![l[1]] = @ \cup {l[2]}], m.pages_free, m.next_free_page)

set_next(m, order, i) ==
    Map(m.free_area, m.pages_free, [m.next_free_page EXCEPT ![order] = i])

count_add(m, order, n) ==
    Map(m.free_area, [m.pages_free EXCEPT ![order] = Wrap(@ + n)], m.next_free_page)

(* The free blocks of an order from a given one on. *)
FreeFrom(m, order, start) ==
    {i \in start .. free_area_length(NPages, order) - 1 : i \in m.free_area[order]}

(* next_free_page[order] = find_next_free_page(order, start); when there is *)
(* none, the order's counter becomes 0 as well.                             *)
find_next_free_page(m, order, start) ==
    LET found == FreeFrom(m, order, start)
    IN  IF found = {}
          THEN Map(m.free_area, [m.pages_free EXCEPT ![order] = 0],
                   [m.next_free_page EXCEPT ![order] = 0])
          ELSE set_next(m, order, Min(found))

(* Mutant of take_next: the list's first block stays the one just taken. *)
TakeNextStale(m, order) ==
    count_add(IF m.pages_free[order] = 1 THEN set_next(m, order, 0) ELSE m, order, -1)

(* Take the first free block of an order off its list. *)
take_next(m, order) ==
    LET n == IF m.pages_free[order] = 1
               THEN set_next(m, order, 0)
               ELSE find_next_free_page(m, order, m.next_free_page[order] + 1)
    IN  count_add(n, order, -1)

(* The bits of a block that is split: it is taken, its halves are free. *)
halve(m, order, offset) ==
    block_clear(block_clear(block_set(m, order, offset),
                            order - 1, 2 * offset), order - 1, 2 * offset + 1)

(* Mutant of split_next: the first half is not the lower order's first block. *)
SplitNextSecond(m, order) ==
    LET i     == m.next_free_page[order]
        lower == count_add(set_next(halve(m, order, i), order - 1, 2 * i + 1), order - 1, 2)
    IN  take_next(lower, order)

(* One level of block_split: the first free block becomes two. *)
split_next(m, order) ==
    LET i     == m.next_free_page[order]
        first == IF m.next_free_page[order - 1] > 2 * i \/ m.pages_free[order - 1] = 0
                   THEN 2 * i ELSE m.next_free_page[order - 1]
        lower == count_add(set_next(halve(m, order, i), order - 1, first), order - 1, 2)
    IN  take_next(lower, order)

(***************************************************************************)
(* One level of zblock_split: a given free block becomes two.  The new     *)
(* first block of the lower order is compared with, and taken from, the    *)
(* first free block of the order, whichever block is split.                *)
(***************************************************************************)
zsplit_at(m, order, offset) ==
    LET twice == 2 * m.next_free_page[order]
        first == IF m.next_free_page[order - 1] > twice
                   THEN twice ELSE m.next_free_page[order - 1]
        lower == count_add(set_next(halve(m, order, offset), order - 1, first),
                           order - 1, 2)
        rest  == IF m.pages_free[order] = 1
                   THEN set_next(lower, order, 0)
                   ELSE IF offset = m.next_free_page[order]
                          THEN find_next_free_page(lower, order, offset + 1)
                          ELSE lower
    IN  count_add(rest, order, -1)

(* Mutant of merge_at: the halves stay free beside the whole. *)
MergeKeepsHalves(m, order, offset) ==
    LET up    == offset \div 2
        moved == count_add(count_add(block_clear(m, order + 1, up), order, -2), order + 1, 1)
    IN  set_next(moved, order + 1, up)

(* Mutant of merge_at: the lower order's first block is not looked for. *)
MergeKeepsNext(m, order, offset) ==
    LET up    == offset \div 2
        even  == 2 * up
        whole == block_clear(block_set(block_set(m, order, even), order, even + 1),
                             order + 1, up)
        moved == count_add(count_add(whole, order, -2), order + 1, 1)
    IN  IF moved.next_free_page[order + 1] > up \/ moved.pages_free[order + 1] = 1
          THEN set_next(moved, order + 1, up) ELSE moved

(* One level of block_merge: a free block and its buddy become one. *)
merge_at(m, order, offset) ==
    LET up    == offset \div 2
        even  == 2 * up
        whole == block_clear(block_set(block_set(m, order, even), order, even + 1),
                             order + 1, up)
        moved == count_add(count_add(whole, order, -2), order + 1, 1)
        rest  == IF moved.next_free_page[order] \in {even, even + 1}
                   THEN find_next_free_page(moved, order, even + 2) ELSE moved
    IN  IF rest.next_free_page[order + 1] > up \/ rest.pages_free[order + 1] = 1
          THEN set_next(rest, order + 1, up) ELSE rest

BuddyOf(offset) == IF offset % 2 = 1 THEN offset - 1 ELSE offset + 1

(* Mutant of reserve_at: the block keeps its free bit. *)
ReserveKeepsBit(m, order, offset) ==
    LET n == count_add(m, order, -1)
    IN  IF n.next_free_page[order] = offset
          THEN find_next_free_page(n, order, offset + 1) ELSE n

(* Take a given free block (pages_reserve). *)
reserve_at(m, order, offset) ==
    LET n == count_add(block_set(m, order, offset), order, -1)
    IN  IF n.next_free_page[order] = offset
          THEN find_next_free_page(n, order, offset + 1) ELSE n
=============================================================================
