------------------------------ MODULE FreeArea ------------------------------
(***************************************************************************)
(* The data layout of one memory region of the physical page allocator     *)
(* (kernel/page.c, include synos/mm.h).                                    *)
(*                                                                         *)
(* A region of n pages has MAX_ORDER bitmaps, the free areas: bit i of     *)
(* free area o stands for the block of 2^o pages that starts at page       *)
(* i * 2^o, and is 0 exactly when that block is free AS A BLOCK (a bit is  *)
(* 1 while the block is allocated, split into smaller ones or part of a    *)
(* larger one).  The bitmaps lie one behind the other in one table.        *)
(*                                                                         *)
(* Everything here is a closed form, so that it can be used in proofs; the *)
(* loops of the source are in FreeAreaLoops, where TLC compares the two.   *)
(***************************************************************************)
EXTENDS Integers, FiniteSetsExt

CONSTANT MAX_ORDER    \* number of block orders of a region; 10 in mm.h

ASSUME MaxOrderAssumption == MAX_ORDER \in 1 .. 10

Orders == 0 .. MAX_ORDER - 1

(* ORDER(ord) of mm.h, 1 << ord, for the orders that occur. *)
ORDER(ord) == <<1, 2, 4, 8, 16, 32, 64, 128, 256, 512, 1024>>[ord + 1]

(* Number of blocks of the order that fit into the pages. *)
free_area_length(pages, order) == pages \div ORDER(order)

(* The pages of block i of an order. *)
BlockPages(order, i) == i * ORDER(order) .. (i + 1) * ORDER(order) - 1

-----------------------------------------------------------------------------
(* The table (region_map). *)

BITS_PER_PAGE == 2

(* Bytes that are allocated for the table and set to 0xFF. *)
TableBytes(pages) == (pages * BITS_PER_PAGE + 7) \div 8

(* Bytes of the free area of an order: half of the previous one, rounded up. *)
AreaBytes(pages, order) ==
    ((pages + 7) \div 8 + ORDER(order) - 1) \div ORDER(order)

AreaStart(pages, order) ==
    MapThenSumSet(LAMBDA o : AreaBytes(pages, o), 0 .. order - 1)

(***************************************************************************)
(* block_check, block_set and block_clear compute a byte from the start of *)
(* the order's free area and never look at its length: an offset behind    *)
(* the end is a bit of a later free area, or of what lies behind the       *)
(* table.  Loc is the free area and the offset in it that is accessed;     *)
(* free area MAX_ORDER stands for the memory behind the last one.          *)
(***************************************************************************)
Loc(pages, order, offset) ==
    IF offset < 8 * AreaBytes(pages, order)
      THEN <<order, offset>>
      ELSE LET bit == 8 * AreaStart(pages, order) + offset
               o   == Max({x \in order .. MAX_ORDER : 8 * AreaStart(pages, x) <= bit})
           IN  <<o, bit - 8 * AreaStart(pages, o)>>

(* Whether a bit lies in the bytes that region_map has set to 0xFF. *)
InTable(pages, order, offset) ==
    AreaStart(pages, order) + offset \div 8 < TableBytes(pages)

-----------------------------------------------------------------------------
(***************************************************************************)
(* The initial free blocks (_free_area_map): as many blocks of the top     *)
(* order as fit, and behind them one block for each lower bit of the       *)
(* number of pages.                                                        *)
(***************************************************************************)
init_pages_free(pages, order) ==
    IF order = MAX_ORDER - 1 THEN free_area_length(pages, order)
                             ELSE free_area_length(pages, order) % 2

init_next_free_page(pages, order) ==
    IF order # MAX_ORDER - 1 /\ init_pages_free(pages, order) = 1
      THEN free_area_length(pages, order) - 1
      ELSE 0

init_free_area(pages, order) ==
    LET first == init_next_free_page(pages, order)
    IN  first .. first + init_pages_free(pages, order) - 1
=============================================================================
