----------------------------- MODULE BuddyProofs -----------------------------
(***************************************************************************)
(* Proofs about the page allocator of a region, for every number of        *)
(* processors, pages and orders, and whatever the unset bits of the table  *)
(* contain: while nothing is freed, no page is given out twice, the three  *)
(* counts of free memory agree, and the allocator is a PageRegion, that    *)
(* is, it grants what it says and refuses only what it does not have.      *)
(***************************************************************************)
EXTENDS BuddyProps, TLAPS

USE MaxOrderAssumption

(***************************************************************************)
(* Arithmetic of orders.                                                   *)
(***************************************************************************)

(* The sizes of blocks are positive numbers (ORDER, mm.h:7). *)
LEMMA OrderPositive == \A o \in 0 .. 10 : ORDER(o) \in 1 .. 1024
BY DEF ORDER

(* The block of a page, one order up, is half the number of its block. *)
LEMMA HalvePage ==
    \A o \in 0 .. 9, page \in Nat :
        page \div ORDER(o + 1) = (page \div ORDER(o)) \div 2
<1> TAKE o \in 0 .. 9, page \in Nat
<1>1. CASE o = 0  BY <1>1 DEF ORDER
<1>2. CASE o = 1  BY <1>2 DEF ORDER
<1>3. CASE o = 2  BY <1>3 DEF ORDER
<1>4. CASE o = 3  BY <1>4 DEF ORDER
<1>5. CASE o = 4  BY <1>5 DEF ORDER
<1>6. CASE o = 5  BY <1>6 DEF ORDER
<1>7. CASE o = 6  BY <1>7 DEF ORDER
<1>8. CASE o = 7  BY <1>8 DEF ORDER
<1>9. CASE o = 8  BY <1>9 DEF ORDER
<1>10. CASE o = 9  BY <1>10 DEF ORDER
<1> QED  BY <1>1, <1>2, <1>3, <1>4, <1>5, <1>6, <1>7, <1>8, <1>9, <1>10

(* The block of a page is a number. *)
LEMMA BlockOfPage ==
    \A o \in 0 .. 10, page \in Nat : page \div ORDER(o) \in Nat
<1> TAKE o \in 0 .. 10, page \in Nat
<1>1. CASE o = 0  BY <1>1 DEF ORDER
<1>2. CASE o = 1  BY <1>2 DEF ORDER
<1>3. CASE o = 2  BY <1>3 DEF ORDER
<1>4. CASE o = 3  BY <1>4 DEF ORDER
<1>5. CASE o = 4  BY <1>5 DEF ORDER
<1>6. CASE o = 5  BY <1>6 DEF ORDER
<1>7. CASE o = 6  BY <1>7 DEF ORDER
<1>8. CASE o = 7  BY <1>8 DEF ORDER
<1>9. CASE o = 8  BY <1>9 DEF ORDER
<1>10. CASE o = 9  BY <1>10 DEF ORDER
<1>11. CASE o = 10  BY <1>11 DEF ORDER
<1> QED  BY <1>1, <1>2, <1>3, <1>4, <1>5, <1>6, <1>7, <1>8, <1>9, <1>10, <1>11

(* ... and it is not larger than the page's own number. *)
LEMMA BlockNotLarger ==
    \A o \in 0 .. 10, page \in Nat : page \div ORDER(o) <= page
<1> TAKE o \in 0 .. 10, page \in Nat
<1>1. CASE o = 0  BY <1>1 DEF ORDER
<1>2. CASE o = 1  BY <1>2 DEF ORDER
<1>3. CASE o = 2  BY <1>3 DEF ORDER
<1>4. CASE o = 3  BY <1>4 DEF ORDER
<1>5. CASE o = 4  BY <1>5 DEF ORDER
<1>6. CASE o = 5  BY <1>6 DEF ORDER
<1>7. CASE o = 6  BY <1>7 DEF ORDER
<1>8. CASE o = 7  BY <1>8 DEF ORDER
<1>9. CASE o = 8  BY <1>9 DEF ORDER
<1>10. CASE o = 9  BY <1>10 DEF ORDER
<1>11. CASE o = 10  BY <1>11 DEF ORDER
<1> QED  BY <1>1, <1>2, <1>3, <1>4, <1>5, <1>6, <1>7, <1>8, <1>9, <1>10, <1>11

(* Every free area has a bit for each block of its order, so that accesses *)
(* to those stay in it (block_check, block_set, block_clear).              *)
LEMMA LocInArea ==
    ASSUME NEW n \in Nat, NEW o \in Orders, NEW i \in Nat,
           i < free_area_length(n, o)
    PROVE  Loc(n, o, i) = <<o, i>>
<1>1. i < 8 * AreaBytes(n, o)
  <2>1. CASE o = 0  BY <2>1 DEF ORDER, free_area_length, AreaBytes
  <2>2. CASE o = 1  BY <2>2 DEF ORDER, free_area_length, AreaBytes
  <2>3. CASE o = 2  BY <2>3 DEF ORDER, free_area_length, AreaBytes
  <2>4. CASE o = 3  BY <2>4 DEF ORDER, free_area_length, AreaBytes
  <2>5. CASE o = 4  BY <2>5 DEF ORDER, free_area_length, AreaBytes
  <2>6. CASE o = 5  BY <2>6 DEF ORDER, free_area_length, AreaBytes
  <2>7. CASE o = 6  BY <2>7 DEF ORDER, free_area_length, AreaBytes
  <2>8. CASE o = 7  BY <2>8 DEF ORDER, free_area_length, AreaBytes
  <2>9. CASE o = 8  BY <2>9 DEF ORDER, free_area_length, AreaBytes
  <2>10. CASE o = 9  BY <2>10 DEF ORDER, free_area_length, AreaBytes
  <2> QED  BY <2>1, <2>2, <2>3, <2>4, <2>5, <2>6, <2>7, <2>8, <2>9, <2>10 DEF Orders
<1> QED  BY <1>1 DEF Loc

(* The least element of a set of numbers, when it is known. *)
LEMMA MinIs ==
    ASSUME NEW S \in SUBSET Int, NEW x \in S, \A y \in S : x <= y
    PROVE  Min(S) = x
<1>1. \A z \in S : (\A y \in S : z <= y) => z = x
  OBVIOUS
<1> QED  BY <1>1 DEF Min

-----------------------------------------------------------------------------
(***************************************************************************)
(* What the operations on the map do to a map of the right type, as long   *)
(* as the blocks they touch are in the region.                             *)
(***************************************************************************)

(* The constants, as far as the steps need them. *)
LEMMA Constants ==
    /\ NPages \in Nat \ {0}
    /\ WORD \in Nat /\ WORD > NPages /\ WORD >= ORDER(MAX_ORDER)
    /\ AllocOrders \subseteq Nat
BY RegionAssumption

(* Counters in range are not changed by Wrap. *)
LEMMA WrapCounter ==
    /\ \A x \in Counter : Wrap(x) = x
    /\ \A x \in Counter, k \in -WORD .. WORD : Wrap(x + k) \in Counter
BY Constants DEF Wrap, Counter

(* The orders of a region have at least a word's room for two blocks. *)
LEMMA WordRoom ==
    /\ \A o \in Orders : ORDER(o) \in 1 .. WORD
    /\ \A o \in Orders : o # 0 => WORD > 2
<1>1. \A o \in 0 .. 10 : \A q \in 0 .. o : ORDER(q) <= ORDER(o)
  BY DEF ORDER
<1>2. \A o \in 2 .. 10 : ORDER(o) > 2
  BY DEF ORDER
<1>3. MAX_ORDER \in 0 .. 10 /\ ORDER(MAX_ORDER) \in 1 .. 1024
  <2>1. MAX_ORDER \in 0 .. 10
    OBVIOUS
  <2> QED  BY <2>1, OrderPositive
<1>4. ASSUME NEW o \in Orders  PROVE ORDER(o) \in 1 .. WORD
  <2>1. ORDER(o) <= ORDER(MAX_ORDER)
    BY <1>1 DEF Orders
  <2>2. o \in 0 .. 10
    BY DEF Orders
  <2>3. ORDER(o) \in 1 .. 1024
    BY <2>2, OrderPositive
  <2>4. WORD \in Nat /\ WORD >= ORDER(MAX_ORDER)
    BY Constants
  <2> DEFINE x == ORDER(o)
             y == ORDER(MAX_ORDER)
  <2>5. x \in 1 .. 1024 /\ y \in 1 .. 1024 /\ x <= y /\ WORD >= y
    BY <2>1, <2>3, <2>4, <1>3
  <2> HIDE DEF x, y
  <2>6. x \in 1 .. WORD
    BY <2>4, <2>5
  <2> QED  BY <2>6 DEF x
<1>5. ASSUME NEW o \in Orders, o # 0  PROVE WORD > 2
  <2>1. ORDER(MAX_ORDER) > 2
    BY <1>2, <1>5 DEF Orders
  <2> QED  BY <2>1, <1>3, Constants
<1> QED  BY <1>4, <1>5

(* Lengths are numbers, and the area below is twice as long. *)
LEMMA AreaLength ==
    /\ \A o \in Orders : free_area_length(NPages, o) \in 0 .. NPages
    /\ \A o \in Orders \ {0} : \A i \in Nat :
          i < free_area_length(NPages, o) =>
             2 * i + 1 < free_area_length(NPages, o - 1)
<1>1. ASSUME NEW o \in Orders
      PROVE  free_area_length(NPages, o) \in 0 .. NPages
  <2>1. o \in 0 .. 10 /\ NPages \in Nat
    BY Constants DEF Orders
  <2> DEFINE x == NPages \div ORDER(o)
  <2>2. x \in Nat
    BY <2>1, BlockOfPage
  <2>3. x <= NPages
    BY <2>1, BlockNotLarger
  <2> HIDE DEF x
  <2>4. x \in 0 .. NPages
    BY <2>1, <2>2, <2>3
  <2> QED  BY <2>4 DEF x, free_area_length
<1>2. ASSUME NEW o \in Orders \ {0}, NEW i \in Nat,
             i < free_area_length(NPages, o)
      PROVE  2 * i + 1 < free_area_length(NPages, o - 1)
  <2>1. o - 1 \in 0 .. 9 /\ o - 1 \in Orders /\ (o - 1) + 1 = o
    BY DEF Orders
  <2>2. NPages \div ORDER(o) = (NPages \div ORDER(o - 1)) \div 2
    BY <2>1, HalvePage, Constants
  <2>3. NPages \div ORDER(o - 1) \in Nat
    <3>1. o - 1 \in 0 .. 10 /\ NPages \in Nat
      BY Constants DEF Orders
    <3> QED  BY <3>1, BlockOfPage
  <2> HIDE DEF ORDER
  <2> QED  BY <1>2, <2>2, <2>3 DEF free_area_length
<1> QED  BY <1>1, <1>2

(* block_set and block_clear write the bit of the block. *)
LEMMA BlockBits ==
    ASSUME NEW m \in MapType, NEW o \in Orders, NEW i \in Nat,
           i < free_area_length(NPages, o)
    PROVE  /\ block_set(m, o, i) =
                 Map([m.free_area EXCEPT ![o] = @ \ {i}], m.pages_free, m.next_free_page)
           /\ block_clear(m, o, i) =
                 Map([m.free_area EXCEPT ![o] = @ \cup {i}], m.pages_free, m.next_free_page)
           /\ block_set(m, o, i) \in MapType /\ block_clear(m, o, i) \in MapType
<1>1. Loc(NPages, o, i) = <<o, i>>
  BY LocInArea, Constants
<1>2. m.free_area \in [0 .. MAX_ORDER -> SUBSET Nat] /\ o \in 0 .. MAX_ORDER
  BY DEF MapType, Orders
<1> QED  BY <1>1, <1>2 DEF block_set, block_clear, Map, MapType

(* take_next moves to the next block when that one is free and there is    *)
(* more than one (pages_alloc lines 476-480, block_split lines 381-385).   *)
LEMMA TakeNext ==
    ASSUME NEW m \in MapType, NEW o \in Orders,
           m.pages_free[o] # 0,
           m.pages_free[o] # 1 =>
              /\ m.next_free_page[o] + 1 \in m.free_area[o]
              /\ m.next_free_page[o] + 1 < free_area_length(NPages, o)
    PROVE  take_next(m, o) =
              Map(m.free_area,
                  [m.pages_free EXCEPT ![o] = @ - 1],
                  [m.next_free_page EXCEPT ![o] =
                      IF m.pages_free[o] = 1 THEN 0 ELSE @ + 1])
<1> DEFINE i == m.next_free_page[o]
           c == m.pages_free[o]
<1>1. i \in Nat /\ c \in Counter /\ c > 0 /\ c - 1 \in Counter
  BY Constants DEF MapType, Counter
<1>2. Wrap(c + -1) = c - 1
  BY <1>1, WrapCounter DEF Counter
<1>3. CASE c = 1
  BY <1>2, <1>3 DEF take_next, set_next, count_add, Map, MapType
<1>4. CASE c # 1
  <2>1. Min(FreeFrom(m, o, i + 1)) = i + 1 /\ FreeFrom(m, o, i + 1) # {}
    <3>1. i + 1 \in FreeFrom(m, o, i + 1)
      BY <1>1, <1>4, AreaLength DEF FreeFrom
    <3>2. FreeFrom(m, o, i + 1) \in SUBSET Int /\ \A y \in FreeFrom(m, o, i + 1) : i + 1 <= y
      BY <1>1, AreaLength DEF FreeFrom
    <3> QED  BY <3>1, <3>2, MinIs
  <2>2. take_next(m, o) = count_add(set_next(m, o, i + 1), o, -1)
    BY <1>4, <2>1 DEF take_next, find_next_free_page
  <2> QED  BY <2>2, <1>2, <1>4 DEF set_next, count_add, Map, MapType
<1> QED  BY <1>3, <1>4

(* One level of block_split, when the order below is empty (page.c:371-388). *)
LEMMA SplitNext ==
    ASSUME NEW m \in MapType, NEW o \in Orders, o # 0,
           m.pages_free[o] # 0, m.pages_free[o - 1] = 0,
           m.next_free_page[o] < free_area_length(NPages, o),
           m.pages_free[o] # 1 =>
              /\ m.next_free_page[o] + 1 \in m.free_area[o]
              /\ m.next_free_page[o] + 1 < free_area_length(NPages, o)
    PROVE  LET i == m.next_free_page[o]
           IN  split_next(m, o) =
                 Map([m.free_area EXCEPT ![o] = @ \ {i},
                                         ![o - 1] = @ \cup {2 * i, 2 * i + 1}],
                     [m.pages_free EXCEPT ![o] = @ - 1, ![o - 1] = 2],
                     [m.next_free_page EXCEPT
                         ![o] = IF m.pages_free[o] = 1 THEN 0 ELSE @ + 1,
                         ![o - 1] = 2 * i])
<1> DEFINE i == m.next_free_page[o]
           h == halve(m, o, i)
           l == count_add(set_next(h, o - 1, 2 * i), o - 1, 2)
<1>1. o - 1 \in Orders /\ i \in Nat /\ 2 * i \in Nat /\ 2 * i + 1 \in Nat
  BY SMTT(60) DEF Orders, MapType
<1>2. /\ 2 * i + 1 < free_area_length(NPages, o - 1)
      /\ 2 * i < free_area_length(NPages, o - 1)
  BY <1>1, AreaLength
<1>3. h = Map([m.free_area EXCEPT ![o] = @ \ {i},
                                  ![o - 1] = @ \cup {2 * i, 2 * i + 1}],
              m.pages_free, m.next_free_page)
  <2> DEFINE a == block_set(m, o, i)
             b == block_clear(a, o - 1, 2 * i)
             c == block_clear(b, o - 1, 2 * i + 1)
  <2>1. a \in MapType /\ a = Map([m.free_area EXCEPT ![o] = @ \ {i}],
                                 m.pages_free, m.next_free_page)
    BY <1>1, BlockBits
  <2>2. b \in MapType /\ b = Map([a.free_area EXCEPT ![o - 1] = @ \cup {2 * i}],
                                 a.pages_free, a.next_free_page)
    <3> HIDE DEF a
    <3> QED  BY <1>1, <1>2, <2>1, BlockBits
  <2>3. c = Map([b.free_area EXCEPT ![o - 1] = @ \cup {2 * i + 1}],
                b.pages_free, b.next_free_page)
    <3> HIDE DEF b
    <3> QED  BY <1>1, <1>2, <2>2, BlockBits
  <2>4. h = c
    BY DEF halve
  <2> HIDE DEF a, b, c, h
  <2>5. m.free_area \in [0 .. MAX_ORDER -> SUBSET Nat] /\ o \in 0 .. MAX_ORDER
        /\ o - 1 \in 0 .. MAX_ORDER /\ o # o - 1
    BY <1>1 DEF MapType, Orders
  <2> QED  BY <2>1, <2>2, <2>3, <2>4, <2>5 DEF Map
<1>4. Wrap(0 + 2) = 2
  BY WordRoom, Constants DEF Wrap
<1> HIDE DEF h
<1>5. l = Map([m.free_area EXCEPT ![o] = @ \ {i},
                                  ![o - 1] = @ \cup {2 * i, 2 * i + 1}],
              [m.pages_free EXCEPT ![o - 1] = 2],
              [m.next_free_page EXCEPT ![o - 1] = 2 * i])
  BY <1>1, <1>3, <1>4 DEF set_next, count_add, Map, MapType
<1>6. split_next(m, o) = take_next(l, o)
  BY DEF split_next, h
<1> HIDE DEF l
<1>7. /\ l.free_area = [m.free_area EXCEPT ![o] = @ \ {i},
                                          ![o - 1] = @ \cup {2 * i, 2 * i + 1}]
      /\ l.pages_free = [m.pages_free EXCEPT ![o - 1] = 2]
      /\ l.next_free_page = [m.next_free_page EXCEPT ![o - 1] = 2 * i]
      /\ l \in MapType
  <2>1. 2 \in Counter
    BY WordRoom, Constants DEF Counter
  <2> QED  BY <1>1, <1>5, <2>1 DEF Map, MapType, Orders
<1>8. /\ l.pages_free[o] = m.pages_free[o]
      /\ l.next_free_page[o] = i
      /\ i + 1 \in m.free_area[o] => i + 1 \in l.free_area[o]
  <2>1. /\ m.free_area \in [0 .. MAX_ORDER -> SUBSET Nat]
        /\ m.pages_free \in [Orders -> Counter]
        /\ m.next_free_page \in [Orders -> Nat]
        /\ o \in 0 .. MAX_ORDER /\ o # o - 1
    BY DEF MapType, Orders
  <2> QED  BY <1>1, <1>7, <2>1, SMTT(60)
<1>9. take_next(l, o) =
              Map(l.free_area,
                  [l.pages_free EXCEPT ![o] = @ - 1],
                  [l.next_free_page EXCEPT ![o] =
                      IF l.pages_free[o] = 1 THEN 0 ELSE @ + 1])
  BY <1>7, <1>8, TakeNext
<1>10. [l.pages_free EXCEPT ![o] = @ - 1]
          = [m.pages_free EXCEPT ![o] = @ - 1, ![o - 1] = 2]
  BY <1>1, <1>7 DEF MapType, Orders
<1>11. [l.next_free_page EXCEPT ![o] = IF l.pages_free[o] = 1 THEN 0 ELSE @ + 1]
          = [m.next_free_page EXCEPT
                         ![o] = IF m.pages_free[o] = 1 THEN 0 ELSE @ + 1,
                         ![o - 1] = 2 * i]
  BY <1>1, <1>7, <1>8 DEF MapType, Orders
<1> QED  BY <1>6, <1>7, <1>9, <1>10, <1>11

-----------------------------------------------------------------------------
(***************************************************************************)
(* Mutual exclusion needs nothing but the lock, so it holds for all clients *)
(* that Spec allows, those that make pages_free return early included.     *)
(***************************************************************************)
PcInv == DOMAIN pc = Procs /\ MutualExclusion

LEMMA PcInvInit == Init => PcInv
<1> SUFFICES ASSUME Init  PROVE PcInv
  OBVIOUS
<1>1. pc = [p \in Procs |-> "idle"]
  BY DEF Init
<1> QED  BY <1>1 DEF PcInv, MutualExclusion, InBody

(* A call is made outside the bodies. *)
LEMMA PcInvCall ==
    ASSUME PcInv, NEW p \in Procs, NEW op, NEW o, NEW i, Call(p, op, o, i)
    PROVE  PcInv'
<1>1. pc' = [pc EXCEPT ![p] = "call"] /\ lock' = lock
  BY DEF Call
<1> QED  BY <1>1 DEF PcInv, MutualExclusion, InBody

(* The lock is taken when it is free, and given back by the one in a body. *)
LEMMA PcInvOwn ==
    ASSUME PcInv, NEW p \in Procs, Enter(p) \/ Alloc(p) \/ Reserve(p) \/ Free(p)
    PROVE  PcInv'
<1> USE DEF PcInv, MutualExclusion, InBody
<1>2. ASSUME Reject(p)  PROVE PcInv'
  BY <1>2 DEF Reject, Return
<1>3. ASSUME Lock(p)  PROVE PcInv'
  <2>1. \A q \in Procs : pc[q] \in {"idle", "call"}
    BY <1>3 DEF Lock
  <2> QED  BY <1>3, <2>1 DEF Lock
<1>4. ASSUME Unlock(p)  PROVE PcInv'
  <2>1. \A q \in Procs : q # p => pc[q] \in {"idle", "call"}
    BY <1>4 DEF Unlock
  <2> QED  BY <1>4, <2>1 DEF Unlock, Return
<1>5. ASSUME Alloc(p) \/ Reserve(p) \/ Free(p)
      PROVE  PcInv'
  <2>1. /\ pc[p] \notin {"idle", "call"} /\ lock' = lock
        /\ \/ pc' = pc
           \/ \E v \in {"idle", "zsplit", "merge", "unlock"} : pc' = [pc EXCEPT ![p] = v]
    <3>1. CASE Alloc(p)
      <4>1. CASE AllocTake(p)  BY <4>1 DEF AllocTake, Deliver
      <4>2. CASE AllocAscend(p)  BY <4>2 DEF AllocAscend
      <4>3. CASE AllocSplit(p)  BY <4>3 DEF AllocSplit
      <4>4. CASE AllocFail(p)  BY <4>4 DEF AllocFail
      <4> QED  BY <3>1, <4>1, <4>2, <4>3, <4>4 DEF Alloc
    <3>2. CASE Reserve(p)
      <4>1. CASE ReserveTake(p)  BY <4>1 DEF ReserveTake, Deliver
      <4>2. CASE ReserveSearch(p)  BY <4>2 DEF ReserveSearch
      <4>3. CASE ReserveSplit(p)  BY <4>3 DEF ReserveSplit
      <4>4. CASE ReserveEnd(p)  BY <4>4 DEF ReserveEnd, Deliver
      <4> QED  BY <3>2, <4>1, <4>2, <4>3, <4>4 DEF Reserve
    <3>3. CASE Free(p)
      BY <3>3 DEF Free, FreeIgnore, FreeTake, FreeMerge, Return
    <3> QED  BY <1>5, <3>1, <3>2, <3>3
  <2> QED  BY <2>1
<1> QED  BY <1>2, <1>3, <1>4, <1>5 DEF Enter

LEMMA PcInvStep == PcInv /\ [Next]_vars => PcInv'
<1> SUFFICES ASSUME PcInv, [Next]_vars  PROVE PcInv'
  OBVIOUS
<1>1. ASSUME NEW p \in Procs,
             CallAlloc(p) \/ CallReserve(p) \/ CallFree(p) \/ CallStrayFree(p)
      PROVE  PcInv'
  <2>1. \E op, o, i : Call(p, op, o, i)
    BY <1>1 DEF CallAlloc, CallReserve, CallFree, CallStrayFree
  <2> QED  BY <2>1, PcInvCall
<1>2. CASE UNCHANGED vars
  BY <1>2 DEF vars, locals, PcInv, MutualExclusion, InBody
<1> QED  BY <1>1, <1>2, PcInvOwn DEF Next

(***************************************************************************)
(* At most one processor is in a body of the allocator, whatever clients   *)
(* do: the loop of spinlock_lock and the unlocks of page.c are enough.     *)
(***************************************************************************)
THEOREM MutexAlways == Spec => []MutualExclusion
<1>1. PcInv => MutualExclusion
  BY DEF PcInv
<1> QED  BY <1>1, PcInvInit, PcInvStep, PTL DEF Spec

-----------------------------------------------------------------------------
(***************************************************************************)
(* The initial map: the blocks that _free_area_map lists overlap nowhere.  *)
(***************************************************************************)

(* A page behind the last whole block of an order is behind that of every  *)
(* larger order.                                                           *)
LEMMA BehindBlocks ==
    ASSUME NEW n \in Nat, NEW page \in Nat, NEW a \in 0 .. 9, NEW b \in 0 .. 9,
           a <= b, free_area_length(n, a) <= page \div ORDER(a)
    PROVE  free_area_length(n, b) <= page \div ORDER(b)
<1> DEFINE P(k) == free_area_length(n, k) <= page \div ORDER(k)
<1>1. ASSUME NEW k \in 0 .. 8, P(k)
      PROVE  P(k + 1)
  <2> DEFINE x == n \div ORDER(k)
             y == page \div ORDER(k)
             u == n \div ORDER(k + 1)
             v == page \div ORDER(k + 1)
  <2>1. k \in 0 .. 9 /\ k \in 0 .. 10
    OBVIOUS
  <2>2. u = x \div 2 /\ v = y \div 2
    BY <2>1, HalvePage
  <2>3. x \in Nat /\ y \in Nat /\ x <= y
    BY <1>1, <2>1, BlockOfPage DEF free_area_length
  <2> HIDE DEF x, y, u, v
  <2>4. u <= v
    BY <2>2, <2>3
  <2> QED  BY <2>4 DEF u, v, free_area_length
<1> HIDE DEF P
<1>2. \A k \in 0 .. 8 : P(k) => P(k + 1)
  BY <1>1
<1>3. /\ (P(0) => P(1)) /\ (P(1) => P(2)) /\ (P(2) => P(3))
      /\ (P(3) => P(4)) /\ (P(4) => P(5)) /\ (P(5) => P(6))
      /\ (P(6) => P(7)) /\ (P(7) => P(8)) /\ (P(8) => P(9))
  <2>1. /\ (P(0) => P(0 + 1)) /\ (P(1) => P(1 + 1)) /\ (P(2) => P(2 + 1))
        /\ (P(3) => P(3 + 1)) /\ (P(4) => P(4 + 1)) /\ (P(5) => P(5 + 1))
        /\ (P(6) => P(6 + 1)) /\ (P(7) => P(7 + 1)) /\ (P(8) => P(8 + 1))
    BY <1>2
  <2> QED  BY <2>1
<1>4. P(b)
  <2>1. P(a)
    BY DEF P
  <2> QED  BY <1>3, <2>1
<1> QED  BY <1>4 DEF P

(* The blocks of an order that are listed at first lie in the region, and  *)
(* the one below the top is the last block of its order, of an odd number. *)
LEMMA InitialRun ==
    ASSUME NEW o \in Orders, NEW i \in init_free_area(NPages, o)
    PROVE  /\ i \in Nat
           /\ i < free_area_length(NPages, o)
           /\ o # MAX_ORDER - 1 =>
                 /\ i = free_area_length(NPages, o) - 1
                 /\ free_area_length(NPages, o) % 2 = 1
<1> DEFINE n == free_area_length(NPages, o)
<1>1. n \in Nat
  BY AreaLength
<1>2. /\ init_pages_free(NPages, o) = IF o = MAX_ORDER - 1 THEN n ELSE n % 2
      /\ init_next_free_page(NPages, o) =
            IF o # MAX_ORDER - 1 /\ init_pages_free(NPages, o) = 1 THEN n - 1 ELSE 0
  BY DEF init_pages_free, init_next_free_page
<1>3. i \in init_next_free_page(NPages, o) ..
              init_next_free_page(NPages, o) + init_pages_free(NPages, o) - 1
  BY DEF init_free_area
<1> HIDE DEF n
<1>4. CASE o = MAX_ORDER - 1
  BY <1>1, <1>2, <1>3, <1>4 DEF n
<1>5. CASE o # MAX_ORDER - 1 /\ n % 2 = 1
  BY <1>1, <1>2, <1>3, <1>5 DEF n
<1>6. CASE o # MAX_ORDER - 1 /\ n % 2 # 1
  BY <1>1, <1>2, <1>3, <1>6
<1> QED  BY <1>4, <1>5, <1>6

(* No page is in an initial block of two orders. *)
LEMMA InitialOrdersDiffer ==
    ASSUME NEW a \in Orders, NEW b \in Orders, a < b, NEW page \in Nat,
           page \div ORDER(a) \in init_free_area(NPages, a),
           page \div ORDER(b) \in init_free_area(NPages, b)
    PROVE  FALSE
<1> DEFINE x == page \div ORDER(a)
           n == NPages \div ORDER(a)
           u == page \div ORDER(a + 1)
           v == NPages \div ORDER(a + 1)
<1>1. a \in 0 .. 9 /\ a + 1 \in 0 .. 9 /\ b \in 0 .. 9 /\ a + 1 <= b /\ a # MAX_ORDER - 1
  BY DEF Orders
<1>2. x = n - 1 /\ n % 2 = 1
  BY <1>1, InitialRun DEF free_area_length
<1>3. u = x \div 2 /\ v = n \div 2
  BY <1>1, HalvePage, Constants
<1>4. n \in Nat
  BY AreaLength DEF free_area_length
<1> HIDE DEF x, n, u, v
<1>5. v <= u
  BY <1>2, <1>3, <1>4
<1>6. free_area_length(NPages, a + 1) <= page \div ORDER(a + 1)
  BY <1>5 DEF u, v, free_area_length
<1>7. free_area_length(NPages, b) <= page \div ORDER(b)
  BY <1>1, <1>6, BehindBlocks, Constants
<1>8. /\ page \div ORDER(b) < free_area_length(NPages, b)
      /\ free_area_length(NPages, b) \in Nat
      /\ page \div ORDER(b) \in Nat
  BY InitialRun, AreaLength
<1> QED  BY <1>7, <1>8

-----------------------------------------------------------------------------
(***************************************************************************)
(* The invariant of allocation, AllocInv: it holds at first.               *)
(***************************************************************************)
LEMMA InitialTypes == Init => TypeOK
<1> SUFFICES ASSUME Init  PROVE TypeOK
  OBVIOUS
<1>1. map.free_area \in [0 .. MAX_ORDER -> SUBSET Nat]
  <2>1. PICK bits \in SUBSET Garbage :
           map.free_area = [o \in 0 .. MAX_ORDER |->
                     (IF o \in Orders THEN init_free_area(NPages, o) ELSE {})
                     \cup {g[2] : g \in {h \in bits : h[1] = o}}]
    BY DEF Init
  <2>2. ASSUME NEW o \in 0 .. MAX_ORDER
        PROVE  (IF o \in Orders THEN init_free_area(NPages, o) ELSE {})
                 \cup {g[2] : g \in {h \in bits : h[1] = o}} \in SUBSET Nat
    <3>1. o \in Orders => init_free_area(NPages, o) \subseteq Nat
      BY InitialRun
    <3>2. Garbage \subseteq (0 .. MAX_ORDER) \X Nat
      BY RegionAssumption
    <3>3. \A g \in bits : g[2] \in Nat
      BY <3>2
    <3> QED  BY <3>1, <3>3
  <2> QED  BY <2>1, <2>2
<1>2. map.pages_free \in [Orders -> Counter]
  <2>1. map.pages_free = [o \in Orders |-> init_pages_free(NPages, o)]
    BY DEF Init
  <2>2. ASSUME NEW o \in Orders  PROVE init_pages_free(NPages, o) \in Counter
    BY AreaLength, Constants DEF init_pages_free, Counter
  <2> QED  BY <2>1, <2>2
<1>3. map.next_free_page \in [Orders -> Nat]
  <2>1. map.next_free_page = [o \in Orders |-> init_next_free_page(NPages, o)]
    BY DEF Init
  <2>2. ASSUME NEW o \in Orders  PROVE init_next_free_page(NPages, o) \in Nat
    BY AreaLength, Constants DEF init_next_free_page, init_pages_free
  <2> QED  BY <2>1, <2>2
<1>4. map \in MapType
  <2>1. map = [free_area |-> map.free_area, pages_free |-> map.pages_free,
               next_free_page |-> map.next_free_page]
    BY DEF Init
  <2> QED  BY <1>1, <1>2, <1>3, <2>1 DEF MapType
<1>5. pages_free \in Counter
  BY Constants DEF Init, Counter
<1>6. lock \in {0, 1} /\ mem_full \in BOOLEAN /\ held \subseteq Blocks
  BY DEF Init
<1>7. req \in [Procs -> Requests]
  BY DEF Init, NoRequest, Requests
<1>8. /\ pc \in [Procs -> {"idle", "call", "alloc", "reserve", "zsplit",
                         "free", "merge", "unlock"}]
      /\ lvl \in [Procs -> Nat]
      /\ pos \in [Procs -> Nat]
      /\ ret \in [Procs -> Blocks \cup {NoBlock}]
  BY DEF Init
<1> QED  BY <1>4, <1>5, <1>6, <1>7, <1>8 DEF TypeOK

LEMMA AllocInvInit == Init => AllocInv
<1> SUFFICES ASSUME Init  PROVE AllocInv
  OBVIOUS
<1>1. TypeOK /\ MutualExclusion
  BY InitialTypes, PcInvInit DEF PcInv
<1>2. WalkOK
  BY DEF Init, WalkOK
<1>3. Returning = {} /\ Taken = {}
  BY DEF Init, Returning, Taken
<1>4. ASSUME NEW o \in Orders  PROVE Run(o) = init_free_area(NPages, o)
  BY DEF Init, Run, init_free_area
<1>5. RunsFree
  <2> SUFFICES ASSUME NEW o \in Orders, NEW i \in Run(o)
               PROVE  i \in map.free_area[o] /\ i < free_area_length(NPages, o)
    BY DEF RunsFree
  <2>1. i \in init_free_area(NPages, o)
    BY <1>4
  <2>2. PICK bits \in SUBSET Garbage :
           map.free_area = [q \in 0 .. MAX_ORDER |->
                     (IF q \in Orders THEN init_free_area(NPages, q) ELSE {})
                     \cup {g[2] : g \in {h \in bits : h[1] = q}}]
    BY DEF Init
  <2>3. o \in 0 .. MAX_ORDER
    BY DEF Orders
  <2> QED  BY <2>1, <2>2, <2>3, InitialRun
<1>6. ListedOnce
  <2> SUFFICES ASSUME NEW page \in 0 .. NPages - 1, NEW b \in Listed, NEW c \in Listed,
                      Covers(b, page), Covers(c, page)
               PROVE  b = c
    BY DEF ListedOnce
  <2>1. /\ b[1] \in Orders /\ b[2] \in init_free_area(NPages, b[1]) /\ b = <<b[1], b[2]>>
        /\ c[1] \in Orders /\ c[2] \in init_free_area(NPages, c[1]) /\ c = <<c[1], c[2]>>
    BY <1>4 DEF Listed
  <2>2. page \in Nat /\ page \div ORDER(b[1]) = b[2] /\ page \div ORDER(c[1]) = c[2]
    BY Constants DEF Covers
  <2>3. ~ (b[1] < c[1]) /\ ~ (c[1] < b[1])
    BY <2>1, <2>2, InitialOrdersDiffer
  <2>4. b[1] = c[1]
    BY <2>1, <2>3 DEF Orders
  <2> QED  BY <2>1, <2>2, <2>4
<1> QED  BY <1>1, <1>2, <1>3, <1>5, <1>6
         DEF AllocInv, TakenOnce, ListedNotTaken, TakenInside, ReturnOnce

-----------------------------------------------------------------------------
(***************************************************************************)
(* AllocInv is kept by every step of pages_alloc.                          *)
(***************************************************************************)

(* Every block in the region has a page in it: its first one. *)
LEMMA BlockHasPage ==
    ASSUME NEW o \in Orders, NEW i \in Nat, i < free_area_length(NPages, o)
    PROVE  \E page \in 0 .. NPages - 1 : page \div ORDER(o) = i
<1>1. o \in 0 .. 9 /\ NPages \in Nat
  BY Constants DEF Orders
<1>2. \A n \in Nat : i < n \div ORDER(o) =>
        /\ i * ORDER(o) \in 0 .. n - 1
        /\ (i * ORDER(o)) \div ORDER(o) = i
  <2>1. CASE o = 0  BY <2>1 DEF ORDER
  <2>2. CASE o = 1  BY <2>2 DEF ORDER
  <2>3. CASE o = 2  BY <2>3 DEF ORDER
  <2>4. CASE o = 3  BY <2>4 DEF ORDER
  <2>5. CASE o = 4  BY <2>5 DEF ORDER
  <2>6. CASE o = 5  BY <2>6 DEF ORDER
  <2>7. CASE o = 6  BY <2>7 DEF ORDER
  <2>8. CASE o = 7  BY <2>8 DEF ORDER
  <2>9. CASE o = 8  BY <2>9 DEF ORDER
  <2>10. CASE o = 9  BY <2>10 DEF ORDER
  <2> QED  BY <1>1, <2>1, <2>2, <2>3, <2>4, <2>5, <2>6, <2>7, <2>8, <2>9, <2>10
<1>3. i * ORDER(o) \in 0 .. NPages - 1 /\ (i * ORDER(o)) \div ORDER(o) = i
  BY <1>1, <1>2 DEF free_area_length
<1> QED  BY <1>3

(* A page in a half of a block is in the block. *)
LEMMA HalfInBlock ==
    ASSUME NEW o \in Orders, o # 0, NEW i \in Nat, NEW page \in Nat,
           page \div ORDER(o - 1) \in {2 * i, 2 * i + 1}
    PROVE  page \div ORDER(o) = i
<1>1. o - 1 \in 0 .. 9 /\ (o - 1) + 1 = o
  BY DEF Orders
<1> DEFINE x == page \div ORDER(o - 1)
<1>2. page \div ORDER(o) = x \div 2
  BY <1>1, HalvePage
<1>3. x \in {2 * i, 2 * i + 1}
  OBVIOUS
<1> HIDE DEF x
<1> QED  BY <1>2, <1>3

(* The lists of listed and taken blocks, as they depend on the state. *)
BlocksInv ==
    /\ RunsFree /\ ListedOnce /\ TakenOnce /\ ListedNotTaken
    /\ TakenInside /\ ReturnOnce

(* Steps that change neither the map nor the blocks that are taken. *)
LEMMA SameBlocks ==
    ASSUME BlocksInv, UNCHANGED <<map, held, ret>>
    PROVE  BlocksInv'
<1>1. /\ \A o \in Orders : Run(o)' = Run(o)
      /\ Listed' = Listed /\ Returning' = Returning /\ Taken' = Taken
  BY DEF Run, Listed, Returning, Taken
<1>2. RunsFree'
  BY <1>1 DEF BlocksInv, RunsFree
<1>3. ListedOnce' /\ TakenOnce' /\ ListedNotTaken' /\ TakenInside' /\ ReturnOnce'
  BY <1>1 DEF BlocksInv, ListedOnce, TakenOnce, ListedNotTaken, TakenInside, ReturnOnce
<1> QED  BY <1>2, <1>3 DEF BlocksInv

(* The first block of a list that is not empty. *)
LEMMA FirstOfRun ==
    ASSUME AllocInv, NEW o \in Orders, map.pages_free[o] # 0
    PROVE  LET i == map.next_free_page[o]
               c == map.pages_free[o]
           IN  /\ i \in Nat /\ c \in Counter /\ c \in Nat \ {0}
               /\ i \in map.free_area[o] /\ i < free_area_length(NPages, o)
               /\ c # 1 => /\ i + 1 \in map.free_area[o]
                           /\ i + 1 < free_area_length(NPages, o)
               /\ Run(o) = i .. i + c - 1
               /\ <<o, i>> \in Listed
<1> DEFINE i == map.next_free_page[o]
           c == map.pages_free[o]
<1>1. i \in Nat /\ c \in Counter /\ c \in Nat \ {0}
  BY Constants DEF AllocInv, TypeOK, MapType, Counter
<1>2. Run(o) = i .. i + c - 1
  BY DEF Run
<1>3. i \in Run(o) /\ (c # 1 => i + 1 \in Run(o))
  <2> HIDE DEF i, c
  <2> QED  BY <1>1, <1>2
<1>4. <<o, i>> \in Listed
  BY <1>3 DEF Listed
<1> QED  BY <1>1, <1>2, <1>3, <1>4 DEF AllocInv, RunsFree

(* What AllocTake makes of the state (pages_alloc lines 471-486). *)
LEMMA TakeEffect ==
    ASSUME AllocInv, NEW p \in Procs, AllocTake(p)
    PROVE  LET o == lvl[p]
               i == map.next_free_page[o]
               c == map.pages_free[o]
           IN  /\ o \in Orders /\ c # 0 /\ ret[p] = NoBlock
               /\ map' = Map([map.free_area EXCEPT ![o] = @ \ {i}],
                             [map.pages_free EXCEPT ![o] = @ - 1],
                             [map.next_free_page EXCEPT ![o] = IF c = 1 THEN 0 ELSE @ + 1])
               /\ map' \in MapType
               /\ ret' = [ret EXCEPT ![p] = <<o, i>>]
               /\ held' = held
<1> DEFINE o == lvl[p]
           i == map.next_free_page[o]
           c == map.pages_free[o]
           m == block_set(map, o, i)
<1>1. o \in Orders /\ ret[p] = NoBlock /\ map \in MapType
  BY DEF AllocInv, WalkOK, TypeOK, AllocTake
<1>2. c # 0
  BY DEF AllocTake
<1>3. /\ i \in Nat /\ c \in Counter /\ c \in Nat \ {0}
      /\ i < free_area_length(NPages, o)
      /\ c # 1 => /\ i + 1 \in map.free_area[o]
                  /\ i + 1 < free_area_length(NPages, o)
  BY <1>1, <1>2, FirstOfRun
<1>4. /\ m = Map([map.free_area EXCEPT ![o] = @ \ {i}], map.pages_free, map.next_free_page)
      /\ m \in MapType
  BY <1>1, <1>3, BlockBits
<1>5. map' = take_next(m, o) /\ held' = held /\ ret' = [ret EXCEPT ![p] = <<o, i>>]
  BY DEF AllocTake, Deliver
<1> HIDE DEF m
<1>6. /\ m.free_area = [map.free_area EXCEPT ![o] = @ \ {i}]
      /\ m.pages_free = map.pages_free
      /\ m.next_free_page = map.next_free_page
  BY <1>4 DEF Map
<1>7. /\ map.free_area \in [0 .. MAX_ORDER -> SUBSET Nat] /\ o \in 0 .. MAX_ORDER
      /\ map.pages_free \in [Orders -> Counter]
      /\ map.next_free_page \in [Orders -> Nat]
  BY <1>1 DEF MapType, Orders
<1>8. c # 1 => i + 1 \in m.free_area[o]
  BY <1>3, <1>6, <1>7
<1>9. map' = Map(m.free_area,
                  [m.pages_free EXCEPT ![o] = @ - 1],
                  [m.next_free_page EXCEPT ![o] =
                      IF m.pages_free[o] = 1 THEN 0 ELSE @ + 1])
  <2>1. /\ m.pages_free[o] # 0 /\ m.pages_free[o] = c
        /\ m.next_free_page[o] = i
    BY <1>2, <1>6
  <2>2. m.pages_free[o] # 1 =>
              /\ m.next_free_page[o] + 1 \in m.free_area[o]
              /\ m.next_free_page[o] + 1 < free_area_length(NPages, o)
    BY <1>3, <1>8, <2>1
  <2> QED  BY <1>1, <1>4, <1>5, <2>1, <2>2, TakeNext
<1>10. map' = Map([map.free_area EXCEPT ![o] = @ \ {i}],
                 [map.pages_free EXCEPT ![o] = @ - 1],
                 [map.next_free_page EXCEPT ![o] = IF c = 1 THEN 0 ELSE @ + 1])
  BY <1>6, <1>9
<1>11. map' \in MapType
  <2>1. [map.free_area EXCEPT ![o] = @ \ {i}] \in [0 .. MAX_ORDER -> SUBSET Nat]
    BY <1>7
  <2>2. [map.pages_free EXCEPT ![o] = @ - 1] \in [Orders -> Counter]
    <3>1. c - 1 \in Counter
      BY <1>3, Constants DEF Counter
    <3> QED  BY <1>1, <1>7, <3>1
  <2>3. [map.next_free_page EXCEPT ![o] = IF c = 1 THEN 0 ELSE @ + 1] \in [Orders -> Nat]
    BY <1>3, <1>7
  <2> QED  BY <1>10, <2>1, <2>2, <2>3 DEF Map, MapType
<1> QED  BY <1>1, <1>2, <1>5, <1>10, <1>11

(* The first block of a list is taken: what it is, and what changes. *)
TakesFirst(p, o, i, c) ==
    /\ o = lvl[p] /\ i = map.next_free_page[o] /\ c = map.pages_free[o]
    /\ o \in Orders /\ i \in Nat /\ c \in Nat \ {0} /\ ret[p] = NoBlock
    /\ i < free_area_length(NPages, o) /\ <<o, i>> \in Listed
    /\ Run(o)' = Run(o) \ {i}
    /\ \A q \in Orders : q # o => Run(q)' = Run(q)
    /\ map'.free_area = [map.free_area EXCEPT ![o] = @ \ {i}]
    /\ map'.pages_free = [map.pages_free EXCEPT ![o] = @ - 1]
    /\ Listed' = Listed \ {<<o, i>>}
    /\ held' = held
    /\ Returning' = Returning \cup {<<o, i>>} /\ Taken' = Taken \cup {<<o, i>>}

(* ... and of the lists: the block leaves them and is about to be returned. *)
LEMMA TakeLists ==
    ASSUME AllocInv, NEW p \in Procs, AllocTake(p)
    PROVE  \E o, i, c : TakesFirst(p, o, i, c)
<1>0. PICK o, i, c : o = lvl[p] /\ i = map.next_free_page[o] /\ c = map.pages_free[o]
  OBVIOUS
<1> DEFINE b == <<o, i>>
<1>9. /\ o \in Orders /\ c # 0 /\ ret[p] = NoBlock
      /\ ret' = [ret EXCEPT ![p] = b] /\ held' = held
      /\ map' = Map([map.free_area EXCEPT ![o] = @ \ {i}],
                    [map.pages_free EXCEPT ![o] = @ - 1],
                    [map.next_free_page EXCEPT ![o] = IF c = 1 THEN 0 ELSE @ + 1])
  BY <1>0, TakeEffect
<1>1. /\ o \in Orders /\ c # 0 /\ ret[p] = NoBlock
      /\ ret' = [ret EXCEPT ![p] = b] /\ held' = held
      /\ map'.free_area = [map.free_area EXCEPT ![o] = @ \ {i}]
      /\ map'.pages_free = [map.pages_free EXCEPT ![o] = @ - 1]
      /\ map'.next_free_page = [map.next_free_page EXCEPT ![o] = IF c = 1 THEN 0 ELSE @ + 1]
  BY <1>9 DEF Map
<1>2. /\ i \in Nat /\ c \in Nat \ {0}
      /\ i < free_area_length(NPages, o)
      /\ Run(o) = i .. i + c - 1
      /\ b \in Listed
  BY <1>0, <1>1, FirstOfRun
<1>3. /\ map.free_area \in [0 .. MAX_ORDER -> SUBSET Nat]
      /\ map.pages_free \in [Orders -> Counter]
      /\ map.next_free_page \in [Orders -> Nat]
      /\ ret \in [Procs -> Blocks \cup {NoBlock}]
      /\ o \in 0 .. MAX_ORDER
  BY <1>1 DEF AllocInv, TypeOK, MapType, Orders
<1>4. Run(o)' = Run(o) \ {i}
  <2>1. Run(o)' = (IF c = 1 THEN 0 ELSE i + 1) .. (IF c = 1 THEN 0 ELSE i + 1) + (c - 1) - 1
    BY <1>0, <1>1, <1>3 DEF Run
  <2>2. CASE c = 1  BY <1>2, <2>1, <2>2
  <2>3. CASE c # 1  BY <1>2, <2>1, <2>3
  <2> QED  BY <2>2, <2>3
<1>5. \A q \in Orders : q # o => Run(q)' = Run(q) /\ map'.free_area[q] = map.free_area[q]
  BY <1>1, <1>3 DEF Run, Orders
<1>6. Listed' = Listed \ {b}
  BY <1>1, <1>4, <1>5 DEF Listed
<1>7. Returning' = Returning \cup {b} /\ Taken' = Taken \cup {b}
  <2>1. b # NoBlock
    BY <1>1 DEF NoBlock, Orders
  <2>2. Returning' = Returning \cup {b}
    BY <1>1, <1>3, <2>1 DEF Returning
  <2> QED  BY <2>2, <1>1 DEF Taken
<1>8. TakesFirst(p, o, i, c)
  BY <1>0, <1>1, <1>2, <1>4, <1>5, <1>6, <1>7 DEF TakesFirst
<1> QED  BY <1>8

(* Taking the first block of a list keeps the blocks apart. *)
LEMMA TakeBlocks ==
    ASSUME AllocInv, NEW p \in Procs, AllocTake(p)
    PROVE  BlocksInv'
<1>0. PICK o, i, c : TakesFirst(p, o, i, c)
  BY TakeLists
<1>1. /\ o \in Orders /\ i \in Nat /\ c \in Nat \ {0} /\ ret[p] = NoBlock
      /\ i < free_area_length(NPages, o) /\ <<o, i>> \in Listed
      /\ Run(o)' = Run(o) \ {i}
      /\ \A q \in Orders : q # o => Run(q)' = Run(q)
      /\ map'.free_area = [map.free_area EXCEPT ![o] = @ \ {i}]
      /\ Listed' = Listed \ {<<o, i>>}
      /\ held' = held
      /\ Returning' = Returning \cup {<<o, i>>} /\ Taken' = Taken \cup {<<o, i>>}
  BY <1>0 DEF TakesFirst
<1> DEFINE b == <<o, i>>
<1>2. map.free_area \in [0 .. MAX_ORDER -> SUBSET Nat] /\ o \in 0 .. MAX_ORDER
  BY <1>1 DEF AllocInv, TypeOK, MapType, Orders
<1>8. RunsFree'
  <2> SUFFICES ASSUME NEW q \in Orders, NEW j \in Run(q)'
               PROVE  j \in map'.free_area[q] /\ j < free_area_length(NPages, q)
    BY DEF RunsFree
  <2>1. j \in Run(q) /\ (q = o => j # i)
    BY <1>1
  <2>2. j \in map.free_area[q] /\ j < free_area_length(NPages, q)
    BY <2>1 DEF AllocInv, RunsFree
  <2> QED  BY <2>1, <2>2, <1>1, <1>2 DEF Orders
<1>9. /\ ListedOnce /\ TakenOnce /\ ListedNotTaken /\ TakenInside /\ ReturnOnce
  BY DEF AllocInv
<1>15. /\ Listed' = Listed \ {b} /\ b \in Listed
       /\ Returning' = Returning \cup {b} /\ Taken' = Taken \cup {b}
  BY <1>1
<1> HIDE DEF b
<1>10. ListedOnce'
  BY <1>1, <1>15, <1>9 DEF ListedOnce
<1>11. TakenOnce'
  BY <1>1, <1>15, <1>9 DEF TakenOnce, ListedNotTaken
<1>12. ListedNotTaken'
  BY <1>1, <1>15, <1>9 DEF ListedOnce, ListedNotTaken
<1>13. TakenInside'
  BY <1>1, <1>15, <1>9 DEF TakenInside, Blocks, b
<1>14. ReturnOnce'
  <2>1. PICK page \in 0 .. NPages - 1 : page \div ORDER(o) = i
    BY <1>1, BlockHasPage
  <2>2. Covers(b, page)
    BY <2>1 DEF Covers, b
  <2>3. b \notin held
    BY <1>1, <1>15, <1>9, <2>2 DEF ListedNotTaken, Taken
  <2> QED  BY <1>1, <1>15, <1>9, <2>3 DEF ReturnOnce
<1> QED  BY <1>8, <1>10, <1>11, <1>12, <1>13, <1>14 DEF BlocksInv

(* What AllocSplit makes of the state (block_split lines 371-388). *)
LEMMA SplitEffect ==
    ASSUME AllocInv, NEW p \in Procs, AllocSplit(p),
           NEW o, NEW i, NEW c,
           o = lvl[p], i = map.next_free_page[o], c = map.pages_free[o]
    PROVE  /\ o \in Orders /\ o # 0 /\ c # 0
           /\ map.pages_free[o - 1] = 0
           /\ map'.free_area = [map.free_area EXCEPT ![o] = @ \ {i},
                                                    ![o - 1] = @ \cup {2 * i, 2 * i + 1}]
           /\ map'.pages_free = [map.pages_free EXCEPT ![o] = @ - 1, ![o - 1] = 2]
           /\ map'.next_free_page = [map.next_free_page EXCEPT
                                       ![o] = IF c = 1 THEN 0 ELSE @ + 1,
                                       ![o - 1] = 2 * i]
           /\ map' \in MapType
<1>1. o \in Orders /\ o # 0 /\ c # 0 /\ map.pages_free[o - 1] = 0 /\ map \in MapType
  <2>1. /\ pc[p] = "alloc" /\ lvl[p] > req[p].order /\ map.pages_free[lvl[p]] > 0
    BY DEF AllocSplit
  <2>2. /\ req[p].order \in 0 .. lvl[p] /\ lvl[p] \in Orders
        /\ \A q \in Orders : req[p].order <= q /\ q < lvl[p] => map.pages_free[q] = 0
    BY <2>1 DEF AllocInv, WalkOK
  <2>3. o - 1 \in Orders /\ req[p].order <= o - 1 /\ o - 1 < lvl[p]
    BY <2>1, <2>2 DEF Orders
  <2> QED  BY <2>1, <2>2, <2>3 DEF AllocInv, TypeOK, Orders
<1>2. /\ i \in Nat /\ c \in Counter /\ c \in Nat \ {0}
      /\ i < free_area_length(NPages, o)
      /\ c # 1 => /\ i + 1 \in map.free_area[o]
                  /\ i + 1 < free_area_length(NPages, o)
  BY <1>1, FirstOfRun
<1>3. map' = Map([map.free_area EXCEPT ![o] = @ \ {i},
                                      ![o - 1] = @ \cup {2 * i, 2 * i + 1}],
                 [map.pages_free EXCEPT ![o] = @ - 1, ![o - 1] = 2],
                 [map.next_free_page EXCEPT ![o] = IF c = 1 THEN 0 ELSE @ + 1,
                                            ![o - 1] = 2 * i])
  <2>1. map' = split_next(map, o)
    BY DEF AllocSplit
  <2> QED  BY <1>1, <1>2, <2>1, SplitNext
<1>4. map' \in MapType
  <2>1. /\ map.free_area \in [0 .. MAX_ORDER -> SUBSET Nat]
        /\ map.pages_free \in [Orders -> Counter]
        /\ map.next_free_page \in [Orders -> Nat]
    BY <1>1 DEF MapType
  <2>2. [map.free_area EXCEPT ![o] = @ \ {i}, ![o - 1] = @ \cup {2 * i, 2 * i + 1}]
           \in [0 .. MAX_ORDER -> SUBSET Nat]
    <3> DEFINE h == {2 * i, 2 * i + 1}
    <3>1. h \in SUBSET Nat
      BY <1>2
    <3> HIDE DEF h
    <3>2. [map.free_area EXCEPT ![o] = @ \ {i}, ![o - 1] = @ \cup h]
             \in [0 .. MAX_ORDER -> SUBSET Nat]
      BY <2>1, <3>1
    <3> QED  BY <3>2 DEF h
  <2>3. [map.pages_free EXCEPT ![o] = @ - 1, ![o - 1] = 2] \in [Orders -> Counter]
    <3>1. c - 1 \in Counter /\ 2 \in Counter
      BY <1>1, <1>2, WordRoom, Constants DEF Counter
    <3> QED  BY <1>1, <2>1, <3>1
  <2>4. [map.next_free_page EXCEPT ![o] = IF c = 1 THEN 0 ELSE @ + 1,
                                   ![o - 1] = 2 * i] \in [Orders -> Nat]
    <3> DEFINE x == IF c = 1 THEN 0 ELSE i + 1
               y == 2 * i
    <3>1. x \in Nat /\ y \in Nat
      BY <1>2
    <3> HIDE DEF x, y
    <3>2. [map.next_free_page EXCEPT ![o] = x, ![o - 1] = y] \in [Orders -> Nat]
      BY <2>1, <3>1
    <3> QED  BY <3>2 DEF x, y
  <2> QED  BY <1>3, <2>2, <2>3, <2>4 DEF Map, MapType
<1> QED  BY <1>1, <1>3, <1>4 DEF Map

(* The first block of a list is split. *)
SplitsFirst(p, o, i, c) ==
    /\ o = lvl[p] /\ i = map.next_free_page[o] /\ c = map.pages_free[o]
    /\ o \in Orders /\ o # 0 /\ o - 1 \in Orders
    /\ i \in Nat /\ c \in Nat \ {0} /\ map.pages_free[o - 1] = 0
    /\ i < free_area_length(NPages, o) /\ <<o, i>> \in Listed
    /\ Run(o)' = Run(o) \ {i} /\ Run(o - 1)' = {2 * i, 2 * i + 1}
    /\ \A q \in Orders : q # o /\ q # o - 1 => Run(q)' = Run(q)
    /\ map'.free_area = [map.free_area EXCEPT ![o] = @ \ {i},
                                             ![o - 1] = @ \cup {2 * i, 2 * i + 1}]
    /\ map'.pages_free = [map.pages_free EXCEPT ![o] = @ - 1, ![o - 1] = 2]
    /\ Listed' = (Listed \ {<<o, i>>}) \cup ({o - 1} \X {2 * i, 2 * i + 1})
    /\ Returning' = Returning /\ Taken' = Taken /\ held' = held
    /\ \A h \in {o - 1} \X {2 * i, 2 * i + 1}, page \in 0 .. NPages - 1 :
           Covers(h, page) => Covers(<<o, i>>, page)

(* ... and of the lists: the halves take the place of the block. *)
LEMMA SplitLists ==
    ASSUME AllocInv, NEW p \in Procs, AllocSplit(p)
    PROVE  \E o, i, c : SplitsFirst(p, o, i, c)
<1>0. PICK o, i, c : o = lvl[p] /\ i = map.next_free_page[o] /\ c = map.pages_free[o]
  OBVIOUS
<1> DEFINE b == <<o, i>>
           H == {o - 1} \X {2 * i, 2 * i + 1}
<1>2. /\ o \in Orders /\ o # 0 /\ c # 0
      /\ map.pages_free[o - 1] = 0
      /\ map'.free_area = [map.free_area EXCEPT ![o] = @ \ {i},
                                               ![o - 1] = @ \cup {2 * i, 2 * i + 1}]
      /\ map'.pages_free = [map.pages_free EXCEPT ![o] = @ - 1, ![o - 1] = 2]
      /\ map'.next_free_page = [map.next_free_page EXCEPT
                                   ![o] = IF c = 1 THEN 0 ELSE @ + 1,
                                   ![o - 1] = 2 * i]
  BY <1>0, SplitEffect
<1>3. /\ i \in Nat /\ c \in Nat \ {0}
      /\ i < free_area_length(NPages, o)
      /\ Run(o) = i .. i + c - 1
      /\ b \in Listed
  BY <1>0, <1>2, FirstOfRun
<1>4. /\ map.free_area \in [0 .. MAX_ORDER -> SUBSET Nat]
      /\ map.pages_free \in [Orders -> Counter]
      /\ map.next_free_page \in [Orders -> Nat]
      /\ o \in 0 .. MAX_ORDER /\ o - 1 \in Orders /\ o - 1 \in 0 .. MAX_ORDER
      /\ o # o - 1
  BY <1>2, SMTT(60) DEF AllocInv, TypeOK, MapType, Orders
<1>5. Run(o)' = Run(o) \ {i}
  <2>1. Run(o)' = (IF c = 1 THEN 0 ELSE i + 1) .. (IF c = 1 THEN 0 ELSE i + 1) + (c - 1) - 1
    BY <1>0, <1>2, <1>4 DEF Run
  <2>2. CASE c = 1  BY <1>3, <2>1, <2>2
  <2>3. CASE c # 1  BY <1>3, <2>1, <2>3
  <2> QED  BY <2>2, <2>3
<1>6. Run(o - 1) = {} /\ Run(o - 1)' = {2 * i, 2 * i + 1}
  <2>1. Run(o - 1) = {}
    BY <1>0, <1>2, <1>4 DEF Run
  <2>2. Run(o - 1)' = 2 * i .. 2 * i + 2 - 1
    BY <1>0, <1>2, <1>4 DEF Run
  <2> QED  BY <1>3, <2>1, <2>2
<1>7. \A q \in Orders : q # o /\ q # o - 1 =>
         Run(q)' = Run(q) /\ map'.free_area[q] = map.free_area[q]
  <2> TAKE q \in Orders
  <2> HAVE q # o /\ q # o - 1
  <2>1. map'.pages_free[q] = map.pages_free[q]  BY <1>2, <1>4
  <2>2. map'.next_free_page[q] = map.next_free_page[q]  BY <1>2, <1>4
  <2>3. q \in 0 .. MAX_ORDER  BY DEF Orders
  <2>4. map'.free_area[q] = map.free_area[q]
    <3> DEFINE low == {2 * i, 2 * i + 1}
    <3>1. map'.free_area = [map.free_area EXCEPT ![o] = @ \ {i}, ![o - 1] = @ \cup low]
      BY <1>2
    <3> HIDE DEF low
    <3> QED  BY <1>4, <2>3, <3>1
  <2> QED  BY <2>1, <2>2, <2>4 DEF Run
<1>8. Listed' = (Listed \ {b}) \cup H
  BY <1>2, <1>4, <1>5, <1>6, <1>7, SMTT(60) DEF Listed
<1>9. Returning' = Returning /\ Taken' = Taken /\ held' = held
  BY DEF AllocSplit, Returning, Taken
<1>10. \A h \in H, page \in 0 .. NPages - 1 : Covers(h, page) => Covers(b, page)
  BY <1>2, <1>3, HalfInBlock, Constants DEF Covers
<1>11. SplitsFirst(p, o, i, c)
  BY <1>0, <1>2, <1>3, <1>4, <1>5, <1>6, <1>7, <1>8, <1>9, <1>10 DEF SplitsFirst
<1> QED  BY <1>11

(* Splitting the first block of a list keeps the blocks apart: its halves  *)
(* have the pages it had.                                                  *)
LEMMA SplitBlocks ==
    ASSUME AllocInv, NEW p \in Procs, AllocSplit(p)
    PROVE  BlocksInv'
<1>0. PICK o, i, c : SplitsFirst(p, o, i, c)
  BY SplitLists
<1>2. /\ o \in Orders /\ o # 0 /\ o - 1 \in Orders
      /\ i \in Nat /\ c \in Nat \ {0}
      /\ i < free_area_length(NPages, o) /\ <<o, i>> \in Listed
      /\ Run(o)' = Run(o) \ {i} /\ Run(o - 1)' = {2 * i, 2 * i + 1}
      /\ \A q \in Orders : q # o /\ q # o - 1 => Run(q)' = Run(q)
      /\ map'.free_area = [map.free_area EXCEPT ![o] = @ \ {i},
                                               ![o - 1] = @ \cup {2 * i, 2 * i + 1}]
      /\ Listed' = (Listed \ {<<o, i>>}) \cup ({o - 1} \X {2 * i, 2 * i + 1})
      /\ Returning' = Returning /\ Taken' = Taken /\ held' = held
      /\ \A h \in {o - 1} \X {2 * i, 2 * i + 1}, page \in 0 .. NPages - 1 :
             Covers(h, page) => Covers(<<o, i>>, page)
  BY <1>0 DEF SplitsFirst
<1> DEFINE b == <<o, i>>
           H == {o - 1} \X {2 * i, 2 * i + 1}
<1>3. /\ map.free_area \in [0 .. MAX_ORDER -> SUBSET Nat]
      /\ o \in 0 .. MAX_ORDER /\ o - 1 \in 0 .. MAX_ORDER /\ o # o - 1
  BY <1>2, SMTT(60) DEF AllocInv, TypeOK, MapType, Orders
<1>11. RunsFree'
  <2> SUFFICES ASSUME NEW q \in Orders, NEW j \in Run(q)'
               PROVE  j \in map'.free_area[q] /\ j < free_area_length(NPages, q)
    BY DEF RunsFree
  <2>1. CASE q = o - 1
    <3>1. j \in {2 * i, 2 * i + 1}
      BY <1>2, <2>1
    <3>2. 2 * i + 1 < free_area_length(NPages, o - 1) /\ free_area_length(NPages, o - 1) \in Nat
      BY <1>2, AreaLength
    <3>3. j < free_area_length(NPages, o - 1)
      BY <1>2, <3>1, <3>2
    <3> QED  BY <3>1, <3>3, <2>1, <1>2, <1>3
  <2>2. CASE q # o - 1
    <3>1. j \in Run(q) /\ (q = o => j # i)
      BY <1>2, <2>2
    <3>2. j \in map.free_area[q] /\ j < free_area_length(NPages, q)
      BY <3>1 DEF AllocInv, RunsFree
    <3>3. q \in 0 .. MAX_ORDER
      BY DEF Orders
    <3>4. map'.free_area[q] = IF q = o THEN map.free_area[q] \ {i} ELSE map.free_area[q]
      <4> HIDE DEF H
      <4>1. [map.free_area EXCEPT ![o] = @ \ {i},
                                  ![o - 1] = @ \cup {2 * i, 2 * i + 1}][q]
              = IF q = o THEN map.free_area[q] \ {i} ELSE map.free_area[q]
        BY <1>3, <2>2, <3>3
      <4> QED  BY <1>2, <4>1
    <3> QED  BY <3>1, <3>2, <3>4
  <2> QED  BY <2>1, <2>2
<1>12. /\ ListedOnce /\ TakenOnce /\ ListedNotTaken /\ TakenInside /\ ReturnOnce
  BY DEF AllocInv
<1>13. \A g, h \in H, page \in 0 .. NPages - 1 : Covers(g, page) /\ Covers(h, page) => g = h
  BY DEF Covers
<1>17. /\ Listed' = (Listed \ {b}) \cup H /\ b \in Listed
       /\ \A h \in H, page \in 0 .. NPages - 1 : Covers(h, page) => Covers(b, page)
  BY <1>2
<1> HIDE DEF b, H
<1>14. ListedOnce'
  BY <1>2, <1>17, <1>12, <1>13 DEF ListedOnce
<1>15. ListedNotTaken'
  BY <1>2, <1>17, <1>12 DEF ListedNotTaken
<1>16. TakenOnce' /\ TakenInside' /\ ReturnOnce'
  BY <1>2, <1>17, <1>12 DEF TakenOnce, TakenInside, ReturnOnce
<1> QED  BY <1>11, <1>14, <1>15, <1>16 DEF BlocksInv

(* Types and the walk through the orders, action by action. *)
WalkInv == TypeOK /\ WalkOK

LEMMA CallWalk ==
    ASSUME AllocInv, NEW p \in Procs, CallAlloc(p)
    PROVE  WalkInv'
<1>1. PICK o \in AllocOrders : Call(p, "alloc", o, 0) /\ UNCHANGED held
  BY DEF CallAlloc
<1>2. [op |-> "alloc", order |-> o, off |-> 0] \in Requests
  BY Constants DEF Requests
<1>3. TypeOK'
  BY <1>1, <1>2 DEF Call, AllocInv, TypeOK
<1>4. WalkOK'
  BY <1>1 DEF Call, AllocInv, TypeOK, WalkOK
<1> QED  BY <1>3, <1>4 DEF WalkInv

LEMMA EnterWalk ==
    ASSUME AllocInv, NEW p \in Procs, Enter(p)
    PROVE  WalkInv'
<1>1. CASE Reject(p) \/ Unlock(p)
  <2>1. /\ pc' = [pc EXCEPT ![p] = "idle"] /\ req' = [req EXCEPT ![p] = NoRequest]
        /\ lvl' = [lvl EXCEPT ![p] = 0] /\ pos' = [pos EXCEPT ![p] = 0]
        /\ ret' = [ret EXCEPT ![p] = NoBlock]
        /\ UNCHANGED <<map, pages_free, mem_full>>
        /\ lock' \in {0, 1}
    BY <1>1 DEF Reject, Unlock, Return, AllocInv, TypeOK
  <2>2. held' \subseteq Blocks
    <3>1. ret[p] \in Blocks \cup {NoBlock} /\ held \subseteq Blocks
      BY DEF AllocInv, TypeOK
    <3>2. held' = held \/ (ret[p] # NoBlock /\ held' = held \cup {ret[p]})
      BY <1>1 DEF Reject, Unlock
    <3> QED  BY <3>1, <3>2
  <2>3. NoRequest \in Requests
    BY DEF NoRequest, Requests
  <2>4. TypeOK'
    BY <2>1, <2>2, <2>3 DEF AllocInv, TypeOK
  <2>5. WalkOK'
    BY <2>1 DEF AllocInv, TypeOK, WalkOK
  <2> QED  BY <2>4, <2>5 DEF WalkInv
<1>2. CASE Lock(p)
  <2>1. req[p] \in Requests /\ req[p].op = "alloc" /\ ~ TooLarge(req[p])
    BY <1>2 DEF Lock, AllocInv, TypeOK, WalkOK
  <2>2. req[p].order \in Orders /\ req[p].order \in Nat /\ req[p].off \in Nat
    BY <2>1 DEF Requests, TooLarge, Orders
  <2>3. TypeOK'
    BY <1>2, <2>1, <2>2 DEF Lock, AllocInv, TypeOK
  <2>4. /\ pc' = [pc EXCEPT ![p] = "alloc"] /\ lvl' = [lvl EXCEPT ![p] = req[p].order]
        /\ UNCHANGED <<map, req, ret>> /\ pc[p] = "call"
    BY <1>2, <2>1 DEF Lock
  <2>5. req[p].order \in 0 .. req[p].order
        /\ \A o \in Orders : ~ (req[p].order <= o /\ o < req[p].order)
    BY <2>2 DEF Orders
  <2>6. WalkOK'
    <3> SUFFICES ASSUME NEW q \in Procs
                 PROVE  /\ pc'[q] \in {"idle", "call", "alloc", "unlock"}
                        /\ pc'[q] # "idle" => req'[q].op = "alloc"
                        /\ pc'[q] # "unlock" => ret'[q] = NoBlock
                        /\ pc'[q] = "alloc" =>
                              /\ req'[q].order \in 0 .. lvl'[q] /\ lvl'[q] \in Orders
                              /\ \A o \in Orders : req'[q].order <= o /\ o < lvl'[q]
                                                      => map'.pages_free[o] = 0
      BY DEF WalkOK
    <3>1. CASE q = p
      BY <2>1, <2>2, <2>4, <2>5, <3>1 DEF AllocInv, TypeOK, WalkOK
    <3>2. CASE q # p
      BY <2>4, <3>2 DEF AllocInv, TypeOK, WalkOK
    <3> QED  BY <3>1, <3>2
  <2> QED  BY <2>3, <2>6 DEF WalkInv
<1> QED  BY <1>1, <1>2 DEF Enter

LEMMA AllocWalk ==
    ASSUME AllocInv, NEW p \in Procs, Alloc(p)
    PROVE  WalkInv'
<1>1. pc[p] = "alloc"
  BY DEF Alloc, AllocTake, AllocAscend, AllocSplit, AllocFail
<1>2. \A q \in Procs : q # p => pc[q] \in {"idle", "call"}
  BY <1>1 DEF AllocInv, MutualExclusion, InBody
<1>3. /\ req[p].op = "alloc" /\ ret[p] = NoBlock
      /\ req[p].order \in 0 .. lvl[p] /\ lvl[p] \in Orders
      /\ \A o \in Orders : req[p].order <= o /\ o < lvl[p] => map.pages_free[o] = 0
  BY <1>1 DEF AllocInv, WalkOK
<1>4. CASE AllocTake(p)
  <2>1. map' \in MapType
    BY <1>4, TakeEffect
  <2>2. pages_free' \in Counter
    <3>1. ORDER(lvl[p]) \in 1 .. WORD
      BY <1>3, WordRoom
    <3>2. pages_free' = Wrap(pages_free + (- ORDER(lvl[p])))
      <4>1. pages_free' = Wrap(pages_free - ORDER(lvl[p])) /\ pages_free \in Int
        BY <1>4 DEF AllocTake, Deliver, AllocInv, TypeOK, Counter
      <4> QED  BY <3>1, <4>1
    <3>3. - ORDER(lvl[p]) \in -WORD .. WORD
      BY <3>1, Constants
    <3> QED  BY <3>2, <3>3, WrapCounter DEF AllocInv, TypeOK
  <2>3. mem_full' \in BOOLEAN
    BY <1>4 DEF AllocTake, Deliver
  <2>4. <<lvl[p], map.next_free_page[lvl[p]]>> \in Blocks
    BY <1>3 DEF AllocInv, TypeOK, MapType, Blocks
  <2>5. /\ pc' = [pc EXCEPT ![p] = "unlock"]
        /\ ret' = [ret EXCEPT ![p] = <<lvl[p], map.next_free_page[lvl[p]]>>]
        /\ UNCHANGED <<lock, held, req, lvl, pos>>
    BY <1>4 DEF AllocTake, Deliver
  <2>6. TypeOK'
    BY <2>1, <2>2, <2>3, <2>4, <2>5 DEF AllocInv, TypeOK
  <2>7. WalkOK'
    BY <1>2, <1>3, <2>5 DEF AllocInv, TypeOK, WalkOK
  <2> QED  BY <2>6, <2>7 DEF WalkInv
<1>5. CASE AllocAscend(p)
  <2>1. lvl[p] + 1 \in Orders /\ lvl[p] + 1 \in Nat /\ map.pages_free[lvl[p]] = 0
    BY <1>3, <1>5 DEF AllocAscend, Orders
  <2>2. TypeOK'
    BY <1>5, <2>1 DEF AllocAscend, AllocInv, TypeOK
  <2>3. /\ req[p].order \in 0 .. lvl[p] + 1
        /\ \A o \in Orders : req[p].order <= o /\ o < lvl[p] + 1 => map.pages_free[o] = 0
    BY <1>3, <2>1 DEF Orders
  <2>4. WalkOK'
    BY <1>2, <1>3, <1>5, <2>1, <2>3 DEF AllocAscend, AllocInv, TypeOK, WalkOK
  <2> QED  BY <2>2, <2>4 DEF WalkInv
<1>6. CASE AllocSplit(p)
  <2>1. PICK o, i, c : o = lvl[p] /\ i = map.next_free_page[o] /\ c = map.pages_free[o]
    OBVIOUS
  <2>2. /\ o \in Orders /\ o # 0 /\ map' \in MapType
        /\ map'.pages_free = [map.pages_free EXCEPT ![o] = @ - 1, ![o - 1] = 2]
    BY <1>6, <2>1, SplitEffect
  <2>3. o - 1 \in Orders /\ o - 1 \in Nat /\ req[p].order \in 0 .. o - 1
    BY <1>3, <1>6, <2>1, <2>2 DEF AllocSplit, Orders
  <2>4. TypeOK'
    BY <1>6, <2>1, <2>2, <2>3 DEF AllocSplit, AllocInv, TypeOK
  <2>5. ASSUME NEW q \in Orders, req[p].order <= q, q < o - 1
        PROVE  map'.pages_free[q] = 0
    <3>1. map.pages_free[q] = 0 /\ q # o /\ q # o - 1
      BY <1>3, <2>1, <2>2, <2>3, <2>5 DEF Orders
    <3>2. map.pages_free \in [Orders -> Counter]
      BY DEF AllocInv, TypeOK, MapType
    <3> QED  BY <2>2, <3>1, <3>2
  <2>6. WalkOK'
    BY <1>2, <1>3, <1>6, <2>1, <2>3, <2>5 DEF AllocSplit, AllocInv, TypeOK, WalkOK
  <2> QED  BY <2>4, <2>6 DEF WalkInv
<1>7. CASE AllocFail(p)
  <2>1. TypeOK'
    BY <1>7 DEF AllocFail, AllocInv, TypeOK
  <2>2. WalkOK'
    BY <1>2, <1>3, <1>7 DEF AllocFail, AllocInv, TypeOK, WalkOK
  <2> QED  BY <2>1, <2>2 DEF WalkInv
<1> QED  BY <1>4, <1>5, <1>6, <1>7 DEF Alloc

(* Unlock gives the block that is being returned to the client. *)
LEMMA UnlockBlocks ==
    ASSUME AllocInv, NEW p \in Procs, Unlock(p)
    PROVE  BlocksInv'
<1>1. \A q \in Procs : q # p => ret[q] = NoBlock
  <2>1. pc[p] = "unlock"
    BY DEF Unlock
  <2>2. \A q \in Procs : q # p => pc[q] \in {"idle", "call"}
    BY <2>1 DEF AllocInv, MutualExclusion, InBody
  <2> QED  BY <2>2 DEF AllocInv, WalkOK
<1>2. /\ map' = map /\ ret' = [ret EXCEPT ![p] = NoBlock]
      /\ held' = IF ret[p] = NoBlock THEN held ELSE held \cup {ret[p]}
  BY DEF Unlock, Return
<1>3. Returning' = {} /\ held' = Taken
  <2>1. \A q \in Procs : ret'[q] = NoBlock
    BY <1>1, <1>2 DEF AllocInv, TypeOK
  <2>2. Returning = {ret[p]} \ {NoBlock}
    BY <1>1 DEF Returning
  <2> QED  BY <1>2, <2>1, <2>2 DEF Returning, Taken
<1>4. Taken' = Taken
  BY <1>3 DEF Taken
<1>5. /\ \A o \in Orders : Run(o)' = Run(o)
      /\ Listed' = Listed
  BY <1>2 DEF Run, Listed
<1> QED  BY <1>2, <1>3, <1>4, <1>5
         DEF AllocInv, BlocksInv, RunsFree, ListedOnce, TakenOnce, ListedNotTaken,
             TakenInside, ReturnOnce

LEMMA AllocInvStep == AllocInv /\ [AllocNext]_vars => AllocInv'
<1> SUFFICES ASSUME AllocInv, [AllocNext]_vars  PROVE AllocInv'
  OBVIOUS
<1>1. MutualExclusion'
  <2>1. PcInv
    BY DEF AllocInv, TypeOK, PcInv
  <2>2. [Next]_vars
    BY DEF AllocNext, Next
  <2> QED  BY <2>1, <2>2, PcInvStep DEF PcInv
<1>2. BlocksInv
  BY DEF AllocInv, BlocksInv
<1>3. ASSUME NEW p \in Procs, CallAlloc(p)  PROVE WalkInv' /\ BlocksInv'
  <2>1. UNCHANGED <<map, held, ret>>
    BY <1>3 DEF CallAlloc, Call
  <2> QED  BY <1>2, <1>3, <2>1, SameBlocks, CallWalk
<1>4. ASSUME NEW p \in Procs, Enter(p)  PROVE WalkInv' /\ BlocksInv'
  <2>1. CASE Unlock(p)  BY <1>4, <2>1, UnlockBlocks, EnterWalk
  <2>2. CASE Reject(p) \/ Lock(p)
    <3>1. UNCHANGED <<map, held, ret>>
      BY <2>2 DEF Reject, Lock, Return, AllocInv, WalkOK, TypeOK
    <3> QED  BY <1>2, <1>4, <3>1, SameBlocks, EnterWalk
  <2> QED  BY <1>4, <2>1, <2>2 DEF Enter
<1>5. ASSUME NEW p \in Procs, Alloc(p)  PROVE WalkInv' /\ BlocksInv'
  <2>1. CASE AllocTake(p)  BY <1>5, <2>1, TakeBlocks, AllocWalk
  <2>2. CASE AllocSplit(p)  BY <1>5, <2>2, SplitBlocks, AllocWalk
  <2>3. CASE AllocAscend(p) \/ AllocFail(p)
    <3>1. UNCHANGED <<map, held, ret>>
      BY <2>3 DEF AllocAscend, AllocFail
    <3> QED  BY <1>2, <1>5, <3>1, SameBlocks, AllocWalk
  <2> QED  BY <1>5, <2>1, <2>2, <2>3 DEF Alloc
<1>6. CASE UNCHANGED vars
  <2>1. UNCHANGED <<map, held, ret>>
    BY <1>6 DEF vars, locals
  <2>2. BlocksInv'
    BY <1>2, <2>1, SameBlocks
  <2>3. WalkInv'
    BY <1>6 DEF vars, locals, AllocInv, WalkInv, TypeOK, WalkOK
  <2> QED  BY <1>1, <2>2, <2>3 DEF AllocInv, WalkInv, BlocksInv
<1>7. CASE AllocNext
  BY <1>1, <1>3, <1>4, <1>5, <1>7 DEF AllocNext, AllocInv, WalkInv, BlocksInv
<1> QED  BY <1>6, <1>7

(***************************************************************************)
(* The listed blocks are free and apart from each other and from the ones  *)
(* that were given out, whatever region_map left in the table.             *)
(***************************************************************************)
THEOREM AllocInvAlways == AllocSpec => []AllocInv
<1> QED  BY AllocInvInit, AllocInvStep, PTL DEF AllocSpec

(***************************************************************************)
(* While nothing is freed, all variables keep their types; no counter      *)
(* leaves the range of a size_t (page.c:471-486, 365-401).                 *)
(***************************************************************************)
THEOREM TypesAlways == AllocSpec => []TypeOK
<1>1. AllocInv => TypeOK
  BY DEF AllocInv
<1> QED  BY <1>1, AllocInvAlways, PTL

(* The pages of a block in the region are the ones that it covers. *)
LEMMA PagesCovered ==
    ASSUME NEW b \in Blocks, b[2] < free_area_length(NPages, b[1])
    PROVE  /\ Pages(b) \subseteq 0 .. NPages - 1
           /\ \A page \in Pages(b) : Covers(b, page)
<1>1. /\ b[1] \in 0 .. 9 /\ b[2] \in Nat /\ NPages \in Nat
      /\ b[2] < NPages \div ORDER(b[1])
  BY Constants DEF Blocks, Orders, free_area_length
<1>2. ASSUME NEW o \in 0 .. 9, NEW i \in Nat, NEW n \in Nat, i < n \div ORDER(o),
             NEW page \in i * ORDER(o) .. (i + 1) * ORDER(o) - 1
      PROVE  page \in 0 .. n - 1 /\ page \div ORDER(o) = i
  <2>1. CASE o = 0  BY <1>2, <2>1 DEF ORDER
  <2>2. CASE o = 1  BY <1>2, <2>2 DEF ORDER
  <2>3. CASE o = 2  BY <1>2, <2>3 DEF ORDER
  <2>4. CASE o = 3  BY <1>2, <2>4 DEF ORDER
  <2>5. CASE o = 4  BY <1>2, <2>5 DEF ORDER
  <2>6. CASE o = 5  BY <1>2, <2>6 DEF ORDER
  <2>7. CASE o = 6  BY <1>2, <2>7 DEF ORDER
  <2>8. CASE o = 7  BY <1>2, <2>8 DEF ORDER
  <2>9. CASE o = 8  BY <1>2, <2>9 DEF ORDER
  <2>10. CASE o = 9  BY <1>2, <2>10 DEF ORDER
  <2> QED  BY <2>1, <2>2, <2>3, <2>4, <2>5, <2>6, <2>7, <2>8, <2>9, <2>10
<1> QED  BY <1>1, <1>2 DEF Pages, BlockPages, Covers

(***************************************************************************)
(* While nothing is freed, as in the kernel today, no page is ever given   *)
(* to two clients, for any number of processors and pages, any order up to *)
(* 10, and whatever the unset bits of the table contain.                   *)
(***************************************************************************)
THEOREM NoDoubleGrant == AllocSpec => []GrantsDisjoint
<1>1. AllocInv => GrantsDisjoint
  <2> SUFFICES ASSUME AllocInv  PROVE GrantsDisjoint
    OBVIOUS
  <2>1. \A b \in held \cup Returning :
           Pages(b) \subseteq 0 .. NPages - 1 /\ \A page \in Pages(b) : Covers(b, page)
    BY PagesCovered DEF AllocInv, TakenInside, Taken
  <2>2. Disjoint(held \cup Returning)
    <3> SUFFICES ASSUME NEW b \in held \cup Returning, NEW c \in held \cup Returning,
                        NEW page \in Pages(b), page \in Pages(c)
                 PROVE  b = c
      BY DEF Disjoint
    <3>1. page \in 0 .. NPages - 1 /\ Covers(b, page) /\ Covers(c, page)
      BY <2>1
    <3> QED  BY <3>1 DEF AllocInv, TakenOnce, Taken
  <2>3. Returning \cap held = {}
    BY DEF AllocInv, ReturnOnce
  <2> QED  BY <2>1, <2>2, <2>3 DEF GrantsDisjoint
<1> QED  BY <1>1, AllocInvAlways, PTL
-----------------------------------------------------------------------------

(***************************************************************************)
(* The counts at first: the blocks of _free_area_map are the binary digits *)
(* of the number of pages.                                                 *)
(***************************************************************************)

(* An area is twice the next one, and one block more when its length is odd. *)
LEMMA HalveArea ==
    \A o \in 0 .. 8 :
        /\ free_area_length(NPages, o) \in Nat
        /\ free_area_length(NPages, o + 1) \in Nat
        /\ free_area_length(NPages, o) =
              2 * free_area_length(NPages, o + 1) + (free_area_length(NPages, o) % 2)
<1> TAKE o \in 0 .. 8
<1> DEFINE x == NPages \div ORDER(o)
           y == NPages \div ORDER(o + 1)
<1>1. o \in 0 .. 9 /\ o \in 0 .. 10 /\ o + 1 \in 0 .. 10 /\ NPages \in Nat
  BY Constants
<1>2. x \in Nat /\ y \in Nat /\ y = x \div 2
  BY <1>1, BlockOfPage, HalvePage
<1> HIDE DEF x, y
<1>3. x = 2 * y + (x % 2)
  BY <1>2
<1> QED  BY <1>2, <1>3 DEF x, y, free_area_length

(* What each order counts at first. *)
LEMMA InitialCounts ==
    ASSUME Init, NEW o \in 0 .. 9
    PROVE  Counted(o) = IF o = MAX_ORDER - 1 THEN free_area_length(NPages, o)
                        ELSE IF o < MAX_ORDER - 1 THEN free_area_length(NPages, o) % 2
                        ELSE 0
<1>1. CASE o \in Orders
  <2>1. Counted(o) = init_pages_free(NPages, o)
    BY <1>1 DEF Init, Counted
  <2> QED  BY <1>1, <2>1 DEF Orders, init_pages_free
<1>2. CASE o \notin Orders
  <2>1. ~ (o <= MAX_ORDER - 1)
    BY <1>2 DEF Orders
  <2> QED  BY <1>2, <2>1 DEF Counted
<1> QED  BY <1>1, <1>2

LEMMA InitialPagesCounted == Init => PagesCounted
<1> SUFFICES ASSUME Init  PROVE PagesCounted
  OBVIOUS
<1> DEFINE f(o) == free_area_length(NPages, o)
           e(o) == IF o \in Orders THEN f(o) ELSE 0
<1>1. pages_free = e(0)
  BY Constants DEF Init, free_area_length, ORDER, Orders
<1>2. ASSUME NEW o \in 0 .. 8
      PROVE  /\ e(o) = Counted(o) + 2 * e(o + 1)
             /\ Counted(o) \in Nat /\ e(o + 1) \in Nat
  <2>1. f(o) \in Nat /\ f(o + 1) \in Nat /\ f(o) = 2 * f(o + 1) + (f(o) % 2)
    BY HalveArea
  <2>2. Counted(o) = IF o = MAX_ORDER - 1 THEN f(o)
                     ELSE IF o < MAX_ORDER - 1 THEN f(o) % 2 ELSE 0
    BY InitialCounts
  <2> HIDE DEF f
  <2>3. CASE o < MAX_ORDER - 1
    <3>1. o \in Orders /\ o + 1 \in Orders
      BY <2>3 DEF Orders
    <3> QED  BY <2>1, <2>2, <2>3, <3>1
  <2>4. CASE o = MAX_ORDER - 1
    <3>1. o \in Orders /\ o + 1 \notin Orders
      BY <2>4 DEF Orders
    <3> QED  BY <2>1, <2>2, <2>4, <3>1
  <2>5. CASE o > MAX_ORDER - 1
    <3>1. o \notin Orders /\ o + 1 \notin Orders
      BY <2>5 DEF Orders
    <3> QED  BY <2>1, <2>2, <2>5, <3>1
  <2> QED  BY <2>3, <2>4, <2>5
<1>3. e(9) = Counted(9) /\ Counted(9) \in Nat
  <2>1. Counted(9) = IF 9 = MAX_ORDER - 1 THEN f(9)
                     ELSE IF 9 < MAX_ORDER - 1 THEN f(9) % 2 ELSE 0
    BY InitialCounts
  <2>2. f(8 + 1) \in Nat
    BY HalveArea
  <2> HIDE DEF f
  <2> QED  BY <2>1, <2>2 DEF Orders
<1> HIDE DEF e
<1>4. /\ e(0) = Counted(0) + 2 * e(0 + 1) /\ e(1) = Counted(1) + 2 * e(1 + 1)
      /\ e(2) = Counted(2) + 2 * e(2 + 1) /\ e(3) = Counted(3) + 2 * e(3 + 1)
      /\ e(4) = Counted(4) + 2 * e(4 + 1) /\ e(5) = Counted(5) + 2 * e(5 + 1)
      /\ e(6) = Counted(6) + 2 * e(6 + 1) /\ e(7) = Counted(7) + 2 * e(7 + 1)
      /\ e(8) = Counted(8) + 2 * e(8 + 1)
      /\ \A o \in 0 .. 8 : Counted(o) \in Nat /\ e(o + 1) \in Nat
  BY <1>2
<1>5. /\ e(0) = Counted(0) + 2 * e(1) /\ e(1) = Counted(1) + 2 * e(2)
      /\ e(2) = Counted(2) + 2 * e(3) /\ e(3) = Counted(3) + 2 * e(4)
      /\ e(4) = Counted(4) + 2 * e(5) /\ e(5) = Counted(5) + 2 * e(6)
      /\ e(6) = Counted(6) + 2 * e(7) /\ e(7) = Counted(7) + 2 * e(8)
      /\ e(8) = Counted(8) + 2 * e(9)
  BY <1>4
<1>6. /\ Counted(0) \in Nat /\ Counted(1) \in Nat /\ Counted(2) \in Nat
      /\ Counted(3) \in Nat /\ Counted(4) \in Nat /\ Counted(5) \in Nat
      /\ Counted(6) \in Nat /\ Counted(7) \in Nat /\ Counted(8) \in Nat
      /\ Counted(9) \in Nat
  BY <1>3, <1>4
<1>7. e(0) = Counted(0) + 2 * Counted(1) + 4 * Counted(2) + 8 * Counted(3)
             + 16 * Counted(4) + 32 * Counted(5) + 64 * Counted(6)
             + 128 * Counted(7) + 256 * Counted(8) + 512 * Counted(9)
  <2>1. e(6) = Counted(6) + 2 * Counted(7) + 4 * Counted(8) + 8 * Counted(9)
    BY <1>3, <1>5, <1>6
  <2>2. e(3) = Counted(3) + 2 * Counted(4) + 4 * Counted(5) + 8 * e(6)
    BY <1>5, <1>6, <2>1
  <2>3. e(0) = Counted(0) + 2 * Counted(1) + 4 * Counted(2) + 8 * e(3)
    BY <1>5, <1>6, <2>1, <2>2
  <2> QED  BY <1>6, <2>1, <2>2, <2>3
<1> QED  BY <1>1, <1>7 DEF PagesCounted

LEMMA CountInvInit == Init => CountInv
<1> SUFFICES ASSUME Init  PROVE CountInv
  OBVIOUS
<1>1. FewBelowTop
  <2> SUFFICES ASSUME NEW o \in Orders \ {MAX_ORDER - 1}
               PROVE  map.pages_free[o] <= 1 /\ map.pages_free[o] \in Nat
    BY DEF FewBelowTop
  <2>1. map.pages_free[o] = free_area_length(NPages, o) % 2
    BY DEF Init, init_pages_free
  <2> QED  BY <2>1, AreaLength
<1>2. pages_free # 0
  BY Constants DEF Init
<1> QED  BY <1>1, <1>2, InitialPagesCounted DEF CountInv

-----------------------------------------------------------------------------
(***************************************************************************)
(* The counts at every step of pages_alloc.                                *)
(***************************************************************************)

(* What an order counts. *)
LEMMA CountedTypes ==
    ASSUME AllocInv
    PROVE  \A o \in 0 .. 9 : Counted(o) \in Nat
BY DEF AllocInv, TypeOK, MapType, Counted, Counter

(* Only pages_alloc itself has a processor in a body, and it is the only one. *)
LEMMA OnlyOne ==
    ASSUME AllocInv, NEW p \in Procs, InBody(p)
    PROVE  lock = 1 /\ \A q \in Procs : q # p => pc[q] \in {"idle", "call"}
BY DEF AllocInv, MutualExclusion, InBody

(* The sum over the orders, as an operator on what they count. *)
Weighted(c0, c1, c2, c3, c4, c5, c6, c7, c8, c9) ==
    c0 + 2 * c1 + 4 * c2 + 8 * c3 + 16 * c4 + 32 * c5 + 64 * c6
    + 128 * c7 + 256 * c8 + 512 * c9

(* The sum over the orders, after the count of one went down by one ... *)
LEMMA SumTakes ==
    ASSUME AllocInv, NEW o \in 0 .. 9,
           Counted(o) # 0, Counted(o)' = Counted(o) - 1,
           \A q \in 0 .. 9 : q # o => Counted(q)' = Counted(q),
           PagesCounted
    PROVE  /\ pages_free - ORDER(o) \in Nat
           /\ (pages_free' = pages_free - ORDER(o)) => PagesCounted'
<1> DEFINE c(k) == Counted(k)
           d(k) == Counted(k)'
<1>1. \A k \in 0 .. 9 : c(k) \in Nat
  BY CountedTypes
<1>2. pages_free = Weighted(c(0), c(1), c(2), c(3), c(4), c(5), c(6), c(7), c(8), c(9))
  BY DEF PagesCounted, Weighted
<1>3. (pages_free' = Weighted(d(0), d(1), d(2), d(3), d(4), d(5), d(6), d(7), d(8), d(9)))
         => PagesCounted'
  BY DEF PagesCounted, Weighted
<1>4. c(o) # 0 /\ d(o) = c(o) - 1 /\ \A q \in 0 .. 9 : q # o => d(q) = c(q)
  OBVIOUS
<1>5. /\ ORDER(0) = 1 /\ ORDER(1) = 2 /\ ORDER(2) = 4 /\ ORDER(3) = 8 /\ ORDER(4) = 16
      /\ ORDER(5) = 32 /\ ORDER(6) = 64 /\ ORDER(7) = 128 /\ ORDER(8) = 256
      /\ ORDER(9) = 512
  BY DEF ORDER
<1> HIDE DEF c, d
<1>6. PICK c0 \in Nat, c1 \in Nat, c2 \in Nat, c3 \in Nat, c4 \in Nat,
           c5 \in Nat, c6 \in Nat, c7 \in Nat, c8 \in Nat, c9 \in Nat :
         /\ c0 = c(0) /\ c1 = c(1) /\ c2 = c(2) /\ c3 = c(3) /\ c4 = c(4)
         /\ c5 = c(5) /\ c6 = c(6) /\ c7 = c(7) /\ c8 = c(8) /\ c9 = c(9)
  <2>1. /\ c(0) \in Nat /\ c(1) \in Nat /\ c(2) \in Nat /\ c(3) \in Nat /\ c(4) \in Nat
        /\ c(5) \in Nat /\ c(6) \in Nat /\ c(7) \in Nat /\ c(8) \in Nat /\ c(9) \in Nat
    BY <1>1
  <2> QED  BY <2>1
<1>7. pages_free = Weighted(c0, c1, c2, c3, c4, c5, c6, c7, c8, c9)
  BY <1>2, <1>6
<1>8. CASE o = 0
  <2>1. /\ d(0) = c0 - 1 /\ d(1) = c1 /\ d(2) = c2 /\ d(3) = c3 /\ d(4) = c4
        /\ d(5) = c5 /\ d(6) = c6 /\ d(7) = c7 /\ d(8) = c8 /\ d(9) = c9 /\ c0 # 0
    BY <1>4, <1>6, <1>8
  <2>2. pages_free - 1 \in Nat /\ pages_free - 1 = Weighted(c0 - 1, c1, c2, c3, c4, c5, c6, c7, c8, c9)
    BY <1>7, <2>1 DEF Weighted
  <2> QED  BY <1>3, <1>5, <1>8, <2>1, <2>2
<1>9. CASE o = 1
  <2>1. /\ d(0) = c0 /\ d(1) = c1 - 1 /\ d(2) = c2 /\ d(3) = c3 /\ d(4) = c4
        /\ d(5) = c5 /\ d(6) = c6 /\ d(7) = c7 /\ d(8) = c8 /\ d(9) = c9 /\ c1 # 0
    BY <1>4, <1>6, <1>9
  <2>2. pages_free - 2 \in Nat /\ pages_free - 2 = Weighted(c0, c1 - 1, c2, c3, c4, c5, c6, c7, c8, c9)
    BY <1>7, <2>1 DEF Weighted
  <2> QED  BY <1>3, <1>5, <1>9, <2>1, <2>2
<1>10. CASE o = 2
  <2>1. /\ d(0) = c0 /\ d(1) = c1 /\ d(2) = c2 - 1 /\ d(3) = c3 /\ d(4) = c4
        /\ d(5) = c5 /\ d(6) = c6 /\ d(7) = c7 /\ d(8) = c8 /\ d(9) = c9 /\ c2 # 0
    BY <1>4, <1>6, <1>10
  <2>2. pages_free - 4 \in Nat /\ pages_free - 4 = Weighted(c0, c1, c2 - 1, c3, c4, c5, c6, c7, c8, c9)
    BY <1>7, <2>1 DEF Weighted
  <2> QED  BY <1>3, <1>5, <1>10, <2>1, <2>2
<1>11. CASE o = 3
  <2>1. /\ d(0) = c0 /\ d(1) = c1 /\ d(2) = c2 /\ d(3) = c3 - 1 /\ d(4) = c4
        /\ d(5) = c5 /\ d(6) = c6 /\ d(7) = c7 /\ d(8) = c8 /\ d(9) = c9 /\ c3 # 0
    BY <1>4, <1>6, <1>11
  <2>2. pages_free - 8 \in Nat /\ pages_free - 8 = Weighted(c0, c1, c2, c3 - 1, c4, c5, c6, c7, c8, c9)
    BY <1>7, <2>1 DEF Weighted
  <2> QED  BY <1>3, <1>5, <1>11, <2>1, <2>2
<1>12. CASE o = 4
  <2>1. /\ d(0) = c0 /\ d(1) = c1 /\ d(2) = c2 /\ d(3) = c3 /\ d(4) = c4 - 1
        /\ d(5) = c5 /\ d(6) = c6 /\ d(7) = c7 /\ d(8) = c8 /\ d(9) = c9 /\ c4 # 0
    BY <1>4, <1>6, <1>12
  <2>2. pages_free - 16 \in Nat /\ pages_free - 16 = Weighted(c0, c1, c2, c3, c4 - 1, c5, c6, c7, c8, c9)
    BY <1>7, <2>1 DEF Weighted
  <2> QED  BY <1>3, <1>5, <1>12, <2>1, <2>2
<1>13. CASE o = 5
  <2>1. /\ d(0) = c0 /\ d(1) = c1 /\ d(2) = c2 /\ d(3) = c3 /\ d(4) = c4
        /\ d(5) = c5 - 1 /\ d(6) = c6 /\ d(7) = c7 /\ d(8) = c8 /\ d(9) = c9 /\ c5 # 0
    BY <1>4, <1>6, <1>13
  <2>2. pages_free - 32 \in Nat /\ pages_free - 32 = Weighted(c0, c1, c2, c3, c4, c5 - 1, c6, c7, c8, c9)
    BY <1>7, <2>1 DEF Weighted
  <2> QED  BY <1>3, <1>5, <1>13, <2>1, <2>2
<1>14. CASE o = 6
  <2>1. /\ d(0) = c0 /\ d(1) = c1 /\ d(2) = c2 /\ d(3) = c3 /\ d(4) = c4
        /\ d(5) = c5 /\ d(6) = c6 - 1 /\ d(7) = c7 /\ d(8) = c8 /\ d(9) = c9 /\ c6 # 0
    BY <1>4, <1>6, <1>14
  <2>2. pages_free - 64 \in Nat /\ pages_free - 64 = Weighted(c0, c1, c2, c3, c4, c5, c6 - 1, c7, c8, c9)
    BY <1>7, <2>1 DEF Weighted
  <2> QED  BY <1>3, <1>5, <1>14, <2>1, <2>2
<1>15. CASE o = 7
  <2>1. /\ d(0) = c0 /\ d(1) = c1 /\ d(2) = c2 /\ d(3) = c3 /\ d(4) = c4
        /\ d(5) = c5 /\ d(6) = c6 /\ d(7) = c7 - 1 /\ d(8) = c8 /\ d(9) = c9 /\ c7 # 0
    BY <1>4, <1>6, <1>15
  <2>2. pages_free - 128 \in Nat /\ pages_free - 128 = Weighted(c0, c1, c2, c3, c4, c5, c6, c7 - 1, c8, c9)
    BY <1>7, <2>1 DEF Weighted
  <2> QED  BY <1>3, <1>5, <1>15, <2>1, <2>2
<1>16. CASE o = 8
  <2>1. /\ d(0) = c0 /\ d(1) = c1 /\ d(2) = c2 /\ d(3) = c3 /\ d(4) = c4
        /\ d(5) = c5 /\ d(6) = c6 /\ d(7) = c7 /\ d(8) = c8 - 1 /\ d(9) = c9 /\ c8 # 0
    BY <1>4, <1>6, <1>16
  <2>2. pages_free - 256 \in Nat /\ pages_free - 256 = Weighted(c0, c1, c2, c3, c4, c5, c6, c7, c8 - 1, c9)
    BY <1>7, <2>1 DEF Weighted
  <2> QED  BY <1>3, <1>5, <1>16, <2>1, <2>2
<1>17. CASE o = 9
  <2>1. /\ d(0) = c0 /\ d(1) = c1 /\ d(2) = c2 /\ d(3) = c3 /\ d(4) = c4
        /\ d(5) = c5 /\ d(6) = c6 /\ d(7) = c7 /\ d(8) = c8 /\ d(9) = c9 - 1 /\ c9 # 0
    BY <1>4, <1>6, <1>17
  <2>2. pages_free - 512 \in Nat /\ pages_free - 512 = Weighted(c0, c1, c2, c3, c4, c5, c6, c7, c8, c9 - 1)
    BY <1>7, <2>1 DEF Weighted
  <2> QED  BY <1>3, <1>5, <1>17, <2>1, <2>2
<1> QED  BY <1>8, <1>9, <1>10, <1>11, <1>12, <1>13, <1>14, <1>15, <1>16, <1>17

(* ... and after two of the order below took the place of one. *)
LEMMA SumSplits ==
    ASSUME AllocInv, NEW o \in 1 .. 9,
           Counted(o)' = Counted(o) - 1, Counted(o - 1) = 0, Counted(o - 1)' = 2,
           \A q \in 0 .. 9 : q # o /\ q # o - 1 => Counted(q)' = Counted(q),
           pages_free' = pages_free, PagesCounted
    PROVE  PagesCounted'
<1>1. /\ Counted(0) \in Nat /\ Counted(1) \in Nat /\ Counted(2) \in Nat
      /\ Counted(3) \in Nat /\ Counted(4) \in Nat /\ Counted(5) \in Nat
      /\ Counted(6) \in Nat /\ Counted(7) \in Nat /\ Counted(8) \in Nat
      /\ Counted(9) \in Nat
  BY CountedTypes
<1>2. CASE o = 1  BY <1>1, <1>2 DEF PagesCounted
<1>3. CASE o = 2  BY <1>1, <1>3 DEF PagesCounted
<1>4. CASE o = 3  BY <1>1, <1>4 DEF PagesCounted
<1>5. CASE o = 4  BY <1>1, <1>5 DEF PagesCounted
<1>6. CASE o = 5  BY <1>1, <1>6 DEF PagesCounted
<1>7. CASE o = 6  BY <1>1, <1>7 DEF PagesCounted
<1>8. CASE o = 7  BY <1>1, <1>8 DEF PagesCounted
<1>9. CASE o = 8  BY <1>1, <1>9 DEF PagesCounted
<1>10. CASE o = 9  BY <1>1, <1>10 DEF PagesCounted
<1> QED  BY <1>2, <1>3, <1>4, <1>5, <1>6, <1>7, <1>8, <1>9, <1>10

(* A block is taken: region->pages_free does not wrap around, and the last *)
(* block to go marks the region full (page.c:471-486).                     *)
LEMMA TakeCounts ==
    ASSUME AllocInv, CountInv, NEW p \in Procs, AllocTake(p)
    PROVE  CountInv' /\ pages_free' \in Nat
<1>0. PICK o, i, c : TakesFirst(p, o, i, c)
  BY TakeLists
<1>1. /\ o = lvl[p] /\ c = map.pages_free[o] /\ o \in Orders /\ c \in Nat \ {0}
      /\ map'.pages_free = [map.pages_free EXCEPT ![o] = @ - 1]
  BY <1>0 DEF TakesFirst
<1>2. map.pages_free \in [Orders -> Counter] /\ pages_free \in Counter /\ o \in 0 .. 9
  <2>1. o \in 0 .. 9
    BY <1>1 DEF Orders
  <2> QED  BY <2>1 DEF AllocInv, TypeOK, MapType
<1>3. /\ Counted(o) # 0 /\ Counted(o)' = Counted(o) - 1
      /\ \A q \in 0 .. 9 : q # o => Counted(q)' = Counted(q)
  BY <1>1, <1>2 DEF Counted
<1>4. /\ mem_full' = (mem_full \/ pages_free <= ORDER(o))
      /\ pages_free' = Wrap(pages_free - ORDER(o))
      /\ pc' = [pc EXCEPT ![p] = "unlock"] /\ lvl' = lvl /\ pc[p] = "alloc"
  BY <1>1 DEF AllocTake, Deliver
<1>5. ORDER(o) \in 1 .. WORD
  BY <1>1, WordRoom
<1>6. pages_free - ORDER(o) \in Nat
  BY <1>2, <1>3, SumTakes DEF CountInv
<1>7. pages_free' = pages_free - ORDER(o)
  <2> DEFINE n == ORDER(o)
  <2>1. pages_free - n \in Counter
    <3>1. n \in 1 .. WORD /\ pages_free - n \in Nat /\ pages_free \in 0 .. WORD - 1
      BY <1>2, <1>5, <1>6 DEF Counter
    <3> HIDE DEF n
    <3> QED  BY <3>1, Constants DEF Counter
  <2> HIDE DEF n
  <2> QED  BY <1>4, <2>1, WrapCounter DEF n
<1>8. PagesCounted'
  BY <1>2, <1>3, <1>7, SumTakes DEF CountInv
<1>9. FewBelowTop'
  <2> SUFFICES ASSUME NEW q \in Orders \ {MAX_ORDER - 1}
               PROVE  map'.pages_free[q] \in Nat /\ map'.pages_free[q] <= 1
    BY DEF FewBelowTop
  <2>1. \A r \in Procs : r # p => pc[r] # "alloc"
    BY <1>4, OnlyOne DEF InBody
  <2>2. map.pages_free[q] <= IF q = o THEN 2 ELSE 1
    BY <1>1, <1>4, <2>1 DEF CountInv, FewBelowTop
  <2> QED  BY <1>1, <1>2, <2>2 DEF Counter
<1>10. pages_free' = 0 => mem_full'
  <2> DEFINE n == ORDER(o)
  <2>1. n \in Nat /\ pages_free \in Nat /\ mem_full \in BOOLEAN
    BY <1>2, <1>5, Constants DEF Counter, AllocInv, TypeOK
  <2>2. mem_full' = (mem_full \/ pages_free <= n) /\ pages_free' = pages_free - n
    BY <1>4, <1>7
  <2> HIDE DEF n
  <2>3. pages_free - n = 0 => pages_free <= n
    BY <2>1
  <2>4. CASE pages_free <= n
    BY <2>2, <2>4
  <2>5. CASE ~ (pages_free <= n)
    BY <2>2, <2>3, <2>5
  <2> QED  BY <2>4, <2>5
<1> QED  BY <1>6, <1>7, <1>8, <1>9, <1>10 DEF CountInv

(* A block is split: two blocks of the order below, which had none. *)
LEMMA SplitCounts ==
    ASSUME AllocInv, CountInv, NEW p \in Procs, AllocSplit(p)
    PROVE  CountInv'
<1>0. PICK o, i, c : SplitsFirst(p, o, i, c)
  BY SplitLists
<1>1. /\ o = lvl[p] /\ c = map.pages_free[o] /\ c \in Nat \ {0}
      /\ o \in Orders /\ o # 0 /\ o - 1 \in Orders /\ map.pages_free[o - 1] = 0
      /\ map'.pages_free = [map.pages_free EXCEPT ![o] = @ - 1, ![o - 1] = 2]
  BY <1>0 DEF SplitsFirst
<1>2. map.pages_free \in [Orders -> Counter] /\ o \in 1 .. 9 /\ o # o - 1
  <2>1. o \in 1 .. 9 /\ o # o - 1
    BY <1>1 DEF Orders
  <2> QED  BY <2>1 DEF AllocInv, TypeOK, MapType
<1>3. /\ Counted(o)' = Counted(o) - 1 /\ Counted(o - 1) = 0 /\ Counted(o - 1)' = 2
      /\ \A q \in 0 .. 9 : q # o /\ q # o - 1 => Counted(q)' = Counted(q)
  BY <1>1, <1>2 DEF Counted
<1>4. /\ pages_free' = pages_free /\ mem_full' = mem_full /\ pc' = pc /\ pc[p] = "alloc"
      /\ lvl' = [lvl EXCEPT ![p] = o - 1]
  BY <1>1 DEF AllocSplit
<1>5. PagesCounted'
  BY <1>2, <1>3, <1>4, SumSplits DEF CountInv
<1>6. FewBelowTop'
  <2>1. \A r \in Procs : r # p => pc[r] # "alloc"
    BY <1>4, OnlyOne DEF InBody
  <2>2. lvl'[p] = o - 1
    BY <1>4 DEF AllocInv, TypeOK
  <2> SUFFICES ASSUME NEW q \in Orders \ {MAX_ORDER - 1}
               PROVE  /\ map'.pages_free[q] \in Nat
                      /\ map'.pages_free[q] <= IF q = o - 1 THEN 2 ELSE 1
    BY <1>4, <2>2 DEF FewBelowTop
  <2>3. map.pages_free[q] <= IF q = o THEN 2 ELSE 1
    BY <1>1, <1>4, <2>1 DEF CountInv, FewBelowTop
  <2> QED  BY <1>1, <1>2, <2>3 DEF Counter
<1> QED  BY <1>4, <1>5, <1>6 DEF CountInv

(* Steps that neither take a block nor split one. *)
LEMMA OtherCounts ==
    ASSUME AllocInv, CountInv, NEW p \in Procs,
           CallAlloc(p) \/ Enter(p) \/ AllocAscend(p) \/ AllocFail(p)
    PROVE  CountInv'
<1>1. /\ map' = map /\ pages_free' = pages_free /\ (mem_full => mem_full')
      /\ mem_full \in BOOLEAN /\ mem_full' \in BOOLEAN
  BY DEF CallAlloc, Call, Enter, Reject, Lock, Unlock, Return, AllocAscend, AllocFail,
         AllocInv, TypeOK
<1>2. PagesCounted'
  BY <1>1 DEF CountInv, PagesCounted, Counted
<1>3. FewBelowTop'
  <2> SUFFICES ASSUME NEW o \in Orders \ {MAX_ORDER - 1}
               PROVE  map.pages_free[o] <=
                        IF \E q \in Procs : pc'[q] = "alloc" /\ lvl'[q] = o THEN 2 ELSE 1
    BY <1>1 DEF FewBelowTop
  <2>1. map.pages_free[o] <= IF \E q \in Procs : pc[q] = "alloc" /\ lvl[q] = o THEN 2 ELSE 1
    BY DEF CountInv, FewBelowTop
  <2>2. map.pages_free[o] \in Nat
    BY DEF AllocInv, TypeOK, MapType, Counter
  <2>3. CASE \E q \in Procs : pc'[q] = "alloc" /\ lvl'[q] = o
    BY <2>1, <2>2, <2>3
  <2>4. CASE \A q \in Procs : ~ (pc'[q] = "alloc" /\ lvl'[q] = o)
    <3> SUFFICES ASSUME NEW q \in Procs, pc[q] = "alloc", lvl[q] = o
                 PROVE  map.pages_free[o] <= 1
      BY <2>1, <2>2, <2>4
    <3>1. q = p
      <4>1. pc'[q] # pc[q] \/ lvl'[q] # lvl[q]
        BY <2>4
      <4> QED  BY <4>1 DEF CallAlloc, Call, Enter, Reject, Lock, Unlock, Return, AllocAscend,
                   AllocFail, AllocInv, TypeOK
    <3>2. AllocAscend(p) \/ AllocFail(p)
      BY <3>1 DEF CallAlloc, Call, Enter, Reject, Lock, Unlock
    <3>3. map.pages_free[o] = 0
      BY <3>1, <3>2 DEF AllocAscend, AllocFail
    <3> QED  BY <3>3
  <2> QED  BY <2>3, <2>4
<1> QED  BY <1>1, <1>2, <1>3 DEF CountInv

LEMMA CountInvStep == AllocInv /\ CountInv /\ [AllocNext]_vars => CountInv'
<1> SUFFICES ASSUME AllocInv, CountInv, [AllocNext]_vars  PROVE CountInv'
  OBVIOUS
<1>1. CASE UNCHANGED vars
  BY <1>1 DEF vars, locals, CountInv, FewBelowTop, PagesCounted, Counted
<1>2. ASSUME NEW p \in Procs, CallAlloc(p) \/ Enter(p) \/ Alloc(p)  PROVE CountInv'
  BY <1>2, TakeCounts, SplitCounts, OtherCounts DEF Alloc
<1> QED  BY <1>1, <1>2 DEF AllocNext

(***************************************************************************)
(* The three counts of free memory agree at every step of every processor: *)
(* that of the region, those of the orders and the mark of a full region.  *)
(***************************************************************************)
THEOREM CountInvAlways == AllocSpec => []CountInv
<1>1. Init => AllocInv /\ CountInv
  BY AllocInvInit, CountInvInit
<1>2. AllocInv /\ CountInv /\ [AllocNext]_vars => AllocInv' /\ CountInv'
  BY AllocInvStep, CountInvStep
<1> QED  BY <1>1, <1>2, PTL DEF AllocSpec

(***************************************************************************)
(* A region that is not marked full has a block to give: alloc_page of the *)
(* frame allocator relies on it (page.c:128-133).                          *)
(***************************************************************************)
THEOREM NotFullHasPageAlways == AllocSpec => []NotFullHasPage
<1>1. AllocInv /\ CountInv => NotFullHasPage
  <2> SUFFICES ASSUME AllocInv, CountInv, ~ mem_full,
                      \A o \in Orders : ~ (map.pages_free[o] > 0)
               PROVE  FALSE
    BY DEF NotFullHasPage
  <2>1. \A o \in 0 .. 9 : Counted(o) = 0
    BY DEF Counted, AllocInv, TypeOK, MapType, Counter
  <2>2. pages_free = 0
    BY <2>1 DEF CountInv, PagesCounted
  <2> QED  BY <2>2 DEF CountInv
<1> QED  BY <1>1, AllocInvAlways, CountInvAlways, PTL

-----------------------------------------------------------------------------
(***************************************************************************)
(* The refinement of PageRegion: which pages the lists stand for.          *)
(***************************************************************************)

(* The pages that a block covers are the pages of the block. *)
LEMMA CoveredPages ==
    ASSUME NEW o \in 0 .. 9, NEW i \in Nat, NEW page \in Nat, page \div ORDER(o) = i
    PROVE  page \in i * ORDER(o) .. (i + 1) * ORDER(o) - 1
<1>1. CASE o = 0  BY <1>1 DEF ORDER
<1>2. CASE o = 1  BY <1>2 DEF ORDER
<1>3. CASE o = 2  BY <1>3 DEF ORDER
<1>4. CASE o = 3  BY <1>4 DEF ORDER
<1>5. CASE o = 4  BY <1>5 DEF ORDER
<1>6. CASE o = 5  BY <1>6 DEF ORDER
<1>7. CASE o = 6  BY <1>7 DEF ORDER
<1>8. CASE o = 7  BY <1>8 DEF ORDER
<1>9. CASE o = 8  BY <1>9 DEF ORDER
<1>10. CASE o = 9  BY <1>10 DEF ORDER
<1> QED  BY <1>1, <1>2, <1>3, <1>4, <1>5, <1>6, <1>7, <1>8, <1>9, <1>10

LEMMA PagesAreCovered ==
    ASSUME NEW b \in Blocks, b[2] < free_area_length(NPages, b[1])
    PROVE  Pages(b) = {page \in 0 .. NPages - 1 : Covers(b, page)}
<1>1. ASSUME NEW page \in 0 .. NPages - 1, Covers(b, page)  PROVE page \in Pages(b)
  <2>1. b[1] \in 0 .. 9 /\ b[2] \in Nat /\ page \in Nat
    BY Constants DEF Blocks, Orders
  <2> QED  BY <1>1, <2>1, CoveredPages DEF Covers, Pages, BlockPages
<1> QED  BY <1>1, PagesCovered

(* Listed blocks lie in the region. *)
LEMMA ListedInside ==
    ASSUME AllocInv, NEW b \in Listed
    PROVE  /\ b \in Blocks /\ b[2] < free_area_length(NPages, b[1])
           /\ b = <<b[1], b[2]>> /\ b[2] \in Run(b[1])
<1>1. PICK o \in Orders : b \in {o} \X Run(o)
  BY DEF Listed
<1>2. b[1] = o /\ b[2] \in Run(o) /\ b = <<b[1], b[2]>>
  BY <1>1
<1>3. map.next_free_page[o] \in Nat /\ map.pages_free[o] \in Nat
  BY DEF AllocInv, TypeOK, MapType, Counter
<1>4. b[2] \in Nat
  BY <1>2, <1>3 DEF Run
<1>5. b[2] < free_area_length(NPages, o)
  BY <1>2 DEF AllocInv, RunsFree
<1> QED  BY <1>2, <1>4, <1>5 DEF Blocks

(* The pages of the lists are those that a listed block covers. *)
LEMMA ListedCovers ==
    ASSUME AllocInv
    PROVE  ListedPages = {page \in 0 .. NPages - 1 : \E b \in Listed : Covers(b, page)}
<1>1. \A b \in Listed : Pages(b) = {page \in 0 .. NPages - 1 : Covers(b, page)}
  BY ListedInside, PagesAreCovered
<1> QED  BY <1>1 DEF ListedPages

(* The first blocks of _free_area_map leave no page out. *)
LEMMA InitialListed ==
    ASSUME NEW page \in 0 .. NPages - 1
    PROVE  \E o \in Orders : page \div ORDER(o) \in init_free_area(NPages, o)
<1> DEFINE f(o) == free_area_length(NPages, o)
           x(o) == page \div ORDER(o)
           P(o) == x(o) < f(o)
           top == MAX_ORDER - 1
<1>1. page \in Nat /\ top \in 0 .. 9 /\ top \in Orders
  BY Constants DEF Orders
<1>2. P(0)
  BY <1>1, Constants DEF free_area_length, ORDER
<1>3. CASE P(top)
  <2>1. x(top) \in Nat /\ f(top) \in Nat
    <3> HIDE DEF top
    <3>1. top \in 0 .. 10
      BY <1>1
    <3>2. x(top) \in Nat
      BY <1>1, <3>1, BlockOfPage
    <3>3. f(top) \in 0 .. NPages
      BY <1>1, AreaLength
    <3> QED  BY <3>2, <3>3, Constants
  <2>2. init_free_area(NPages, top) = 0 .. f(top) - 1
    <3> HIDE DEF f
    <3>1. init_next_free_page(NPages, top) = 0 /\ init_pages_free(NPages, top) = f(top)
      BY DEF init_next_free_page, init_pages_free, f
    <3> QED  BY <2>1, <3>1 DEF init_free_area
  <2>3. x(top) \in init_free_area(NPages, top)
    <3> HIDE DEF x, f, top
    <3> QED  BY <1>3, <2>1, <2>2
  <2> QED  BY <1>1, <2>3
<1>4. CASE ~ P(top)
  <2>1. PICK o \in 0 .. 8 : o < top /\ P(o) /\ ~ P(o + 1)
    <3> HIDE DEF P
    <3> SUFFICES ASSUME \A o \in 0 .. 8 : o < top /\ P(o) => P(o + 1)  PROVE FALSE
      OBVIOUS
    <3>1. /\ (0 < top => P(0 + 1)) /\ (1 < top /\ P(1) => P(1 + 1))
          /\ (2 < top /\ P(2) => P(2 + 1)) /\ (3 < top /\ P(3) => P(3 + 1))
          /\ (4 < top /\ P(4) => P(4 + 1)) /\ (5 < top /\ P(5) => P(5 + 1))
          /\ (6 < top /\ P(6) => P(6 + 1)) /\ (7 < top /\ P(7) => P(7 + 1))
          /\ (8 < top /\ P(8) => P(8 + 1))
      BY <1>2
    <3>2. /\ (0 < top => P(1)) /\ (1 < top /\ P(1) => P(2))
          /\ (2 < top /\ P(2) => P(3)) /\ (3 < top /\ P(3) => P(4))
          /\ (4 < top /\ P(4) => P(5)) /\ (5 < top /\ P(5) => P(6))
          /\ (6 < top /\ P(6) => P(7)) /\ (7 < top /\ P(7) => P(8))
          /\ (8 < top /\ P(8) => P(9))
      BY <3>1
    <3> HIDE DEF top
    <3>3. top \in 0 .. 9
      BY <1>1
    <3> QED  BY <1>2, <1>4, <3>2, <3>3
  <2>2. /\ x(o) \in Nat /\ f(o) \in Nat /\ x(o + 1) = x(o) \div 2 /\ f(o + 1) = f(o) \div 2
    <3>1. o \in 0 .. 9 /\ o \in 0 .. 10 /\ NPages \in Nat
      BY Constants
    <3> QED  BY <1>1, <3>1, BlockOfPage, HalvePage DEF free_area_length
  <2>3. x(o) = f(o) - 1 /\ f(o) % 2 = 1
    <3> HIDE DEF x, f
    <3>1. x(o) < f(o) /\ ~ (x(o) \div 2 < f(o) \div 2)
      BY <2>1, <2>2
    <3> QED  BY <2>2, <3>1
  <2>4. o \in Orders /\ o # MAX_ORDER - 1
    BY <2>1 DEF Orders
  <2>5. init_pages_free(NPages, o) = 1 /\ init_next_free_page(NPages, o) = f(o) - 1
    BY <2>3, <2>4 DEF init_pages_free, init_next_free_page
  <2>6. x(o) \in init_free_area(NPages, o)
    <3> HIDE DEF x, f
    <3> QED  BY <2>2, <2>3, <2>5 DEF init_free_area
  <2> QED  BY <2>4, <2>6
<1> QED  BY <1>3, <1>4

LEMMA InitialPages == Init => ListedPages = 0 .. NPages - 1
<1> SUFFICES ASSUME Init  PROVE ListedPages = 0 .. NPages - 1
  OBVIOUS
<1>1. AllocInv
  BY AllocInvInit
<1>2. \A o \in Orders : Run(o) = init_free_area(NPages, o)
  BY DEF Init, Run, init_free_area
<1>3. ASSUME NEW page \in 0 .. NPages - 1
      PROVE  \E b \in Listed : Covers(b, page)
  <2>1. PICK o \in Orders : page \div ORDER(o) \in init_free_area(NPages, o)
    BY InitialListed
  <2> DEFINE b == <<o, page \div ORDER(o)>>
  <2>2. b \in Listed
    BY <1>2, <2>1 DEF Listed
  <2>3. Covers(b, page)
    BY DEF Covers
  <2> QED  BY <2>2, <2>3
<1> QED  BY <1>1, <1>3, ListedCovers

(* A block that is taken takes its pages along, which were all listed. *)
LEMMA TakePages ==
    ASSUME AllocInv, AllocInv', NEW p \in Procs, NEW o, NEW i, NEW c, TakesFirst(p, o, i, c)
    PROVE  /\ Pages(<<o, i>>) \subseteq ListedPages
           /\ ListedPages' = ListedPages \ Pages(<<o, i>>)
<1> DEFINE b == <<o, i>>
<1>1. b \in Listed /\ Listed' = Listed \ {b}
  BY DEF TakesFirst
<1>2. Pages(b) = {page \in 0 .. NPages - 1 : Covers(b, page)}
  BY <1>1, ListedInside, PagesAreCovered
<1>3. ListedPages = {page \in 0 .. NPages - 1 : \E a \in Listed : Covers(a, page)}
  BY ListedCovers
<1>4. ListedPages' = {page \in 0 .. NPages - 1 : \E a \in Listed' : Covers(a, page)}
  <2>1. \A a \in Listed' : Pages(a) = {page \in 0 .. NPages - 1 : Covers(a, page)}
    BY <1>1, ListedInside, PagesAreCovered
  <2> QED  BY <2>1 DEF ListedPages
<1>5. \A page \in 0 .. NPages - 1 : \A a \in Listed : Covers(a, page) /\ Covers(b, page) => a = b
  BY <1>1 DEF AllocInv, ListedOnce
<1> HIDE DEF b
<1>6. Pages(b) \subseteq ListedPages
  BY <1>1, <1>2, <1>3
<1>7. ListedPages' = ListedPages \ Pages(b)
  BY <1>1, <1>2, <1>3, <1>4, <1>5
<1> QED  BY <1>6, <1>7 DEF b

(* The halves of a block have exactly its pages. *)
LEMMA SplitPages ==
    ASSUME AllocInv, AllocInv', NEW p \in Procs, NEW o, NEW i, NEW c, SplitsFirst(p, o, i, c)
    PROVE  ListedPages' = ListedPages
<1> DEFINE b == <<o, i>>
           H == {o - 1} \X {2 * i, 2 * i + 1}
<1>1. /\ b \in Listed /\ Listed' = (Listed \ {b}) \cup H
      /\ \A h \in H, page \in 0 .. NPages - 1 : Covers(h, page) => Covers(b, page)
      /\ o \in Orders /\ o # 0 /\ o - 1 \in Orders /\ i \in Nat
      /\ i < free_area_length(NPages, o)
  BY DEF SplitsFirst
<1>2. ListedPages = {page \in 0 .. NPages - 1 : \E a \in Listed : Covers(a, page)}
  BY ListedCovers
<1>3. ASSUME NEW page \in 0 .. NPages - 1, Covers(b, page)
      PROVE  \E h \in H : Covers(h, page)
  <2> DEFINE x == page \div ORDER(o - 1)
  <2>1. o - 1 \in 0 .. 9 /\ o - 1 \in 0 .. 10 /\ (o - 1) + 1 = o /\ page \in Nat
    BY <1>1, Constants DEF Orders
  <2>2. page \div ORDER(o) = x \div 2 /\ x \in Nat
    BY <2>1, HalvePage, BlockOfPage
  <2>3. page \div ORDER(o) = i
    BY <1>3 DEF Covers
  <2>4. x \in {2 * i, 2 * i + 1}
    <3> HIDE DEF x
    <3> QED  BY <1>1, <2>2, <2>3
  <2>5. <<o - 1, x>> \in H /\ Covers(<<o - 1, x>>, page)
    <3>1. Covers(<<o - 1, x>>, page)
      BY DEF Covers
    <3> HIDE DEF x
    <3> QED  BY <2>4, <3>1
  <2> QED  BY <2>5
<1>4. ListedPages' = {page \in 0 .. NPages - 1 : \E a \in Listed' : Covers(a, page)}
  <2>1. 2 * i + 1 < free_area_length(NPages, o - 1) /\ free_area_length(NPages, o - 1) \in Nat
    BY <1>1, AreaLength
  <2>2. ASSUME NEW a \in H
        PROVE  a \in Blocks /\ a[2] < free_area_length(NPages, a[1])
    <3>1. a[1] = o - 1 /\ a[2] \in {2 * i, 2 * i + 1} /\ a = <<a[1], a[2]>>
      OBVIOUS
    <3>2. a[2] \in Nat /\ a[2] < free_area_length(NPages, o - 1)
      BY <1>1, <2>1, <3>1
    <3> QED  BY <1>1, <3>1, <3>2 DEF Blocks
  <2>3. \A a \in Listed' : Pages(a) = {page \in 0 .. NPages - 1 : Covers(a, page)}
    <3> HIDE DEF H, b
    <3> QED  BY <1>1, <2>2, ListedInside, PagesAreCovered
  <2> QED  BY <2>3 DEF ListedPages
<1> HIDE DEF b, H
<1> QED  BY <1>1, <1>2, <1>3, <1>4

(* Every block has a page, wherever it ends. *)
LEMMA SomePage ==
    ASSUME NEW q \in 0 .. 9, NEW j \in Nat
    PROVE  \E page \in Nat : page \div ORDER(q) = j
<1>1. (j * ORDER(q)) \div ORDER(q) = j /\ j * ORDER(q) \in Nat
  <2>1. CASE q = 0  BY <2>1 DEF ORDER
  <2>2. CASE q = 1  BY <2>2 DEF ORDER
  <2>3. CASE q = 2  BY <2>3 DEF ORDER
  <2>4. CASE q = 3  BY <2>4 DEF ORDER
  <2>5. CASE q = 4  BY <2>5 DEF ORDER
  <2>6. CASE q = 5  BY <2>6 DEF ORDER
  <2>7. CASE q = 6  BY <2>7 DEF ORDER
  <2>8. CASE q = 7  BY <2>8 DEF ORDER
  <2>9. CASE q = 8  BY <2>9 DEF ORDER
  <2>10. CASE q = 9  BY <2>10 DEF ORDER
  <2> QED  BY <2>1, <2>2, <2>3, <2>4, <2>5, <2>6, <2>7, <2>8, <2>9, <2>10
<1> QED  BY <1>1

(***************************************************************************)
(* No block can be put together from smaller ones of which no two are      *)
(* buddies: some page of it is in none of them.                            *)
(***************************************************************************)
LEMMA NotPutTogether ==
    ASSUME NEW F, NEW r \in 0 .. 9,
           \A b \in F : b = <<b[1], b[2]>> /\ b[1] \in 0 .. r - 1,
           \A q \in 0 .. r - 1, j \in Nat : ~ (<<q, 2 * j>> \in F /\ <<q, 2 * j + 1>> \in F),
           NEW w \in Nat
    PROVE  \E page \in Nat : page \div ORDER(r) = w /\ \A b \in F : ~ Covers(b, page)
<1> DEFINE Made(q, j) == \A page \in Nat : page \div ORDER(q) = j =>
                            \E b \in F : b[1] < q /\ Covers(b, page)
           G(q) == q <= r => \A j \in Nat : ~ Made(q, j)
<1>1. G(0)
  <2> SUFFICES ASSUME NEW j \in Nat, Made(0, j)  PROVE FALSE
    OBVIOUS
  <2>1. PICK page \in Nat : page \div ORDER(0) = j
    BY SomePage
  <2> QED  BY <2>1
<1>2. ASSUME NEW q \in 0 .. 8, G(q)  PROVE G(q + 1)
  <2> SUFFICES ASSUME q + 1 <= r, NEW j \in Nat, Made(q + 1, j)  PROVE FALSE
    OBVIOUS
  <2>1. q <= r /\ q \in 0 .. r - 1 /\ q \in 0 .. 9 /\ 2 * j \in Nat /\ 2 * j + 1 \in Nat
    OBVIOUS
  <2>2. PICK h \in {2 * j, 2 * j + 1} : <<q, h>> \notin F
    <3>1. ~ (<<q, 2 * j>> \in F /\ <<q, 2 * j + 1>> \in F)
      BY <2>1
    <3> QED  BY <3>1
  <2>3. h \in Nat
    BY <2>1, <2>2
  <2>4. Made(q, h)
    <3> SUFFICES ASSUME NEW page \in Nat, page \div ORDER(q) = h
                 PROVE  \E b \in F : b[1] < q /\ Covers(b, page)
      OBVIOUS
    <3>1. page \div ORDER(q + 1) = j
      <4>1. page \div ORDER(q + 1) = (page \div ORDER(q)) \div 2
        BY <2>1, HalvePage
      <4> QED  BY <2>2, <4>1
    <3>2. PICK b \in F : b[1] < q + 1 /\ Covers(b, page)
      BY <3>1
    <3>3. b[1] # q
      <4> SUFFICES ASSUME b[1] = q  PROVE FALSE
        OBVIOUS
      <4>1. b[2] = h /\ b = <<b[1], b[2]>>
        BY <3>2 DEF Covers
      <4> QED  BY <2>2, <4>1
    <3>4. b[1] < q
      BY <2>1, <3>2, <3>3
    <3> QED  BY <3>2, <3>4
  <2> QED  BY <1>2, <2>1, <2>3, <2>4
<1> HIDE DEF Made
<1>3. G(r)
  <2> HIDE DEF G
  <2>1. \A q \in 0 .. 8 : G(q) => G(q + 1)
    BY <1>2
  <2>2. /\ (G(0) => G(0 + 1)) /\ (G(1) => G(1 + 1)) /\ (G(2) => G(2 + 1))
        /\ (G(3) => G(3 + 1)) /\ (G(4) => G(4 + 1)) /\ (G(5) => G(5 + 1))
        /\ (G(6) => G(6 + 1)) /\ (G(7) => G(7 + 1)) /\ (G(8) => G(8 + 1))
    BY <2>1
  <2>3. /\ (G(0) => G(1)) /\ (G(1) => G(2)) /\ (G(2) => G(3))
        /\ (G(3) => G(4)) /\ (G(4) => G(5)) /\ (G(5) => G(6))
        /\ (G(6) => G(7)) /\ (G(7) => G(8)) /\ (G(8) => G(9))
    BY <2>2
  <2> QED  BY <1>1, <2>3
<1>4. ~ Made(r, w)
  BY <1>3
<1>5. PICK page \in Nat : page \div ORDER(r) = w /\
                          ~ \E b \in F : b[1] < r /\ Covers(b, page)
  BY <1>4 DEF Made
<1>6. \A b \in F : b[1] < r
  OBVIOUS
<1> QED  BY <1>5, <1>6

(* A failing pages_alloc overlooks nothing, when no two of an order are listed. *)
LEMMA NothingOverlooked ==
    ASSUME AllocInv, NEW r \in Orders,
           \A o \in Orders : o >= r => map.pages_free[o] = 0,
           \A o \in Orders : o < r => map.pages_free[o] <= 1,
           NEW w \in Nat, w < free_area_length(NPages, r)
    PROVE  ~ (Pages(<<r, w>>) \subseteq ListedPages)
<1>1. r \in 0 .. 9
  BY DEF Orders
<1>2. ASSUME NEW b \in Listed
      PROVE  /\ b = <<b[1], b[2]>> /\ b[2] \in Run(b[1]) /\ b[1] \in 0 .. r - 1
             /\ map.pages_free[b[1]] = 1 /\ map.next_free_page[b[1]] \in Nat
  <2>1. b[1] \in Orders /\ b[2] \in Run(b[1]) /\ b = <<b[1], b[2]>>
    BY ListedInside DEF Blocks
  <2>2. /\ map.next_free_page[b[1]] \in Nat /\ map.pages_free[b[1]] \in Nat
        /\ map.pages_free[b[1]] # 0
    BY <2>1 DEF Run, AllocInv, TypeOK, MapType, Counter
  <2>3. b[1] < r
    BY <2>1, <2>2 DEF Orders
  <2>4. map.pages_free[b[1]] <= 1
    BY <2>1, <2>3
  <2> QED  BY <2>1, <2>2, <2>3, <2>4 DEF Orders
<1>3. ASSUME NEW q \in 0 .. r - 1, NEW j \in Nat,
             <<q, 2 * j>> \in Listed, <<q, 2 * j + 1>> \in Listed
      PROVE  FALSE
  <2>1. 2 * j \in Run(q) /\ 2 * j + 1 \in Run(q)
    BY <1>2, <1>3
  <2>2. map.pages_free[q] = 1 /\ map.next_free_page[q] \in Nat
    BY <1>2, <1>3
  <2> QED  BY <2>1, <2>2 DEF Run
<1>4. PICK page \in Nat : page \div ORDER(r) = w /\ \A b \in Listed : ~ Covers(b, page)
  BY <1>1, <1>2, <1>3, NotPutTogether
<1>5. page \in Pages(<<r, w>>)
  BY <1>1, <1>4, CoveredPages DEF Pages, BlockPages
<1>6. page \notin ListedPages
  BY <1>4, ListedCovers
<1> QED  BY <1>5, <1>6

-----------------------------------------------------------------------------
(***************************************************************************)
(* The refinement of PageRegion, step by step.                             *)
(***************************************************************************)

(* What a caller of pages_alloc waits for or has been answered. *)
CallOf(p) == IF pc[p] = "idle" THEN Runs!Idle
             ELSE IF pc[p] = "unlock" THEN Runs!Answered(ret[p])
             ELSE Runs!AskFor(Runs!BlocksOf(req[p].order))

(* PageRegion's blocks and pages are the allocator's. *)
LEMMA RunsBlocks ==
    /\ \A o \in Orders : Runs!BlocksOf(o) = {o} \X (0 .. free_area_length(NPages, o) - 1)
    /\ \A o : o \notin Orders => Runs!BlocksOf(o) = {}
    /\ \A b : Runs!Pages(b) = Pages(b)
<1>1. Runs!Orders = Orders
  BY DEF Runs!Orders, Orders
<1>2. \A o : Runs!ORDER(o) = ORDER(o)
  BY DEF Runs!ORDER, ORDER
<1>3. \A n, o : Runs!free_area_length(n, o) = free_area_length(n, o)
  BY <1>2 DEF Runs!free_area_length, free_area_length
<1>4. \A o, i : Runs!BlockPages(o, i) = BlockPages(o, i)
  BY <1>2 DEF Runs!BlockPages, BlockPages
<1> QED  BY <1>1, <1>3, <1>4 DEF Runs!BlocksOf, Runs!Pages, Pages

CallsOf == [p \in Procs |-> CallOf(p)]

LEMMA CallBar == AllocInv => callBar = CallsOf
<1> SUFFICES ASSUME AllocInv, NEW p \in Procs
             PROVE  callBar[p] = CallOf(p)
  BY DEF callBar, CallsOf
<1>1. /\ pc[p] \in {"idle", "call", "alloc", "unlock"}
      /\ pc[p] # "idle" => req[p].op = "alloc"
      /\ req[p].order \in Nat
  BY DEF AllocInv, WalkOK, TypeOK, Requests
<1>2. ~ Stray(req[p]) \/ pc[p] = "idle"
  BY <1>1 DEF Stray
<1>3. CASE pc[p] = "idle"
  BY <1>3 DEF callBar, CallOf, Runs!Idle
<1>4. CASE pc[p] = "unlock"
  BY <1>1, <1>2, <1>4 DEF callBar, CallOf, Runs!Answered
<1>5. CASE pc[p] \in {"call", "alloc"}
  <2>1. Runs!BlocksOf(req[p].order) =
           IF req[p].order >= MAX_ORDER THEN {}
           ELSE {req[p].order} \X (0 .. free_area_length(NPages, req[p].order) - 1)
    <3>1. CASE req[p].order \in Orders
      <4>1. ~ (req[p].order >= MAX_ORDER)
        BY <3>1 DEF Orders
      <4> QED  BY <3>1, <4>1, RunsBlocks
    <3>2. CASE req[p].order \notin Orders
      <4>1. req[p].order >= MAX_ORDER
        BY <1>1, <3>2 DEF Orders
      <4> QED  BY <3>2, <4>1, RunsBlocks
    <3> QED  BY <3>1, <3>2
  <2>2. pc[p] # "idle" /\ pc[p] \notin {"unlock", "merge"} /\ req[p].op = "alloc"
    BY <1>1, <1>5
  <2>3. callBar[p] = [state  |-> "ask",
                      wanted |-> IF req[p].order >= MAX_ORDER THEN {}
                                 ELSE {req[p].order} \X
                                       (0 .. free_area_length(NPages, req[p].order) - 1)]
    BY <1>2, <2>2 DEF callBar
  <2> QED  BY <2>1, <2>2, <2>3 DEF CallOf, Runs!AskFor
<1> QED  BY <1>1, <1>3, <1>4, <1>5

LEMMA RefinesInit == Init => Runs!RInit
<1> SUFFICES ASSUME Init  PROVE Runs!RInit
  OBVIOUS
<1>1. \A p \in Procs : CallOf(p) = Runs!Idle
  BY DEF Init, CallOf
<1>2. callBar = [p \in Procs |-> Runs!Idle]
  BY <1>1, AllocInvInit, CallBar DEF CallsOf
<1> QED  BY <1>2, InitialPages DEF Init, Runs!RInit

(* A step of one processor changes what that processor waits for only. *)
LEMMA CallBarStep ==
    ASSUME AllocInv, AllocInv', NEW p \in Procs,
           \A q \in Procs : q # p => CallOf(q)' = CallOf(q)
    PROVE  callBar' = [callBar EXCEPT ![p] = CallOf(p)']
<1>1. callBar = CallsOf
  BY CallBar
<1>2. AllocInv' => (callBar = CallsOf)'
  BY CallBar, PTL
<1> QED  BY <1>1, <1>2 DEF CallsOf

LEMMA RefinesStep ==
    AllocInv /\ CountInv /\ AllocInv' /\ [AllocNext]_vars => [Runs!RNext]_(Runs!regionVars)
<1> SUFFICES ASSUME AllocInv, CountInv, AllocInv', [AllocNext]_vars
             PROVE  [Runs!RNext]_(Runs!regionVars)
  OBVIOUS
<1>1. CASE UNCHANGED vars
  <2>1. Listed' = Listed
    BY <1>1 DEF vars, Listed, Run
  <2>2. ListedPages' = ListedPages /\ held' = held /\ callBar' = callBar
    BY <1>1, <2>1 DEF vars, locals, ListedPages, callBar
  <2> QED  BY <2>2 DEF Runs!regionVars
<1>2. ASSUME NEW p \in Procs, CallAlloc(p) \/ Enter(p) \/ Alloc(p)
      PROVE  Runs!RNext \/ UNCHANGED Runs!regionVars
  <2>0. /\ pc \in [Procs -> {"idle", "call", "alloc", "reserve", "zsplit",
                             "free", "merge", "unlock"}]
        /\ req \in [Procs -> Requests] /\ ret \in [Procs -> Blocks \cup {NoBlock}]
    BY DEF AllocInv, TypeOK
  <2>1. \A q \in Procs : q # p => CallOf(q)' = CallOf(q)
    BY <1>2, <2>0 DEF CallOf, CallAlloc, Call, Enter, Reject, Lock, Unlock, Return, Alloc,
                AllocTake, Deliver, AllocAscend, AllocSplit, AllocFail
  <2>2. /\ callBar' = [callBar EXCEPT ![p] = CallOf(p)']
        /\ callBar[p] = CallOf(p)
    BY <2>1, CallBarStep, CallBar DEF CallsOf
  <2>3. map' = map => ListedPages' = ListedPages
    BY DEF ListedPages, Listed, Run
  <2>4. CASE CallAlloc(p)
    <3>1. PICK o \in AllocOrders : Call(p, "alloc", o, 0) /\ UNCHANGED held
      BY <2>4 DEF CallAlloc
    <3>2. CallOf(p) = Runs!Idle /\ CallOf(p)' = Runs!AskFor(Runs!BlocksOf(o))
      BY <2>0, <3>1 DEF Call, CallOf
    <3>3. \E a \in 0 .. MAX_ORDER : Runs!BlocksOf(o) = Runs!BlocksOf(a)
      <4>1. CASE o < MAX_ORDER
        BY <4>1, Constants
      <4>2. CASE ~ (o < MAX_ORDER)
        <5>1. o \notin Orders /\ MAX_ORDER \notin Orders /\ MAX_ORDER \in 0 .. MAX_ORDER
          BY <4>2 DEF Orders
        <5>2. Runs!BlocksOf(o) = Runs!BlocksOf(MAX_ORDER)
          BY <5>1, RunsBlocks
        <5> QED  BY <5>1, <5>2
      <4> QED  BY <4>1, <4>2
    <3>4. Runs!Ask(p)
      BY <2>2, <2>3, <3>1, <3>2, <3>3 DEF Call, Runs!Ask
    <3> QED  BY <3>4 DEF Runs!RNext
  <2>5. CASE Reject(p)
    <3>1. CallOf(p) = Runs!AskFor({}) /\ CallOf(p)' = Runs!Idle
      <4>1. req[p].order \notin Orders /\ pc[p] = "call"
        BY <2>5 DEF Reject, TooLarge, Orders
      <4>2. CallOf(p) = Runs!AskFor({})
        BY <4>1, RunsBlocks DEF CallOf
      <4>3. CallOf(p)' = Runs!Idle
        BY <2>0, <2>5 DEF Reject, Return, CallOf
      <4> QED  BY <4>2, <4>3
    <3>2. Runs!Decline(p)
      BY <2>2, <2>3, <2>5, <3>1 DEF Reject, Runs!Decline
    <3> QED  BY <3>2 DEF Runs!RNext
  <2>6. CASE Lock(p) \/ AllocAscend(p)
    <3>1. map' = map /\ held' = held /\ req' = req /\ pc[p] \in {"call", "alloc"}
      BY <2>6 DEF Lock, AllocAscend
    <3>2. pc'[p] = "alloc"
      BY <2>0, <2>6, <3>1 DEF Lock, AllocAscend, AllocInv, WalkOK
    <3>3. CallOf(p)' = CallOf(p)
      BY <3>1, <3>2 DEF CallOf
    <3>4. callBar' = callBar
      BY <2>2, <3>3, CallBar DEF CallsOf
    <3> QED  BY <2>3, <3>1, <3>4 DEF Runs!regionVars
  <2>7. CASE Unlock(p)
    <3>1. CallOf(p) = Runs!Answered(ret[p]) /\ CallOf(p)' = Runs!Idle
      BY <2>0, <2>7 DEF Unlock, Return, CallOf
    <3>2. /\ Runs!Answered(ret[p]).state = "answered"
          /\ Runs!Answered(ret[p]).block = ret[p]
      BY DEF Runs!Answered
    <3>3. held' = held \cup ({ret[p]} \ {NoBlock}) /\ map' = map
      BY <2>7 DEF Unlock
    <3>4. Runs!Answer(p)
      BY <2>2, <2>3, <3>1, <3>2, <3>3 DEF Runs!Answer
    <3> QED  BY <3>4 DEF Runs!RNext
  <2>8. CASE AllocSplit(p)
    <3>1. PICK o, i, c : SplitsFirst(p, o, i, c)
      BY <2>8, SplitLists
    <3>2. ListedPages' = ListedPages
      BY <3>1, SplitPages
    <3>3. CallOf(p)' = CallOf(p) /\ held' = held
      BY <2>8 DEF AllocSplit, CallOf
    <3>4. callBar' = callBar
      BY <2>2, <3>3, CallBar DEF CallsOf
    <3> QED  BY <3>2, <3>3, <3>4 DEF Runs!regionVars
  <2>9. CASE AllocTake(p)
    <3>1. PICK o, i, c : TakesFirst(p, o, i, c)
      BY <2>9, TakeLists
    <3>2. /\ o = lvl[p] /\ o = req[p].order /\ i = map.next_free_page[o] /\ o \in Orders
          /\ i \in Nat /\ i < free_area_length(NPages, o) /\ held' = held
          /\ pc[p] = "alloc"
      BY <2>9, <3>1 DEF TakesFirst, AllocTake
    <3> DEFINE b == <<o, i>>
    <3>3. CallOf(p)' = Runs!Answered(b)
      BY <2>0, <2>9, <3>2 DEF AllocTake, Deliver, CallOf
    <3>4. CallOf(p) = Runs!AskFor(Runs!BlocksOf(o))
      BY <3>2 DEF CallOf
    <3>5. Runs!AskFor(Runs!BlocksOf(o)).state = "ask"
          /\ Runs!AskFor(Runs!BlocksOf(o)).wanted = Runs!BlocksOf(o)
      BY DEF Runs!AskFor
    <3>6. b \in Runs!BlocksOf(o)
      <4>1. free_area_length(NPages, o) \in Nat
        BY <3>2, AreaLength
      <4>2. i \in 0 .. free_area_length(NPages, o) - 1
        BY <3>2, <4>1
      <4> QED  BY <3>2, <4>2, RunsBlocks
    <3>7. Pages(b) \subseteq ListedPages /\ ListedPages' = ListedPages \ Pages(b)
      BY <3>1, TakePages
    <3>8. Runs!Pages(b) = Pages(b)
      BY RunsBlocks
    <3> HIDE DEF b
    <3>9. Runs!Grant(p)
      BY <2>2, <3>2, <3>3, <3>4, <3>5, <3>6, <3>7, <3>8 DEF Runs!Grant
    <3> QED  BY <3>9 DEF Runs!RNext
  <2>10. CASE AllocFail(p)
    <3> DEFINE r == req[p].order
    <3>1. /\ pc[p] = "alloc" /\ lvl[p] = MAX_ORDER - 1 /\ map.pages_free[lvl[p]] = 0
          /\ map' = map /\ held' = held /\ ret' = ret /\ pc' = [pc EXCEPT ![p] = "unlock"]
      BY <2>10 DEF AllocFail
    <3>2. /\ r \in 0 .. lvl[p] /\ r \in Orders /\ ret[p] = NoBlock
          /\ \A o \in Orders : r <= o /\ o < lvl[p] => map.pages_free[o] = 0
      BY <3>1 DEF AllocInv, WalkOK, Orders
    <3>3. \A o \in Orders : o >= r => map.pages_free[o] = 0
      BY <3>1, <3>2 DEF Orders
    <3>4. \A o \in Orders : o < r => map.pages_free[o] <= 1
      <4>1. \A q \in Procs : q # p => pc[q] # "alloc"
        BY <3>1, OnlyOne DEF InBody
      <4> SUFFICES ASSUME NEW o \in Orders, o < r  PROVE map.pages_free[o] <= 1
        OBVIOUS
      <4>2. o \in Orders \ {MAX_ORDER - 1} /\ o # lvl[p]
        BY <3>1, <3>2 DEF Orders
      <4> QED  BY <4>1, <4>2 DEF CountInv, FewBelowTop
    <3>5. \A w \in Runs!BlocksOf(r) : ~ (Runs!Pages(w) \subseteq ListedPages)
      <4> SUFFICES ASSUME NEW w \in Runs!BlocksOf(r)
                   PROVE  ~ (Pages(w) \subseteq ListedPages)
        BY RunsBlocks
      <4>1. w = <<r, w[2]>> /\ w[2] \in 0 .. free_area_length(NPages, r) - 1
        BY <3>2, RunsBlocks
      <4>2. w[2] \in Nat /\ w[2] < free_area_length(NPages, r)
        BY <3>2, <4>1, AreaLength
      <4> HIDE DEF r
      <4>3. ~ (Pages(<<r, w[2]>>) \subseteq ListedPages)
        BY <3>2, <3>3, <3>4, <4>2, NothingOverlooked
      <4> QED  BY <4>1, <4>3
    <3>6. CallOf(p) = Runs!AskFor(Runs!BlocksOf(r)) /\ CallOf(p)' = Runs!Answered(NoBlock)
      BY <2>0, <3>1, <3>2 DEF CallOf
    <3>7. Runs!AskFor(Runs!BlocksOf(r)).state = "ask"
          /\ Runs!AskFor(Runs!BlocksOf(r)).wanted = Runs!BlocksOf(r)
      BY DEF Runs!AskFor
    <3> HIDE DEF r
    <3>8. Runs!Refuse(p)
      BY <2>2, <2>3, <3>1, <3>5, <3>6, <3>7 DEF Runs!Refuse
    <3> QED  BY <3>8 DEF Runs!RNext
  <2> QED  BY <1>2, <2>4, <2>5, <2>6, <2>7, <2>8, <2>9, <2>10 DEF Enter, Alloc
<1> QED  BY <1>1, <1>2 DEF AllocNext

(***************************************************************************)
(* pages_alloc is a PageRegion, for every number of processors, pages and  *)
(* orders: it grants a block of the order that is asked for whose pages    *)
(* are free, answers each call once, and refuses only when no block of     *)
(* that order is free, split or whole, in the region (page.c:440-490).     *)
(***************************************************************************)
THEOREM AllocRefinesRegion == AllocSpec => AllocImplementsPageRegion
<1>1. AllocSpec => [](AllocInv /\ CountInv)
  BY AllocInvAlways, CountInvAlways, PTL
<1>2. Init => Runs!RInit
  BY RefinesInit
<1>3. AllocInv /\ CountInv /\ (AllocInv /\ CountInv)' /\ [AllocNext]_vars
         => [Runs!RNext]_(Runs!regionVars)
  BY RefinesStep
<1> QED  BY <1>1, <1>2, <1>3, PTL DEF AllocSpec, AllocImplementsPageRegion, Runs!RSpec
=============================================================================
