---------------------------- MODULE ProtectProofs ----------------------------
(***************************************************************************)
(* Proofs about a region that mem_p_protect takes its part of and clients  *)
(* then allocate from and free single pages to (ProtectSpec), for every    *)
(* number of processors and pages and every order: no page is lost or in   *)
(* two places, the lists agree with the bits, buddies are merged, the      *)
(* kernel's memory stays out of the allocator, and the region is a         *)
(* PageRegion.                                                             *)
(*                                                                         *)
(* The steps of split, merge, reservation and free change the bits, the    *)
(* counters and the lists separately; each lemma says that such a step     *)
(* leaves the three exact and which blocks are free after it.              *)
(***************************************************************************)
EXTENDS Protect, BuddyProofs, FiniteSetTheorems, WellFoundedInduction

USE MaxOrderAssumption

(***************************************************************************)
(* The invariant.  First what it says of a map by itself: in each order    *)
(* the free blocks lie in the region, the counter is their number, and the *)
(* list begins with the first of them.                                     *)
(***************************************************************************)
Room(o) == free_area_length(NPages, o)

IsFirst(i, S) == i \in S /\ \A j \in S : i <= j

OrderExact(m, o) ==
    /\ m.free_area[o] \subseteq 0 .. Room(o) - 1
    /\ m.pages_free[o] = Cardinality(m.free_area[o])
    /\ m.free_area[o] # {} => IsFirst(m.next_free_page[o], m.free_area[o])

Exact(m) == m \in MapType /\ \A o \in Orders : OrderExact(m, o)

(* The block on its way from or to a client: given back, or to be returned. *)
Hand(p) == IF pc[p] = "unlock" THEN ret[p]
           ELSE IF pc[p] \in {"call", "free"} /\ req[p].op = "free" /\ ~ Stray(req[p])
             THEN Requested(req[p])
             ELSE NoBlock

Hands == [p \in Procs |-> Hand(p)]

(* The blocks whose bits are 0, and the pages in a set of blocks. *)
FreeIn(area) == UNION {{o} \X area[o] : o \in Orders}

PagesIn(F) == {page \in 0 .. NPages - 1 : \E b \in F : Covers(b, page)}

(* Each place where a block can be, with the block that is there. *)
Things(F, H, hand) ==
    {<<0, 0, b>> : b \in F} \cup {<<1, 0, b>> : b \in H}
        \cup {<<2, p, hand[p]>> : p \in {q \in Procs : hand[q] # NoBlock}}

Inside(b) == b \in Blocks /\ b[2] < Room(b[1])

(* Every page is in one block at one place, and every block in the region. *)
Placed(T) ==
    /\ \A x \in T : Inside(x[3])
    /\ \A page \in 0 .. NPages - 1 :
          /\ \E x \in T : Covers(x[3], page)
          /\ \A x, y \in T : Covers(x[3], page) /\ Covers(y[3], page) => x = y

PlacedInv == Placed(Things(FreeIn(map.free_area), held, Hands))

CountedInv == pages_free = Cardinality(PagesIn(FreeIn(map.free_area)))

(* The block that a body works on, which may be free beside its buddy. *)
Worked(p, o, i) ==
    /\ lvl[p] = o
    /\ \/ pc[p] = "alloc" /\ i = map.next_free_page[o]
       \/ pc[p] = "zsplit" /\ i = 0
       \/ pc[p] = "merge" /\ i = pos[p]

CoalescedInv ==
    \A o \in Orders \ {MAX_ORDER - 1} : \A i \in map.free_area[o] :
        BuddyOf(i) \in map.free_area[o] =>
            \E p \in Procs : Worked(p, o, i) \/ Worked(p, o, BuddyOf(i))

(* What a processor's locals say, by themselves and with the map. *)
CallInv(p) ==
    /\ pc[p] # "unlock" => ret[p] = NoBlock
    /\ pc[p] \in {"alloc", "reserve", "free"} => req[p].op = pc[p]
    /\ pc[p] = "zsplit" => req[p].op = "reserve"
    /\ pc[p] = "merge" => req[p].op = "free"
    /\ pc[p] \in {"merge", "unlock"} => ~ Stray(req[p])
    /\ pc[p] # "idle" /\ req[p].op = "free" => Stray(req[p]) \/ req[p].order = 0

BodyInv(p) ==
    /\ pc[p] = "alloc" =>
          /\ req[p].order \in 0 .. lvl[p] /\ lvl[p] \in Orders
          /\ \A o \in Orders : req[p].order <= o /\ o < lvl[p] => map.free_area[o] = {}
    /\ pc[p] = "zsplit" =>
          /\ req[p].order \in 0 .. lvl[p] /\ lvl[p] \in Orders
          /\ req[p].off = 0 /\ pos[p] = 0 /\ 0 \in map.free_area[lvl[p]]
    /\ pc[p] = "free" =>
          /\ lvl[p] = req[p].order /\ pos[p] = req[p].off
          /\ Stray(req[p]) \/ req[p].off = 0 \/ map.free_area[0] # {}
    /\ pc[p] = "merge" =>
          /\ lvl[p] \in Orders \ {MAX_ORDER - 1}
          /\ pos[p] \in map.free_area[lvl[p]] /\ BuddyOf(pos[p]) \in map.free_area[lvl[p]]

(* The block can be had: it is free, or in the first free block above. *)
Available(b) ==
    \/ b[2] \in map.free_area[b[1]]
    \/ b[2] = 0 /\ \E o \in Orders : b[1] <= o /\ 0 \in map.free_area[o]

(* mem_p_protect at work: nothing is taken, and one request is on its way. *)
Protecting ==
    /\ Taken = {}
    /\ \A b \in Protected : Available(b)
    /\ \A p \in Procs : pc[p] # "idle" =>
          /\ pc[p] \in {"call", "reserve", "zsplit"}
          /\ req[p].op = "reserve" /\ <<req[p].order, req[p].off>> \in Protected
          /\ \A q \in Procs : pc[q] # "idle" => p = q

(* ... and afterwards: what it reserved stays taken. *)
AfterProtect ==
    /\ Protected \subseteq Taken
    /\ \A p \in Procs : pc[p] \in {"call", "reserve", "zsplit"} => req[p].op # "reserve"

ProtectInv ==
    /\ TypeOK /\ PcInv /\ place \in Places
    /\ Exact(map) /\ PlacedInv /\ CountedInv /\ CoalescedInv
    /\ \A p \in Procs : CallInv(p) /\ BodyInv(p)
    /\ Protecting \/ AfterProtect

-----------------------------------------------------------------------------
(***************************************************************************)
(* Numbers of blocks and first blocks.                                     *)
(***************************************************************************)

(* A set of numbers that is not empty has a least one, which Min returns. *)
LEMMA MinIsFirst ==
    ASSUME NEW S, S \subseteq Nat, S # {}
    PROVE  IsFirst(Min(S), S)
<1>1. PICK m \in S : \A i \in S : ~ (<<i, m>> \in OpToRel(<, Nat))
  BY NatLessThanWellFounded, WFMin
<1>2. ASSUME NEW i \in S  PROVE m <= i
  <2>1. m \in Nat /\ i \in Nat
    OBVIOUS
  <2>2. ~ (<<i, m>> \in OpToRel(<, Nat))
    BY <1>1
  <2>3. ~ (i < m)
    BY <2>1, <2>2 DEF OpToRel
  <2> QED  BY <2>1, <2>3
<1> QED  BY <1>2 DEF Min, IsFirst

(* The length of an area, and the blocks in it, are no more than the pages. *)
LEMMA RoomIsSmall ==
    ASSUME NEW o \in Orders
    PROVE  /\ Room(o) \in 0 .. NPages
           /\ \A S : S \subseteq 0 .. Room(o) - 1 =>
                /\ S \subseteq Nat
                /\ IsFiniteSet(S) /\ Cardinality(S) \in 0 .. NPages
                /\ (Cardinality(S) = 0 <=> S = {})
                /\ Cardinality(S) \in Counter
<1>1. Room(o) \in 0 .. NPages /\ NPages \in Nat /\ WORD > NPages /\ WORD \in Nat
  BY AreaLength, Constants DEF Room
<1>2. ASSUME NEW S, S \subseteq 0 .. Room(o) - 1
      PROVE  /\ S \subseteq Nat
             /\ IsFiniteSet(S) /\ Cardinality(S) \in 0 .. NPages
             /\ (Cardinality(S) = 0 <=> S = {})
             /\ Cardinality(S) \in Counter
  <2> DEFINE R == Room(o)
             I == 0 .. R - 1
  <2>1. R \in Nat /\ R <= NPages
    BY <1>1
  <2> HIDE DEF R
  <2>2. IsFiniteSet(I) /\ Cardinality(I) = R
    <3>1. 0 \in Int /\ R - 1 \in Int
      BY <2>1
    <3>2. IsFiniteSet(I) /\ Cardinality(I) = IF 0 > R - 1 THEN 0 ELSE R - 1 - 0 + 1
      BY <3>1, FS_Interval
    <3> QED  BY <2>1, <3>2
  <2>3. S \in SUBSET I
    BY <1>2 DEF R
  <2>4. IsFiniteSet(S) /\ Cardinality(S) <= Cardinality(I)
    BY <2>2, <2>3, FS_Subset
  <2>5. Cardinality(S) \in Nat
    BY <2>4, FS_CardinalityType
  <2>6. Cardinality(S) = 0 <=> S = {}
    BY <2>4, FS_EmptySet
  <2>7. S \subseteq Nat
    BY <2>1, <2>3
  <2> HIDE DEF I
  <2> QED  BY <1>1, <2>1, <2>2, <2>4, <2>5, <2>6, <2>7 DEF Counter
<1> QED  BY <1>1, <1>2

(* What an exact map says of an order, in the terms of the source. *)
LEMMA ExactOrder ==
    ASSUME NEW m, Exact(m), NEW o \in Orders
    PROVE  /\ m.free_area[o] \subseteq 0 .. Room(o) - 1
           /\ m.free_area[o] \subseteq Nat /\ IsFiniteSet(m.free_area[o])
           /\ m.pages_free[o] = Cardinality(m.free_area[o])
           /\ m.pages_free[o] \in 0 .. NPages /\ m.pages_free[o] \in Counter
           /\ (m.pages_free[o] = 0 <=> m.free_area[o] = {})
           /\ m.next_free_page[o] \in Nat
           /\ m.free_area[o] # {} => IsFirst(m.next_free_page[o], m.free_area[o])
           /\ FreeFrom(m, o, 0) = m.free_area[o]
<1>1. OrderExact(m, o) /\ m.next_free_page[o] \in Nat
  BY DEF Exact, MapType
<1>2. FreeFrom(m, o, 0) = m.free_area[o]
  BY <1>1 DEF OrderExact, FreeFrom, Room
<1> QED  BY <1>1, <1>2, RoomIsSmall DEF OrderExact

(* A map is made of its three fields. *)
LEMMA MapFields ==
    ASSUME NEW m, NEW a, NEW c, NEW x, m = Map(a, c, x)
    PROVE  /\ m.free_area = a /\ m.pages_free = c /\ m.next_free_page = x
           /\ m \in MapType <=> (/\ a \in [0 .. MAX_ORDER -> SUBSET Nat]
                                 /\ c \in [Orders -> Counter] /\ x \in [Orders -> Nat])
BY DEF Map, MapType

(* Two maps that agree on an order but for its bits. *)
SameOrder(n, m, o) ==
    n.pages_free[o] = m.pages_free[o] /\ n.next_free_page[o] = m.next_free_page[o]

(***************************************************************************)
(* find_next_free_page, when the blocks of the order are all behind the    *)
(* start of the search.                                                    *)
(***************************************************************************)
LEMMA FindNext ==
    ASSUME NEW m \in MapType, NEW o \in Orders, NEW start \in Nat,
           m.free_area[o] \subseteq 0 .. Room(o) - 1,
           \A i \in m.free_area[o] : start <= i
    PROVE  LET n == find_next_free_page(m, o, start)
           IN  /\ n \in MapType /\ n.free_area = m.free_area
               /\ \A q \in Orders \ {o} : SameOrder(n, m, q)
               /\ n.pages_free[o] = IF m.free_area[o] = {} THEN 0 ELSE m.pages_free[o]
               /\ m.free_area[o] # {} => IsFirst(n.next_free_page[o], m.free_area[o])
<1> DEFINE S == m.free_area[o]
           n == find_next_free_page(m, o, start)
<1>1. FreeFrom(m, o, start) = S
  <2>1. Room(o) \in Nat
    BY RoomIsSmall
  <2> QED  BY <2>1 DEF FreeFrom, Room
<1>2. /\ m.free_area \in [0 .. MAX_ORDER -> SUBSET Nat]
      /\ m.pages_free \in [Orders -> Counter]
      /\ m.next_free_page \in [Orders -> Nat]
      /\ S \subseteq Nat /\ 0 \in Counter
  BY RoomIsSmall, Constants DEF MapType, Counter
<1>3. CASE S = {}
  <2>1. n = Map(m.free_area, [m.pages_free EXCEPT ![o] = 0], [m.next_free_page EXCEPT ![o] = 0])
    BY <1>1, <1>3 DEF find_next_free_page
  <2> QED  BY <1>2, <1>3, <2>1 DEF Map, MapType, SameOrder
<1>4. CASE S # {}
  <2> DEFINE i == Min(S)
  <2>1. n = Map(m.free_area, m.pages_free, [m.next_free_page EXCEPT ![o] = i])
    BY <1>1, <1>4 DEF find_next_free_page, set_next
  <2>2. IsFirst(i, S)
    BY <1>2, <1>4, MinIsFirst
  <2> HIDE DEF i, S
  <2>3. i \in Nat
    BY <1>2, <2>2 DEF IsFirst
  <2>4. n.next_free_page[o] = i
    BY <1>2, <2>1 DEF Map
  <2> QED  BY <1>2, <1>4, <2>1, <2>2, <2>3, <2>4 DEF Map, MapType, SameOrder, S
<1> QED  BY <1>3, <1>4

(***************************************************************************)
(* take_next, when the block has just been taken out of the bits: the list *)
(* of the order is exact again (page.c:381-385, 476-480).                  *)
(***************************************************************************)
LEMMA TakeNextExact ==
    ASSUME NEW m \in MapType, NEW o \in Orders,
           m.free_area[o] \subseteq 0 .. Room(o) - 1,
           m.pages_free[o] = Cardinality(m.free_area[o]) + 1,
           \A i \in m.free_area[o] : m.next_free_page[o] + 1 <= i
    PROVE  LET n == take_next(m, o)
           IN  /\ n \in MapType /\ n.free_area = m.free_area
               /\ \A q \in Orders \ {o} : SameOrder(n, m, q)
               /\ OrderExact(n, o)
<1> DEFINE S == m.free_area[o]
           c == m.pages_free[o]
           f == IF c = 1 THEN set_next(m, o, 0)
                ELSE find_next_free_page(m, o, m.next_free_page[o] + 1)
           n == take_next(m, o)
<1>1. /\ m.free_area \in [0 .. MAX_ORDER -> SUBSET Nat]
      /\ m.pages_free \in [Orders -> Counter]
      /\ m.next_free_page \in [Orders -> Nat]
      /\ Cardinality(S) \in Counter /\ (Cardinality(S) = 0 <=> S = {})
      /\ Wrap(c + -1) = Cardinality(S)
  <2>1. Cardinality(S) \in Counter /\ (Cardinality(S) = 0 <=> S = {})
    BY RoomIsSmall
  <2>2. c = Cardinality(S) + 1 /\ c \in Counter /\ m.next_free_page[o] \in Nat
    BY DEF MapType
  <2>3. Wrap(c + -1) = Cardinality(S)
    <3> DEFINE k == Cardinality(S)
    <3>1. k \in Nat
      BY <2>1, Constants DEF Counter
    <3> HIDE DEF k
    <3>2. c + -1 = k
      BY <2>2, <3>1 DEF k
    <3> QED  BY <2>1, <3>2, WrapCounter DEF k
  <2> QED  BY <2>1, <2>3 DEF MapType
<1>2. /\ f \in MapType /\ f.free_area = m.free_area
      /\ \A q \in Orders \ {o} : SameOrder(f, m, q)
      /\ f.pages_free[o] = c
      /\ S # {} => IsFirst(f.next_free_page[o], S)
  <2>1. CASE c = 1
    <3>1. f = set_next(m, o, 0)
      BY <2>1
    <3>2. S = {}
      BY <1>1, <2>1 DEF Counter
    <3> HIDE DEF S, c
    <3> QED  BY <1>1, <3>1, <3>2 DEF set_next, Map, MapType, SameOrder, c, S
  <2>2. CASE c # 1
    <3>1. S # {}
      BY <1>1, <2>2 DEF Counter
    <3>2. m.next_free_page[o] + 1 \in Nat
      BY <1>1
    <3>3. f = find_next_free_page(m, o, m.next_free_page[o] + 1)
      BY <2>2
    <3> QED  BY <3>1, <3>2, <3>3, FindNext
  <2> QED  BY <2>1, <2>2
<1>3. n = Map(f.free_area, [f.pages_free EXCEPT ![o] = Wrap(@ + -1)], f.next_free_page)
  BY DEF take_next, count_add
<1> HIDE DEF f, n
<1>4. /\ f.pages_free \in [Orders -> Counter]
      /\ f.free_area \in [0 .. MAX_ORDER -> SUBSET Nat] /\ f.next_free_page \in [Orders -> Nat]
  BY <1>2 DEF MapType
<1>5. n.pages_free[o] = Cardinality(S)
  BY <1>1, <1>2, <1>3, <1>4 DEF Map
<1>6. n \in MapType
  BY <1>1, <1>2, <1>3, <1>4 DEF Map, MapType
<1>7. \A q \in Orders \ {o} : SameOrder(n, m, q)
  BY <1>2, <1>3, <1>4 DEF Map, SameOrder
<1>8. OrderExact(n, o)
  BY <1>2, <1>3, <1>5 DEF Map, OrderExact
<1> QED  BY <1>2, <1>3, <1>6, <1>7, <1>8 DEF n, Map

(***************************************************************************)
(* Splitting, taking, freeing and merging blocks of an exact map.          *)
(***************************************************************************)

(* The first block of an order is taken (pages_alloc). *)
LEMMA TakeExact ==
    ASSUME NEW m, Exact(m), NEW o \in Orders, m.free_area[o] # {}
    PROVE  LET i == m.next_free_page[o]
               n == take_next(block_set(m, o, i), o)
           IN  Exact(n) /\ n.free_area = [m.free_area EXCEPT ![o] = @ \ {i}]
<1> DEFINE i == m.next_free_page[o]
           h == block_set(m, o, i)
           n == take_next(h, o)
<1>1. m \in MapType /\ IsFirst(i, m.free_area[o]) /\ m.free_area[o] \subseteq 0 .. Room(o) - 1
      /\ i \in Nat /\ i < Room(o) /\ o \in 0 .. MAX_ORDER /\ IsFiniteSet(m.free_area[o])
      /\ m.pages_free[o] = Cardinality(m.free_area[o])
  BY ExactOrder, RoomIsSmall DEF Exact, IsFirst, Orders
<1>2. /\ h \in MapType /\ h.free_area = [m.free_area EXCEPT ![o] = @ \ {i}]
      /\ h.pages_free = m.pages_free /\ h.next_free_page = m.next_free_page
  <2> HIDE DEF i
  <2>1. h = Map([m.free_area EXCEPT ![o] = @ \ {i}], m.pages_free, m.next_free_page) /\ h \in MapType
    BY <1>1, BlockBits DEF Room
  <2> QED  BY <2>1 DEF Map
<1>3. h.free_area[o] = m.free_area[o] \ {i}
  BY <1>1, <1>2 DEF MapType
<1>4. Cardinality(m.free_area[o] \ {i}) = Cardinality(m.free_area[o]) - 1
  BY <1>1, FS_RemoveElement DEF IsFirst
<1> HIDE DEF h, i
<1>5. /\ h.free_area[o] \subseteq 0 .. Room(o) - 1
      /\ h.pages_free[o] = Cardinality(h.free_area[o]) + 1
      /\ \A j \in h.free_area[o] : h.next_free_page[o] + 1 <= j
  <2>1. m.pages_free[o] \in Nat
    BY ExactOrder, Constants
  <2>2. \A j \in m.free_area[o] \ {i} : i + 1 <= j
    BY <1>1, RoomIsSmall DEF IsFirst
  <2>3. h.pages_free[o] = Cardinality(h.free_area[o]) + 1
    <3> DEFINE k == Cardinality(m.free_area[o])
    <3>1. k \in Nat /\ h.pages_free[o] = k /\ Cardinality(h.free_area[o]) = k - 1
      BY <1>1, <1>2, <1>3, <1>4, <2>1
    <3> HIDE DEF k
    <3> QED  BY <3>1
  <2>4. h.free_area[o] \subseteq 0 .. Room(o) - 1
    BY <1>1, <1>3
  <2>5. \A j \in h.free_area[o] : h.next_free_page[o] + 1 <= j
    BY <1>2, <1>3, <2>2 DEF i
  <2> QED  BY <2>3, <2>4, <2>5
<1>6. /\ n \in MapType /\ n.free_area = h.free_area
      /\ \A q \in Orders \ {o} : SameOrder(n, h, q)
      /\ OrderExact(n, o)
  BY <1>2, <1>5, TakeNextExact
<1> HIDE DEF n
<1>7. ASSUME NEW q \in Orders \ {o}  PROVE OrderExact(n, q)
  <2>1. n.free_area[q] = m.free_area[q]
    BY <1>1, <1>2, <1>6 DEF MapType, Orders
  <2>2. SameOrder(n, m, q)
    BY <1>2, <1>6 DEF SameOrder
  <2> QED  BY <2>1, <2>2 DEF Exact, OrderExact, SameOrder
<1>8. Exact(n)
  BY <1>6, <1>7 DEF Exact
<1> QED  BY <1>2, <1>6, <1>8 DEF n, h, i

(* A map after the halves of a block have been freed, and counted and listed. *)
Halved(n, m, o, i) ==
    /\ n \in MapType
    /\ n.free_area = [m.free_area EXCEPT ![o] = @ \ {i}, ![o - 1] = @ \cup {2 * i, 2 * i + 1}]
    /\ \A q \in Orders \ {o - 1} : SameOrder(n, m, q)
    /\ OrderExact(n, o - 1)

(* The halves of a free block, and the count and list of their order. *)
LEMMA HalvesExact ==
    ASSUME NEW m, Exact(m), NEW o \in Orders \ {0}, NEW i \in m.free_area[o],
           2 * i \notin m.free_area[o - 1], 2 * i + 1 \notin m.free_area[o - 1],
           NEW first \in Nat,
           IsFirst(first, m.free_area[o - 1] \cup {2 * i, 2 * i + 1})
    PROVE  Halved(count_add(set_next(halve(m, o, i), o - 1, first), o - 1, 2), m, o, i)
<1> DEFINE h == halve(m, o, i)
           s == set_next(h, o - 1, first)
           n == count_add(s, o - 1, 2)
           L == m.free_area[o - 1] \cup {2 * i, 2 * i + 1}
<1>1. /\ m \in MapType /\ o \in Orders /\ o # 0 /\ o - 1 \in Orders /\ o # o - 1
      /\ o \in 0 .. MAX_ORDER /\ o - 1 \in 0 .. MAX_ORDER
      /\ i \in Nat /\ 2 * i \in Nat /\ 2 * i + 1 \in Nat /\ i < Room(o)
  <2>1. m \in MapType /\ m.free_area[o] \subseteq 0 .. Room(o) - 1 /\ Room(o) \in Nat
    BY ExactOrder, RoomIsSmall DEF Exact
  <2>2. i \in 0 .. Room(o) - 1
    BY <2>1
  <2>3. o \in Orders /\ o # 0 /\ o - 1 \in Orders /\ o # o - 1
      /\ o \in 0 .. MAX_ORDER /\ o - 1 \in 0 .. MAX_ORDER
    BY DEF Orders
  <2> QED  BY <2>1, <2>2, <2>3
<1>2. 2 * i + 1 < Room(o - 1) /\ 2 * i < Room(o - 1)
  <2>1. 2 * i + 1 < Room(o - 1)
    BY <1>1, AreaLength DEF Room
  <2> QED  BY <1>1, <2>1, RoomIsSmall
<1>3. h = Map([m.free_area EXCEPT ![o] = @ \ {i}, ![o - 1] = @ \cup {2 * i, 2 * i + 1}],
              m.pages_free, m.next_free_page)
  <2> DEFINE a == block_set(m, o, i)
             b == block_clear(a, o - 1, 2 * i)
             c == block_clear(b, o - 1, 2 * i + 1)
  <2>1. a \in MapType /\ a = Map([m.free_area EXCEPT ![o] = @ \ {i}],
                                 m.pages_free, m.next_free_page)
    BY <1>1, BlockBits DEF Room
  <2>2. b \in MapType /\ b = Map([a.free_area EXCEPT ![o - 1] = @ \cup {2 * i}],
                                 a.pages_free, a.next_free_page)
    <3> HIDE DEF a
    <3> QED  BY <1>1, <1>2, <2>1, BlockBits DEF Room
  <2>3. c = Map([b.free_area EXCEPT ![o - 1] = @ \cup {2 * i + 1}],
                b.pages_free, b.next_free_page)
    <3> HIDE DEF b
    <3> QED  BY ZenonT(60), <1>1, <1>2, <2>2, BlockBits DEF Room
  <2>4. h = c
    BY DEF halve
  <2> HIDE DEF a, b, c, h
  <2>5. m.free_area \in [0 .. MAX_ORDER -> SUBSET Nat]
    BY <1>1 DEF MapType
  <2> QED  BY <1>1, <2>1, <2>2, <2>3, <2>4, <2>5 DEF Map
<1>4. m.free_area \in [0 .. MAX_ORDER -> SUBSET Nat] /\ m.pages_free \in [Orders -> Counter]
      /\ m.next_free_page \in [Orders -> Nat]
  BY <1>1 DEF MapType
<1> HIDE DEF h
<1>5. n = Map([m.free_area EXCEPT ![o] = @ \ {i}, ![o - 1] = @ \cup {2 * i, 2 * i + 1}],
              [m.pages_free EXCEPT ![o - 1] = Wrap(@ + 2)],
              [m.next_free_page EXCEPT ![o - 1] = first])
  BY <1>3 DEF set_next, count_add, Map
<1>6. /\ n.free_area = [m.free_area EXCEPT ![o] = @ \ {i}, ![o - 1] = @ \cup {2 * i, 2 * i + 1}]
      /\ n.pages_free = [m.pages_free EXCEPT ![o - 1] = Wrap(@ + 2)]
      /\ n.next_free_page = [m.next_free_page EXCEPT ![o - 1] = first]
      /\ n \in MapType <=> (/\ n.free_area \in [0 .. MAX_ORDER -> SUBSET Nat]
                            /\ n.pages_free \in [Orders -> Counter]
                            /\ n.next_free_page \in [Orders -> Nat])
  <2> DEFINE a == [m.free_area EXCEPT ![o] = @ \ {i}, ![o - 1] = @ \cup {2 * i, 2 * i + 1}]
             c == [m.pages_free EXCEPT ![o - 1] = Wrap(@ + 2)]
             x == [m.next_free_page EXCEPT ![o - 1] = first]
  <2>1. n = Map(a, c, x)
    BY <1>5
  <2> HIDE DEF a, c, x, n
  <2>2. /\ n.free_area = a /\ n.pages_free = c /\ n.next_free_page = x
        /\ n \in MapType <=> (/\ n.free_area \in [0 .. MAX_ORDER -> SUBSET Nat]
                              /\ n.pages_free \in [Orders -> Counter]
                              /\ n.next_free_page \in [Orders -> Nat])
    BY <2>1, MapFields
  <2>3. n.free_area = [m.free_area EXCEPT ![o] = @ \ {i}, ![o - 1] = @ \cup {2 * i, 2 * i + 1}]
    BY <2>2 DEF a
  <2>4. n.pages_free = [m.pages_free EXCEPT ![o - 1] = Wrap(@ + 2)]
    BY <2>2 DEF c
  <2>5. n.next_free_page = [m.next_free_page EXCEPT ![o - 1] = first]
    BY <2>2 DEF x
  <2> QED  BY <2>2, <2>3, <2>4, <2>5
<1> HIDE DEF n
<1>7. L \subseteq 0 .. Room(o - 1) - 1 /\ Cardinality(L) = m.pages_free[o - 1] + 2
      /\ Cardinality(L) \in Counter
  <2> DEFINE A == m.free_area[o - 1]
  <2>1. /\ A \subseteq 0 .. Room(o - 1) - 1 /\ IsFiniteSet(A)
        /\ m.pages_free[o - 1] = Cardinality(A) /\ Room(o - 1) \in Nat
        /\ Cardinality(A) \in Nat
    BY <1>1, ExactOrder, RoomIsSmall, Constants
  <2>2. /\ IsFiniteSet(A \cup {2 * i}) /\ Cardinality(A \cup {2 * i}) = Cardinality(A) + 1
    BY <2>1, FS_AddElement
  <2>3. 2 * i + 1 \notin A \cup {2 * i}
    BY <1>1
  <2>4. Cardinality((A \cup {2 * i}) \cup {2 * i + 1}) = Cardinality(A) + 1 + 1
    BY <2>2, <2>3, FS_AddElement
  <2>5. L = (A \cup {2 * i}) \cup {2 * i + 1}
    OBVIOUS
  <2>6. L \subseteq 0 .. Room(o - 1) - 1
    BY <1>1, <1>2, <2>1
  <2>7. Cardinality(L) \in Counter
    BY <1>1, <2>6, RoomIsSmall
  <2>8. Cardinality(L) = Cardinality(A) + 2
    <3>1. Cardinality(L) = Cardinality(A) + 1 + 1
      BY <2>4, <2>5
    <3> HIDE DEF L, A
    <3> QED  BY <2>1, <3>1
  <2> QED  BY <2>1, <2>6, <2>7, <2>8
<1>8. Wrap(m.pages_free[o - 1] + 2) = Cardinality(L)
  BY <1>7, WrapCounter
<1> HIDE DEF L
<1>9. n.pages_free[o - 1] = Cardinality(L) /\ n.next_free_page[o - 1] = first
      /\ n.free_area[o - 1] = L
  <2>1. n.free_area[o - 1] = L
    BY <1>1, <1>4, <1>6 DEF L
  <2> QED  BY <1>1, <1>4, <1>6, <1>8, <2>1
<1>10. n \in MapType
  <2>1. n.free_area \in [0 .. MAX_ORDER -> SUBSET Nat]
    <3> DEFINE s1 == m.free_area[o] \ {i}
               s2 == m.free_area[o - 1] \cup {2 * i, 2 * i + 1}
    <3>1. s1 \in SUBSET Nat /\ s2 \in SUBSET Nat
      BY <1>1, <1>4
    <3>2. n.free_area = [m.free_area EXCEPT ![o] = s1, ![o - 1] = s2]
      BY <1>6
    <3> HIDE DEF s1, s2
    <3> QED  BY <1>1, <1>4, <3>1, <3>2
  <2>2. n.pages_free \in [Orders -> Counter] /\ n.next_free_page \in [Orders -> Nat]
    BY SMTT(60), <1>1, <1>4, <1>6, <1>7, <1>8
  <2> QED  BY <1>6, <2>1, <2>2
<1>11. OrderExact(n, o - 1)
  BY <1>7, <1>9 DEF OrderExact, L
<1>12. \A q \in Orders \ {o - 1} : SameOrder(n, m, q)
  BY <1>1, <1>4, <1>6 DEF SameOrder
<1>13. Halved(n, m, o, i)
  BY <1>6, <1>10, <1>11, <1>12 DEF Halved
<1> QED  BY <1>13 DEF n, h

(* The block itself leaves its order's list, if it is the first one there. *)
LEMMA SplitRest ==
    ASSUME NEW m, Exact(m), NEW o \in Orders \ {0}, NEW i \in m.free_area[o],
           i = m.next_free_page[o], NEW l, Halved(l, m, o, i)
    PROVE  LET n == take_next(l, o)
           IN  Exact(n) /\ n.free_area = l.free_area /\ SameOrder(n, l, o - 1)
<1> DEFINE n == take_next(l, o)
           x == m.free_area[o] \ {i}
           y == m.free_area[o - 1] \cup {2 * i, 2 * i + 1}
<1>1. o \in Orders /\ o - 1 \in Orders /\ o # o - 1
  BY DEF Orders
<1>2. /\ m \in MapType /\ IsFirst(i, m.free_area[o]) /\ m.free_area[o] \subseteq 0 .. Room(o) - 1
      /\ IsFiniteSet(m.free_area[o]) /\ m.pages_free[o] = Cardinality(m.free_area[o])
      /\ m.pages_free[o] \in Nat /\ m.free_area[o] \subseteq Nat
  <2>1. m.pages_free[o] \in Nat
    BY <1>1, ExactOrder, Constants
  <2> QED  BY <1>1, <2>1, ExactOrder DEF Exact
<1>3. /\ l \in MapType /\ l.free_area[o] = x
      /\ \A q \in Orders \ {o, o - 1} : l.free_area[q] = m.free_area[q]
      /\ \A q \in Orders \ {o - 1} : SameOrder(l, m, q)
      /\ OrderExact(l, o - 1)
  <2>1. m.free_area \in [0 .. MAX_ORDER -> SUBSET Nat] /\ l.free_area = [m.free_area EXCEPT ![o] = x, ![o - 1] = y]
    BY <1>2 DEF MapType, Halved
  <2> HIDE DEF x, y
  <2>2. l.free_area[o] = x /\ \A q \in Orders \ {o, o - 1} : l.free_area[q] = m.free_area[q]
    BY SMTT(60), <1>1, <2>1 DEF Orders
  <2> QED  BY <2>2 DEF Halved
<1>4. l.pages_free[o] = m.pages_free[o] /\ l.next_free_page[o] = i
  BY <1>1, <1>3 DEF SameOrder
<1>5. /\ l.free_area[o] \subseteq 0 .. Room(o) - 1
      /\ l.pages_free[o] = Cardinality(l.free_area[o]) + 1
      /\ \A j \in l.free_area[o] : l.next_free_page[o] + 1 <= j
  <2>1. Cardinality(m.free_area[o] \ {i}) = Cardinality(m.free_area[o]) - 1
    BY <1>2, FS_RemoveElement
  <2>2. l.pages_free[o] = Cardinality(l.free_area[o]) + 1
    <3> DEFINE k == Cardinality(m.free_area[o])
    <3>1. k \in Nat /\ l.pages_free[o] = k /\ Cardinality(l.free_area[o]) = k - 1
      BY <1>2, <1>3, <1>4, <2>1
    <3> HIDE DEF k
    <3> QED  BY <3>1
  <2>3. \A j \in m.free_area[o] \ {i} : i + 1 <= j
    BY <1>2 DEF IsFirst
  <2> QED  BY <1>2, <1>3, <1>4, <2>2, <2>3
<1>6. /\ n \in MapType /\ n.free_area = l.free_area
      /\ \A q \in Orders \ {o} : SameOrder(n, l, q)
      /\ OrderExact(n, o)
  BY <1>1, <1>3, <1>5, TakeNextExact
<1> HIDE DEF n
<1>7. ASSUME NEW q \in Orders \ {o}  PROVE OrderExact(n, q)
  <2>1. CASE q = o - 1
    BY <1>3, <1>6, <2>1 DEF OrderExact, SameOrder
  <2>2. CASE q # o - 1
    <3>1. n.free_area[q] = m.free_area[q]
      BY <1>3, <1>6, <2>2
    <3>2. SameOrder(n, m, q)
      BY <1>3, <1>6, <2>2 DEF SameOrder
    <3> QED  BY <3>1, <3>2 DEF Exact, OrderExact, SameOrder
  <2> QED  BY <2>1, <2>2
<1>8. Exact(n)
  BY <1>6, <1>7 DEF Exact
<1>9. SameOrder(n, l, o - 1)
  BY <1>1, <1>6
<1> QED  BY <1>6, <1>8, <1>9 DEF n

(* block_split: the first free block of an order, when the order below is empty. *)
LEMMA SplitExact ==
    ASSUME NEW m, Exact(m), NEW o \in Orders \ {0}, m.free_area[o] # {},
           m.free_area[o - 1] = {}
    PROVE  LET i == m.next_free_page[o]
               n == split_next(m, o)
           IN  /\ Exact(n) /\ n.next_free_page[o - 1] = 2 * i
               /\ n.free_area = [m.free_area EXCEPT ![o] = @ \ {i},
                                                   ![o - 1] = @ \cup {2 * i, 2 * i + 1}]
<1> DEFINE i == m.next_free_page[o]
           l == count_add(set_next(halve(m, o, i), o - 1, 2 * i), o - 1, 2)
           n == split_next(m, o)
<1>1. /\ i \in Nat /\ i \in m.free_area[o] /\ o - 1 \in Orders /\ m.pages_free[o - 1] = 0
      /\ 2 * i \in Nat
  <2>1. o \in Orders /\ o - 1 \in Orders
    BY DEF Orders
  <2>2. i \in Nat /\ i \in m.free_area[o] /\ m.pages_free[o - 1] = 0
    BY <2>1, ExactOrder DEF IsFirst
  <2> QED  BY <2>1, <2>2
<1>2. n = take_next(l, o)
  BY <1>1 DEF split_next
<1>3. Halved(l, m, o, i)
  <2>1. IsFirst(2 * i, m.free_area[o - 1] \cup {2 * i, 2 * i + 1})
    BY <1>1 DEF IsFirst
  <2> HIDE DEF i
  <2> QED  BY <1>1, <2>1, HalvesExact
<1> HIDE DEF l, n, i
<1>4. i = m.next_free_page[o]
  BY DEF i
<1>5. Exact(n) /\ n.free_area = l.free_area /\ SameOrder(n, l, o - 1)
  BY <1>1, <1>2, <1>3, <1>4, SplitRest
<1>6. n.free_area = [m.free_area EXCEPT ![o] = @ \ {i}, ![o - 1] = @ \cup {2 * i, 2 * i + 1}]
  BY <1>3, <1>5 DEF Halved
<1>7. n.free_area[o - 1] = {2 * i, 2 * i + 1}
  <2> DEFINE x == m.free_area[o] \ {i}
             y == m.free_area[o - 1] \cup {2 * i, 2 * i + 1}
  <2>1. n.free_area = [m.free_area EXCEPT ![o] = x, ![o - 1] = y] /\ o - 1 \in 0 .. MAX_ORDER
        /\ m.free_area \in [0 .. MAX_ORDER -> SUBSET Nat]
    BY <1>1, <1>6 DEF Orders, Exact, MapType
  <2>2. y = {2 * i, 2 * i + 1}
    OBVIOUS
  <2> HIDE DEF x, y
  <2>3. n.free_area[o - 1] = y
    BY <2>1
  <2> QED  BY <2>2, <2>3
<1>8. n.next_free_page[o - 1] = 2 * i
  <2>1. IsFirst(n.next_free_page[o - 1], {2 * i, 2 * i + 1})
    BY ZenonT(60), <1>1, <1>5, <1>7, ExactOrder
  <2> QED  BY <1>1, <2>1 DEF IsFirst
<1> QED  BY <1>5, <1>6, <1>8 DEF n, i

(* zblock_split: the first block of the region, which is the first of its order. *)
LEMMA ZsplitExact ==
    ASSUME NEW m, Exact(m), NEW o \in Orders \ {0}, NEW i, i = 0, i \in m.free_area[o],
           2 * i \notin m.free_area[o - 1], 2 * i + 1 \notin m.free_area[o - 1]
    PROVE  LET n == zsplit_at(m, o, i)
           IN  /\ Exact(n)
               /\ n.free_area = [m.free_area EXCEPT ![o] = @ \ {i},
                                                   ![o - 1] = @ \cup {2 * i, 2 * i + 1}]
<1> DEFINE twice == 2 * m.next_free_page[o]
           first == IF m.next_free_page[o - 1] > twice THEN twice ELSE m.next_free_page[o - 1]
           l == count_add(set_next(halve(m, o, i), o - 1, first), o - 1, 2)
           n == zsplit_at(m, o, i)
<1>1. /\ m.next_free_page[o] = i /\ first = 0 /\ o \in Orders /\ o - 1 \in Orders
      /\ m.free_area[o - 1] \subseteq Nat
  <2>1. o \in Orders /\ o - 1 \in Orders
    BY DEF Orders
  <2>2. /\ m.next_free_page[o] \in Nat /\ IsFirst(m.next_free_page[o], m.free_area[o])
        /\ m.next_free_page[o - 1] \in Nat /\ m.free_area[o - 1] \subseteq Nat
    BY <2>1, ExactOrder
  <2>3. m.next_free_page[o] = 0
    BY <2>2 DEF IsFirst
  <2> QED  BY <2>1, <2>2, <2>3
<1>2. Halved(l, m, o, i)
  <2>1. IsFirst(0, m.free_area[o - 1] \cup {2 * i, 2 * i + 1}) /\ 0 \in Nat
    BY <1>1 DEF IsFirst
  <2> HIDE DEF first
  <2> QED  BY <1>1, <2>1, HalvesExact
<1>3. l.pages_free[o] = m.pages_free[o] /\ l.next_free_page[o] = i
  <2>1. o \in Orders \ {o - 1}
    BY DEF Orders
  <2> QED  BY <1>1, <1>2, <2>1 DEF Halved, SameOrder
<1>4. n = take_next(l, o)
  <2>1. n = count_add(IF m.pages_free[o] = 1 THEN set_next(l, o, 0)
                      ELSE IF i = m.next_free_page[o] THEN find_next_free_page(l, o, i + 1) ELSE l,
                      o, -1)
    BY DEF zsplit_at
  <2> HIDE DEF l, n
  <2> QED  BY <1>1, <1>3, <2>1 DEF take_next
<1> HIDE DEF l, n
<1>5. Exact(n) /\ n.free_area = l.free_area
  BY <1>1, <1>2, <1>4, SplitRest
<1> QED  BY <1>2, <1>5 DEF Halved, n

(* A given free block is taken (pages_reserve). *)
LEMMA ReserveExact ==
    ASSUME NEW m, Exact(m), NEW o \in Orders, NEW i \in m.free_area[o]
    PROVE  LET n == reserve_at(m, o, i)
           IN  Exact(n) /\ n.free_area = [m.free_area EXCEPT ![o] = @ \ {i}]
<1> DEFINE h == block_set(m, o, i)
           c == count_add(h, o, -1)
           n == reserve_at(m, o, i)
           S == m.free_area[o] \ {i}
<1>1. /\ m \in MapType /\ m.free_area[o] \subseteq 0 .. Room(o) - 1 /\ m.free_area[o] \subseteq Nat
      /\ i \in Nat /\ i < Room(o) /\ o \in 0 .. MAX_ORDER /\ IsFiniteSet(m.free_area[o])
      /\ m.pages_free[o] = Cardinality(m.free_area[o]) /\ m.pages_free[o] \in Nat
      /\ m.next_free_page[o] \in Nat /\ IsFirst(m.next_free_page[o], m.free_area[o])
      /\ S \subseteq 0 .. Room(o) - 1
  <2>1. m.pages_free[o] \in Nat
    BY ExactOrder, Constants
  <2>2. i \in Nat /\ i < Room(o)
    BY ExactOrder, RoomIsSmall
  <2> QED  BY <2>1, <2>2, ExactOrder DEF Exact, Orders
<1>2. h = Map([m.free_area EXCEPT ![o] = S], m.pages_free, m.next_free_page)
  BY <1>1, BlockBits DEF Room
<1>3. Wrap(m.pages_free[o] + -1) = Cardinality(S) /\ Cardinality(S) \in Counter
  <2> DEFINE k == Cardinality(m.free_area[o])
             s == Cardinality(S)
  <2>1. s = k - 1 /\ k \in Nat
    BY <1>1, FS_RemoveElement
  <2>2. s \in Counter /\ m.pages_free[o] = k
    BY <1>1, RoomIsSmall
  <2> HIDE DEF k, s
  <2>3. m.pages_free[o] + -1 = s
    BY <2>1, <2>2
  <2> QED  BY <2>2, <2>3, WrapCounter DEF s
<1>4. /\ c \in MapType /\ c.free_area = [m.free_area EXCEPT ![o] = S]
      /\ c.free_area[o] = S
      /\ c.pages_free[o] = Cardinality(S) /\ c.next_free_page = m.next_free_page
      /\ \A q \in Orders \ {o} : SameOrder(c, m, q)
  <2> DEFINE a == [m.free_area EXCEPT ![o] = S]
             k == [m.pages_free EXCEPT ![o] = Wrap(@ + -1)]
  <2> HIDE DEF S
  <2>1. c = Map(a, k, m.next_free_page)
    BY <1>2 DEF count_add, Map
  <2>2. /\ a \in [0 .. MAX_ORDER -> SUBSET Nat] /\ a[o] = S
        /\ k \in [Orders -> Counter] /\ m.next_free_page \in [Orders -> Nat]
        /\ k[o] = Cardinality(S) /\ \A q \in Orders \ {o} : k[q] = m.pages_free[q]
    <3>1. S \subseteq Nat
      BY <1>1 DEF S
    <3> QED  BY <1>1, <1>3, <3>1 DEF MapType
  <2> HIDE DEF a, k, c
  <2>3. c \in MapType /\ c.free_area = a /\ c.pages_free = k /\ c.next_free_page = m.next_free_page
    BY <2>1, <2>2, MapFields
  <2> QED  BY <2>2, <2>3 DEF a, SameOrder
<1>5. n = IF m.next_free_page[o] = i THEN find_next_free_page(c, o, i + 1) ELSE c
  <2>1. n = IF c.next_free_page[o] = i THEN find_next_free_page(c, o, i + 1) ELSE c
    BY DEF reserve_at
  <2> QED  BY <1>4, <2>1
<1> HIDE DEF n, c, h
<1>6. /\ n \in MapType /\ n.free_area = c.free_area
      /\ \A q \in Orders \ {o} : SameOrder(n, m, q)
      /\ OrderExact(n, o)
  <2>1. CASE m.next_free_page[o] = i
    <3>1. \A j \in S : i + 1 <= j
      BY <1>1, <2>1 DEF IsFirst
    <3>2. i + 1 \in Nat
      BY <1>1
    <3>3. n = find_next_free_page(c, o, i + 1)
      BY <1>5, <2>1
    <3>4. /\ n \in MapType /\ n.free_area = c.free_area
          /\ \A q \in Orders \ {o} : SameOrder(n, c, q)
          /\ n.pages_free[o] = IF S = {} THEN 0 ELSE c.pages_free[o]
          /\ S # {} => IsFirst(n.next_free_page[o], S)
      <4> HIDE DEF S
      <4>1. c.free_area[o] = S /\ S \subseteq 0 .. Room(o) - 1 /\ c \in MapType
        BY <1>1, <1>4
      <4>2. \A j \in c.free_area[o] : i + 1 <= j
        BY <3>1, <4>1
      <4>3. /\ n \in MapType /\ n.free_area = c.free_area
            /\ \A q \in Orders \ {o} : SameOrder(n, c, q)
            /\ n.pages_free[o] = IF c.free_area[o] = {} THEN 0 ELSE c.pages_free[o]
            /\ c.free_area[o] # {} => IsFirst(n.next_free_page[o], c.free_area[o])
        BY <3>2, <3>3, <4>1, <4>2, FindNext
      <4> QED  BY <4>1, <4>3
    <3>5. S = {} => Cardinality(S) = 0
      BY FS_EmptySet
    <3> HIDE DEF S
    <3>6. OrderExact(n, o)
      BY <1>1, <1>4, <3>4, <3>5 DEF OrderExact
    <3>7. \A q \in Orders \ {o} : SameOrder(n, m, q)
      BY <1>4, <3>4 DEF SameOrder
    <3> QED  BY <3>4, <3>6, <3>7
  <2>2. CASE m.next_free_page[o] # i
    <3>1. n = c
      BY <1>5, <2>2
    <3>2. IsFirst(m.next_free_page[o], S)
      BY <1>1, <2>2 DEF IsFirst
    <3> HIDE DEF S
    <3>3. OrderExact(n, o)
      BY <1>1, <1>4, <3>1, <3>2 DEF OrderExact
    <3> QED  BY <1>4, <3>1, <3>3
  <2> QED  BY <2>1, <2>2
<1>7. ASSUME NEW q \in Orders \ {o}  PROVE OrderExact(n, q)
  <2>1. n.free_area[q] = m.free_area[q]
    BY <1>1, <1>4, <1>6 DEF MapType, Orders
  <2> QED  BY <1>6, <2>1 DEF Exact, OrderExact, SameOrder
<1> QED  BY <1>4, <1>6, <1>7 DEF Exact, n

(* A block is given back to its order (pages_free), unless the list may not *)
(* be looked at because the order is empty: then only the first block.      *)
LEMMA FreeExact ==
    ASSUME NEW m, Exact(m), NEW o \in Orders, NEW i \in Nat, i < Room(o),
           i \notin m.free_area[o], m.free_area[o] # {} \/ i = 0
    PROVE  LET c == count_add(block_clear(m, o, i), o, 1)
               n == IF i < c.next_free_page[o] THEN set_next(c, o, i) ELSE c
           IN  /\ Exact(n) /\ n.free_area = [m.free_area EXCEPT ![o] = @ \cup {i}]
               /\ c.free_area = n.free_area
<1> DEFINE h == block_clear(m, o, i)
           c == count_add(h, o, 1)
           n == IF i < c.next_free_page[o] THEN set_next(c, o, i) ELSE c
           A == m.free_area[o]
           S == A \cup {i}
<1>1. /\ m \in MapType /\ A \subseteq 0 .. Room(o) - 1 /\ o \in 0 .. MAX_ORDER
      /\ IsFiniteSet(A) /\ m.pages_free[o] = Cardinality(A) /\ m.pages_free[o] \in Counter
      /\ m.next_free_page[o] \in Nat /\ (A # {} => IsFirst(m.next_free_page[o], A))
      /\ Room(o) \in Nat
  BY ExactOrder, RoomIsSmall DEF Exact, Orders
<1>2. S \subseteq 0 .. Room(o) - 1 /\ S \subseteq Nat
  BY <1>1
<1>3. Wrap(m.pages_free[o] + 1) = Cardinality(S) /\ Cardinality(S) \in Counter
  <2>1. Cardinality(S) = Cardinality(A) + 1
    BY <1>1, FS_AddElement
  <2>2. Cardinality(S) \in Counter
    BY <1>2, RoomIsSmall
  <2> HIDE DEF S, A
  <2> QED  BY <1>1, <2>1, <2>2, WrapCounter
<1>4. /\ c \in MapType /\ c.free_area = [m.free_area EXCEPT ![o] = S]
      /\ c.free_area[o] = S
      /\ \A q \in Orders \ {o} : c.free_area[q] = m.free_area[q]
      /\ c.pages_free[o] = Cardinality(S) /\ c.next_free_page = m.next_free_page
      /\ \A q \in Orders \ {o} : SameOrder(c, m, q)
  <2> DEFINE a == [m.free_area EXCEPT ![o] = S]
             k == [m.pages_free EXCEPT ![o] = Wrap(@ + 1)]
  <2>1. c = Map(a, k, m.next_free_page)
    <3>1. h = Map(a, m.pages_free, m.next_free_page)
      BY <1>1, BlockBits DEF Room
    <3> HIDE DEF a, h
    <3> QED  BY <3>1 DEF count_add, Map
  <2> HIDE DEF S
  <2>2. /\ a \in [0 .. MAX_ORDER -> SUBSET Nat] /\ a[o] = S
        /\ \A q \in Orders \ {o} : a[q] = m.free_area[q]
        /\ k \in [Orders -> Counter] /\ m.next_free_page \in [Orders -> Nat]
        /\ k[o] = Cardinality(S) /\ \A q \in Orders \ {o} : k[q] = m.pages_free[q]
    <3>1. m.free_area \in [0 .. MAX_ORDER -> SUBSET Nat] /\ m.pages_free \in [Orders -> Counter]
          /\ m.next_free_page \in [Orders -> Nat]
      BY <1>1 DEF MapType
    <3> QED  BY SMTT(60), <1>1, <1>2, <1>3, <3>1 DEF Orders
  <2> HIDE DEF a, k, c
  <2>3. c \in MapType /\ c.free_area = a /\ c.pages_free = k /\ c.next_free_page = m.next_free_page
    BY <2>1, <2>2, MapFields
  <2> QED  BY <2>2, <2>3 DEF a, SameOrder
<1> HIDE DEF c, h
<1>5. /\ n \in MapType /\ n.free_area = c.free_area /\ n.pages_free = c.pages_free
      /\ \A q \in Orders \ {o} : SameOrder(n, m, q)
      /\ n.next_free_page[o] = IF i < m.next_free_page[o] THEN i ELSE m.next_free_page[o]
  <2>1. CASE i < c.next_free_page[o]
    <3> DEFINE x == [c.next_free_page EXCEPT ![o] = i]
    <3>1. n = Map(c.free_area, c.pages_free, x)
      BY <2>1 DEF set_next
    <3>2. /\ x \in [Orders -> Nat] /\ c.free_area \in [0 .. MAX_ORDER -> SUBSET Nat]
          /\ c.pages_free \in [Orders -> Counter] /\ x[o] = i
          /\ \A q \in Orders \ {o} : x[q] = c.next_free_page[q]
      BY <1>4 DEF MapType
    <3> HIDE DEF x, n
    <3>3. n \in MapType /\ n.free_area = c.free_area /\ n.pages_free = c.pages_free /\ n.next_free_page = x
      BY <3>1, <3>2, MapFields
    <3> QED  BY <1>4, <2>1, <3>2, <3>3 DEF SameOrder
  <2>2. CASE ~ (i < c.next_free_page[o])
    BY <1>4, <2>2 DEF SameOrder
  <2> QED  BY <2>1, <2>2
<1> HIDE DEF n
<1>6. IsFirst(n.next_free_page[o], S)
  <2>1. CASE A = {}
    BY <1>1, <1>5, <2>1 DEF IsFirst
  <2>2. CASE A # {}
    <3>1. IsFirst(m.next_free_page[o], A) /\ A \subseteq Nat
      BY <1>1, <2>2
    <3> QED  BY <1>1, <1>5, <3>1 DEF IsFirst
  <2> QED  BY <2>1, <2>2
<1> HIDE DEF S
<1>7. OrderExact(n, o)
  BY <1>2, <1>4, <1>5, <1>6 DEF OrderExact
<1>8. ASSUME NEW q \in Orders \ {o}  PROVE OrderExact(n, q)
  BY <1>4, <1>5 DEF Exact, OrderExact, SameOrder
<1> QED  BY <1>4, <1>5, <1>7, <1>8 DEF Exact, n, c, h, S

(* Two free blocks are buddies, and the block that they make is not free. *)
CanMerge(m, o, i, j) ==
    /\ j = i \div 2
    /\ 2 * j \in m.free_area[o] /\ 2 * j + 1 \in m.free_area[o]
    /\ j \notin m.free_area[o + 1]

(* block_merge: a free block and its buddy become one block of the next order. *)
LEMMA MergeExact ==
    ASSUME NEW m, Exact(m), NEW o \in Orders \ {MAX_ORDER - 1}, NEW i \in Nat, NEW j \in Nat,
           CanMerge(m, o, i, j)
    PROVE  LET n == merge_at(m, o, i)
           IN  /\ Exact(n)
               /\ n.free_area = [m.free_area EXCEPT ![o] = @ \ {2 * j, 2 * j + 1},
                                                   ![o + 1] = @ \cup {j}]
<1> DEFINE e == 2 * j
           A == m.free_area[o]
           B == m.free_area[o + 1]
           X == A \ {e, e + 1}
           Y == B \cup {j}
           w == block_clear(block_set(block_set(m, o, e), o, e + 1), o + 1, j)
           v == count_add(count_add(w, o, -2), o + 1, 1)
           r == IF v.next_free_page[o] \in {e, e + 1}
                  THEN find_next_free_page(v, o, e + 2) ELSE v
           n == merge_at(m, o, i)
<1>0. /\ j = i \div 2 /\ 2 * j \in m.free_area[o] /\ 2 * j + 1 \in m.free_area[o]
      /\ j \notin m.free_area[o + 1]
  BY DEF CanMerge
<1> USE <1>0
<1>1. /\ o \in Orders /\ o + 1 \in Orders /\ o # o + 1 /\ o \in 0 .. MAX_ORDER
      /\ o + 1 \in 0 .. MAX_ORDER /\ o \in 0 .. 8 /\ (o + 1) - 1 = o /\ o + 1 # 0
  BY DEF Orders
<1>2. /\ m \in MapType /\ A \subseteq 0 .. Room(o) - 1 /\ A \subseteq Nat /\ IsFiniteSet(A)
      /\ m.pages_free[o] = Cardinality(A) /\ m.pages_free[o] \in Counter
      /\ IsFirst(m.next_free_page[o], A)
      /\ B \subseteq 0 .. Room(o + 1) - 1 /\ B \subseteq Nat /\ IsFiniteSet(B)
      /\ m.pages_free[o + 1] = Cardinality(B) /\ m.pages_free[o + 1] \in Counter
      /\ m.next_free_page[o + 1] \in Nat
      /\ (B # {} => IsFirst(m.next_free_page[o + 1], B))
  BY <1>1, ExactOrder DEF Exact
<1>3. /\ e \in Nat /\ e + 1 \in Nat /\ e < Room(o) /\ e + 1 < Room(o) /\ j < Room(o + 1)
      /\ Room(o) \in Nat /\ Room(o + 1) \in Nat
  <2>1. /\ Room(o) \in Nat /\ Room(o + 1) \in Nat
        /\ Room(o) = 2 * Room(o + 1) + (Room(o) % 2)
    BY <1>1, HalveArea DEF Room
  <2>2. e < Room(o) /\ e + 1 < Room(o)
    BY <1>2, <2>1
  <2> QED  BY <2>1, <2>2
<1>4. X \subseteq 0 .. Room(o) - 1 /\ Y \subseteq 0 .. Room(o + 1) - 1 /\ X \subseteq Nat /\ Y \subseteq Nat
  BY <1>2, <1>3
<1>5. m.free_area \in [0 .. MAX_ORDER -> SUBSET Nat] /\ m.pages_free \in [Orders -> Counter]
      /\ m.next_free_page \in [Orders -> Nat]
  BY <1>2 DEF MapType
<1>6. w = Map([m.free_area EXCEPT ![o] = X, ![o + 1] = Y], m.pages_free, m.next_free_page)
  <2> DEFINE a == block_set(m, o, e)
             b == block_set(a, o, e + 1)
             c == block_clear(b, o + 1, j)
  <2>1. a \in MapType /\ a = Map([m.free_area EXCEPT ![o] = @ \ {e}],
                                 m.pages_free, m.next_free_page)
    BY <1>1, <1>2, <1>3, BlockBits DEF Room
  <2>2. b \in MapType /\ b = Map([a.free_area EXCEPT ![o] = @ \ {e + 1}],
                                 a.pages_free, a.next_free_page)
    <3> HIDE DEF a, e
    <3> QED  BY <1>1, <1>3, <2>1, BlockBits DEF Room
  <2>3. c = Map([b.free_area EXCEPT ![o + 1] = @ \cup {j}],
                b.pages_free, b.next_free_page)
    <3>1. o + 1 \in Orders /\ j < free_area_length(NPages, o + 1) /\ b \in MapType
      BY <1>1, <1>3, <2>2 DEF Room
    <3> HIDE DEF b, w, v, r, n, A, B, X, Y
    <3> QED  BY <3>1, BlockBits
  <2>4. w = c
    OBVIOUS
  <2> HIDE DEF a, b, c, w
  <2> QED  BY <1>1, <1>5, <2>1, <2>2, <2>3, <2>4 DEF Map
<1>7. /\ Wrap(m.pages_free[o] + -2) = Cardinality(X) /\ Cardinality(X) \in Counter
      /\ Wrap(m.pages_free[o + 1] + 1) = Cardinality(Y) /\ Cardinality(Y) \in Counter
      /\ X = {} => Cardinality(X) = 0
      /\ Cardinality(Y) = 1 => B = {}
  <2>1. Cardinality(X) \in Counter /\ Cardinality(Y) \in Counter /\ (X = {} => Cardinality(X) = 0)
    BY <1>1, <1>4, RoomIsSmall
  <2>2. Cardinality(Y) = Cardinality(B) + 1
    BY <1>2, FS_AddElement
  <2>3. Cardinality(B) = 0 => B = {}
    BY <1>2, FS_EmptySet
  <2>4. Cardinality(X) = Cardinality(A) - 1 - 1
    <3>1. IsFiniteSet(A \ {e}) /\ Cardinality(A \ {e}) = Cardinality(A) - 1
      BY <1>2, FS_RemoveElement
    <3>2. e + 1 \in A \ {e}
      BY <1>3
    <3> DEFINE A1 == A \ {e}
               f == e + 1
    <3>3. X = A1 \ {f} /\ f \in A1 /\ IsFiniteSet(A1) /\ Cardinality(A1) = Cardinality(A) - 1
      BY <3>1, <3>2
    <3> HIDE DEF A1, A, X, f
    <3>4. Cardinality(A1 \ {f}) = Cardinality(A1) - 1
      BY <3>3, FS_RemoveElement
    <3> QED  BY <3>3, <3>4
  <2> HIDE DEF X, Y, A, B
  <2>5. Wrap(m.pages_free[o] + -2) = Cardinality(X)
    <3> DEFINE s == Cardinality(X)
               k == Cardinality(A)
    <3>1. s \in Counter /\ s = k - 1 - 1 /\ m.pages_free[o] = k /\ k \in Nat
      BY <1>2, <2>1, <2>4, Constants DEF Counter
    <3> HIDE DEF s, k
    <3>2. m.pages_free[o] + -2 = s
      BY <3>1
    <3> QED  BY <3>1, <3>2, WrapCounter DEF s
  <2>6. Wrap(m.pages_free[o + 1] + 1) = Cardinality(Y)
    BY <1>2, <2>1, <2>2, WrapCounter
  <2>7. Cardinality(Y) = 1 => B = {}
    BY <1>2, <2>2, <2>3 DEF Counter
  <2> QED  BY <2>1, <2>5, <2>6, <2>7
<1> HIDE DEF w
<1>8. /\ v \in MapType /\ v.free_area = [m.free_area EXCEPT ![o] = X, ![o + 1] = Y]
      /\ v.free_area[o] = X /\ v.free_area[o + 1] = Y
      /\ \A q \in Orders \ {o, o + 1} : v.free_area[q] = m.free_area[q] /\ SameOrder(v, m, q)
      /\ v.pages_free[o] = Cardinality(X) /\ v.pages_free[o + 1] = Cardinality(Y)
      /\ v.next_free_page = m.next_free_page
  <2> DEFINE a == [m.free_area EXCEPT ![o] = X, ![o + 1] = Y]
             k == [m.pages_free EXCEPT ![o] = Wrap(@ + -2)]
             l == [k EXCEPT ![o + 1] = Wrap(@ + 1)]
  <2> HIDE DEF X, Y
  <2>1. v = Map(a, l, m.next_free_page)
    <3> HIDE DEF a
    <3> QED  BY <1>6 DEF count_add, Map, a
  <2>2. /\ a \in [0 .. MAX_ORDER -> SUBSET Nat] /\ a[o] = X /\ a[o + 1] = Y
        /\ \A q \in Orders \ {o, o + 1} : a[q] = m.free_area[q]
    <3>1. X \in SUBSET Nat /\ Y \in SUBSET Nat
      BY <1>4
    <3>2. o \in 0 .. MAX_ORDER /\ o + 1 \in 0 .. MAX_ORDER /\ o # o + 1
          /\ m.free_area \in [0 .. MAX_ORDER -> SUBSET Nat]
      BY <1>1, <1>5
    <3>3. Orders \subseteq 0 .. MAX_ORDER
      BY DEF Orders
    <3> HIDE DEF w, v, r, n, A, B, l, k
    <3> QED  BY <3>1, <3>2, <3>3
  <2>3. /\ k \in [Orders -> Counter] /\ k[o] = Cardinality(X)
        /\ \A q \in Orders \ {o} : k[q] = m.pages_free[q]
    BY <1>1, <1>5, <1>7
  <2> HIDE DEF k
  <2>4. /\ l \in [Orders -> Counter] /\ l[o] = Cardinality(X) /\ l[o + 1] = Cardinality(Y)
        /\ \A q \in Orders \ {o, o + 1} : l[q] = m.pages_free[q]
    BY <1>1, <1>7, <2>3
  <2> HIDE DEF a, l, v
  <2>5. v \in MapType /\ v.free_area = a /\ v.pages_free = l /\ v.next_free_page = m.next_free_page
    BY SMTT(60), <1>5, <2>1, <2>2, <2>4, MapFields
  <2> QED  BY <2>2, <2>4, <2>5 DEF a, SameOrder
<1> HIDE DEF v
<1>9. /\ r \in MapType /\ r.free_area = v.free_area /\ OrderExact(r, o)
      /\ \A q \in Orders \ {o} : SameOrder(r, v, q)
  <2>1. CASE v.next_free_page[o] \in {e, e + 1}
    <3>1. \A k \in v.free_area[o] : e + 2 <= k
      <4>1. IsFirst(m.next_free_page[o], A) /\ m.next_free_page[o] \in {e, e + 1} /\ A \subseteq Nat
        BY <1>2, <1>8, <2>1
      <4> SUFFICES ASSUME NEW k \in X  PROVE e + 2 <= k
        BY <1>8
      <4>2. k \in Nat /\ k # e /\ k # e + 1 /\ m.next_free_page[o] <= k
        BY <4>1 DEF IsFirst
      <4> HIDE DEF e
      <4> QED  BY <1>3, <4>1, <4>2
    <3>2. r = find_next_free_page(v, o, e + 2) /\ e + 2 \in Nat
      BY <1>3, <2>1
    <3>3. v.free_area[o] \subseteq 0 .. Room(o) - 1
      BY <1>4, <1>8
    <3> HIDE DEF X, r, e
    <3>4. /\ r \in MapType /\ r.free_area = v.free_area
          /\ \A q \in Orders \ {o} : SameOrder(r, v, q)
          /\ r.pages_free[o] = IF v.free_area[o] = {} THEN 0 ELSE v.pages_free[o]
          /\ v.free_area[o] # {} => IsFirst(r.next_free_page[o], v.free_area[o])
      <4> DEFINE st == e + 2
      <4>1. /\ v \in MapType /\ o \in Orders /\ st \in Nat /\ r = find_next_free_page(v, o, st)
            /\ \A k \in v.free_area[o] : st <= k
        BY <1>1, <1>8, <3>1, <3>2
      <4> HIDE DEF st, n, A, B
      <4> QED  BY <3>3, <4>1, FindNext
    <3>5. OrderExact(r, o)
      BY <1>4, <1>7, <1>8, <3>4 DEF OrderExact
    <3> QED  BY <3>4, <3>5
  <2>2. CASE v.next_free_page[o] \notin {e, e + 1}
    <3>1. r = v
      BY <2>2
    <3>2. IsFirst(m.next_free_page[o], X)
      BY <1>2, <1>8, <2>2 DEF IsFirst
    <3> HIDE DEF X
    <3>3. OrderExact(v, o)
      BY <1>4, <1>8, <3>2 DEF OrderExact
    <3> QED  BY <1>8, <3>1, <3>3 DEF SameOrder
  <2> QED  BY <2>1, <2>2
<1>10. n = IF r.next_free_page[o + 1] > j \/ r.pages_free[o + 1] = 1
             THEN set_next(r, o + 1, j) ELSE r
  BY DEF merge_at, w, v
<1> HIDE DEF r, n
<1>11. r.pages_free[o + 1] = Cardinality(Y) /\ r.next_free_page[o + 1] = m.next_free_page[o + 1]
  BY <1>1, <1>8, <1>9 DEF SameOrder
<1>12. /\ n \in MapType /\ n.free_area = v.free_area /\ OrderExact(n, o)
       /\ \A q \in Orders \ {o, o + 1} : SameOrder(n, m, q)
       /\ n.pages_free[o + 1] = Cardinality(Y)
       /\ IsFirst(n.next_free_page[o + 1], Y)
  <2>1. CASE r.next_free_page[o + 1] > j \/ r.pages_free[o + 1] = 1
    <3> DEFINE x == [r.next_free_page EXCEPT ![o + 1] = j]
    <3>1. n = Map(r.free_area, r.pages_free, x)
      BY <1>10, <2>1 DEF set_next
    <3>2. /\ x \in [Orders -> Nat] /\ r.free_area \in [0 .. MAX_ORDER -> SUBSET Nat]
          /\ r.pages_free \in [Orders -> Counter] /\ x[o + 1] = j
          /\ \A q \in Orders \ {o + 1} : x[q] = r.next_free_page[q]
      BY <1>1, <1>9 DEF MapType
    <3> HIDE DEF x
    <3>3. n \in MapType /\ n.free_area = r.free_area /\ n.pages_free = r.pages_free /\ n.next_free_page = x
      BY <3>1, <3>2, MapFields
    <3>4. IsFirst(j, Y)
      <4>1. B # {} => IsFirst(m.next_free_page[o + 1], B) /\ j < m.next_free_page[o + 1]
        BY <1>2, <1>7, <1>11, <2>1
      <4> QED  BY <1>2, <4>1 DEF IsFirst
    <3>5. OrderExact(n, o)
      <4>1. r.next_free_page[o] = n.next_free_page[o]
        BY <1>1, <3>2, <3>3
      <4> QED  BY <1>9, <3>3, <4>1 DEF OrderExact
    <3> HIDE DEF Y
    <3> QED  BY <1>8, <1>9, <1>11, <3>2, <3>3, <3>4, <3>5 DEF SameOrder
  <2>2. CASE ~ (r.next_free_page[o + 1] > j \/ r.pages_free[o + 1] = 1)
    <3>1. n = r
      BY <1>10, <2>2
    <3>2. IsFirst(m.next_free_page[o + 1], Y)
      <4>1. Cardinality(Y) # 1 /\ m.next_free_page[o + 1] <= j
        BY <1>2, <1>11, <2>2
      <4>2. B # {}
        <5> SUFFICES ASSUME B = {}  PROVE FALSE
          OBVIOUS
        <5>1. Y = {j}
          OBVIOUS
        <5>2. Cardinality({j}) = 1
          BY FS_Singleton
        <5> QED  BY <4>1, <5>1, <5>2
      <4>3. IsFirst(m.next_free_page[o + 1], B)
        BY <1>2, <4>2
      <4> QED  BY <4>1, <4>3 DEF IsFirst
    <3> HIDE DEF Y
    <3> QED  BY <1>8, <1>9, <1>11, <3>1, <3>2 DEF SameOrder
  <2> QED  BY <2>1, <2>2
<1>13. OrderExact(n, o + 1)
  <2> HIDE DEF Y
  <2> QED  BY <1>4, <1>8, <1>12 DEF OrderExact
<1>14. ASSUME NEW q \in Orders \ {o, o + 1}  PROVE OrderExact(n, q)
  BY <1>8, <1>12 DEF Exact, OrderExact, SameOrder
<1>15. Exact(n)
  BY <1>12, <1>13, <1>14 DEF Exact
<1> QED  BY <1>8, <1>12, <1>15 DEF n, e, X, Y, A, B

-----------------------------------------------------------------------------
(***************************************************************************)
(* Where the blocks are, and how a block moves from one place to another.  *)
(***************************************************************************)

(* A block in the region is no failed allocation, and has a page. *)
LEMMA InsideBlock ==
    ASSUME NEW b, Inside(b)
    PROVE  /\ b # NoBlock /\ b = <<b[1], b[2]>>
           /\ b[1] \in Orders /\ b[2] \in Nat /\ b \in Blocks
           /\ Pages(b) = {page \in 0 .. NPages - 1 : Covers(b, page)}
           /\ \E page \in 0 .. NPages - 1 : Covers(b, page)
<1>1. b \in Blocks /\ b[2] < free_area_length(NPages, b[1])
  BY DEF Inside, Room
<1>2. b = <<b[1], b[2]>> /\ b[1] \in Orders /\ b[2] \in Nat
  BY <1>1 DEF Blocks
<1>3. b # NoBlock
  BY <1>2 DEF NoBlock, Orders
<1>4. \E page \in 0 .. NPages - 1 : Covers(b, page)
  BY <1>1, <1>2, BlockHasPage DEF Covers
<1> QED  BY <1>1, <1>2, <1>3, <1>4, PagesAreCovered

(* Some blocks are replaced by others that have the same pages. *)
LEMMA Replaced ==
    ASSUME NEW T, Placed(T), NEW O \in SUBSET T, NEW N, NEW U, U = (T \ O) \cup N,
           \A y \in N : Inside(y[3]),
           \A page \in 0 .. NPages - 1 :
              (\E x \in O : Covers(x[3], page)) <=> (\E y \in N : Covers(y[3], page)),
           \A page \in 0 .. NPages - 1 :
              \A y, z \in N : Covers(y[3], page) /\ Covers(z[3], page) => y = z
    PROVE  Placed(U)
<1>1. \A x \in U : Inside(x[3])
  BY DEF Placed
<1>2. ASSUME NEW page \in 0 .. NPages - 1
      PROVE  \E x \in U : Covers(x[3], page)
  <2>1. PICK x \in T : Covers(x[3], page)
    BY DEF Placed
  <2> QED  BY <2>1
<1>3. ASSUME NEW page \in 0 .. NPages - 1, NEW y \in U, NEW z \in U,
             Covers(y[3], page), Covers(z[3], page)
      PROVE  y = z
  <2>1. \A v \in N, w \in T \ O : ~ (Covers(v[3], page) /\ Covers(w[3], page))
    <3> SUFFICES ASSUME NEW v \in N, NEW w \in T \ O, Covers(v[3], page), Covers(w[3], page)
                 PROVE  FALSE
      OBVIOUS
    <3>1. PICK x \in O : Covers(x[3], page)
      OBVIOUS
    <3>2. x = w
      BY <3>1 DEF Placed
    <3> QED  BY <3>2
  <2>2. CASE y \in N /\ z \in N
    BY <1>3, <2>2
  <2>3. CASE y \in T \ O /\ z \in T \ O
    BY <1>3, <2>3 DEF Placed
  <2> QED  BY <1>3, <2>1, <2>2, <2>3
<1> QED  BY <1>1, <1>2, <1>3 DEF Placed

(* One block goes to another place. *)
LEMMA Moved ==
    ASSUME NEW T, Placed(T), NEW x \in T, NEW y, y[3] = x[3]
    PROVE  Placed((T \ {x}) \cup {y})
<1>1. Inside(y[3])
  BY DEF Placed
<1> DEFINE O == {x}
           N == {y}
<1>2. /\ \A z \in N : Inside(z[3])
      /\ \A page \in 0 .. NPages - 1 :
            (\E z \in O : Covers(z[3], page)) <=> (\E z \in N : Covers(z[3], page))
      /\ \A page \in 0 .. NPages - 1 :
            \A v, z \in N : Covers(v[3], page) /\ Covers(z[3], page) => v = z
      /\ O \in SUBSET T
  BY <1>1
<1> HIDE DEF O, N
<1>3. Placed((T \ O) \cup N)
  BY <1>2, Replaced
<1> QED  BY <1>3 DEF O, N

(* No block is in two places. *)
LEMMA OnePlace ==
    ASSUME NEW T, Placed(T), NEW x \in T, NEW y \in T, x[3] = y[3]
    PROVE  x = y
<1>1. PICK page \in 0 .. NPages - 1 : Covers(x[3], page)
  BY InsideBlock DEF Placed
<1> QED  BY <1>1 DEF Placed

(* The things, one by one. *)
LEMMA InThings ==
    ASSUME NEW F, NEW H, NEW hand, NEW z
    PROVE  z \in Things(F, H, hand) <=>
              \/ \E b \in F : z = <<0, 0, b>>
              \/ \E b \in H : z = <<1, 0, b>>
              \/ \E q \in Procs : hand[q] # NoBlock /\ z = <<2, q, hand[q]>>
BY DEF Things

LEMMA ThingsInside ==
    ASSUME NEW F, NEW H, NEW hand, Placed(Things(F, H, hand))
    PROVE  /\ \A b \in F : Inside(b)
           /\ \A b \in H : Inside(b)
           /\ \A q \in Procs : hand[q] # NoBlock => Inside(hand[q])
<1> DEFINE T == Things(F, H, hand)
<1>1. \A x \in T : Inside(x[3])
  BY DEF Placed
<1>2. /\ \A b \in F : <<0, 0, b>> \in T
      /\ \A b \in H : <<1, 0, b>> \in T
      /\ \A q \in Procs : hand[q] # NoBlock => <<2, q, hand[q]>> \in T
  BY InThings
<1> HIDE DEF T
<1>3. /\ \A b \in F : Inside(<<0, 0, b>>[3])
      /\ \A b \in H : Inside(<<1, 0, b>>[3])
      /\ \A q \in Procs : hand[q] # NoBlock => Inside(<<2, q, hand[q]>>[3])
  BY <1>1, <1>2
<1> QED  BY <1>3

(* A free block is taken, for a client to get it. *)
LEMMA FreeToHand ==
    ASSUME NEW F, NEW H, NEW hand, Placed(Things(F, H, hand)), NEW p \in Procs,
           DOMAIN hand = Procs, hand[p] = NoBlock, NEW b \in F
    PROVE  Placed(Things(F \ {b}, H, [hand EXCEPT ![p] = b]))
<1> DEFINE T == Things(F, H, hand)
           h == [hand EXCEPT ![p] = b]
           U == Things(F \ {b}, H, h)
           x == <<0, 0, b>>
           y == <<2, p, b>>
<1>1. b # NoBlock
  BY ThingsInside, InsideBlock
<1>2. h[p] = b /\ \A q \in Procs \ {p} : h[q] = hand[q]
  OBVIOUS
<1> HIDE DEF h
<1>3. U = (T \ {x}) \cup {y}
  <2>1. ASSUME NEW z \in U  PROVE z \in (T \ {x}) \cup {y}
    BY <1>2, InThings
  <2>2. ASSUME NEW z \in (T \ {x}) \cup {y}  PROVE z \in U
    BY <1>1, <1>2, InThings
  <2> QED  BY <2>1, <2>2
<1>4. x \in T
  BY InThings
<1> HIDE DEF T, U
<1>5. Placed((T \ {x}) \cup {y})
  BY <1>4, Moved DEF T
<1> QED  BY <1>3, <1>5 DEF U, h

(* A block that was given back becomes free. *)
LEMMA HandToFree ==
    ASSUME NEW F, NEW H, NEW hand, Placed(Things(F, H, hand)), NEW p \in Procs,
           DOMAIN hand = Procs, hand[p] # NoBlock
    PROVE  Placed(Things(F \cup {hand[p]}, H, [hand EXCEPT ![p] = NoBlock]))
<1> DEFINE T == Things(F, H, hand)
           h == [hand EXCEPT ![p] = NoBlock]
           b == hand[p]
           U == Things(F \cup {b}, H, h)
           x == <<2, p, b>>
           y == <<0, 0, b>>
<1>2. h[p] = NoBlock /\ \A q \in Procs \ {p} : h[q] = hand[q]
  OBVIOUS
<1> HIDE DEF h
<1>3. U = (T \ {x}) \cup {y}
  <2>1. ASSUME NEW z \in U  PROVE z \in (T \ {x}) \cup {y}
    BY <1>2, InThings
  <2>2. ASSUME NEW z \in (T \ {x}) \cup {y}  PROVE z \in U
    BY <1>2, InThings
  <2> QED  BY <2>1, <2>2
<1>4. x \in T
  BY InThings
<1> HIDE DEF T, U
<1>5. Placed((T \ {x}) \cup {y})
  BY <1>4, Moved DEF T
<1> QED  BY <1>3, <1>5 DEF U, h

(* A block that was returned is held. *)
LEMMA HandToHeld ==
    ASSUME NEW F, NEW H, NEW hand, Placed(Things(F, H, hand)), NEW p \in Procs,
           DOMAIN hand = Procs, hand[p] # NoBlock
    PROVE  Placed(Things(F, H \cup {hand[p]}, [hand EXCEPT ![p] = NoBlock]))
<1> DEFINE T == Things(F, H, hand)
           h == [hand EXCEPT ![p] = NoBlock]
           b == hand[p]
           U == Things(F, H \cup {b}, h)
           x == <<2, p, b>>
           y == <<1, 0, b>>
<1>2. h[p] = NoBlock /\ \A q \in Procs \ {p} : h[q] = hand[q]
  OBVIOUS
<1> HIDE DEF h
<1>3. U = (T \ {x}) \cup {y}
  <2>1. ASSUME NEW z \in U  PROVE z \in (T \ {x}) \cup {y}
    BY <1>2, InThings
  <2>2. ASSUME NEW z \in (T \ {x}) \cup {y}  PROVE z \in U
    BY <1>2, InThings
  <2> QED  BY <2>1, <2>2
<1>4. x \in T
  BY InThings
<1> HIDE DEF T, U
<1>5. Placed((T \ {x}) \cup {y})
  BY <1>4, Moved DEF T
<1> QED  BY <1>3, <1>5 DEF U, h

(* A held block is given back. *)
LEMMA HeldToHand ==
    ASSUME NEW F, NEW H, NEW hand, Placed(Things(F, H, hand)), NEW p \in Procs,
           DOMAIN hand = Procs, hand[p] = NoBlock, NEW b \in H
    PROVE  Placed(Things(F, H \ {b}, [hand EXCEPT ![p] = b]))
<1> DEFINE T == Things(F, H, hand)
           h == [hand EXCEPT ![p] = b]
           U == Things(F, H \ {b}, h)
           x == <<1, 0, b>>
           y == <<2, p, b>>
<1>1. b # NoBlock
  BY ThingsInside, InsideBlock
<1>2. h[p] = b /\ \A q \in Procs \ {p} : h[q] = hand[q]
  OBVIOUS
<1> HIDE DEF h
<1>3. U = (T \ {x}) \cup {y}
  <2>1. ASSUME NEW z \in U  PROVE z \in (T \ {x}) \cup {y}
    BY <1>2, InThings
  <2>2. ASSUME NEW z \in (T \ {x}) \cup {y}  PROVE z \in U
    BY <1>1, <1>2, InThings
  <2> QED  BY <2>1, <2>2
<1>4. x \in T
  BY InThings
<1> HIDE DEF T, U
<1>5. Placed((T \ {x}) \cup {y})
  BY <1>4, Moved DEF T
<1> QED  BY <1>3, <1>5 DEF U, h

-----------------------------------------------------------------------------
(***************************************************************************)
(* The free blocks of a map whose bits have changed, and their pages.      *)
(***************************************************************************)
Areas == [0 .. MAX_ORDER -> SUBSET Nat]

LEMMA InFree ==
    ASSUME NEW area
    PROVE  /\ \A b : b \in FreeIn(area) <=>
                 b = <<b[1], b[2]>> /\ b[1] \in Orders /\ b[2] \in area[b[1]]
           /\ \A o \in Orders : \A i : <<o, i>> \in FreeIn(area) <=> i \in area[o]
<1>1. \A b : b \in FreeIn(area) <=> \E o \in Orders : b \in {o} \X area[o]
  BY DEF FreeIn
<1>2. \A o : \A b : b \in {o} \X area[o] <=> b = <<b[1], b[2]>> /\ b[1] = o /\ b[2] \in area[o]
  OBVIOUS
<1> QED  BY <1>1, <1>2

LEMMA FreeTaken ==
    ASSUME NEW area \in Areas, NEW o \in Orders, NEW i
    PROVE  FreeIn([area EXCEPT ![o] = @ \ {i}]) = FreeIn(area) \ {<<o, i>>}
<1> DEFINE n == [area EXCEPT ![o] = @ \ {i}]
<1>1. n[o] = area[o] \ {i} /\ \A q \in Orders \ {o} : n[q] = area[q]
  BY DEF Areas, Orders
<1> HIDE DEF n
<1>2. \A b : b \in FreeIn(n) <=> b \in FreeIn(area) \ {<<o, i>>}
  <2> TAKE b
  <2>1. b \in FreeIn(n) <=> b = <<b[1], b[2]>> /\ b[1] \in Orders /\ b[2] \in n[b[1]]
    BY InFree
  <2>2. b \in FreeIn(area) <=> b = <<b[1], b[2]>> /\ b[1] \in Orders /\ b[2] \in area[b[1]]
    BY InFree
  <2>3. CASE b[1] = o
    BY <1>1, <2>1, <2>2, <2>3
  <2>4. CASE b[1] # o
    BY <1>1, <2>1, <2>2, <2>4
  <2> QED  BY <2>3, <2>4
<1> QED  BY <1>2 DEF n

LEMMA FreeGiven ==
    ASSUME NEW area \in Areas, NEW o \in Orders, NEW i
    PROVE  FreeIn([area EXCEPT ![o] = @ \cup {i}]) = FreeIn(area) \cup {<<o, i>>}
<1> DEFINE n == [area EXCEPT ![o] = @ \cup {i}]
<1>1. n[o] = area[o] \cup {i} /\ \A q \in Orders \ {o} : n[q] = area[q]
  BY DEF Areas, Orders
<1> HIDE DEF n
<1>2. \A b : b \in FreeIn(n) <=> b \in FreeIn(area) \cup {<<o, i>>}
  <2> TAKE b
  <2>1. b \in FreeIn(n) <=> b = <<b[1], b[2]>> /\ b[1] \in Orders /\ b[2] \in n[b[1]]
    BY InFree
  <2>2. b \in FreeIn(area) <=> b = <<b[1], b[2]>> /\ b[1] \in Orders /\ b[2] \in area[b[1]]
    BY InFree
  <2>3. CASE b[1] = o
    BY <1>1, <2>1, <2>2, <2>3
  <2>4. CASE b[1] # o
    BY <1>1, <2>1, <2>2, <2>4
  <2> QED  BY <2>3, <2>4
<1> QED  BY <1>2 DEF n

(* A block replaced by its halves, and two buddies by the whole. *)
IsHalved(new, area, o, i) ==
    new = [area EXCEPT ![o] = @ \ {i}, ![o - 1] = @ \cup {2 * i, 2 * i + 1}]

IsJoined(new, area, o, j) ==
    new = [area EXCEPT ![o] = @ \ {2 * j, 2 * j + 1}, ![o + 1] = @ \cup {j}]

LEMMA FreeHalved ==
    ASSUME NEW area \in Areas, NEW new, NEW o \in Orders \ {0}, NEW i,
           IsHalved(new, area, o, i)
    PROVE  FreeIn(new)
             = (FreeIn(area) \ {<<o, i>>}) \cup {<<o - 1, 2 * i>>, <<o - 1, 2 * i + 1>>}
<1> DEFINE l == o - 1
           x == area[o] \ {i}
           y == area[l] \cup {2 * i, 2 * i + 1}
           n == [area EXCEPT ![o] = x, ![l] = y]
<1>1. o \in Orders /\ l \in Orders /\ o # l
  BY DEF Orders
<1>2. n[o] = x /\ n[l] = y /\ \A q \in Orders \ {o, l} : n[q] = area[q]
  <2>1. DOMAIN area = 0 .. MAX_ORDER /\ o \in 0 .. MAX_ORDER /\ l \in 0 .. MAX_ORDER
        /\ \A q \in Orders : q \in 0 .. MAX_ORDER
    BY <1>1 DEF Areas, Orders
  <2> HIDE DEF x, y, l
  <2> QED  BY <1>1, <2>1
<1>3. new = n
  BY <1>1 DEF IsHalved
<1> HIDE DEF n, l
<1>4. \A b : b \in FreeIn(n) <=> b \in (FreeIn(area) \ {<<o, i>>}) \cup {<<l, 2 * i>>, <<l, 2 * i + 1>>}
  <2> TAKE b
  <2>1. b \in FreeIn(n) <=> b = <<b[1], b[2]>> /\ b[1] \in Orders /\ b[2] \in n[b[1]]
    BY InFree
  <2>2. b \in FreeIn(area) <=> b = <<b[1], b[2]>> /\ b[1] \in Orders /\ b[2] \in area[b[1]]
    BY InFree
  <2>3. CASE b[1] = l
    BY <1>1, <1>2, <2>1, <2>2, <2>3
  <2>4. CASE b[1] = o
    BY <1>1, <1>2, <2>1, <2>2, <2>4
  <2>5. CASE b[1] \notin {l, o}
    BY <1>1, <1>2, <2>1, <2>2, <2>5
  <2> QED  BY <2>3, <2>4, <2>5
<1> QED  BY <1>3, <1>4 DEF l

LEMMA FreeJoined ==
    ASSUME NEW area \in Areas, NEW new, NEW o \in Orders \ {MAX_ORDER - 1}, NEW j,
           IsJoined(new, area, o, j)
    PROVE  FreeIn(new)
             = (FreeIn(area) \ {<<o, 2 * j>>, <<o, 2 * j + 1>>}) \cup {<<o + 1, j>>}
<1> DEFINE u == o + 1
           x == area[o] \ {2 * j, 2 * j + 1}
           y == area[u] \cup {j}
           n == [area EXCEPT ![o] = x, ![u] = y]
<1>1. o \in Orders /\ u \in Orders /\ o # u
  BY DEF Orders
<1>2. n[o] = x /\ n[u] = y /\ \A q \in Orders \ {o, u} : n[q] = area[q]
  <2>1. DOMAIN area = 0 .. MAX_ORDER /\ o \in 0 .. MAX_ORDER /\ u \in 0 .. MAX_ORDER
        /\ \A q \in Orders : q \in 0 .. MAX_ORDER
    BY <1>1 DEF Areas, Orders
  <2> HIDE DEF x, y, u
  <2> QED  BY <1>1, <2>1
<1>3. new = n
  BY <1>1 DEF IsJoined
<1> HIDE DEF n, u
<1>4. \A b : b \in FreeIn(n) <=> b \in (FreeIn(area) \ {<<o, 2 * j>>, <<o, 2 * j + 1>>}) \cup {<<u, j>>}
  <2> TAKE b
  <2>1. b \in FreeIn(n) <=> b = <<b[1], b[2]>> /\ b[1] \in Orders /\ b[2] \in n[b[1]]
    BY InFree
  <2>2. b \in FreeIn(area) <=> b = <<b[1], b[2]>> /\ b[1] \in Orders /\ b[2] \in area[b[1]]
    BY InFree
  <2>3. CASE b[1] = u
    BY <1>1, <1>2, <2>1, <2>2, <2>3
  <2>4. CASE b[1] = o
    BY <1>1, <1>2, <2>1, <2>2, <2>4
  <2>5. CASE b[1] \notin {u, o}
    BY <1>1, <1>2, <2>1, <2>2, <2>5
  <2> QED  BY <2>3, <2>4, <2>5
<1> QED  BY <1>3, <1>4 DEF u

(* A block of an order has that many pages. *)
LEMMA BlockSize ==
    ASSUME NEW b \in Blocks
    PROVE  IsFiniteSet(Pages(b)) /\ Cardinality(Pages(b)) = ORDER(b[1])
<1> DEFINE o == b[1]
           i == b[2]
           x == i * ORDER(o)
           y == (i + 1) * ORDER(o) - 1
<1>1. o \in 0 .. 9 /\ i \in Nat
  BY DEF Blocks, Orders
<1> HIDE DEF o, i
<1>2. x \in Int /\ y \in Int /\ x <= y /\ y - x + 1 = ORDER(o)
  <2>1. CASE o = 0  BY <1>1, <2>1 DEF ORDER
  <2>2. CASE o = 1  BY <1>1, <2>2 DEF ORDER
  <2>3. CASE o = 2  BY <1>1, <2>3 DEF ORDER
  <2>4. CASE o = 3  BY <1>1, <2>4 DEF ORDER
  <2>5. CASE o = 4  BY <1>1, <2>5 DEF ORDER
  <2>6. CASE o = 5  BY <1>1, <2>6 DEF ORDER
  <2>7. CASE o = 6  BY <1>1, <2>7 DEF ORDER
  <2>8. CASE o = 7  BY <1>1, <2>8 DEF ORDER
  <2>9. CASE o = 8  BY <1>1, <2>9 DEF ORDER
  <2>10. CASE o = 9  BY <1>1, <2>10 DEF ORDER
  <2> QED  BY <1>1, <2>1, <2>2, <2>3, <2>4, <2>5, <2>6, <2>7, <2>8, <2>9, <2>10
<1>3. Pages(b) = x .. y
  BY DEF Pages, BlockPages, o, i
<1> HIDE DEF x, y
<1>4. IsFiniteSet(x .. y) /\ Cardinality(x .. y) = y - x + 1
  BY <1>2, FS_Interval
<1> QED  BY <1>2, <1>3, <1>4 DEF o

(* Pages are counted in a size_t, as they are no more than the region's. *)
LEMMA PagesFinite ==
    ASSUME NEW F
    PROVE  /\ IsFiniteSet(PagesIn(F))
           /\ Cardinality(PagesIn(F)) \in 0 .. NPages /\ Cardinality(PagesIn(F)) \in Counter
<1> DEFINE I == 0 .. NPages - 1
           P == PagesIn(F)
<1>1. NPages \in Nat /\ NPages > 0 /\ WORD \in Nat /\ WORD > NPages
  BY Constants
<1>2. P \subseteq I
  BY DEF PagesIn
<1>3. IsFiniteSet(I) /\ Cardinality(I) = NPages
  <2>1. 0 \in Int /\ NPages - 1 \in Int /\ 0 <= NPages - 1 /\ (NPages - 1) - 0 + 1 = NPages
    BY <1>1
  <2> QED  BY <2>1, FS_Interval
<1> HIDE DEF I, P
<1>4. IsFiniteSet(P) /\ Cardinality(P) <= Cardinality(I)
  BY <1>2, <1>3, FS_Subset
<1>5. Cardinality(P) \in Nat
  BY <1>4, FS_CardinalityType
<1>6. PICK k : k = Cardinality(P)
  OBVIOUS
<1>7. k \in 0 .. NPages /\ k \in Counter
  BY <1>1, <1>3, <1>4, <1>5, <1>6 DEF Counter
<1> QED  BY <1>4, <1>6, <1>7 DEF P

(* What Placed says of the blocks at each place. *)
LEMMA PlacedMeans ==
    ASSUME NEW F, NEW H, NEW hand, Placed(Things(F, H, hand)), NEW page \in 0 .. NPages - 1
    PROVE  /\ \A b, c \in F : Covers(b, page) /\ Covers(c, page) => b = c
           /\ \A b, c \in H : Covers(b, page) /\ Covers(c, page) => b = c
           /\ \A b \in F, c \in H : ~ (Covers(b, page) /\ Covers(c, page))
           /\ \A b \in F \cup H : \A q \in Procs :
                 hand[q] # NoBlock => ~ (Covers(b, page) /\ Covers(hand[q], page))
           /\ \A q, r \in Procs : hand[q] # NoBlock /\ hand[r] # NoBlock
                 /\ Covers(hand[q], page) /\ Covers(hand[r], page) => q = r
           /\ \/ \E b \in F \cup H : Covers(b, page)
              \/ \E q \in Procs : hand[q] # NoBlock /\ Covers(hand[q], page)
<1> DEFINE T == Things(F, H, hand)
           f(b) == <<0, 0, b>>
           h(b) == <<1, 0, b>>
           g(q) == <<2, q, hand[q]>>
<1>1. /\ \E x \in T : Covers(x[3], page)
      /\ \A x, y \in T : Covers(x[3], page) /\ Covers(y[3], page) => x = y
  BY DEF Placed
<1>2. /\ \A b \in F : f(b) \in T /\ f(b)[3] = b
      /\ \A b \in H : h(b) \in T /\ h(b)[3] = b
      /\ \A q \in Procs : hand[q] # NoBlock => g(q) \in T /\ g(q)[3] = hand[q]
  BY InThings
<1>3. /\ \A b, c : f(b) = f(c) => b = c
      /\ \A b, c : h(b) = h(c) => b = c
      /\ \A q, r : g(q) = g(r) => q = r
      /\ \A b, c : f(b) # h(c)
      /\ \A b, q : f(b) # g(q)
      /\ \A b, q : h(b) # g(q)
  OBVIOUS
<1>4. \/ \E b \in F \cup H : Covers(b, page)
      \/ \E q \in Procs : hand[q] # NoBlock /\ Covers(hand[q], page)
  <2>1. PICK x \in T : Covers(x[3], page)
    BY <1>1
  <2>2. \/ \E b \in F : x = <<0, 0, b>>
        \/ \E b \in H : x = <<1, 0, b>>
        \/ \E q \in Procs : hand[q] # NoBlock /\ x = <<2, q, hand[q]>>
    BY <2>1, InThings
  <2> QED  BY <2>1, <2>2
<1> HIDE DEF T, f, h, g
<1>5. \A b, c \in F : Covers(b, page) /\ Covers(c, page) => b = c
  BY <1>1, <1>2, <1>3
<1>6. \A b, c \in H : Covers(b, page) /\ Covers(c, page) => b = c
  BY <1>1, <1>2, <1>3
<1>7. \A b \in F, c \in H : ~ (Covers(b, page) /\ Covers(c, page))
  BY <1>1, <1>2, <1>3
<1>8. \A b \in F \cup H : \A q \in Procs :
         hand[q] # NoBlock => ~ (Covers(b, page) /\ Covers(hand[q], page))
  BY <1>1, <1>2, <1>3
<1>9. \A q, r \in Procs : hand[q] # NoBlock /\ hand[r] # NoBlock
         /\ Covers(hand[q], page) /\ Covers(hand[r], page) => q = r
  BY <1>1, <1>2, <1>3
<1> QED  BY <1>4, <1>5, <1>6, <1>7, <1>8, <1>9

(* Two free blocks with a page in common are one. *)
LEMMA TakenPages ==
    ASSUME NEW F, NEW H, NEW hand, Placed(Things(F, H, hand)), NEW b \in F
    PROVE  /\ Pages(b) \subseteq PagesIn(F)
           /\ PagesIn(F \ {b}) = PagesIn(F) \ Pages(b)
<1>1. Pages(b) = {page \in 0 .. NPages - 1 : Covers(b, page)}
  BY ThingsInside, InsideBlock
<1>2. \A page \in 0 .. NPages - 1 : \A c \in F : Covers(b, page) /\ Covers(c, page) => b = c
  BY PlacedMeans
<1> QED  BY <1>1, <1>2 DEF PagesIn

LEMMA GivenPages ==
    ASSUME NEW F, NEW H, NEW hand, Placed(Things(F, H, hand)), NEW p \in Procs,
           NEW b, b = hand[p], b # NoBlock
    PROVE  /\ Pages(b) \cap PagesIn(F) = {}
           /\ PagesIn(F \cup {b}) = PagesIn(F) \cup Pages(b)
<1>1. Pages(b) = {page \in 0 .. NPages - 1 : Covers(b, page)}
  BY ThingsInside, InsideBlock
<1>2. \A page \in 0 .. NPages - 1 : \A c \in F : ~ (Covers(c, page) /\ Covers(b, page))
  BY PlacedMeans
<1> QED  BY <1>1, <1>2 DEF PagesIn

(* A block has the pages of its two halves. *)
LEMMA TwoHalves ==
    ASSUME NEW o \in Orders, NEW l, l = o - 1, o # 0, NEW i \in Nat, NEW page \in Nat
    PROVE  /\ Covers(<<o, i>>, page) <=>
                 (Covers(<<l, 2 * i>>, page) \/ Covers(<<l, 2 * i + 1>>, page))
           /\ ~ (Covers(<<l, 2 * i>>, page) /\ Covers(<<l, 2 * i + 1>>, page))
<1> DEFINE q == page \div ORDER(l)
<1>1. l \in 0 .. 9 /\ l + 1 = o /\ l \in 0 .. 10
  BY DEF Orders
<1>2. q \in Nat /\ page \div ORDER(l + 1) = q \div 2
  BY <1>1, BlockOfPage, HalvePage
<1>3. (Covers(<<o, i>>, page) <=> q \div 2 = i)
  BY <1>1, <1>2 DEF Covers
<1>4. /\ (Covers(<<l, 2 * i>>, page) <=> q = 2 * i)
      /\ (Covers(<<l, 2 * i + 1>>, page) <=> q = 2 * i + 1)
  BY DEF Covers
<1>5. (q \div 2 = i <=> q = 2 * i \/ q = 2 * i + 1) /\ 2 * i # 2 * i + 1
  <2> HIDE DEF q
  <2> QED  BY <1>2
<1> HIDE DEF q
<1> QED  BY <1>3, <1>4, <1>5

(* A free block is split. *)
IsSplit(G, F, o, i) ==
    /\ <<o, i>> \in F
    /\ G = (F \ {<<o, i>>}) \cup {<<o - 1, 2 * i>>, <<o - 1, 2 * i + 1>>}

LEMMA Halving ==
    ASSUME NEW F, NEW H, NEW hand, Placed(Things(F, H, hand)),
           NEW G, NEW o \in Orders \ {0}, NEW i \in Nat, IsSplit(G, F, o, i)
    PROVE  /\ Placed(Things(G, H, hand)) /\ PagesIn(G) = PagesIn(F)
           /\ <<o - 1, 2 * i>> \notin F /\ <<o - 1, 2 * i + 1>> \notin F
<1>0. PICK l : l = o - 1
  OBVIOUS
<1>00. /\ G = (F \ {<<o, i>>}) \cup {<<l, 2 * i>>, <<l, 2 * i + 1>>}
       /\ o \in Orders /\ o # 0 /\ <<o, i>> \in F
  BY <1>0 DEF IsSplit
<1> DEFINE T == Things(F, H, hand)
           U == Things(G, H, hand)
           b == <<o, i>>
           c == <<l, 2 * i>>
           d == <<l, 2 * i + 1>>
           O == {<<0, 0, b>>}
           N == {<<0, 0, c>>, <<0, 0, d>>}
<1>1. b # c /\ b # d /\ c # d /\ l \in Orders
  BY <1>0, <1>00 DEF Orders
<1>2. \A page \in 0 .. NPages - 1 :
         /\ (Covers(b, page) <=> Covers(c, page) \/ Covers(d, page))
         /\ ~ (Covers(c, page) /\ Covers(d, page))
  BY <1>0, <1>00, TwoHalves
<1>3. Inside(c) /\ Inside(d)
  <2>1. i < free_area_length(NPages, o)
    BY <1>00, ThingsInside DEF Inside, Room
  <2>2. 2 * i + 1 < free_area_length(NPages, l)
    BY <1>0, <1>00, <2>1, AreaLength
  <2>3. free_area_length(NPages, l) \in Nat
    BY <1>1, AreaLength
  <2>4. 2 * i < free_area_length(NPages, l)
    <3> DEFINE k == free_area_length(NPages, l)
    <3> HIDE DEF k
    <3>1. 2 * i + 1 < k /\ k \in Nat
      BY <2>2, <2>3 DEF k
    <3> QED  BY <3>1 DEF k
  <2> QED  BY <1>1, <2>2, <2>4 DEF Inside, Room, Blocks
<1>4. c \notin F /\ d \notin F
  <2>1. \A e \in F : e # b => ~ \E page \in 0 .. NPages - 1 : Covers(b, page) /\ Covers(e, page)
    BY <1>00, PlacedMeans
  <2> QED  BY <1>1, <1>2, <1>3, <2>1, InsideBlock
<1> HIDE DEF b, c, d
<1>5. U = (T \ O) \cup N
  <2>1. ASSUME NEW z \in U  PROVE z \in (T \ O) \cup N
    BY <1>00, InThings DEF b, c, d
  <2>2. ASSUME NEW z \in (T \ O) \cup N  PROVE z \in U
    BY <1>00, InThings DEF b, c, d
  <2> QED  BY <2>1, <2>2
<1>6. O \in SUBSET T
  BY <1>00, InThings DEF b
<1>7. /\ \A y \in N : Inside(y[3])
      /\ \A page \in 0 .. NPages - 1 :
            (\E x \in O : Covers(x[3], page)) <=> (\E y \in N : Covers(y[3], page))
      /\ \A page \in 0 .. NPages - 1 :
            \A y, z \in N : Covers(y[3], page) /\ Covers(z[3], page) => y = z
  BY <1>2, <1>3
<1>8. PagesIn(G) = PagesIn(F)
  <2>1. G = (F \ {b}) \cup {c, d} /\ b \in F
    BY <1>00 DEF b, c, d
  <2> QED  BY <1>2, <2>1 DEF PagesIn
<1>9. Placed(U)
  <2> HIDE DEF U, O, N
  <2>1. Placed(T)
    OBVIOUS
  <2> HIDE DEF T
  <2> QED  BY <2>1, <1>5, <1>6, <1>7, Replaced
<1> QED  BY <1>0, <1>4, <1>8, <1>9 DEF c, d

(* Two free buddies are merged. *)
IsMerge(G, F, l, i) ==
    /\ <<l, 2 * i>> \in F /\ <<l, 2 * i + 1>> \in F
    /\ G = (F \ {<<l, 2 * i>>, <<l, 2 * i + 1>>}) \cup {<<l + 1, i>>}

LEMMA Joining ==
    ASSUME NEW F, NEW H, NEW hand, Placed(Things(F, H, hand)),
           NEW G, NEW l \in Orders \ {MAX_ORDER - 1}, NEW i \in Nat, IsMerge(G, F, l, i)
    PROVE  /\ Placed(Things(G, H, hand)) /\ PagesIn(G) = PagesIn(F)
           /\ <<l + 1, i>> \notin F
<1>0. PICK o : o = l + 1
  OBVIOUS
<1>00. /\ G = (F \ {<<l, 2 * i>>, <<l, 2 * i + 1>>}) \cup {<<o, i>>}
       /\ o \in Orders /\ o # 0 /\ l = o - 1
       /\ <<l, 2 * i>> \in F /\ <<l, 2 * i + 1>> \in F
  BY <1>0 DEF IsMerge, Orders
<1> DEFINE T == Things(F, H, hand)
           U == Things(G, H, hand)
           b == <<o, i>>
           c == <<l, 2 * i>>
           d == <<l, 2 * i + 1>>
           N == {<<0, 0, b>>}
           O == {<<0, 0, c>>, <<0, 0, d>>}
<1>1. b # c /\ b # d /\ c # d /\ l \in Orders
  BY <1>0, <1>00 DEF Orders
<1>2. \A page \in 0 .. NPages - 1 :
         /\ (Covers(b, page) <=> Covers(c, page) \/ Covers(d, page))
         /\ ~ (Covers(c, page) /\ Covers(d, page))
  BY <1>0, <1>00, TwoHalves
<1>3. Inside(b)
  <2>1. 2 * i + 1 < free_area_length(NPages, l)
    BY <1>00, ThingsInside DEF Inside, Room
  <2>2. l \in 0 .. 8 /\ l + 1 = o
    BY <1>0, <1>00 DEF Orders
  <2>3. /\ free_area_length(NPages, l) \in Nat
        /\ free_area_length(NPages, o) \in Nat
        /\ free_area_length(NPages, l) =
              2 * free_area_length(NPages, o) + (free_area_length(NPages, l) % 2)
    BY <2>2, HalveArea
  <2>4. i < free_area_length(NPages, o)
    <3> DEFINE k == free_area_length(NPages, l)
               m == free_area_length(NPages, o)
    <3> HIDE DEF k, m
    <3>1. 2 * i + 1 < k /\ k \in Nat /\ m \in Nat /\ k = 2 * m + (k % 2) /\ i \in Nat
      BY <2>1, <2>3 DEF k, m
    <3> QED  BY <3>1 DEF m
  <2> QED  BY <1>00, <2>4 DEF Inside, Room, Blocks
<1>4. b \notin F
  <2>1. \A e \in F : e # c => ~ \E page \in 0 .. NPages - 1 : Covers(c, page) /\ Covers(e, page)
    BY <1>00, PlacedMeans
  <2>2. Inside(c)
    BY <1>00, ThingsInside
  <2> QED  BY <1>1, <1>2, <2>1, <2>2, InsideBlock
<1> HIDE DEF b, c, d
<1>5. U = (T \ O) \cup N
  <2>1. ASSUME NEW z \in U  PROVE z \in (T \ O) \cup N
    BY <1>00, InThings DEF b, c, d
  <2>2. ASSUME NEW z \in (T \ O) \cup N  PROVE z \in U
    BY <1>00, InThings DEF b, c, d
  <2> QED  BY <2>1, <2>2
<1>6. O \in SUBSET T
  BY <1>00, InThings DEF c, d
<1>7. /\ \A y \in N : Inside(y[3])
      /\ \A page \in 0 .. NPages - 1 :
            (\E x \in O : Covers(x[3], page)) <=> (\E y \in N : Covers(y[3], page))
      /\ \A page \in 0 .. NPages - 1 :
            \A y, z \in N : Covers(y[3], page) /\ Covers(z[3], page) => y = z
  BY <1>2, <1>3
<1>8. PagesIn(G) = PagesIn(F)
  <2>1. G = (F \ {c, d}) \cup {b} /\ c \in F /\ d \in F
    BY <1>00 DEF b, c, d
  <2> QED  BY <1>2, <2>1 DEF PagesIn
<1>9. Placed(U)
  <2> HIDE DEF U, O, N
  <2>1. Placed(T)
    OBVIOUS
  <2> HIDE DEF T
  <2> QED  BY <2>1, <1>5, <1>6, <1>7, Replaced
<1> QED  BY <1>0, <1>4, <1>8, <1>9 DEF b

(* The count of the free pages, as blocks leave the free ones and join them. *)
LEMMA TakenCount ==
    ASSUME NEW F, NEW H, NEW hand, Placed(Things(F, H, hand)), NEW b \in F,
           NEW n, n = Cardinality(PagesIn(F))
    PROVE  /\ n \in Counter /\ Wrap(n - ORDER(b[1])) \in Counter
           /\ Wrap(n - ORDER(b[1])) = Cardinality(PagesIn(F \ {b}))
<1> DEFINE P == PagesIn(F)
           Q == Pages(b)
           R == PagesIn(F \ {b})
<1>1. Q \subseteq P /\ R = P \ Q
  BY TakenPages
<1>2. b \in Blocks
  BY ThingsInside, InsideBlock
<1>3. IsFiniteSet(Q) /\ Cardinality(Q) = ORDER(b[1])
  BY <1>2, BlockSize
<1>4. IsFiniteSet(P) /\ Cardinality(P) \in Counter /\ IsFiniteSet(R) /\ Cardinality(R) \in Counter
  BY PagesFinite
<1> HIDE DEF P, Q, R
<1>5. P \cap Q = Q
  BY <1>1
<1>6. Cardinality(R) = Cardinality(P) - Cardinality(Q)
  <2>1. Cardinality(P \ Q) = Cardinality(P) - Cardinality(P \cap Q)
    BY <1>4, FS_Difference
  <2> QED  BY <1>1, <1>5, <2>1
<1>7. PICK k : k = Cardinality(R)
  OBVIOUS
<1>8. PICK z : z = n - ORDER(b[1])
  OBVIOUS
<1>9. z = k /\ k \in Counter /\ n \in Counter
  BY <1>3, <1>4, <1>6, <1>7, <1>8 DEF P
<1>10. Wrap(z) = z
  BY <1>9, WrapCounter
<1> QED  BY <1>7, <1>8, <1>9, <1>10 DEF R

LEMMA GivenCount ==
    ASSUME NEW F, NEW H, NEW hand, Placed(Things(F, H, hand)), NEW p \in Procs,
           NEW b, b = hand[p], b # NoBlock, NEW n, n = Cardinality(PagesIn(F))
    PROVE  /\ n \in Counter /\ Wrap(n + ORDER(b[1])) \in Counter
           /\ Wrap(n + ORDER(b[1])) = Cardinality(PagesIn(F \cup {b}))
<1> DEFINE P == PagesIn(F)
           Q == Pages(b)
           R == PagesIn(F \cup {b})
<1>1. Q \cap P = {} /\ R = P \cup Q
  BY GivenPages
<1>2. b \in Blocks
  BY ThingsInside, InsideBlock
<1>3. IsFiniteSet(Q) /\ Cardinality(Q) = ORDER(b[1])
  BY <1>2, BlockSize
<1>4. IsFiniteSet(P) /\ Cardinality(P) \in Counter /\ IsFiniteSet(R) /\ Cardinality(R) \in Counter
  BY PagesFinite
<1> HIDE DEF P, Q, R
<1>5. P \cap Q = {} /\ Cardinality(P \cap Q) = 0
  <2>1. P \cap Q = {}
    BY <1>1
  <2> QED  BY <2>1, FS_EmptySet
<1>6. Cardinality(P \cup Q) = Cardinality(P) + Cardinality(Q) - Cardinality(P \cap Q)
  BY <1>3, <1>4, FS_Union
<1>7. PICK k : k = Cardinality(R)
  OBVIOUS
<1>8. PICK z : z = n + ORDER(b[1])
  OBVIOUS
<1>9. z = k /\ k \in Counter /\ n \in Counter
  <2>1. Cardinality(P) \in Int /\ Cardinality(Q) \in Int
    BY <1>3, <1>4, FS_CardinalityType
  <2> QED  BY <1>1, <1>3, <1>4, <1>5, <1>6, <1>7, <1>8, <2>1 DEF P
<1>10. Wrap(z) = z
  BY <1>9, WrapCounter
<1> QED  BY <1>7, <1>8, <1>9, <1>10 DEF R

-----------------------------------------------------------------------------
(***************************************************************************)
(* Buddies, and what the bit of a block or of its buddy says.              *)
(***************************************************************************)
LEMMA Buddies ==
    ASSUME NEW i \in Nat
    PROVE  /\ BuddyOf(i) \in Nat /\ BuddyOf(BuddyOf(i)) = i
           /\ \/ i = 2 * (i \div 2) /\ BuddyOf(i) = 2 * (i \div 2) + 1
              \/ i = 2 * (i \div 2) + 1 /\ BuddyOf(i) = 2 * (i \div 2)
           /\ i \div 2 \in Nat
BY DEF BuddyOf

LEMMA FreeBit ==
    ASSUME NEW m, NEW o \in Orders, NEW i \in Nat, i < Room(o)
    PROVE  IsFree(m, o, i) <=> i \in m.free_area[o]
BY LocInArea, Constants DEF IsFree, Room

(* The buddy of a block in the region may be behind it: a bit of its own. *)
LEMMA BuddyBit ==
    ASSUME NEW m, NEW o \in Orders, NEW i \in Nat, i < Room(o)
    PROVE  IsFree(m, o, BuddyOf(i)) <=> BuddyOf(i) \in m.free_area[o]
<1> DEFINE n == NPages
           b == BuddyOf(i)
           r == free_area_length(n, o)
           a == AreaBytes(n, o)
<1>1. b < 8 * a
  <2>1. b \in Nat /\ (b < r \/ (b = r /\ b % 2 = 1))
    BY Buddies, AreaLength DEF BuddyOf, Room
  <2>2. a \in Int /\ r <= 8 * a
    <3>1. n \in Nat
      BY Constants
    <3> HIDE DEF n
    <3>2. CASE o = 0  BY <3>1, <3>2 DEF ORDER, free_area_length, AreaBytes
    <3>3. CASE o = 1  BY <3>1, <3>3 DEF ORDER, free_area_length, AreaBytes
    <3>4. CASE o = 2  BY <3>1, <3>4 DEF ORDER, free_area_length, AreaBytes
    <3>5. CASE o = 3  BY <3>1, <3>5 DEF ORDER, free_area_length, AreaBytes
    <3>6. CASE o = 4  BY <3>1, <3>6 DEF ORDER, free_area_length, AreaBytes
    <3>7. CASE o = 5  BY <3>1, <3>7 DEF ORDER, free_area_length, AreaBytes
    <3>8. CASE o = 6  BY <3>1, <3>8 DEF ORDER, free_area_length, AreaBytes
    <3>9. CASE o = 7  BY <3>1, <3>9 DEF ORDER, free_area_length, AreaBytes
    <3>10. CASE o = 8  BY <3>1, <3>10 DEF ORDER, free_area_length, AreaBytes
    <3>11. CASE o = 9  BY <3>1, <3>11 DEF ORDER, free_area_length, AreaBytes
    <3> QED  BY <3>2, <3>3, <3>4, <3>5, <3>6, <3>7, <3>8, <3>9, <3>10, <3>11 DEF Orders
  <2>3. r \in Nat
    BY AreaLength
  <2> HIDE DEF a, b, r
  <2> QED  BY <2>1, <2>2, <2>3
<1>2. Loc(NPages, o, b) = <<o, b>>
  BY <1>1 DEF Loc
<1> QED  BY <1>2 DEF IsFree

-----------------------------------------------------------------------------
(***************************************************************************)
(* What a step leaves as it was.                                           *)
(***************************************************************************)
OthersStay(p) ==
    \A q \in Procs \ {p} :
        /\ pc'[q] = pc[q] /\ req'[q] = req[q] /\ lvl'[q] = lvl[q]
        /\ pos'[q] = pos[q] /\ ret'[q] = ret[q]

LEMMA HandsStep ==
    ASSUME NEW p \in Procs, OthersStay(p)
    PROVE  /\ Hands' = [Hands EXCEPT ![p] = Hand(p)']
           /\ DOMAIN Hands = Procs /\ Hands[p] = Hand(p)
<1>1. \A q \in Procs \ {p} : Hand(q)' = Hand(q)
  BY DEF OthersStay, Hand
<1> QED  BY <1>1 DEF Hands

(* The only processor in a body is the one that works on a block. *)
LEMMA OnlyWorker ==
    ASSUME PcInv, CoalescedInv, NEW p \in Procs, InBody(p),
           NEW o \in Orders \ {MAX_ORDER - 1}, NEW i \in map.free_area[o],
           BuddyOf(i) \in map.free_area[o]
    PROVE  Worked(p, o, i) \/ Worked(p, o, BuddyOf(i))
<1>1. \A q \in Procs : InBody(q) => q = p
  BY DEF PcInv, MutualExclusion
<1>2. \A q \in Procs : \A j : Worked(q, o, j) => InBody(q)
  BY DEF Worked, InBody
<1> QED  BY <1>1, <1>2 DEF CoalescedInv

(* The map stays as it is, and no block that is worked on is let go of. *)
LEMMA MapStays ==
    ASSUME ProtectInv, NEW p \in Procs, OthersStay(p),
           map' = map, pages_free' = pages_free,
           \/ pc[p] \notin {"alloc", "zsplit", "merge"}
           \/ pc[p] = "alloc" /\ map.free_area[lvl[p]] = {}
    PROVE  Exact(map)' /\ CountedInv' /\ CoalescedInv'
<1>1. Exact(map)'
  BY DEF ProtectInv, Exact, OrderExact
<1>2. CountedInv'
  BY DEF ProtectInv, CountedInv
<1>3. ASSUME NEW o \in Orders \ {MAX_ORDER - 1}, NEW i \in map.free_area[o],
             BuddyOf(i) \in map.free_area[o]
      PROVE  \E q \in Procs : Worked(q, o, i)' \/ Worked(q, o, BuddyOf(i))'
  <2>1. PICK q \in Procs : Worked(q, o, i) \/ Worked(q, o, BuddyOf(i))
    BY <1>3 DEF ProtectInv, CoalescedInv
  <2>2. q # p
    BY <1>3, <2>1 DEF Worked
  <2> QED  BY <2>1, <2>2 DEF Worked, OthersStay
<1>4. CoalescedInv'
  BY <1>3 DEF CoalescedInv
<1> QED  BY <1>1, <1>2, <1>4

LEMMA BlocksStay ==
    ASSUME ProtectInv, NEW p \in Procs, OthersStay(p),
           map' = map, held' = held, Hand(p)' = Hand(p)
    PROVE  PlacedInv'
<1>1. Hands' = Hands
  BY HandsStep DEF Hands
<1> QED  BY <1>1 DEF ProtectInv, PlacedInv

(* The parts of the invariant that an action is about. *)
StepInv(p) ==
    /\ TypeOK /\ Exact(map) /\ PlacedInv /\ CountedInv /\ CoalescedInv
    /\ CallInv(p) /\ BodyInv(p)

LEMMA Combine ==
    ASSUME ProtectInv, NEW p \in Procs, OthersStay(p), map' = map \/ InBody(p),
           place' = place, StepInv(p)', PcInv', (Protecting \/ AfterProtect)'
    PROVE  ProtectInv'
<1>1. ASSUME NEW q \in Procs, q # p
      PROVE  CallInv(q)' /\ BodyInv(q)'
  <2>1. CallInv(q) /\ BodyInv(q)
    BY DEF ProtectInv
  <2>2. CallInv(q)'
    BY <1>1, <2>1 DEF CallInv, OthersStay
  <2>3. CASE map' = map
    BY <1>1, <2>1, <2>2, <2>3 DEF BodyInv, OthersStay
  <2>4. CASE InBody(p)
    <3>1. pc[q] \in {"idle", "call"}
      BY <1>1, <2>4 DEF ProtectInv, PcInv, MutualExclusion, InBody
    <3> QED  BY <1>1, <2>2, <3>1 DEF BodyInv, OthersStay
  <2> QED  BY <2>2, <2>3, <2>4
<1>2. \A q \in Procs : CallInv(q)' /\ BodyInv(q)'
  BY <1>1 DEF StepInv
<1> QED  BY <1>2 DEF ProtectInv, StepInv

-----------------------------------------------------------------------------
(***************************************************************************)
(* The requests of mem_p_protect in the right use.                         *)
(***************************************************************************)

(* log_order is the least order that is large enough. *)
LEMMA LogOrder ==
    ASSUME NEW n \in Int, NEW r \in Orders, n <= ORDER(r)
    PROVE  /\ log_order(n) \in Orders /\ n <= ORDER(log_order(n))
           /\ \A o \in 0 .. MAX_ORDER : n <= ORDER(o) => log_order(n) <= o
<1> DEFINE S == {o \in 0 .. MAX_ORDER : n <= ORDER(o)}
<1>1. r \in S /\ S \subseteq Nat /\ S \subseteq 0 .. MAX_ORDER /\ r <= MAX_ORDER - 1
      /\ r \in 0 .. MAX_ORDER
  BY DEF Orders
<1>2. IsFirst(Min(S), S)
  <2> HIDE DEF S
  <2> QED  BY <1>1, MinIsFirst
<1>3. log_order(n) = Min(S)
  BY DEF log_order
<1> QED  BY <1>1, <1>2, <1>3 DEF IsFirst, Orders

(* Half of a power of two is one. *)
LEMMA OrderGrows ==
    ASSUME NEW a \in 0 .. 10, NEW b \in 0 .. 10, a <= b
    PROVE  ORDER(a) <= ORDER(b)
BY DEF ORDER

(* A region above the limit has nothing below it. *)
LEMMA NoLowPages ==
    ASSUME place \in Places, place.start >= ProtectEnd
    PROVE  LowRequest = {} /\ LowPages = {}
<1>1. ProtectEnd \in Nat /\ place.start \in Nat /\ NPages \in Nat \ {0}
  BY ProtectAssumption, Constants
<1>2. LowRequest = {}
  BY <1>1 DEF LowRequest
<1>3. LowPages = {}
  <2> DEFINE S == {ProtectEnd - place.start, NPages}
             m == Min(S)
  <2>1. PICK d : d = ProtectEnd - place.start
    OBVIOUS
  <2>2. d \in Int /\ d <= 0 /\ d \in S /\ S \in SUBSET Int /\ \A y \in S : d <= y
    BY <1>1, <2>1
  <2>3. Min(S) = d
    <3> HIDE DEF S
    <3> QED  BY <2>2, MinIs
  <2> QED  BY <2>2, <2>3 DEF LowPages
<1> QED  BY <1>2, <1>3

(* The block at the start of the region is the only one that is asked for, *)
(* or one page that is a free block by itself is.                          *)
LEMMA OneRequest ==
    ASSUME RightUse, place \in Places
    PROVE  \/ /\ place.start = 0 /\ place.info = {} /\ InfoRequest = {}
              /\ \E r \in Orders : /\ LowRequest = {<<r, 0>>} /\ ORDER(r) <= NPages
                                   /\ LowPages \subseteq Pages(<<r, 0>>)
           \/ /\ place.start >= ProtectEnd /\ LowRequest = {} /\ LowPages = {}
              /\ \/ InfoRequest = {} /\ place.info = {}
                 \/ \E i \in {0} \cup init_free_area(NPages, 0) :
                      InfoRequest = {<<0, i>>} /\ place.info = {i}
<1>1. ProtectEnd \in Nat /\ place.start \in Nat /\ place.info \subseteq 0 .. NPages - 1
      /\ Cardinality(place.info) <= 1 /\ NPages \in Nat \ {0}
  BY ProtectAssumption, Constants
<1>2. CASE place.start >= ProtectEnd /\ place.info \subseteq {0} \cup init_free_area(NPages, 0)
  <2>1. LowRequest = {} /\ LowPages = {}
    BY <1>2, NoLowPages
  <2>3. CASE place.info = {}
    BY <1>2, <2>1, <2>3 DEF InfoRequest
  <2>4. CASE place.info # {}
    <3>1. PICK i \in place.info : TRUE
      BY <2>4
    <3>2. place.info = {i}
      <4> DEFINE I == place.info
      <4>1. IsFiniteSet(0 .. NPages - 1)
        BY <1>1, FS_Interval
      <4>2. IsFiniteSet(I)
        BY <1>1, <4>1, FS_Subset
      <4> SUFFICES ASSUME NEW j \in I, j # i  PROVE FALSE
        BY <3>1
      <4>3. {i, j} \subseteq I
        BY <3>1
      <4>4. Cardinality({i, j}) = 2
        <5>1. IsFiniteSet({i}) /\ Cardinality({i}) = 1
          BY FS_Singleton
        <5>2. {i, j} = {i} \cup {j} /\ j \notin {i}
          OBVIOUS
        <5>3. Cardinality({i} \cup {j}) = Cardinality({i}) + 1
          BY <5>1, <5>2, FS_AddElement
        <5> QED  BY <5>1, <5>2, <5>3
      <4> HIDE DEF I
      <4>5. Cardinality({i, j}) <= Cardinality(I)
        BY <4>2, <4>3, FS_Subset
      <4>6. PICK k : k = Cardinality(I)
        OBVIOUS
      <4>7. k \in Nat
        BY <4>2, <4>6, FS_CardinalityType
      <4> QED  BY <1>1, <4>4, <4>5, <4>6, <4>7 DEF I
    <3>3. InfoRequest = {<<0, i>>}
      BY <3>2 DEF InfoRequest
    <3>4. i \in {0} \cup init_free_area(NPages, 0)
      BY <1>2, <3>1
    <3> QED  BY <1>2, <2>1, <3>2, <3>3, <3>4
  <2> QED  BY <2>3, <2>4
<1>3. CASE /\ place.start = 0 /\ place.info = {}
           /\ \E o \in Orders : Min({ProtectEnd, NPages}) <= ORDER(o) /\ ORDER(o) <= NPages
  <2>1. InfoRequest = {}
    BY <1>3 DEF InfoRequest
  <2>2. CASE ProtectEnd = 0
    BY <1>1, <1>3, <2>1, <2>2, NoLowPages
  <2>3. CASE ProtectEnd # 0
    <3> DEFINE S == {ProtectEnd, NPages}
               m == Min(S)
               n == Cardinality(LowPages)
               r == log_order(n)
    <3>1. S \subseteq Nat /\ S # {} /\ \A x \in S : x > 0
      BY <1>1, <2>3
    <3>2. m \in S /\ m <= NPages
      <4>1. IsFirst(m, S)
        <5> HIDE DEF S
        <5> QED  BY <3>1, MinIsFirst
      <4> QED  BY <4>1 DEF IsFirst
    <3>3. LowPages = 0 .. m - 1
      <4>1. {ProtectEnd - place.start, NPages} = S
        BY <1>1, <1>3
      <4> QED  BY <4>1 DEF LowPages
    <3>4. m \in Nat /\ m > 0
      BY <3>1, <3>2
    <3> HIDE DEF m, S
    <3>5. n = m
      <4>1. 0 \in Int /\ m - 1 \in Int /\ 0 <= m - 1 /\ (m - 1) - 0 + 1 = m
        BY <3>4
      <4>2. Cardinality(0 .. m - 1) = (m - 1) - 0 + 1
        BY <4>1, FS_Interval
      <4> QED  BY <3>3, <4>1, <4>2
    <3>6. PICK q \in Orders : m <= ORDER(q) /\ ORDER(q) <= NPages
      BY <1>3 DEF m, S
    <3>7. r \in Orders /\ m <= ORDER(r) /\ r <= q
      <4> HIDE DEF r, n
      <4>1. /\ log_order(m) \in Orders /\ m <= ORDER(log_order(m))
            /\ \A o \in 0 .. MAX_ORDER : m <= ORDER(o) => log_order(m) <= o
        BY <3>4, <3>6, LogOrder
      <4> QED  BY <3>5, <3>6, <4>1 DEF r, Orders
    <3> HIDE DEF n
    <3>8. ORDER(r) <= NPages
      <4>1. ORDER(r) <= ORDER(q) /\ ORDER(r) \in Int /\ ORDER(q) \in Int
        <5> HIDE DEF r
        <5>1. r \in 0 .. 10 /\ q \in 0 .. 10 /\ r <= q
          BY <3>6, <3>7 DEF Orders
        <5>2. ORDER(r) <= ORDER(q)
          BY <5>1, OrderGrows
        <5>3. ORDER(r) \in 1 .. 1024
          BY <5>1, OrderPositive
        <5>4. ORDER(q) \in 1 .. 1024
          BY <5>1, OrderPositive
        <5> QED  BY SMTT(60), <5>2, <5>3, <5>4
      <4> HIDE DEF r
      <4> QED  BY <1>1, <3>6, <4>1
    <3>9. LowRequest = {<<r, 0>>}
      BY <1>1, <1>3, <2>3 DEF LowRequest, n
    <3>10. LowPages \subseteq Pages(<<r, 0>>)
      <4>1. ORDER(r) \in Int
        <5> HIDE DEF r
        <5> QED  BY SMTT(60), <3>7, OrderPositive DEF Orders
      <4> HIDE DEF r
      <4>2. Pages(<<r, 0>>) = 0 .. ORDER(r) - 1
        BY <4>1 DEF Pages, BlockPages
      <4> QED  BY <3>3, <3>4, <3>7, <4>1, <4>2
    <3> QED  BY <1>3, <2>1, <3>7, <3>8, <3>9, <3>10
  <2> QED  BY <2>2, <2>3
<1> QED  BY <1>2, <1>3 DEF RightUse

-----------------------------------------------------------------------------
(***************************************************************************)
(* The region after region_map.                                            *)
(***************************************************************************)
InitialArea == [o \in 0 .. MAX_ORDER |-> IF o \in Orders THEN init_free_area(NPages, o) ELSE {}]

LEMMA InitialMap ==
    ASSUME RightUse, ProtectInit
    PROVE  /\ map = Map(map.free_area, map.pages_free, map.next_free_page)
           /\ map.free_area = InitialArea
           /\ map.pages_free = [o \in Orders |-> init_pages_free(NPages, o)]
           /\ map.next_free_page = [o \in Orders |-> init_next_free_page(NPages, o)]
<1>1. PICK bits \in SUBSET Garbage :
         map = [free_area |->
                  [o \in 0 .. MAX_ORDER |->
                     (IF o \in Orders THEN init_free_area(NPages, o) ELSE {})
                     \cup {g[2] : g \in {h \in bits : h[1] = o}}],
                pages_free     |-> [o \in Orders |-> init_pages_free(NPages, o)],
                next_free_page |-> [o \in Orders |-> init_next_free_page(NPages, o)]]
  BY DEF ProtectInit, Init
<1>2. bits = {}
  BY DEF RightUse
<1>3. \A o : {g[2] : g \in {h \in bits : h[1] = o}} = {}
  BY <1>2
<1>4. [o \in 0 .. MAX_ORDER |->
         (IF o \in Orders THEN init_free_area(NPages, o) ELSE {})
         \cup {g[2] : g \in {h \in bits : h[1] = o}}] = InitialArea
  BY <1>3 DEF InitialArea
<1> QED  BY <1>1, <1>4 DEF Map

(* The counters and the first blocks are the ones of the areas. *)
LEMMA InitialExact ==
    ASSUME RightUse, ProtectInit
    PROVE  Exact(map)
<1>1. map \in MapType
  BY InitialTypes DEF ProtectInit, TypeOK
<1>2. ASSUME NEW o \in Orders  PROVE OrderExact(map, o)
  <2> DEFINE A == init_free_area(NPages, o)
             c == init_pages_free(NPages, o)
             x == init_next_free_page(NPages, o)
             r == free_area_length(NPages, o)
  <2>1. map.free_area[o] = A /\ map.pages_free[o] = c /\ map.next_free_page[o] = x
    BY InitialMap DEF InitialArea, Orders
  <2>2. A = x .. x + c - 1
    BY DEF init_free_area
  <2>3. r \in Nat /\ c \in Nat /\ x \in Nat
    BY AreaLength DEF init_pages_free, init_next_free_page
  <2>4. A \subseteq 0 .. Room(o) - 1
    <3> SUFFICES ASSUME NEW i \in A  PROVE i \in 0 .. r - 1
      BY DEF Room
    <3> HIDE DEF A, r
    <3>1. i \in Nat /\ i < r
      BY InitialRun DEF A, r
    <3> QED  BY <2>3, <3>1
  <2> HIDE DEF A, c, x, r
  <2>5. Cardinality(A) = c
    <3>1. x \in Int /\ x + c - 1 \in Int
      BY <2>3
    <3>2. Cardinality(x .. x + c - 1) = IF x > x + c - 1 THEN 0 ELSE (x + c - 1) - x + 1
      BY <3>1, FS_Interval
    <3> QED  BY <2>2, <2>3, <3>2
  <2>6. A # {} => IsFirst(x, A)
    BY <2>2, <2>3 DEF IsFirst
  <2> QED  BY <2>1, <2>4, <2>5, <2>6 DEF OrderExact
<1> QED  BY <1>1, <1>2 DEF Exact

(* Each page is in one free block. *)
LEMMA InitialPlaced ==
    ASSUME RightUse, ProtectInit
    PROVE  PlacedInv /\ CountedInv
<1> DEFINE F == FreeIn(map.free_area)
           T == Things(F, held, Hands)
<1>1. \A b : b \in F <=> b = <<b[1], b[2]>> /\ b[1] \in Orders /\ b[2] \in init_free_area(NPages, b[1])
  <2>1. \A o \in Orders : map.free_area[o] = init_free_area(NPages, o)
    BY InitialMap DEF InitialArea, Orders
  <2> QED  BY <2>1, InFree
<1> HIDE DEF F
<1>2. held = {} /\ \A q \in Procs : Hands[q] = NoBlock
  BY DEF ProtectInit, Init, Hands, Hand
<1>3. \A z \in T : \E b \in F : z = <<0, 0, b>>
  BY <1>2, InThings
<1>4. \A b \in F : <<0, 0, b>> \in T
  BY InThings
<1> HIDE DEF T
<1>5. \A b \in F : Inside(b)
  BY <1>1, InitialRun DEF Inside, Room, Blocks
<1>6. \A page \in 0 .. NPages - 1 : \E b \in F : Covers(b, page)
  <2> TAKE page \in 0 .. NPages - 1
  <2>1. PICK o \in Orders : page \div ORDER(o) \in init_free_area(NPages, o)
    BY InitialListed
  <2>2. PICK b : b = <<o, page \div ORDER(o)>>
    OBVIOUS
  <2>3. b \in F /\ Covers(b, page)
    BY <1>1, <2>1, <2>2 DEF Covers
  <2> QED  BY <2>3
<1>7. ASSUME NEW page \in 0 .. NPages - 1, NEW b \in F, NEW c \in F,
             Covers(b, page), Covers(c, page)
      PROVE  b = c
  <2>1. /\ b = <<b[1], page \div ORDER(b[1])>> /\ b[1] \in Orders
        /\ page \div ORDER(b[1]) \in init_free_area(NPages, b[1])
        /\ c = <<c[1], page \div ORDER(c[1])>> /\ c[1] \in Orders
        /\ page \div ORDER(c[1]) \in init_free_area(NPages, c[1])
    BY <1>1, <1>7 DEF Covers
  <2>2. ~ (b[1] < c[1]) /\ ~ (c[1] < b[1])
    BY <2>1, InitialOrdersDiffer
  <2>3. b[1] = c[1]
    BY <2>1, <2>2 DEF Orders
  <2> QED  BY <2>1, <2>3
<1>8. Placed(T)
  <2>1. \A z \in T : Inside(z[3])
    BY <1>3, <1>5
  <2>2. ASSUME NEW page \in 0 .. NPages - 1
        PROVE  /\ \E z \in T : Covers(z[3], page)
               /\ \A y, z \in T : Covers(y[3], page) /\ Covers(z[3], page) => y = z
    <3>1. \E z \in T : Covers(z[3], page)
      <4>1. PICK b \in F : Covers(b, page)
        BY <1>6
      <4>2. <<0, 0, b>> \in T /\ <<0, 0, b>>[3] = b
        BY <1>4
      <4> QED  BY <4>1, <4>2
    <3>2. ASSUME NEW y \in T, NEW z \in T, Covers(y[3], page), Covers(z[3], page)
          PROVE  y = z
      <4>1. PICK b \in F : y = <<0, 0, b>>
        BY <1>3
      <4>2. PICK c \in F : z = <<0, 0, c>>
        BY <1>3
      <4>3. b = c
        BY <1>7, <3>2, <4>1, <4>2
      <4> QED  BY <4>1, <4>2, <4>3
    <3> QED  BY <3>1, <3>2
  <2> QED  BY <2>1, <2>2 DEF Placed
<1>9. PagesIn(F) = 0 .. NPages - 1
  BY <1>6 DEF PagesIn
<1>10. Cardinality(0 .. NPages - 1) = NPages
  <2>1. 0 \in Int /\ NPages - 1 \in Int /\ 0 <= NPages - 1 /\ (NPages - 1) - 0 + 1 = NPages
    BY Constants
  <2> QED  BY <2>1, FS_Interval
<1>11. pages_free = NPages
  BY DEF ProtectInit, Init
<1> QED  BY <1>8, <1>9, <1>10, <1>11 DEF PlacedInv, CountedInv, F, T

(* Below the top there is one block, so its buddy is not free. *)
LEMMA InitialCoalesced ==
    ASSUME RightUse, ProtectInit
    PROVE  CoalescedInv
<1> SUFFICES ASSUME NEW o \in Orders \ {MAX_ORDER - 1}, NEW i \in map.free_area[o],
                    BuddyOf(i) \in map.free_area[o]
             PROVE  FALSE
  BY DEF CoalescedInv
<1>1. map.free_area[o] = init_free_area(NPages, o) /\ o \in Orders /\ o # MAX_ORDER - 1
  BY InitialMap DEF InitialArea, Orders
<1>2. i \in Nat /\ i = free_area_length(NPages, o) - 1
      /\ BuddyOf(i) = free_area_length(NPages, o) - 1
  BY <1>1, InitialRun
<1>3. BuddyOf(i) # i
  BY <1>2, Buddies
<1> QED  BY <1>2, <1>3

(* What mem_p_protect asks for is there. *)
LEMMA InitialAvailable ==
    ASSUME RightUse, ProtectInit, NEW b \in Protected
    PROVE  Available(b)
<1>1. \A o \in Orders : map.free_area[o] = init_free_area(NPages, o)
  BY InitialMap DEF InitialArea, Orders
<1>2. place \in Places
  BY DEF ProtectInit
<1>3. PICK z \in Orders : 0 \in map.free_area[z]
  <2>1. 0 \in 0 .. NPages - 1
    BY Constants
  <2>2. PICK z \in Orders : 0 \div ORDER(z) \in init_free_area(NPages, z)
    BY <2>1, InitialListed
  <2>3. 0 \div ORDER(z) = 0
    <3>1. ORDER(z) \in 1 .. 1024
      BY OrderPositive DEF Orders
    <3> HIDE DEF ORDER
    <3> QED  BY <3>1
  <2> QED  BY <1>1, <2>2, <2>3
<1>4. CASE \E r \in Orders : LowRequest = {<<r, 0>>} /\ ORDER(r) <= NPages /\ InfoRequest = {}
  <2>1. PICK r \in Orders : LowRequest = {<<r, 0>>} /\ ORDER(r) <= NPages /\ InfoRequest = {}
    BY <1>4
  <2>2. b = <<r, 0>>
    BY <2>1 DEF Protected
  <2>3. r <= z
    <3> SUFFICES ASSUME z < r  PROVE FALSE
      BY DEF Orders
    <3>1. z # MAX_ORDER - 1 /\ r \in 0 .. 9 /\ z \in 0 .. 9 /\ z <= r /\ r - 1 \in 0 .. 9 /\ z <= r - 1
      BY DEF Orders
    <3>2. free_area_length(NPages, z) = 1
      <4>1. 0 = free_area_length(NPages, z) - 1 /\ free_area_length(NPages, z) \in Nat
        BY <1>1, <1>3, <3>1, InitialRun, AreaLength
      <4> DEFINE k == free_area_length(NPages, z)
      <4> HIDE DEF k
      <4>2. 0 = k - 1 /\ k \in Nat
        BY <4>1 DEF k
      <4>3. k = 1
        BY <4>2
      <4> QED  BY <4>3 DEF k
    <3>3. NPages < 2 * ORDER(z)
      <4>1. NPages \in Nat /\ NPages \div ORDER(z) = 1
        BY <3>2, Constants DEF free_area_length
      <4>2. ORDER(z) \in 1 .. 1024
        BY <3>1, OrderPositive
      <4>3. PICK k : k = ORDER(z)
        OBVIOUS
      <4>4. NPages \in Nat /\ NPages \div k = 1 /\ k \in 1 .. 1024
        BY <4>1, <4>2, <4>3
      <4>5. NPages < 2 * k
        <5> HIDE DEF ORDER
        <5>1. NPages = k * (NPages \div k) + (NPages % k) /\ NPages % k < k /\ NPages % k \in Nat
          BY <4>4
        <5> QED  BY <4>4, <5>1
      <4> QED  BY <4>3, <4>5
    <3>4. 2 * ORDER(z) <= ORDER(r)
      BY <3>1 DEF ORDER
    <3>5. ORDER(z) \in Int /\ ORDER(r) \in Int /\ NPages \in Int
      <4>1. z \in 0 .. 10 /\ r \in 0 .. 10 /\ NPages \in Int
        BY <3>1, Constants
      <4>2. ORDER(z) \in 1 .. 1024
        BY <4>1, OrderPositive
      <4>3. ORDER(r) \in 1 .. 1024
        BY <4>1, OrderPositive
      <4> QED  BY SMTT(60), <4>1, <4>2, <4>3
    <3> QED  BY <2>1, <3>3, <3>4, <3>5
  <2> QED  BY <1>3, <2>2, <2>3 DEF Available
<1>5. CASE LowRequest = {} /\ \E i \in {0} \cup init_free_area(NPages, 0) : InfoRequest = {<<0, i>>}
  <2>1. PICK i \in {0} \cup init_free_area(NPages, 0) : InfoRequest = {<<0, i>>}
    BY <1>5
  <2>2. b = <<0, i>>
    BY <1>5, <2>1 DEF Protected
  <2>3. 0 \in Orders /\ 0 <= z
    BY DEF Orders
  <2> QED  BY <1>1, <1>3, <2>1, <2>2, <2>3 DEF Available
<1>6. Protected = LowRequest \cup InfoRequest
  BY DEF Protected
<1> QED  BY <1>2, <1>4, <1>5, <1>6, OneRequest

LEMMA ProtectInvInit ==
    ASSUME RightUse, ProtectInit
    PROVE  ProtectInv
<1>1. TypeOK /\ PcInv /\ place \in Places
  BY InitialTypes, PcInvInit DEF ProtectInit
<1>2. \A p \in Procs : pc[p] = "idle" /\ ret[p] = NoBlock
  BY DEF ProtectInit, Init
<1>3. \A p \in Procs : CallInv(p) /\ BodyInv(p)
  BY <1>2 DEF CallInv, BodyInv
<1>4. Taken = {}
  BY <1>2 DEF ProtectInit, Init, Taken, Returning
<1>5. Protecting
  BY <1>2, <1>4, InitialAvailable DEF Protecting
<1> QED  BY <1>1, <1>3, <1>5, InitialExact, InitialPlaced, InitialCoalesced DEF ProtectInv

-----------------------------------------------------------------------------
(***************************************************************************)
(* The steps outside the bodies.                                           *)
(***************************************************************************)
PcStates == {"idle", "call", "alloc", "reserve", "zsplit", "free", "merge", "unlock"}

(* A step that sets the locals of a processor, to values of their types. *)
Sets(p, c, r, l, x, b) ==
    /\ c \in PcStates /\ r \in Requests /\ l \in Nat /\ x \in Nat
    /\ b \in Blocks \cup {NoBlock}
    /\ pc' = [pc EXCEPT ![p] = c] /\ req' = [req EXCEPT ![p] = r]
    /\ lvl' = [lvl EXCEPT ![p] = l] /\ pos' = [pos EXCEPT ![p] = x]
    /\ ret' = [ret EXCEPT ![p] = b]

GlobalTypes ==
    /\ lock \in {0, 1} /\ map \in MapType /\ pages_free \in Counter
    /\ mem_full \in BOOLEAN /\ held \subseteq Blocks

(* The types after such a step. *)
LEMMA StepTypes ==
    ASSUME TypeOK, NEW p \in Procs, NEW c, NEW r, NEW l, NEW x, NEW b,
           Sets(p, c, r, l, x, b), GlobalTypes'
    PROVE  /\ TypeOK' /\ OthersStay(p)
           /\ pc'[p] = c /\ req'[p] = r /\ lvl'[p] = l /\ pos'[p] = x /\ ret'[p] = b
<1>1. /\ pc \in [Procs -> PcStates] /\ req \in [Procs -> Requests] /\ lvl \in [Procs -> Nat]
      /\ pos \in [Procs -> Nat] /\ ret \in [Procs -> Blocks \cup {NoBlock}]
  BY DEF TypeOK, PcStates
<1>2. OthersStay(p)
  BY <1>1 DEF OthersStay, Sets
<1>3. pc'[p] = c /\ req'[p] = r /\ lvl'[p] = l /\ pos'[p] = x /\ ret'[p] = b
  BY <1>1 DEF Sets
<1>4. pc' \in [Procs -> PcStates]
  BY <1>1 DEF Sets
<1>5. req' \in [Procs -> Requests]
  BY <1>1 DEF Sets
<1>6. lvl' \in [Procs -> Nat] /\ pos' \in [Procs -> Nat]
  BY <1>1 DEF Sets
<1>7. ret' \in [Procs -> Blocks \cup {NoBlock}]
  BY <1>1 DEF Sets
<1> QED  BY <1>2, <1>3, <1>4, <1>5, <1>6, <1>7 DEF TypeOK, PcStates, GlobalTypes

(* The same, for the locals that a step leaves alone. *)
LEMMA LocalsSame ==
    ASSUME TypeOK, NEW p \in Procs
    PROVE  /\ pc = [pc EXCEPT ![p] = pc[p]] /\ req = [req EXCEPT ![p] = req[p]]
           /\ lvl = [lvl EXCEPT ![p] = lvl[p]] /\ pos = [pos EXCEPT ![p] = pos[p]]
           /\ ret = [ret EXCEPT ![p] = ret[p]]
           /\ pc[p] \in PcStates /\ req[p] \in Requests /\ lvl[p] \in Nat /\ pos[p] \in Nat
           /\ ret[p] \in Blocks \cup {NoBlock}
<1>1. /\ pc \in [Procs -> PcStates] /\ req \in [Procs -> Requests] /\ lvl \in [Procs -> Nat]
      /\ pos \in [Procs -> Nat] /\ ret \in [Procs -> Blocks \cup {NoBlock}]
  BY DEF TypeOK, PcStates
<1>2. pc = [pc EXCEPT ![p] = pc[p]] /\ req = [req EXCEPT ![p] = req[p]]
  BY <1>1
<1>3. lvl = [lvl EXCEPT ![p] = lvl[p]] /\ pos = [pos EXCEPT ![p] = pos[p]]
  BY <1>1
<1>4. ret = [ret EXCEPT ![p] = ret[p]]
  BY <1>1
<1> QED  BY <1>1, <1>2, <1>3, <1>4

(* A call that brings no block. *)
LEMMA CallKeeps ==
    ASSUME ProtectInv, NEW p \in Procs, NEW op \in {"alloc", "reserve", "free"},
           NEW o \in Nat, NEW i \in Nat, Call(p, op, o, i), held' = held,
           op = "free" => i >= NPages
    PROVE  /\ StepInv(p)' /\ OthersStay(p) /\ map' = map /\ ret' = ret
           /\ pc'[p] = "call" /\ req'[p] = [op |-> op, order |-> o, off |-> i]
<1> DEFINE r == [op |-> op, order |-> o, off |-> i]
<1>1. /\ pc[p] = "idle" /\ pc' = [pc EXCEPT ![p] = "call"] /\ req' = [req EXCEPT ![p] = r]
      /\ lock' = lock /\ map' = map /\ pages_free' = pages_free /\ mem_full' = mem_full
      /\ lvl' = lvl /\ pos' = pos /\ ret' = ret
  BY DEF Call
<1>2. TypeOK /\ CallInv(p)
  BY DEF ProtectInv
<1>3. GlobalTypes'
  BY <1>1, <1>2 DEF TypeOK, GlobalTypes
<1>4. r \in Requests /\ "call" \in PcStates /\ r.op = op /\ r.off = i
  BY DEF Requests, PcStates
<1>5. /\ TypeOK' /\ OthersStay(p) /\ pc'[p] = "call" /\ req'[p] = r /\ ret'[p] = ret[p]
  <2> HIDE DEF r
  <2>1. Sets(p, "call", r, lvl[p], pos[p], ret[p])
    BY <1>1, <1>2, <1>4, LocalsSame DEF Sets
  <2> QED  BY <1>2, <1>3, <2>1, StepTypes
<1> HIDE DEF r
<1>6. ret[p] = NoBlock
  BY <1>1, <1>2 DEF CallInv
<1>7. op = "free" => Stray(r)
  BY <1>4 DEF Stray
<1>8. CallInv(p)' /\ BodyInv(p)'
  BY <1>4, <1>5, <1>6, <1>7 DEF CallInv, BodyInv
<1>9. Hand(p)' = NoBlock /\ Hand(p) = NoBlock
  BY <1>1, <1>4, <1>5, <1>7 DEF Hand
<1>10. PlacedInv'
  BY <1>1, <1>5, <1>9, BlocksStay
<1>11. Exact(map)' /\ CountedInv' /\ CoalescedInv'
  BY <1>1, <1>5, MapStays
<1> QED  BY <1>1, <1>5, <1>8, <1>10, <1>11 DEF StepInv, r

(* A client gives back a page that it holds. *)
LEMMA CallFreeKeeps ==
    ASSUME RightUse, ProtectInv, NEW p \in Procs, CallFree(p)
    PROVE  /\ StepInv(p)' /\ OthersStay(p) /\ map' = map /\ ret' = ret
           /\ pc[p] = "idle" /\ pc'[p] = "call" /\ req'[p].op = "free" /\ ~ Stray(req'[p])
           /\ \E b \in held : /\ held' = held \ {b} /\ Requested(req'[p]) = b
<1>1. PICK b \in held : /\ b[1] \in FreeOrders
                        /\ Call(p, "free", b[1], b[2] * ORDER(b[1]))
                        /\ held' = held \ {b}
  BY DEF CallFree
<1>2. TypeOK /\ CallInv(p) /\ PlacedInv
  BY DEF ProtectInv
<1>3. Inside(b)
  BY <1>2, ThingsInside DEF PlacedInv
<1>4. b[1] = 0 /\ b[2] \in Nat /\ b = <<b[1], b[2]>> /\ b \in Blocks /\ b # NoBlock
  BY <1>1, <1>3, InsideBlock DEF RightUse
<1>5. b[2] * ORDER(b[1]) = b[2] /\ b[2] \div ORDER(b[1]) = b[2] /\ b[2] < NPages
  <2>1. ORDER(0) = 1
    BY DEF ORDER
  <2>2. b[2] < NPages \div 1
    BY <1>3, <1>4, <2>1 DEF Inside, Room, free_area_length
  <2> QED  BY <1>4, <2>1, <2>2, Constants
<1> DEFINE r == [op |-> "free", order |-> b[1], off |-> b[2]]
<1>6. /\ pc[p] = "idle" /\ pc' = [pc EXCEPT ![p] = "call"] /\ req' = [req EXCEPT ![p] = r]
      /\ lock' = lock /\ map' = map /\ pages_free' = pages_free /\ mem_full' = mem_full
      /\ lvl' = lvl /\ pos' = pos /\ ret' = ret
  BY <1>1, <1>5 DEF Call
<1>7. GlobalTypes'
  BY <1>1, <1>2, <1>6 DEF TypeOK, GlobalTypes
<1>8. r \in Requests /\ "call" \in PcStates /\ r.op = "free" /\ r.order = 0 /\ ~ Stray(r)
      /\ Requested(r) = b
  BY <1>4, <1>5, Constants DEF Requests, PcStates, Stray, Requested
<1> HIDE DEF r
<1>9. /\ TypeOK' /\ OthersStay(p) /\ pc'[p] = "call" /\ req'[p] = r /\ ret'[p] = ret[p]
  <2>1. Sets(p, "call", r, lvl[p], pos[p], ret[p])
    BY <1>2, <1>6, <1>8, LocalsSame DEF Sets
  <2> QED  BY <1>2, <1>7, <2>1, StepTypes
<1>10. ret[p] = NoBlock
  BY <1>2, <1>6 DEF CallInv
<1>11. CallInv(p)' /\ BodyInv(p)'
  BY <1>8, <1>9, <1>10 DEF CallInv, BodyInv
<1>12. Hand(p) = NoBlock /\ Hand(p)' = b
  BY <1>6, <1>8, <1>9 DEF Hand
<1>13. Exact(map)' /\ CountedInv' /\ CoalescedInv'
  BY <1>6, <1>9, MapStays
<1>14. PlacedInv'
  <2>1. DOMAIN Hands = Procs /\ Hands[p] = NoBlock /\ Hands' = [Hands EXCEPT ![p] = b]
    BY <1>9, <1>12, HandsStep
  <2>2. Placed(Things(FreeIn(map.free_area), held \ {b}, [Hands EXCEPT ![p] = b]))
    BY <1>1, <1>2, <2>1, HeldToHand DEF PlacedInv
  <2> QED  BY <1>1, <1>6, <2>1, <2>2 DEF PlacedInv
<1> QED  BY <1>1, <1>6, <1>8, <1>9, <1>11, <1>13, <1>14 DEF StepInv

(* Return resets the locals. *)
LEMMA ReturnTypes ==
    ASSUME TypeOK, NEW p \in Procs, Return(p),
           GlobalTypes'
    PROVE  /\ TypeOK' /\ OthersStay(p) /\ pc'[p] = "idle" /\ ret'[p] = NoBlock
           /\ req'[p] = NoRequest /\ CallInv(p)' /\ BodyInv(p)' /\ Hand(p)' = NoBlock
<1>1. NoRequest \in Requests /\ "idle" \in PcStates /\ 0 \in Nat
  BY DEF NoRequest, Requests, PcStates
<1>2. /\ TypeOK' /\ OthersStay(p) /\ pc'[p] = "idle" /\ ret'[p] = NoBlock
      /\ req'[p] = NoRequest
  <2>1. Sets(p, "idle", NoRequest, 0, 0, NoBlock)
    BY <1>1 DEF Return, Sets
  <2> QED  BY <2>1, StepTypes
<1> QED  BY <1>2 DEF CallInv, BodyInv, Hand

(* A call that ends without having changed anything. *)
LEMMA ReturnKeeps ==
    ASSUME ProtectInv, NEW p \in Procs, Return(p), pc[p] \in {"call", "free"},
           Hand(p) = NoBlock, UNCHANGED <<lock, map, pages_free, mem_full, held>>
    PROVE  /\ StepInv(p)' /\ OthersStay(p) /\ pc'[p] = "idle"
           /\ ret'[p] = NoBlock /\ ret[p] = NoBlock
<1>1. TypeOK /\ CallInv(p)
  BY DEF ProtectInv
<1>2. GlobalTypes'
  BY <1>1 DEF TypeOK, GlobalTypes
<1>3. /\ TypeOK' /\ OthersStay(p) /\ pc'[p] = "idle" /\ ret'[p] = NoBlock
      /\ CallInv(p)' /\ BodyInv(p)' /\ Hand(p)' = NoBlock
  BY <1>1, <1>2, ReturnTypes
<1>4. PlacedInv'
  BY <1>3, BlocksStay
<1>5. Exact(map)' /\ CountedInv' /\ CoalescedInv'
  BY <1>3, MapStays
<1>6. ret[p] = NoBlock
  BY <1>1 DEF CallInv
<1> QED  BY <1>3, <1>4, <1>5, <1>6 DEF StepInv

(* The end of a body: what was to be returned is held. *)
LEMMA UnlockKeeps ==
    ASSUME ProtectInv, NEW p \in Procs, Unlock(p)
    PROVE  /\ StepInv(p)' /\ OthersStay(p) /\ map' = map /\ pc'[p] = "idle"
           /\ ret'[p] = NoBlock
           /\ held' = held \cup ({ret[p]} \ {NoBlock})
<1>1. TypeOK /\ CallInv(p) /\ PlacedInv
  BY DEF ProtectInv
<1>2. /\ pc[p] = "unlock" /\ lock' = 0 /\ Return(p)
      /\ map' = map /\ pages_free' = pages_free /\ mem_full' = mem_full
      /\ held' = held \cup ({ret[p]} \ {NoBlock})
  BY DEF Unlock
<1>3. Hand(p) = ret[p] /\ ret[p] \in Blocks \cup {NoBlock}
  BY <1>1, <1>2, LocalsSame DEF Hand
<1>4. GlobalTypes'
  BY <1>1, <1>2, <1>3 DEF TypeOK, GlobalTypes
<1>5. /\ TypeOK' /\ OthersStay(p) /\ pc'[p] = "idle" /\ ret'[p] = NoBlock
      /\ CallInv(p)' /\ BodyInv(p)' /\ Hand(p)' = NoBlock
  BY <1>1, <1>2, <1>4, ReturnTypes
<1>6. Exact(map)' /\ CountedInv' /\ CoalescedInv'
  BY <1>2, <1>5, MapStays
<1>7. PlacedInv'
  <2>1. CASE ret[p] = NoBlock
    BY <1>2, <1>3, <1>5, <2>1, BlocksStay
  <2>2. CASE ret[p] # NoBlock
    <3>1. DOMAIN Hands = Procs /\ Hands[p] = ret[p] /\ Hands' = [Hands EXCEPT ![p] = NoBlock]
      BY <1>3, <1>5, HandsStep
    <3>2. Placed(Things(FreeIn(map.free_area), held \cup {Hands[p]}, [Hands EXCEPT ![p] = NoBlock]))
      BY <1>1, <2>2, <3>1, HandToHeld DEF PlacedInv
    <3>3. held' = held \cup {Hands[p]}
      BY <1>2, <2>2, <3>1
    <3> QED  BY <1>2, <3>1, <3>2, <3>3 DEF PlacedInv
  <2> QED  BY <2>1, <2>2
<1> QED  BY <1>2, <1>5, <1>6, <1>7 DEF StepInv

(* The lock is had: a body begins. *)
LEMMA LockKeeps ==
    ASSUME ProtectInv, NEW p \in Procs, Lock(p), FreeIsTracked(req[p]),
           req[p].op = "alloc" => req[p].order \in Orders
    PROVE  /\ StepInv(p)' /\ OthersStay(p) /\ map' = map /\ held' = held /\ ret' = ret
           /\ pc[p] = "call" /\ pc'[p] = req[p].op /\ req' = req
<1>1. TypeOK /\ CallInv(p) /\ Exact(map)
  BY DEF ProtectInv
<1>2. /\ pc[p] = "call" /\ lock' = 1 /\ pc' = [pc EXCEPT ![p] = req[p].op]
      /\ lvl' = [lvl EXCEPT ![p] = req[p].order] /\ pos' = [pos EXCEPT ![p] = req[p].off]
      /\ map' = map /\ pages_free' = pages_free /\ mem_full' = mem_full
      /\ held' = held /\ req' = req /\ ret' = ret
  BY DEF Lock
<1>3. GlobalTypes'
  BY <1>1, <1>2 DEF TypeOK, GlobalTypes
<1>4. req[p] \in Requests /\ req[p].op \in {"alloc", "reserve", "free"}
      /\ req[p].order \in Nat /\ req[p].off \in Nat /\ req[p].op \in PcStates
  BY <1>1, LocalsSame DEF Requests, PcStates
<1>5. /\ TypeOK' /\ OthersStay(p) /\ pc'[p] = req[p].op /\ req'[p] = req[p]
      /\ lvl'[p] = req[p].order /\ pos'[p] = req[p].off /\ ret'[p] = ret[p]
  <2>1. Sets(p, req[p].op, req[p], req[p].order, req[p].off, ret[p])
    BY <1>1, <1>2, <1>4, LocalsSame DEF Sets
  <2> QED  BY <1>1, <1>3, <2>1, StepTypes
<1>6. CallInv(p)'
  BY <1>1, <1>2, <1>4, <1>5 DEF CallInv
<1>7. BodyInv(p)'
  <2>1. req[p].op = "alloc" => req[p].order \in 0 .. req[p].order /\ req[p].order \in Orders
    BY <1>4
  <2>2. req[p].op = "free" => Stray(req[p]) \/ req[p].off = 0 \/ map.free_area[0] # {}
    <3>1. 0 \in Orders
      BY DEF Orders
    <3>2. map.pages_free[0] > 0 => map.free_area[0] # {}
      <4>1. map.pages_free[0] = 0 <=> map.free_area[0] = {}
        BY <1>1, <3>1, ExactOrder
      <4> QED  BY <4>1
    <3> QED  BY <3>2 DEF FreeIsTracked
  <2> QED  BY <1>2, <1>4, <1>5, <2>1, <2>2 DEF BodyInv, Orders
<1>8. Hand(p)' = Hand(p)
  BY <1>2, <1>4, <1>5 DEF Hand
<1>9. PlacedInv'
  BY <1>2, <1>5, <1>8, BlocksStay
<1>10. Exact(map)' /\ CountedInv' /\ CoalescedInv'
  BY <1>2, <1>5, MapStays
<1> QED  BY <1>2, <1>5, <1>6, <1>7, <1>9, <1>10 DEF StepInv

-----------------------------------------------------------------------------
(***************************************************************************)
(* The steps that change the map: a block is taken, split, put back or     *)
(* merged.  First what the four have in common.                            *)
(***************************************************************************)
LEMMA CoalescedStep ==
    ASSUME ProtectInv, NEW p \in Procs, InBody(p),
           \A o \in Orders \ {MAX_ORDER - 1} : \A k \in map'.free_area[o] :
              BuddyOf(k) \in map'.free_area[o] =>
                 \/ Worked(p, o, k)' \/ Worked(p, o, BuddyOf(k))'
                 \/ /\ k \in map.free_area[o] /\ BuddyOf(k) \in map.free_area[o]
                    /\ ~ Worked(p, o, k) /\ ~ Worked(p, o, BuddyOf(k))
    PROVE  CoalescedInv'
<1> SUFFICES ASSUME NEW o \in Orders \ {MAX_ORDER - 1}, NEW k \in map'.free_area[o],
                    BuddyOf(k) \in map'.free_area[o]
             PROVE  Worked(p, o, k)' \/ Worked(p, o, BuddyOf(k))'
  BY DEF CoalescedInv
<1>1. PcInv /\ CoalescedInv
  BY DEF ProtectInv
<1> QED  BY <1>1, OnlyWorker

(* Blocks of one order, before and after one of them is taken. *)
LEMMA AreaTaken ==
    ASSUME NEW area \in Areas, NEW o \in Orders, NEW i,
           NEW new, new = [area EXCEPT ![o] = @ \ {i}]
    PROVE  \A q \in Orders : \A k : k \in new[q] <=> k \in area[q] /\ ~ (q = o /\ k = i)
<1>1. o \in 0 .. MAX_ORDER /\ \A q \in Orders : q \in 0 .. MAX_ORDER
  BY DEF Orders
<1> QED  BY <1>1 DEF Areas

(* A free block is taken, to be returned. *)
TakesBlock(p, o, i) ==
    /\ pc[p] \in {"alloc", "reserve", "zsplit"}
    /\ o \in Orders /\ i \in map.free_area[o]
    /\ Exact(map)' /\ map'.free_area = [map.free_area EXCEPT ![o] = @ \ {i}]
    /\ Deliver(p, <<o, i>>)
    /\ UNCHANGED <<lock, held, req, lvl, pos>>

LEMMA TakeKeeps ==
    ASSUME ProtectInv, NEW p \in Procs, NEW o, NEW i, TakesBlock(p, o, i),
           \A u \in Orders : \A j \in map.free_area[u] : Worked(p, u, j) => u = o /\ j = i
    PROVE  /\ StepInv(p)' /\ OthersStay(p) /\ InBody(p) /\ pc'[p] = "unlock"
           /\ ret[p] = NoBlock /\ ret'[p] = <<o, i>> /\ req' = req /\ held' = held
<1> DEFINE b == <<o, i>>
           F == FreeIn(map.free_area)
<1>1. TypeOK /\ CallInv(p) /\ Exact(map) /\ PlacedInv /\ CountedInv /\ map \in MapType
  BY DEF ProtectInv, Exact
<1>2. /\ pc[p] \in {"alloc", "reserve", "zsplit"} /\ o \in Orders /\ i \in map.free_area[o]
      /\ Exact(map)' /\ map'.free_area = [map.free_area EXCEPT ![o] = @ \ {i}]
      /\ lock' = lock /\ held' = held /\ req' = req /\ lvl' = lvl /\ pos' = pos
  BY DEF TakesBlock
<1>3. /\ mem_full' = (mem_full \/ pages_free <= ORDER(o))
      /\ pages_free' = Wrap(pages_free - ORDER(o))
      /\ ret' = [ret EXCEPT ![p] = b] /\ pc' = [pc EXCEPT ![p] = "unlock"]
  BY DEF TakesBlock, Deliver
<1>4. InBody(p) /\ ret[p] = NoBlock /\ req[p].op \in {"alloc", "reserve"}
  BY <1>1, <1>2 DEF InBody, CallInv
<1>5. b \in F /\ map.free_area \in Areas
  BY <1>1, <1>2, InFree DEF MapType, Areas
<1>6. Placed(Things(F, held, Hands)) /\ pages_free = Cardinality(PagesIn(F))
  BY <1>1 DEF PlacedInv, CountedInv
<1>7. Inside(b) /\ b \in Blocks /\ b # NoBlock
  BY <1>5, <1>6, ThingsInside, InsideBlock
<1>8. FreeIn(map'.free_area) = F \ {b}
  BY <1>2, <1>5, FreeTaken
<1>9. pages_free' \in Counter /\ CountedInv'
  <2>1. b[1] = o
    OBVIOUS
  <2> HIDE DEF b, F
  <2>2. /\ Wrap(pages_free - ORDER(b[1])) \in Counter
        /\ Wrap(pages_free - ORDER(b[1])) = Cardinality(PagesIn(F \ {b}))
    BY <1>5, <1>6, TakenCount
  <2> QED  BY <1>3, <1>8, <2>1, <2>2 DEF CountedInv
<1>10. GlobalTypes'
  <2>1. mem_full' \in BOOLEAN
    BY <1>3
  <2>2. map' \in MapType
    BY <1>2 DEF Exact
  <2> QED  BY <1>1, <1>2, <1>9, <2>1, <2>2 DEF TypeOK, GlobalTypes
<1>11. /\ TypeOK' /\ OthersStay(p) /\ pc'[p] = "unlock" /\ ret'[p] = b /\ req'[p] = req[p]
  <2>1. Sets(p, "unlock", req[p], lvl[p], pos[p], b)
    <3>1. "unlock" \in PcStates
      BY DEF PcStates
    <3> HIDE DEF b
    <3> QED  BY <1>1, <1>2, <1>3, <1>7, <3>1, LocalsSame DEF Sets
  <2> HIDE DEF b
  <2> QED  BY <1>1, <1>10, <2>1, StepTypes
<1>12. CallInv(p)' /\ BodyInv(p)'
  BY <1>4, <1>11 DEF CallInv, BodyInv, Stray
<1>13. PlacedInv'
  <2>1. Hand(p) = NoBlock /\ Hand(p)' = b
    BY <1>2, <1>11 DEF Hand
  <2>2. DOMAIN Hands = Procs /\ Hands[p] = NoBlock /\ Hands' = [Hands EXCEPT ![p] = b]
    BY <1>11, <2>1, HandsStep
  <2> HIDE DEF b, F
  <2>3. Placed(Things(F \ {b}, held, [Hands EXCEPT ![p] = b]))
    BY <1>5, <1>6, <2>2, FreeToHand
  <2> QED  BY <1>2, <1>8, <2>2, <2>3 DEF PlacedInv
<1>14. CoalescedInv'
  <2>1. \A q \in Orders : \A k : k \in map'.free_area[q] <=> k \in map.free_area[q] /\ ~ (q = o /\ k = i)
    BY <1>2, <1>5, AreaTaken
  <2> QED  BY <1>4, <2>1, CoalescedStep
<1> QED  BY <1>2, <1>4, <1>9, <1>11, <1>12, <1>13, <1>14 DEF StepInv

(* A free block is split, to get a block of a lower order. *)
LEMMA AreaHalved ==
    ASSUME NEW area \in Areas, NEW o \in Orders \ {0}, NEW i,
           NEW new, IsHalved(new, area, o, i)
    PROVE  \A q \in Orders : \A k :
              k \in new[q] <=> \/ k \in area[q] /\ ~ (q = o /\ k = i)
                               \/ q = o - 1 /\ k \in {2 * i, 2 * i + 1}
<1> DEFINE x == area[o] \ {i}
           y == area[o - 1] \cup {2 * i, 2 * i + 1}
<1>1. DOMAIN area = 0 .. MAX_ORDER /\ o \in 0 .. MAX_ORDER /\ o - 1 \in 0 .. MAX_ORDER
      /\ o # o - 1 /\ \A q \in Orders : q \in 0 .. MAX_ORDER
  BY DEF Areas, Orders
<1>2. new = [area EXCEPT ![o] = x, ![o - 1] = y]
  BY <1>1 DEF IsHalved
<1> HIDE DEF x, y
<1>3. new[o] = x /\ new[o - 1] = y /\ \A q \in Orders \ {o, o - 1} : new[q] = area[q]
  BY <1>1, <1>2
<1> QED  BY <1>1, <1>3 DEF x, y

SplitsBlock(p, o, i) ==
    /\ pc[p] \in {"alloc", "zsplit"}
    /\ o \in Orders \ {0} /\ i \in map.free_area[o]
    /\ Exact(map)'
    /\ IsHalved(map'.free_area, map.free_area, o, i)
    /\ lvl' = [lvl EXCEPT ![p] = o - 1]
    /\ \E x \in Nat : pos' = [pos EXCEPT ![p] = x]
    /\ UNCHANGED <<lock, pages_free, mem_full, held, pc, req, ret>>
    /\ \A u \in Orders : \A j \in map.free_area[u] : Worked(p, u, j) => u = o /\ j = i
    /\ Worked(p, o - 1, 2 * i)'

LEMMA SplitKeeps ==
    ASSUME ProtectInv, NEW p \in Procs, NEW o, NEW i, SplitsBlock(p, o, i), BodyInv(p)'
    PROVE  StepInv(p)' /\ OthersStay(p) /\ InBody(p)
<1> DEFINE F == FreeIn(map.free_area)
           G == FreeIn(map'.free_area)
           l == o - 1
<1>1. TypeOK /\ CallInv(p) /\ Exact(map) /\ PlacedInv /\ CountedInv /\ map \in MapType
  BY DEF ProtectInv, Exact
<1>2. /\ pc[p] \in {"alloc", "zsplit"} /\ o \in Orders \ {0} /\ i \in map.free_area[o]
      /\ Exact(map)' /\ IsHalved(map'.free_area, map.free_area, o, i)
      /\ lock' = lock /\ held' = held /\ pc' = pc /\ req' = req /\ ret' = ret
      /\ lvl' = [lvl EXCEPT ![p] = l] /\ pages_free' = pages_free /\ mem_full' = mem_full
  BY DEF SplitsBlock
<1>3. map.free_area \in Areas /\ i \in Nat /\ l \in Nat
  <2>1. map.free_area[o] \subseteq Nat
    BY <1>1, <1>2, ExactOrder
  <2> QED  BY <1>1, <1>2, <2>1 DEF MapType, Areas, Orders
<1>4. <<o, i>> \in F /\ G = (F \ {<<o, i>>}) \cup {<<l, 2 * i>>, <<l, 2 * i + 1>>}
  BY <1>2, <1>3, InFree, FreeHalved
<1>5. GlobalTypes'
  <2>1. map' \in MapType
    BY <1>2 DEF Exact
  <2> QED  BY <1>1, <1>2, <2>1 DEF TypeOK, GlobalTypes
<1>6. /\ TypeOK' /\ OthersStay(p) /\ pc'[p] = pc[p] /\ req'[p] = req[p] /\ ret'[p] = ret[p]
  <2>0. PICK x \in Nat : pos' = [pos EXCEPT ![p] = x]
    BY DEF SplitsBlock
  <2>1. Sets(p, pc[p], req[p], l, x, ret[p])
    <3> HIDE DEF l
    <3> QED  BY <1>1, <1>2, <1>3, <2>0, LocalsSame DEF Sets
  <2> QED  BY <1>1, <1>5, <2>1, StepTypes
<1>7. CallInv(p)'
  BY <1>1, <1>6 DEF CallInv
<1>8. PlacedInv' /\ CountedInv'
  <2>1. Hands' = Hands
    <3>1. Hand(p)' = Hand(p)
      BY <1>6 DEF Hand
    <3> QED  BY <1>6, <3>1, HandsStep DEF Hands
  <2>2. Placed(Things(F, held, Hands))
    BY <1>1 DEF PlacedInv
  <2>4. IsSplit(G, F, o, i)
    BY <1>4 DEF IsSplit
  <2> HIDE DEF F, G, l
  <2>3. Placed(Things(G, held, Hands)) /\ PagesIn(G) = PagesIn(F)
    BY <1>2, <1>3, <2>2, <2>4, Halving
  <2> QED  BY <1>1, <1>2, <2>1, <2>3 DEF PlacedInv, CountedInv, F, G
<1>9. InBody(p)
  BY <1>2 DEF InBody
<1>10. CoalescedInv'
  <2>1. \A q \in Orders : \A k :
           k \in map'.free_area[q] <=> \/ k \in map.free_area[q] /\ ~ (q = o /\ k = i)
                                       \/ q = l /\ k \in {2 * i, 2 * i + 1}
    BY <1>2, <1>3, AreaHalved
  <2>3. \A u \in Orders : \A j \in map.free_area[u] : Worked(p, u, j) => u = o /\ j = i
    BY DEF SplitsBlock
  <2>2. ASSUME NEW q \in Orders \ {MAX_ORDER - 1}, NEW k \in map'.free_area[q],
               BuddyOf(k) \in map'.free_area[q]
        PROVE  \/ Worked(p, q, k)' \/ Worked(p, q, BuddyOf(k))'
               \/ /\ k \in map.free_area[q] /\ BuddyOf(k) \in map.free_area[q]
                  /\ ~ Worked(p, q, k) /\ ~ Worked(p, q, BuddyOf(k))
    <3>1. k \in Nat
      <4>1. map' \in MapType /\ q \in 0 .. MAX_ORDER
        BY <1>2 DEF Exact, Orders
      <4> QED  BY <2>2, <4>1 DEF MapType
    <3>2. BuddyOf(2 * i) = 2 * i + 1 /\ BuddyOf(2 * i + 1) = 2 * i /\ BuddyOf(BuddyOf(k)) = k
      BY <1>3, <3>1 DEF BuddyOf
    <3>3. CASE k \in {2 * i, 2 * i + 1} \/ BuddyOf(k) \in {2 * i, 2 * i + 1}
      <4>1. {k, BuddyOf(k)} = {2 * i, 2 * i + 1}
        BY <3>2, <3>3
      <4>2. CASE q = l
        <5>1. Worked(p, l, 2 * i)'
          BY DEF SplitsBlock
        <5> QED  BY <4>1, <4>2, <5>1
      <4>3. CASE q # l
        BY <2>1, <2>2, <2>3, <4>3
      <4> QED  BY <4>2, <4>3
    <3>4. CASE k \notin {2 * i, 2 * i + 1} /\ BuddyOf(k) \notin {2 * i, 2 * i + 1}
      BY <2>1, <2>2, <2>3, <3>4
    <3> QED  BY <3>3, <3>4
  <2> QED  BY <1>9, <2>2, CoalescedStep
<1> QED  BY <1>2, <1>6, <1>7, <1>8, <1>9, <1>10 DEF StepInv

-----------------------------------------------------------------------------
(***************************************************************************)
(* pages_alloc                                                             *)
(***************************************************************************)
LEMMA AllocTakeKeeps ==
    ASSUME ProtectInv, NEW p \in Procs, AllocTake(p)
    PROVE  /\ StepInv(p)' /\ OthersStay(p) /\ InBody(p) /\ pc[p] = "alloc" /\ pc'[p] = "unlock"
           /\ ret[p] = NoBlock /\ req' = req /\ held' = held
           /\ TakesBlock(p, req[p].order, map.next_free_page[req[p].order])
           /\ ret'[p] = <<req[p].order, map.next_free_page[req[p].order]>>
<1> DEFINE o == lvl[p]
           i == map.next_free_page[o]
<1>1. Exact(map) /\ BodyInv(p)
  BY DEF ProtectInv
<1>2. /\ pc[p] = "alloc" /\ o = req[p].order /\ map.pages_free[o] > 0
      /\ map' = take_next(block_set(map, o, i), o) /\ Deliver(p, <<o, i>>)
      /\ UNCHANGED <<lock, held, req, lvl, pos>>
  BY DEF AllocTake
<1>3. o \in Orders
  BY <1>1, <1>2 DEF BodyInv
<1>4. map.free_area[o] # {} /\ i \in map.free_area[o]
  <2> HIDE DEF o
  <2>1. /\ (map.pages_free[o] = 0 <=> map.free_area[o] = {})
        /\ (map.free_area[o] # {} => IsFirst(map.next_free_page[o], map.free_area[o]))
    BY <1>1, <1>3, ExactOrder
  <2> QED  BY <1>2, <2>1 DEF IsFirst
<1>5. Exact(map') /\ map'.free_area = [map.free_area EXCEPT ![o] = @ \ {i}]
  <2> HIDE DEF o
  <2> QED  BY <1>1, <1>2, <1>3, <1>4, TakeExact
<1>6. TakesBlock(p, o, i)
  BY <1>2, <1>3, <1>4, <1>5 DEF TakesBlock, Exact, OrderExact
<1>7. \A u \in Orders : \A j \in map.free_area[u] : Worked(p, u, j) => u = o /\ j = i
  BY <1>2 DEF Worked
<1> HIDE DEF o, i
<1>8. /\ StepInv(p)' /\ OthersStay(p) /\ InBody(p) /\ pc'[p] = "unlock"
      /\ ret[p] = NoBlock /\ ret'[p] = <<o, i>> /\ req' = req /\ held' = held
  BY <1>6, <1>7, TakeKeeps
<1> QED  BY <1>2, <1>6, <1>8 DEF i

LEMMA AllocAscendKeeps ==
    ASSUME ProtectInv, NEW p \in Procs, AllocAscend(p)
    PROVE  /\ StepInv(p)' /\ OthersStay(p) /\ InBody(p) /\ map' = map /\ held' = held
           /\ pc[p] = "alloc" /\ pc' = pc /\ req' = req /\ ret' = ret
<1> DEFINE o == lvl[p]
<1>1. Exact(map) /\ BodyInv(p) /\ CallInv(p) /\ TypeOK
  BY DEF ProtectInv
<1>2. /\ pc[p] = "alloc" /\ o < MAX_ORDER - 1 /\ map.pages_free[o] = 0
      /\ lvl' = [lvl EXCEPT ![p] = o + 1]
      /\ lock' = lock /\ map' = map /\ pages_free' = pages_free /\ mem_full' = mem_full
      /\ held' = held /\ pc' = pc /\ req' = req /\ pos' = pos /\ ret' = ret
  BY DEF AllocAscend
<1>3. /\ o \in Orders /\ req[p].order \in 0 .. o /\ o + 1 \in Orders /\ o + 1 \in Nat
      /\ \A u \in Orders : req[p].order <= u /\ u < o => map.free_area[u] = {}
  BY <1>1, <1>2 DEF BodyInv, Orders
<1>4. map.free_area[o] = {}
  BY <1>1, <1>2, <1>3, ExactOrder
<1>5. GlobalTypes'
  BY <1>1, <1>2 DEF TypeOK, GlobalTypes
<1>6. /\ TypeOK' /\ OthersStay(p) /\ lvl'[p] = o + 1
  <2>1. Sets(p, pc[p], req[p], o + 1, pos[p], ret[p])
    BY <1>1, <1>2, <1>3, LocalsSame DEF Sets
  <2> QED  BY <1>1, <1>5, <2>1, StepTypes
<1>7. CallInv(p)'
  BY <1>1, <1>2 DEF CallInv
<1>8. BodyInv(p)'
  <2> HIDE DEF o
  <2>1. ASSUME NEW u \in Orders, req[p].order <= u, u < o + 1
        PROVE  map.free_area[u] = {}
    BY <1>3, <1>4, <2>1 DEF Orders
  <2>2. req[p].order \in 0 .. o + 1
    BY <1>3 DEF Orders
  <2>3. pc'[p] = "alloc" /\ req'[p] = req[p] /\ map' = map
    BY <1>2
  <2> QED  BY <1>3, <1>6, <2>1, <2>2, <2>3 DEF BodyInv
<1>9. Hand(p)' = Hand(p)
  BY <1>2 DEF Hand
<1>10. PlacedInv' /\ Exact(map)' /\ CountedInv' /\ CoalescedInv'
  BY <1>2, <1>4, <1>6, <1>9, BlocksStay, MapStays
<1> QED  BY <1>2, <1>6, <1>7, <1>8, <1>10 DEF StepInv, InBody

LEMMA AllocFailKeeps ==
    ASSUME ProtectInv, NEW p \in Procs, AllocFail(p)
    PROVE  /\ StepInv(p)' /\ OthersStay(p) /\ InBody(p) /\ map' = map /\ held' = held
           /\ pc[p] = "alloc" /\ pc'[p] = "unlock" /\ req' = req /\ ret' = ret /\ ret[p] = NoBlock
           /\ req[p].order \in Orders
           /\ \A u \in Orders : req[p].order <= u => map.free_area[u] = {}
<1> DEFINE o == lvl[p]
<1>1. Exact(map) /\ BodyInv(p) /\ CallInv(p) /\ TypeOK
  BY DEF ProtectInv
<1>2. /\ pc[p] = "alloc" /\ o = MAX_ORDER - 1 /\ map.pages_free[o] = 0
      /\ mem_full' = TRUE /\ pc' = [pc EXCEPT ![p] = "unlock"] /\ lvl' = lvl
      /\ lock' = lock /\ map' = map /\ pages_free' = pages_free
      /\ held' = held /\ req' = req /\ pos' = pos /\ ret' = ret
  BY DEF AllocFail
<1>3. /\ o \in Orders /\ req[p].order \in 0 .. o /\ req[p].order \in Orders
      /\ \A u \in Orders : req[p].order <= u /\ u < o => map.free_area[u] = {}
  BY <1>1, <1>2 DEF BodyInv, Orders
<1>4. map.free_area[o] = {}
  BY <1>1, <1>2, <1>3, ExactOrder
<1>5. \A u \in Orders : req[p].order <= u => map.free_area[u] = {}
  BY <1>2, <1>3, <1>4 DEF Orders
<1>6. GlobalTypes' /\ "unlock" \in PcStates
  BY <1>1, <1>2 DEF TypeOK, GlobalTypes, PcStates
<1>7. /\ TypeOK' /\ OthersStay(p) /\ pc'[p] = "unlock"
  <2>1. Sets(p, "unlock", req[p], lvl[p], pos[p], ret[p])
    BY <1>1, <1>2, <1>6, LocalsSame DEF Sets
  <2> QED  BY <1>1, <1>6, <2>1, StepTypes
<1>8. ret[p] = NoBlock /\ req[p].op = "alloc"
  BY <1>1, <1>2 DEF CallInv
<1>9. CallInv(p)' /\ BodyInv(p)'
  BY <1>2, <1>7, <1>8 DEF CallInv, BodyInv, Stray
<1>10. Hand(p)' = NoBlock /\ Hand(p) = NoBlock
  BY <1>2, <1>7, <1>8 DEF Hand
<1>11. PlacedInv' /\ Exact(map)' /\ CountedInv' /\ CoalescedInv'
  BY <1>2, <1>4, <1>7, <1>10, BlocksStay, MapStays
<1> QED  BY <1>2, <1>3, <1>5, <1>7, <1>8, <1>9, <1>11 DEF StepInv, InBody

LEMMA AllocSplitKeeps ==
    ASSUME ProtectInv, NEW p \in Procs, AllocSplit(p)
    PROVE  /\ StepInv(p)' /\ OthersStay(p) /\ InBody(p) /\ held' = held
           /\ pc[p] = "alloc" /\ pc' = pc /\ req' = req /\ ret' = ret
           /\ SplitsBlock(p, lvl[p], map.next_free_page[lvl[p]])
<1>0. PICK o, i : o = lvl[p] /\ i = map.next_free_page[o]
  OBVIOUS
<1>1. Exact(map) /\ BodyInv(p) /\ CallInv(p) /\ TypeOK
  BY DEF ProtectInv
<1>2. /\ pc[p] = "alloc" /\ o > req[p].order /\ map.pages_free[o] > 0
      /\ map' = split_next(map, o) /\ lvl' = [lvl EXCEPT ![p] = o - 1]
      /\ lock' = lock /\ pages_free' = pages_free /\ mem_full' = mem_full
      /\ held' = held /\ pc' = pc /\ req' = req /\ pos' = pos /\ ret' = ret
  BY <1>0 DEF AllocSplit
<1>3. /\ o \in Orders \ {0} /\ req[p].order \in 0 .. o /\ o - 1 \in Orders /\ o - 1 < o
      /\ req[p].order <= o - 1
      /\ \A u \in Orders : req[p].order <= u /\ u < o => map.free_area[u] = {}
  BY <1>0, <1>1, <1>2 DEF BodyInv, Orders
<1>4. /\ map.free_area[o] # {} /\ i \in map.free_area[o] /\ i \in Nat
  <2>1. /\ (map.pages_free[o] = 0 <=> map.free_area[o] = {}) /\ map.free_area[o] \subseteq Nat
        /\ (map.free_area[o] # {} => IsFirst(map.next_free_page[o], map.free_area[o]))
    BY <1>1, <1>3, ExactOrder
  <2> QED  BY <1>0, <1>2, <2>1 DEF IsFirst
<1>5. /\ Exact(map') /\ map'.next_free_page[o - 1] = 2 * i
      /\ map'.free_area = [map.free_area EXCEPT ![o] = @ \ {i},
                                                ![o - 1] = @ \cup {2 * i, 2 * i + 1}]
  <2>1. map.free_area[o - 1] = {}
    BY <1>3
  <2> QED  BY <1>0, <1>1, <1>2, <1>3, <1>4, <2>1, SplitExact
<1>6. Exact(map)'
  BY <1>5 DEF Exact, OrderExact
<1>8. lvl'[p] = o - 1
  BY <1>1, <1>2 DEF TypeOK
<1>9. \A u \in Orders : \A j \in map.free_area[u] : Worked(p, u, j) => u = o /\ j = i
  BY <1>0, <1>2 DEF Worked
<1>13. Worked(p, o - 1, 2 * i)'
  BY <1>2, <1>5, <1>8 DEF Worked
<1>11. \E x \in Nat : pos' = [pos EXCEPT ![p] = x]
  BY <1>1, <1>2, LocalsSame
<1>7. SplitsBlock(p, o, i)
  BY <1>2, <1>3, <1>4, <1>5, <1>6, <1>9, <1>11, <1>13 DEF SplitsBlock, IsHalved
<1>10. BodyInv(p)'
  <2>1. map.free_area \in Areas
    BY <1>1 DEF TypeOK, MapType, Areas
  <2>2. \A q \in Orders : \A k :
           k \in map'.free_area[q] <=> \/ k \in map.free_area[q] /\ ~ (q = o /\ k = i)
                                       \/ q = o - 1 /\ k \in {2 * i, 2 * i + 1}
    BY <1>3, <1>7, <2>1, AreaHalved DEF SplitsBlock
  <2>3. ASSUME NEW u \in Orders, req[p].order <= u, u < o - 1
        PROVE  map'.free_area[u] = {}
    <3>1. map.free_area[u] = {} /\ u # o /\ u # o - 1
      BY <1>3, <2>3 DEF Orders
    <3> QED  BY <2>2, <3>1
  <2>4. req[p].order \in 0 .. o - 1
    BY <1>3 DEF Orders
  <2> QED  BY <1>2, <1>3, <1>8, <2>3, <2>4 DEF BodyInv
<1>12. StepInv(p)' /\ OthersStay(p) /\ InBody(p)
  BY <1>7, <1>10, SplitKeeps
<1> QED  BY <1>0, <1>2, <1>7, <1>12

-----------------------------------------------------------------------------
(***************************************************************************)
(* pages_reserve, called by mem_p_protect                                  *)
(***************************************************************************)
LEMMA StartBit ==
    ASSUME NEW m, NEW o \in Orders
    PROVE  IsFree(m, o, 0) <=> 0 \in m.free_area[o]
<1>1. 0 < 8 * AreaBytes(NPages, o)
  <2> DEFINE n == NPages
  <2>1. n \in Nat /\ n > 0
    BY Constants
  <2> HIDE DEF n
  <2>2. 0 < 8 * AreaBytes(n, o)
    <3>2. CASE o = 0  BY <2>1, <3>2 DEF ORDER, AreaBytes
    <3>3. CASE o = 1  BY <2>1, <3>3 DEF ORDER, AreaBytes
    <3>4. CASE o = 2  BY <2>1, <3>4 DEF ORDER, AreaBytes
    <3>5. CASE o = 3  BY <2>1, <3>5 DEF ORDER, AreaBytes
    <3>6. CASE o = 4  BY <2>1, <3>6 DEF ORDER, AreaBytes
    <3>7. CASE o = 5  BY <2>1, <3>7 DEF ORDER, AreaBytes
    <3>8. CASE o = 6  BY <2>1, <3>8 DEF ORDER, AreaBytes
    <3>9. CASE o = 7  BY <2>1, <3>9 DEF ORDER, AreaBytes
    <3>10. CASE o = 8  BY <2>1, <3>10 DEF ORDER, AreaBytes
    <3>11. CASE o = 9  BY <2>1, <3>11 DEF ORDER, AreaBytes
    <3> QED  BY <3>2, <3>3, <3>4, <3>5, <3>6, <3>7, <3>8, <3>9, <3>10, <3>11 DEF Orders
  <2> QED  BY <2>2 DEF n
<1>2. Loc(NPages, o, 0) = <<o, 0>>
  BY <1>1 DEF Loc
<1> QED  BY <1>2 DEF IsFree

(* The requests of mem_p_protect: there is one at most, for a block of the region. *)
LEMMA RequestInside ==
    ASSUME RightUse, place \in Places, NEW b \in Protected
    PROVE  /\ \E o \in Orders, i \in Nat : b = <<o, i>> /\ i < Room(o)
           /\ Protected = {b}
<1>1. CASE \E r \in Orders : LowRequest = {<<r, 0>>} /\ ORDER(r) <= NPages /\ InfoRequest = {}
  <2>1. PICK r \in Orders : LowRequest = {<<r, 0>>} /\ ORDER(r) <= NPages /\ InfoRequest = {}
    BY <1>1
  <2>2. Protected = {<<r, 0>>} /\ b = <<r, 0>>
    BY <2>1 DEF Protected
  <2>3. 0 < free_area_length(NPages, r)
    <3>1. NPages \in Nat
      BY Constants
    <3>2. PICK n : n = NPages
      OBVIOUS
    <3>3. n \in Nat /\ ORDER(r) <= n
      BY <2>1, <3>1, <3>2
    <3>4. 0 < n \div ORDER(r)
      <4>1. CASE r = 0  BY <3>3, <4>1 DEF ORDER
      <4>2. CASE r = 1  BY <3>3, <4>2 DEF ORDER
      <4>3. CASE r = 2  BY <3>3, <4>3 DEF ORDER
      <4>4. CASE r = 3  BY <3>3, <4>4 DEF ORDER
      <4>5. CASE r = 4  BY <3>3, <4>5 DEF ORDER
      <4>6. CASE r = 5  BY <3>3, <4>6 DEF ORDER
      <4>7. CASE r = 6  BY <3>3, <4>7 DEF ORDER
      <4>8. CASE r = 7  BY <3>3, <4>8 DEF ORDER
      <4>9. CASE r = 8  BY <3>3, <4>9 DEF ORDER
      <4>10. CASE r = 9  BY <3>3, <4>10 DEF ORDER
      <4> QED  BY <4>1, <4>2, <4>3, <4>4, <4>5, <4>6, <4>7, <4>8, <4>9, <4>10 DEF Orders
    <3> QED  BY <3>2, <3>4 DEF free_area_length
  <2> QED  BY <2>2, <2>3 DEF Room
<1>2. CASE LowRequest = {} /\ \E k \in {0} \cup init_free_area(NPages, 0) : InfoRequest = {<<0, k>>}
  <2>1. PICK k \in {0} \cup init_free_area(NPages, 0) : InfoRequest = {<<0, k>>}
    BY <1>2
  <2>2. Protected = {<<0, k>>} /\ b = <<0, k>>
    BY <1>2, <2>1 DEF Protected
  <2>3. 0 \in Orders
    BY DEF Orders
  <2>4. k \in Nat /\ k < free_area_length(NPages, 0)
    <3>1. CASE k = 0
      BY <3>1, Constants DEF free_area_length, ORDER
    <3>2. CASE k \in init_free_area(NPages, 0)
      BY <2>3, <3>2, InitialRun
    <3> QED  BY <3>1, <3>2
  <2> QED  BY <2>2, <2>3, <2>4 DEF Room
<1> QED  BY <1>1, <1>2, OneRequest DEF Protected

(* A reservation under way is the one request of mem_p_protect. *)
LEMMA TheRequest ==
    ASSUME RightUse, ProtectInv, NEW p \in Procs,
           (pc[p] # "idle" /\ Protecting) \/ pc[p] \in {"reserve", "zsplit"}
    PROVE  /\ Protecting /\ req[p].op = "reserve"
           /\ pc[p] \in {"call", "reserve", "zsplit"}
           /\ req[p].order \in Orders /\ req[p].off \in Nat /\ req[p].off < Room(req[p].order)
           /\ Protected = {<<req[p].order, req[p].off>>}
           /\ Available(<<req[p].order, req[p].off>>)
           /\ \A q \in Procs : pc[q] # "idle" => p = q
<1> DEFINE o == req[p].order
           i == req[p].off
<1>1. CallInv(p) /\ place \in Places
  BY DEF ProtectInv
<1>2. Protecting /\ pc[p] # "idle"
  <2>1. CASE pc[p] \in {"reserve", "zsplit"}
    <3>1. req[p].op = "reserve"
      BY <1>1, <2>1 DEF CallInv
    <3> QED  BY <2>1, <3>1 DEF ProtectInv, AfterProtect
  <2> QED  BY <2>1
<1>3. /\ pc[p] \in {"call", "reserve", "zsplit"} /\ req[p].op = "reserve"
      /\ <<o, i>> \in Protected /\ \A b \in Protected : Available(b)
      /\ \A q \in Procs : pc[q] # "idle" => p = q
  BY <1>2 DEF Protecting
<1>4. /\ o \in Orders /\ i \in Nat /\ i < Room(o) /\ Protected = {<<o, i>>}
  <2> HIDE DEF o, i
  <2>1. PICK u \in Orders, k \in Nat : <<o, i>> = <<u, k>> /\ k < Room(u)
    BY <1>1, <1>3, RequestInside
  <2>2. o = u /\ i = k
    BY <2>1
  <2> QED  BY <1>1, <1>3, <2>1, <2>2, RequestInside
<1> QED  BY <1>2, <1>3, <1>4

(* What was asked for is free, and is taken. *)
LEMMA ReserveTakeKeeps ==
    ASSUME RightUse, ProtectInv, NEW p \in Procs, ReserveTake(p)
    PROVE  /\ StepInv(p)' /\ OthersStay(p) /\ InBody(p) /\ pc[p] = "reserve"
           /\ pc'[p] = "unlock" /\ ret[p] = NoBlock /\ req' = req /\ held' = held
           /\ TakesBlock(p, req[p].order, req[p].off)
           /\ ret'[p] = <<req[p].order, req[p].off>>
<1>0. PICK o, i : o = req[p].order /\ i = req[p].off
  OBVIOUS
<1>1. Exact(map)
  BY DEF ProtectInv
<1>2. /\ pc[p] = "reserve" /\ IsFree(map, o, i) /\ map' = reserve_at(map, o, i)
      /\ Deliver(p, <<o, i>>)
      /\ UNCHANGED <<lock, held, req, lvl, pos>>
  BY <1>0 DEF ReserveTake
<1>3. o \in Orders /\ i \in Nat /\ i < Room(o)
  BY <1>0, <1>2, TheRequest
<1>4. i \in map.free_area[o]
  BY <1>2, <1>3, FreeBit
<1>5. Exact(map') /\ map'.free_area = [map.free_area EXCEPT ![o] = @ \ {i}]
  BY <1>1, <1>2, <1>3, <1>4, ReserveExact
<1>6. TakesBlock(p, o, i)
  BY <1>2, <1>3, <1>4, <1>5 DEF TakesBlock, Exact, OrderExact
<1>7. \A u \in Orders : \A j \in map.free_area[u] : Worked(p, u, j) => u = o /\ j = i
  BY <1>2 DEF Worked
<1>8. /\ StepInv(p)' /\ OthersStay(p) /\ InBody(p) /\ pc'[p] = "unlock"
      /\ ret[p] = NoBlock /\ ret'[p] = <<o, i>> /\ req' = req /\ held' = held
  BY <1>6, <1>7, TakeKeeps
<1> QED  BY <1>0, <1>2, <1>6, <1>8

(* The walk down ends at the order that was asked for. *)
LEMMA ReserveEndKeeps ==
    ASSUME RightUse, ProtectInv, NEW p \in Procs, ReserveEnd(p)
    PROVE  /\ StepInv(p)' /\ OthersStay(p) /\ InBody(p) /\ pc[p] = "zsplit"
           /\ pc'[p] = "unlock" /\ ret[p] = NoBlock /\ req' = req /\ held' = held
           /\ TakesBlock(p, req[p].order, req[p].off)
           /\ ret'[p] = <<req[p].order, req[p].off>>
<1>0. PICK o, i : o = req[p].order /\ i = req[p].off
  OBVIOUS
<1>1. Exact(map) /\ BodyInv(p)
  BY DEF ProtectInv
<1>2. /\ pc[p] = "zsplit" /\ lvl[p] = o
      /\ map' = IF IsFree(map, o, i) THEN reserve_at(map, o, i) ELSE map
      /\ Deliver(p, <<o, i>>)
      /\ UNCHANGED <<lock, held, req, lvl, pos>>
  BY <1>0 DEF ReserveEnd
<1>3. o \in Orders /\ i = 0 /\ i \in map.free_area[o]
  BY <1>0, <1>1, <1>2 DEF BodyInv
<1>4. map' = reserve_at(map, o, i)
  BY <1>2, <1>3, StartBit
<1>5. Exact(map') /\ map'.free_area = [map.free_area EXCEPT ![o] = @ \ {i}]
  BY <1>1, <1>3, <1>4, ReserveExact
<1>6. TakesBlock(p, o, i)
  BY <1>2, <1>3, <1>5 DEF TakesBlock, Exact, OrderExact
<1>7. \A u \in Orders : \A j \in map.free_area[u] : Worked(p, u, j) => u = o /\ j = i
  BY <1>2, <1>3 DEF Worked
<1>8. /\ StepInv(p)' /\ OthersStay(p) /\ InBody(p) /\ pc'[p] = "unlock"
      /\ ret[p] = NoBlock /\ ret'[p] = <<o, i>> /\ req' = req /\ held' = held
  BY <1>6, <1>7, TakeKeeps
<1> QED  BY <1>0, <1>2, <1>6, <1>8

(* The block is not free by itself, so the region begins with a larger one. *)
LEMMA ReserveSearchKeeps ==
    ASSUME RightUse, ProtectInv, NEW p \in Procs, ReserveSearch(p)
    PROVE  /\ StepInv(p)' /\ OthersStay(p) /\ InBody(p) /\ map' = map /\ held' = held
           /\ pc[p] = "reserve" /\ pc'[p] = "zsplit" /\ req' = req /\ ret' = ret
<1>0. PICK o, i : o = req[p].order /\ i = req[p].off
  OBVIOUS
<1> DEFINE Around(k) == i \div ORDER(k - o)
           found == {k \in o + 1 .. MAX_ORDER - 1 : IsFree(map, k, Around(k))}
           start == IF found = {} THEN o ELSE Min(found)
<1>1. Exact(map) /\ CallInv(p) /\ TypeOK
  BY DEF ProtectInv
<1>2. /\ pc[p] = "reserve" /\ ~ IsFree(map, o, i)
      /\ lvl' = [lvl EXCEPT ![p] = start] /\ pos' = [pos EXCEPT ![p] = Around(start)]
      /\ pc' = [pc EXCEPT ![p] = "zsplit"]
      /\ lock' = lock /\ map' = map /\ pages_free' = pages_free /\ mem_full' = mem_full
      /\ held' = held /\ req' = req /\ ret' = ret
  BY <1>0 DEF ReserveSearch
<1>3. o \in Orders /\ i \in Nat /\ i < Room(o) /\ Available(<<o, i>>)
  BY <1>0, <1>2, TheRequest
<1>4. i \notin map.free_area[o]
  BY <1>2, <1>3, FreeBit
<1>5. i = 0 /\ \E u \in Orders : o <= u /\ 0 \in map.free_area[u]
  BY <1>3, <1>4 DEF Available
<1>6. PICK u \in Orders : o < u /\ 0 \in map.free_area[u]
  <2>1. PICK u \in Orders : o <= u /\ 0 \in map.free_area[u]
    BY <1>5
  <2>2. u # o
    BY <1>4, <1>5, <2>1
  <2> QED  BY <1>3, <2>1, <2>2 DEF Orders
<1>7. \A k \in Orders : o <= k => Around(k) = 0
  <2> SUFFICES ASSUME NEW k \in Orders, o <= k  PROVE 0 \div ORDER(k - o) = 0
    BY <1>5
  <2>1. k - o \in 0 .. 10
    BY <1>3 DEF Orders
  <2>2. ORDER(k - o) \in 1 .. 1024
    BY SMTT(60), <2>1, OrderPositive
  <2> HIDE DEF ORDER
  <2> QED  BY <2>2
<1>8. found = {k \in o + 1 .. MAX_ORDER - 1 : 0 \in map.free_area[k]}
  <2>1. \A k \in o + 1 .. MAX_ORDER - 1 : k \in Orders /\ o <= k
    BY <1>3 DEF Orders
  <2>2. \A k \in o + 1 .. MAX_ORDER - 1 : IsFree(map, k, Around(k)) <=> 0 \in map.free_area[k]
    BY <1>7, <2>1, StartBit
  <2> QED  BY <2>2
<1> HIDE DEF Around
<1>9. /\ start \in Orders /\ o <= start /\ 0 \in map.free_area[start] /\ start \in Nat
      /\ Around(start) = 0
  <2>1. u \in found /\ found \subseteq Nat
    BY <1>3, <1>6, <1>8 DEF Orders
  <2>2. IsFirst(Min(found), found)
    <3> HIDE DEF found
    <3> QED  BY <2>1, MinIsFirst
  <2>3. start = Min(found) /\ Min(found) \in found
    BY <2>1, <2>2 DEF IsFirst
  <2>4. start \in o + 1 .. MAX_ORDER - 1 /\ 0 \in map.free_area[start]
    BY <1>8, <2>3
  <2> HIDE DEF start
  <2>5. start \in Orders /\ o <= start /\ start \in Nat
    BY <1>3, <2>4 DEF Orders
  <2> QED  BY <1>7, <2>4, <2>5
<1> HIDE DEF start, found
<1>10. GlobalTypes' /\ "zsplit" \in PcStates
  BY <1>1, <1>2 DEF TypeOK, GlobalTypes, PcStates
<1>11. /\ TypeOK' /\ OthersStay(p) /\ pc'[p] = "zsplit" /\ lvl'[p] = start /\ pos'[p] = 0
  <2>1. Sets(p, "zsplit", req[p], start, 0, ret[p])
    BY <1>1, <1>2, <1>9, <1>10, LocalsSame DEF Sets
  <2> QED  BY <1>1, <1>10, <2>1, StepTypes
<1>12. CallInv(p)'
  BY <1>1, <1>2, <1>11 DEF CallInv
<1>13. BodyInv(p)'
  <2>1. o \in 0 .. start
    BY <1>3, <1>9 DEF Orders
  <2>2. map' = map /\ req' = req
    BY <1>2
  <2> QED  BY <1>0, <1>5, <1>9, <1>11, <2>1, <2>2 DEF BodyInv
<1>14. Hand(p)' = NoBlock /\ Hand(p) = NoBlock
  BY <1>2, <1>11 DEF Hand
<1>15. PlacedInv' /\ Exact(map)' /\ CountedInv' /\ CoalescedInv'
  BY <1>2, <1>11, <1>14, BlocksStay, MapStays
<1> QED  BY <1>2, <1>11, <1>12, <1>13, <1>15 DEF StepInv, InBody

LEMMA ReserveSplitKeeps ==
    ASSUME RightUse, ProtectInv, NEW p \in Procs, ReserveSplit(p)
    PROVE  /\ StepInv(p)' /\ OthersStay(p) /\ InBody(p) /\ held' = held
           /\ pc[p] = "zsplit" /\ pc' = pc /\ req' = req /\ ret' = ret
           /\ SplitsBlock(p, lvl[p], pos[p])
           /\ 0 \in map'.free_area[lvl'[p]] /\ lvl'[p] \in Orders /\ req[p].order <= lvl'[p]
<1>0. PICK o, i : o = lvl[p] /\ i = pos[p]
  OBVIOUS
<1>1. Exact(map) /\ BodyInv(p) /\ CallInv(p) /\ TypeOK /\ PlacedInv
  BY DEF ProtectInv
<1>2. /\ pc[p] = "zsplit" /\ o > req[p].order
      /\ map' = zsplit_at(map, o, i) /\ lvl' = [lvl EXCEPT ![p] = o - 1]
      /\ pos' = [pos EXCEPT ![p] = 2 * i]
      /\ lock' = lock /\ pages_free' = pages_free /\ mem_full' = mem_full
      /\ held' = held /\ pc' = pc /\ req' = req /\ ret' = ret
  BY <1>0 DEF ReserveSplit
<1>3. /\ o \in Orders \ {0} /\ req[p].order \in 0 .. o - 1 /\ o - 1 \in Orders
      /\ i = 0 /\ i \in Nat /\ i \in map.free_area[o] /\ req[p].off = 0
  BY <1>0, <1>1, <1>2 DEF BodyInv, Orders
<1>4. 2 * i \notin map.free_area[o - 1] /\ 2 * i + 1 \notin map.free_area[o - 1]
  <2> DEFINE F == FreeIn(map.free_area)
             G == (F \ {<<o, i>>}) \cup {<<o - 1, 2 * i>>, <<o - 1, 2 * i + 1>>}
  <2>1. IsSplit(G, F, o, i) /\ Placed(Things(F, held, Hands))
    BY <1>1, <1>3, InFree DEF IsSplit, PlacedInv
  <2>2. /\ (<<o - 1, 2 * i>> \in F <=> 2 * i \in map.free_area[o - 1])
        /\ (<<o - 1, 2 * i + 1>> \in F <=> 2 * i + 1 \in map.free_area[o - 1])
    BY <1>3, InFree
  <2> HIDE DEF F, G
  <2>3. <<o - 1, 2 * i>> \notin F /\ <<o - 1, 2 * i + 1>> \notin F
    BY ZenonT(60), <1>3, <2>1, Halving
  <2> QED  BY <2>2, <2>3
<1>5. Exact(map') /\ IsHalved(map'.free_area, map.free_area, o, i)
  BY <1>1, <1>2, <1>3, <1>4, ZsplitExact DEF IsHalved
<1>6. Exact(map)'
  BY <1>5 DEF Exact, OrderExact
<1>7. lvl'[p] = o - 1 /\ pos'[p] = 0
  BY <1>1, <1>2, <1>3 DEF TypeOK
<1>8. \A u \in Orders : \A j \in map.free_area[u] : Worked(p, u, j) => u = o /\ j = i
  BY <1>0, <1>2, <1>3 DEF Worked
<1>9. Worked(p, o - 1, 2 * i)'
  BY <1>2, <1>3, <1>7 DEF Worked
<1>10. \E x \in Nat : pos' = [pos EXCEPT ![p] = x]
  <2>1. 2 * i \in Nat
    BY <1>3
  <2> QED  BY <1>2, <2>1
<1>11. SplitsBlock(p, o, i)
  BY <1>2, <1>3, <1>5, <1>6, <1>8, <1>9, <1>10 DEF SplitsBlock
<1>12. 0 \in map'.free_area[o - 1]
  <2>1. map.free_area \in Areas
    BY <1>1 DEF TypeOK, MapType, Areas
  <2>2. \A q \in Orders : \A k :
           k \in map'.free_area[q] <=> \/ k \in map.free_area[q] /\ ~ (q = o /\ k = i)
                                       \/ q = o - 1 /\ k \in {2 * i, 2 * i + 1}
    BY <1>3, <1>5, <2>1, AreaHalved
  <2> QED  BY <1>3, <2>2
<1>13. BodyInv(p)'
  <2>1. req' = req /\ pc' = pc /\ o - 1 \in Orders
    BY <1>2, <1>3
  <2> QED  BY <1>2, <1>3, <1>7, <1>12, <2>1 DEF BodyInv
<1>14. StepInv(p)' /\ OthersStay(p) /\ InBody(p)
  BY <1>11, <1>13, SplitKeeps
<1>15. req[p].order <= o - 1
  BY <1>3
<1> QED  BY <1>0, <1>2, <1>3, <1>7, <1>11, <1>12, <1>14, <1>15

-----------------------------------------------------------------------------
(***************************************************************************)
(* pages_free                                                              *)
(***************************************************************************)
(* What a block is that a client gives back. *)
LEMMA BlockGivenBack ==
    ASSUME ProtectInv, NEW p \in Procs, pc[p] = "free", ~ Stray(req[p])
    PROVE  /\ 0 \in Orders /\ req[p].order = 0 /\ req[p].off \in Nat /\ req[p].off < Room(0)
           /\ Hand(p) = <<0, req[p].off>> /\ Hand(p) # NoBlock
           /\ req[p].off \notin map.free_area[0]
<1>1. TypeOK /\ CallInv(p) /\ PlacedInv /\ BodyInv(p)
  BY DEF ProtectInv
<1>2. 0 \in Orders /\ ORDER(0) = 1
  BY DEF Orders, ORDER
<1>3. req[p].op = "free" /\ req[p].order = 0 /\ req[p].off \in Nat
  BY <1>1, LocalsSame DEF CallInv, Requests
<1>4. Hand(p) = <<0, req[p].off>> /\ <<0, req[p].off>> # NoBlock
  <2>1. req[p].off \div 1 = req[p].off
    BY <1>3
  <2> QED  BY <1>2, <1>3, <2>1 DEF Hand, Requested, NoBlock
<1>5. /\ Hands[p] = <<0, req[p].off>> /\ Hands[p] # NoBlock
      /\ Placed(Things(FreeIn(map.free_area), held, Hands))
  BY <1>1, <1>4 DEF Hands, PlacedInv
<1>6. Inside(<<0, req[p].off>>)
  BY <1>5, ThingsInside
<1>7. PICK page \in 0 .. NPages - 1 : Covers(<<0, req[p].off>>, page)
  BY <1>6, InsideBlock
<1>8. <<0, req[p].off>> \notin FreeIn(map.free_area)
  BY <1>5, <1>7, PlacedMeans
<1> QED  BY <1>2, <1>3, <1>4, <1>6, <1>8, InFree DEF Inside

(* Only what is behind the region is ignored. *)
LEMMA FreeIgnoreKeeps ==
    ASSUME ProtectInv, NEW p \in Procs, FreeIgnore(p)
    PROVE  /\ StepInv(p)' /\ OthersStay(p) /\ InBody(p) /\ map' = map /\ held' = held
           /\ pc[p] = "free" /\ pc'[p] = "idle" /\ Stray(req[p])
           /\ ret'[p] = NoBlock /\ ret[p] = NoBlock
<1>1. /\ pc[p] = "free" /\ (req[p].off >= NPages \/ IsFree(map, req[p].order, req[p].off))
      /\ Return(p) /\ UNCHANGED <<lock, map, pages_free, mem_full, held>>
  BY DEF FreeIgnore
<1>2. Stray(req[p])
  <2> SUFFICES ASSUME ~ Stray(req[p])  PROVE FALSE
    OBVIOUS
  <2>1. pc[p] = "free"
    BY DEF FreeIgnore
  <2>2. /\ req[p].order = 0 /\ req[p].off \in Nat /\ req[p].off < Room(0) /\ 0 \in Orders
        /\ req[p].off \notin map.free_area[0]
    BY <2>1, BlockGivenBack
  <2>3. ~ IsFree(map, req[p].order, req[p].off)
    BY <2>2, FreeBit
  <2>4. req[p].op = "free"
    BY <2>1 DEF ProtectInv, CallInv
  <2> QED  BY <2>3, <2>4 DEF FreeIgnore, Stray
<1>3. Hand(p) = NoBlock /\ pc[p] = "free"
  BY <1>2 DEF Hand, FreeIgnore
<1>4. /\ StepInv(p)' /\ OthersStay(p) /\ pc'[p] = "idle" /\ ret'[p] = NoBlock /\ ret[p] = NoBlock
  BY <1>1, <1>3, ReturnKeeps
<1> QED  BY <1>1, <1>2, <1>3, <1>4 DEF InBody

(* The page's block is free again, and merged next if its buddy is free. *)
LEMMA FreeTakeKeeps ==
    ASSUME ProtectInv, NEW p \in Procs, FreeTake(p)
    PROVE  /\ StepInv(p)' /\ OthersStay(p) /\ InBody(p) /\ held' = held
           /\ pc[p] = "free" /\ pc'[p] \in {"merge", "unlock"} /\ ~ Stray(req[p])
           /\ req' = req /\ ret' = ret /\ ret[p] = NoBlock
           /\ Hand(p) # NoBlock
           /\ FreeIn(map'.free_area) = FreeIn(map.free_area) \cup {Hand(p)}
<1>0. PICK o, i : o = req[p].order /\ i = req[p].off
  OBVIOUS
<1>1. TypeOK /\ CallInv(p) /\ BodyInv(p) /\ Exact(map) /\ PlacedInv /\ CountedInv /\ map \in MapType
  BY DEF ProtectInv, Exact
<1>2. PICK c : c = count_add(block_clear(map, o, i), o, 1)
  OBVIOUS
<1>3. /\ pc[p] = "free" /\ i < NPages /\ ~ IsFree(map, o, i)
      /\ mem_full' = (mem_full \/ pages_free = 0)
      /\ pages_free' = Wrap(pages_free + ORDER(o))
      /\ map' = IF i < c.next_free_page[o] THEN set_next(c, o, i) ELSE c
      /\ pc' = [pc EXCEPT ![p] = IF IsFree(c, o, BuddyOf(i)) /\ o < MAX_ORDER - 1
                                   THEN "merge" ELSE "unlock"]
      /\ lock' = lock /\ held' = held /\ req' = req /\ lvl' = lvl /\ pos' = pos /\ ret' = ret
  BY <1>0, <1>2 DEF FreeTake
<1>4. ~ Stray(req[p]) /\ req[p].op = "free" /\ ret[p] = NoBlock /\ i \in Nat
  BY <1>0, <1>1, <1>3, LocalsSame, Constants DEF Stray, CallInv, Requests
<1> DEFINE b == <<o, i>>
           F == FreeIn(map.free_area)
<1>5. /\ o = 0 /\ o \in Orders /\ i < Room(o) /\ i \notin map.free_area[o]
      /\ Hand(p) = b /\ b # NoBlock /\ lvl[p] = o /\ pos[p] = i
  BY <1>0, <1>1, <1>3, <1>4, BlockGivenBack DEF BodyInv
<1>6. map.free_area[o] # {} \/ i = 0
  BY <1>0, <1>1, <1>3, <1>4, <1>5 DEF BodyInv
<1>7. /\ Exact(map') /\ map'.free_area = [map.free_area EXCEPT ![o] = @ \cup {i}]
      /\ c.free_area = map'.free_area
  BY <1>1, <1>2, <1>3, <1>4, <1>5, <1>6, FreeExact
<1>8. Exact(map)'
  BY <1>7 DEF Exact, OrderExact
<1>9. map.free_area \in Areas
  BY <1>1 DEF MapType, Areas
<1>10. FreeIn(map'.free_area) = F \cup {b}
  BY <1>5, <1>7, <1>9, FreeGiven
<1>11. \A q \in Orders : \A k : k \in map'.free_area[q] <=> k \in map.free_area[q] \/ (q = o /\ k = i)
  <2>1. o \in 0 .. MAX_ORDER /\ \A q \in Orders : q \in 0 .. MAX_ORDER
    BY <1>5 DEF Orders
  <2> QED  BY <1>7, <1>9, <2>1 DEF Areas
<1>12. IsFree(c, o, BuddyOf(i)) <=> BuddyOf(i) \in map'.free_area[o]
  BY <1>4, <1>5, <1>7, BuddyBit
<1>13. Placed(Things(F, held, Hands)) /\ pages_free = Cardinality(PagesIn(F))
       /\ DOMAIN Hands = Procs /\ Hands[p] = b
  BY <1>1, <1>5 DEF PlacedInv, CountedInv, Hands
<1>14. pages_free' \in Counter /\ CountedInv'
  <2>1. b[1] = o
    OBVIOUS
  <2>2. b # NoBlock /\ b = Hands[p]
    BY <1>5, <1>13
  <2> HIDE DEF b, F
  <2>3. /\ Wrap(pages_free + ORDER(b[1])) \in Counter
        /\ Wrap(pages_free + ORDER(b[1])) = Cardinality(PagesIn(F \cup {b}))
    BY <1>13, <2>2, GivenCount
  <2> QED  BY <1>3, <1>10, <2>1, <2>3 DEF CountedInv
<1>15. GlobalTypes'
  <2>1. mem_full' \in BOOLEAN
    BY <1>3
  <2>2. map' \in MapType
    BY <1>7 DEF Exact
  <2> QED  BY <1>1, <1>3, <1>14, <2>1, <2>2 DEF TypeOK, GlobalTypes
<1>16. PICK a : a = IF IsFree(c, o, BuddyOf(i)) /\ o < MAX_ORDER - 1 THEN "merge" ELSE "unlock"
  OBVIOUS
<1>17. a \in {"merge", "unlock"} /\ a \in PcStates
  BY <1>16 DEF PcStates
<1>18. /\ TypeOK' /\ OthersStay(p) /\ pc'[p] = a /\ req'[p] = req[p]
       /\ lvl'[p] = o /\ pos'[p] = i /\ ret'[p] = NoBlock
  <2>1. Sets(p, a, req[p], lvl[p], pos[p], ret[p])
    BY <1>1, <1>3, <1>16, <1>17, LocalsSame DEF Sets
  <2> QED  BY <1>1, <1>4, <1>5, <1>15, <2>1, StepTypes
<1>19. CallInv(p)'
  BY <1>0, <1>4, <1>5, <1>17, <1>18 DEF CallInv, Stray
<1>20. a = "merge" <=> BuddyOf(i) \in map'.free_area[o] /\ o \in Orders \ {MAX_ORDER - 1}
  <2>1. o < MAX_ORDER - 1 <=> o \in Orders \ {MAX_ORDER - 1}
    BY <1>5 DEF Orders
  <2> QED  BY <1>12, <1>16, <2>1
<1>21. BodyInv(p)'
  <2>1. i \in map'.free_area[o]
    BY <1>5, <1>11
  <2> QED  BY <1>17, <1>18, <1>20, <2>1 DEF BodyInv
<1>22. PlacedInv'
  <2>1. Hand(p)' = NoBlock
    BY <1>17, <1>18 DEF Hand
  <2>2. Hands' = [Hands EXCEPT ![p] = NoBlock]
    BY <1>18, <2>1, HandsStep
  <2>3. Hands[p] # NoBlock
    BY <1>5, <1>13
  <2> HIDE DEF F
  <2>4. Placed(Things(F \cup {Hands[p]}, held, [Hands EXCEPT ![p] = NoBlock]))
    BY <1>13, <2>3, HandToFree
  <2> QED  BY <1>3, <1>10, <1>13, <2>2, <2>4 DEF PlacedInv
<1>23. InBody(p)
  BY <1>3 DEF InBody
<1>24. CoalescedInv'
  <2>1. ASSUME NEW q \in Orders \ {MAX_ORDER - 1}, NEW k \in map'.free_area[q],
               BuddyOf(k) \in map'.free_area[q]
        PROVE  \/ Worked(p, q, k)' \/ Worked(p, q, BuddyOf(k))'
               \/ /\ k \in map.free_area[q] /\ BuddyOf(k) \in map.free_area[q]
                  /\ ~ Worked(p, q, k) /\ ~ Worked(p, q, BuddyOf(k))
    <3>1. k \in Nat
      <4>1. map' \in MapType /\ q \in 0 .. MAX_ORDER
        BY <1>7 DEF Exact, Orders
      <4> QED  BY <2>1, <4>1 DEF MapType
    <3>2. BuddyOf(BuddyOf(k)) = k
      BY <3>1, Buddies
    <3>3. CASE q = o /\ (k = i \/ BuddyOf(k) = i)
      <4>1. BuddyOf(i) \in map'.free_area[o]
        BY <2>1, <3>2, <3>3
      <4>2. a = "merge"
        BY <1>20, <2>1, <3>3, <4>1
      <4>3. Worked(p, o, i)'
        BY <1>18, <4>2 DEF Worked
      <4> QED  BY <3>3, <4>3
    <3>4. CASE ~ (q = o /\ (k = i \/ BuddyOf(k) = i))
      <4>1. k \in map.free_area[q] /\ BuddyOf(k) \in map.free_area[q]
        BY <1>11, <2>1, <3>4
      <4>2. ~ Worked(p, q, k) /\ ~ Worked(p, q, BuddyOf(k))
        BY <1>3 DEF Worked
      <4> QED  BY <4>1, <4>2
    <3> QED  BY <3>3, <3>4
  <2> QED  BY <1>23, <2>1, CoalescedStep
<1>25. StepInv(p)'
  BY <1>8, <1>14, <1>18, <1>19, <1>21, <1>22, <1>24 DEF StepInv
<1> QED  BY <1>3, <1>4, <1>5, <1>10, <1>17, <1>18, <1>23, <1>25

(* Blocks of one order, before and after two buddies are merged. *)
LEMMA AreaJoined ==
    ASSUME NEW area \in Areas, NEW o \in Orders \ {MAX_ORDER - 1}, NEW j,
           NEW new, IsJoined(new, area, o, j)
    PROVE  \A q \in Orders : \A k :
              k \in new[q] <=> \/ k \in area[q] /\ ~ (q = o /\ k \in {2 * j, 2 * j + 1})
                               \/ q = o + 1 /\ k = j
<1> DEFINE x == area[o] \ {2 * j, 2 * j + 1}
           y == area[o + 1] \cup {j}
<1>1. DOMAIN area = 0 .. MAX_ORDER /\ o \in 0 .. MAX_ORDER /\ o + 1 \in 0 .. MAX_ORDER
      /\ o # o + 1 /\ \A q \in Orders : q \in 0 .. MAX_ORDER
  BY DEF Areas, Orders
<1>2. new = [area EXCEPT ![o] = x, ![o + 1] = y]
  BY <1>1 DEF IsJoined
<1> HIDE DEF x, y
<1>3. new[o] = x /\ new[o + 1] = y /\ \A q \in Orders \ {o, o + 1} : new[q] = area[q]
  BY <1>1, <1>2
<1> QED  BY <1>1, <1>3 DEF x, y

(* A block and its buddy become one, which is merged next if its buddy is free. *)
LEMMA FreeMergeKeeps ==
    ASSUME ProtectInv, NEW p \in Procs, FreeMerge(p)
    PROVE  /\ StepInv(p)' /\ OthersStay(p) /\ InBody(p) /\ held' = held
           /\ pc[p] = "merge" /\ pc'[p] \in {"merge", "unlock"} /\ ~ Stray(req[p])
           /\ req' = req /\ ret' = ret /\ ret[p] = NoBlock
           /\ PagesIn(FreeIn(map'.free_area)) = PagesIn(FreeIn(map.free_area))
<1>0. PICK o, i, j : o = lvl[p] /\ i = pos[p] /\ j = i \div 2
  OBVIOUS
<1>1. TypeOK /\ CallInv(p) /\ BodyInv(p) /\ Exact(map) /\ PlacedInv /\ CountedInv /\ map \in MapType
  BY DEF ProtectInv, Exact
<1>2. /\ pc[p] = "merge" /\ map' = merge_at(map, o, i)
      /\ lvl' = [lvl EXCEPT ![p] = o + 1] /\ pos' = [pos EXCEPT ![p] = j]
      /\ pc' = [pc EXCEPT ![p] = IF IsFree(map', o + 1, BuddyOf(j)) /\ o + 1 < MAX_ORDER - 1
                                   THEN "merge" ELSE "unlock"]
      /\ lock' = lock /\ pages_free' = pages_free /\ mem_full' = mem_full
      /\ held' = held /\ req' = req /\ ret' = ret
  BY <1>0 DEF FreeMerge
<1>3. /\ o \in Orders \ {MAX_ORDER - 1} /\ o + 1 \in Orders /\ o + 1 \in Nat
      /\ i \in map.free_area[o] /\ BuddyOf(i) \in map.free_area[o]
      /\ ret[p] = NoBlock /\ ~ Stray(req[p]) /\ req[p].op = "free"
  BY <1>0, <1>1, <1>2 DEF BodyInv, CallInv, Orders
<1>4. i \in Nat /\ j \in Nat /\ {i, BuddyOf(i)} = {2 * j, 2 * j + 1}
  <2>1. i \in Nat
    BY <1>0, <1>1, LocalsSame
  <2>2. \/ i = 2 * j /\ BuddyOf(i) = 2 * j + 1
        \/ i = 2 * j + 1 /\ BuddyOf(i) = 2 * j
    BY <1>0, <2>1, Buddies
  <2>3. {i, BuddyOf(i)} = {2 * j, 2 * j + 1}
    BY <2>2
  <2> QED  BY <1>0, <2>1, <2>3, Buddies
<1>5. 2 * j \in map.free_area[o] /\ 2 * j + 1 \in map.free_area[o]
  <2>1. \/ i = 2 * j /\ BuddyOf(i) = 2 * j + 1
        \/ i = 2 * j + 1 /\ BuddyOf(i) = 2 * j
    BY <1>0, <1>4, Buddies
  <2> QED  BY <1>3, <2>1
<1> DEFINE F == FreeIn(map.free_area)
           G == FreeIn(map'.free_area)
           E == (F \ {<<o, 2 * j>>, <<o, 2 * j + 1>>}) \cup {<<o + 1, j>>}
<1>6. Placed(Things(F, held, Hands)) /\ IsMerge(E, F, o, j)
  BY <1>1, <1>3, <1>5, InFree DEF PlacedInv, IsMerge
<1>7. /\ Placed(Things(E, held, Hands)) /\ PagesIn(E) = PagesIn(F)
      /\ j \notin map.free_area[o + 1]
  <2>1. <<o + 1, j>> \in F <=> j \in map.free_area[o + 1]
    BY <1>3, InFree
  <2> HIDE DEF E, F
  <2> QED  BY <1>3, <1>4, <1>6, <2>1, Joining
<1>8. Exact(map') /\ IsJoined(map'.free_area, map.free_area, o, j)
  <2>1. j = i \div 2 /\ map' = merge_at(map, o, i)
    BY <1>0, <1>2
  <2>2. CanMerge(map, o, i, j)
    BY <1>0, <1>5, <1>7 DEF CanMerge
  <2>3. LET n == merge_at(map, o, i)
        IN  /\ Exact(n)
            /\ n.free_area = [map.free_area EXCEPT ![o] = @ \ {2 * j, 2 * j + 1},
                                                  ![o + 1] = @ \cup {j}]
    BY <1>1, <1>3, <1>4, <2>2, MergeExact
  <2>4. /\ Exact(map')
        /\ map'.free_area = [map.free_area EXCEPT ![o] = @ \ {2 * j, 2 * j + 1},
                                                  ![o + 1] = @ \cup {j}]
    BY <2>1, <2>3
  <2> QED  BY <2>4 DEF IsJoined
<1>9. Exact(map)'
  BY <1>8 DEF Exact, OrderExact
<1>10. map.free_area \in Areas
  BY <1>1 DEF MapType, Areas
<1>11. G = E
  BY <1>3, <1>8, <1>10, FreeJoined
<1>12. \A q \in Orders : \A k :
          k \in map'.free_area[q] <=> \/ k \in map.free_area[q] /\ ~ (q = o /\ k \in {2 * j, 2 * j + 1})
                                      \/ q = o + 1 /\ k = j
  BY <1>3, <1>8, <1>10, AreaJoined
<1>13. j \in map'.free_area[o + 1] /\ j < Room(o + 1)
  <2>1. j \in map'.free_area[o + 1]
    BY <1>3, <1>12
  <2>2. map'.free_area[o + 1] \subseteq 0 .. Room(o + 1) - 1
    BY <1>3, <1>8 DEF Exact, OrderExact
  <2>3. Room(o + 1) \in Nat
    BY <1>3, AreaLength DEF Room
  <2>4. j \in 0 .. Room(o + 1) - 1
    BY <2>1, <2>2
  <2> QED  BY <2>1, <2>3, <2>4
<1>14. IsFree(map', o + 1, BuddyOf(j)) <=> BuddyOf(j) \in map'.free_area[o + 1]
  BY <1>3, <1>4, <1>13, BuddyBit
<1>15. GlobalTypes'
  <2>1. map' \in MapType
    BY <1>8 DEF Exact
  <2> QED  BY <1>1, <1>2, <2>1 DEF TypeOK, GlobalTypes
<1>16. PICK a : a = IF IsFree(map', o + 1, BuddyOf(j)) /\ o + 1 < MAX_ORDER - 1 THEN "merge" ELSE "unlock"
  OBVIOUS
<1>17. a \in {"merge", "unlock"} /\ a \in PcStates
  BY <1>16 DEF PcStates
<1>18. /\ TypeOK' /\ OthersStay(p) /\ pc'[p] = a /\ req'[p] = req[p]
       /\ lvl'[p] = o + 1 /\ pos'[p] = j /\ ret'[p] = NoBlock
  <2>1. Sets(p, a, req[p], o + 1, j, ret[p])
    BY <1>1, <1>2, <1>3, <1>4, <1>16, <1>17, LocalsSame DEF Sets
  <2> QED  BY <1>1, <1>3, <1>15, <2>1, StepTypes
<1>19. CallInv(p)'
  <2>1. req[p].order = 0
    BY <1>1, <1>2, <1>3 DEF CallInv
  <2> QED  BY <1>3, <1>17, <1>18, <2>1 DEF CallInv, Stray
<1>20. a = "merge" <=> BuddyOf(j) \in map'.free_area[o + 1] /\ o + 1 \in Orders \ {MAX_ORDER - 1}
  <2>1. o + 1 < MAX_ORDER - 1 <=> o + 1 \in Orders \ {MAX_ORDER - 1}
    BY <1>3 DEF Orders
  <2> QED  BY <1>14, <1>16, <2>1
<1>21. BodyInv(p)'
  BY <1>13, <1>17, <1>18, <1>20 DEF BodyInv
<1>22. PlacedInv' /\ CountedInv'
  <2>1. Hand(p)' = NoBlock /\ Hand(p) = NoBlock
    BY <1>2, <1>17, <1>18 DEF Hand
  <2>2. Hands' = Hands
    BY <1>18, <2>1, HandsStep DEF Hands
  <2> HIDE DEF E
  <2> QED  BY <1>1, <1>2, <1>7, <1>11, <2>2 DEF PlacedInv, CountedInv
<1>23. InBody(p)
  BY <1>2 DEF InBody
<1>24. CoalescedInv'
  <2>1. ASSUME NEW q \in Orders \ {MAX_ORDER - 1}, NEW k \in map'.free_area[q],
               BuddyOf(k) \in map'.free_area[q]
        PROVE  \/ Worked(p, q, k)' \/ Worked(p, q, BuddyOf(k))'
               \/ /\ k \in map.free_area[q] /\ BuddyOf(k) \in map.free_area[q]
                  /\ ~ Worked(p, q, k) /\ ~ Worked(p, q, BuddyOf(k))
    <3>1. k \in Nat
      <4>1. map' \in MapType /\ q \in 0 .. MAX_ORDER
        BY <1>8 DEF Exact, Orders
      <4> QED  BY <2>1, <4>1 DEF MapType
    <3>2. BuddyOf(BuddyOf(k)) = k
      BY <3>1, Buddies
    <3>3. CASE q = o + 1 /\ (k = j \/ BuddyOf(k) = j)
      <4>1. BuddyOf(j) \in map'.free_area[o + 1]
        BY <2>1, <3>2, <3>3
      <4>2. a = "merge"
        BY <1>20, <2>1, <3>3, <4>1
      <4>3. Worked(p, o + 1, j)'
        BY <1>18, <4>2 DEF Worked
      <4> QED  BY <3>3, <4>3
    <3>4. CASE ~ (q = o + 1 /\ (k = j \/ BuddyOf(k) = j))
      <4>1. /\ k \in map.free_area[q] /\ ~ (q = o /\ k \in {2 * j, 2 * j + 1})
            /\ BuddyOf(k) \in map.free_area[q] /\ ~ (q = o /\ BuddyOf(k) \in {2 * j, 2 * j + 1})
        BY <1>12, <2>1, <3>4
      <4>2. \A u, x : Worked(p, u, x) => u = o /\ x = i
        BY <1>0, <1>2 DEF Worked
      <4>3. i \in {2 * j, 2 * j + 1}
        BY <1>4
      <4> QED  BY <4>1, <4>2, <4>3
    <3> QED  BY <3>3, <3>4
  <2> QED  BY <1>23, <2>1, CoalescedStep
<1>25. StepInv(p)'
  BY <1>9, <1>18, <1>19, <1>21, <1>22, <1>24 DEF StepInv
<1> QED  BY <1>2, <1>3, <1>7, <1>11, <1>17, <1>18, <1>23, <1>25

-----------------------------------------------------------------------------
(***************************************************************************)
(* mem_p_protect comes first, and what it reserved stays taken.            *)
(***************************************************************************)
LEMMA ProtectedStays == ASSUME place' = place  PROVE Protected' = Protected
BY DEF Protected, LowRequest, InfoRequest, LowPages

LEMMA TakenStays ==
    ASSUME NEW p \in Procs, OthersStay(p), held' = held, ret'[p] = ret[p]
    PROVE  Taken' = Taken
<1>1. \A q \in Procs : ret'[q] = ret[q]
  BY DEF OthersStay
<1> QED  BY <1>1 DEF Taken, Returning

LEMMA TakenGrows ==
    ASSUME NEW p \in Procs, OthersStay(p), held' = held, ret[p] = NoBlock
    PROVE  /\ Taken \subseteq Taken'
           /\ ret'[p] # NoBlock => Taken' = Taken \cup {ret'[p]}
           /\ ret'[p] = NoBlock => Taken' = Taken
<1>1. \A q \in Procs \ {p} : ret'[q] = ret[q]
  BY DEF OthersStay
<1>2. \A b : b \in Returning <=> b # NoBlock /\ \E q \in Procs \ {p} : ret[q] = b
  BY DEF Returning
<1>3. \A b : b \in Returning' <=> b # NoBlock /\ (b = ret'[p] \/ \E q \in Procs \ {p} : ret[q] = b)
  BY <1>1 DEF Returning
<1> QED  BY <1>2, <1>3 DEF Taken

LEMMA TakenMoves ==
    ASSUME NEW p \in Procs, OthersStay(p), ret'[p] = NoBlock,
           held' = held \cup ({ret[p]} \ {NoBlock})
    PROVE  Taken' = Taken
<1>1. \A q \in Procs \ {p} : ret'[q] = ret[q]
  BY DEF OthersStay
<1>2. \A b : b \in Returning <=> b # NoBlock /\ (b = ret[p] \/ \E q \in Procs \ {p} : ret[q] = b)
  BY DEF Returning
<1>3. \A b : b \in Returning' <=> b # NoBlock /\ \E q \in Procs \ {p} : ret[q] = b
  BY <1>1 DEF Returning
<1> QED  BY <1>2, <1>3 DEF Taken

(* A step of anything but a reservation comes afterwards. *)
LEMMA AfterStays ==
    ASSUME AfterProtect, NEW p \in Procs, OthersStay(p), place' = place, Taken \subseteq Taken',
           pc'[p] \in {"call", "reserve", "zsplit"} => req'[p].op # "reserve"
    PROVE  AfterProtect'
<1>1. Protected' \subseteq Taken'
  BY ProtectedStays DEF AfterProtect
<1>2. ASSUME NEW q \in Procs, pc'[q] \in {"call", "reserve", "zsplit"}
      PROVE  req'[q].op # "reserve"
  BY <1>2 DEF AfterProtect, OthersStay
<1> QED  BY <1>1, <1>2 DEF AfterProtect

LEMMA ProtectingStays ==
    ASSUME Protecting, NEW p \in Procs, OthersStay(p), place' = place, Taken' = Taken,
           \A q \in Procs : pc[q] # "idle" => p = q,
           \A b \in Protected : Available(b)',
           pc'[p] \in {"call", "reserve", "zsplit"}, req'[p].op = "reserve",
           <<req'[p].order, req'[p].off>> \in Protected
    PROVE  Protecting'
<1>1. Taken' = {} /\ \A b \in Protected' : Available(b)'
  BY ProtectedStays DEF Protecting
<1>2. \A q \in Procs : pc'[q] # "idle" => p = q
  BY DEF OthersStay
<1> QED  BY <1>1, <1>2, ProtectedStays DEF Protecting

(* Nobody comes before mem_p_protect has its blocks. *)
LEMMA ClientsAfter ==
    ASSUME ProtectInv, Protected \subseteq held
    PROVE  AfterProtect /\ \A q \in Procs : pc[q] = "call" => req[q].op # "reserve"
<1>1. CASE Protecting
  <2>1. Protected = {}
    BY <1>1 DEF Protecting, Taken
  <2>2. \A q \in Procs : pc[q] = "idle"
    BY <1>1, <2>1 DEF Protecting
  <2> QED  BY <2>1, <2>2 DEF AfterProtect
<1>2. CASE AfterProtect
  BY <1>2 DEF AfterProtect
<1> QED  BY <1>1, <1>2 DEF ProtectInv

(* What is neither a call nor a reservation. *)
LEMMA ElseAfter ==
    ASSUME ProtectInv, NEW p \in Procs, pc[p] # "idle",
           \/ pc[p] \notin {"call", "reserve", "zsplit"}
           \/ req[p].op # "reserve"
    PROVE  AfterProtect
BY DEF ProtectInv, Protecting

(***************************************************************************)
(* The invariant is kept, by each action.                                  *)
(***************************************************************************)
LEMMA KeptByProtect ==
    ASSUME RightUse, ProtectInv, NEW p \in Procs, mem_p_protect(p)
    PROVE  /\ ProtectInv'
           /\ \E o \in Orders, i \in Nat :
                 /\ Call(p, "reserve", o, i) /\ held' = held /\ i < Room(o)
                 /\ StepInv(p)' /\ OthersStay(p) /\ map' = map
                 /\ req'[p] = [op |-> "reserve", order |-> o, off |-> i] /\ pc'[p] = "call"
<1>0. place \in Places /\ PcInv /\ \A q \in Procs : CallInv(q)
  BY DEF ProtectInv
<1>1. \A q \in Procs : pc[q] = "idle"
  BY DEF mem_p_protect
<1>2. PICK r \in IF LowRequest \subseteq held THEN InfoRequest \ held ELSE LowRequest :
         Call(p, "reserve", r[1], r[2])
  BY DEF mem_p_protect
<1>3. held' = held /\ place' = place
  BY DEF mem_p_protect
<1>4. Protecting
  <2>1. ASSUME AfterProtect  PROVE FALSE
    <3>1. \A q \in Procs : ret[q] = NoBlock
      BY <1>0, <1>1 DEF CallInv
    <3>2. Protected \subseteq held
      BY <2>1, <3>1 DEF AfterProtect, Taken, Returning
    <3> QED  BY <1>2, <3>2 DEF Protected
  <2> QED  BY <2>1 DEF ProtectInv
<1>5. r \in Protected
  BY <1>2 DEF Protected
<1>6. PICK o \in Orders, i \in Nat : r = <<o, i>> /\ i < Room(o)
  BY <1>0, <1>5, RequestInside
<1>7. Call(p, "reserve", o, i)
  BY <1>2, <1>6
<1>8. /\ StepInv(p)' /\ OthersStay(p) /\ map' = map /\ ret' = ret
      /\ pc'[p] = "call" /\ req'[p] = [op |-> "reserve", order |-> o, off |-> i]
  <2>1. o \in Nat
    BY DEF Orders
  <2> QED  BY <1>3, <1>7, <2>1, CallKeeps
<1>9. PcInv'
  BY <1>0, <1>7, PcInvCall
<1>10. Protecting'
  <2>1. Taken' = Taken
    BY <1>3, <1>8, TakenStays
  <2>2. \A b \in Protected : Available(b)'
    BY <1>4, <1>8 DEF Protecting, Available
  <2>3. req'[p].op = "reserve" /\ <<req'[p].order, req'[p].off>> = r
    BY <1>6, <1>8
  <2> QED  BY <1>1, <1>3, <1>4, <1>5, <1>8, <2>1, <2>2, <2>3, ProtectingStays
<1>11. ProtectInv'
  BY <1>3, <1>8, <1>9, <1>10, Combine
<1> QED  BY <1>3, <1>6, <1>7, <1>8, <1>11

LEMMA KeptByCallAlloc ==
    ASSUME RightUse, ProtectInv, NEW p \in Procs, CallAlloc(p), Protected \subseteq held, place' = place
    PROVE  /\ ProtectInv'
           /\ \E o \in Nat :
                 /\ Call(p, "alloc", o, 0) /\ held' = held
                 /\ StepInv(p)' /\ OthersStay(p) /\ map' = map
                 /\ req'[p] = [op |-> "alloc", order |-> o, off |-> 0] /\ pc'[p] = "call"
<1>1. PICK o \in AllocOrders : Call(p, "alloc", o, 0) /\ held' = held
  BY DEF CallAlloc
<1>2. o \in Nat
  BY RegionAssumption
<1>3. /\ StepInv(p)' /\ OthersStay(p) /\ map' = map /\ ret' = ret
      /\ pc'[p] = "call" /\ req'[p] = [op |-> "alloc", order |-> o, off |-> 0]
  BY <1>1, <1>2, CallKeeps
<1>4. PcInv'
  BY <1>1, PcInvCall DEF ProtectInv
<1>5. AfterProtect'
  <2>1. Taken' = Taken
    BY <1>1, <1>3, TakenStays
  <2> QED  BY <1>3, <2>1, ClientsAfter, AfterStays
<1>6. ProtectInv'
  BY <1>3, <1>4, <1>5, Combine
<1> QED  BY <1>1, <1>2, <1>3, <1>6

LEMMA KeptByCallFree ==
    ASSUME RightUse, ProtectInv, NEW p \in Procs, CallFree(p),
           Protected \subseteq held, Protected \subseteq held', place' = place
    PROVE  ProtectInv'
<1>1. /\ StepInv(p)' /\ OthersStay(p) /\ map' = map /\ ret' = ret
      /\ pc'[p] = "call" /\ req'[p].op = "free"
  BY CallFreeKeeps
<1>2. PcInv'
  <2>1. \E op, o, i : Call(p, op, o, i)
    BY DEF CallFree
  <2> QED  BY <2>1, PcInvCall DEF ProtectInv
<1>3. AfterProtect'
  <2>1. Protected' \subseteq Taken'
    BY ProtectedStays DEF Taken
  <2>2. ASSUME NEW q \in Procs, pc'[q] \in {"call", "reserve", "zsplit"}
        PROVE  req'[q].op # "reserve"
    BY <1>1, <2>2, ClientsAfter DEF AfterProtect, OthersStay
  <2> QED  BY <2>1, <2>2 DEF AfterProtect
<1> QED  BY <1>1, <1>2, <1>3, Combine

LEMMA KeptByStrayFree ==
    ASSUME RightUse, ProtectInv, NEW p \in Procs, CallStrayFree(p), Protected \subseteq held, place' = place
    PROVE  /\ ProtectInv'
           /\ StepInv(p)' /\ OthersStay(p) /\ map' = map /\ held' = held
           /\ pc[p] = "idle" /\ Stray(req'[p])
<1>1. PICK b \in StrayFrees : Call(p, "free", b[1], b[2]) /\ held' = held
  BY DEF CallStrayFree
<1>2. b[1] \in Nat /\ b[2] \in Nat /\ b[2] >= NPages
  BY RegionAssumption DEF RightUse, Orders
<1>3. /\ StepInv(p)' /\ OthersStay(p) /\ map' = map /\ ret' = ret
      /\ pc'[p] = "call" /\ req'[p] = [op |-> "free", order |-> b[1], off |-> b[2]]
  BY <1>1, <1>2, CallKeeps
<1>4. PcInv'
  BY <1>1, PcInvCall DEF ProtectInv
<1>5. AfterProtect'
  <2>1. Taken' = Taken
    BY <1>1, <1>3, TakenStays
  <2>2. req'[p].op = "free"
    BY <1>3
  <2> QED  BY <1>3, <2>1, <2>2, ClientsAfter, AfterStays
<1>6. ProtectInv'
  BY <1>3, <1>4, <1>5, Combine
<1>7. pc[p] = "idle"
  BY <1>1 DEF Call
<1> QED  BY <1>1, <1>2, <1>3, <1>6, <1>7 DEF Stray

LEMMA KeptByEnter ==
    ASSUME RightUse, ProtectInv, NEW p \in Procs, place' = place,
           Reject(p) \/ (Lock(p) /\ FreeIsTracked(req[p])) \/ Unlock(p)
    PROVE  ProtectInv'
<1>1. PcInv'
  BY PcInvOwn DEF ProtectInv, Enter
<1>2. CASE Reject(p)
  <2>1. /\ pc[p] = "call" /\ req[p].op = "alloc" /\ Return(p)
        /\ UNCHANGED <<lock, map, pages_free, mem_full, held>>
    BY <1>2 DEF Reject, TooLarge
  <2>2. Hand(p) = NoBlock
    BY <2>1 DEF Hand
  <2>3. /\ StepInv(p)' /\ OthersStay(p) /\ pc'[p] = "idle"
        /\ ret'[p] = NoBlock /\ ret[p] = NoBlock
    BY <2>1, <2>2, ReturnKeeps
  <2>4. AfterProtect'
    <3>1. Taken' = Taken
      BY <2>1, <2>3, TakenStays
    <3> QED  BY <2>1, <2>3, <3>1, ElseAfter, AfterStays
  <2> QED  BY <1>1, <2>1, <2>3, <2>4, Combine
<1>3. CASE Lock(p) /\ FreeIsTracked(req[p])
  <2>1. req[p].op = "alloc" => req[p].order \in Orders
    <3>1. req[p].order \in Nat /\ ~ TooLarge(req[p])
      BY <1>3, LocalsSame DEF Lock, ProtectInv, Requests
    <3> QED  BY <3>1 DEF TooLarge, Orders
  <2>2. /\ StepInv(p)' /\ OthersStay(p) /\ map' = map /\ held' = held /\ ret' = ret
        /\ pc[p] = "call" /\ pc'[p] = req[p].op /\ req' = req
    BY <1>3, <2>1, LockKeeps
  <2>3. Taken' = Taken
    BY <2>2, TakenStays
  <2>4. CASE Protecting
    <3>1. /\ req[p].op = "reserve" /\ <<req[p].order, req[p].off>> \in Protected
          /\ \A q \in Procs : pc[q] # "idle" => p = q
      BY <2>2, <2>4 DEF Protecting
    <3>2. \A b \in Protected : Available(b)'
      BY <2>2, <2>4 DEF Protecting, Available
    <3>3. Protecting'
      BY <2>2, <2>3, <2>4, <3>1, <3>2, ProtectingStays
    <3> QED  BY <1>1, <2>2, <3>3, Combine
  <2>5. CASE AfterProtect
    <3>1. req[p].op # "reserve"
      BY <2>2, <2>5 DEF AfterProtect
    <3>2. AfterProtect'
      BY <2>2, <2>3, <2>5, <3>1, AfterStays
    <3> QED  BY <1>1, <2>2, <3>2, Combine
  <2> QED  BY <2>4, <2>5 DEF ProtectInv
<1>4. CASE Unlock(p)
  <2>1. /\ StepInv(p)' /\ OthersStay(p) /\ map' = map /\ pc'[p] = "idle"
        /\ ret'[p] = NoBlock /\ held' = held \cup ({ret[p]} \ {NoBlock})
    BY <1>4, UnlockKeeps
  <2>2. AfterProtect'
    <3>1. Taken' = Taken
      BY <2>1, TakenMoves
    <3>2. AfterProtect
      BY <1>4, ElseAfter DEF Unlock
    <3> QED  BY <2>1, <3>1, <3>2, AfterStays
  <2> QED  BY <1>1, <2>1, <2>2, Combine
<1> QED  BY <1>2, <1>3, <1>4

LEMMA KeptByAlloc ==
    ASSUME RightUse, ProtectInv, NEW p \in Procs, place' = place, Alloc(p)
    PROVE  ProtectInv'
<1>1. PcInv'
  BY PcInvOwn DEF ProtectInv
<1>2. /\ StepInv(p)' /\ OthersStay(p) /\ InBody(p) /\ held' = held
      /\ pc[p] = "alloc" /\ pc'[p] \in {"alloc", "unlock"}
      /\ ret'[p] = ret[p] \/ ret[p] = NoBlock
  <2>1. CASE AllocTake(p)    BY <2>1, AllocTakeKeeps
  <2>2. CASE AllocAscend(p)  BY <2>2, AllocAscendKeeps
  <2>3. CASE AllocSplit(p)   BY <2>3, AllocSplitKeeps
  <2>4. CASE AllocFail(p)    BY <2>4, AllocFailKeeps
  <2> QED  BY <2>1, <2>2, <2>3, <2>4 DEF Alloc
<1>3. AfterProtect'
  <2>1. Taken \subseteq Taken'
    BY <1>2, TakenStays, TakenGrows
  <2>2. AfterProtect
    BY <1>2, ElseAfter
  <2> QED  BY <1>2, <2>1, <2>2, AfterStays
<1> QED  BY <1>1, <1>2, <1>3, Combine

LEMMA KeptByFree ==
    ASSUME RightUse, ProtectInv, NEW p \in Procs, place' = place, Free(p)
    PROVE  ProtectInv'
<1>1. PcInv'
  BY PcInvOwn DEF ProtectInv
<1>2. /\ StepInv(p)' /\ OthersStay(p) /\ InBody(p) /\ held' = held
      /\ pc[p] \in {"free", "merge"} /\ pc'[p] \in {"idle", "merge", "unlock"}
      /\ ret[p] = NoBlock
  <2>1. CASE FreeIgnore(p)  BY <2>1, FreeIgnoreKeeps
  <2>2. CASE FreeTake(p)    BY <2>2, FreeTakeKeeps
  <2>3. CASE FreeMerge(p)   BY <2>3, FreeMergeKeeps
  <2> QED  BY <2>1, <2>2, <2>3 DEF Free
<1>3. AfterProtect'
  <2>1. Taken \subseteq Taken'
    BY <1>2, TakenGrows
  <2>2. AfterProtect
    BY <1>2, ElseAfter
  <2> QED  BY <1>2, <2>1, <2>2, AfterStays
<1> QED  BY <1>1, <1>2, <1>3, Combine

LEMMA KeptByReserve ==
    ASSUME RightUse, ProtectInv, NEW p \in Procs, place' = place, Reserve(p)
    PROVE  ProtectInv'
<1>1. PcInv'
  BY PcInvOwn DEF ProtectInv
<1>2. /\ Protecting /\ req[p].op = "reserve"
      /\ Protected = {<<req[p].order, req[p].off>>}
      /\ Available(<<req[p].order, req[p].off>>)
      /\ \A q \in Procs : pc[q] # "idle" => p = q
      /\ req[p].order \in Orders
  <2>1. pc[p] \in {"reserve", "zsplit"}
    BY DEF Reserve, ReserveTake, ReserveSearch, ReserveSplit, ReserveEnd
  <2> QED  BY <2>1, TheRequest
<1>3. CASE ReserveTake(p) \/ ReserveEnd(p)
  <2>1. /\ StepInv(p)' /\ OthersStay(p) /\ InBody(p) /\ held' = held
        /\ pc'[p] = "unlock" /\ ret[p] = NoBlock
        /\ ret'[p] = <<req[p].order, req[p].off>>
    BY <1>3, ReserveTakeKeeps, ReserveEndKeeps
  <2>2. AfterProtect'
    <3>1. ret'[p] # NoBlock
      <4>1. MAX_ORDER \notin Orders
        BY DEF Orders
      <4> QED  BY <1>2, <2>1, <4>1 DEF NoBlock
    <3>2. Taken' = Taken \cup {ret'[p]}
      BY <2>1, <3>1, TakenGrows
    <3>3. Protected' \subseteq Taken'
      BY <1>2, <2>1, <3>2, ProtectedStays
    <3>4. ASSUME NEW q \in Procs, pc'[q] \in {"call", "reserve", "zsplit"}
          PROVE  FALSE
      BY <1>2, <2>1, <3>4 DEF OthersStay
    <3> QED  BY <3>3, <3>4 DEF AfterProtect
  <2> QED  BY <1>1, <2>1, <2>2, Combine
<1>4. CASE ReserveSearch(p) \/ ReserveSplit(p)
  <2>1. /\ StepInv(p)' /\ OthersStay(p) /\ InBody(p) /\ held' = held /\ ret' = ret
        /\ pc'[p] = "zsplit" /\ req' = req
    BY <1>4, ReserveSearchKeeps, ReserveSplitKeeps
  <2>2. \A b \in Protected : Available(b)'
    <3>1. CASE ReserveSearch(p)
      <4>1. map' = map
        BY <3>1, ReserveSearchKeeps
      <4> QED  BY <1>2, <4>1 DEF Available
    <3>2. CASE ReserveSplit(p)
      <4>1. 0 \in map'.free_area[lvl'[p]] /\ lvl'[p] \in Orders /\ req[p].order <= lvl'[p]
        BY <3>2, ReserveSplitKeeps
      <4>2. req[p].off = 0
        BY <3>2 DEF ReserveSplit, ProtectInv, BodyInv
      <4> QED  BY <1>2, <4>1, <4>2 DEF Available
    <3> QED  BY <1>4, <3>1, <3>2
  <2>3. Taken' = Taken
    BY <2>1, TakenStays
  <2>4. Protecting'
    BY <1>2, <2>1, <2>2, <2>3, ProtectingStays
  <2> QED  BY <1>1, <2>1, <2>4, Combine
<1> QED  BY <1>3, <1>4 DEF Reserve

LEMMA ProtectInvStep ==
    ASSUME RightUse, ProtectInv, [ProtectNext]_<<vars, place>>
    PROVE  ProtectInv'
<1>1. CASE UNCHANGED <<vars, place>>
  <2>1. /\ lock' = lock /\ map' = map /\ pages_free' = pages_free /\ mem_full' = mem_full
        /\ held' = held /\ pc' = pc /\ req' = req /\ lvl' = lvl /\ pos' = pos /\ ret' = ret
        /\ place' = place
    BY <1>1 DEF vars, locals
  <2>2. TypeOK' /\ PcInv' /\ place' \in Places
    BY <2>1 DEF ProtectInv, TypeOK, PcInv, MutualExclusion, InBody
  <2>3. Exact(map)' /\ PlacedInv' /\ CountedInv'
    <3>1. Hands' = Hands
      BY <2>1 DEF Hands, Hand
    <3> QED  BY <2>1, <3>1 DEF ProtectInv, Exact, OrderExact, PlacedInv, CountedInv
  <2>4. CoalescedInv'
    BY <2>1 DEF ProtectInv, CoalescedInv, Worked
  <2>5. \A p \in Procs : CallInv(p)' /\ BodyInv(p)'
    BY <2>1 DEF ProtectInv, CallInv, BodyInv
  <2>6. (Protecting \/ AfterProtect)'
    <3>1. Protected' = Protected /\ Taken' = Taken
      BY <2>1, ProtectedStays DEF Taken, Returning
    <3> QED  BY <2>1, <3>1 DEF ProtectInv, Protecting, AfterProtect, Available
  <2> QED  BY <2>2, <2>3, <2>4, <2>5, <2>6 DEF ProtectInv
<1>2. ASSUME NEW p \in Procs, Clients(p)
      PROVE  ProtectInv'
  <2>1. Protected \subseteq held /\ Protected \subseteq held' /\ place' = place
    BY <1>2 DEF Clients
  <2> QED  BY <1>2, <2>1, KeptByCallAlloc, KeptByCallFree, KeptByStrayFree DEF Clients
<1>3. ASSUME NEW p \in Procs, Bodies(p)
      PROVE  ProtectInv'
  BY <1>3, KeptByEnter, KeptByAlloc, KeptByReserve, KeptByFree DEF Bodies
<1> QED  BY <1>1, <1>2, <1>3, KeptByProtect DEF ProtectNext

-----------------------------------------------------------------------------
(***************************************************************************)
(* What the invariant says in the words of BuddyProps and Protect.         *)
(***************************************************************************)
LEMMA FreeBlocksAre ==
    ASSUME Exact(map)
    PROVE  /\ \A o \in Orders : FreeFrom(map, o, 0) = map.free_area[o]
           /\ FreeBlocks = FreeIn(map.free_area)
<1>1. ASSUME NEW o \in Orders
      PROVE  FreeFrom(map, o, 0) = map.free_area[o]
  <2>1. map.free_area[o] \subseteq 0 .. free_area_length(NPages, o) - 1
    BY ExactOrder DEF Room
  <2> QED  BY <2>1 DEF FreeFrom
<1> QED  BY <1>1 DEF FreeBlocks, FreeIn

LEMMA FreePagesAre ==
    ASSUME ProtectInv
    PROVE  FreePages = PagesIn(FreeIn(map.free_area))
<1>1. FreeBlocks = FreeIn(map.free_area)
  BY FreeBlocksAre DEF ProtectInv
<1>2. \A b \in FreeIn(map.free_area) : Pages(b) = {page \in 0 .. NPages - 1 : Covers(b, page)}
  BY ThingsInside, InsideBlock DEF ProtectInv, PlacedInv
<1> QED  BY <1>1, <1>2 DEF FreePages, PagesIn

(* The block of each processor is being returned or has been given back. *)
LEMMA HandIs ==
    ASSUME ProtectInv, NEW b
    PROVE  /\ b \in Returning <=> \E p \in Procs : /\ pc[p] = "unlock"
                                                   /\ Hands[p] = b /\ b # NoBlock
           /\ b \in GivenBack <=> \E p \in Procs : /\ pc[p] # "unlock"
                                                   /\ Hands[p] = b /\ b # NoBlock
<1>1. \A p \in Procs : CallInv(p) /\ Hands[p] = Hand(p)
  BY DEF ProtectInv, Hands
<1>2. b \in Returning <=> \E p \in Procs : ret[p] = b /\ b # NoBlock
  BY DEF Returning
<1>3. \A p \in Procs : ret[p] # NoBlock => pc[p] = "unlock"
  BY <1>1 DEF CallInv
<1>4. \A p \in Procs : pc[p] = "unlock" => Hands[p] = ret[p]
  BY <1>1 DEF Hand
<1>5. b \in GivenBack <=> \E p \in Procs : /\ pc[p] \in {"call", "free"}
                                           /\ req[p].op = "free" /\ ~ Stray(req[p])
                                           /\ Requested(req[p]) = b
  BY DEF GivenBack
<1>6. ASSUME NEW p \in Procs, pc[p] \in {"call", "free"}, req[p].op = "free", ~ Stray(req[p])
      PROVE  Hands[p] = Requested(req[p]) /\ Requested(req[p]) # NoBlock
  <2>1. req[p].order = 0
    BY <1>1, <1>6 DEF CallInv
  <2>2. 0 # MAX_ORDER
    OBVIOUS
  <2> QED  BY <1>1, <1>6, <2>1, <2>2 DEF Hand, Requested, NoBlock
<1>7. ASSUME NEW p \in Procs, pc[p] # "unlock", Hands[p] # NoBlock
      PROVE  pc[p] \in {"call", "free"} /\ req[p].op = "free" /\ ~ Stray(req[p])
  BY <1>1, <1>7 DEF Hand
<1>8. b \in Returning <=> \E p \in Procs : pc[p] = "unlock" /\ Hands[p] = b /\ b # NoBlock
  BY <1>2, <1>3, <1>4
<1>9. b \in GivenBack <=> \E p \in Procs : pc[p] # "unlock" /\ Hands[p] = b /\ b # NoBlock
  <2>1. ASSUME b \in GivenBack
        PROVE  \E p \in Procs : pc[p] # "unlock" /\ Hands[p] = b /\ b # NoBlock
    BY <1>5, <1>6, <2>1
  <2>2. ASSUME NEW p \in Procs, pc[p] # "unlock", Hands[p] = b, b # NoBlock
        PROVE  b \in GivenBack
    <3>1. pc[p] \in {"call", "free"} /\ req[p].op = "free" /\ ~ Stray(req[p])
      BY <1>7, <2>2
    <3>2. Requested(req[p]) = b
      BY <1>6, <2>2, <3>1
    <3> QED  BY <1>5, <3>1, <3>2
  <2> QED  BY <2>1, <2>2
<1> QED  BY <1>8, <1>9

(* A block is at a place exactly when that is one of the things. *)
LEMMA PlaceOf ==
    ASSUME ProtectInv, NEW b
    PROVE  LET T == Things(FreeIn(map.free_area), held, Hands)
           IN  /\ b \in FreeBlocks => <<0, 0, b>> \in T
               /\ b \in held => <<1, 0, b>> \in T
               /\ b \in Returning => \E p \in Procs : pc[p] = "unlock" /\ <<2, p, b>> \in T
               /\ b \in GivenBack => \E p \in Procs : pc[p] # "unlock" /\ <<2, p, b>> \in T
               /\ (\E x \in T : x[3] = b) =>
                      b \in FreeBlocks \cup held \cup Returning \cup GivenBack
<1> DEFINE F == FreeIn(map.free_area)
           T == Things(F, held, Hands)
<1>1. FreeBlocks = F
  BY FreeBlocksAre DEF ProtectInv
<1>2. b \in FreeBlocks => <<0, 0, b>> \in T
  BY <1>1, InThings
<1>3. b \in held => <<1, 0, b>> \in T
  BY InThings
<1>4. b \in Returning => \E p \in Procs : pc[p] = "unlock" /\ <<2, p, b>> \in T
  BY HandIs, InThings
<1>5. b \in GivenBack => \E p \in Procs : pc[p] # "unlock" /\ <<2, p, b>> \in T
  BY HandIs, InThings
<1>6. ASSUME NEW x \in T, x[3] = b
      PROVE  b \in FreeBlocks \cup held \cup Returning \cup GivenBack
  <2>1. CASE \E c \in F : x = <<0, 0, c>>
    BY <1>1, <1>6, <2>1
  <2>2. CASE \E c \in held : x = <<1, 0, c>>
    BY <1>6, <2>2
  <2>3. CASE \E q \in Procs : Hands[q] # NoBlock /\ x = <<2, q, Hands[q]>>
    BY <1>6, <2>3, HandIs
  <2> HIDE DEF F
  <2> QED  BY <1>6, <2>1, <2>2, <2>3, InThings
<1> QED  BY <1>2, <1>3, <1>4, <1>5, <1>6

LEMMA PartitionHolds == ASSUME ProtectInv  PROVE Partition
<1> DEFINE T == Things(FreeIn(map.free_area), held, Hands)
           All == FreeBlocks \cup held \cup Returning \cup GivenBack
<1>1. Placed(T)
  BY DEF ProtectInv, PlacedInv
<1>2. \A b \in All : \E x \in T : x[3] = b
  <2> SUFFICES ASSUME NEW b \in All  PROVE \E x \in T : x[3] = b
    OBVIOUS
  <2>1. \E k, q : <<k, q, b>> \in T
    BY PlaceOf
  <2> HIDE DEF T, All
  <2> QED  BY <2>1
<1>3. \A x \in T : x[3] \in All
  BY PlaceOf
<1>4. ASSUME NEW x \in T
      PROVE  /\ Pages(x[3]) = {page \in 0 .. NPages - 1 : Covers(x[3], page)}
             /\ \E page \in 0 .. NPages - 1 : Covers(x[3], page)
  BY <1>1, InsideBlock DEF Placed
<1>5. Disjoint(All)
  <2> SUFFICES ASSUME NEW b \in All, NEW c \in All, NEW page \in Pages(b), page \in Pages(c)
               PROVE  b = c
    BY DEF Disjoint
  <2>1. PICK x \in T : x[3] = b
    BY <1>2
  <2>2. PICK y \in T : y[3] = c
    BY <1>2
  <2>3. page \in 0 .. NPages - 1 /\ Covers(x[3], page) /\ Covers(y[3], page)
    BY <1>4, <2>1, <2>2
  <2> HIDE DEF T, All
  <2>4. x = y
    BY <1>1, <2>3 DEF Placed
  <2> QED  BY <2>1, <2>2, <2>4
<1>6. UNION {Pages(b) : b \in All} = 0 .. NPages - 1
  <2>1. ASSUME NEW page \in UNION {Pages(b) : b \in All}
        PROVE  page \in 0 .. NPages - 1
    <3>1. PICK b \in All : page \in Pages(b)
      BY <2>1
    <3>2. PICK x \in T : x[3] = b
      BY <1>2
    <3> QED  BY <1>4, <3>1, <3>2
  <2>2. ASSUME NEW page \in 0 .. NPages - 1
        PROVE  page \in UNION {Pages(b) : b \in All}
    <3>1. PICK x \in T : Covers(x[3], page)
      BY <1>1 DEF Placed
    <3>2. x[3] \in All /\ page \in Pages(x[3])
      BY <1>3, <1>4, <3>1
    <3> HIDE DEF All, T
    <3> QED  BY <3>2
  <2> QED  BY <2>1, <2>2
<1>7. \A b, k, q, l, r : <<k, q, b>> \in T /\ <<l, r, b>> \in T => k = l /\ q = r
  <2> HIDE DEF T
  <2> SUFFICES ASSUME NEW b, NEW k, NEW q, NEW l, NEW r, <<k, q, b>> \in T, <<l, r, b>> \in T
               PROVE  k = l /\ q = r
    OBVIOUS
  <2>1. <<k, q, b>>[3] = <<l, r, b>>[3]
    OBVIOUS
  <2>2. <<k, q, b>> = <<l, r, b>>
    BY <1>1, <2>1, OnePlace
  <2> QED  BY <2>2
<1>8. ASSUME NEW b
      PROVE  /\ ~ (b \in FreeBlocks /\ b \in held)
             /\ ~ (b \in FreeBlocks /\ b \in Returning)
             /\ ~ (b \in FreeBlocks /\ b \in GivenBack)
             /\ ~ (b \in held /\ b \in Returning)
             /\ ~ (b \in held /\ b \in GivenBack)
             /\ ~ (b \in Returning /\ b \in GivenBack)
  <2>1. /\ b \in FreeBlocks => <<0, 0, b>> \in T
        /\ b \in held => <<1, 0, b>> \in T
        /\ b \in Returning => \E p \in Procs : pc[p] = "unlock" /\ <<2, p, b>> \in T
        /\ b \in GivenBack => \E p \in Procs : pc[p] # "unlock" /\ <<2, p, b>> \in T
    BY PlaceOf
  <2> HIDE DEF T
  <2>2. ~ (b \in FreeBlocks /\ b \in held)  BY <1>7, <2>1
  <2>3. ~ (b \in FreeBlocks /\ b \in Returning)
    <3> SUFFICES ASSUME b \in FreeBlocks, b \in Returning  PROVE FALSE
      OBVIOUS
    <3>1. PICK p \in Procs : <<2, p, b>> \in T
      BY <2>1
    <3>2. <<0, 0, b>> \in T
      BY <2>1
    <3>3. 0 = 2
      BY <1>7, <3>1, <3>2
    <3> QED  BY <3>3
  <2>4. ~ (b \in FreeBlocks /\ b \in GivenBack)
    <3> SUFFICES ASSUME b \in FreeBlocks, b \in GivenBack  PROVE FALSE
      OBVIOUS
    <3>1. PICK p \in Procs : <<2, p, b>> \in T
      BY <2>1
    <3>2. <<0, 0, b>> \in T
      BY <2>1
    <3>3. 0 = 2
      BY <1>7, <3>1, <3>2
    <3> QED  BY <3>3
  <2>5. ~ (b \in held /\ b \in Returning)
    <3> SUFFICES ASSUME b \in held, b \in Returning  PROVE FALSE
      OBVIOUS
    <3>1. PICK p \in Procs : <<2, p, b>> \in T
      BY <2>1
    <3>2. <<1, 0, b>> \in T
      BY <2>1
    <3>3. 1 = 2
      BY <1>7, <3>1, <3>2
    <3> QED  BY <3>3
  <2>6. ~ (b \in held /\ b \in GivenBack)
    <3> SUFFICES ASSUME b \in held, b \in GivenBack  PROVE FALSE
      OBVIOUS
    <3>1. PICK p \in Procs : <<2, p, b>> \in T
      BY <2>1
    <3>2. <<1, 0, b>> \in T
      BY <2>1
    <3>3. 1 = 2
      BY <1>7, <3>1, <3>2
    <3> QED  BY <3>3
  <2>7. ~ (b \in Returning /\ b \in GivenBack)  BY <1>7, <2>1
  <2> QED  BY <2>2, <2>3, <2>4, <2>5, <2>6, <2>7
<1>9. \A B, C \in {FreeBlocks, held, Returning, GivenBack} : B = C \/ B \cap C = {}
  BY <1>8
<1> QED  BY <1>5, <1>6, <1>9 DEF Partition

LEMMA ListsAreExact == ASSUME ProtectInv  PROVE ListsExact
<1>1. Exact(map) /\ pages_free = Cardinality(FreePages)
  BY FreePagesAre DEF ProtectInv, CountedInv
<1>2. ASSUME NEW o \in Orders
      PROVE  /\ map.pages_free[o] = Cardinality(FreeFrom(map, o, 0))
             /\ FreeFrom(map, o, 0) # {} => map.next_free_page[o] = Min(FreeFrom(map, o, 0))
  <2> DEFINE S == FreeFrom(map, o, 0)
             x == map.next_free_page[o]
  <2>1. S = map.free_area[o]
    BY <1>1, FreeBlocksAre
  <2> HIDE DEF S
  <2>2. /\ S \subseteq Nat /\ map.pages_free[o] = Cardinality(S)
        /\ S # {} => IsFirst(x, S)
    BY <1>1, <2>1, ExactOrder
  <2>3. ASSUME S # {}  PROVE Min(S) = x
    <3>1. S \in SUBSET Int /\ x \in S /\ \A y \in S : x <= y
      BY <2>2, <2>3 DEF IsFirst
    <3> HIDE DEF x
    <3> QED  BY <3>1, MinIs
  <2> QED  BY <2>2, <2>3 DEF S
<1> QED  BY <1>1, <1>2 DEF ListsExact

LEMMA CoalescedHolds == ASSUME ProtectInv  PROVE Coalesced
<1>1. Exact(map) /\ PcInv /\ CoalescedInv
  BY DEF ProtectInv
<1> SUFFICES ASSUME lock = 0, NEW o \in Orders \ {MAX_ORDER - 1}, NEW i \in map.free_area[o],
                    BuddyOf(i) \in map.free_area[o]
             PROVE  FALSE
  BY <1>1, FreeBlocksAre DEF Coalesced
<1>2. \A p \in Procs : ~ InBody(p)
  BY <1>1 DEF PcInv, MutualExclusion
<1>3. \A p \in Procs : \A j : ~ Worked(p, o, j)
  BY <1>2 DEF Worked, InBody
<1> QED  BY <1>1, <1>3 DEF CoalescedInv

(* What is reserved has all of the pages that are to be kept. *)
LEMMA RequestCovers ==
    ASSUME RightUse, place \in Places
    PROVE  \/ LowPages \cup place.info = {}
           \/ \E b \in Protected : LowPages \cup place.info \subseteq Pages(b)
<1>1. CASE \E r \in Orders : LowRequest = {<<r, 0>>} /\ LowPages \subseteq Pages(<<r, 0>>)
                             /\ place.info = {}
  BY <1>1 DEF Protected
<1>2. CASE LowPages = {} /\ place.info = {}
  BY <1>2
<1>3. CASE \E i \in {0} \cup init_free_area(NPages, 0) :
              InfoRequest = {<<0, i>>} /\ place.info = {i} /\ LowPages = {}
  <2>1. PICK i : InfoRequest = {<<0, i>>} /\ place.info = {i} /\ LowPages = {}
    BY <1>3
  <2>2. i \in Nat
    BY <2>1, ProtectAssumption
  <2>3. i \in Pages(<<0, i>>)
    <3>1. i \in i * 1 .. (i + 1) * 1 - 1
      BY <2>2
    <3>2. ORDER(0) = 1
      BY DEF ORDER
    <3> QED  BY <3>1, <3>2 DEF Pages, BlockPages
  <2> QED  BY <2>1, <2>3 DEF Protected
<1> QED  BY <1>1, <1>2, <1>3, OneRequest

LEMMA ProtectedIsKept == ASSUME RightUse, ProtectInv  PROVE ProtectedKept
<1> SUFFICES ASSUME NEW b \in held \cup Returning, b \notin Protected,
                    NEW page \in Pages(b), page \in LowPages \cup place.info
             PROVE  FALSE
  BY DEF ProtectedKept
<1>1. AfterProtect /\ place \in Places
  BY DEF ProtectInv, Protecting, Taken
<1>2. PICK c \in Protected : LowPages \cup place.info \subseteq Pages(c)
  BY <1>1, RequestCovers
<1>3. c \in held \cup Returning
  BY <1>1 DEF AfterProtect, Taken
<1>4. Disjoint(held \cup Returning)
  BY PartitionHolds DEF Partition, Disjoint
<1>5. page \in Pages(b) \cap Pages(c)
  BY <1>2
<1> QED  BY <1>3, <1>4, <1>5 DEF Disjoint

-----------------------------------------------------------------------------
(***************************************************************************)
(* The invariant holds, for any number of processors and pages and every   *)
(* order of blocks, as long as the allocator is used rightly.              *)
(***************************************************************************)
THEOREM ProtectInvAlways == RightUse => (ProtectSpec => []ProtectInv)
<1>1. RightUse /\ ProtectInit => RightUse /\ ProtectInv
  BY ProtectInvInit
<1>2. (RightUse /\ ProtectInv) /\ [ProtectNext]_<<vars, place>> => (RightUse /\ ProtectInv)'
  BY ProtectInvStep
<1> QED  BY <1>1, <1>2, PTL DEF ProtectSpec

(***************************************************************************)
(* At every step of alloc, split, reserve, free and merge each page of the *)
(* region is in exactly one block, which is free, held or on its way: no   *)
(* page is lost, and none is given to two clients, although single pages   *)
(* are freed at any time and merged (page.c:365-620).                      *)
(***************************************************************************)
THEOREM PartitionAlways == RightUse => (ProtectSpec => []Partition)
<1>1. ProtectInv => Partition
  BY PartitionHolds
<1> QED  BY <1>1, ProtectInvAlways, PTL

(***************************************************************************)
(* The counters of the orders and of the region and the first block of     *)
(* each list agree with the bits after every step, though each function    *)
(* updates the three by itself (page.c:365-620).                           *)
(***************************************************************************)
THEOREM ListsExactAlways == RightUse => (ProtectSpec => []ListsExact)
<1>1. ProtectInv => ListsExact
  BY ListsAreExact
<1> QED  BY <1>1, ProtectInvAlways, PTL

(***************************************************************************)
(* Whenever the lock is free no two buddies are: block_merge goes on as    *)
(* far as it can, and no other step leaves two behind (page.c:403-438).    *)
(***************************************************************************)
THEOREM CoalescedAlways == RightUse => (ProtectSpec => []Coalesced)
<1>1. ProtectInv => Coalesced
  BY CoalescedHolds
<1> QED  BY <1>1, ProtectInvAlways, PTL

(***************************************************************************)
(* No block that is given out has a page of the kernel or of the boot      *)
(* information (arch/X86_64/memory.c:140-170), in the regions of RightUse. *)
(***************************************************************************)
THEOREM ProtectedKeptAlways == RightUse => (ProtectSpec => []ProtectedKept)
<1>1. RightUse /\ ProtectInv => ProtectedKept
  BY ProtectedIsKept
<1>2. RightUse => (ProtectSpec => [](RightUse /\ ProtectInv))
  <2>1. RightUse /\ ProtectInit => RightUse /\ ProtectInv
    BY ProtectInvInit
  <2>2. (RightUse /\ ProtectInv) /\ [ProtectNext]_<<vars, place>> => (RightUse /\ ProtectInv)'
    BY ProtectInvStep
  <2> QED  BY <2>1, <2>2, PTL DEF ProtectSpec
<1> QED  BY <1>1, <1>2, PTL

-----------------------------------------------------------------------------
(***************************************************************************)
(* The refinement of PageRegion, step by step.                             *)
(***************************************************************************)
LEMMA RegionBlocks ==
    /\ \A o \in Orders : Region!BlocksOf(o) = {o} \X (0 .. Room(o) - 1)
    /\ \A o : o \notin Orders => Region!BlocksOf(o) = {}
    /\ \A b : Region!Pages(b) = Pages(b)
<1>1. Region!Orders = Orders
  BY DEF Region!Orders, Orders
<1>2. \A o : Region!ORDER(o) = ORDER(o)
  BY DEF Region!ORDER, ORDER
<1>3. \A n, o : Region!free_area_length(n, o) = free_area_length(n, o)
  BY <1>2 DEF Region!free_area_length, free_area_length
<1>4. \A o, i : Region!BlockPages(o, i) = BlockPages(o, i)
  BY <1>2 DEF Region!BlockPages, BlockPages
<1> QED  BY <1>1, <1>3, <1>4 DEF Region!BlocksOf, Region!Pages, Pages, Room

(* What a processor waits for, or has been answered. *)
Wanted(r) == IF r.op = "reserve" THEN {<<r.order, r.off>>} ELSE Region!BlocksOf(r.order)

WaitsFor(p) ==
    IF pc[p] = "idle" \/ Stray(req[p]) THEN Region!Idle
    ELSE IF pc[p] \in {"unlock", "merge"} THEN Region!Answered(ret[p])
    ELSE IF req[p].op = "free" THEN Region!FreeCall(Requested(req[p]))
    ELSE Region!AskFor(Wanted(req[p]))

Waiting == [p \in Procs |-> WaitsFor(p)]

LEMMA RegionCalls == ProtectInv => callBar = Waiting
<1> SUFFICES ASSUME ProtectInv, NEW p \in Procs
             PROVE  callBar[p] = WaitsFor(p)
  BY DEF callBar, Waiting
<1>1. req[p].order \in Nat
  BY LocalsSame DEF ProtectInv, Requests
<1> DEFINE B == IF req[p].order >= MAX_ORDER THEN {}
                ELSE {req[p].order} \X (0 .. free_area_length(NPages, req[p].order) - 1)
<1>2. Region!BlocksOf(req[p].order) = B
  <2>1. CASE req[p].order \in Orders
    <3>1. ~ (req[p].order >= MAX_ORDER)
      BY <2>1 DEF Orders
    <3> QED  BY <2>1, <3>1, RegionBlocks DEF Room
  <2>2. CASE req[p].order \notin Orders
    <3>1. req[p].order >= MAX_ORDER
      BY <1>1, <2>2 DEF Orders
    <3> QED  BY <2>2, <3>1, RegionBlocks
  <2> QED  BY <2>1, <2>2
<1>3. callBar[p] = IF pc[p] = "idle" \/ Stray(req[p]) THEN [state |-> "idle"]
                   ELSE IF pc[p] \in {"unlock", "merge"}
                     THEN [state |-> "answered", block |-> ret[p]]
                   ELSE IF req[p].op = "free"
                     THEN [state |-> "free", block |-> Requested(req[p])]
                   ELSE [state  |-> "ask",
                         wanted |-> IF req[p].op = "reserve"
                                      THEN {<<req[p].order, req[p].off>>} ELSE B]
  BY DEF callBar
<1> HIDE DEF B
<1> QED  BY <1>2, <1>3 DEF WaitsFor, Wanted, Region!Idle, Region!Answered, Region!FreeCall, Region!AskFor

LEMMA RegionFree == ProtectInv => FreePages = PagesIn(FreeIn(map.free_area))
BY FreePagesAre

(* A step of one processor changes what that processor waits for only. *)
LEMMA RegionStep ==
    ASSUME ProtectInv, ProtectInv', NEW p \in Procs, OthersStay(p)
    PROVE  /\ callBar[p] = WaitsFor(p)
           /\ callBar' = [callBar EXCEPT ![p] = WaitsFor(p)']
           /\ WaitsFor(p)' = WaitsFor(p) => callBar' = callBar
           /\ FreePages = PagesIn(FreeIn(map.free_area))
           /\ FreePages' = PagesIn(FreeIn(map'.free_area))
<1>1. callBar = Waiting
  BY RegionCalls
<1>2. ProtectInv' => (callBar = Waiting)'
  BY RegionCalls, PTL
<1>3. ProtectInv' => (FreePages = PagesIn(FreeIn(map.free_area)))'
  BY RegionFree, PTL
<1>4. \A q \in Procs \ {p} : WaitsFor(q)' = WaitsFor(q)
  BY DEF OthersStay, WaitsFor
<1>5. Waiting' = [Waiting EXCEPT ![p] = WaitsFor(p)']
  BY <1>4 DEF Waiting
<1>6. WaitsFor(p)' = WaitsFor(p) => Waiting' = Waiting
  BY <1>4 DEF Waiting
<1>7. FreePages' = PagesIn(FreeIn(map'.free_area))
  BY <1>3 DEF PagesIn, FreeIn
<1>8. FreePages = PagesIn(FreeIn(map.free_area)) /\ Waiting[p] = WaitsFor(p)
  BY RegionFree DEF Waiting
<1>9. callBar' = Waiting'
  BY <1>2
<1> QED  BY <1>1, <1>5, <1>6, <1>7, <1>8, <1>9

(* A step that splits, merges or walks is none of the region. *)
LEMMA RegionStutters ==
    ASSUME ProtectInv, ProtectInv', NEW p \in Procs, OthersStay(p), held' = held,
           WaitsFor(p)' = WaitsFor(p),
           PagesIn(FreeIn(map'.free_area)) = PagesIn(FreeIn(map.free_area))
    PROVE  UNCHANGED Region!regionVars
BY RegionStep DEF Region!regionVars

LEMMA RegionInit == ASSUME RightUse, ProtectInit  PROVE Region!RInit
<1>1. ProtectInv
  BY ProtectInvInit
<1>2. held = {} /\ \A p \in Procs : pc[p] = "idle" /\ Hands[p] = NoBlock
  BY DEF ProtectInit, Init, Hands, Hand
<1>3. callBar = [p \in Procs |-> Region!Idle]
  BY <1>1, <1>2, RegionCalls DEF Waiting, WaitsFor
<1>4. FreePages = 0 .. NPages - 1
  <2> DEFINE F == FreeIn(map.free_area)
  <2>1. FreePages = PagesIn(F)
    BY <1>1, RegionFree
  <2>2. ASSUME NEW page \in 0 .. NPages - 1
        PROVE  \E b \in F : Covers(b, page)
    <3>1. PICK x \in Things(F, held, Hands) : Covers(x[3], page)
      BY <1>1, <2>2 DEF ProtectInv, PlacedInv, Placed
    <3>2. \E b \in F : x = <<0, 0, b>>
      BY <1>2, <3>1 DEF Things
    <3> HIDE DEF F
    <3> QED  BY <3>1, <3>2
  <2> QED  BY <2>1, <2>2 DEF PagesIn
<1> QED  BY <1>2, <1>3, <1>4 DEF Region!RInit

-----------------------------------------------------------------------------
(* The calls. *)
LEMMA ProtectAsks ==
    ASSUME RightUse, ProtectInv, ProtectInv', NEW p \in Procs, mem_p_protect(p)
    PROVE  Region!Ask(p)
<1>1. PICK o \in Orders, i \in Nat :
         /\ Call(p, "reserve", o, i) /\ held' = held /\ i < Room(o)
         /\ OthersStay(p) /\ map' = map
         /\ req'[p] = [op |-> "reserve", order |-> o, off |-> i] /\ pc'[p] = "call"
  BY KeptByProtect
<1>2. WaitsFor(p) = Region!Idle
  BY <1>1 DEF Call, WaitsFor
<1>3. WaitsFor(p)' = Region!AskFor({<<o, i>>})
  BY <1>1 DEF WaitsFor, Wanted, Stray
<1>4. <<o, i>> \in UNION {Region!BlocksOf(u) : u \in Orders}
  <2>1. <<o, i>> \in Region!BlocksOf(o)
    <3>1. Room(o) \in Nat
      BY AreaLength DEF Room
    <3>2. i \in 0 .. Room(o) - 1
      BY <1>1, <3>1
    <3> QED  BY <3>2, RegionBlocks
  <2> QED  BY <2>1
<1>5. /\ callBar[p] = Region!Idle /\ FreePages' = FreePages
      /\ callBar' = [callBar EXCEPT ![p] = Region!AskFor({<<o, i>>})]
  BY <1>1, <1>2, <1>3, RegionStep
<1>6. Region!Orders = Orders
  BY DEF Region!Orders, Orders
<1>7. \E b \in UNION {Region!BlocksOf(u) : u \in Region!Orders} :
         callBar' = [callBar EXCEPT ![p] = Region!AskFor({b})]
  BY <1>4, <1>5, <1>6
<1> QED  BY <1>1, <1>5, <1>7 DEF Region!Ask

LEMMA AllocAsks ==
    ASSUME RightUse, ProtectInv, ProtectInv', NEW p \in Procs, CallAlloc(p),
           Protected \subseteq held, place' = place
    PROVE  Region!Ask(p)
<1>1. PICK o \in Nat :
         /\ Call(p, "alloc", o, 0) /\ held' = held
         /\ OthersStay(p) /\ map' = map
         /\ req'[p] = [op |-> "alloc", order |-> o, off |-> 0] /\ pc'[p] = "call"
  BY KeptByCallAlloc
<1>2. WaitsFor(p) = Region!Idle
  BY <1>1 DEF Call, WaitsFor
<1>3. WaitsFor(p)' = Region!AskFor(Region!BlocksOf(o))
  BY <1>1 DEF WaitsFor, Wanted, Stray
<1>4. PICK a \in 0 .. MAX_ORDER : Region!BlocksOf(o) = Region!BlocksOf(a)
  <2>1. CASE o < MAX_ORDER
    BY <2>1
  <2>2. CASE ~ (o < MAX_ORDER)
    <3>1. o \notin Orders /\ MAX_ORDER \notin Orders /\ MAX_ORDER \in 0 .. MAX_ORDER
      BY <2>2 DEF Orders
    <3>2. Region!BlocksOf(o) = Region!BlocksOf(MAX_ORDER)
      BY <3>1, RegionBlocks
    <3> QED  BY <3>1, <3>2
  <2> QED  BY <2>1, <2>2
<1>5. /\ callBar[p] = Region!Idle /\ FreePages' = FreePages
      /\ callBar' = [callBar EXCEPT ![p] = Region!AskFor(Region!BlocksOf(a))]
  BY <1>1, <1>2, <1>3, <1>4, RegionStep
<1> QED  BY <1>1, <1>5 DEF Region!Ask

LEMMA FreeGivesBack ==
    ASSUME RightUse, ProtectInv, ProtectInv', NEW p \in Procs, CallFree(p)
    PROVE  Region!GiveBack(p)
<1>1. /\ OthersStay(p) /\ map' = map /\ pc[p] = "idle" /\ pc'[p] = "call"
      /\ req'[p].op = "free" /\ ~ Stray(req'[p])
  BY CallFreeKeeps
<1>2. PICK b \in held : held' = held \ {b} /\ Requested(req'[p]) = b
  BY CallFreeKeeps
<1>3. WaitsFor(p) = Region!Idle /\ WaitsFor(p)' = Region!FreeCall(b)
  BY <1>1, <1>2 DEF WaitsFor, Requested, Stray
<1>4. /\ callBar[p] = Region!Idle /\ FreePages' = FreePages
      /\ callBar' = [callBar EXCEPT ![p] = Region!FreeCall(b)]
  BY <1>1, <1>3, RegionStep
<1> QED  BY <1>2, <1>4 DEF Region!GiveBack

(* What is behind the region is nobody's business. *)
LEMMA StrayIsNothing ==
    ASSUME RightUse, ProtectInv, ProtectInv', NEW p \in Procs, CallStrayFree(p),
           Protected \subseteq held, place' = place
    PROVE  UNCHANGED Region!regionVars
<1>1. /\ OthersStay(p) /\ map' = map /\ held' = held /\ pc[p] = "idle" /\ Stray(req'[p])
  BY KeptByStrayFree
<1>2. WaitsFor(p)' = WaitsFor(p)
  BY <1>1 DEF WaitsFor, Stray
<1> QED  BY <1>1, <1>2, RegionStutters

LEMMA RejectDeclines ==
    ASSUME RightUse, ProtectInv, ProtectInv', NEW p \in Procs, Reject(p)
    PROVE  Region!Decline(p)
<1>1. /\ pc[p] = "call" /\ TooLarge(req[p]) /\ Return(p)
      /\ map' = map /\ pages_free' = pages_free /\ held' = held
      /\ UNCHANGED <<lock, map, pages_free, mem_full, held>>
  BY DEF Reject
<1>2. Hand(p) = NoBlock
  BY <1>1 DEF Hand, TooLarge
<1>3. OthersStay(p) /\ pc'[p] = "idle"
  BY <1>1, <1>2, ReturnKeeps
<1>4. WaitsFor(p) = Region!AskFor({})
  <2>1. req[p].op = "alloc" /\ req[p].order \notin Orders
    BY <1>1 DEF TooLarge, Orders
  <2>2. Region!BlocksOf(req[p].order) = {}
    BY <2>1, RegionBlocks
  <2> QED  BY <1>1, <2>1, <2>2 DEF WaitsFor, Wanted, Stray
<1>5. WaitsFor(p)' = Region!Idle
  BY <1>3 DEF WaitsFor
<1>6. /\ callBar[p] = Region!AskFor({}) /\ FreePages' = FreePages
      /\ callBar' = [callBar EXCEPT ![p] = Region!Idle]
  BY <1>1, <1>3, <1>4, <1>5, RegionStep
<1> QED  BY <1>1, <1>6 DEF Region!Decline

LEMMA LockIsNothing ==
    ASSUME RightUse, ProtectInv, ProtectInv', NEW p \in Procs, Lock(p), FreeIsTracked(req[p])
    PROVE  UNCHANGED Region!regionVars
<1>1. req[p].order \in Nat /\ req[p].op \in {"alloc", "reserve", "free"}
  BY LocalsSame DEF ProtectInv, Requests
<1>2. req[p].op = "alloc" => req[p].order \in Orders
  BY <1>1 DEF Lock, TooLarge, Orders
<1>3. /\ OthersStay(p) /\ map' = map /\ held' = held /\ ret' = ret
      /\ pc[p] = "call" /\ pc'[p] = req[p].op /\ req' = req
  BY <1>2, LockKeeps
<1>4. WaitsFor(p)' = WaitsFor(p)
  BY <1>1, <1>3 DEF WaitsFor
<1> QED  BY <1>3, <1>4, RegionStutters

LEMMA UnlockAnswers ==
    ASSUME RightUse, ProtectInv, ProtectInv', NEW p \in Procs, Unlock(p)
    PROVE  Region!Answer(p)
<1>1. /\ OthersStay(p) /\ map' = map /\ pc'[p] = "idle"
      /\ held' = held \cup ({ret[p]} \ {NoBlock})
  BY UnlockKeeps
<1>2. pc[p] = "unlock" /\ ~ Stray(req[p])
  BY DEF Unlock, ProtectInv, CallInv
<1>3. WaitsFor(p) = Region!Answered(ret[p]) /\ WaitsFor(p)' = Region!Idle
  BY <1>1, <1>2 DEF WaitsFor
<1>4. Region!Answered(ret[p]).state = "answered" /\ Region!Answered(ret[p]).block = ret[p]
  BY DEF Region!Answered
<1>5. /\ callBar[p] = Region!Answered(ret[p]) /\ FreePages' = FreePages
      /\ callBar' = [callBar EXCEPT ![p] = Region!Idle]
  BY <1>1, <1>3, RegionStep
<1> QED  BY <1>1, <1>4, <1>5 DEF Region!Answer

-----------------------------------------------------------------------------
(* The bodies. *)

(* A processor that is being served, and one that has been. *)
LEMMA WaitsInBody ==
    ASSUME ProtectInv, NEW p \in Procs, pc[p] \in {"alloc", "reserve", "zsplit"}
    PROVE  ~ Stray(req[p]) /\ WaitsFor(p) = Region!AskFor(Wanted(req[p]))
<1>1. CallInv(p)
  BY DEF ProtectInv
<1>2. req[p].op # "free"
  BY <1>1 DEF CallInv
<1> QED  BY <1>2 DEF WaitsFor, Stray

LEMMA WaitsAnswered ==
    ASSUME NEW p \in Procs, ~ Stray(req[p]), req' = req, pc'[p] = "unlock"
    PROVE  WaitsFor(p)' = Region!Answered(ret'[p])
BY DEF WaitsFor, Stray

(* The block that is taken is one of those asked for, and free. *)
LEMMA TakeGrants ==
    ASSUME ProtectInv, ProtectInv', NEW p \in Procs, NEW o, NEW i, TakesBlock(p, o, i),
           OthersStay(p), pc'[p] = "unlock", ret'[p] = <<o, i>>, <<o, i>> \in Wanted(req[p])
    PROVE  Region!Grant(p)
<1> DEFINE b == <<o, i>>
           F == FreeIn(map.free_area)
<1>1. /\ pc[p] \in {"alloc", "reserve", "zsplit"} /\ req' = req /\ held' = held
      /\ o \in Orders /\ i \in map.free_area[o]
      /\ map'.free_area = [map.free_area EXCEPT ![o] = @ \ {i}]
  BY DEF TakesBlock
<1>2. /\ WaitsFor(p) = Region!AskFor(Wanted(req[p]))
      /\ WaitsFor(p)' = Region!Answered(b)
  BY <1>1, WaitsInBody, WaitsAnswered
<1>3. FreeIn(map'.free_area) = F \ {b}
  <2>1. map.free_area \in Areas
    BY DEF ProtectInv, Exact, MapType, Areas
  <2> QED  BY SMTT(60), <1>1, <2>1, FreeTaken
<1>4. b \in F
  BY <1>1, InFree
<1>5. Placed(Things(F, held, Hands))
  BY DEF ProtectInv, PlacedInv
<1> HIDE DEF b, F
<1>6. Pages(b) \subseteq PagesIn(F) /\ PagesIn(F \ {b}) = PagesIn(F) \ Pages(b)
  BY <1>4, <1>5, TakenPages
<1>7. /\ callBar[p] = Region!AskFor(Wanted(req[p]))
      /\ callBar' = [callBar EXCEPT ![p] = Region!Answered(b)]
      /\ FreePages = PagesIn(F) /\ FreePages' = PagesIn(F \ {b})
  BY <1>2, <1>3, RegionStep DEF F
<1>8. /\ Region!AskFor(Wanted(req[p])).state = "ask"
      /\ Region!AskFor(Wanted(req[p])).wanted = Wanted(req[p])
  BY DEF Region!AskFor
<1>9. b \in Wanted(req[p]) /\ Region!Pages(b) = Pages(b)
  BY RegionBlocks DEF b
<1> QED  BY <1>1, <1>6, <1>7, <1>8, <1>9 DEF Region!Grant

LEMMA AllocTakeGrants ==
    ASSUME ProtectInv, ProtectInv', NEW p \in Procs, AllocTake(p)
    PROVE  Region!Grant(p)
<1>0. PICK o, i : o = req[p].order /\ i = map.next_free_page[o]
  OBVIOUS
<1>1. /\ OthersStay(p) /\ pc[p] = "alloc" /\ pc'[p] = "unlock"
      /\ TakesBlock(p, o, i) /\ ret'[p] = <<o, i>>
  BY <1>0, AllocTakeKeeps
<1>2. <<o, i>> \in Wanted(req[p])
  <2>1. o \in Orders /\ i \in map.free_area[o]
    BY <1>1 DEF TakesBlock
  <2>2. i \in 0 .. Room(o) - 1
    BY <2>1, ExactOrder DEF ProtectInv
  <2>3. req[p].op = "alloc"
    BY <1>1 DEF ProtectInv, CallInv
  <2> QED  BY <1>0, <2>1, <2>2, <2>3, RegionBlocks DEF Wanted
<1> QED  BY <1>1, <1>2, TakeGrants

LEMMA ReserveGrants ==
    ASSUME RightUse, ProtectInv, ProtectInv', NEW p \in Procs, ReserveTake(p) \/ ReserveEnd(p)
    PROVE  Region!Grant(p)
<1>0. PICK o, i : o = req[p].order /\ i = req[p].off
  OBVIOUS
<1>1. /\ OthersStay(p) /\ pc[p] \in {"reserve", "zsplit"} /\ pc'[p] = "unlock"
      /\ TakesBlock(p, o, i) /\ ret'[p] = <<o, i>>
  BY <1>0, ReserveTakeKeeps, ReserveEndKeeps
<1>2. <<o, i>> \in Wanted(req[p])
  BY <1>0, <1>1 DEF ProtectInv, CallInv, Wanted
<1> QED  BY <1>1, <1>2, TakeGrants

(* A request fails only when no block can be put together. *)
LEMMA NothingFits ==
    ASSUME ProtectInv, NEW p \in Procs, pc[p] = "alloc", NEW r \in Orders, r = req[p].order,
           \A u \in Orders : r <= u => map.free_area[u] = {},
           NEW w \in Nat, w < Room(r)
    PROVE  ~ (Pages(<<r, w>>) \subseteq FreePages)
<1> DEFINE F == FreeIn(map.free_area)
<1>1. r \in 0 .. 9 /\ \A u \in Orders : u \in Nat
  BY DEF Orders
<1>2. ASSUME NEW b \in F
      PROVE  b = <<b[1], b[2]>> /\ b[1] \in 0 .. r - 1
  <2>1. b = <<b[1], b[2]>> /\ b[1] \in Orders /\ b[2] \in map.free_area[b[1]]
    BY InFree
  <2>2. ~ (r <= b[1])
    BY <2>1
  <2> HIDE DEF F
  <2> QED  BY <1>1, <2>1, <2>2
<1>3. ASSUME NEW q \in 0 .. r - 1, NEW j \in Nat,
             <<q, 2 * j>> \in F, <<q, 2 * j + 1>> \in F
      PROVE  FALSE
  <2>1. q \in Orders \ {MAX_ORDER - 1}
    BY <1>1 DEF Orders
  <2>2. 2 * j \in map.free_area[q] /\ 2 * j + 1 \in map.free_area[q]
    BY <1>3, <2>1, InFree
  <2>3. BuddyOf(2 * j) = 2 * j + 1
    BY DEF BuddyOf
  <2>4. InBody(p) /\ PcInv /\ CoalescedInv /\ BodyInv(p)
    BY DEF ProtectInv, InBody
  <2>5. Worked(p, q, 2 * j) \/ Worked(p, q, 2 * j + 1)
    BY <2>1, <2>2, <2>3, <2>4, OnlyWorker
  <2>6. lvl[p] = q /\ r \in 0 .. lvl[p]
    BY <2>4, <2>5 DEF Worked, BodyInv
  <2> QED  BY <2>6
<1>4. PICK page \in Nat : page \div ORDER(r) = w /\ \A b \in F : ~ Covers(b, page)
  <2> HIDE DEF F
  <2> QED  BY <1>1, <1>2, <1>3, NotPutTogether
<1>5. page \in Pages(<<r, w>>)
  BY <1>1, <1>4, CoveredPages DEF Pages, BlockPages
<1>6. page \notin FreePages
  BY <1>4, FreePagesAre DEF PagesIn
<1> QED  BY <1>5, <1>6

LEMMA AllocFailRefuses ==
    ASSUME ProtectInv, ProtectInv', NEW p \in Procs, AllocFail(p)
    PROVE  Region!Refuse(p)
<1>0. PICK r : r = req[p].order
  OBVIOUS
<1>1. /\ OthersStay(p) /\ map' = map /\ held' = held
      /\ pc[p] = "alloc" /\ pc'[p] = "unlock" /\ req' = req /\ ret'[p] = NoBlock
      /\ r \in Orders /\ \A u \in Orders : r <= u => map.free_area[u] = {}
  BY <1>0, AllocFailKeeps
<1>2. Wanted(req[p]) = Region!BlocksOf(r)
  <2>1. req[p].op = "alloc"
    BY <1>1 DEF ProtectInv, CallInv
  <2> QED  BY <1>0, <2>1 DEF Wanted
<1>3. \A b \in Region!BlocksOf(r) : ~ (Region!Pages(b) \subseteq FreePages)
  <2> SUFFICES ASSUME NEW b \in Region!BlocksOf(r)
               PROVE  ~ (Pages(b) \subseteq FreePages)
    BY RegionBlocks
  <2>1. b = <<r, b[2]>> /\ b[2] \in 0 .. Room(r) - 1
    BY <1>1, RegionBlocks
  <2>2. Room(r) \in Nat
    BY <1>1, AreaLength DEF Room
  <2>3. b[2] \in Nat /\ b[2] < Room(r)
    BY <2>1, <2>2
  <2>4. ~ (Pages(<<r, b[2]>>) \subseteq FreePages)
    BY <1>0, <1>1, <2>3, NothingFits
  <2> QED  BY <2>1, <2>4
<1>4. /\ WaitsFor(p) = Region!AskFor(Region!BlocksOf(r))
      /\ WaitsFor(p)' = Region!Answered(NoBlock)
  BY <1>1, <1>2, WaitsInBody, WaitsAnswered
<1>5. /\ Region!AskFor(Region!BlocksOf(r)).state = "ask"
      /\ Region!AskFor(Region!BlocksOf(r)).wanted = Region!BlocksOf(r)
  BY DEF Region!AskFor
<1>6. /\ callBar[p] = Region!AskFor(Region!BlocksOf(r)) /\ FreePages' = FreePages
      /\ callBar' = [callBar EXCEPT ![p] = Region!Answered(NoBlock)]
  BY <1>1, <1>4, RegionStep
<1> QED  BY <1>1, <1>3, <1>5, <1>6 DEF Region!Refuse

(* One level of a split: the halves have the pages of the whole. *)
LEMMA SplitIsNothing ==
    ASSUME RightUse, ProtectInv, ProtectInv', NEW p \in Procs, AllocSplit(p) \/ ReserveSplit(p)
    PROVE  UNCHANGED Region!regionVars
<1>1. PICK o, i : SplitsBlock(p, o, i)
  BY AllocSplitKeeps, ReserveSplitKeeps
<1>2. OthersStay(p) /\ held' = held /\ pc' = pc /\ req' = req /\ ret' = ret
  BY AllocSplitKeeps, ReserveSplitKeeps
<1>3. WaitsFor(p)' = WaitsFor(p)
  BY <1>2 DEF WaitsFor
<1>4. /\ o \in Orders \ {0} /\ i \in map.free_area[o]
      /\ IsHalved(map'.free_area, map.free_area, o, i)
  BY <1>1 DEF SplitsBlock
<1>5. map.free_area \in Areas /\ i \in Nat
  <2>1. map \in MapType /\ o \in 0 .. MAX_ORDER
    BY <1>4 DEF ProtectInv, Exact, Orders
  <2> QED  BY <1>4, <2>1 DEF MapType, Areas
<1>6. IsSplit(FreeIn(map'.free_area), FreeIn(map.free_area), o, i)
  <2>1. FreeIn(map'.free_area)
          = (FreeIn(map.free_area) \ {<<o, i>>}) \cup {<<o - 1, 2 * i>>, <<o - 1, 2 * i + 1>>}
    BY <1>4, <1>5, FreeHalved
  <2>2. <<o, i>> \in FreeIn(map.free_area)
    BY <1>4, InFree
  <2> QED  BY <2>1, <2>2 DEF IsSplit
<1>7. Placed(Things(FreeIn(map.free_area), held, Hands))
  BY DEF ProtectInv, PlacedInv
<1>8. PagesIn(FreeIn(map'.free_area)) = PagesIn(FreeIn(map.free_area))
  BY <1>4, <1>5, <1>6, <1>7, Halving
<1> QED  BY <1>2, <1>3, <1>8, RegionStutters

LEMMA WalkIsNothing ==
    ASSUME RightUse, ProtectInv, ProtectInv', NEW p \in Procs, AllocAscend(p) \/ ReserveSearch(p)
    PROVE  UNCHANGED Region!regionVars
<1>1. /\ OthersStay(p) /\ map' = map /\ held' = held /\ req' = req /\ ret' = ret
      /\ pc[p] \in {"alloc", "reserve"} /\ pc'[p] \in {"alloc", "zsplit"}
  BY AllocAscendKeeps, ReserveSearchKeeps
<1>2. WaitsFor(p)' = WaitsFor(p)
  BY <1>1 DEF WaitsFor
<1> QED  BY <1>1, <1>2, RegionStutters

LEMMA FreeReleases ==
    ASSUME ProtectInv, ProtectInv', NEW p \in Procs, FreeTake(p)
    PROVE  Region!Release(p)
<1> DEFINE b == Hand(p)
           F == FreeIn(map.free_area)
<1>1. /\ OthersStay(p) /\ held' = held /\ ret' = ret /\ ret[p] = NoBlock
      /\ pc[p] = "free" /\ pc'[p] \in {"merge", "unlock"} /\ ~ Stray(req[p]) /\ req' = req
      /\ b # NoBlock /\ FreeIn(map'.free_area) = F \cup {b}
  BY FreeTakeKeeps
<1>2. b = Requested(req[p]) /\ req[p].op = "free"
  BY <1>1 DEF Hand, ProtectInv, CallInv
<1>3. /\ WaitsFor(p) = Region!FreeCall(b)
      /\ WaitsFor(p)' = Region!Answered(NoBlock)
  BY <1>1, <1>2 DEF WaitsFor
<1>4. Placed(Things(F, held, Hands)) /\ Hands[p] = b
  BY DEF ProtectInv, PlacedInv, Hands
<1>5. /\ callBar[p] = Region!FreeCall(b)
      /\ callBar' = [callBar EXCEPT ![p] = Region!Answered(NoBlock)]
      /\ FreePages = PagesIn(F) /\ FreePages' = PagesIn(F \cup {b})
  BY <1>1, <1>3, RegionStep
<1> HIDE DEF b, F
<1>6. PagesIn(F \cup {b}) = PagesIn(F) \cup Pages(b)
  BY <1>1, <1>4, GivenPages
<1>7. /\ Region!FreeCall(b).state = "free" /\ Region!FreeCall(b).block = b
      /\ Region!Pages(b) = Pages(b)
  BY RegionBlocks DEF Region!FreeCall
<1> QED  BY <1>1, <1>5, <1>6, <1>7 DEF Region!Release

LEMMA FreeIsNothing ==
    ASSUME ProtectInv, ProtectInv', NEW p \in Procs, FreeIgnore(p) \/ FreeMerge(p)
    PROVE  UNCHANGED Region!regionVars
<1>1. CASE FreeIgnore(p)
  <2>1. /\ OthersStay(p) /\ map' = map /\ held' = held /\ pc'[p] = "idle" /\ Stray(req[p])
    BY <1>1, FreeIgnoreKeeps
  <2>2. WaitsFor(p)' = WaitsFor(p)
    BY <2>1 DEF WaitsFor
  <2> QED  BY <2>1, <2>2, RegionStutters
<1>2. CASE FreeMerge(p)
  <2>1. /\ OthersStay(p) /\ held' = held /\ req' = req /\ ret' = ret
        /\ pc[p] = "merge" /\ pc'[p] \in {"merge", "unlock"}
        /\ PagesIn(FreeIn(map'.free_area)) = PagesIn(FreeIn(map.free_area))
    BY <1>2, FreeMergeKeeps
  <2>2. WaitsFor(p)' = WaitsFor(p)
    BY <2>1 DEF WaitsFor
  <2> QED  BY <2>1, <2>2, RegionStutters
<1> QED  BY <1>1, <1>2

LEMMA ProtectRefinesStep ==
    ASSUME RightUse, ProtectInv, ProtectInv', [ProtectNext]_<<vars, place>>
    PROVE  [Region!RNext]_(Region!regionVars)
<1>1. CASE UNCHANGED <<vars, place>>
  <2>1. map' = map /\ held' = held /\ pc' = pc /\ req' = req /\ ret' = ret
    BY <1>1 DEF vars, locals
  <2>2. FreePages' = FreePages /\ callBar' = callBar
    BY <2>1 DEF FreePages, FreeBlocks, callBar
  <2> QED  BY <2>1, <2>2 DEF Region!regionVars
<1>2. ASSUME NEW p \in Procs, mem_p_protect(p)
      PROVE  Region!RNext
  BY <1>2, ProtectAsks DEF Region!RNext
<1>3. ASSUME NEW p \in Procs, Clients(p)
      PROVE  Region!RNext \/ UNCHANGED Region!regionVars
  <2>1. Protected \subseteq held /\ place' = place
    BY <1>3 DEF Clients
  <2> QED  BY <1>3, <2>1, AllocAsks, FreeGivesBack, StrayIsNothing DEF Clients, Region!RNext
<1>4. ASSUME NEW p \in Procs, Bodies(p)
      PROVE  Region!RNext \/ UNCHANGED Region!regionVars
  <2>1. CASE Reject(p) \/ (Lock(p) /\ FreeIsTracked(req[p])) \/ Unlock(p)
    BY <2>1, RejectDeclines, LockIsNothing, UnlockAnswers DEF Region!RNext
  <2>2. CASE Alloc(p)
    BY <2>2, AllocTakeGrants, AllocFailRefuses, SplitIsNothing, WalkIsNothing
       DEF Alloc, Region!RNext
  <2>3. CASE Reserve(p)
    BY <2>3, ReserveGrants, SplitIsNothing, WalkIsNothing DEF Reserve, Region!RNext
  <2>4. CASE Free(p)
    BY <2>4, FreeReleases, FreeIsNothing DEF Free, Region!RNext
  <2> QED  BY <1>4, <2>1, <2>2, <2>3, <2>4 DEF Bodies
<1> QED  BY <1>1, <1>2, <1>3, <1>4 DEF ProtectNext

(***************************************************************************)
(* A region used this way is a PageRegion, for every number of processors, *)
(* pages and orders: a client is given a free block of the order it asked  *)
(* for, mem_p_protect the block it names, a page that is given back is     *)
(* free again, each call is answered once, and a request is refused only   *)
(* when no block of its order is free, split or whole (page.c:365-620).    *)
(***************************************************************************)
THEOREM ProtectRefinesRegion == RightUse => (ProtectSpec => ImplementsPageRegion)
<1> SUFFICES ASSUME RightUse  PROVE ProtectSpec => ImplementsPageRegion
  OBVIOUS
<1>1. ProtectSpec => []ProtectInv
  BY ProtectInvAlways
<1>2. ProtectInit => Region!RInit
  BY RegionInit
<1>3. ProtectInv /\ ProtectInv' /\ [ProtectNext]_<<vars, place>> => [Region!RNext]_(Region!regionVars)
  BY ProtectRefinesStep
<1> QED  BY <1>1, <1>2, <1>3, PTL DEF ProtectSpec, ImplementsPageRegion, Region!RSpec
=============================================================================
