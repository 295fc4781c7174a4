---------------------------- MODULE FramesProofs ----------------------------
(***************************************************************************)
(* Proofs about the frame allocator, for every list of regions, any number *)
(* of processors and any orders that clients ask for: a region with room   *)
(* is left behind only when next_region moves between its two loads, and   *)
(* never by a processor alone; and only usable memory is given out.        *)
(***************************************************************************)
EXTENDS Frames, WellFoundedInduction, TLAPS

(* Whatever points to a region, points to one that is usable: next_region,  *)
(* the result of a search, where alloc_pages begins and what is given back. *)
Pointer == (Regions \ Unusable) \cup {NULL}

PointersUsable ==
    /\ next_region \in Pointer
    /\ \A p \in Procs :
        pc[p] \in {"test", "next", "store", "take", "pages", "loop", "try", "freed", "move"}
            => areg[p] \in Pointer

(* Of a region that alloc_page has loaded, what is in front is full or was *)
(* passed over, and so is the region itself once it is found full.         *)
Loaded ==
    /\ \A p \in Procs : pc[p] \in {"test", "next"} => areg[p] # NULL /\ Behind(areg[p]) \subseteq passed
    /\ \A p \in Procs : pc[p] = "next" => mem_full[areg[p]]

FramesInv == TypeOK /\ NoRegionSkipped /\ OnlyUsable /\ PointersUsable /\ Loaded

-----------------------------------------------------------------------------
(* Pointers behind a region, or at NULL. *)
LEMMA RegionNumbers ==
    /\ Len(Sizes) \in Nat /\ Regions \subseteq Nat \ {0} /\ NULL \in Nat \ {0}
    /\ NULL \notin Regions
    /\ \A r \in Regions : r + 1 \in Regions \cup {NULL} /\ r < NULL
<1>1. Len(Sizes) \in Nat  BY FramesAssumption
<1> QED  BY <1>1 DEF Regions, NULL

LEMMA UsableRegions == Usable \subseteq Regions \ Unusable
BY DEF Usable

(* The first usable region. *)
LEMMA FirstUsable ==
    Usable # {} => /\ Min(Usable) \in Usable
                   /\ \A r \in Usable : Min(Usable) <= r
<1> SUFFICES ASSUME Usable # {}
             PROVE  \E m \in Usable : \A r \in Usable : m <= r
  BY DEF Min
<1>1. Usable \subseteq Nat  BY UsableRegions, RegionNumbers
<1>2. PICK m \in Usable : \A r \in Usable : ~ (<<r, m>> \in OpToRel(<, Nat))
  BY <1>1, NatLessThanWellFounded, WFMin
<1>3. ASSUME NEW r \in Usable  PROVE  m <= r
  <2>1. m \in Nat /\ r \in Nat  BY <1>1
  <2>2. ~ (<<r, m>> \in OpToRel(<, Nat))  BY <1>2
  <2>3. ~ (r < m)  BY <2>1, <2>2 DEF OpToRel
  <2> QED  BY <2>1, <2>3
<1> QED  BY <1>3

(* The pages of a block are numbers. *)
LEMMA OrderSizes == \A o \in Orders : ORDER(o) \in Nat \ {0}
BY MaxOrderAssumption DEF ORDER, Orders

LEMMA BlocksTyped ==
    ASSUME NEW r \in Regions, NEW o \in Orders, NEW b \in FreeBlocks(r, o)
    PROVE  b \in Regions \X Orders \X Nat /\ b[1] = r
<1>1. free_area_length(Sizes[r], o) \in Nat
  <2>1. Sizes[r] \in Nat  BY FramesAssumption DEF Regions
  <2>2. ORDER(o) \in Nat \ {0}  BY OrderSizes
  <2> QED  BY <2>1, <2>2 DEF free_area_length
<1>2. b \in {r} \X {o} \X (0 .. free_area_length(Sizes[r], o) - 1)  BY DEF FreeBlocks
<1> QED  BY <1>1, <1>2

LEMMA PagesNumbers ==
    ASSUME NEW b \in Regions \X Orders \X Nat
    PROVE  Pages(b) \subseteq Nat
<1>1. b[2] \in Orders /\ b[3] \in Nat  OBVIOUS
<1>2. ORDER(b[2]) \in Nat  BY <1>1, OrderSizes
<1>3. b[3] * ORDER(b[2]) \in Nat  BY <1>1, <1>2
<1> QED  BY <1>3 DEF Pages, BlockPages

-----------------------------------------------------------------------------
(***************************************************************************)
(* The memory of the regions.  Nothing ever clears mem_full, so that what  *)
(* is full stays full (Filling); memory keeps its types, and what clients  *)
(* hold is usable if the region that is asked is.                          *)
(***************************************************************************)
MemoryTyped ==
    /\ free \in [Regions -> SUBSET Nat] /\ mem_full \in [Regions -> BOOLEAN]
    /\ held \subseteq Regions \X Orders \X Nat

Filling == \A r \in Regions : mem_full[r] => mem_full'[r]

MemoryKept == MemoryTyped' /\ Filling /\ OnlyUsable'

LEMMA SameMemory ==
    ASSUME MemoryTyped, OnlyUsable, UNCHANGED memory
    PROVE  MemoryKept
BY DEF MemoryTyped, OnlyUsable, memory, MemoryKept, Filling

LEMMA GrantKeeps ==
    ASSUME MemoryTyped, OnlyUsable, NEW r \in Regions \ Unusable, NEW o \in 0 .. MAX_ORDER,
           Grant(r, o)
    PROVE  MemoryKept
<1>1. o \in Orders  BY MaxOrderAssumption DEF Grant, Orders
<1>2. PICK b \in FreeBlocks(r, o) :
            /\ free' = [free EXCEPT ![r] = @ \ Pages(b)]
            /\ mem_full' = [mem_full EXCEPT ![r] = @ \/ Cardinality(free[r]) <= ORDER(o)]
            /\ held' = held \cup {b}
  BY DEF Grant
<1>3. b \in Regions \X Orders \X Nat /\ b[1] = r  BY <1>1, BlocksTyped
<1>4. free' \in [Regions -> SUBSET Nat]  BY <1>2 DEF MemoryTyped
<1>5. (Cardinality(free[r]) <= ORDER(o)) \in BOOLEAN  OBVIOUS
<1>6. mem_full' \in [Regions -> BOOLEAN]  BY <1>2, <1>5 DEF MemoryTyped
<1>7. held' \subseteq Regions \X Orders \X Nat  BY <1>2, <1>3 DEF MemoryTyped
<1>8. Filling  BY <1>2 DEF MemoryTyped, Filling
<1>9. OnlyUsable'  BY <1>2, <1>3 DEF OnlyUsable
<1> QED  BY <1>4, <1>6, <1>7, <1>8, <1>9 DEF MemoryKept, MemoryTyped

LEMMA RefuseKeeps ==
    ASSUME MemoryTyped, OnlyUsable, NEW r \in Regions, NEW o, Refuse(r, o)
    PROVE  MemoryKept
<1>1. /\ mem_full' = [mem_full EXCEPT ![r] = @ \/ o < MAX_ORDER]
      /\ UNCHANGED <<free, held>>
  BY DEF Refuse
<1>2. mem_full' \in [Regions -> BOOLEAN]  BY <1>1 DEF MemoryTyped
<1>3. Filling  BY <1>1 DEF MemoryTyped, Filling
<1> QED  BY <1>1, <1>2, <1>3 DEF MemoryKept, MemoryTyped, OnlyUsable

(* What a processor points to after a call of free is usable. *)
LEMMA FreeKeeps ==
    ASSUME MemoryTyped, OnlyUsable, NEW b \in held,
           held' = held \ {b},
           free' = [free EXCEPT ![b[1]] = @ \cup Pages(b)],
           mem_full' = [mem_full EXCEPT ![b[1]] = @ \/ free[b[1]] = {}]
    PROVE  MemoryKept /\ b[1] \in Regions \ Unusable
<1>1. b \in Regions \X Orders \X Nat  BY DEF MemoryTyped
<1>2. Pages(b) \subseteq Nat  BY <1>1, PagesNumbers
<1>3. b[1] \in Regions \ Unusable  BY <1>1 DEF OnlyUsable
<1>4. free' \in [Regions -> SUBSET Nat]  BY <1>2, <1>3 DEF MemoryTyped
<1>5. mem_full' \in [Regions -> BOOLEAN]  BY <1>3 DEF MemoryTyped
<1>6. Filling  BY <1>3 DEF MemoryTyped, Filling
<1>7. OnlyUsable' /\ held' \subseteq Regions \X Orders \X Nat  BY DEF OnlyUsable, MemoryTyped
<1> QED  BY <1>3, <1>4, <1>5, <1>6, <1>7 DEF MemoryKept, MemoryTyped

-----------------------------------------------------------------------------
(***************************************************************************)
(* The processors.  A step moves one of them; the invariant of the others  *)
(* stays, if no region is passed over by next_region.                      *)
(***************************************************************************)
Labels == {"idle", "page", "load", "test", "next", "search", "store", "take",
           "pages", "loop", "clear", "try", "walk", "freed", "move", "moved", "fault"}

(* What the invariant says of a processor at a label, with its pointer. *)
Cleared(a, full, gone) == \A r \in Usable : r < a => full[r] \/ r \in gone

Placed(l, a, full, gone) ==
    /\ l \in Labels /\ a \in Regions \cup {NULL}
    /\ l \in {"test", "next", "search", "store", "move"} => Cleared(a, full, gone)
    /\ l \in {"test", "next", "store", "take", "pages", "loop", "try", "freed", "move"} => a \in Pointer
    /\ l \in {"test", "next"} => a # NULL
    /\ l = "next" => full[a]

Globals ==
    /\ next_region \in Pointer /\ outOfMem \in BOOLEAN /\ passed \subseteq Regions
    /\ Cleared(next_region, mem_full, passed)

ProcsTyped ==
    /\ pc \in [Procs -> Labels] /\ areg \in [Procs -> Regions \cup {NULL}]
    /\ order \in [Procs -> 0 .. MAX_ORDER]

LEMMA InvParts ==
    ASSUME FramesInv
    PROVE  /\ MemoryTyped /\ OnlyUsable /\ Globals /\ ProcsTyped
           /\ \A p \in Procs : Placed(pc[p], areg[p], mem_full, passed)
BY DEF FramesInv, TypeOK, NoRegionSkipped, PointersUsable, Loaded, MemoryTyped, Globals,
       ProcsTyped, Placed, Cleared, Behind, Labels

LEMMA InvFromParts ==
    ASSUME MemoryTyped, OnlyUsable, Globals, ProcsTyped,
           \A p \in Procs : Placed(pc[p], areg[p], mem_full, passed)
    PROVE  FramesInv
<1>1. Pointer \subseteq Regions \cup {NULL}  BY DEF Pointer
<1> QED
  BY <1>1 DEF FramesInv, TypeOK, NoRegionSkipped, PointersUsable, Loaded, MemoryTyped, Globals,
         ProcsTyped, Placed, Cleared, Behind, Labels

LEMMA InvFromPartsNext ==
    ASSUME MemoryTyped', OnlyUsable', Globals', ProcsTyped',
           \A p \in Procs : Placed(pc[p], areg[p], mem_full, passed)'
    PROVE  FramesInv'
<1>1. Pointer \subseteq Regions \cup {NULL}  BY DEF Pointer
<1> QED
  BY <1>1 DEF FramesInv, TypeOK, NoRegionSkipped, PointersUsable, Loaded, MemoryTyped, Globals,
         ProcsTyped, Placed, Cleared, Behind, Labels

Moved(p, l, a, o) ==
    /\ pc' = [pc EXCEPT ![p] = l] /\ areg' = [areg EXCEPT ![p] = a]
    /\ order' = [order EXCEPT ![p] = o]

(* The forms in which actions say where a processor goes. *)
LEMMA MovesTo ==
    ASSUME ProcsTyped, NEW p \in Procs, NEW l, NEW a
    PROVE  /\ Goto(p, l) /\ UNCHANGED <<order, areg>> => Moved(p, l, areg[p], order[p])
           /\ Goto(p, l) /\ Point(p, a) /\ UNCHANGED order => Moved(p, l, a, order[p])
           /\ Point(p, a) /\ UNCHANGED <<pc, order>> => Moved(p, pc[p], a, order[p])
           /\ Return(p) => Moved(p, "idle", NULL, 0)
           /\ Fault(p) => Moved(p, "fault", areg[p], order[p])
           /\ order[p] \in 0 .. MAX_ORDER
BY DEF ProcsTyped, Goto, Point, Return, Fault, Moved

(* A step of one processor, from a label and a pointer to others. *)
LEMMA OneMoves ==
    ASSUME FramesInv, MemoryKept, Globals', passed \subseteq passed', NEW p \in Procs,
           NEW l, NEW a, NEW o \in 0 .. MAX_ORDER,
           Moved(p, l, a, o), Placed(l, a, mem_full', passed')
    PROVE  FramesInv'
<1>0. /\ pc' = [pc EXCEPT ![p] = l] /\ areg' = [areg EXCEPT ![p] = a]
      /\ order' = [order EXCEPT ![p] = o]
  BY DEF Moved
<1>1. Placed(l, a, mem_full', passed') => l \in Labels /\ a \in Regions \cup {NULL}  BY DEF Placed
<1>2. ProcsTyped  BY InvParts
<1>3. ProcsTyped'  BY <1>0, <1>1, <1>2 DEF ProcsTyped
<1>4. ASSUME NEW q \in Procs  PROVE Placed(pc'[q], areg'[q], mem_full', passed')
  <2>1. CASE q = p
    <3>1. pc'[q] = l /\ areg'[q] = a  BY <1>0, <1>2, <2>1 DEF ProcsTyped
    <3> QED  BY <3>1 DEF Placed, Cleared
  <2>2. CASE q # p
    <3>1. pc'[q] = pc[q] /\ areg'[q] = areg[q]  BY <1>0, <1>2, <2>2 DEF ProcsTyped
    <3>2. Placed(pc[q], areg[q], mem_full, passed)  BY InvParts
    <3>3. Filling  BY DEF MemoryKept
    <3>4. Cleared(areg[q], mem_full, passed) => Cleared(areg[q], mem_full', passed')
      BY <3>3, UsableRegions DEF Filling, Cleared
    <3>5. areg[q] \in Pointer /\ areg[q] # NULL /\ mem_full[areg[q]] => mem_full'[areg[q]]
      BY <3>3 DEF Filling, Pointer
    <3> QED  BY <3>1, <3>2, <3>4, <3>5 DEF Placed
  <2> QED  BY <2>1, <2>2
<1> QED  BY <1>3, <1>4, InvFromPartsNext DEF MemoryKept

(* The search for a region, whatever it was called for. *)
LEMMA SearchKeeps ==
    ASSUME FramesInv, NEW p \in Procs,
           NEW from \in {"search", "walk"}, NEW to \in {"store", "loop"},
           to = "store" => from = "search",
           findFreeRegion(p, from, to)
    PROVE  FramesInv'
<1> DEFINE a == areg[p]
<1>1. /\ MemoryTyped /\ OnlyUsable /\ Globals /\ ProcsTyped /\ Placed(from, a, mem_full, passed) /\ pc[p] = from
  BY InvParts DEF findFreeRegion
<1>2. a \in Regions \cup {NULL}  BY <1>1 DEF Placed
<1>3. MemoryKept /\ UNCHANGED <<next_region, mem_full, order, passed>>
  BY <1>1, SameMemory DEF findFreeRegion, memory
<1>4. CASE a = NULL
  <2>1. Moved(p, to, a, order[p]) /\ outOfMem' = TRUE
    BY <1>1, <1>3, <1>4, MovesTo DEF findFreeRegion
  <2>2. Placed(to, a, mem_full', passed')  BY <1>1, <1>3, <1>4 DEF Placed, Cleared, Pointer, Labels
  <2>3. Globals'  BY <1>1, <1>3, <2>1 DEF Globals, Cleared
  <2> QED  BY <1>1, <1>3, <2>1, <2>2, <2>3, MovesTo, OneMoves
<1>5. CASE a # NULL /\ a \in Usable /\ ~ mem_full[a]
  <2>1. Moved(p, to, a, order[p]) /\ outOfMem' = outOfMem
    BY <1>1, <1>3, <1>5, MovesTo DEF findFreeRegion
  <2>2. Placed(to, a, mem_full', passed')  BY <1>1, <1>3, <1>5, UsableRegions DEF Placed, Cleared, Pointer, Labels
  <2>3. Globals'  BY <1>1, <1>3, <2>1 DEF Globals, Cleared
  <2> QED  BY <1>1, <1>3, <2>1, <2>2, <2>3, MovesTo, OneMoves
<1>6. CASE a # NULL /\ ~ (a \in Usable /\ ~ mem_full[a])
  <2>1. Moved(p, from, a + 1, order[p]) /\ outOfMem' = outOfMem
    BY <1>1, <1>3, <1>6, MovesTo DEF findFreeRegion
  <2>2. a + 1 \in Regions \cup {NULL}  BY <1>2, <1>6, RegionNumbers
  <2>3. from = "search" => Cleared(a + 1, mem_full', passed')
    <3>1. ASSUME from = "search", NEW r \in Usable, r < a + 1  PROVE mem_full'[r] \/ r \in passed'
      <4>1. r \in Nat /\ a \in Nat  BY <1>2, RegionNumbers, UsableRegions
      <4>2. r < a \/ r = a  BY <3>1, <4>1
      <4> QED  BY <1>1, <1>3, <1>6, <3>1, <4>2 DEF Placed, Cleared
    <3> QED  BY <3>1 DEF Cleared
  <2>4. Placed(from, a + 1, mem_full', passed')  BY <2>2, <2>3 DEF Placed, Labels
  <2>5. Globals'  BY <1>1, <1>3, <2>1 DEF Globals, Cleared
  <2> QED  BY <1>1, <1>3, <2>1, <2>4, <2>5, MovesTo, OneMoves
<1> QED  BY <1>4, <1>5, <1>6

(* A step that leaves memory and the globals alone. *)
LEMMA LocalStep ==
    ASSUME FramesInv, NEW p \in Procs, UNCHANGED <<globals, memory, passed>>,
           NEW l, NEW a, NEW o \in 0 .. MAX_ORDER, Moved(p, l, a, o), Placed(l, a, mem_full, passed)
    PROVE  FramesInv'
<1>1. MemoryTyped /\ OnlyUsable /\ Globals  BY InvParts
<1>2. MemoryKept  BY <1>1, SameMemory
<1>3. mem_full' = mem_full /\ Globals'  BY <1>1 DEF globals, memory, Globals, Cleared
<1> QED  BY <1>2, <1>3, OneMoves

(* A step that leaves the globals alone, while memory is used. *)
LEMMA MemoryStep ==
    ASSUME FramesInv, NEW p \in Procs, UNCHANGED <<globals, passed>>, MemoryKept,
           NEW l, NEW a, NEW o \in 0 .. MAX_ORDER, Moved(p, l, a, o), Placed(l, a, mem_full', passed')
    PROVE  FramesInv'
<1>1. Globals  BY InvParts
<1>2. Globals'  BY <1>1, UsableRegions DEF globals, MemoryKept, Filling, Globals, Cleared
<1> QED  BY <1>2, OneMoves

(* The labels at which a call begins, ends or fails. *)
LEMMA CallPageKeeps ==
    ASSUME FramesInv, NEW p \in Procs, CallPage(p) \/ PageStart(p)
    PROVE  FramesInv'
<1> DEFINE a == areg[p]
<1>1. ProcsTyped /\ Placed(pc[p], a, mem_full, passed) /\ UNCHANGED <<globals, memory, passed>>
  BY InvParts DEF CallPage, PageStart
<1>2. \/ Moved(p, "page", a, order[p]) \/ Moved(p, "load", a, order[p])
      \/ Moved(p, "idle", NULL, 0)
  BY <1>1, MovesTo DEF CallPage, PageStart
<1>3. /\ Placed("page", a, mem_full, passed) /\ Placed("load", a, mem_full, passed)
      /\ Placed("idle", NULL, mem_full, passed)
  BY <1>1 DEF Placed, Labels
<1>4. 0 \in 0 .. MAX_ORDER  BY MaxOrderAssumption
<1> QED  BY <1>1, <1>2, <1>3, <1>4, MovesTo, LocalStep

LEMMA PageLoadKeeps ==
    ASSUME FramesInv, NEW p \in Procs, PageLoad(p)
    PROVE  FramesInv'
<1> DEFINE a == areg[p]
<1>1. /\ ProcsTyped /\ Globals /\ Placed(pc[p], a, mem_full, passed)
      /\ UNCHANGED <<globals, memory, passed>>
  BY InvParts DEF PageLoad
<1>2. CASE next_region = NULL
  <2>1. Moved(p, "fault", a, order[p])  BY <1>1, <1>2, MovesTo DEF PageLoad
  <2>2. Placed("fault", a, mem_full, passed)  BY <1>1 DEF Placed, Labels
  <2> QED  BY <1>1, <2>1, <2>2, MovesTo, LocalStep
<1>3. CASE next_region # NULL
  <2>1. Moved(p, "test", next_region, order[p])  BY <1>1, <1>3, MovesTo DEF PageLoad
  <2>2. Placed("test", next_region, mem_full, passed)
    BY <1>1, <1>3 DEF Placed, Labels, Globals, Pointer
  <2> QED  BY <1>1, <2>1, <2>2, MovesTo, LocalStep
<1> QED  BY <1>2, <1>3

LEMMA PageTestKeeps ==
    ASSUME FramesInv, NEW p \in Procs, PageTest(p)
    PROVE  FramesInv'
<1> DEFINE a == areg[p]
<1>1. /\ ProcsTyped /\ Placed("test", a, mem_full, passed) /\ UNCHANGED <<globals, memory, passed>>
  BY InvParts DEF PageTest
<1>2. CASE mem_full[a]
  <2>1. Moved(p, "next", a, order[p])  BY <1>1, <1>2, MovesTo DEF PageTest
  <2>2. Placed("next", a, mem_full, passed)  BY <1>1, <1>2 DEF Placed, Labels
  <2> QED  BY <1>1, <2>1, <2>2, MovesTo, LocalStep
<1>3. CASE ~ mem_full[a]
  <2>1. Moved(p, "take", a, order[p])  BY <1>1, <1>3, MovesTo DEF PageTest
  <2>2. Placed("take", a, mem_full, passed)  BY <1>1, <1>3 DEF Placed, Labels
  <2> QED  BY <1>1, <2>1, <2>2, MovesTo, LocalStep
<1> QED  BY <1>2, <1>3

(* The second load: behind the region that was found full, nothing is left *)
(* that was not left before; another region is noted in the history.       *)
LEMMA PageNextKeeps ==
    ASSUME FramesInv, NEW p \in Procs, PageNext(p)
    PROVE  FramesInv'
<1> DEFINE a == areg[p]
<1>1. /\ MemoryTyped /\ OnlyUsable /\ ProcsTyped /\ Globals /\ Placed("next", a, mem_full, passed)
      /\ UNCHANGED <<next_region, outOfMem, memory, mem_full>>
  BY InvParts DEF PageNext, globals, memory
<1>2. MemoryKept  BY <1>1, SameMemory
<1>3. PICK r \in {a, next_region} :
         IF r = NULL THEN Fault(p) /\ UNCHANGED passed
         ELSE /\ Goto(p, "search") /\ Point(p, r + 1) /\ UNCHANGED order
              /\ passed' = passed \cup ({r} \ {a})
  BY DEF PageNext
<1>4. r \in Pointer /\ Cleared(r, mem_full, passed)  BY <1>1 DEF Placed, Globals
<1>5. CASE r = NULL
  <2>1. Moved(p, "fault", a, order[p]) /\ UNCHANGED passed  BY <1>1, <1>3, <1>5, MovesTo
  <2>2. Placed("fault", a, mem_full, passed)  BY <1>1 DEF Placed, Labels
  <2> QED  BY <1>1, <2>1, <2>2, MovesTo, LocalStep DEF globals
<1>6. CASE r # NULL
  <2>1. Moved(p, "search", r + 1, order[p]) /\ passed' = passed \cup ({r} \ {a})
    BY <1>1, <1>3, <1>6, MovesTo
  <2>2. r \in Regions /\ r + 1 \in Regions \cup {NULL}  BY <1>4, <1>6, RegionNumbers DEF Pointer
  <2>3. ASSUME NEW u \in Usable, u < r + 1  PROVE mem_full[u] \/ u \in passed'
    <3>1. u \in Nat /\ r \in Nat  BY <2>2, RegionNumbers, UsableRegions
    <3>2. CASE u < r  BY <1>4, <2>1, <3>2 DEF Cleared
    <3>3. CASE u = r /\ r # a  BY <2>1, <3>3
    <3>4. CASE u = r /\ r = a  BY <1>1, <3>4 DEF Placed
    <3> QED  BY <2>3, <3>1, <3>2, <3>3, <3>4
  <2>4. Placed("search", r + 1, mem_full', passed')  BY <1>1, <2>2, <2>3 DEF Placed, Cleared, Labels
  <2>5. Globals'  BY <1>1, <2>1, <2>2 DEF Globals, Cleared
  <2> QED  BY <1>1, <1>2, <2>1, <2>4, <2>5, MovesTo, OneMoves
<1> QED  BY <1>5, <1>6

LEMMA PageStoreKeeps ==
    ASSUME FramesInv, NEW p \in Procs, PageStore(p)
    PROVE  FramesInv'
<1> DEFINE a == areg[p]
<1>1. /\ MemoryTyped /\ OnlyUsable /\ Globals /\ ProcsTyped /\ Placed("store", a, mem_full, passed)
      /\ next_region' = a /\ UNCHANGED <<outOfMem, memory, passed>>
  BY InvParts DEF PageStore
<1>2. MemoryKept /\ mem_full' = mem_full  BY <1>1, SameMemory DEF memory
<1>3. Moved(p, "page", a, order[p])  BY <1>1, MovesTo DEF PageStore
<1>4. Placed("page", a, mem_full', passed')  BY <1>1 DEF Placed, Labels
<1>5. Globals'  BY <1>1, <1>2 DEF Globals, Placed
<1> QED  BY <1>1, <1>2, <1>3, <1>4, <1>5, MovesTo, OneMoves

(* Asking a region: whichever it is, the processor's or next_region. *)
LEMMA AskKeeps ==
    ASSUME FramesInv, NEW r \in Pointer, r # NULL, NEW o \in 0 .. MAX_ORDER,
           Grant(r, o) \/ Refuse(r, o)
    PROVE  MemoryKept
<1>1. r \in Regions \ Unusable  BY DEF Pointer
<1>2. MemoryTyped /\ OnlyUsable  BY InvParts
<1> QED  BY <1>1, <1>2, GrantKeeps, RefuseKeeps

LEMMA PageTakeKeeps ==
    ASSUME FramesInv, NEW p \in Procs, PageTake(p)
    PROVE  FramesInv'
<1> DEFINE a == areg[p]
<1>1. /\ MemoryTyped /\ OnlyUsable /\ Globals /\ ProcsTyped /\ Placed("take", a, mem_full, passed)
      /\ UNCHANGED <<globals, passed>>
  BY InvParts DEF PageTake
<1>2. PICK r \in {a, next_region} :
        \/ r = NULL /\ Fault(p) /\ UNCHANGED memory
        \/ r # NULL /\ (Grant(r, 0) \/ Refuse(r, 0)) /\ Return(p)
  BY DEF PageTake
<1>3. r \in Pointer /\ 0 \in 0 .. MAX_ORDER  BY <1>1, MaxOrderAssumption DEF Placed, Globals
<1>4. CASE r = NULL /\ Fault(p) /\ UNCHANGED memory
  <2>1. Moved(p, "fault", a, order[p])  BY <1>1, <1>4, MovesTo
  <2>2. Placed("fault", a, mem_full, passed)  BY <1>1 DEF Placed, Labels
  <2> QED  BY <1>1, <1>4, <2>1, <2>2, MovesTo, LocalStep
<1>5. CASE r # NULL /\ (Grant(r, 0) \/ Refuse(r, 0)) /\ Return(p)
  <2>1. Moved(p, "idle", NULL, 0)  BY <1>1, <1>5, MovesTo
  <2>2. MemoryKept  BY <1>3, <1>5, AskKeeps
  <2>3. Placed("idle", NULL, mem_full', passed')  BY DEF Placed, Labels
  <2> QED  BY <1>1, <1>3, <2>1, <2>2, <2>3, MemoryStep
<1> QED  BY <1>2, <1>4, <1>5

LEMMA CallPagesKeeps ==
    ASSUME FramesInv, NEW p \in Procs, CallPages(p)
    PROVE  FramesInv'
<1>1. /\ ProcsTyped /\ Globals /\ UNCHANGED <<globals, memory, passed>>
  BY InvParts DEF CallPages
<1>2. PICK o \in AllocOrders : order' = [order EXCEPT ![p] = o]  BY DEF CallPages
<1>3. o \in 0 .. MAX_ORDER  BY FramesAssumption
<1>4. Moved(p, "pages", next_region, o)  BY <1>2 DEF CallPages, Goto, Point, Moved
<1>5. Placed("pages", next_region, mem_full, passed)  BY <1>1 DEF Placed, Labels, Globals, Pointer
<1> QED  BY <1>1, <1>3, <1>4, <1>5, LocalStep

(* The tests of outOfMem, before the loop and in it. *)
LEMMA PagesStartKeeps ==
    ASSUME FramesInv, NEW p \in Procs, PagesStart(p) \/ PagesLoop(p) \/ PagesClear(p)
    PROVE  FramesInv'
<1> DEFINE a == areg[p]
<1>1. /\ MemoryTyped /\ OnlyUsable /\ ProcsTyped /\ Globals /\ Placed(pc[p], a, mem_full, passed)
      /\ pc[p] \in {"pages", "loop", "clear"} /\ UNCHANGED <<next_region, memory, passed>>
      /\ outOfMem' \in {outOfMem, FALSE}
  BY InvParts DEF PagesStart, PagesLoop, PagesClear, globals
<1>2. MemoryKept  BY <1>1, SameMemory
<1>3. mem_full' = mem_full /\ Globals'  BY <1>1 DEF memory, Globals, Cleared
<1>4. \/ Moved(p, "idle", NULL, 0)
      \/ pc[p] \in {"pages", "loop"} /\ \E l \in {"loop", "clear", "try"} : Moved(p, l, a, order[p])
  BY <1>1, MovesTo DEF PagesStart, PagesLoop, PagesClear
<1>5. Placed("idle", NULL, mem_full', passed')  BY DEF Placed, Labels
<1>6. ASSUME pc[p] \in {"pages", "loop"}, NEW l \in {"loop", "clear", "try"}
      PROVE  Placed(l, a, mem_full', passed')
  BY <1>1, <1>3, <1>6 DEF Placed, Labels
<1>7. 0 \in 0 .. MAX_ORDER  BY MaxOrderAssumption
<1> QED  BY <1>1, <1>2, <1>3, <1>4, <1>5, <1>6, <1>7, MovesTo, OneMoves

LEMMA PagesTryKeeps ==
    ASSUME FramesInv, NEW p \in Procs, PagesTry(p)
    PROVE  FramesInv'
<1> DEFINE a == areg[p]
           o == order[p]
<1>1. /\ MemoryTyped /\ OnlyUsable /\ Globals /\ ProcsTyped /\ Placed("try", a, mem_full, passed)
      /\ UNCHANGED <<globals, passed>>
  BY InvParts DEF PagesTry
<1>2. a \in Pointer /\ o \in 0 .. MAX_ORDER /\ 0 \in 0 .. MAX_ORDER
  BY <1>1, MaxOrderAssumption, MovesTo DEF Placed
<1>3. CASE a = NULL /\ Fault(p) /\ UNCHANGED memory
  <2>1. Moved(p, "fault", a, o)  BY <1>1, <1>3, MovesTo
  <2>2. Placed("fault", a, mem_full, passed)  BY <1>1 DEF Placed, Labels
  <2> QED  BY <1>1, <1>2, <1>3, <2>1, <2>2, LocalStep
<1>4. CASE a # NULL /\ Grant(a, o) /\ Return(p)
  <2>1. Moved(p, "idle", NULL, 0)  BY <1>1, <1>4, MovesTo
  <2>2. MemoryKept  BY <1>2, <1>4, AskKeeps
  <2>3. Placed("idle", NULL, mem_full', passed')  BY DEF Placed, Labels
  <2> QED  BY <1>1, <1>2, <2>1, <2>2, <2>3, MemoryStep
<1>5. CASE /\ a # NULL /\ Refuse(a, o)
           /\ Goto(p, "walk") /\ Point(p, a + 1) /\ UNCHANGED order
  <2>1. Moved(p, "walk", a + 1, o)  BY <1>1, <1>5, MovesTo
  <2>2. MemoryKept  BY <1>2, <1>5, AskKeeps
  <2>3. a + 1 \in Regions \cup {NULL}  BY <1>2, <1>5, RegionNumbers DEF Pointer
  <2>4. Placed("walk", a + 1, mem_full', passed')  BY <2>3 DEF Placed, Labels
  <2> QED  BY <1>1, <1>2, <2>1, <2>2, <2>4, MemoryStep
<1> QED  BY <1>3, <1>4, <1>5 DEF PagesTry

LEMMA CallFreeKeeps ==
    ASSUME FramesInv, NEW p \in Procs, CallFree(p)
    PROVE  FramesInv'
<1>1. MemoryTyped /\ OnlyUsable /\ ProcsTyped /\ UNCHANGED <<globals, passed>>
  BY InvParts DEF CallFree
<1>2. PICK b \in held :
         /\ held' = held \ {b}
         /\ free' = [free EXCEPT ![b[1]] = @ \cup Pages(b)]
         /\ mem_full' = [mem_full EXCEPT ![b[1]] = @ \/ free[b[1]] = {}]
         /\ Point(p, b[1])
  BY DEF CallFree
<1>3. MemoryKept /\ b[1] \in Regions \ Unusable  BY <1>1, <1>2, FreeKeeps
<1>4. Goto(p, "freed") /\ UNCHANGED order  BY DEF CallFree
<1>5. Moved(p, "freed", b[1], order[p])  BY <1>1, <1>2, <1>4, MovesTo
<1>6. Placed("freed", b[1], mem_full', passed')  BY <1>3 DEF Placed, Labels, Pointer
<1> QED  BY <1>1, <1>3, <1>5, <1>6, MovesTo, MemoryStep

(* The comparison of free_page, and the store that it decides: what is in   *)
(* front of a region that was in front of next_region stays as it is.       *)
LEMMA FreeTestKeeps ==
    ASSUME FramesInv, NEW p \in Procs, FreeTest(p)
    PROVE  FramesInv'
<1> DEFINE a == areg[p]
<1>1. /\ Globals /\ ProcsTyped /\ Placed("freed", a, mem_full, passed)
      /\ UNCHANGED <<globals, memory, passed>>
  BY InvParts DEF FreeTest
<1>2. \/ Moved(p, "fault", a, order[p]) \/ Moved(p, "moved", a, order[p])
      \/ a < next_region /\ Moved(p, "move", a, order[p])
  BY <1>1, MovesTo DEF FreeTest
<1>3. Placed("fault", a, mem_full, passed) /\ Placed("moved", a, mem_full, passed)
  BY <1>1 DEF Placed, Labels
<1>4. ASSUME a < next_region  PROVE Placed("move", a, mem_full, passed)
  <2>1. ASSUME NEW r \in Usable, r < a  PROVE mem_full[r] \/ r \in passed
    <3>1. r \in Nat /\ a \in Nat /\ next_region \in Nat
      BY <1>1, RegionNumbers, UsableRegions DEF Pointer, Globals, Placed
    <3>2. r < next_region  BY <1>4, <2>1, <3>1
    <3> QED  BY <1>1, <3>2 DEF Globals, Cleared
  <2> QED  BY <1>1, <2>1 DEF Placed, Cleared, Labels
<1> QED  BY <1>1, <1>2, <1>3, <1>4, MovesTo, LocalStep

LEMMA FreeMoveKeeps ==
    ASSUME FramesInv, NEW p \in Procs, FreeMove(p)
    PROVE  FramesInv'
<1> DEFINE a == areg[p]
<1>1. /\ MemoryTyped /\ OnlyUsable /\ Globals /\ ProcsTyped /\ Placed("move", a, mem_full, passed)
      /\ next_region' = a /\ UNCHANGED <<outOfMem, memory, passed>>
  BY InvParts DEF FreeMove
<1>2. MemoryKept /\ mem_full' = mem_full  BY <1>1, SameMemory DEF memory
<1>3. Moved(p, "moved", a, order[p])  BY <1>1, MovesTo DEF FreeMove
<1>4. Placed("moved", a, mem_full', passed')  BY <1>1 DEF Placed, Labels
<1>5. Globals'  BY <1>1, <1>2 DEF Globals, Placed
<1> QED  BY <1>1, <1>2, <1>3, <1>4, <1>5, MovesTo, OneMoves

LEMMA FreeEndKeeps ==
    ASSUME FramesInv, NEW p \in Procs, FreeEnd(p)
    PROVE  FramesInv'
<1>1. /\ MemoryTyped /\ OnlyUsable /\ Globals /\ ProcsTyped
      /\ outOfMem' = FALSE /\ UNCHANGED <<next_region, memory, passed>>
  BY InvParts DEF FreeEnd
<1>2. MemoryKept /\ mem_full' = mem_full  BY <1>1, SameMemory DEF memory
<1>3. Moved(p, "idle", NULL, 0)  BY <1>1, MovesTo DEF FreeEnd
<1>4. Placed("idle", NULL, mem_full', passed')  BY DEF Placed, Labels
<1>5. Globals'  BY <1>1, <1>2 DEF Globals, Cleared
<1>6. 0 \in 0 .. MAX_ORDER  BY MaxOrderAssumption
<1> QED  BY <1>1, <1>2, <1>3, <1>4, <1>5, <1>6, OneMoves

-----------------------------------------------------------------------------
(* The state that ppage_init leaves. *)
LEMMA InitHolds == Init => FramesInv
<1> SUFFICES ASSUME Init PROVE FramesInv  OBVIOUS
<1>1. MemoryTyped
  <2>1. \A r \in Regions : Sizes[r] \in Nat  BY FramesAssumption DEF Regions
  <2>2. free \in [Regions -> SUBSET Nat]  BY <2>1 DEF Init
  <2> QED  BY <2>2 DEF Init, MemoryTyped
<1>2. OnlyUsable  BY DEF Init, OnlyUsable
<1>3. Globals
  <2>1. CASE Usable = {}
    BY <2>1 DEF Init, Globals, Pointer, Cleared
  <2>2. CASE Usable # {}
    <3>1. next_region = Min(Usable)  BY <2>2 DEF Init
    <3>2. next_region \in Usable /\ \A r \in Usable : next_region <= r
      BY <2>2, <3>1, FirstUsable
    <3>3. next_region \in Pointer  BY <3>2, UsableRegions DEF Pointer
    <3>4. ASSUME NEW r \in Usable, r < next_region  PROVE FALSE
      BY <3>2, <3>4, UsableRegions, RegionNumbers
    <3> QED  BY <2>2, <3>3, <3>4 DEF Init, Globals, Cleared
  <2> QED  BY <2>1, <2>2
<1>4. ProcsTyped  BY MaxOrderAssumption DEF Init, ProcsTyped, Labels
<1>5. \A p \in Procs : Placed(pc[p], areg[p], mem_full, passed)  BY DEF Init, Placed, Labels
<1> QED  BY <1>1, <1>2, <1>3, <1>4, <1>5, InvFromParts

LEMMA NextKeeps == FramesInv /\ [Next]_vars => FramesInv'
<1> SUFFICES ASSUME FramesInv, [Next]_vars PROVE FramesInv'  OBVIOUS
<1>1. CASE UNCHANGED vars
  BY <1>1 DEF vars, FramesInv, TypeOK, NoRegionSkipped, Behind, OnlyUsable, PointersUsable, Loaded
<1>2. ASSUME NEW p \in Procs, CallPage(p) \/ PageStart(p)  PROVE FramesInv'
  BY <1>2, CallPageKeeps
<1>3. ASSUME NEW p \in Procs, PageLoad(p) \/ PageTest(p) \/ PageNext(p)  PROVE FramesInv'
  BY <1>3, PageLoadKeeps, PageTestKeeps, PageNextKeeps
<1>4. ASSUME NEW p \in Procs, PageSearch(p)  PROVE FramesInv'
  BY <1>4, SearchKeeps DEF PageSearch
<1>5. ASSUME NEW p \in Procs, PageStore(p)  PROVE FramesInv'  BY <1>5, PageStoreKeeps
<1>6. ASSUME NEW p \in Procs, PageTake(p)  PROVE FramesInv'  BY <1>6, PageTakeKeeps
<1>7. ASSUME NEW p \in Procs, CallPages(p)  PROVE FramesInv'  BY <1>7, CallPagesKeeps
<1>8. ASSUME NEW p \in Procs, PagesStart(p) \/ PagesLoop(p) \/ PagesClear(p)  PROVE FramesInv'
  BY <1>8, PagesStartKeeps
<1>9. ASSUME NEW p \in Procs, PagesTry(p)  PROVE FramesInv'  BY <1>9, PagesTryKeeps
<1>10. ASSUME NEW p \in Procs, PagesWalk(p)  PROVE FramesInv'
  BY <1>10, SearchKeeps DEF PagesWalk
<1>11. ASSUME NEW p \in Procs, CallFree(p)  PROVE FramesInv'  BY <1>11, CallFreeKeeps
<1>12. ASSUME NEW p \in Procs, FreeTest(p) \/ FreeMove(p)  PROVE FramesInv'
  BY <1>12, FreeTestKeeps, FreeMoveKeeps
<1>13. ASSUME NEW p \in Procs, FreeEnd(p)  PROVE FramesInv'  BY <1>13, FreeEndKeeps
<1> QED
  BY <1>1, <1>2, <1>3, <1>4, <1>5, <1>6, <1>7, <1>8, <1>9, <1>10, <1>11, <1>12, <1>13
  DEF Next, Step, AllocPage, AllocPages, Free

-----------------------------------------------------------------------------
(* The inductive invariant: types, and that every pointer a call goes on    *)
(* with names a usable region (page.c:86-176).                              *)
THEOREM FramesInvAlways == Spec => []FramesInv
BY InitHolds, NextKeeps, PTL DEF Spec

(* A region with room is left behind only by the two loads of next_region   *)
(* in alloc_page (page.c:128-129); what else is in front of next_region is  *)
(* full, however many calls store results, and regions, that are old.       *)
THEOREM NoRegionSkippedAlways == Spec => []NoRegionSkipped
<1>1. FramesInv => NoRegionSkipped  BY DEF FramesInv
<1> QED  BY <1>1, FramesInvAlways, PTL

(* One processor without handlers that allocate loads next_region twice and *)
(* finds the same: all that is in front of next_region is full (page.c:123). *)
Alone(p) ==
    /\ Procs = {p} /\ passed = {}
    /\ pc[p] \in {"test", "next"} => areg[p] = next_region

LEMMA AloneKept ==
    ASSUME NEW p, FramesInv, Alone(p), [Next]_vars
    PROVE  Alone(p)'
<1>1. CASE UNCHANGED vars  BY <1>1 DEF vars, Alone
<1>2. CASE Next
  <2>1. ProcsTyped /\ p \in Procs  BY InvParts DEF Alone
  <2>2. PageNext(p) => passed' = {} /\ pc' = [pc EXCEPT ![p] = pc'[p]] /\ pc'[p] \in {"search", "fault"}
    BY <2>1 DEF Alone, PageNext, Goto, Fault, ProcsTyped
  <2>3. PageLoad(p) => /\ UNCHANGED <<passed, next_region>>
                       /\ pc'[p] \in {"test", "next"} => areg'[p] = next_region
    BY <2>1 DEF PageLoad, Fault, Goto, Point, globals, ProcsTyped
  <2>4. PageTest(p) => UNCHANGED <<passed, next_region, areg>> /\ pc[p] = "test"
    BY DEF PageTest, globals
  <2>5. ~ (PageNext(p) \/ PageLoad(p) \/ PageTest(p)) => UNCHANGED passed /\ pc'[p] \notin {"test", "next"}
    <3>1. CallPage(p) \/ PageStart(p) \/ PageSearch(p) \/ PageStore(p) \/ PageTake(p)
            => UNCHANGED passed /\ pc'[p] \notin {"test", "next"}
      BY <2>1 DEF CallPage, PageStart, PageSearch, PageStore, PageTake, findFreeRegion, Goto, Fault,
             Return, ProcsTyped
    <3>2. CallPages(p) \/ AllocPages(p) => UNCHANGED passed /\ pc'[p] \notin {"test", "next"}
      BY <2>1 DEF CallPages, AllocPages, PagesStart, PagesLoop, PagesClear, PagesTry, PagesWalk,
             findFreeRegion, Goto, Fault, Return, ProcsTyped
    <3>3. CallFree(p) \/ Free(p) => UNCHANGED passed /\ pc'[p] \notin {"test", "next"}
      BY <2>1 DEF CallFree, Free, FreeTest, FreeMove, FreeEnd, Goto, Fault, Return, ProcsTyped
    <3> QED  BY <1>2, <2>1, <3>1, <3>2, <3>3 DEF Next, Step, AllocPage, Alone
  <2>6. CASE PageNext(p)  BY <2>2, <2>6 DEF Alone
  <2>7. CASE PageLoad(p)  BY <2>3, <2>7 DEF Alone
  <2>8. CASE PageTest(p)  BY <2>4, <2>8 DEF Alone
  <2>9. CASE ~ (PageNext(p) \/ PageLoad(p) \/ PageTest(p))  BY <2>5, <2>9 DEF Alone
  <2> QED  BY <2>6, <2>7, <2>8, <2>9
<1> QED  BY <1>1, <1>2

THEOREM NothingBehindAlone ==
    ASSUME NEW p, Procs = {p}
    PROVE  Spec => [](Behind(next_region) = {})
<1>1. Init => Alone(p)  BY DEF Init, Alone
<1>2. FramesInv /\ Alone(p) /\ [Next]_vars => Alone(p)'  BY AloneKept
<1>3. FramesInv /\ Alone(p) => Behind(next_region) = {}  BY DEF FramesInv, NoRegionSkipped, Alone
<1> QED  BY <1>1, <1>2, <1>3, FramesInvAlways, PTL DEF Spec

(* Memory that is reserved, bad or in use is never given out, by either     *)
(* function (findNextRegion, page.c:86-98).                                 *)
THEOREM OnlyUsableAlways == Spec => []OnlyUsable
<1>1. FramesInv => OnlyUsable  BY DEF FramesInv
<1> QED  BY <1>1, FramesInvAlways, PTL
=============================================================================
