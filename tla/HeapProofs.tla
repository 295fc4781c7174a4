----------------------------- MODULE HeapProofs -----------------------------
(***************************************************************************)
(* Proofs about the heap, for every size of pages, headers and pointers,   *)
(* every place of the heap and of the early stack, and every set of        *)
(* requests, as long as no interrupt handler calls kmalloc: with one, two  *)
(* calls may take the same pointer, and size_max may be stored when it is  *)
(* out of date.                                                            *)
(***************************************************************************)
EXTENDS Heap, SequenceTheorems, WellFoundedInduction, TLAPS

(* The constants are positive numbers, and the areas lie in this order. *)
LEMMA Sizes ==
    /\ HDR \in Nat \ {0} /\ PTR \in Nat \ {0} /\ PAGE \in Nat \ {0} /\ WORD \in Nat \ {0}
    /\ StackStart \in Nat /\ StackEnd \in Nat /\ HeapStart \in Nat /\ HeapEnd \in Nat
    /\ HDR + PTR < PAGE /\ StackStart < StackEnd /\ StackEnd <= HeapStart
    /\ HeapStart + PAGE <= HeapEnd /\ HeapEnd < WORD
    /\ Requests \subseteq Nat \ {0}
BY HeapAssumption

USE Sizes

-----------------------------------------------------------------------------
(* The least element of a set of numbers. *)
LEMMA MinOf ==
    ASSUME NEW S \in SUBSET Nat, S # {}
    PROVE  Min(S) \in S /\ \A x \in S : Min(S) <= x
<1> SUFFICES \E m \in S : \A x \in S : m <= x  BY DEF Min
<1>1. PICK m \in S : \A x \in S : ~ (<<x, m>> \in OpToRel(<, Nat))
  BY NatLessThanWellFounded, WFMin
<1>2. ASSUME NEW x \in S  PROVE  m <= x
  <2>1. ~ (<<x, m>> \in OpToRel(<, Nat))  BY <1>1
  <2> QED  BY <2>1 DEF OpToRel
<1> QED  BY <1>2

(* The greatest one, of a set with a bound: one below the least bound is none. *)
LEMMA MaxOf ==
    ASSUME NEW S \in SUBSET Nat, S # {}, NEW n \in Nat, \A x \in S : x <= n
    PROVE  Max(S) \in S /\ \A x \in S : x <= Max(S)
<1> DEFINE Bounds == {k \in Nat : \A x \in S : x <= k}
<1>1. Min(Bounds) \in Bounds /\ \A k \in Bounds : Min(Bounds) <= k
  <2>1. n \in Bounds  OBVIOUS
  <2> HIDE DEF Bounds
  <2>2. Bounds \in SUBSET Nat  BY DEF Bounds
  <2> QED  BY <2>1, <2>2, MinOf
<1>2. PICK m \in Nat : m = Min(Bounds)  BY <1>1
<1>3. /\ \A x \in S : x <= m
      /\ \A k \in Nat : (\A x \in S : x <= k) => m <= k
  BY <1>1, <1>2
<1>4. m \in S
  <2> SUFFICES ASSUME m \notin S  PROVE FALSE  OBVIOUS
  <2>1. \A x \in S : x \in Nat /\ x < m  BY <1>3
  <2>2. PICK y \in S : y \in Nat /\ y < m  BY <2>1
  <2>3. m - 1 \in Nat /\ \A x \in S : x <= m - 1  BY <2>1, <2>2
  <2> QED  BY <1>3, <2>3
<1>5. \E y \in S : \A x \in S : y >= x  BY <1>3, <1>4
<1>6. \A y \in S : (\A x \in S : y >= x) => y = m  BY <1>3, <1>4
<1> QED  BY <1>3, <1>5, <1>6 DEF Max

(* findSize_max finds a number. *)
LEMMA SizeMaxTyped ==
    ASSUME NEW ptrs \in Seq(PointerType)
    PROVE  findSize_max(ptrs) \in Nat
<1> DEFINE S == {0} \cup {ptrs[i].size : i \in DOMAIN ptrs}
<1>1. \A i \in DOMAIN ptrs : ptrs[i].size \in 0 .. WORD - 1
  <2> TAKE i \in DOMAIN ptrs
  <2>1. ptrs[i] \in PointerType  OBVIOUS
  <2> QED  BY <2>1 DEF PointerType
<1>2. S \in SUBSET Nat /\ S # {} /\ \A x \in S : x <= WORD  BY <1>1
<1> HIDE DEF S
<1>3. Max(S) \in S  BY <1>2, MaxOf
<1> QED  BY <1>2, <1>3 DEF findSize_max, S

(* Of the orders that occur, log_order finds one with enough pages. *)
LEMMA OrderFits ==
    ASSUME NEW n \in Nat \ {0}, n <= ORDER(MAX_ORDER - 1)
    PROVE  ORDER(log_order(n)) \in Nat /\ n <= ORDER(log_order(n))
<1> DEFINE Fits(o) == n <= ORDER(o) /\ \A l \in 0 .. o - 1 : ORDER(l) < n
<1>1. n <= 512  BY MaxOrderAssumption DEF ORDER
<1>2. \E o \in 0 .. 9 : o <= n /\ Fits(o)
  <2>1. CASE n <= 1  BY <2>1 DEF ORDER
  <2>2. CASE n > 1 /\ n <= 2  BY <2>2 DEF ORDER
  <2>3. CASE n > 2 /\ n <= 4  BY <2>3 DEF ORDER
  <2>4. CASE n > 4 /\ n <= 8  BY <2>4 DEF ORDER
  <2>5. CASE n > 8 /\ n <= 16  BY <2>5 DEF ORDER
  <2>6. CASE n > 16 /\ n <= 32  BY <2>6 DEF ORDER
  <2>7. CASE n > 32 /\ n <= 64  BY <2>7 DEF ORDER
  <2>8. CASE n > 64 /\ n <= 128  BY <2>8 DEF ORDER
  <2>9. CASE n > 128 /\ n <= 256  BY <2>9 DEF ORDER
  <2>10. CASE n > 256  BY <1>1, <2>10 DEF ORDER
  <2> QED  BY <2>1, <2>2, <2>3, <2>4, <2>5, <2>6, <2>7, <2>8, <2>9, <2>10
<1>3. PICK o \in 0 .. 9 : o <= n /\ Fits(o)  BY <1>2
<1>4. ORDER(o) \in Nat  BY DEF ORDER
<1>5. \A q \in 0 .. n : Fits(q) => q = o
  <2> TAKE q \in 0 .. n
  <2> HAVE Fits(q)
  <2>1. CASE q < o
    <3>1. q \in 0 .. o - 1  BY <2>1
    <3>2. ORDER(q) < n /\ n <= ORDER(q)  BY <1>3, <3>1
    <3>3. ORDER(q) \in Nat  BY <2>1 DEF ORDER
    <3> QED  BY <3>2, <3>3
  <2>2. CASE q > o
    <3>1. o \in 0 .. q - 1  BY <2>2
    <3>2. ORDER(o) < n /\ n <= ORDER(o)  BY <1>3, <3>1
    <3> QED  BY <1>4, <3>2
  <2> QED  BY <2>1, <2>2
<1>6. log_order(n) = o
  <2>1. o \in 0 .. n  BY <1>3
  <2> HIDE DEF Fits
  <2>2. log_order(n) = CHOOSE q \in 0 .. n : Fits(q)  BY DEF log_order, Fits
  <2> QED  BY <1>3, <1>5, <2>1, <2>2
<1> QED  BY <1>3, <1>4, <1>6

(* A new header's pages have room for it, its pointer and the request. *)
LEMMA GrowFits ==
    ASSUME NEW b \in Nat \ {0}, PagesFor(b) <= ORDER(MAX_ORDER - 1)
    PROVE  GrowBy(b) \in Nat /\ b + HDR + PTR <= GrowBy(b)
<1>1. PICK n \in Nat : n = b + HDR + PTR  OBVIOUS
<1>2. /\ PagesFor(b) \in Nat \ {0}
      /\ n <= PAGE * PagesFor(b)
  BY <1>1 DEF PagesFor
<1>3. PICK k \in Nat : k = ORDER(log_order(PagesFor(b)))  BY <1>2, OrderFits
<1>4. PagesFor(b) <= k  BY <1>2, <1>3, OrderFits
<1>5. PICK m \in Nat : m = PagesFor(b)  BY <1>2
<1>6. PAGE * k \in Nat /\ PAGE * m <= PAGE * k  BY <1>4, <1>5
<1> QED  BY <1>1, <1>2, <1>3, <1>5, <1>6 DEF GrowBy

-----------------------------------------------------------------------------
(* A sequence with an element more, behind the one at i. *)
WithBehind(t, s, i, e) ==
    /\ Len(t) = Len(s) + 1
    /\ \A j \in 1 .. Len(s) + 1 :
          t[j] = IF j <= i THEN s[j] ELSE IF j = i + 1 THEN e ELSE s[j - 1]

LEMMA Inserted ==
    ASSUME NEW S, NEW s \in Seq(S), NEW i \in 1 .. Len(s), NEW e \in S
    PROVE  /\ InsertAt(s, i + 1, e) \in Seq(S)
           /\ WithBehind(InsertAt(s, i + 1, e), s, i, e)
<1> DEFINE a == SubSeq(s, 1, i)
           z == SubSeq(s, i + 1, Len(s))
<1>1. /\ a \in Seq(S) /\ Len(a) = i /\ \A j \in 1 .. i : a[j] = s[j]
      /\ z \in Seq(S) /\ Len(z) = Len(s) - i /\ \A j \in 1 .. Len(s) - i : z[j] = s[i + j]
  OBVIOUS
<1>0. Len(s) \in Nat  OBVIOUS
<1>2. InsertAt(s, i + 1, e) = a \o <<e>> \o z
  <2>1. (i + 1) - 1 = i  OBVIOUS
  <2> QED  BY <2>1 DEF InsertAt
<1> HIDE DEF a, z
<1>3. /\ a \o <<e>> \in Seq(S) /\ Len(a \o <<e>>) = i + 1
      /\ \A j \in 1 .. i + 1 : (a \o <<e>>)[j] = IF j <= i THEN s[j] ELSE e
  BY <1>1
<1> DEFINE f == a \o <<e>>
<1> HIDE DEF f
<1>4. /\ f \o z \in Seq(S) /\ Len(f \o z) = Len(s) + 1
      /\ \A j \in 1 .. Len(s) + 1 : (f \o z)[j] = IF j <= i + 1 THEN f[j] ELSE z[j - (i + 1)]
  BY <1>1, <1>3 DEF f
<1>5. InsertAt(s, i + 1, e) = f \o z  BY <1>2 DEF f
<1>6. ASSUME NEW j \in 1 .. Len(s) + 1
      PROVE  (f \o z)[j] = IF j <= i THEN s[j] ELSE IF j = i + 1 THEN e ELSE s[j - 1]
  <2>1. CASE j <= i + 1  BY <1>3, <1>4, <2>1 DEF f
  <2>2. CASE j > i + 1
    <3>1. j - (i + 1) \in 1 .. Len(s) - i  BY <2>2
    <3>2. z[j - (i + 1)] = s[i + (j - (i + 1))]  BY <1>1, <3>1
    <3>3. i + (j - (i + 1)) = j - 1  OBVIOUS
    <3>4. j \in Nat /\ ~ (j <= i) /\ j # i + 1  BY <1>0, <2>2
    <3>5. (f \o z)[j] = z[j - (i + 1)]  BY <1>4, <2>2, <3>4
    <3> QED  BY <3>2, <3>3, <3>4, <3>5
  <2>3. j <= i + 1 \/ j > i + 1  BY <1>0
  <2> QED  BY <2>1, <2>2, <2>3
<1> DEFINE t == InsertAt(s, i + 1, e)
<1> HIDE DEF t
<1>7. /\ t \in Seq(S) /\ Len(t) = Len(s) + 1
      /\ \A j \in 1 .. Len(s) + 1 :
            t[j] = IF j <= i THEN s[j] ELSE IF j = i + 1 THEN e ELSE s[j - 1]
  <2>1. t = f \o z  BY <1>5 DEF t
  <2>2. t \in Seq(S) /\ Len(t) = Len(s) + 1  BY <1>4, <2>1
  <2> QED  BY <1>6, <2>1, <2>2
<1> QED  BY <1>7 DEF t, WithBehind

(***************************************************************************)
(* What Split makes of the pointers: the one it takes has no room left,    *)
(* and a new one may follow it.                                            *)
(***************************************************************************)
Taken(r, a) == IF r.at = a THEN Pointer(a, 0) ELSE r

Left(ptrs, i, b) == (ptrs[i].size - b) % WORD

Same(ptrs, q, a) ==
    Len(q) = Len(ptrs) /\ \A k \in 1 .. Len(ptrs) : q[k] = Taken(ptrs[k], a)

Parted(ptrs, q, i, a, b) ==
    /\ Len(q) = Len(ptrs) + 1
    /\ \A k \in 1 .. i : q[k] = Taken(ptrs[k], a)
    /\ q[i + 1] = Pointer(a + PTR + b, Left(ptrs, i, b) - PTR)
    /\ \A k \in i + 1 .. Len(ptrs) : q[k + 1] = Taken(ptrs[k], a)

LEMMA RemainderTyped == \A n \in Int : n % WORD \in 0 .. WORD - 1
OBVIOUS

LEMMA PointerTyped ==
    ASSUME NEW r \in PointerType, NEW a \in Nat
    PROVE  /\ r.at \in Nat /\ r.size \in Nat /\ r.size < WORD
           /\ Taken(r, a) \in PointerType /\ Taken(r, a).at = r.at
           /\ Taken(r, a).size = IF r.at = a THEN 0 ELSE r.size
BY DEF PointerType, Taken, Pointer

LEMMA SplitPointers ==
    ASSUME NEW hd, hd.pointers \in Seq(PointerType), NEW a \in Nat, NEW b \in Nat \ {0},
           NEW i, i = IndexOf(hd, a), i \in DOMAIN hd.pointers, hd.pointers[i].at = a,
           NEW q, q = Allocated(hd, Divide(hd, a, b), a)
    PROVE  /\ q \in Seq(PointerType)
           /\ \/ Left(hd.pointers, i, b) <= PTR /\ Same(hd.pointers, q, a)
              \/ Left(hd.pointers, i, b) > PTR /\ Parted(hd.pointers, q, i, a, b)
<1> DEFINE ptrs == hd.pointers
           left == Left(ptrs, i, b)
           new == Pointer(a + PTR + b, left - PTR)
<1>1. ptrs \in Seq(PointerType) /\ Len(ptrs) \in Nat /\ DOMAIN ptrs = 1 .. Len(ptrs)
      /\ i \in 1 .. Len(ptrs)
  OBVIOUS
<1>2. left \in 0 .. WORD - 1
  <2>1. ptrs[i] \in PointerType  BY <1>1
  <2>2. ptrs[i].size \in Nat  BY <2>1, PointerTyped
  <2>3. ptrs[i].size - b \in Int  BY <2>2
  <2> QED  BY <2>3, RemainderTyped DEF Left
<1>3. Divide(hd, a, b) = IF left <= PTR THEN ptrs ELSE InsertAt(ptrs, i + 1, new)
  BY DEF Divide, Left
<1> HIDE DEF ptrs, left, new
<1>4. ASSUME NEW d \in Seq(PointerType), d = Divide(hd, a, b)
      PROVE  /\ q \in Seq(PointerType) /\ Len(q) = Len(d)
             /\ \A k \in 1 .. Len(d) : q[k] = Taken(d[k], a)
  <2>1. DOMAIN d = 1 .. Len(d) /\ Len(d) \in Nat  OBVIOUS
  <2>2. q = [k \in 1 .. Len(d) |-> Taken(d[k], a)]  BY <1>4, <2>1 DEF Allocated, Taken
  <2>3. \A k \in 1 .. Len(d) : Taken(d[k], a) \in PointerType
    <3> TAKE k \in 1 .. Len(d)
    <3>1. d[k] \in PointerType  OBVIOUS
    <3> QED  BY <3>1, PointerTyped
  <2> QED  BY <2>1, <2>2, <2>3
<1>5. CASE left <= PTR
  <2>1. Divide(hd, a, b) = ptrs  BY <1>3, <1>5
  <2> QED  BY <1>1, <1>4, <1>5, <2>1 DEF Same, ptrs, left
<1>6. CASE left > PTR
  <2>0. new \in PointerType
    <3>1. a + PTR + b \in Nat /\ left - PTR \in 0 .. WORD - 1  BY <1>2, <1>6
    <3> QED  BY <3>1 DEF new, Pointer, PointerType
  <2>1. PICK d \in Seq(PointerType) : d = InsertAt(ptrs, i + 1, new)
    BY <1>1, <2>0, Inserted
  <2>2. /\ Len(d) = Len(ptrs) + 1
        /\ \A k \in 1 .. Len(ptrs) + 1 :
              d[k] = IF k <= i THEN ptrs[k] ELSE IF k = i + 1 THEN new ELSE ptrs[k - 1]
    <3>1. WithBehind(d, ptrs, i, new)  BY <1>1, <2>0, <2>1, Inserted
    <3> QED  BY <3>1 DEF WithBehind
  <2>3. d = Divide(hd, a, b)  BY <1>2, <1>3, <1>6, <2>1
  <2>4. /\ q \in Seq(PointerType) /\ Len(q) = Len(ptrs) + 1
        /\ \A k \in 1 .. Len(ptrs) + 1 : q[k] = Taken(d[k], a)
    BY <1>4, <2>2, <2>3
  <2>5. \A k \in 1 .. i : q[k] = Taken(ptrs[k], a)
    BY <1>1, <2>2, <2>4
  <2>6. q[i + 1] = new
    <3>1. q[i + 1] = Taken(new, a)  BY <1>1, <2>2, <2>4
    <3> QED  BY <3>1 DEF Taken, Pointer, new
  <2>7. \A k \in i + 1 .. Len(ptrs) : q[k + 1] = Taken(ptrs[k], a)
    <3> TAKE k \in i + 1 .. Len(ptrs)
    <3>1. k + 1 \in 1 .. Len(ptrs) + 1 /\ ~ (k + 1 <= i) /\ k + 1 # i + 1 /\ (k + 1) - 1 = k
      BY <1>1
    <3>2. d[k + 1] = ptrs[k]  BY <2>2, <3>1
    <3> QED  BY <2>4, <3>1, <3>2
  <2> QED  BY <1>6, <2>4, <2>5, <2>6, <2>7 DEF Parted, ptrs, left, new
<1>7. left <= PTR \/ left > PTR  BY <1>2
<1> QED  BY <1>5, <1>6, <1>7

-----------------------------------------------------------------------------
(***************************************************************************)
(* HeapInv, as long as no handler calls kmalloc.                           *)
(***************************************************************************)
LEMMA MainOnly == ~ Nested => Contexts = {"main"}
BY DEF Contexts

LEMMA ContextsAre == "main" \in Contexts /\ \A c \in Contexts : c \in {"main", "irq"}
BY DEF Contexts

LEMMA InitHolds == Init => HeapInv
<1> SUFFICES ASSUME Init  PROVE HeapInv  OBVIOUS
<1>1. headers = <<>> /\ <<>> \in Seq(HeaderType) /\ DOMAIN headers = {}
  BY DEF Init
<1>2. HeapTypes  BY <1>1 DEF Init, HeapTypes, Labels
<1>3. \A c \in Contexts : InPlace(c)  BY DEF Init, InPlace
<1>4. Above  BY <1>1 DEF Init, Above
<1>5. SizeMaxKept  BY <1>1 DEF SizeMaxKept
<1> QED  BY <1>2, <1>3, <1>4, <1>5 DEF HeapInv

(* A step of one context, which is in kmalloc or begins to be. *)
Moves(c) ==
    /\ pc' \in [Contexts -> Labels] /\ bytes' \in [Contexts -> Nat]
    /\ h' \in [Contexts -> Nat] /\ p' \in [Contexts -> Nat] /\ max' \in [Contexts -> Nat]
    /\ \A d \in Contexts \ {c} :
          /\ pc'[d] = pc[d] /\ bytes'[d] = bytes[d] /\ h'[d] = h[d] /\ p'[d] = p[d]
          /\ max'[d] = max[d]

LEMMA ReturnMoves ==
    ASSUME HeapTypes, NEW c \in Contexts, Return(c)
    PROVE  Moves(c) /\ pc'[c] = "idle" /\ h'[c] = 0
BY DEF HeapTypes, Return, Goto, Moves, Labels

LEMMA FaultMoves ==
    ASSUME HeapTypes, NEW c \in Contexts, Fault(c)
    PROVE  Moves(c) /\ pc'[c] = "fault" /\ h'[c] = h[c]
BY DEF HeapTypes, Fault, Goto, Moves, Labels

(* What a context knows stays true while the headers do. *)
LEMMA OthersInPlace ==
    ASSUME HeapInv, NEW c \in Contexts, Moves(c), InPlace(c)',
           UNCHANGED <<headers, MMU_enabled>>
    PROVE  \A d \in Contexts : InPlace(d)'
<1> TAKE d \in Contexts
<1>1. InPlace(d)  BY DEF HeapInv
<1> QED  BY <1>1 DEF Moves, InPlace

LEMMA IdleInPlace ==
    ASSUME NEW c \in Contexts, pc'[c] \in {"idle", "fault"}, pc'[c] = "idle" => h'[c] = 0,
           pc'[c] = "fault" => MMU_enabled'
    PROVE  InPlace(c)'
BY DEF InPlace

LEMMA MoveSizeMax ==
    ASSUME HeapInv, NEW c \in Contexts, Moves(c), UNCHANGED headers,
           h[c] = 0 \/ pc[c] = "grow" \/ (h'[c] = h[c] /\ pc'[c] # "grow")
    PROVE  SizeMaxKept'
<1> SUFFICES ASSUME NEW i \in DOMAIN headers, \A d \in Contexts : h'[d] = i => pc'[d] = "grow"
             PROVE  headers[i].size_max = findSize_max(headers[i].pointers)
  BY DEF SizeMaxKept
<1>1. i # 0  BY DEF HeapInv, HeapTypes
<1>2. \A d \in Contexts : h[d] = i => pc[d] = "grow"  BY <1>1 DEF Moves
<1> QED  BY <1>2 DEF HeapInv, SizeMaxKept

(* A step that only moves its context. *)
LEMMA MoveKeeps ==
    ASSUME HeapInv, NEW c \in Contexts, Moves(c), InPlace(c)',
           UNCHANGED <<system, headers, brk, held>>,
           h[c] = 0 \/ pc[c] = "grow" \/ (h'[c] = h[c] /\ pc'[c] # "grow")
    PROVE  HeapInv'
<1>1. HeapTypes'  BY DEF HeapInv, HeapTypes, Moves, system
<1>2. Above'  BY DEF HeapInv, Above, system
<1> QED  BY <1>1, <1>2, OthersInPlace, MoveSizeMax DEF HeapInv, system

LEMMA CallKeeps ==
    ASSUME HeapInv, NEW c \in Contexts, Call(c)
    PROVE  HeapInv'
<1>1. HeapTypes  BY DEF HeapInv
<1>2. Moves(c) /\ pc'[c] = "header" /\ h'[c] = h[c] /\ bytes'[c] \in Requests
  BY <1>1 DEF HeapTypes, Moves, Call, Goto, Labels
<1>3. h[c] = 0  BY DEF HeapInv, InPlace, Call
<1>4. InPlace(c)'  BY <1>2, <1>3 DEF InPlace
<1> QED  BY <1>2, <1>3, <1>4, MoveKeeps DEF Call

LEMMA FindHeaderKeeps ==
    ASSUME HeapInv, NEW c \in Contexts, FindHeader(c)
    PROVE  HeapInv'
<1> DEFINE fit == {i \in DOMAIN headers : headers[i].size_max >= bytes[c]}
<1>1. HeapTypes /\ InPlace(c)  BY DEF HeapInv
<1>2. headers \in Seq(HeaderType) /\ Len(headers) \in Nat /\ DOMAIN headers = 1 .. Len(headers)
  BY <1>1 DEF HeapTypes
<1>3. /\ Moves(c) /\ bytes'[c] \in Requests
      /\ \/ pc'[c] = "grow" /\ h'[c] = Len(headers)
         \/ pc'[c] = "pointer" /\ h'[c] \in DOMAIN headers
  <2>1. CASE fit = {}
    <3>1. pc' = [pc EXCEPT ![c] = "grow"] /\ h' = [h EXCEPT ![c] = Len(headers)]
      BY <2>1 DEF FindHeader, Goto
    <3> QED  BY <1>1, <1>2, <3>1 DEF HeapTypes, InPlace, FindHeader, Moves, Labels
  <2>2. CASE fit # {}
    <3>1. pc' = [pc EXCEPT ![c] = "pointer"] /\ h' = [h EXCEPT ![c] = Min(fit)]
      BY <2>2 DEF FindHeader, Goto
    <3>2. Min(fit) \in fit
      <4>1. fit \in SUBSET Nat  BY <1>2
      <4> HIDE DEF fit
      <4> QED  BY <2>2, <4>1, MinOf
    <3>3. Min(fit) \in DOMAIN headers /\ Min(fit) \in Nat  BY <1>2, <3>2
    <3> HIDE DEF fit
    <3> QED  BY <1>1, <1>2, <3>1, <3>3 DEF HeapTypes, InPlace, FindHeader, Moves, Labels
  <2> QED  BY <2>1, <2>2
<1>4. h[c] = 0  BY <1>1 DEF InPlace, FindHeader
<1>5. InPlace(c)'  BY <1>2, <1>3 DEF InPlace, FindHeader, system
<1> QED  BY <1>3, <1>4, <1>5, MoveKeeps DEF FindHeader

(* The list ends at hl already. *)
LEMMA ListEnds ==
    ASSUME HeapInv, NEW c \in Contexts, GrowFails(c)
    PROVE  UNCHANGED headers
<1>1. headers \in Seq(HeaderType) /\ h[c] = Len(headers)
  BY DEF HeapInv, HeapTypes, InPlace, GrowFails
<1>2. headers' = SubSeq(headers, 1, Len(headers))  BY <1>1 DEF GrowFails
<1> QED  BY <1>1, <1>2

LEMMA GrowFailsKeeps ==
    ASSUME HeapInv, NEW c \in Contexts, GrowFails(c)
    PROVE  HeapInv'
<1>1. HeapTypes  BY DEF HeapInv
<1>2. Moves(c) /\ pc'[c] = "idle" /\ h'[c] = 0  BY <1>1, ReturnMoves DEF GrowFails
<1>3. InPlace(c)'  BY <1>2, IdleInPlace
<1> QED  BY <1>2, <1>3, ListEnds, MoveKeeps DEF GrowFails

LEMMA FindPointerKeeps ==
    ASSUME HeapInv, NEW c \in Contexts, FindPointer(c)
    PROVE  HeapInv'
<1> DEFINE ptrs == headers[h[c]].pointers
           fit == {i \in DOMAIN ptrs : ptrs[i].size >= bytes[c]}
<1>1. HeapTypes /\ InPlace(c)  BY DEF HeapInv
<1>2. h[c] \in DOMAIN headers /\ ptrs \in Seq(PointerType)
  <2>1. h[c] \in DOMAIN headers  BY <1>1 DEF InPlace, FindPointer
  <2>2. headers[h[c]] \in HeaderType  BY <1>1, <2>1 DEF HeapTypes
  <2> QED  BY <2>1, <2>2 DEF HeaderType
<1>3. CASE fit = {}
  <2>1. Fault(c)  BY <1>3 DEF FindPointer
  <2>2. Moves(c) /\ pc'[c] = "fault" /\ h'[c] = h[c]  BY <1>1, <2>1, FaultMoves
  <2>3. MMU_enabled'  BY <1>1 DEF InPlace, FindPointer, system
  <2>4. InPlace(c)'  BY <2>2, <2>3, IdleInPlace
  <2> QED  BY <2>2, <2>4, MoveKeeps DEF FindPointer
<1>4. CASE fit # {}
  <2>1. /\ pc' = [pc EXCEPT ![c] = "split"] /\ p' = [p EXCEPT ![c] = ptrs[Min(fit)].at]
        /\ UNCHANGED <<bytes, h, max, system, headers, brk, held>>
    BY <1>4 DEF FindPointer, Goto
  <2>2. Min(fit) \in fit
    <3>1. fit \in SUBSET Nat  BY <1>2
    <3> HIDE DEF fit
    <3> QED  BY <1>4, <3>1, MinOf
  <2>3. PICK m \in DOMAIN ptrs : m = Min(fit)  BY <2>2
  <2>4. ptrs[m].at \in Nat
    <3>1. ptrs[m] \in PointerType  BY <1>2
    <3> QED  BY <3>1 DEF PointerType
  <2> HIDE DEF fit
  <2>5. Moves(c) /\ pc'[c] = "split" /\ p'[c] = ptrs[m].at
    <3> HIDE DEF ptrs
    <3> QED  BY <1>1, <2>1, <2>3, <2>4 DEF HeapTypes, Moves, Labels
  <2>6. InPlace(c)'  BY <1>1, <1>2, <2>1, <2>5 DEF InPlace, FindPointer, system
  <2> QED  BY <2>1, <2>5, <2>6, MoveKeeps
<1> QED  BY <1>3, <1>4

(* A free takes a block away, and may fault. *)
LEMMA kfreeKeeps ==
    ASSUME HeapInv, NEW c \in Contexts, kfree(c)
    PROVE  HeapInv'
<1>1. HeapTypes /\ InPlace(c) /\ Above  BY DEF HeapInv
<1>2. held' \subseteq held  BY DEF kfree
<1>3. /\ Moves(c) /\ h'[c] = 0 /\ h[c] = 0
      /\ pc'[c] = "idle" \/ (pc'[c] = "fault" /\ MMU_enabled)
  BY <1>1 DEF HeapTypes, InPlace, kfree, Goto, Moves, Labels
<1>4. UNCHANGED <<system, headers, brk>>  BY DEF kfree
<1>5. InPlace(c)'  BY <1>3, <1>4, IdleInPlace DEF system
<1>6. \A d \in Contexts : InPlace(d)'  BY <1>3, <1>4, <1>5, OthersInPlace DEF system
<1>7. HeapTypes'  BY <1>1, <1>2, <1>3, <1>4 DEF HeapTypes, Moves, system
<1>8. Above'  BY <1>1, <1>2, <1>4 DEF Above, system
<1> QED  BY <1>3, <1>4, <1>6, <1>7, <1>8, MoveSizeMax DEF HeapInv

(* A block of the early stack begins at MemStack and ends below 2 MB. *)
LEMMA MemstckKeeps ==
    ASSUME HeapInv, NEW c \in Contexts, memstck_malloc(c)
    PROVE  HeapInv'
<1>1. HeapTypes /\ InPlace(c) /\ Above  BY DEF HeapInv
<1>2. Moves(c) /\ pc'[c] = "idle" /\ h'[c] = 0  BY <1>1, ReturnMoves DEF memstck_malloc
<1>3. h[c] = 0 /\ bytes[c] \in Requests  BY <1>1 DEF InPlace, memstck_malloc
<1>4. UNCHANGED <<MMU_enabled, headers, brk>>  BY DEF memstck_malloc
<1>5. bytes[c] \in Nat \ {0} /\ MemStack \in Nat  BY <1>1, <1>3 DEF HeapTypes
<1>6. \/ UNCHANGED <<held, MemStack>>
      \/ /\ held' = held \cup {<<MemStack, bytes[c]>>}
         /\ MemStack + bytes[c] < StackEnd /\ MemStack' = MemStack + bytes[c] + 1
  BY DEF memstck_malloc
<1>7. HeapTypes'
  <2>1. MemStack_enable' \in BOOLEAN  BY DEF memstck_malloc
  <2>2. MemStack' \in Nat /\ held' \subseteq Nat \X (Nat \ {0})
    BY <1>1, <1>5, <1>6 DEF HeapTypes
  <2> QED  BY <1>1, <1>2, <1>4, <2>1, <2>2 DEF HeapTypes, Moves
<1>8. Above'
  <2>1. StackStart <= MemStack'  BY <1>1, <1>5, <1>6 DEF Above
  <2>2. ASSUME NEW b \in held'
        PROVE  HeapStart <= b[1] \/ (StackStart <= b[1] /\ b[1] + b[2] < StackEnd)
    <3>1. CASE b \in held  BY <1>1, <3>1 DEF Above
    <3>2. CASE b = <<MemStack, bytes[c]>> /\ MemStack + bytes[c] < StackEnd
      BY <1>1, <3>2 DEF Above
    <3> QED  BY <1>6, <2>2, <3>1, <3>2
  <2> QED  BY <1>1, <1>4, <2>1, <2>2 DEF Above
<1>9. \A d \in Contexts : InPlace(d)'  BY <1>2, <1>4, IdleInPlace, OthersInPlace
<1> QED  BY <1>2, <1>3, <1>4, <1>7, <1>8, <1>9, MoveSizeMax DEF HeapInv

(* The first header: its size_max is the room of its pointer. *)
LEMMA SizeMaxOfOne ==
    ASSUME NEW a \in Nat, NEW room \in Nat
    PROVE  findSize_max(<<Pointer(a, room)>>) = room
<1> DEFINE ptrs == <<Pointer(a, room)>>
           S == {0} \cup {ptrs[i].size : i \in DOMAIN ptrs}
<1>1. S = {0, room}
  <2>1. DOMAIN ptrs = {1} /\ ptrs[1].size = room  BY DEF Pointer
  <2> QED  BY <2>1
<1> HIDE DEF S
<1>2. Max(S) \in S /\ \A x \in S : x <= Max(S)  BY <1>1, MaxOf
<1> QED  BY <1>1, <1>2 DEF findSize_max, S

LEMMA HeaderTyped ==
    ASSUME NEW start \in Nat, NEW size \in Nat, HDR + PTR <= size, NEW room \in 0 .. WORD - 1
    PROVE  /\ Header(start, size, room) \in HeaderType
           /\ Header(start, size, room).start = start
           /\ Header(start, size, room).size = size
           /\ Header(start, size, room).pointers = <<Pointer(start + HDR, room)>>
<1>1. size - HDR - PTR \in Nat  OBVIOUS
<1>2. Pointer(start + HDR, room) \in PointerType  BY DEF Pointer, PointerType
<1> QED  BY <1>1, <1>2 DEF Header, HeaderType

LEMMA mm_initKeeps ==
    ASSUME HeapInv, mm_init
    PROVE  HeapInv'
<1> DEFINE first == Header(HeapStart, PAGE, PAGE - HDR - PTR)
<1>1. HeapTypes /\ Above /\ \A c \in Contexts : InPlace(c)  BY DEF HeapInv
<1>2. /\ headers' = <<first>> /\ MMU_enabled' = TRUE /\ MemStack_enable' = FALSE
      /\ brk' = HeapStart + PAGE /\ UNCHANGED <<MemStack, held, pc, bytes, h, p, max>>
      /\ ~ MMU_enabled
  BY DEF mm_init
<1>3. PAGE - HDR - PTR \in 0 .. WORD - 1  OBVIOUS
<1>4. /\ first \in HeaderType /\ first.size_max = PAGE - HDR - PTR
      /\ first.pointers = <<Pointer(HeapStart + HDR, PAGE - HDR - PTR)>>
  BY <1>3, HeaderTyped DEF Header
<1> HIDE DEF first
<1>5. headers' \in Seq(HeaderType) /\ DOMAIN headers' = {1} /\ headers'[1] = first
  BY <1>2, <1>4
<1>6. HeapTypes'
  <2>1. headers' \in Seq(HeaderType) /\ brk' \in Nat  BY <1>2, <1>5
  <2>2. MMU_enabled' \in BOOLEAN /\ MemStack_enable' \in BOOLEAN  BY <1>2
  <2>3. UNCHANGED <<MemStack, held, pc, bytes, h, p, max>>  BY <1>2
  <2> QED  BY <1>1, <2>1, <2>2, <2>3 DEF HeapTypes
<1>7. \A c \in Contexts : InPlace(c)'
  <2> TAKE c \in Contexts
  <2>1. pc[c] \in {"idle", "header"} /\ InPlace(c)  BY <1>1, <1>2 DEF InPlace
  <2> QED  BY <1>2, <2>1 DEF InPlace
<1>8. Above'
  <2>1. /\ DOMAIN first.pointers = {1}
        /\ first.pointers[1].at = HeapStart + HDR
    BY <1>4 DEF Pointer
  <2> QED  BY <1>1, <1>2, <1>5, <2>1 DEF Above
<1>9. SizeMaxKept'  BY <1>3, <1>4, <1>5, SizeMaxOfOne DEF SizeMaxKept
<1> QED  BY <1>6, <1>7, <1>8, <1>9 DEF HeapInv

LEMMA FindMaxKeeps ==
    ASSUME HeapInv, NEW c \in Contexts, FindMax(c)
    PROVE  HeapInv'
<1>1. HeapTypes /\ InPlace(c)  BY DEF HeapInv
<1>2. PICK m : m = findSize_max(headers[h[c]].pointers)  OBVIOUS
<1>3. m \in Nat
  <2>1. headers[h[c]] \in HeaderType  BY <1>1 DEF HeapTypes, InPlace, FindMax
  <2>2. headers[h[c]].pointers \in Seq(PointerType)  BY <2>1 DEF HeaderType
  <2> QED  BY <1>2, <2>2, SizeMaxTyped
<1>4. /\ pc' = [pc EXCEPT ![c] = "store"] /\ max' = [max EXCEPT ![c] = m] /\ pc[c] = "max"
      /\ UNCHANGED <<system, headers, brk, held, bytes, h, p>>
  BY <1>2 DEF FindMax, Goto
<1>5. Moves(c) /\ pc'[c] = "store" /\ max'[c] = m /\ h'[c] = h[c]
  BY <1>1, <1>3, <1>4 DEF HeapTypes, Moves, Labels
<1>6. InPlace(c)'  BY <1>1, <1>2, <1>4, <1>5 DEF InPlace, system
<1> QED  BY <1>4, <1>5, <1>6, MoveKeeps

(* Finish puts size_max right in the header it leaves. *)
LEMMA FinishKeeps ==
    ASSUME HeapInv, NEW c \in Contexts, Finish(c)
    PROVE  HeapInv'
<1> DEFINE k == h[c]
           new == [headers[k] EXCEPT !.size_max = findSize_max(headers[k].pointers)]
<1>1. HeapTypes /\ Above /\ InPlace(c) /\ SizeMaxKept  BY DEF HeapInv
<1>2. Moves(c) /\ pc'[c] = "idle" /\ h'[c] = 0  BY <1>1, ReturnMoves DEF Finish
<1>3. headers \in Seq(HeaderType) /\ Len(headers) \in Nat /\ DOMAIN headers = 1 .. Len(headers)
      /\ k \in DOMAIN headers /\ headers[k] \in HeaderType
  BY <1>1, SMTT(60) DEF HeapTypes, InPlace, Finish
<1>4. /\ new \in HeaderType /\ new.pointers = headers[k].pointers
      /\ new.size_max = findSize_max(headers[k].pointers)
  <2>1. headers[k].pointers \in Seq(PointerType)  BY <1>3 DEF HeaderType
  <2> QED  BY <1>3, <2>1, SizeMaxTyped DEF HeaderType
<1>5. headers' = [headers EXCEPT ![k] = new]
  <2>1. max[c] = findSize_max(headers[k].pointers)  BY <1>1 DEF InPlace, Finish
  <2> QED  BY <2>1 DEF Finish
<1> HIDE DEF new, k
<1>6. /\ headers' \in Seq(HeaderType) /\ Len(headers') = Len(headers)
      /\ DOMAIN headers' = DOMAIN headers /\ headers'[k] = new
      /\ \A i \in DOMAIN headers : i # k => headers'[i] = headers[i]
  BY <1>3, <1>4, <1>5
<1>7. \A i \in DOMAIN headers : headers'[i].pointers = headers[i].pointers
  BY <1>4, <1>6
<1>8. p[c] \in Nat /\ bytes[c] \in Nat \ {0} /\ HeapStart <= p[c]
  BY <1>1 DEF HeapTypes, InPlace, Above, Finish
<1>9. UNCHANGED <<system, brk>> /\ held' = held \cup {<<p[c] + PTR, bytes[c]>>}
  BY DEF Finish
<1>10. HeapTypes'
  <2>1. held' \subseteq Nat \X (Nat \ {0})  BY <1>1, <1>8, <1>9 DEF HeapTypes
  <2> QED  BY <1>1, <1>2, <1>6, <1>9, <2>1 DEF HeapTypes, Moves, system
<1>11. Above'
  <2>1. \A b \in held' : HeapStart <= b[1] \/ (StackStart <= b[1] /\ b[1] + b[2] < StackEnd)
    BY <1>1, <1>8, <1>9 DEF Above
  <2> QED  BY <1>1, <1>6, <1>7, <1>9, <2>1 DEF Above, system
<1>12. ASSUME NEW d \in Contexts  PROVE InPlace(d)'
  <2>1. CASE d = c  BY <1>2, <2>1, IdleInPlace
  <2>2. CASE d # c
    <3>1. InPlace(d)  BY DEF HeapInv
    <3>2. pc'[d] = pc[d] /\ bytes'[d] = bytes[d] /\ h'[d] = h[d] /\ p'[d] = p[d] /\ max'[d] = max[d]
      BY <1>2, <2>2 DEF Moves
    <3> QED  BY <1>6, <1>7, <1>9, <3>1, <3>2 DEF InPlace, system
  <2> QED  BY <2>1, <2>2
<1>13. SizeMaxKept'
  <2> SUFFICES ASSUME NEW i \in DOMAIN headers, \A d \in Contexts : h'[d] = i => pc'[d] = "grow"
               PROVE  headers'[i].size_max = findSize_max(headers'[i].pointers)
    BY <1>6 DEF SizeMaxKept
  <2>1. CASE i = k  BY <1>4, <1>6, <2>1
  <2>2. CASE i # k
    <3>1. \A d \in Contexts : h[d] = i => pc[d] = "grow"  BY <1>2, <2>2 DEF Moves, k
    <3> QED  BY <1>1, <1>6, <2>2, <3>1 DEF SizeMaxKept
  <2> QED  BY <2>1, <2>2
<1> QED  BY <1>10, <1>11, <1>12, <1>13 DEF HeapInv

(* A split leaves each pointer where it was, and adds one above the first. *)
PlacesKept(ptrs, q, a) ==
    /\ \A j \in DOMAIN ptrs : \E k \in DOMAIN q : q[k].at = ptrs[j].at
    /\ \A k \in DOMAIN q : a <= q[k].at \/ \E j \in DOMAIN ptrs : q[k].at = ptrs[j].at

LEMMA SplitKeepsPlaces ==
    ASSUME NEW hd, hd.pointers \in Seq(PointerType), NEW a \in Nat, NEW b \in Nat \ {0},
           \E j \in DOMAIN hd.pointers : hd.pointers[j].at = a,
           NEW q, q = Allocated(hd, Divide(hd, a, b), a)
    PROVE  q \in Seq(PointerType) /\ PlacesKept(hd.pointers, q, a)
<1> DEFINE ptrs == hd.pointers
<1>1. PICK i \in DOMAIN ptrs : i = IndexOf(hd, a) /\ ptrs[i].at = a  BY DEF IndexOf
<1>2. /\ q \in Seq(PointerType)
      /\ \/ Same(ptrs, q, a)
         \/ Parted(ptrs, q, i, a, b)
  BY <1>1, SplitPointers
<1> HIDE DEF ptrs
<1>3. ptrs \in Seq(PointerType) /\ Len(ptrs) \in Nat /\ DOMAIN ptrs = 1 .. Len(ptrs)
      /\ DOMAIN q = 1 .. Len(q)
  BY <1>2 DEF ptrs
<1>4. \A j \in DOMAIN ptrs : Taken(ptrs[j], a).at = ptrs[j].at
  <2> TAKE j \in DOMAIN ptrs
  <2>1. ptrs[j] \in PointerType  BY <1>3
  <2> QED  BY <2>1, PointerTyped
<1>5. CASE Same(ptrs, q, a)  BY <1>2, <1>3, <1>4, <1>5 DEF Same, PlacesKept, ptrs
<1>6. CASE Parted(ptrs, q, i, a, b)
  <2>1. Len(q) = Len(ptrs) + 1  BY <1>6 DEF Parted
  <2>2. \A j \in DOMAIN ptrs : \E k \in DOMAIN q : q[k].at = ptrs[j].at
    <3> TAKE j \in DOMAIN ptrs
    <3>1. CASE j <= i
      <4>1. j \in 1 .. i /\ j \in DOMAIN q  BY <1>3, <2>1, <3>1
      <4>2. q[j] = Taken(ptrs[j], a)  BY <1>6, <4>1 DEF Parted
      <4> QED  BY <1>4, <4>1, <4>2
    <3>2. CASE j > i
      <4>1. j \in i + 1 .. Len(ptrs) /\ j + 1 \in DOMAIN q  BY <1>3, <2>1, <3>2
      <4> QED  BY <1>4, <1>6, <4>1 DEF Parted
    <3> QED  BY <1>3, <3>1, <3>2
  <2>3. ASSUME NEW k \in DOMAIN q
        PROVE  a <= q[k].at \/ \E j \in DOMAIN ptrs : q[k].at = ptrs[j].at
    <3>1. CASE k <= i  BY <1>3, <1>4, <1>6, <2>1, <3>1 DEF Parted
    <3>2. CASE k = i + 1
      <4>1. q[k].at = a + PTR + b  BY <1>6, <3>2 DEF Parted, Pointer
      <4> QED  BY <4>1
    <3>3. CASE k > i + 1
      <4>1. k - 1 \in i + 1 .. Len(ptrs) /\ (k - 1) + 1 = k  BY <1>3, <2>1, <3>3
      <4>2. k - 1 \in DOMAIN ptrs  BY <1>3, <4>1
      <4> QED  BY <1>4, <1>6, <4>1, <4>2, SMTT(60) DEF Parted
    <3> QED  BY <1>3, <2>1, <3>1, <3>2, <3>3
  <2> QED  BY <1>2, <2>2, <2>3 DEF PlacesKept, ptrs
<1> QED  BY <1>2, <1>5, <1>6

LEMMA SplitKeeps ==
    ASSUME ~ Nested, HeapInv, NEW c \in Contexts, Split(c)
    PROVE  HeapInv'
<1> DEFINE k == h[c]
           ptrs == Allocated(headers[k], Divide(headers[k], p[c], bytes[c]), p[c])
           new == [headers[k] EXCEPT !.pointers = ptrs]
<1>1. HeapTypes /\ Above /\ InPlace(c) /\ SizeMaxKept  BY DEF HeapInv
<1>2. CASE ~ PointersInside(headers[k], ptrs)
  <2>1. Fault(c) /\ UNCHANGED <<system, headers, brk, held>>  BY <1>2 DEF Split
  <2>2. Moves(c) /\ pc'[c] = "fault" /\ h'[c] = h[c]  BY <1>1, <2>1, FaultMoves
  <2>3. MMU_enabled'  BY <1>1, <2>1 DEF InPlace, Split, system
  <2>4. InPlace(c)'  BY <2>2, <2>3, IdleInPlace
  <2> QED  BY <2>1, <2>2, <2>4, MoveKeeps
<1>3. CASE PointersInside(headers[k], ptrs)
  <2>1. /\ headers' = [headers EXCEPT ![k] = new] /\ pc' = [pc EXCEPT ![c] = "max"]
        /\ UNCHANGED <<bytes, h, p, max, system, brk, held>>
    BY <1>3 DEF Split, Goto
  <2>2. headers \in Seq(HeaderType) /\ Len(headers) \in Nat /\ DOMAIN headers = 1 .. Len(headers)
        /\ k \in DOMAIN headers /\ headers[k] \in HeaderType
    BY <1>1, SMTT(60) DEF HeapTypes, InPlace, Split
  <2>3. headers[k].pointers \in Seq(PointerType)  BY <2>2 DEF HeaderType
  <2>4. p[c] \in Nat /\ bytes[c] \in Nat \ {0} /\ HeapStart <= p[c]
        /\ \E j \in DOMAIN headers[k].pointers : headers[k].pointers[j].at = p[c]
    BY <1>1 DEF HeapTypes, InPlace, Above, Split
  <2>5. /\ ptrs \in Seq(PointerType)
        /\ \A j \in DOMAIN headers[k].pointers :
              \E i \in DOMAIN ptrs : ptrs[i].at = headers[k].pointers[j].at
        /\ \A i \in DOMAIN ptrs : HeapStart <= ptrs[i].at
    <3>1. PICK a \in Nat, b \in Nat \ {0} : a = p[c] /\ b = bytes[c]  BY <2>4
    <3>2. PICK hd : hd = headers[k]  OBVIOUS
    <3>3. hd.pointers \in Seq(PointerType) /\ \E j \in DOMAIN hd.pointers : hd.pointers[j].at = a
      BY <2>3, <2>4, <3>1, <3>2
    <3>4. ptrs \in Seq(PointerType) /\ PlacesKept(hd.pointers, ptrs, a)
      <4>1. ptrs = Allocated(hd, Divide(hd, a, b), a)  BY <3>1, <3>2
      <4> HIDE DEF ptrs
      <4> QED  BY <3>3, <4>1, SplitKeepsPlaces
    <3> HIDE DEF ptrs
    <3>5. \A i \in DOMAIN ptrs : ptrs[i].at \in Nat
      <4> TAKE i \in DOMAIN ptrs
      <4>1. ptrs[i] \in PointerType  BY <3>4
      <4> QED  BY <4>1, PointerTyped
    <3>6. \A j \in DOMAIN hd.pointers : HeapStart <= hd.pointers[j].at
      BY <1>1, <2>2, <3>2 DEF Above
    <3>7. ASSUME NEW i \in DOMAIN ptrs  PROVE HeapStart <= ptrs[i].at
      <4>1. CASE a <= ptrs[i].at  BY <2>4, <3>1, <3>5, <4>1
      <4>2. CASE \E j \in DOMAIN hd.pointers : ptrs[i].at = hd.pointers[j].at
        BY <3>6, <4>2
      <4> QED  BY <3>4, <4>1, <4>2 DEF PlacesKept
    <3> QED  BY <3>2, <3>4, <3>7 DEF PlacesKept
  <2> HIDE DEF ptrs
  <2>6. new \in HeaderType /\ new.pointers = ptrs  BY <2>2, <2>5 DEF HeaderType
  <2> HIDE DEF new, k
  <2>7. /\ headers' \in Seq(HeaderType) /\ Len(headers') = Len(headers)
        /\ DOMAIN headers' = DOMAIN headers /\ headers'[k] = new
        /\ \A i \in DOMAIN headers : i # k => headers'[i] = headers[i]
    BY <2>1, <2>2, <2>6
  <2>8. Moves(c) /\ pc'[c] = "max" /\ h'[c] = k
    BY <1>1, <2>1 DEF HeapTypes, Moves, Labels, k
  <2>9. HeapTypes'  BY <1>1, <2>1, <2>7, <2>8 DEF HeapTypes, Moves, system
  <2>10. Above'
    <3>1. \A i \in DOMAIN headers' : \A j \in DOMAIN headers'[i].pointers :
              HeapStart <= headers'[i].pointers[j].at
      BY <1>1, <2>5, <2>6, <2>7 DEF Above
    <3> QED  BY <1>1, <2>1, <3>1 DEF Above, system
  <2>11. ASSUME NEW d \in Contexts  PROVE InPlace(d)'
    <3>1. InPlace(d)  BY DEF HeapInv
    <3>2. bytes'[d] = bytes[d] /\ h'[d] = h[d] /\ p'[d] = p[d] /\ UNCHANGED MMU_enabled
      BY <2>1 DEF system
    <3>3. ASSUME h[d] \in DOMAIN headers,
                 \E j \in DOMAIN headers[h[d]].pointers : headers[h[d]].pointers[j].at = p[d]
          PROVE  \E j \in DOMAIN headers'[h[d]].pointers : headers'[h[d]].pointers[j].at = p[d]
      <4>1. CASE h[d] = k  BY <2>5, <2>6, <2>7, <3>3, <4>1
      <4>2. CASE h[d] # k  BY <2>7, <3>3, <4>2
      <4> QED  BY <4>1, <4>2
    <3>4. pc[d] = "split" /\ pc'[d] = "max"
      <4>1. d = c  BY MainOnly
      <4> QED  BY <2>8, <4>1 DEF Split
    <3> QED  BY <2>7, <3>1, <3>2, <3>3, <3>4 DEF InPlace
  <2>12. SizeMaxKept'
    <3> SUFFICES ASSUME NEW i \in DOMAIN headers, \A d \in Contexts : h'[d] = i => pc'[d] = "grow"
                 PROVE  headers'[i].size_max = findSize_max(headers'[i].pointers)
      BY <2>7 DEF SizeMaxKept
    <3>1. i # k  BY <2>8
    <3>2. \A d \in Contexts : h[d] = i => pc[d] = "grow"  BY <2>8, <3>1 DEF Moves, k
    <3> QED  BY <1>1, <2>7, <3>1, <3>2 DEF SizeMaxKept
  <2> QED  BY <2>9, <2>10, <2>11, <2>12 DEF HeapInv
<1> QED  BY <1>2, <1>3

(***************************************************************************)
(* A new header behind those up to hl, the last one.                       *)
(***************************************************************************)
LEMMA GrowKeeps ==
    ASSUME ~ Nested, HeapInv, NEW c \in Contexts, Grow(c)
    PROVE  HeapInv'
<1>1. HeapTypes /\ Above /\ InPlace(c) /\ SizeMaxKept  BY DEF HeapInv
<1>0. PICK k \in Nat : k = h[c]  BY <1>1 DEF HeapTypes
<1> DEFINE size == GrowBy(bytes[c])
           new == Header(brk, size, size)
           old == SubSeq(headers, 1, k)
<1>2. headers \in Seq(HeaderType) /\ Len(headers) \in Nat /\ DOMAIN headers = 1 .. Len(headers)
      /\ k = Len(headers)
  BY <1>0, <1>1 DEF HeapTypes, InPlace, Grow
<1>3. /\ headers' = Append(old, new) /\ brk' = brk + size
      /\ h' = [h EXCEPT ![c] = k + 1] /\ pc' = [pc EXCEPT ![c] = "pointer"]
      /\ UNCHANGED <<system, held, bytes, p, max>> /\ brk + size <= HeapEnd
  BY <1>0 DEF Grow, Goto
<1>4. size \in Nat /\ HDR + PTR <= size /\ size < WORD /\ brk \in Nat
  <2>1. bytes[c] \in Nat \ {0}  BY <1>1 DEF InPlace, Grow
  <2>2. PagesFor(bytes[c]) <= ORDER(MAX_ORDER - 1)  BY DEF Grow
  <2>3. size \in Nat /\ bytes[c] + HDR + PTR <= size  BY <2>1, <2>2, GrowFits
  <2> HIDE DEF size
  <2>4. brk \in Nat /\ HeapStart <= brk  BY <1>1 DEF HeapTypes, Above
  <2> QED  BY <1>3, <2>1, <2>3, <2>4
<1> HIDE DEF size
<1>5. /\ new \in HeaderType
      /\ new.pointers = <<Pointer(brk + HDR, size)>>
  <2>1. size \in 0 .. WORD - 1  BY <1>4
  <2>2. HDR + PTR <= size  BY <1>4
  <2>3. brk \in Nat  BY <1>4
  <2>4. /\ Header(brk, size, size) \in HeaderType
        /\ Header(brk, size, size).pointers = <<Pointer(brk + HDR, size)>>
    BY ONLY <2>1, <2>2, <2>3, HeaderTyped
  <2> QED  BY ONLY <2>4
<1> HIDE DEF new
<1>6. old \in Seq(HeaderType) /\ Len(old) = k /\ \A i \in 1 .. k : old[i] = headers[i]
  BY <1>2
<1> HIDE DEF old
<1>7. /\ headers' \in Seq(HeaderType) /\ Len(headers') = k + 1
      /\ DOMAIN headers' = 1 .. k + 1 /\ headers'[k + 1] = new
      /\ \A i \in 1 .. k : i \in DOMAIN headers /\ headers'[i] = headers[i]
  <2>1. headers' = Append(old, new)  BY <1>3
  <2>2. /\ headers' \in Seq(HeaderType) /\ Len(headers') = k + 1 /\ headers'[k + 1] = new
        /\ \A i \in 1 .. k : headers'[i] = old[i]
    BY <1>5, <1>6, <2>1, SMTT(60)
  <2>3. DOMAIN headers' = 1 .. k + 1  BY <2>2
  <2>4. \A i \in 1 .. k : i \in DOMAIN headers
    <3>1. PICK n \in Nat : n = Len(headers) /\ DOMAIN headers = 1 .. n  BY <1>2
    <3>2. k <= n  BY <1>2, <3>1
    <3> QED  BY <3>1, <3>2
  <2> QED  BY <1>6, <2>2, <2>3, <2>4
<1>8. Moves(c) /\ pc'[c] = "pointer" /\ h'[c] = k + 1
  <2>1. /\ pc \in [Contexts -> Labels] /\ bytes \in [Contexts -> Nat]
        /\ h \in [Contexts -> Nat] /\ p \in [Contexts -> Nat] /\ max \in [Contexts -> Nat]
    BY <1>1 DEF HeapTypes
  <2>2. k + 1 \in Nat /\ "pointer" \in Labels  BY DEF Labels
  <2>3. h' = [h EXCEPT ![c] = k + 1] /\ pc' = [pc EXCEPT ![c] = "pointer"]
        /\ UNCHANGED <<bytes, p, max>>
    BY <1>3
  <2> QED  BY <2>1, <2>2, <2>3 DEF Moves
<1>9. HeapTypes'
  <2>1. headers' \in Seq(HeaderType)  BY <1>7
  <2>2. brk' \in Nat /\ UNCHANGED <<system, held>>  BY <1>3, <1>4
  <2> QED  BY <1>1, <1>8, <2>1, <2>2 DEF HeapTypes, Moves, system
<1>10. Above'
  <2>1. DOMAIN new.pointers = {1} /\ new.pointers[1].at = brk + HDR
    BY <1>5 DEF Pointer
  <2>2. HeapStart <= brk /\ HeapStart <= brk + HDR  BY <1>1, <1>4 DEF Above
  <2>3. ASSUME NEW i \in DOMAIN headers', NEW j \in DOMAIN headers'[i].pointers
        PROVE  HeapStart <= headers'[i].pointers[j].at
    <3>1. CASE i = k + 1  BY <1>7, <2>1, <2>2, <3>1
    <3>2. CASE i \in 1 .. k  BY <1>1, <1>7, <3>2 DEF Above
    <3> QED  BY <1>2, <1>7, <3>1, <3>2
  <2>4. HeapStart <= brk'  BY <1>3, <1>4, <2>2
  <2> QED  BY <1>1, <1>3, <2>3, <2>4 DEF Above, system
<1>11. ASSUME NEW d \in Contexts  PROVE InPlace(d)'
  <2>1. InPlace(d) /\ bytes'[d] = bytes[d] /\ p'[d] = p[d] /\ UNCHANGED MMU_enabled
    BY <1>3 DEF HeapInv, system
  <2>2. d = c  BY MainOnly
  <2>3. bytes'[d] \in Requests /\ MMU_enabled'  BY <2>1, <2>2 DEF InPlace, Grow
  <2>4. pc'[d] = "pointer" /\ h'[d] \in DOMAIN headers'  BY <1>7, <1>8, <2>2
  <2> QED  BY <2>3, <2>4 DEF InPlace
<1>12. SizeMaxKept'
  <2> SUFFICES ASSUME NEW i \in 1 .. k + 1, \A d \in Contexts : h'[d] = i => pc'[d] = "grow"
               PROVE  headers'[i].size_max = findSize_max(headers'[i].pointers)
    BY <1>7 DEF SizeMaxKept
  <2>1. i # k + 1  BY <1>8
  <2>2. i \in 1 .. k  BY <2>1
  <2>3. \A d \in Contexts : h[d] = i => pc[d] = "grow"  BY <1>0, <1>8 DEF Moves, Grow
  <2> QED  BY <1>1, <1>7, <2>2, <2>3 DEF SizeMaxKept
<1> QED  BY <1>9, <1>10, <1>11, <1>12 DEF HeapInv

LEMMA NextKeeps == ~ Nested /\ HeapInv /\ [Next]_vars => HeapInv'
<1> SUFFICES ASSUME ~ Nested, HeapInv, [Next]_vars  PROVE HeapInv'  OBVIOUS
<1>1. CASE UNCHANGED vars
  <2>1. UNCHANGED <<MMU_enabled, MemStack, MemStack_enable, headers, brk, held, pc, bytes, h, p, max>>
    BY <1>1 DEF vars
  <2>2. HeapTypes' /\ Above' /\ SizeMaxKept'
    BY <2>1 DEF HeapInv, HeapTypes, Above, SizeMaxKept
  <2>3. \A c \in Contexts : InPlace(c)'  BY <2>1 DEF HeapInv, InPlace
  <2> QED  BY <2>2, <2>3 DEF HeapInv
<1>2. CASE mm_init  BY <1>2, mm_initKeeps
<1>3. ASSUME NEW c \in Contexts, Runs(c), Call(c) \/ kmalloc(c) \/ kfree(c)
      PROVE  HeapInv'
  BY <1>3, CallKeeps, kfreeKeeps, MemstckKeeps, FindHeaderKeeps, GrowKeeps, GrowFailsKeeps,
     FindPointerKeeps, SplitKeeps, FindMaxKeeps, FinishKeeps DEF kmalloc
<1> QED  BY <1>1, <1>2, <1>3 DEF Next

(* The inductive invariant, as long as no handler calls kmalloc: types,     *)
(* calls that go on with a header and a pointer that exist, the early stack *)
(* below the heap, and the room that size_max promises (mm.c:67-128).       *)
THEOREM HeapInvAlways == ~ Nested => (Spec => []HeapInv)
<1>1. ~ Nested /\ HeapInv /\ [Next]_vars => (~ Nested /\ HeapInv)'  BY NextKeeps
<1> QED  BY <1>1, InitHolds, PTL DEF Spec

(* size_max is the largest room of every header that no call is working on  *)
(* (mm.c:125), as long as no handler calls kmalloc.                         *)
THEOREM SizeMaxExactAlways == ~ Nested => (Spec => []SizeMaxExact)
<1>1. HeapInv => SizeMaxExact  BY DEF HeapInv, SizeMaxKept, SizeMaxExact
<1> QED  BY <1>1, HeapInvAlways, PTL

(* memstck_malloc gives out nothing from 2 MB on (mm.c:175), and kmalloc    *)
(* nothing below the heap, as long as no handler calls it in between.       *)
THEOREM EarlyBelowEndAlways == ~ Nested => (Spec => []EarlyBelowEnd)
<1>1. HeapInv => EarlyBelowEnd
  <2> SUFFICES ASSUME HeapInv, NEW b \in held, b[1] < HeapStart
               PROVE  StackStart <= b[1] /\ b[1] + b[2] < StackEnd
    BY DEF EarlyBelowEnd
  <2>1. b[1] \in Nat  BY DEF HeapInv, HeapTypes
  <2> QED  BY <2>1 DEF HeapInv, Above
<1> QED  BY <1>1, HeapInvAlways, PTL

-----------------------------------------------------------------------------
(***************************************************************************)
(* BlocksInv, as long as no handler calls kmalloc.  First the pointers of  *)
(* one header, before and after a split.                                   *)
(***************************************************************************)
LEMMA PointersTyped ==
    ASSUME NEW ptrs \in Seq(PointerType)
    PROVE  /\ Len(ptrs) \in Nat /\ DOMAIN ptrs = 1 .. Len(ptrs)
           /\ \A j \in 1 .. Len(ptrs) : ptrs[j].at \in Nat /\ ptrs[j].size \in 0 .. WORD - 1
<1>1. \A j \in 1 .. Len(ptrs) : ptrs[j] \in PointerType  OBVIOUS
<1> QED  BY <1>1 DEF PointerType

(* No two pointers are at the same place. *)
LEMMA TakenOne ==
    ASSUME NEW ptrs \in Seq(PointerType), NEW first, NEW end, NEW over,
           Divided(ptrs, first, end, over), NEW i \in 1 .. Len(ptrs)
    PROVE  /\ \A k \in 1 .. Len(ptrs) : ptrs[k].at = ptrs[i].at => k = i
           /\ \A k \in 1 .. Len(ptrs) :
                 Taken(ptrs[k], ptrs[i].at) = IF k = i THEN Pointer(ptrs[i].at, 0) ELSE ptrs[k]
<1>1. ASSUME NEW k \in 1 .. Len(ptrs), k # i  PROVE ptrs[k].at # ptrs[i].at
  <2>1. PICK n \in Nat : n = Len(ptrs)  BY PointersTyped
  <2>2. /\ ptrs[k].at \in Nat /\ ptrs[k].size \in Nat
        /\ ptrs[i].at \in Nat /\ ptrs[i].size \in Nat
    BY PointersTyped
  <2>3. \A j, l \in 1 .. n : j < l => ptrs[j].at + PTR + ptrs[j].size <= ptrs[l].at
    BY <2>1, PointersTyped DEF Divided
  <2>4. k \in 1 .. n /\ i \in 1 .. n  BY <2>1
  <2>5. CASE k < i
    <3>1. ptrs[k].at + PTR + ptrs[k].size <= ptrs[i].at  BY <2>3, <2>4, <2>5
    <3> QED  BY <2>2, <3>1
  <2>6. CASE k > i
    <3>1. ptrs[i].at + PTR + ptrs[i].size <= ptrs[k].at  BY <2>3, <2>4, <2>6
    <3> QED  BY <2>2, <3>1
  <2> QED  BY <1>1, <2>4, <2>5, <2>6
<1> QED  BY <1>1 DEF Taken

(* The pointers without one that is split, as numbers. *)
SplitOff(ptrs, q, i, a, b, s) ==
    /\ q[i].at = a /\ q[i].size = 0
    /\ \/ /\ s - b <= PTR /\ Len(q) = Len(ptrs)
          /\ \A k \in 1 .. Len(ptrs) : k # i => q[k] = ptrs[k]
       \/ /\ s - b > PTR /\ Len(q) = Len(ptrs) + 1
          /\ q[i + 1].at = a + PTR + b /\ q[i + 1].size = (s - b) - PTR
          /\ \A k \in 1 .. Len(ptrs) : k < i => q[k] = ptrs[k]
          /\ \A k \in 1 .. Len(ptrs) : k > i => q[k + 1] = ptrs[k]

LEMMA SmallRemainder == \A n \in 0 .. WORD - 1 : n % WORD = n
OBVIOUS

LEMMA SplitParts ==
    ASSUME NEW hd, hd.pointers \in Seq(PointerType), NEW first, NEW end, NEW over,
           Divided(hd.pointers, first, end, over),
           NEW i \in 1 .. Len(hd.pointers), NEW b \in Nat \ {0}, hd.pointers[i].size >= b,
           NEW a, a = hd.pointers[i].at, NEW q, q = Allocated(hd, Divide(hd, a, b), a)
    PROVE  q \in Seq(PointerType) /\ SplitOff(hd.pointers, q, i, a, b, hd.pointers[i].size)
<1> DEFINE ptrs == hd.pointers
<1>1. a \in Nat /\ ptrs[i].size \in 0 .. WORD - 1 /\ Len(ptrs) \in Nat
      /\ DOMAIN ptrs = 1 .. Len(ptrs)
  BY PointersTyped
<1>2. i = IndexOf(hd, a)
  <2>1. \A k \in DOMAIN ptrs : ptrs[k].at = a => k = i  BY <1>1, TakenOne
  <2> QED  BY <1>1, <2>1 DEF IndexOf
<1>3. /\ q \in Seq(PointerType)
      /\ \/ Left(ptrs, i, b) <= PTR /\ Same(ptrs, q, a)
         \/ Left(ptrs, i, b) > PTR /\ Parted(ptrs, q, i, a, b)
  BY <1>1, <1>2, SplitPointers
<1>4. Left(ptrs, i, b) = ptrs[i].size - b
  <2>1. ptrs[i].size - b \in 0 .. WORD - 1  BY <1>1
  <2> QED  BY <2>1, SmallRemainder DEF Left
<1>5. \A k \in 1 .. Len(ptrs) : Taken(ptrs[k], a) = IF k = i THEN Pointer(a, 0) ELSE ptrs[k]
  BY TakenOne, SMTT(60)
<1> HIDE DEF ptrs
<1>6. i \in 1 .. Len(ptrs)  BY DEF ptrs
<1>7. CASE Left(ptrs, i, b) <= PTR /\ Same(ptrs, q, a)
  <2>1. q[i] = Pointer(a, 0)  BY <1>5, <1>6, <1>7 DEF Same
  <2>2. \A k \in 1 .. Len(ptrs) : k # i => q[k] = ptrs[k]  BY <1>5, <1>7 DEF Same
  <2> QED  BY <1>3, <1>4, <1>7, <2>1, <2>2, SMTT(60) DEF SplitOff, Same, Pointer, ptrs
<1>8. CASE Left(ptrs, i, b) > PTR /\ Parted(ptrs, q, i, a, b)
  <2>1. q[i] = Pointer(a, 0)
    <3>1. i \in 1 .. i  BY <1>6
    <3>2. q[i] = Taken(ptrs[i], a)  BY <1>8, <3>1 DEF Parted
    <3> QED  BY <1>5, <1>6, <3>2
  <2>2. \A k \in 1 .. Len(ptrs) : k < i => q[k] = ptrs[k]
    <3> SUFFICES ASSUME NEW k \in 1 .. Len(ptrs), k < i  PROVE q[k] = ptrs[k]  OBVIOUS
    <3>1. k \in 1 .. i /\ k # i  BY <1>1, <1>6
    <3> QED  BY <1>5, <1>8, <3>1 DEF Parted
  <2>3. \A k \in 1 .. Len(ptrs) : k > i => q[k + 1] = ptrs[k]
    <3> SUFFICES ASSUME NEW k \in 1 .. Len(ptrs), k > i  PROVE q[k + 1] = ptrs[k]  OBVIOUS
    <3>1. k \in i + 1 .. Len(ptrs) /\ k # i  BY <1>1, <1>6
    <3> QED  BY <1>5, <1>8, <3>1 DEF Parted
  <2>4. q[i + 1] = Pointer(a + PTR + b, (ptrs[i].size - b) - PTR)
    BY <1>4, <1>8 DEF Parted
  <2> QED  BY <1>3, <1>4, <1>8, <2>1, <2>2, <2>3, <2>4, SMTT(60) DEF SplitOff, Parted, Pointer, ptrs
<1> QED  BY <1>3, <1>7, <1>8

(* The two parts of a block, with the pointer between them, end where it did. *)
LEMMA Cancels ==
    \A a, b, s \in Nat : (a + PTR + b) + PTR + ((s - b) - PTR) = a + PTR + s
OBVIOUS

(* The new pointers divide the same room, as long as they lie in the pages. *)
LEMMA DividedKept ==
    ASSUME NEW ptrs \in Seq(PointerType), NEW q \in Seq(PointerType),
           NEW first \in Nat, NEW end \in Nat, NEW over \in Nat,
           Divided(ptrs, first, end, over),
           NEW i \in 1 .. Len(ptrs), NEW a \in Nat, a = ptrs[i].at, NEW b \in Nat \ {0},
           ptrs[i].size >= b, SplitOff(ptrs, q, i, a, b, ptrs[i].size),
           \A k \in DOMAIN q : q[k].at + PTR <= end
    PROVE  Divided(q, first, end, over)
<1>1. PICK n \in Nat : n = Len(ptrs)  BY PointersTyped
<1>2. PICK s \in Nat : s = ptrs[i].size /\ s >= b  BY PointersTyped
<1>3. /\ DOMAIN ptrs = 1 .. n /\ i \in 1 .. n
      /\ \A k \in 1 .. n : ptrs[k].at \in Nat /\ ptrs[k].size \in Nat
      /\ DOMAIN q = 1 .. Len(q) /\ Len(q) \in Nat
      /\ \A k \in 1 .. Len(q) : q[k].at \in Nat /\ q[k].size \in Nat
  BY <1>1, PointersTyped
<1>4. /\ ptrs[1].at = first
      /\ \A j, k \in 1 .. n : j < k => ptrs[j].at + PTR + ptrs[j].size <= ptrs[k].at
      /\ \A j \in 1 .. n : ptrs[j].size > 0 =>
            ptrs[j].at + PTR + ptrs[j].size = IF j = n THEN end + over ELSE ptrs[j + 1].at
  BY <1>1, <1>3 DEF Divided
<1>5. q[i].at = a /\ q[i].size = 0  BY DEF SplitOff
<1>6. CASE /\ s - b <= PTR /\ Len(q) = n
           /\ \A k \in 1 .. n : k # i => q[k] = ptrs[k]
  <2>1. \A k \in 1 .. n : q[k].at = ptrs[k].at  BY <1>5, <1>6
  <2>2. \A j, k \in 1 .. n : j < k => q[j].at + PTR + q[j].size <= q[k].at
    <3> SUFFICES ASSUME NEW j \in 1 .. n, NEW k \in 1 .. n, j < k
                 PROVE  q[j].at + PTR + q[j].size <= q[k].at
      OBVIOUS
    <3>1. ptrs[j].at + PTR + ptrs[j].size <= ptrs[k].at  BY <1>4
    <3>2. q[j].size <= ptrs[j].size /\ q[j].size \in Nat  BY <1>3, <1>5, <1>6
    <3>3. PICK x \in Nat, y \in Nat, z \in Nat, u \in Nat :
             x = ptrs[j].at /\ y = ptrs[j].size /\ z = q[j].size /\ u = ptrs[k].at
      BY <1>3, <3>2
    <3>4. x + PTR + z <= u
      <4>1. x + PTR + y <= u /\ z <= y  BY <3>1, <3>2, <3>3
      <4> QED  BY <4>1
    <3>5. q[j].at = x /\ q[k].at = u  BY <2>1, <3>3
    <3> QED  BY <3>3, <3>4, <3>5
  <2>3. \A j \in 1 .. n : q[j].size > 0 =>
            q[j].at + PTR + q[j].size = IF j = n THEN end + over ELSE q[j + 1].at
    <3> SUFFICES ASSUME NEW j \in 1 .. n, q[j].size > 0
                 PROVE  q[j].at + PTR + q[j].size = IF j = n THEN end + over ELSE q[j + 1].at
      OBVIOUS
    <3>1. j # i /\ q[j] = ptrs[j]  BY <1>5, <1>6
    <3>2. j # n => j + 1 \in 1 .. n  OBVIOUS
    <3> QED  BY <1>4, <2>1, <3>1, <3>2
  <2>4. q # <<>> /\ q[1].at = first  BY <1>3, <1>4, <1>6, <2>1
  <2> QED  BY <1>3, <1>6, <2>2, <2>3, <2>4 DEF Divided
<1>7. CASE /\ s - b > PTR /\ Len(q) = n + 1
           /\ q[i + 1].at = a + PTR + b /\ q[i + 1].size = (s - b) - PTR
           /\ \A k \in 1 .. n : k < i => q[k] = ptrs[k]
           /\ \A k \in 1 .. n : k > i => q[k + 1] = ptrs[k]
  <2>1. ASSUME NEW k \in 1 .. n + 1
        PROVE  \/ k < i /\ k \in 1 .. n /\ q[k] = ptrs[k]
               \/ k = i
               \/ k = i + 1
               \/ k > i + 1 /\ k - 1 \in 1 .. n /\ q[k] = ptrs[k - 1]
    <3>1. CASE k < i  BY <1>3, <1>7, <3>1
    <3>2. CASE k > i + 1
      <4>1. k - 1 \in 1 .. n /\ k - 1 > i /\ (k - 1) + 1 = k  BY <1>3, <3>2
      <4> QED  BY <1>7, <3>2, <4>1
    <3> QED  BY <1>3, <3>1, <3>2, SMTT(60)
  <2>2. /\ \A k \in 1 .. n : k > i => a + PTR + s <= ptrs[k].at
        /\ \A k \in 1 .. n : k < i => ptrs[k].at + PTR + ptrs[k].size <= a
    BY <1>2, <1>3, <1>4
  <2>3. \A j, k \in 1 .. n + 1 : j < k => q[j].at + PTR + q[j].size <= q[k].at
    <3> SUFFICES ASSUME NEW j \in 1 .. n + 1, NEW k \in 1 .. n + 1, j < k
                 PROVE  q[j].at + PTR + q[j].size <= q[k].at
      OBVIOUS
    <3>1. CASE j < i /\ j \in 1 .. n /\ q[j] = ptrs[j]
      <4>1. q[j].at + PTR + q[j].size <= a  BY <2>2, <3>1
      <4>2. CASE k < i /\ k \in 1 .. n /\ q[k] = ptrs[k]  BY <1>4, <3>1, <4>2
      <4>3. CASE k = i  BY <1>5, <4>1, <4>3
      <4>4. CASE k = i + 1
        <5>1. PICK x \in Nat, y \in Nat : x = q[j].at /\ y = q[j].size  BY <1>3, <1>7
        <5>2. x + PTR + y <= a + PTR + b
          <6>1. PICK v \in Nat : v = x + PTR + y  OBVIOUS
          <6>2. v <= a  BY <4>1, <5>1, <6>1
          <6>3. v <= a + PTR + b  BY <6>2
          <6> QED  BY <6>1, <6>3
        <5>3. q[k].at = a + PTR + b  BY <1>7, <4>4
        <5> QED  BY <5>1, <5>2, <5>3
      <4>5. CASE k > i + 1 /\ k - 1 \in 1 .. n /\ q[k] = ptrs[k - 1]
        <5>1. j < k - 1  BY <1>3, <3>1, <4>5
        <5> QED  BY <1>4, <3>1, <4>5, <5>1
      <4> QED  BY <2>1, <4>2, <4>3, <4>4, <4>5
    <3>2. CASE j = i
      <4>1. CASE k = i + 1
        <5>1. q[j].at = a /\ q[j].size = 0 /\ q[k].at = a + PTR + b
          BY <1>5, <1>7, <3>2, <4>1
        <5>2. a + PTR + 0 <= a + PTR + b  OBVIOUS
        <5> QED  BY <5>1, <5>2
      <4>2. CASE k > i + 1 /\ k - 1 \in 1 .. n /\ q[k] = ptrs[k - 1]
        <5>1. k - 1 > i  BY <1>3, <4>2
        <5>2. a + PTR + s <= q[k].at /\ q[k].at \in Nat  BY <1>3, <2>2, <4>2, <5>1
        <5>3. PICK u \in Nat : u = q[k].at  BY <5>2
        <5>4. a + PTR + 0 <= u
          <6>1. a + PTR + s <= u  BY <5>2, <5>3
          <6> QED  BY <6>1
        <5>5. q[j].at = a /\ q[j].size = 0  BY <1>5, <3>2
        <5> QED  BY <5>3, <5>4, <5>5
      <4> QED  BY <1>3, <2>1, <3>2, <4>1, <4>2
    <3>3. CASE j = i + 1
      <4>1. k > i + 1 /\ k - 1 \in 1 .. n /\ q[k] = ptrs[k - 1]
        BY <1>3, <2>1, <3>3
      <4>2. k - 1 > i  BY <1>3, <4>1
      <4>3. a + PTR + s <= q[k].at /\ q[k].at \in Nat  BY <1>3, <2>2, <4>1, <4>2
      <4>4. PICK u \in Nat : u = q[k].at  BY <4>3
      <4>5. (a + PTR + b) + PTR + ((s - b) - PTR) <= u
        <5>1. a + PTR + s <= u  BY <4>3, <4>4
        <5>2. (a + PTR + b) + PTR + ((s - b) - PTR) = a + PTR + s  BY Cancels, SMTT(60)
        <5> QED  BY <5>1, <5>2
      <4>6. q[j].at = a + PTR + b /\ q[j].size = (s - b) - PTR  BY <1>7, <3>3
      <4> QED  BY <4>4, <4>5, <4>6
    <3>4. CASE j > i + 1 /\ j - 1 \in 1 .. n /\ q[j] = ptrs[j - 1]
      <4>1. k > i + 1 /\ k - 1 \in 1 .. n /\ q[k] = ptrs[k - 1]
        BY <1>3, <2>1, <3>4
      <4>2. j - 1 < k - 1  OBVIOUS
      <4> QED  BY <1>4, <3>4, <4>1, <4>2
    <3> QED  BY <2>1, <3>1, <3>2, <3>3, <3>4
  <2>4. \A j \in 1 .. n + 1 : q[j].size > 0 =>
            q[j].at + PTR + q[j].size = IF j = n + 1 THEN end + over ELSE q[j + 1].at
    <3> SUFFICES ASSUME NEW j \in 1 .. n + 1, q[j].size > 0
                 PROVE  q[j].at + PTR + q[j].size = IF j = n + 1 THEN end + over ELSE q[j + 1].at
      OBVIOUS
    <3>1. CASE j < i /\ j \in 1 .. n /\ q[j] = ptrs[j]
      <4>1. j # n /\ j # n + 1 /\ j + 1 \in 1 .. n  BY <1>3, <3>1
      <4>2. q[j].at + PTR + q[j].size = ptrs[j + 1].at  BY <1>4, <3>1, <4>1
      <4>3. ptrs[j + 1].at = q[j + 1].at
        <5>1. CASE j + 1 = i  BY <1>5, <5>1
        <5>2. CASE j + 1 < i  BY <1>7, <4>1, <5>2
        <5> QED  BY <1>3, <3>1, <5>1, <5>2
      <4> QED  BY <4>1, <4>2, <4>3
    <3>2. CASE j = i + 1
      <4>1. q[j].at + PTR + q[j].size = a + PTR + s
        <5>1. q[j].at = a + PTR + b /\ q[j].size = (s - b) - PTR  BY <1>7, <3>2
        <5>2. (a + PTR + b) + PTR + ((s - b) - PTR) = a + PTR + s  BY SMTT(60)
        <5> QED  BY <5>1, <5>2
      <4>2. s > 0 /\ a + PTR + s = IF i = n THEN end + over ELSE ptrs[i + 1].at
        BY <1>2, <1>3, <1>4
      <4>3. i # n => q[(i + 1) + 1] = ptrs[i + 1]
        <5> SUFFICES ASSUME i # n  PROVE q[(i + 1) + 1] = ptrs[i + 1]  OBVIOUS
        <5>1. i + 1 \in 1 .. n /\ i + 1 > i  BY <1>3
        <5> QED  BY <1>7, <5>1
      <4>4. CASE i = n
        <5>1. j = n + 1  BY <3>2, <4>4
        <5> QED  BY <4>1, <4>2, <4>4, <5>1
      <4>5. CASE i # n
        <5>1. j # n + 1 /\ j + 1 = (i + 1) + 1  BY <1>3, <3>2, <4>5
        <5>2. q[j + 1].at = a + PTR + s  BY <4>2, <4>3, <4>5, <5>1
        <5> QED  BY <4>1, <5>1, <5>2
      <4> QED  BY <4>4, <4>5
    <3>3. CASE j > i + 1 /\ j - 1 \in 1 .. n /\ q[j] = ptrs[j - 1]
      <4>1. q[j].at + PTR + q[j].size =
              IF j - 1 = n THEN end + over ELSE ptrs[(j - 1) + 1].at
        BY <1>4, <3>3
      <4>2. (j - 1) + 1 = j  OBVIOUS
      <4>3. j # n + 1 => j \in 1 .. n /\ q[j + 1] = ptrs[j]  BY <1>3, <1>7, <3>3
      <4> QED  BY <4>1, <4>2, <4>3
    <3> QED  BY <1>5, <2>1, <3>1, <3>2, <3>3
  <2>5. q # <<>> /\ q[1].at = first
    <3>1. CASE i = 1  BY <1>3, <1>4, <1>5, <1>7, <3>1, SMTT(60)
    <3>2. CASE i # 1
      <4>1. 1 \in 1 .. n /\ 1 < i  BY <1>3, <3>2
      <4>2. q[1] = ptrs[1]  BY <1>7, <4>1
      <4> QED  BY <1>3, <1>4, <1>7, <4>2
    <3> QED  BY <3>1, <3>2
  <2> QED  BY <1>3, <1>7, <2>3, <2>4, <2>5 DEF Divided
<1> QED  BY <1>1, <1>2, <1>6, <1>7 DEF SplitOff

(* What ends before a pointer ends before what lies behind that pointer. *)
LEMMA Less ==
    /\ \A e, a, b \in Nat : e <= a => e <= a + PTR + b
    /\ \A a, b, s, u \in Nat : s >= b /\ a + PTR + s <= u => a + PTR + b <= u
  OBVIOUS

(* A block of another pointer stays that pointer's, and the one split off   *)
(* has the bytes behind it.                                                 *)
LEMMA OwnsKept ==
    ASSUME NEW ptrs \in Seq(PointerType), NEW q \in Seq(PointerType),
           NEW first \in Nat, NEW end \in Nat, NEW over \in Nat,
           Divided(ptrs, first, end, over),
           NEW i \in 1 .. Len(ptrs), NEW a \in Nat, a = ptrs[i].at, NEW b \in Nat \ {0},
           ptrs[i].size >= b, SplitOff(ptrs, q, i, a, b, ptrs[i].size)
    PROVE  /\ i \in DOMAIN q /\ q[i].at = a /\ Owns(q, i, <<a + PTR, b>>)
           /\ \A blk \in Nat \X Nat : \A j \in DOMAIN ptrs :
                 Owns(ptrs, j, blk) => \E k \in DOMAIN q : Owns(q, k, blk)
<1>1. PICK n \in Nat : n = Len(ptrs)  BY PointersTyped
<1>2. PICK s \in Nat : s = ptrs[i].size /\ s >= b  BY PointersTyped
<1>3. /\ DOMAIN ptrs = 1 .. n /\ i \in 1 .. n
      /\ \A k \in 1 .. n : ptrs[k].at \in Nat /\ ptrs[k].size \in Nat
      /\ DOMAIN q = 1 .. Len(q) /\ Len(q) \in Nat
      /\ \A k \in 1 .. Len(q) : q[k].at \in Nat
  BY <1>1, PointersTyped
<1>4. /\ \A k \in 1 .. n : i < k => a + PTR + s <= ptrs[k].at
      /\ \A k \in 1 .. n : i < k => a + PTR + b <= ptrs[k].at
  <2>1. \A k \in 1 .. n : i < k => a + PTR + s <= ptrs[k].at
    BY <1>2, <1>3 DEF Divided
  <2> SUFFICES ASSUME NEW k \in 1 .. n, i < k  PROVE a + PTR + b <= ptrs[k].at
    BY <2>1
  <2>2. PICK u \in Nat : u = ptrs[k].at  BY <1>3
  <2>3. a + PTR + s <= u  BY <2>1, <2>2
  <2>4. a + PTR + b <= u  BY <1>2, <2>3, Less
  <2> QED  BY <2>2, <2>4
<1>5. q[i].at = a /\ q[i].size = 0  BY DEF SplitOff
<1>6. ASSUME NEW blk \in Nat \X Nat, NEW j \in DOMAIN ptrs, Owns(ptrs, j, blk)
      PROVE  /\ j # i /\ ptrs[j].size = 0 /\ blk[1] = ptrs[j].at + PTR
             /\ \A k \in 1 .. n : j < k => blk[1] + blk[2] <= ptrs[k].at
  <2>1. /\ ptrs[j].size = 0 /\ blk[1] = ptrs[j].at + PTR
        /\ \A k \in DOMAIN ptrs : j < k => blk[1] + blk[2] <= ptrs[k].at
    BY <1>6 DEF Owns
  <2>2. j # i  BY <1>2, <2>1, SMTT(60)
  <2> QED  BY <1>3, <2>1, <2>2
<1>7. CASE /\ s - b <= PTR /\ Len(q) = n
           /\ \A k \in 1 .. n : k # i => q[k] = ptrs[k]
  <2>1. i \in DOMAIN q  BY <1>3, <1>7
  <2>2. \A k \in 1 .. n : q[k].at = ptrs[k].at  BY <1>5, <1>7
  <2>3. Owns(q, i, <<a + PTR, b>>)
    <3>1. DOMAIN q = 1 .. n  BY <1>3, <1>7
    <3>2. \A k \in DOMAIN q : i < k => a + PTR + b <= q[k].at  BY <1>4, <2>2, <3>1
    <3>3. <<a + PTR, b>>[1] = a + PTR /\ <<a + PTR, b>>[2] = b  OBVIOUS
    <3> QED  BY <1>5, <3>2, <3>3 DEF Owns
  <2>4. ASSUME NEW blk \in Nat \X Nat, NEW j \in DOMAIN ptrs, Owns(ptrs, j, blk)
        PROVE  Owns(q, j, blk) /\ j \in DOMAIN q
    <3>1. /\ j # i /\ ptrs[j].size = 0 /\ blk[1] = ptrs[j].at + PTR
          /\ \A k \in 1 .. n : j < k => blk[1] + blk[2] <= ptrs[k].at
      BY <1>6, <2>4
    <3>2. DOMAIN q = 1 .. n /\ j \in 1 .. n  BY <1>3, <1>7
    <3>3. q[j] = ptrs[j]  BY <1>7, <3>1, <3>2
    <3>4. \A k \in DOMAIN q : j < k => blk[1] + blk[2] <= q[k].at
      BY <2>2, <3>1, <3>2
    <3> QED  BY <3>1, <3>2, <3>3, <3>4 DEF Owns
  <2> QED  BY <1>5, <2>1, <2>3, <2>4
<1>8. CASE /\ s - b > PTR /\ Len(q) = n + 1
           /\ q[i + 1].at = a + PTR + b /\ q[i + 1].size = (s - b) - PTR
           /\ \A k \in 1 .. n : k < i => q[k] = ptrs[k]
           /\ \A k \in 1 .. n : k > i => q[k + 1] = ptrs[k]
  <2>1. i \in DOMAIN q /\ DOMAIN q = 1 .. n + 1  BY <1>3, <1>8
  <2>2. ASSUME NEW k \in 1 .. n + 1
        PROVE  \/ k < i /\ k \in 1 .. n /\ q[k] = ptrs[k]
               \/ k = i
               \/ k = i + 1
               \/ k > i + 1 /\ k - 1 \in 1 .. n /\ q[k] = ptrs[k - 1]
    <3>1. CASE k < i
      <4>1. k \in 1 .. n  BY <1>3, <3>1
      <4> QED  BY <1>8, <3>1, <4>1
    <3>2. CASE k > i + 1
      <4>1. k - 1 \in 1 .. n /\ k - 1 > i /\ (k - 1) + 1 = k  BY <1>3, <3>2
      <4> QED  BY <1>8, <3>2, <4>1
    <3> QED  BY <1>3, <3>1, <3>2
  <2>3. Owns(q, i, <<a + PTR, b>>)
    <3>1. ASSUME NEW k \in DOMAIN q, i < k  PROVE a + PTR + b <= q[k].at
      <4>1. CASE k = i + 1
        <5>1. q[k].at = a + PTR + b  BY <1>8, <4>1
        <5> QED  BY <5>1, SMTT(60)
      <4>2. CASE k > i + 1 /\ k - 1 \in 1 .. n /\ q[k] = ptrs[k - 1]
        <5>1. i < k - 1  BY <1>3, <2>1, <4>2
        <5>2. a + PTR + b <= ptrs[k - 1].at  BY <1>4, <4>2, <5>1
        <5> QED  BY <4>2, <5>2
      <4>3. k \in 1 .. n + 1 /\ ~ k < i /\ k # i  BY <1>3, <2>1, <3>1
      <4> QED  BY <2>2, <4>1, <4>2, <4>3
    <3>2. <<a + PTR, b>>[1] = a + PTR /\ <<a + PTR, b>>[2] = b  OBVIOUS
    <3> QED  BY <1>5, <3>1, <3>2 DEF Owns
  <2>4. ASSUME NEW blk \in Nat \X Nat, NEW j \in DOMAIN ptrs, Owns(ptrs, j, blk)
        PROVE  \E k \in DOMAIN q : Owns(q, k, blk)
    <3>1. PICK e \in Nat : e = blk[1] + blk[2]  OBVIOUS
    <3>2. /\ j # i /\ j \in 1 .. n /\ ptrs[j].size = 0 /\ blk[1] = ptrs[j].at + PTR
          /\ \A k \in 1 .. n : j < k => e <= ptrs[k].at
      BY <1>3, <1>6, <2>4, <3>1
    <3>3. CASE j < i
      <4>1. q[j] = ptrs[j] /\ j \in DOMAIN q
        <5>1. j \in 1 .. n /\ j \in 1 .. n + 1  BY <3>2
        <5> QED  BY <1>8, <2>1, <3>3, <5>1
      <4>2. e <= a  BY <1>3, <3>2, <3>3
      <4>3. ASSUME NEW k \in DOMAIN q, j < k  PROVE e <= q[k].at
        <5>1. CASE k < i /\ k \in 1 .. n /\ q[k] = ptrs[k]  BY <3>2, <4>3, <5>1
        <5>2. CASE k = i  BY <1>5, <4>2, <5>2
        <5>3. CASE k = i + 1
          <6>1. e <= a + PTR + b  BY <4>2, Less
          <6>2. q[k].at = a + PTR + b  BY <1>8, <5>3
          <6> QED  BY <6>1, <6>2
        <5>4. CASE k > i + 1 /\ k - 1 \in 1 .. n /\ q[k] = ptrs[k - 1]
          <6>1. j < k - 1  BY <1>3, <3>2, <3>3, <5>4
          <6>2. e <= ptrs[k - 1].at  BY <3>2, <5>4, <6>1
          <6> QED  BY <5>4, <6>2
        <5>5. k \in 1 .. n + 1  BY <2>1
        <5> QED  BY <2>2, <5>1, <5>2, <5>3, <5>4, <5>5
      <4> QED  BY <3>1, <3>2, <4>1, <4>3 DEF Owns
    <3>4. CASE j > i
      <4>1. q[j + 1] = ptrs[j] /\ j + 1 \in DOMAIN q
        <5>1. j \in 1 .. n /\ j + 1 \in 1 .. n + 1 /\ j > i  BY <3>2, <3>4, SMTT(60)
        <5> QED  BY <1>8, <2>1, <5>1
      <4>2. ASSUME NEW k \in DOMAIN q, j + 1 < k  PROVE e <= q[k].at
        <5>1. k > i + 1  BY <1>3, <2>1, <3>2, <3>4, <4>2
        <5>2. k \in 1 .. n + 1 /\ ~ k < i /\ k # i /\ k # i + 1  BY <1>3, <2>1, <5>1, SMTT(60)
        <5>3. k - 1 \in 1 .. n /\ q[k] = ptrs[k - 1]  BY <2>2, <5>2
        <5>4. j < k - 1  BY <2>1, <3>2, <4>2, SMTT(60)
        <5>5. e <= ptrs[k - 1].at  BY <3>2, <5>3, <5>4
        <5> QED  BY <5>3, <5>5
      <4> QED  BY <3>1, <3>2, <4>1, <4>2 DEF Owns
    <3> QED  BY <1>3, <3>2, <3>3, <3>4
  <2> QED  BY <1>5, <2>1, <2>3, <2>4
<1> QED  BY <1>1, <1>2, <1>7, <1>8 DEF SplitOff

-----------------------------------------------------------------------------
(***************************************************************************)
(* The headers in their order: where each keeps its pointers, and that no  *)
(* two pointers of the heap are at the same place.                         *)
(***************************************************************************)
LEMMA HeaderParts ==
    ASSUME HeapTypes, HeadersInOrder, NEW i \in DOMAIN headers
    PROVE  /\ headers[i].start \in Nat /\ HeaderEnd(headers[i]) \in Nat
           /\ HeapStart <= headers[i].start /\ HeaderEnd(headers[i]) <= brk
           /\ headers[i].start + HDR <= HeaderEnd(headers[i])
           /\ headers[i].pointers \in Seq(PointerType)
           /\ \A j \in DOMAIN headers[i].pointers :
                 /\ headers[i].pointers[j].at \in Nat /\ headers[i].pointers[j].size \in Nat
                 /\ headers[i].start + HDR <= headers[i].pointers[j].at
                 /\ headers[i].pointers[j].at + PTR <= HeaderEnd(headers[i])
           /\ \A j, k \in DOMAIN headers[i].pointers :
                 j < k => headers[i].pointers[j].at + PTR <= headers[i].pointers[k].at
<1>1. PICK hd : hd = headers[i]  OBVIOUS
<1>2. hd \in HeaderType  BY <1>1 DEF HeapTypes
<1>3. /\ hd.start \in Nat /\ HeaderEnd(hd) \in Nat /\ hd.pointers \in Seq(PointerType)
  BY <1>2 DEF HeaderType, HeaderEnd
<1>4. /\ HeapStart <= hd.start /\ HeaderEnd(hd) <= brk
      /\ Divided(hd.pointers, hd.start + HDR, HeaderEnd(hd), Over(i))
  BY <1>1 DEF HeadersInOrder
<1>5. PICK q : q = hd.pointers  OBVIOUS
<1>6. /\ q \in Seq(PointerType) /\ q # <<>> /\ q[1].at = hd.start + HDR
      /\ \A j \in DOMAIN q : q[j].at + PTR <= HeaderEnd(hd)
      /\ \A j, k \in DOMAIN q : j < k => q[j].at + PTR + q[j].size <= q[k].at
  BY <1>3, <1>4, <1>5 DEF Divided
<1>7. /\ Len(q) \in Nat \ {0} /\ DOMAIN q = 1 .. Len(q)
      /\ \A j \in DOMAIN q : q[j].at \in Nat /\ q[j].size \in Nat
  BY <1>6, PointersTyped
<1>8. ASSUME NEW j \in DOMAIN q, NEW k \in DOMAIN q, j < k
      PROVE  q[j].at + PTR <= q[k].at
  <2>1. PICK x \in Nat, y \in Nat, z \in Nat : x = q[j].at /\ y = q[j].size /\ z = q[k].at
    BY <1>7
  <2>2. x + PTR + y <= z  BY <1>6, <1>8, <2>1
  <2>3. x + PTR <= z  BY <2>2
  <2> QED  BY <2>1, <2>3
<1>9. ASSUME NEW j \in DOMAIN q  PROVE hd.start + HDR <= q[j].at
  <2>1. PICK x \in Nat, f \in Nat : x = q[j].at /\ f = hd.start + HDR  BY <1>3, <1>7
  <2>2. CASE j = 1
    <3>1. f = x  BY <1>6, <2>1, <2>2
    <3> QED  BY <2>1, <3>1
  <2>3. CASE j # 1
    <3>1. 1 \in DOMAIN q /\ 1 < j  BY <1>7, <2>3
    <3>2. f + PTR <= x  BY <1>6, <1>8, <2>1, <3>1
    <3>3. f <= x  BY <3>2
    <3> QED  BY <2>1, <3>3
  <2> QED  BY <2>2, <2>3
<1>10. hd.start + HDR <= HeaderEnd(hd)
  <2>1. 1 \in DOMAIN q  BY <1>7
  <2>2. PICK f \in Nat, e \in Nat : f = hd.start + HDR /\ e = HeaderEnd(hd)  BY <1>3
  <2>3. f + PTR <= e  BY <1>6, <2>1, <2>2
  <2>4. f <= e  BY <2>3
  <2> QED  BY <2>2, <2>4
<1>11. \A j \in DOMAIN q : q[j].at + PTR <= HeaderEnd(hd)  BY <1>6
<1> QED  BY <1>1, <1>3, <1>4, <1>5, <1>7, <1>8, <1>9, <1>10, <1>11

(* A header ends before the next begins. *)
LEMMA HeadersApart ==
    ASSUME HeapTypes, NEW i \in DOMAIN headers, NEW k \in DOMAIN headers, i # k
    PROVE  i < k \/ k < i
BY DEF HeapTypes

LEMMA PlaceOnce ==
    ASSUME HeapTypes, HeadersInOrder,
           NEW i \in DOMAIN headers, NEW j \in DOMAIN headers[i].pointers,
           NEW k \in DOMAIN headers, NEW l \in DOMAIN headers[k].pointers,
           headers[i].pointers[j].at = headers[k].pointers[l].at
    PROVE  i = k /\ j = l
<1>1. ASSUME NEW m \in DOMAIN headers, NEW n \in DOMAIN headers, m < n,
             NEW x \in DOMAIN headers[m].pointers, NEW y \in DOMAIN headers[n].pointers
      PROVE  headers[m].pointers[x].at # headers[n].pointers[y].at
  <2>1. PICK u \in Nat, v \in Nat, e \in Nat, s \in Nat :
            /\ u = headers[m].pointers[x].at /\ v = headers[n].pointers[y].at
            /\ e = HeaderEnd(headers[m]) /\ s = headers[n].start
    BY HeaderParts
  <2>2. u + PTR <= e /\ s + HDR <= v  BY <2>1, HeaderParts
  <2>3. e <= s  BY <1>1, <2>1 DEF HeadersInOrder
  <2>4. u # v  BY <2>2, <2>3
  <2> QED  BY <2>1, <2>4
<1>2. i = k
  <2> SUFFICES ASSUME i # k  PROVE FALSE  OBVIOUS
  <2> QED  BY <1>1, HeadersApart
<1>3. j = l
  <2>1. PICK q : q = headers[i].pointers  OBVIOUS
  <2>2. j \in DOMAIN q /\ l \in DOMAIN q /\ q[j].at = q[l].at  BY <1>2, <2>1
  <2>3. /\ q \in Seq(PointerType) /\ \A x \in DOMAIN q : q[x].at \in Nat
        /\ \A x, y \in DOMAIN q : x < y => q[x].at + PTR <= q[y].at
    BY <2>1, HeaderParts
  <2>4. PICK u \in Nat : u = q[j].at /\ u = q[l].at  BY <2>2, <2>3
  <2>5. ~ (u + PTR <= u)  OBVIOUS
  <2>6. ~ j < l /\ ~ l < j  BY <2>2, <2>3, <2>4, <2>5
  <2>7. j \in Nat /\ l \in Nat  BY <2>2, <2>3
  <2> QED  BY <2>6, <2>7
<1> QED  BY <1>2, <1>3

(* Only the kernel itself is at work then. *)
LEMMA NoHeaders ==
    ASSUME BlocksInv, ~ MMU_enabled
    PROVE  headers = <<>> /\ DOMAIN headers = {}
<1>1. headers = <<>>  BY Zenon DEF BlocksInv
<1> QED  BY <1>1

LEMMA InitBlocks == Init => BlocksInv
<1> SUFFICES ASSUME Init  PROVE BlocksInv  OBVIOUS
<1>1. headers = <<>> /\ DOMAIN headers = {} /\ held = {} /\ MMU_enabled = FALSE
      /\ pc["main"] = "idle"
  BY ContextsAre DEF Init
<1>2. HeadersInOrder  BY <1>1 DEF HeadersInOrder
<1>3. HeldOwned  BY <1>1 DEF HeldOwned
<1>4. InHand  BY <1>1 DEF InHand
<1> QED  BY <1>1, <1>2, <1>3, <1>4 DEF BlocksInv

(* A step that changes no header, and takes blocks away at most. *)
LEMMA SameHeaders ==
    ASSUME BlocksInv, UNCHANGED <<system, headers, brk>>, held' \subseteq held, InHand'
    PROVE  BlocksInv'
<1>1. HeadersInOrder'  BY DEF BlocksInv, HeadersInOrder
<1>2. HeldOwned'  BY DEF BlocksInv, HeldOwned, Early, system
<1> QED  BY <1>1, <1>2 DEF BlocksInv, system

LEMMA CallBlocks ==
    ASSUME HeapInv, BlocksInv, Call("main")
    PROVE  BlocksInv'
<1>1. pc'["main"] = "header"  BY ContextsAre DEF HeapInv, HeapTypes, Call, Goto
<1>2. InHand'  BY <1>1 DEF InHand
<1> QED  BY <1>2, SameHeaders DEF Call

LEMMA kfreeBlocks ==
    ASSUME HeapInv, BlocksInv, kfree("main")
    PROVE  BlocksInv'
<1>1. pc'["main"] \in {"idle", "fault"}  BY ContextsAre DEF HeapInv, HeapTypes, kfree, Goto
<1>2. InHand'  BY <1>1 DEF InHand
<1> QED  BY <1>2, SameHeaders DEF kfree

LEMMA GrowFailsBlocks ==
    ASSUME HeapInv, BlocksInv, GrowFails("main")
    PROVE  BlocksInv'
<1>1. pc'["main"] = "idle"
  BY ContextsAre DEF HeapInv, HeapTypes, GrowFails, Return, Goto
<1>2. InHand'  BY <1>1 DEF InHand
<1>3. UNCHANGED headers  BY ContextsAre, ListEnds
<1> QED  BY <1>2, <1>3, SameHeaders DEF GrowFails

LEMMA FindHeaderBlocks ==
    ASSUME HeapInv, BlocksInv, FindHeader("main")
    PROVE  BlocksInv'
<1>1. pc \in [Contexts -> Labels] /\ h \in [Contexts -> Nat] /\ "main" \in Contexts
  BY ContextsAre DEF HeapInv, HeapTypes
<1>2. /\ MMU_enabled /\ UNCHANGED <<system, headers, brk, held>>
      /\ \/ pc' = [pc EXCEPT !["main"] = "grow"] /\ h' = [h EXCEPT !["main"] = Len(headers)]
         \/ pc' = [pc EXCEPT !["main"] = "pointer"]
  BY DEF FindHeader, Goto
<1>3. \/ pc'["main"] = "grow" /\ h'["main"] = Len(headers)
      \/ pc'["main"] = "pointer"
  BY <1>1, <1>2
<1>4. headers # <<>>  BY <1>2 DEF BlocksInv
<1>5. InHand'  BY <1>2, <1>3, <1>4 DEF InHand
<1> QED  BY <1>2, <1>5, SameHeaders

LEMMA FindPointerBlocks ==
    ASSUME HeapInv, BlocksInv, FindPointer("main")
    PROVE  BlocksInv'
<1>1. /\ pc \in [Contexts -> Labels] /\ p \in [Contexts -> Nat] /\ "main" \in Contexts
  BY ContextsAre DEF HeapInv, HeapTypes
<1> DEFINE ptrs == headers[h["main"]].pointers
           fit == {i \in DOMAIN ptrs : ptrs[i].size >= bytes["main"]}
<1>2. UNCHANGED <<system, headers, brk, held>>  BY DEF FindPointer
<1>3. CASE fit = {}
  <2>1. pc' = [pc EXCEPT !["main"] = "fault"]  BY <1>3 DEF FindPointer, Fault, Goto
  <2>2. pc'["main"] = "fault"  BY <1>1, <2>1
  <2>3. InHand'  BY <2>2 DEF InHand
  <2> QED  BY <1>2, <2>3, SameHeaders
<1>4. CASE fit # {}
  <2>1. /\ pc' = [pc EXCEPT !["main"] = "split"]
        /\ p' = [p EXCEPT !["main"] = ptrs[Min(fit)].at]
        /\ UNCHANGED <<bytes, h>>
    BY <1>4 DEF FindPointer, Goto
  <2>2. PICK m \in DOMAIN ptrs : m = Min(fit) /\ ptrs[m].size >= bytes["main"]
    <3>1. h["main"] \in DOMAIN headers /\ ptrs \in Seq(PointerType)
      <4>1. h["main"] \in DOMAIN headers  BY <1>1 DEF HeapInv, InPlace, FindPointer
      <4>2. headers[h["main"]] \in HeaderType  BY <4>1 DEF HeapInv, HeapTypes
      <4> QED  BY <4>1, <4>2 DEF HeaderType
    <3>2. fit \in SUBSET Nat  BY <3>1
    <3>3. Min(fit) \in fit
      <4> HIDE DEF fit
      <4> QED  BY <1>4, <3>2, MinOf
    <3> QED  BY <3>3
  <2> HIDE DEF fit
  <2>3. pc'["main"] = "split" /\ p'["main"] = ptrs[m].at  BY <1>1, <2>1, <2>2
  <2>4. InHand'  BY <1>2, <2>1, <2>2, <2>3 DEF InHand
  <2> QED  BY <1>2, <2>4, SameHeaders
<1> QED  BY <1>3, <1>4

(* The first header: one pointer, whose room ends with the page. *)
LEMMA mm_initBlocks ==
    ASSUME HeapInv, BlocksInv, mm_init
    PROVE  BlocksInv'
<1> DEFINE room == PAGE - HDR - PTR
           first == Header(HeapStart, PAGE, room)
<1>1. headers = <<>> /\ DOMAIN headers = {}  BY NoHeaders DEF mm_init
<1>2. /\ headers' = <<first>> /\ MMU_enabled' = TRUE /\ brk' = HeapStart + PAGE
      /\ UNCHANGED <<MemStack, held, pc, bytes, h, p, max>> /\ pc["main"] = "idle"
  BY DEF mm_init
<1>3. room \in 0 .. WORD - 1 /\ (HeapStart + HDR) + PTR + room = HeapStart + PAGE
      /\ (HeapStart + HDR) + PTR <= HeapStart + PAGE
  OBVIOUS
<1> HIDE DEF room
<1>4. /\ first \in HeaderType /\ first.start = HeapStart /\ first.size = PAGE
      /\ first.pointers = <<Pointer(HeapStart + HDR, room)>>
  BY <1>3, HeaderTyped
<1> HIDE DEF first
<1>5. headers' # <<>> /\ DOMAIN headers' = {1} /\ headers'[1] = first  BY <1>2
<1>6. HeaderEnd(first) = HeapStart + PAGE  BY <1>4 DEF HeaderEnd
<1>7. Divided(first.pointers, HeapStart + HDR, HeapStart + PAGE, 0)
  <2>1. PICK q : q = first.pointers  OBVIOUS
  <2>2. /\ q # <<>> /\ DOMAIN q = {1} /\ Len(q) = 1
        /\ q[1].at = HeapStart + HDR /\ q[1].size = room
    BY <1>4, <2>1 DEF Pointer
  <2>3. q[1].at + PTR + q[1].size = HeapStart + PAGE /\ q[1].at + PTR <= HeapStart + PAGE
    BY <1>3, <2>2
  <2>4. (HeapStart + PAGE) + 0 = HeapStart + PAGE /\ ~ 1 < 1  OBVIOUS
  <2> QED  BY <2>1, <2>2, <2>3, <2>4 DEF Divided
<1>8. HeadersInOrder'
  <2>1. HeapStart <= HeapStart /\ HeapStart + PAGE <= HeapStart + PAGE /\ ~ 1 < 1  OBVIOUS
  <2> QED  BY <1>2, <1>4, <1>5, <1>6, <1>7, <2>1 DEF HeadersInOrder, Over
<1>9. HeldOwned'  BY <1>1, <1>2 DEF BlocksInv, HeldOwned, Early
<1>10. InHand'  BY <1>2 DEF InHand
<1> QED  BY <1>2, <1>5, <1>8, <1>9, <1>10 DEF BlocksInv

(* The new block of the early stack lies above the others. *)
LEMMA MemstckBlocks ==
    ASSUME HeapInv, BlocksInv, memstck_malloc("main")
    PROVE  BlocksInv'
<1>1. headers = <<>> /\ DOMAIN headers = {}  BY NoHeaders DEF memstck_malloc
<1>2. pc'["main"] = "idle"
  BY ContextsAre DEF HeapInv, HeapTypes, memstck_malloc, Return, Goto
<1>3. UNCHANGED <<MMU_enabled, headers, brk>>  BY DEF memstck_malloc
<1>4. HeadersInOrder'  BY <1>3 DEF BlocksInv, HeadersInOrder
<1>5. InHand'  BY <1>2 DEF InHand
<1>6. held \subseteq Nat \X (Nat \ {0}) /\ MemStack \in Nat /\ StackStart <= MemStack
  BY DEF HeapInv, HeapTypes, Above
<1>7. \A b \in held : Early(b)  BY <1>1 DEF BlocksInv, HeldOwned
<1>8. CASE UNCHANGED <<held, MemStack>>
  <2>1. HeldOwned'  BY <1>3, <1>8 DEF BlocksInv, HeldOwned, Early
  <2> QED  BY <1>3, <1>4, <1>5, <2>1 DEF BlocksInv
<1>9. CASE ~ UNCHANGED <<held, MemStack>>
  <2>1. PICK n \in Nat \ {0} : n = bytes["main"]
    BY ContextsAre DEF HeapInv, InPlace, memstck_malloc
  <2>2. /\ held' = held \cup {<<MemStack, n>>} /\ MemStack + n < StackEnd
        /\ MemStack' = MemStack + n + 1
    BY <1>9, <2>1 DEF memstck_malloc
  <2>3. ASSUME NEW b \in held
        PROVE  /\ b[1] \in Nat /\ b[2] \in Nat
               /\ StackStart <= b[1] /\ b[1] + b[2] < StackEnd /\ b[1] + b[2] < MemStack
    BY <1>6, <1>7 DEF Early
  <2>4. ASSUME NEW b \in held'  PROVE Early(b)'
    <3>1. CASE b \in held
      <4>1. b[1] + b[2] < MemStack'  BY <1>6, <2>2, <2>3, <3>1
      <4> QED  BY <2>3, <3>1, <4>1 DEF Early
    <3>2. CASE b = <<MemStack, n>>
      <4>1. MemStack + n < MemStack'  BY <1>6, <2>2
      <4> QED  BY <1>6, <2>2, <3>2, <4>1 DEF Early
    <3> QED  BY <2>2, <2>4, <3>1, <3>2
  <2>5. ASSUME NEW b \in held  PROVE b[1] + b[2] < MemStack /\ b[1] # MemStack
    BY <1>6, <2>3
  <2>6. ASSUME NEW b \in held', NEW c \in held', b # c
        PROVE  b[1] + b[2] < c[1] \/ c[1] + c[2] < b[1]
    <3>1. CASE b \in held /\ c \in held  BY <1>7, <2>6, <3>1 DEF BlocksInv, HeldOwned
    <3>2. CASE b = <<MemStack, n>> /\ c \in held  BY <2>5, <3>2
    <3>3. CASE c = <<MemStack, n>> /\ b \in held  BY <2>5, <3>3
    <3> QED  BY <2>2, <2>6, <3>1, <3>2, <3>3
  <2>7. ASSUME NEW b \in held', NEW c \in held', b[1] = c[1]  PROVE b = c
    <3>1. CASE b \in held /\ c \in held  BY <2>7, <3>1 DEF BlocksInv, HeldOwned
    <3>2. CASE b = <<MemStack, n>> /\ c \in held  BY <2>5, <2>7, <3>2
    <3>3. CASE c = <<MemStack, n>> /\ b \in held  BY <2>5, <2>7, <3>3
    <3> QED  BY <2>2, <2>7, <3>1, <3>2, <3>3
  <2>8. HeldOwned'  BY <2>4, <2>6, <2>7 DEF HeldOwned
  <2> QED  BY <1>3, <1>4, <1>5, <2>8 DEF BlocksInv
<1> QED  BY <1>8, <1>9

(* A header whose pointers stay, or divide the same room, is where it was. *)
LEMMA OrderKept ==
    ASSUME HeadersInOrder, brk' = brk, DOMAIN headers' = DOMAIN headers,
           \A i \in DOMAIN headers :
              /\ headers'[i].start = headers[i].start /\ headers'[i].size = headers[i].size
              /\ Divided(headers'[i].pointers, headers[i].start + HDR,
                         HeaderEnd(headers[i]), Over(i))
    PROVE  HeadersInOrder'
<1>1. \A i \in DOMAIN headers : HeaderEnd(headers'[i]) = HeaderEnd(headers[i])
  BY DEF HeaderEnd
<1> QED  BY <1>1 DEF HeadersInOrder, Over

LEMMA FindMaxBlocks ==
    ASSUME HeapInv, BlocksInv, FindMax("main")
    PROVE  BlocksInv'
<1>1. /\ pc["main"] = "max" /\ pc'["main"] = "store"
      /\ UNCHANGED <<system, headers, brk, held, bytes, h, p>>
  BY ContextsAre DEF HeapInv, HeapTypes, FindMax, Goto
<1>2. InHand'  BY <1>1 DEF BlocksInv, InHand
<1> QED  BY <1>1, <1>2, SameHeaders

LEMMA FinishBlocks ==
    ASSUME HeapInv, BlocksInv, Finish("main")
    PROVE  BlocksInv'
<1>1. PICK k : k = h["main"]  OBVIOUS
<1>2. k \in DOMAIN headers /\ headers \in Seq(HeaderType)
  BY <1>1, ContextsAre DEF HeapInv, HeapTypes, InPlace, Finish
<1>3. PICK j \in DOMAIN headers[k].pointers :
          /\ headers[k].pointers[j].at = p["main"]
          /\ Owns(headers[k].pointers, j, <<p["main"] + PTR, bytes["main"]>>)
          /\ \A b \in held : b[1] # p["main"] + PTR
  BY <1>1 DEF BlocksInv, InHand, Finish
<1>4. PICK blk : blk = <<p["main"] + PTR, bytes["main"]>>  OBVIOUS
<1>5. /\ headers' = [headers EXCEPT ![k].size_max = max["main"]]
      /\ held' = held \cup {blk} /\ UNCHANGED <<system, brk>>
  BY <1>1, <1>4 DEF Finish
<1>6. /\ DOMAIN headers' = DOMAIN headers /\ headers' # <<>>
      /\ \A i \in DOMAIN headers :
            /\ headers'[i].start = headers[i].start /\ headers'[i].size = headers[i].size
            /\ headers'[i].pointers = headers[i].pointers
  <2>1. \A i \in DOMAIN headers : headers[i] \in HeaderType  BY <1>2
  <2>2. DOMAIN headers' = DOMAIN headers  BY <1>5
  <2>3. headers' # <<>>  BY <1>2, <2>2
  <2>4. \A i \in DOMAIN headers : i # k => headers'[i] = headers[i]  BY <1>5
  <2>5. headers'[k] = [headers[k] EXCEPT !.size_max = max["main"]]
    BY <1>2, <1>5
  <2>6. /\ headers'[k].start = headers[k].start /\ headers'[k].size = headers[k].size
        /\ headers'[k].pointers = headers[k].pointers
    BY <1>2, <2>1, <2>5 DEF HeaderType
  <2> QED  BY <2>2, <2>3, <2>4, <2>6
<1>7. HeadersInOrder'
  <2>1. HeadersInOrder  BY DEF BlocksInv
  <2> QED  BY <1>5, <1>6, <2>1, OrderKept DEF HeadersInOrder
<1>8. p["main"] \in Nat /\ HeapStart <= p["main"] /\ bytes["main"] \in Nat \ {0}
  <2>1. p["main"] \in Nat  BY ContextsAre DEF HeapInv, HeapTypes
  <2>2. HeapStart <= p["main"]  BY <1>2, <1>3 DEF HeapInv, Above
  <2>3. InPlace("main") /\ pc["main"] = "store"  BY ContextsAre DEF HeapInv, Finish
  <2>4. bytes["main"] \in Requests  BY <2>3 DEF InPlace
  <2> QED  BY <2>1, <2>2, <2>4, HeapAssumption
<1>9. blk[1] = p["main"] + PTR /\ blk[2] = bytes["main"] /\ ~ Early(blk)
  <2>1. blk[1] = p["main"] + PTR /\ blk[2] = bytes["main"]  BY <1>4
  <2>2. ~ (p["main"] + PTR + bytes["main"] < StackEnd)  BY <1>8
  <2> QED  BY <2>1, <2>2 DEF Early
<1>10. HeldOwned'
  <2>1. HeldOwned  BY DEF BlocksInv
  <2>2. \A b : Early(b)' = Early(b)  BY <1>5 DEF Early, system
  <2>3. \A b : (\E i \in DOMAIN headers : \E l \in DOMAIN headers[i].pointers :
                     Owns(headers[i].pointers, l, b))
            => \E i \in DOMAIN headers' : \E l \in DOMAIN headers'[i].pointers :
                     Owns(headers'[i].pointers, l, b)
    BY <1>6
  <2>4. \E i \in DOMAIN headers' : \E l \in DOMAIN headers'[i].pointers :
            Owns(headers'[i].pointers, l, blk)
    BY <1>2, <1>3, <1>4, <2>3
  <2>5. \A b \in held' : Early(b)' \/ \E i \in DOMAIN headers' :
              \E l \in DOMAIN headers'[i].pointers : Owns(headers'[i].pointers, l, b)
    BY <1>5, <2>1, <2>2, <2>3, <2>4 DEF HeldOwned
  <2>6. \A b, c \in held' : Early(b)' /\ Early(c)' /\ b # c =>
            b[1] + b[2] < c[1] \/ c[1] + c[2] < b[1]
    BY <1>5, <1>9, <2>1, <2>2 DEF HeldOwned
  <2>7. \A b, c \in held' : b[1] = c[1] => b = c
    BY <1>3, <1>5, <1>9, <2>1 DEF HeldOwned
  <2> QED  BY <2>5, <2>6, <2>7 DEF HeldOwned
<1>11. InHand'
  <2>1. pc'["main"] = "idle"
    BY ContextsAre DEF HeapInv, HeapTypes, Finish, Return, Goto
  <2> QED  BY <2>1 DEF InHand
<1>12. MMU_enabled' = (headers' # <<>>)
  <2>1. headers # <<>>  BY <1>2
  <2> QED  BY <1>5, <1>6, <2>1 DEF BlocksInv, system
<1> QED  BY <1>7, <1>10, <1>11, <1>12 DEF BlocksInv

(* The new header lies behind the others, and its room runs over its end. *)
LEMMA GrowBlocks ==
    ASSUME HeapInv, BlocksInv, Grow("main")
    PROVE  BlocksInv'
<1>1. HeapTypes /\ InPlace("main")  BY ContextsAre DEF HeapInv
<1>2. PICK n \in Nat : n = Len(headers) /\ DOMAIN headers = 1 .. n  BY <1>1 DEF HeapTypes
<1>3. h["main"] = n /\ headers # <<>> /\ headers \in Seq(HeaderType) /\ n # 0
  <2>1. h["main"] = n /\ headers # <<>>  BY <1>2 DEF BlocksInv, InHand, Grow
  <2>2. headers \in Seq(HeaderType)  BY <1>1 DEF HeapTypes
  <2> QED  BY <1>2, <2>1, <2>2
<1>4. PICK size \in Nat : size = GrowBy(bytes["main"]) /\ HDR + PTR <= size
  <2>1. bytes["main"] \in Nat \ {0}  BY <1>1 DEF InPlace, Grow
  <2>2. PagesFor(bytes["main"]) <= ORDER(MAX_ORDER - 1)  BY DEF Grow
  <2>3. PICK s \in Nat, b \in Nat \ {0} :
            s = GrowBy(bytes["main"]) /\ b = bytes["main"] /\ b + HDR + PTR <= s
    BY <2>1, <2>2, GrowFits
  <2>4. HDR + PTR <= s  BY <2>3
  <2> QED  BY <2>3, <2>4
<1> DEFINE new == Header(brk, size, size)
<1>5. /\ headers' = Append(SubSeq(headers, 1, n), new) /\ brk' = brk + size
      /\ UNCHANGED <<system, held>> /\ brk + size <= HeapEnd
  BY <1>3, <1>4 DEF Grow
<1>6. brk \in Nat /\ HeapStart <= brk  BY DEF HeapInv, HeapTypes, Above
<1>7. /\ new \in HeaderType /\ new.start = brk /\ new.size = size
      /\ new.pointers = <<Pointer(brk + HDR, size)>>
  <2>1. size \in 0 .. WORD - 1  BY <1>5, <1>6
  <2>2. HDR + PTR <= size  BY <1>4
  <2>3. brk \in Nat  BY <1>6
  <2>4. /\ Header(brk, size, size) \in HeaderType
        /\ Header(brk, size, size).start = brk /\ Header(brk, size, size).size = size
        /\ Header(brk, size, size).pointers = <<Pointer(brk + HDR, size)>>
    BY ONLY <2>1, <2>2, <2>3, HeaderTyped
  <2> QED  BY ONLY <2>4
<1> HIDE DEF new
<1>8. /\ DOMAIN headers' = 1 .. n + 1 /\ headers'[n + 1] = new /\ headers' # <<>>
      /\ \A i \in 1 .. n : headers'[i] = headers[i]
  <2>1. SubSeq(headers, 1, n) = headers  BY <1>2, <1>3
  <2>2. headers' = Append(headers, new)  BY <1>5, <2>1
  <2> QED  BY <1>2, <1>3, <1>7, <2>2
<1>9. HeaderEnd(new) = brk + size  BY <1>7 DEF HeaderEnd
<1>10. Divided(new.pointers, brk + HDR, brk + size, HDR + PTR)
  <2>1. PICK q : q = new.pointers  OBVIOUS
  <2>2. /\ q # <<>> /\ DOMAIN q = {1} /\ Len(q) = 1
        /\ q[1].at = brk + HDR /\ q[1].size = size
    BY <1>7, <2>1 DEF Pointer
  <2>3. /\ (brk + HDR) + PTR + size = (brk + size) + (HDR + PTR)
        /\ (brk + HDR) + PTR <= brk + size
    BY <1>4, <1>6
  <2>4. ~ 1 < 1  OBVIOUS
  <2> QED  BY <2>1, <2>2, <2>3, <2>4 DEF Divided
<1>11. HeadersInOrder'
  <2>1. HeadersInOrder  BY DEF BlocksInv
  <2>2. ASSUME NEW i \in 1 .. n + 1
        PROVE  /\ HeapStart <= headers'[i].start /\ HeaderEnd(headers'[i]) <= brk'
               /\ Divided(headers'[i].pointers, headers'[i].start + HDR,
                          HeaderEnd(headers'[i]), Over(i))
    <3>1. CASE i = n + 1
      <4>1. Over(i) = HDR + PTR  BY <1>3, <3>1 DEF Over
      <4>2. brk + size <= brk + size  BY <1>6
      <4> QED  BY <1>5, <1>6, <1>7, <1>8, <1>9, <1>10, <3>1, <4>1, <4>2
    <3>2. CASE i \in 1 .. n
      <4>1. headers'[i] = headers[i] /\ i \in DOMAIN headers  BY <1>2, <1>8, <3>2
      <4>2. /\ HeapStart <= headers[i].start /\ HeaderEnd(headers[i]) <= brk
            /\ Divided(headers[i].pointers, headers[i].start + HDR,
                       HeaderEnd(headers[i]), Over(i))
        BY <2>1, <4>1 DEF HeadersInOrder
      <4>3. HeaderEnd(headers[i]) <= brk'
        <5>1. PICK e \in Nat : e = HeaderEnd(headers[i])  BY <1>1, <2>1, <4>1, HeaderParts
        <5>2. e <= brk + size  BY <1>6, <4>2, <5>1
        <5> QED  BY <1>5, <5>1, <5>2
      <4> QED  BY <4>1, <4>2, <4>3
    <3> QED  BY <3>1, <3>2
  <2>3. ASSUME NEW i \in 1 .. n + 1, NEW k \in 1 .. n + 1, i < k
        PROVE  HeaderEnd(headers'[i]) <= headers'[k].start
    <3>1. i \in 1 .. n  BY <2>3
    <3>2. headers'[i] = headers[i] /\ i \in DOMAIN headers  BY <1>2, <1>8, <3>1
    <3>3. CASE k = n + 1  BY <1>7, <1>8, <2>1, <3>2, <3>3 DEF HeadersInOrder
    <3>4. CASE k \in 1 .. n
      <4>1. headers'[k] = headers[k] /\ k \in DOMAIN headers  BY <1>2, <1>8, <3>4
      <4> QED  BY <2>1, <2>3, <3>2, <4>1 DEF HeadersInOrder
    <3> QED  BY <3>3, <3>4
  <2> QED  BY <1>8, <2>2, <2>3 DEF HeadersInOrder
<1>12. HeldOwned'
  <2>1. HeldOwned  BY DEF BlocksInv
  <2>2. \A b : Early(b)' = Early(b)  BY <1>5 DEF Early, system
  <2>3. \A i \in DOMAIN headers : i \in DOMAIN headers' /\ headers'[i] = headers[i]
    <3> SUFFICES ASSUME NEW i \in 1 .. n  PROVE i \in 1 .. n + 1  BY <1>2, <1>8
    <3> QED  OBVIOUS
  <2>4. \A b \in held' : Early(b)' \/ \E i \in DOMAIN headers' :
              \E l \in DOMAIN headers'[i].pointers : Owns(headers'[i].pointers, l, b)
    BY <1>5, <2>1, <2>2, <2>3 DEF HeldOwned
  <2> QED  BY <1>5, <2>1, <2>2, <2>4 DEF HeldOwned
<1>13. InHand'
  <2>1. pc'["main"] = "pointer"  BY <1>1, ContextsAre DEF HeapTypes, Grow, Goto
  <2> QED  BY <2>1 DEF InHand
<1>14. MMU_enabled' = (headers' # <<>>)
  BY <1>3, <1>5, <1>8 DEF BlocksInv, system
<1> QED  BY <1>11, <1>12, <1>13, <1>14 DEF BlocksInv

(* No block begins behind a pointer that has room left. *)
LEMMA NoneBehind ==
    ASSUME HeapInv, BlocksInv, NEW k \in DOMAIN headers,
           NEW i \in DOMAIN headers[k].pointers, headers[k].pointers[i].size > 0,
           NEW b \in held
    PROVE  b[1] # headers[k].pointers[i].at + PTR
<1>1. HeapTypes /\ Above /\ HeadersInOrder /\ HeldOwned  BY DEF HeapInv, BlocksInv
<1>2. PICK a \in Nat : a = headers[k].pointers[i].at  BY <1>1, HeaderParts
<1>3. HeapStart <= a  BY <1>1, <1>2 DEF Above
<1>4. b[1] \in Nat /\ b[2] \in Nat  BY <1>1 DEF HeapTypes
<1>5. CASE Early(b)
  <2>1. b[1] + b[2] < StackEnd  BY <1>5 DEF Early
  <2>2. b[1] # a + PTR  BY <1>3, <1>4, <2>1
  <2> QED  BY <1>2, <2>2
<1>6. ASSUME NEW m \in DOMAIN headers, NEW l \in DOMAIN headers[m].pointers,
             Owns(headers[m].pointers, l, b), b[1] = a + PTR
      PROVE  FALSE
  <2>1. PICK u \in Nat : u = headers[m].pointers[l].at  BY <1>1, HeaderParts
  <2>2. u + PTR = a + PTR  BY <1>6, <2>1 DEF Owns
  <2>3. u = a  BY <2>2
  <2>4. m = k /\ l = i  BY <1>1, <1>2, <2>1, <2>3, PlaceOnce
  <2>5. headers[k].pointers[i].size = 0  BY <1>6, <2>4 DEF Owns
  <2> QED  BY <2>5
<1> QED  BY <1>1, <1>2, <1>5, <1>6 DEF HeldOwned

(***************************************************************************)
(* Splitting keeps the division of the room, and the pointers of blocks.   *)
(***************************************************************************)
LEMMA SplitBlocks ==
    ASSUME HeapInv, BlocksInv, Split("main")
    PROVE  BlocksInv'
<1>1. HeapTypes /\ InPlace("main") /\ HeadersInOrder /\ HeldOwned
  BY ContextsAre DEF HeapInv, BlocksInv
<1>2. PICK k \in DOMAIN headers : k = h["main"]  BY <1>1 DEF InPlace, Split
<1>3. PICK hd : hd = headers[k]  OBVIOUS
<1>4. PICK ptrs \in Seq(PointerType) : ptrs = hd.pointers  BY <1>1, <1>3, HeaderParts
<1>5. PICK b \in Nat \ {0} : b = bytes["main"]  BY <1>1 DEF InPlace, Split
<1>6. PICK i \in DOMAIN ptrs : ptrs[i].at = p["main"] /\ ptrs[i].size >= b
  BY <1>2, <1>3, <1>4, <1>5 DEF BlocksInv, InHand, Split
<1>7. i \in 1 .. Len(ptrs) /\ DOMAIN ptrs = 1 .. Len(ptrs)  BY PointersTyped
<1>8. PICK a \in Nat : a = p["main"] /\ a = ptrs[i].at  BY <1>6, <1>7, PointersTyped
<1>9. PICK q : q = Allocated(hd, Divide(hd, a, b), a)  OBVIOUS
<1>10. PICK first \in Nat, end \in Nat, over \in Nat :
          first = hd.start + HDR /\ end = HeaderEnd(hd) /\ over = Over(k)
  <2>1. hd.start + HDR \in Nat /\ HeaderEnd(hd) \in Nat  BY <1>1, <1>3, HeaderParts
  <2>2. Over(k) \in Nat  BY DEF Over
  <2> QED  BY <2>1, <2>2
<1>11. Divided(ptrs, first, end, over)  BY <1>1, <1>3, <1>4, <1>10 DEF HeadersInOrder
<1>12. q \in Seq(PointerType) /\ SplitOff(ptrs, q, i, a, b, ptrs[i].size)
  BY <1>4, <1>6, <1>7, <1>8, <1>9, <1>11, SplitParts
<1>13. CASE ~ PointersInside(hd, q)
  <2>1. UNCHANGED <<system, headers, brk, held>> /\ pc' = [pc EXCEPT !["main"] = "fault"]
    BY <1>2, <1>3, <1>5, <1>8, <1>9, <1>13 DEF Split, Fault, Goto
  <2>2. InHand'  BY <1>1, <2>1, ContextsAre DEF HeapTypes, InHand
  <2> QED  BY <2>1, <2>2, SameHeaders
<1>14. CASE PointersInside(hd, q)
  <2>1. /\ headers' = [headers EXCEPT ![k].pointers = q]
        /\ pc' = [pc EXCEPT !["main"] = "max"]
        /\ UNCHANGED <<bytes, h, p, system, brk, held>>
    BY <1>2, <1>3, <1>5, <1>8, <1>9, <1>14 DEF Split, Goto
  <2>2. /\ DOMAIN headers' = DOMAIN headers /\ headers' # <<>>
        /\ headers'[k].pointers = q
        /\ \A m \in DOMAIN headers : m # k => headers'[m] = headers[m]
        /\ \A m \in DOMAIN headers :
              headers'[m].start = headers[m].start /\ headers'[m].size = headers[m].size
    <3>1. headers \in Seq(HeaderType) /\ headers[k] \in HeaderType  BY <1>1 DEF HeapTypes
    <3>2. headers'[k] = [headers[k] EXCEPT !.pointers = q]  BY <2>1, <3>1
    <3>3. /\ headers'[k].pointers = q /\ headers'[k].start = headers[k].start
          /\ headers'[k].size = headers[k].size
      BY <3>1, <3>2 DEF HeaderType
    <3>4. DOMAIN headers' = DOMAIN headers
          /\ \A m \in DOMAIN headers : m # k => headers'[m] = headers[m]
      BY <2>1, <3>1
    <3>5. headers' # <<>>  BY <3>4
    <3> QED  BY <3>3, <3>4, <3>5
  <2>3. Divided(q, first, end, over)
    <3>1. \A m \in DOMAIN q : q[m].at + PTR <= end  BY <1>10, <1>14 DEF PointersInside
    <3> QED  BY <1>6, <1>7, <1>8, <1>11, <1>12, <3>1, DividedKept
  <2>4. HeadersInOrder'
    <3>1. ASSUME NEW m \in DOMAIN headers
          PROVE  Divided(headers'[m].pointers, headers[m].start + HDR,
                         HeaderEnd(headers[m]), Over(m))
      <4>1. CASE m = k  BY <1>3, <1>10, <2>2, <2>3, <4>1
      <4>2. CASE m # k  BY <1>1, <2>2, <4>2 DEF HeadersInOrder
      <4> QED  BY <4>1, <4>2
    <3> QED  BY <1>1, <2>1, <2>2, <3>1, OrderKept
  <2>5. /\ i \in DOMAIN q /\ q[i].at = a /\ Owns(q, i, <<a + PTR, b>>)
        /\ \A blk \in Nat \X Nat : \A j \in DOMAIN ptrs :
              Owns(ptrs, j, blk) => \E l \in DOMAIN q : Owns(q, l, blk)
    BY <1>6, <1>7, <1>8, <1>11, <1>12, OwnsKept
  <2>6. HeldOwned'
    <3>1. \A blk : Early(blk)' = Early(blk)  BY <2>1 DEF Early, system
    <3>2. ASSUME NEW blk \in held, NEW m \in DOMAIN headers,
                 NEW j \in DOMAIN headers[m].pointers, Owns(headers[m].pointers, j, blk)
          PROVE  \E l \in DOMAIN headers'[m].pointers : Owns(headers'[m].pointers, l, blk)
      <4>1. blk \in Nat \X Nat  BY <1>1 DEF HeapTypes
      <4>2. CASE m = k  BY <1>3, <1>4, <2>2, <2>5, <3>2, <4>1, <4>2
      <4>3. CASE m # k  BY <2>2, <3>2, <4>3
      <4> QED  BY <4>2, <4>3
    <3>3. \A blk \in held' : Early(blk)' \/ \E m \in DOMAIN headers' :
              \E l \in DOMAIN headers'[m].pointers : Owns(headers'[m].pointers, l, blk)
      BY <1>1, <2>1, <2>2, <3>1, <3>2 DEF HeldOwned
    <3> QED  BY <1>1, <2>1, <3>1, <3>3 DEF HeldOwned
  <2>7. InHand'
    <3>1. pc'["main"] = "max"  BY <1>1, <2>1, ContextsAre DEF HeapTypes
    <3>2. h'["main"] = k /\ p'["main"] = a /\ bytes'["main"] = b
      BY <1>2, <1>5, <1>8, <2>1
    <3>3. ptrs[i].size > 0
      <4>1. PICK s \in Nat : s = ptrs[i].size  BY <1>7, PointersTyped
      <4> QED  BY <1>6, <4>1
    <3>4. \A blk \in held' : blk[1] # a + PTR
      BY <1>3, <1>4, <1>8, <2>1, <3>3, NoneBehind
    <3> QED  BY <2>2, <2>5, <3>1, <3>2, <3>4 DEF InHand
  <2>8. MMU_enabled' = (headers' # <<>>)
    <3>1. headers # <<>>  BY <1>2
    <3> QED  BY <2>1, <2>2, <3>1 DEF BlocksInv, system
  <2> QED  BY <2>4, <2>6, <2>7, <2>8 DEF BlocksInv
<1> QED  BY <1>13, <1>14

LEMMA NextBlocks == ~ Nested /\ HeapInv /\ BlocksInv /\ [Next]_vars => BlocksInv'
<1> SUFFICES ASSUME ~ Nested, HeapInv, BlocksInv, [Next]_vars  PROVE BlocksInv'  OBVIOUS
<1>1. CASE UNCHANGED vars
  <2>1. UNCHANGED <<MMU_enabled, MemStack, MemStack_enable, headers, brk, held, pc, bytes, h, p, max>>
    BY <1>1 DEF vars
  <2>2. InHand'  BY <2>1 DEF BlocksInv, InHand
  <2> QED  BY <2>1, <2>2, SameHeaders DEF system
<1>2. CASE mm_init  BY <1>2, mm_initBlocks
<1>3. ASSUME NEW c \in Contexts, Runs(c), Call(c) \/ kmalloc(c) \/ kfree(c)
      PROVE  BlocksInv'
  <2>1. c = "main"  BY MainOnly
  <2> QED  BY <1>3, <2>1, CallBlocks, kfreeBlocks, MemstckBlocks, FindHeaderBlocks, GrowBlocks,
              GrowFailsBlocks, FindPointerBlocks, SplitBlocks, FindMaxBlocks, FinishBlocks DEF kmalloc
<1> QED  BY <1>1, <1>2, <1>3 DEF Next

(* As long as no handler calls kmalloc, the pointers of each header divide   *)
(* its room, the headers lie one behind the other, and each block that a     *)
(* caller has is that of one allocated pointer (mm.c:67-128).                *)
THEOREM BlocksInvAlways == ~ Nested => (Spec => []BlocksInv)
<1>1. ~ Nested /\ HeapInv /\ BlocksInv /\ [Next]_vars => (~ Nested /\ HeapInv /\ BlocksInv)'
  BY NextBlocks, NextKeeps
<1>2. Init => HeapInv /\ BlocksInv  BY InitHolds, InitBlocks
<1> QED  BY <1>1, <1>2, PTL DEF Spec

(* Splitting neither loses room nor invents it (mm.c:117-122): the room of   *)
(* the last pointer of a header ends where its pages end, or, in the headers *)
(* that kmalloc has added, by one header and one pointer behind them.        *)
THEOREM RoomToTheEndAlways == ~ Nested => (Spec => []RoomToTheEnd)
<1>1. HeapInv /\ BlocksInv => RoomToTheEnd
  <2> SUFFICES ASSUME HeapInv, BlocksInv, NEW i \in DOMAIN headers,
                      Last(headers[i].pointers).size > 0
               PROVE  Last(headers[i].pointers).at + PTR + Last(headers[i].pointers).size
                        = HeaderEnd(headers[i]) + Over(i)
    BY DEF RoomToTheEnd, Over
  <2>1. PICK ptrs \in Seq(PointerType) : ptrs = headers[i].pointers
    BY HeaderParts DEF HeapInv, BlocksInv
  <2>2. Divided(ptrs, headers[i].start + HDR, HeaderEnd(headers[i]), Over(i))
    BY <2>1 DEF BlocksInv, HeadersInOrder
  <2>3. PICK n \in Nat : n = Len(ptrs) /\ n \in DOMAIN ptrs
    BY <2>2, PointersTyped DEF Divided
  <2>4. Last(ptrs) = ptrs[n]  BY <2>3 DEF Last
  <2>5. ptrs[n].at + PTR + ptrs[n].size = HeaderEnd(headers[i]) + Over(i)
    BY <2>1, <2>2, <2>3, <2>4 DEF Divided
  <2> QED  BY <2>1, <2>4, <2>5
<1> QED  BY <1>1, HeapInvAlways, BlocksInvAlways, PTL

(* Numbers from one place on are all below those from its end on. *)
LEMMA CellsApart ==
    ASSUME NEW a \in Nat, NEW m \in Nat, NEW b \in Nat, NEW n \in Nat,
           a + m <= b \/ b + n <= a
    PROVE  Cells(a, m) \cap Cells(b, n) = {}
BY DEF Cells

(* The header of a block that lies in the pages of some header is that one. *)
Mine(b, i, j) ==
    /\ i \in DOMAIN headers /\ j \in DOMAIN headers[i].pointers
    /\ Owns(headers[i].pointers, j, b)

LEMMA InsideItsOwn ==
    ASSUME HeapInv, BlocksInv, NEW b \in held, Inside(b), NEW i, NEW j, Mine(b, i, j)
    PROVE  /\ b[1] + b[2] <= HeaderEnd(headers[i])
           /\ headers[i].start + HDR <= b[1] /\ headers[i].pointers[j].at + PTR = b[1]
           /\ HeapStart <= b[1]
<1>1. HeapTypes /\ HeadersInOrder /\ i \in DOMAIN headers /\ j \in DOMAIN headers[i].pointers
  BY DEF HeapInv, BlocksInv, Mine
<1>2. PICK x \in Nat, n \in Nat \ {0} : x = b[1] /\ n = b[2]  BY <1>1 DEF HeapTypes
<1>3. PICK s \in Nat, e \in Nat, a \in Nat :
          s = headers[i].start /\ e = HeaderEnd(headers[i]) /\ a = headers[i].pointers[j].at
  BY <1>1, HeaderParts
<1>4. x = a + PTR  BY <1>2, <1>3 DEF Mine, Owns
<1>5. HeapStart <= s /\ s + HDR <= a /\ a + PTR <= e  BY <1>1, <1>3, HeaderParts
<1>6. PICK k \in DOMAIN headers : headers[k].start < x /\ x + n <= HeaderEnd(headers[k])
  BY <1>2, <1>4, <1>5 DEF Inside
<1>7. k = i
  <2> SUFFICES ASSUME k # i  PROVE FALSE  OBVIOUS
  <2>1. PICK t \in Nat, f \in Nat : t = headers[k].start /\ f = HeaderEnd(headers[k])
    BY <1>1, HeaderParts
  <2>2. t < x /\ x + n <= f  BY <1>6, <2>1
  <2>3. e <= t \/ f <= s  BY <1>1, <1>3, <2>1, HeadersApart DEF HeadersInOrder
  <2> QED  BY <1>4, <1>5, <2>2, <2>3
<1>8. x + n <= e  BY <1>3, <1>6, <1>7
<1>9. s + HDR <= x /\ HeapStart <= x  BY <1>4, <1>5
<1> QED  BY <1>2, <1>3, <1>4, <1>8, <1>9

(* Such a block covers neither a header nor a pointer. *)
LEMMA ClearOfPointers ==
    ASSUME HeapInv, BlocksInv, NEW b \in held, Inside(b), NEW i, NEW j, Mine(b, i, j),
           NEW k \in DOMAIN headers
    PROVE  Cells(b[1], b[2]) \cap Bookkeeping(headers[k]) = {}
<1>1. HeapTypes /\ HeadersInOrder /\ i \in DOMAIN headers /\ j \in DOMAIN headers[i].pointers
  BY DEF HeapInv, BlocksInv, Mine
<1>2. PICK x \in Nat, n \in Nat : x = b[1] /\ n = b[2]  BY <1>1 DEF HeapTypes
<1>3. PICK s \in Nat, e \in Nat, a \in Nat :
          s = headers[i].start /\ e = HeaderEnd(headers[i]) /\ a = headers[i].pointers[j].at
  BY <1>1, HeaderParts
<1>4. x + n <= e /\ s + HDR <= x /\ a + PTR = x  BY <1>2, <1>3, InsideItsOwn
<1>5. PICK t \in Nat, f \in Nat : t = headers[k].start /\ f = HeaderEnd(headers[k])
  BY <1>1, HeaderParts
<1>6. t + HDR <= f  BY <1>1, <1>5, HeaderParts
<1>7. CASE k = i
  <2>1. s + HDR <= x \/ x + n <= s  BY <1>4
  <2>2. Cells(x, n) \cap Cells(s, HDR) = {}  BY <2>1, CellsApart
  <2>3. ASSUME NEW l \in DOMAIN headers[i].pointers
        PROVE  Cells(x, n) \cap Cells(headers[i].pointers[l].at, PTR) = {}
    <3>1. PICK u \in Nat : u = headers[i].pointers[l].at  BY <1>1, HeaderParts
    <3>2. l \in Nat /\ j \in Nat  BY <1>1, HeaderParts
    <3>3. CASE l < j
      <4>1. u + PTR <= a  BY <1>1, <1>3, <3>1, <3>3, HeaderParts
      <4>2. u + PTR <= x  BY <1>4, <4>1
      <4> QED  BY <3>1, <4>2, CellsApart
    <3>4. CASE l = j
      <4>1. u + PTR <= x  BY <1>3, <1>4, <3>1, <3>4
      <4> QED  BY <3>1, <4>1, CellsApart
    <3>5. CASE j < l
      <4>1. x + n <= u  BY <1>2, <3>1, <3>5 DEF Mine, Owns
      <4> QED  BY <3>1, <4>1, CellsApart
    <3> QED  BY <3>2, <3>3, <3>4, <3>5
  <2> QED  BY <1>2, <1>3, <1>7, <2>2, <2>3 DEF Bookkeeping
<1>8. CASE k # i
  <2>1. e <= t \/ f <= s  BY <1>1, <1>3, <1>5, <1>8, HeadersApart DEF HeadersInOrder
  <2>2. x + n <= t \/ f <= x  BY <1>4, <2>1
  <2>3. t + HDR <= x \/ x + n <= t  BY <1>6, <2>2
  <2>4. Cells(x, n) \cap Cells(t, HDR) = {}  BY <2>3, CellsApart
  <2>5. ASSUME NEW l \in DOMAIN headers[k].pointers
        PROVE  Cells(x, n) \cap Cells(headers[k].pointers[l].at, PTR) = {}
    <3>1. PICK u \in Nat : u = headers[k].pointers[l].at  BY <1>1, HeaderParts
    <3>2. t + HDR <= u /\ u + PTR <= f  BY <1>1, <1>5, <3>1, HeaderParts
    <3>3. u + PTR <= x \/ x + n <= u  BY <2>2, <3>2
    <3> QED  BY <3>1, <3>3, CellsApart
  <2> QED  BY <1>2, <1>5, <2>4, <2>5 DEF Bookkeeping
<1> QED  BY <1>7, <1>8

(* Two of them are apart. *)
LEMMA TwoApart ==
    ASSUME HeapInv, BlocksInv,
           NEW b \in held, Inside(b), NEW i, NEW j, Mine(b, i, j),
           NEW c \in held, Inside(c), NEW k, NEW l, Mine(c, k, l), b # c
    PROVE  Cells(b[1], b[2]) \cap Cells(c[1], c[2]) = {}
<1>1. /\ HeapTypes /\ HeadersInOrder /\ i \in DOMAIN headers /\ k \in DOMAIN headers
      /\ j \in DOMAIN headers[i].pointers /\ l \in DOMAIN headers[k].pointers
  BY DEF HeapInv, BlocksInv, Mine
<1>2. PICK x \in Nat, n \in Nat, y \in Nat, m \in Nat :
          x = b[1] /\ n = b[2] /\ y = c[1] /\ m = c[2]
  BY <1>1 DEF HeapTypes
<1>3. PICK s \in Nat, e \in Nat, t \in Nat, f \in Nat, u \in Nat, v \in Nat :
          /\ s = headers[i].start /\ e = HeaderEnd(headers[i])
          /\ t = headers[k].start /\ f = HeaderEnd(headers[k])
          /\ u = headers[i].pointers[j].at /\ v = headers[k].pointers[l].at
  BY <1>1, HeaderParts
<1>4. x + n <= e /\ s + HDR <= x /\ u + PTR = x  BY <1>2, <1>3, InsideItsOwn
<1>5. y + m <= f /\ t + HDR <= y /\ v + PTR = y  BY <1>2, <1>3, InsideItsOwn
<1>6. CASE i # k
  <2>1. e <= t \/ f <= s  BY <1>1, <1>3, <1>6, HeadersApart DEF HeadersInOrder
  <2>2. x + n <= y \/ y + m <= x  BY <1>4, <1>5, <2>1
  <2> QED  BY <1>2, <2>2, CellsApart
<1>7. CASE i = k
  <2>1. j # l
    <3> SUFFICES ASSUME j = l  PROVE FALSE  OBVIOUS
    <3>1. u = v  BY <1>3, <1>7
    <3>2. x = y  BY <1>4, <1>5, <3>1
    <3> QED  BY <1>2, <3>2 DEF BlocksInv, HeldOwned
  <2>2. j \in Nat /\ l \in Nat  BY <1>1, HeaderParts
  <2>3. CASE j < l
    <3>1. x + n <= v  BY <1>1, <1>2, <1>3, <1>7, <2>3 DEF Mine, Owns
    <3>2. x + n <= y  BY <1>5, <3>1
    <3> QED  BY <1>2, <3>2, CellsApart
  <2>4. CASE l < j
    <3>1. y + m <= u  BY <1>1, <1>2, <1>3, <1>7, <2>4 DEF Mine, Owns
    <3>2. y + m <= x  BY <1>4, <3>1
    <3> QED  BY <1>2, <3>2, CellsApart
  <2> QED  BY <2>1, <2>2, <2>3, <2>4
<1> QED  BY <1>6, <1>7

(* The early stack lies below all that. *)
LEMMA EarlyClear ==
    ASSUME HeapInv, BlocksInv, NEW b \in held, Early(b), NEW k \in DOMAIN headers
    PROVE  Cells(b[1], b[2]) \cap Bookkeeping(headers[k]) = {}
<1>1. HeapTypes /\ HeadersInOrder  BY DEF HeapInv, BlocksInv
<1>2. PICK x \in Nat, n \in Nat : x = b[1] /\ n = b[2]  BY <1>1 DEF HeapTypes
<1>3. x + n <= HeapStart  BY <1>2 DEF Early
<1>4. PICK t \in Nat : t = headers[k].start /\ HeapStart <= t  BY <1>1, HeaderParts
<1>5. x + n <= t  BY <1>3, <1>4
<1>6. Cells(x, n) \cap Cells(t, HDR) = {}  BY <1>5, CellsApart
<1>7. ASSUME NEW l \in DOMAIN headers[k].pointers
      PROVE  Cells(x, n) \cap Cells(headers[k].pointers[l].at, PTR) = {}
  <2>1. PICK u \in Nat : u = headers[k].pointers[l].at  BY <1>1, HeaderParts
  <2>2. t + HDR <= u  BY <1>1, <1>4, <2>1, HeaderParts
  <2>3. x + n <= u  BY <1>5, <2>2
  <2> QED  BY <2>1, <2>3, CellsApart
<1> QED  BY <1>2, <1>4, <1>6, <1>7 DEF Bookkeeping

LEMMA EarlyAndOther ==
    ASSUME HeapInv, BlocksInv, NEW b \in held, Early(b),
           NEW c \in held, Inside(c), NEW k, NEW l, Mine(c, k, l)
    PROVE  Cells(b[1], b[2]) \cap Cells(c[1], c[2]) = {}
<1>1. PICK x \in Nat, n \in Nat, y \in Nat, m \in Nat :
          x = b[1] /\ n = b[2] /\ y = c[1] /\ m = c[2]
  BY DEF HeapInv, HeapTypes
<1>2. x + n <= HeapStart  BY <1>1 DEF Early
<1>3. HeapStart <= y  BY <1>1, InsideItsOwn
<1>4. x + n <= y  BY <1>2, <1>3
<1> QED  BY <1>1, <1>4, CellsApart

LEMMA EarlyTwo ==
    ASSUME HeapInv, BlocksInv, NEW b \in held, Early(b), NEW c \in held, Early(c), b # c
    PROVE  Cells(b[1], b[2]) \cap Cells(c[1], c[2]) = {}
<1>1. PICK x \in Nat, n \in Nat, y \in Nat, m \in Nat :
          x = b[1] /\ n = b[2] /\ y = c[1] /\ m = c[2]
  BY DEF HeapInv, HeapTypes
<1>2. x + n < y \/ y + m < x  BY <1>1 DEF BlocksInv, HeldOwned
<1>3. x + n <= y \/ y + m <= x  BY <1>2
<1> QED  BY <1>1, <1>3, CellsApart

(* Who writes to what kmalloc gave him changes no other block and no list of *)
(* the heap, as long as no handler calls kmalloc in between (mm.c:67-128).   *)
THEOREM BlocksApartAlways == ~ Nested => (Spec => []BlocksApart)
<1>1. HeapInv /\ BlocksInv => BlocksApart
  <2> SUFFICES ASSUME HeapInv, BlocksInv, NEW b \in held, Inside(b)
               PROVE  /\ \A c \in held : Inside(c) /\ b # c =>
                            Cells(b[1], b[2]) \cap Cells(c[1], c[2]) = {}
                      /\ \A i \in DOMAIN headers :
                            Cells(b[1], b[2]) \cap Bookkeeping(headers[i]) = {}
    BY DEF BlocksApart
  <2>1. \A c \in held : Early(c) \/ \E i, j : Mine(c, i, j)
    BY DEF BlocksInv, HeldOwned, Mine
  <2>2. ASSUME NEW c \in held, Inside(c), b # c
        PROVE  Cells(b[1], b[2]) \cap Cells(c[1], c[2]) = {}
    <3>1. CASE Early(b) /\ Early(c)  BY <2>2, <3>1, EarlyTwo
    <3>2. ASSUME NEW i, NEW j, Mine(b, i, j), Early(c)
          PROVE  Cells(b[1], b[2]) \cap Cells(c[1], c[2]) = {}
      BY <3>2, EarlyAndOther
    <3>3. ASSUME NEW i, NEW j, Mine(c, i, j), Early(b)
          PROVE  Cells(b[1], b[2]) \cap Cells(c[1], c[2]) = {}
      BY <2>2, <3>3, EarlyAndOther
    <3>4. ASSUME NEW i, NEW j, Mine(b, i, j), NEW k, NEW l, Mine(c, k, l)
          PROVE  Cells(b[1], b[2]) \cap Cells(c[1], c[2]) = {}
      BY <2>2, <3>4, TwoApart
    <3> QED  BY <2>1, <3>1, <3>2, <3>3, <3>4
  <2>3. ASSUME NEW k \in DOMAIN headers
        PROVE  Cells(b[1], b[2]) \cap Bookkeeping(headers[k]) = {}
    <3>1. CASE Early(b)  BY <3>1, EarlyClear
    <3>2. ASSUME NEW i, NEW j, Mine(b, i, j)
          PROVE  Cells(b[1], b[2]) \cap Bookkeeping(headers[k]) = {}
      BY <3>2, ClearOfPointers
    <3> QED  BY <2>1, <3>1, <3>2
  <2> QED  BY <2>2, <2>3
<1> QED  BY <1>1, HeapInvAlways, BlocksInvAlways, PTL
=============================================================================
