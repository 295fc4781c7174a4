----------------------------- MODULE VPageProofs -----------------------------
(***************************************************************************)
(* Proofs about virtual pages: the tables in memory are a tree, to which   *)
(* mappings add tables and whose leaves are the mappings.                  *)
(***************************************************************************)
EXTENDS VPage, WellFoundedInduction, TLAPS

LEMMA Constants ==
    /\ T \in Nat /\ T > 2 /\ Levels \in Nat /\ Levels > 1
    /\ BootPages = T /\ Start \in 0 .. BootPages
    /\ Frames \in Nat /\ Frames > BootPages + Levels
    /\ FixedPages \subseteq VPages
BY VPageAssumption

LEMMA OrderPositive == \A o \in MapOrders : ORDER(o) \in Nat \ {0} /\ ORDER(o) <= BootPages
<1>1. \A o \in 0 .. 9 : ORDER(o) \in Nat \ {0}  BY DEF ORDER
<1> QED  BY <1>1, VPageAssumption, MaxOrderAssumption DEF Orders

(***************************************************************************)
(* Induction over the numbers up to n, with a set for each of them: what   *)
(* a loop or a walk of n steps computes is in the set of its last step.    *)
(***************************************************************************)
LEMMA Upwards ==
    ASSUME NEW n \in Nat, NEW S, 0 \in S, \A k \in 1 .. n : k - 1 \in S => k \in S
    PROVE  0 .. n \subseteq S
<1> DEFINE Bad == {k \in Nat : k <= n /\ k \notin S}
<1> SUFFICES ASSUME Bad # {}  PROVE FALSE  OBVIOUS
<1>1. PICK m \in Bad : \A x \in Bad : ~ (<<x, m>> \in OpToRel(<, Nat))
  <2>1. Bad \subseteq Nat  OBVIOUS
  <2> HIDE DEF Bad
  <2> QED  BY <2>1, NatLessThanWellFounded, WFMin
<1>2. m # 0  OBVIOUS
<1>3. m - 1 \in Nat /\ m \in 1 .. n  BY <1>2
<1>4. m - 1 \notin Bad
  <2> SUFFICES ASSUME m - 1 \in Bad  PROVE FALSE  OBVIOUS
  <2>1. <<m - 1, m>> \in OpToRel(<, Nat)  BY <1>3 DEF OpToRel
  <2> QED  BY <1>1, <2>1
<1>5. m - 1 \in S  BY <1>3, <1>4
<1> QED  BY <1>3, <1>5

LEMMA StepByStep ==
    ASSUME NEW n \in Nat, NEW f, NEW P, f[0] \in P[0],
           \A k \in 1 .. n : f[k - 1] \in P[k - 1] => f[k] \in P[k]
    PROVE  \A k \in 0 .. n : f[k] \in P[k]
<1> DEFINE S == {k \in 0 .. n : f[k] \in P[k]}
<1>1. 0 \in S  OBVIOUS
<1>2. \A k \in 1 .. n : k - 1 \in S => k \in S  OBVIOUS
<1> HIDE DEF S
<1>3. 0 .. n \subseteq S  BY <1>1, <1>2, Upwards
<1> QED  BY <1>3 DEF S

(***************************************************************************)
(* A computation f of n steps G from a, and that there is one: a recursive *)
(* function is the one it describes.                                       *)
(***************************************************************************)
Stepwise(n, P, a, G) ==
    a \in P[0] /\ \A k \in 1 .. n : \A x \in P[k - 1] : G[<<k, x>>] \in P[k]

Computes(f, n, P, a, G) ==
    /\ f = [k \in 0 .. n |-> f[k]]
    /\ f[0] = a
    /\ \A k \in 0 .. n : f[k] \in P[k]
    /\ \A k \in 1 .. n : f[k] = G[<<k, f[k - 1]>>]

LEMMA Computation ==
    ASSUME NEW n \in Nat, NEW P, NEW a, NEW G, Stepwise(n, P, a, G)
    PROVE  \E f : Computes(f, n, P, a, G)
<1>0. a \in P[0] /\ \A k \in 1 .. n : \A x \in P[k - 1] : G[<<k, x>>] \in P[k]
  BY DEF Stepwise
<1> DEFINE Upto(k) == {f \in [0 .. k -> UNION {P[j] : j \in 0 .. n}] :
                          /\ f[0] = a
                          /\ \A j \in 0 .. k : f[j] \in P[j]
                          /\ \A j \in 1 .. k : f[j] = G[<<j, f[j - 1]>>]}
           S == {k \in 0 .. n : Upto(k) # {}}
<1>1. Upto(0) # {}
  <2> DEFINE f == [j \in 0 .. 0 |-> a]
  <2>1. f \in [0 .. 0 -> UNION {P[j] : j \in 0 .. n}]  BY <1>0
  <2>2. f \in Upto(0)  BY <1>0, <2>1
  <2> QED  BY <2>2
<1>2. ASSUME NEW k \in 1 .. n, Upto(k - 1) # {}  PROVE Upto(k) # {}
  <2>1. PICK f : f \in Upto(k - 1)  BY <1>2
  <2> DEFINE g == [j \in 0 .. k |-> IF j = k THEN G[<<k, f[k - 1]>>] ELSE f[j]]
  <2>2. k - 1 \in 0 .. k - 1 /\ f[k - 1] \in P[k - 1]  BY <2>1
  <2>3. \A j \in 0 .. k : g[j] \in P[j]
    <3> TAKE j \in 0 .. k
    <3>1. CASE j = k  BY <1>0, <2>2, <3>1
    <3>2. CASE j # k  BY <2>1, <3>2
    <3> QED  BY <3>1, <3>2
  <2>4. g \in [0 .. k -> UNION {P[j] : j \in 0 .. n}]  BY <2>3
  <2>5. g[0] = a  BY <2>1
  <2>6. \A j \in 1 .. k : g[j] = G[<<j, g[j - 1]>>]
    <3> TAKE j \in 1 .. k
    <3>1. CASE j = k
      <4>1. k \in 0 .. k /\ k - 1 \in 0 .. k /\ k - 1 # k  OBVIOUS
      <4>2. g[k] = G[<<k, f[k - 1]>>] /\ g[k - 1] = f[k - 1]  BY <4>1
      <4> QED  BY <3>1, <4>2
    <3>2. CASE j # k
      <4>1. j \in 1 .. k - 1 /\ j - 1 # k /\ j - 1 \in 0 .. k  BY <3>2
      <4> QED  BY <2>1, <3>2, <4>1
    <3> QED  BY <3>1, <3>2
  <2>7. g \in Upto(k)
    <3> HIDE DEF g
    <3> QED  BY <2>3, <2>4, <2>5, <2>6
  <2> QED  BY <2>7
<1>3. n \in S
  <2> HIDE DEF Upto
  <2>1. 0 \in S  BY <1>1
  <2>2. \A k \in 1 .. n : k - 1 \in S => k \in S  BY <1>2
  <2> HIDE DEF S
  <2>3. 0 .. n \subseteq S  BY <2>1, <2>2, Upwards
  <2> QED  BY <2>3
<1>4. Upto(n) # {}
  <2> HIDE DEF Upto
  <2> QED  BY <1>3
<1>5. PICK f : f \in Upto(n)  BY <1>4
<1> QED  BY <1>5 DEF Computes

-----------------------------------------------------------------------------
(* A page above its lowest tables. *)
LEMMA AboveIs ==
    ASSUME NEW v \in Nat
    PROVE  /\ Above(v, 0) = v
           /\ \A k \in 0 .. Levels : Above(v, k) \in Nat
           /\ \A k \in 1 .. Levels : Above(v, k) = Above(v, k - 1) \div T
<1> DEFINE P == [k \in 0 .. Levels |-> Nat]
           G == [z \in (1 .. Levels) \X Nat |-> z[2] \div T]
<1>0. /\ \A k \in 0 .. Levels : P[k] = Nat
      /\ \A k \in 1 .. Levels : \A x \in Nat : G[<<k, x>>] = x \div T /\ x \div T \in Nat
  BY Constants
<1> HIDE DEF P, G
<1>1. \E f : f = [k \in 0 .. Levels |-> IF k = 0 THEN v ELSE f[k - 1] \div T]
  <2>1. Stepwise(Levels, P, v, G)
    <3>1. v \in P[0]  BY <1>0, Constants
    <3>2. ASSUME NEW k \in 1 .. Levels  PROVE \A x \in P[k - 1] : G[<<k, x>>] \in P[k]
      <4>1. k - 1 \in 0 .. Levels /\ k \in 0 .. Levels  BY Constants
      <4> QED  BY <1>0, <4>1
    <3> QED  BY <3>1, <3>2 DEF Stepwise
  <2>2. Levels \in Nat  BY Constants
  <2>3. PICK f : Computes(f, Levels, P, v, G)  BY <2>1, <2>2, Computation
  <2>4. /\ f = [k \in 0 .. Levels |-> f[k]]
        /\ f[0] = v
        /\ \A k \in 0 .. Levels : f[k] \in P[k]
        /\ \A k \in 1 .. Levels : f[k] = G[<<k, f[k - 1]>>]
    BY <2>3 DEF Computes
  <2>5. \A k \in 1 .. Levels : f[k] = f[k - 1] \div T
    <3> TAKE k \in 1 .. Levels
    <3>1. k - 1 \in 0 .. Levels  BY Constants
    <3> QED  BY <1>0, <2>4, <3>1
  <2>6. \A k \in 0 .. Levels : f[k] = IF k = 0 THEN v ELSE f[k - 1] \div T
    <3> TAKE k \in 0 .. Levels
    <3>1. CASE k = 0  BY <2>4, <3>1
    <3>2. CASE k # 0
      <4>1. k \in 1 .. Levels  BY <3>2, Constants
      <4> QED  BY <2>5, <3>2, <4>1
    <3> QED  BY <3>1, <3>2
  <2>7. f = [k \in 0 .. Levels |-> IF k = 0 THEN v ELSE f[k - 1] \div T]
    BY <2>4, <2>6
  <2> QED  BY <2>7
<1> DEFINE shifted == CHOOSE f : f = [k \in 0 .. Levels |-> IF k = 0 THEN v ELSE f[k - 1] \div T]
<1>2. shifted = [k \in 0 .. Levels |-> IF k = 0 THEN v ELSE shifted[k - 1] \div T]
  BY <1>1
<1>3. \A k \in 0 .. Levels : Above(v, k) = shifted[k]  BY DEF Above
<1> HIDE DEF shifted
<1>4. shifted[0] = v /\ \A k \in 1 .. Levels : shifted[k] = shifted[k - 1] \div T
  BY <1>2, Constants
<1>5. \A k \in 0 .. Levels : shifted[k] \in P[k]
  <2>1. shifted[0] \in P[0]  BY <1>0, <1>4, Constants
  <2>2. \A k \in 1 .. Levels : shifted[k - 1] \in P[k - 1] => shifted[k] \in P[k]
    <3> TAKE k \in 1 .. Levels
    <3>1. k - 1 \in 0 .. Levels /\ k \in 0 .. Levels  BY Constants
    <3> QED  BY <1>0, <1>4, <3>1
  <2>3. Levels \in Nat  BY Constants
  <2> QED  BY <2>1, <2>2, <2>3, StepByStep
<1>6. \A k \in 0 .. Levels : Above(v, k) \in Nat  BY <1>0, <1>3, <1>5
<1>7. \A k \in 1 .. Levels : Above(v, k) = Above(v, k - 1) \div T
  <2> TAKE k \in 1 .. Levels
  <2>1. k - 1 \in 0 .. Levels /\ k \in 0 .. Levels  BY Constants
  <2> QED  BY <1>3, <1>4, <2>1
<1>8. Above(v, 0) = v  BY <1>3, <1>4, Constants
<1> QED  BY <1>6, <1>7, <1>8

(* Pages in the same place of the tree above their lowest n tables. *)
Same(v, w, n) == Above(v, n) = Above(w, n)

LEMMA IndexIs ==
    ASSUME NEW v \in Nat, NEW l \in 1 .. Levels
    PROVE  /\ IndexAt(v, l) \in 0 .. T - 1
           /\ Above(v, l - 1) = T * Above(v, l) + IndexAt(v, l)
<1>1. l - 1 \in 0 .. Levels /\ l \in 0 .. Levels  BY Constants
<1>2. PICK a \in Nat : a = Above(v, l - 1)  BY <1>1, AboveIs
<1>3. Above(v, l) = a \div T /\ IndexAt(v, l) = a % T  BY <1>2, AboveIs DEF IndexAt
<1>4. a % T \in 0 .. T - 1 /\ a = T * (a \div T) + (a % T)  BY Constants
<1> QED  BY <1>2, <1>3, <1>4

LEMMA SameBelow ==
    ASSUME NEW v \in Nat, NEW w \in Nat, NEW l \in 1 .. Levels
    PROVE  Same(v, w, l) /\ IndexAt(v, l) = IndexAt(w, l) <=> Same(v, w, l - 1)
<1>1. l - 1 \in 0 .. Levels /\ l \in 0 .. Levels  BY Constants
<1>2. Above(v, l - 1) = T * Above(v, l) + IndexAt(v, l)  BY IndexIs
<1>3. Above(w, l - 1) = T * Above(w, l) + IndexAt(w, l)  BY IndexIs
<1>4. Same(v, w, l) /\ IndexAt(v, l) = IndexAt(w, l) => Same(v, w, l - 1)
  BY <1>2, <1>3 DEF Same
<1>5. Same(v, w, l - 1) => Same(v, w, l) /\ IndexAt(v, l) = IndexAt(w, l)
  <2>1. Above(v, l) = Above(v, l - 1) \div T  BY AboveIs
  <2>2. Above(w, l) = Above(w, l - 1) \div T  BY AboveIs
  <2> QED  BY <2>1, <2>2 DEF Same, IndexAt
<1> QED  BY <1>4, <1>5

LEMMA SameZero ==
    ASSUME NEW v \in Nat, NEW w \in Nat
    PROVE  Same(v, w, 0) <=> v = w
BY AboveIs DEF Same

(* The capacity of an entry at each level, as RootEntryPages computes it. *)
LEMMA PagesAre ==
    \E p : /\ p = [n \in 0 .. Levels - 1 |-> IF n = 0 THEN 1 ELSE T * p[n - 1]]
           /\ \A n \in 0 .. Levels - 1 : p[n] \in Nat \ {0}
           /\ RootEntryPages = p[Levels - 1]
<1> DEFINE P == [k \in 0 .. Levels - 1 |-> Nat \ {0}]
           G == [z \in (1 .. Levels - 1) \X (Nat \ {0}) |-> T * z[2]]
           Is(f) == f = [n \in 0 .. Levels - 1 |-> IF n = 0 THEN 1 ELSE T * f[n - 1]]
<1>0. /\ \A k \in 0 .. Levels - 1 : P[k] = Nat \ {0}
      /\ \A k \in 1 .. Levels - 1 : \A x \in Nat \ {0} :
            G[<<k, x>>] = T * x /\ T * x \in Nat \ {0}
  <2>1. \A x \in Nat \ {0} : T * x \in Nat \ {0}  BY Constants
  <2> QED  BY <2>1, Constants
<1> HIDE DEF P, G
<1>1. \E f : Is(f)
  <2>1. Stepwise(Levels - 1, P, 1, G)
    <3>1. 1 \in P[0]  BY <1>0, Constants
    <3>2. ASSUME NEW k \in 1 .. Levels - 1  PROVE \A x \in P[k - 1] : G[<<k, x>>] \in P[k]
      <4>1. k - 1 \in 0 .. Levels - 1 /\ k \in 0 .. Levels - 1  BY Constants
      <4> QED  BY <1>0, <4>1
    <3> QED  BY <3>1, <3>2 DEF Stepwise
  <2>2. Levels - 1 \in Nat  BY Constants
  <2>3. PICK f : Computes(f, Levels - 1, P, 1, G)  BY <2>1, <2>2, Computation
  <2>4. /\ f = [k \in 0 .. Levels - 1 |-> f[k]]
        /\ f[0] = 1
        /\ \A k \in 0 .. Levels - 1 : f[k] \in P[k]
        /\ \A k \in 1 .. Levels - 1 : f[k] = G[<<k, f[k - 1]>>]
    BY <2>3 DEF Computes
  <2>5. \A k \in 0 .. Levels - 1 : f[k] = IF k = 0 THEN 1 ELSE T * f[k - 1]
    <3> TAKE k \in 0 .. Levels - 1
    <3>1. CASE k = 0  BY <2>4, <3>1
    <3>2. CASE k # 0
      <4>1. k \in 1 .. Levels - 1 /\ k - 1 \in 0 .. Levels - 1  BY <3>2, Constants
      <4> QED  BY <1>0, <2>4, <3>2, <4>1
    <3> QED  BY <3>1, <3>2
  <2> QED  BY <2>4, <2>5
<1> DEFINE p == CHOOSE f : Is(f)
<1>2. Is(p)  BY <1>1
<1>3. RootEntryPages = p[Levels - 1]  BY DEF RootEntryPages
<1> HIDE DEF p
<1>4. p[0] = 1 /\ \A k \in 1 .. Levels - 1 : p[k] = T * p[k - 1]  BY <1>2, Constants
<1>5. \A k \in 0 .. Levels - 1 : p[k] \in P[k]
  <2>1. p[0] \in P[0]  BY <1>0, <1>4, Constants
  <2>2. \A k \in 1 .. Levels - 1 : p[k - 1] \in P[k - 1] => p[k] \in P[k]
    <3> TAKE k \in 1 .. Levels - 1
    <3>1. k - 1 \in 0 .. Levels - 1 /\ k \in 0 .. Levels - 1  BY Constants
    <3> QED  BY <1>0, <1>4, <3>1
  <2>3. Levels - 1 \in Nat  BY Constants
  <2> QED  BY <2>1, <2>2, <2>3, StepByStep
<1> QED  BY <1>0, <1>2, <1>3, <1>5

(* All pages are below the same root, and there are some behind the boot tables'. *)
LEMMA VPagesAre ==
    /\ RootEntryPages \in Nat /\ VPages \subseteq Nat /\ T \in VPages
    /\ \A v \in VPages : Above(v, Levels) = 0
    /\ \A v, w \in Nat : w \in VPages /\ v <= w => v \in VPages
<1>1. PICK p : /\ p = [n \in 0 .. Levels - 1 |-> IF n = 0 THEN 1 ELSE T * p[n - 1]]
               /\ \A n \in 0 .. Levels - 1 : p[n] \in Nat \ {0}
               /\ RootEntryPages = p[Levels - 1]
  BY PagesAre
<1>2. p[0] = 1 /\ \A k \in 1 .. Levels - 1 : p[k] = T * p[k - 1]  BY <1>1, Constants
<1>3. Levels - 1 \in 0 .. Levels - 1 /\ Levels - 2 \in 0 .. Levels - 1 /\ Levels - 1 \in Nat
  BY Constants
<1>4. PICK r \in Nat \ {0} : r = RootEntryPages  BY <1>1, <1>3
<1>5. T - 1 \in Nat /\ (T - 1) * r \in Nat  BY Constants
<1>6. VPages \subseteq Nat /\ \A v, w \in Nat : w \in VPages /\ v <= w => v \in VPages
  BY <1>4, <1>5 DEF VPages
<1>7. T \in VPages
  <2>1. PICK q \in Nat \ {0} : q = p[Levels - 2]  BY <1>1, <1>3
  <2>2. Levels - 1 \in 1 .. Levels - 1 /\ (Levels - 1) - 1 = Levels - 2  BY Constants
  <2>3. r = T * q  BY <1>1, <1>2, <1>4, <2>1, <2>2
  <2>4. r >= T  BY <2>3, Constants
  <2>5. (T - 1) * r >= 2 * r  BY Constants
  <2> QED  BY <1>4, <1>5, <2>4, <2>5, Constants DEF VPages
<1>8. ASSUME NEW v \in VPages  PROVE Above(v, Levels) = 0
  <2>1. v \in Nat /\ v < (T - 1) * r  BY <1>4, <1>5 DEF VPages
  <2> DEFINE S == {k \in 0 .. Levels - 1 : \A x \in Nat : v < x * p[k] => Above(v, k) < x}
  <2>2. 0 \in S
    <3>1. Above(v, 0) = v  BY <2>1, AboveIs
    <3>2. \A x \in Nat : x * 1 = x  OBVIOUS
    <3> QED  BY <1>2, <1>3, <3>1, <3>2
  <2>3. ASSUME NEW k \in 1 .. Levels - 1, k - 1 \in S  PROVE k \in S
    <3>1. k - 1 \in 0 .. Levels - 1 /\ k - 1 \in 0 .. Levels /\ k \in 1 .. Levels  BY Constants
    <3>2. PICK a \in Nat, c \in Nat : a = Above(v, k - 1) /\ c = p[k - 1]
      BY <1>1, <2>1, <3>1, AboveIs
    <3>3. Above(v, k) = a \div T /\ p[k] = T * c  BY <1>2, <2>1, <3>1, <3>2, AboveIs
    <3>4. \A x \in Nat : v < x * c => a < x  BY <2>3, <3>2
    <3>5. ASSUME NEW x \in Nat, v < x * (T * c)  PROVE a \div T < x
      <4>1. x * T \in Nat /\ x * (T * c) = (x * T) * c  BY Constants
      <4>2. a < x * T  BY <3>4, <3>5, <4>1
      <4> QED  BY <4>2, Constants
    <3> QED  BY <3>3, <3>5
  <2> HIDE DEF S
  <2>4. Levels - 1 \in S
    <3>1. \A k \in 1 .. Levels - 1 : k - 1 \in S => k \in S  BY <2>3
    <3>2. 0 .. Levels - 1 \subseteq S  BY <1>3, <2>2, <3>1, Upwards
    <3> QED  BY <1>3, <3>2
  <2>5. Above(v, Levels - 1) < T - 1
    <3>1. \A x \in Nat : v < x * p[Levels - 1] => Above(v, Levels - 1) < x  BY <2>4 DEF S
    <3> QED  BY <1>1, <1>4, <1>5, <2>1, <3>1
  <2>6. PICK a \in Nat : a = Above(v, Levels - 1)
    <3>1. Levels - 1 \in 0 .. Levels  BY Constants
    <3> QED  BY <2>1, <3>1, AboveIs
  <2>7. Levels \in 1 .. Levels  BY Constants
  <2>8. Above(v, Levels) = a \div T  BY <2>1, <2>6, <2>7, AboveIs
  <2>9. a < T  BY <2>5, <2>6, Constants
  <2> QED  BY <2>8, <2>9, Constants
<1> QED  BY <1>4, <1>6, <1>7, <1>8

-----------------------------------------------------------------------------
(* From the root down: the same induction over levels. *)
LEMMA Downwards ==
    ASSUME NEW S, Levels \in S, \A l \in 1 .. Levels - 1 : l + 1 \in S => l \in S
    PROVE  1 .. Levels \subseteq S
<1> DEFINE R == {k \in 0 .. Levels - 1 : Levels - k \in S}
<1>1. 0 \in R  BY Constants
<1>2. ASSUME NEW k \in 1 .. Levels - 1, k - 1 \in R  PROVE k \in R
  <2>1. Levels - k \in 1 .. Levels - 1 /\ (Levels - k) + 1 = Levels - (k - 1)  BY Constants
  <2> QED  BY <1>2, <2>1
<1>3. 0 .. Levels - 1 \subseteq R
  <2> HIDE DEF R
  <2>1. Levels - 1 \in Nat /\ \A k \in 1 .. Levels - 1 : k - 1 \in R => k \in R
    BY <1>2, Constants
  <2> QED  BY <1>1, <2>1, Upwards
<1>4. ASSUME NEW l \in 1 .. Levels  PROVE l \in S
  <2>1. Levels - l \in 0 .. Levels - 1 /\ Levels - (Levels - l) = l  BY Constants
  <2> QED  BY <1>3, <2>1
<1> QED  BY <1>4

Downwise(P, a, G) ==
    a \in P[Levels] /\ \A l \in 1 .. Levels - 1 : \A x \in P[l + 1] : G[<<l, x>>] \in P[l]

Descends(f, P, a, G) ==
    /\ f = [l \in 1 .. Levels |-> f[l]]
    /\ f[Levels] = a
    /\ \A l \in 1 .. Levels : f[l] \in P[l]
    /\ \A l \in 1 .. Levels - 1 : f[l] = G[<<l, f[l + 1]>>]

LEMMA Descent ==
    ASSUME NEW P, NEW a, NEW G, Downwise(P, a, G)
    PROVE  \E f : Descends(f, P, a, G)
<1> DEFINE N == Levels - 1
           Q == [k \in 0 .. N |-> P[Levels - k]]
           H == [z \in (1 .. N) \X UNION {P[l] : l \in 1 .. Levels} |-> G[<<Levels - z[1], z[2]>>]]
<1>1. N \in Nat /\ \A k \in 0 .. N : Levels - k \in 1 .. Levels  BY Constants
<1>2. \A k \in 0 .. N : Q[k] = P[Levels - k]  OBVIOUS
<1>3. ASSUME NEW k \in 1 .. N, NEW x \in Q[k - 1]
      PROVE  /\ Levels - k \in 1 .. Levels - 1 /\ (Levels - k) + 1 = Levels - (k - 1)
             /\ x \in P[Levels - (k - 1)]
             /\ H[<<k, x>>] = G[<<Levels - k, x>>]
  <2>1. k - 1 \in 0 .. N /\ k \in 0 .. N /\ Levels - (k - 1) \in 1 .. Levels  BY Constants
  <2>2. x \in P[Levels - (k - 1)]  BY <2>1
  <2>3. <<k, x>> \in (1 .. N) \X UNION {P[l] : l \in 1 .. Levels}  BY <2>1, <2>2
  <2>4. Levels - k \in 1 .. Levels - 1 /\ (Levels - k) + 1 = Levels - (k - 1)  BY Constants
  <2> QED  BY <2>2, <2>3, <2>4
<1> HIDE DEF Q, H
<1>4. Stepwise(N, Q, a, H)
  <2>1. a \in Q[0]
    <3>1. 0 \in 0 .. N /\ Levels - 0 = Levels  BY Constants
    <3> QED  BY <1>2, <3>1 DEF Downwise
  <2>2. ASSUME NEW k \in 1 .. N, NEW x \in Q[k - 1]  PROVE H[<<k, x>>] \in Q[k]
    <3>1. k \in 0 .. N  BY <1>1
    <3>2. G[<<Levels - k, x>>] \in P[Levels - k]  BY <1>3, <2>2 DEF Downwise
    <3> QED  BY <1>2, <1>3, <2>2, <3>1, <3>2
  <2> QED  BY <2>1, <2>2 DEF Stepwise
<1>5. PICK h : Computes(h, N, Q, a, H)  BY <1>1, <1>4, Computation
<1>6. /\ h[0] = a
      /\ \A k \in 0 .. N : h[k] \in Q[k]
      /\ \A k \in 1 .. N : h[k] = H[<<k, h[k - 1]>>]
  BY <1>5 DEF Computes
<1> DEFINE f == [l \in 1 .. Levels |-> h[Levels - l]]
<1>7. f[Levels] = a
  <2>1. Levels \in 1 .. Levels /\ Levels - Levels = 0  BY Constants
  <2> QED  BY <1>6, <2>1
<1>8. ASSUME NEW l \in 1 .. Levels  PROVE f[l] \in P[l]
  <2>1. Levels - l \in 0 .. N /\ Levels - (Levels - l) = l  BY Constants
  <2> QED  BY <1>2, <1>6, <2>1
<1>9. ASSUME NEW l \in 1 .. Levels - 1  PROVE f[l] = G[<<l, f[l + 1]>>]
  <2>1. PICK k \in 1 .. N : k = Levels - l  BY Constants
  <2>2. /\ l \in 1 .. Levels /\ l + 1 \in 1 .. Levels /\ k - 1 \in 0 .. N
        /\ Levels - (l + 1) = k - 1 /\ Levels - k = l
    BY <2>1, Constants
  <2>3. f[l] = h[k] /\ f[l + 1] = h[k - 1]  BY <2>1, <2>2
  <2>4. h[k - 1] \in Q[k - 1] /\ h[k] = H[<<k, h[k - 1]>>]  BY <1>6, <2>2
  <2> QED  BY <1>3, <2>2, <2>3, <2>4
<1>10. f = [l \in 1 .. Levels |-> f[l]]  OBVIOUS
<1> HIDE DEF f
<1> QED  BY <1>7, <1>8, <1>9, <1>10 DEF Descends

-----------------------------------------------------------------------------
(* The walk from the root. *)
Mem == [0 .. Frames -> [0 .. T - 1 -> 0 .. Frames]]

LEMMA TableAtIs ==
    ASSUME NEW m \in Mem, NEW v \in Nat
    PROVE  /\ TableAt(m, v, Levels) = Root
           /\ \A l \in 1 .. Levels : TableAt(m, v, l) \in 0 .. Frames
           /\ \A l \in 1 .. Levels - 1 :
                 TableAt(m, v, l) = m[TableAt(m, v, l + 1)][IndexAt(v, l + 1)]
<1> DEFINE P == [l \in 1 .. Levels |-> 0 .. Frames]
           G == [z \in (1 .. Levels - 1) \X (0 .. Frames) |-> m[z[2]][IndexAt(v, z[1] + 1)]]
           Is(f) == f = [l \in 1 .. Levels |-> IF l = Levels THEN Root
                                               ELSE m[f[l + 1]][IndexAt(v, l + 1)]]
<1>1. Root \in 0 .. Frames /\ Levels \in 1 .. Levels
      /\ \A l \in 1 .. Levels - 1 : l \in 1 .. Levels /\ l + 1 \in 1 .. Levels
  BY Constants DEF Root
<1>2. \A l \in 1 .. Levels : P[l] = 0 .. Frames  OBVIOUS
<1>3. ASSUME NEW l \in 1 .. Levels - 1, NEW x \in 0 .. Frames
      PROVE  G[<<l, x>>] = m[x][IndexAt(v, l + 1)] /\ m[x][IndexAt(v, l + 1)] \in 0 .. Frames
  <2>1. IndexAt(v, l + 1) \in 0 .. T - 1  BY <1>1, IndexIs
  <2>2. m[x] \in [0 .. T - 1 -> 0 .. Frames]  BY DEF Mem
  <2> QED  BY <2>1, <2>2
<1> HIDE DEF P, G
<1>4. \E f : Is(f)
  <2>1. Downwise(P, Root, G)
    <3>1. Root \in P[Levels]  BY <1>1, <1>2
    <3>2. ASSUME NEW l \in 1 .. Levels - 1, NEW x \in P[l + 1]  PROVE G[<<l, x>>] \in P[l]
      <4>1. x \in 0 .. Frames  BY <1>1, <1>2, <3>2
      <4> QED  BY <1>1, <1>2, <1>3, <4>1
    <3> QED  BY <3>1, <3>2 DEF Downwise
  <2>2. PICK f : Descends(f, P, Root, G)  BY <2>1, Descent
  <2>3. /\ f = [l \in 1 .. Levels |-> f[l]]
        /\ f[Levels] = Root
        /\ \A l \in 1 .. Levels : f[l] \in P[l]
        /\ \A l \in 1 .. Levels - 1 : f[l] = G[<<l, f[l + 1]>>]
    BY <2>2 DEF Descends
  <2>4. \A l \in 1 .. Levels : f[l] = IF l = Levels THEN Root
                                      ELSE m[f[l + 1]][IndexAt(v, l + 1)]
    <3> TAKE l \in 1 .. Levels
    <3>1. CASE l = Levels  BY <2>3, <3>1
    <3>2. CASE l # Levels
      <4>1. l \in 1 .. Levels - 1  BY <3>2, Constants
      <4>2. f[l + 1] \in 0 .. Frames  BY <1>1, <1>2, <2>3, <4>1
      <4> QED  BY <1>3, <2>3, <3>2, <4>1, <4>2
    <3> QED  BY <3>1, <3>2
  <2> QED  BY <2>3, <2>4
<1> DEFINE table == CHOOSE f : Is(f)
<1>5. Is(table)  BY <1>4
<1>6. \A l \in 1 .. Levels : TableAt(m, v, l) = table[l]  BY DEF TableAt
<1> HIDE DEF table
<1>7. table[Levels] = Root  BY <1>1, <1>5
<1>8. \A l \in 1 .. Levels - 1 : table[l] = m[table[l + 1]][IndexAt(v, l + 1)]
  <2> TAKE l \in 1 .. Levels - 1
  <2>1. l # Levels  BY Constants
  <2> QED  BY <1>1, <1>5, <2>1
<1>9. \A l \in 1 .. Levels : table[l] \in 0 .. Frames
  <2> DEFINE S == {l \in 1 .. Levels : table[l] \in 0 .. Frames}
  <2>1. Levels \in S  BY <1>1, <1>7
  <2>2. \A l \in 1 .. Levels - 1 : l + 1 \in S => l \in S  BY <1>1, <1>3, <1>8
  <2> HIDE DEF S
  <2>3. 1 .. Levels \subseteq S  BY <2>1, <2>2, Downwards
  <2> QED  BY <2>3 DEF S
<1>10. ASSUME NEW l \in 1 .. Levels - 1
       PROVE  TableAt(m, v, l) = m[TableAt(m, v, l + 1)][IndexAt(v, l + 1)]
  <2>1. TableAt(m, v, l) = table[l] /\ TableAt(m, v, l + 1) = table[l + 1]  BY <1>1, <1>6
  <2> QED  BY <1>8, <2>1
<1> QED  BY <1>1, <1>6, <1>7, <1>9, <1>10

(* Pages in the same place are looked up in the same table. *)
LEMMA SamePlace ==
    ASSUME NEW m \in Mem, NEW v \in Nat, NEW w \in Nat, NEW l \in 1 .. Levels, Same(v, w, l)
    PROVE  TableAt(m, v, l) = TableAt(m, w, l)
<1> DEFINE S == {k \in 1 .. Levels : Same(v, w, k) => TableAt(m, v, k) = TableAt(m, w, k)}
<1>1. Levels \in S  BY TableAtIs, Constants
<1>2. ASSUME NEW k \in 1 .. Levels - 1, k + 1 \in S, Same(v, w, k)
      PROVE  TableAt(m, v, k) = TableAt(m, w, k)
  <2>1. k + 1 \in 1 .. Levels /\ (k + 1) - 1 = k  BY Constants
  <2>2. Same(v, w, k + 1) /\ IndexAt(v, k + 1) = IndexAt(w, k + 1)
    BY <1>2, <2>1, SameBelow
  <2>3. TableAt(m, v, k + 1) = TableAt(m, w, k + 1)  BY <1>2, <2>2
  <2>4. /\ TableAt(m, v, k) = m[TableAt(m, v, k + 1)][IndexAt(v, k + 1)]
        /\ TableAt(m, w, k) = m[TableAt(m, w, k + 1)][IndexAt(w, k + 1)]
    BY TableAtIs
  <2> QED  BY <2>2, <2>3, <2>4
<1>3. \A k \in 1 .. Levels - 1 : k + 1 \in S => k \in S
  <2>1. \A k \in 1 .. Levels - 1 : k \in 1 .. Levels  BY Constants
  <2> QED  BY <1>2, <2>1
<1> HIDE DEF S
<1>4. 1 .. Levels \subseteq S  BY <1>1, <1>3, Downwards
<1> QED  BY <1>4 DEF S

(* Only the entry at i of the table a differs, and is x. *)
Differs(m, m2, a, i, x) ==
    /\ m2 \in Mem
    /\ m2[a][i] = x
    /\ \A t \in 0 .. Frames : t # a => m2[t] = m[t]
    /\ \A t \in 0 .. Frames, j \in 0 .. T - 1 : t # a \/ j # i => m2[t][j] = m[t][j]

LEMMA Written ==
    ASSUME NEW m \in Mem, NEW v \in Nat, NEW l \in 1 .. Levels, NEW x \in 0 .. Frames
    PROVE  Differs(m, WriteEntry(m, v, l, x), TableAt(m, v, l), IndexAt(v, l), x)
<1> DEFINE m2 == WriteEntry(m, v, l, x)
<1>1. PICK a \in 0 .. Frames : a = TableAt(m, v, l)  BY TableAtIs
<1>2. PICK j \in 0 .. T - 1 : j = IndexAt(v, l)  BY IndexIs
<1>3. m2 = [m EXCEPT ![a][j] = x]  BY <1>1, <1>2 DEF WriteEntry
<1>4. m[a] \in [0 .. T - 1 -> 0 .. Frames]  BY DEF Mem
<1>5. m2 = [m EXCEPT ![a] = [m[a] EXCEPT ![j] = x]]  BY <1>3
<1> DEFINE row == [m[a] EXCEPT ![j] = x]
<1>6. /\ row \in [0 .. T - 1 -> 0 .. Frames] /\ row[j] = x
      /\ \A i \in 0 .. T - 1 : i # j => row[i] = m[a][i]
  BY <1>2, <1>4
<1> HIDE DEF row, m2
<1>7. m2 \in Mem /\ m2[a] = row /\ \A t \in 0 .. Frames : t # a => m2[t] = m[t]
  BY <1>1, <1>5, <1>6 DEF Mem, row
<1>8. m2[a][j] = x  BY <1>6, <1>7
<1>9. ASSUME NEW t \in 0 .. Frames, NEW i \in 0 .. T - 1, t # a \/ i # j
      PROVE  m2[t][i] = m[t][i]
  <2>1. CASE t # a  BY <1>7, <2>1
  <2>2. CASE t = a  BY <1>6, <1>7, <1>9, <2>2
  <2> QED  BY <2>1, <2>2
<1>10. Differs(m, m2, a, j, x)  BY <1>7, <1>8, <1>9 DEF Differs
<1> QED  BY <1>1, <1>2, <1>10 DEF m2

(* The entry of a page at a level is its table at the level below. *)
LEMMA EntryIsTable ==
    ASSUME NEW m \in Mem, NEW v \in Nat, NEW l \in 1 .. Levels - 1
    PROVE  EntryAt(m, v, l + 1) = TableAt(m, v, l)
BY TableAtIs DEF EntryAt

LEMMA EntryIs ==
    ASSUME NEW m \in Mem, NEW v \in Nat
    PROVE  /\ EntryAt(m, v, 1) = m[TableAt(m, v, 1)][IndexAt(v, 1)]
           /\ EntryAt(m, v, 1) \in 0 .. Frames
<1>1. 1 \in 1 .. Levels  BY Constants
<1>2. TableAt(m, v, 1) \in 0 .. Frames /\ IndexAt(v, 1) \in 0 .. T - 1
  BY <1>1, TableAtIs, IndexIs
<1>3. m[TableAt(m, v, 1)] \in [0 .. T - 1 -> 0 .. Frames]  BY <1>2 DEF Mem
<1> QED  BY <1>2, <1>3 DEF EntryAt

(***************************************************************************)
(* The tables are a tree: those in use are the frames of B, each of them   *)
(* in one place, and all other frames are clear.                           *)
(***************************************************************************)
Tree(m, B) ==
    /\ m \in Mem /\ B \subseteq 0 .. Frames - 1
    /\ \A f \in 0 .. Frames : f \notin B => m[f] = EmptyTable
    /\ \A v \in VPages, l \in 1 .. Levels : TableAt(m, v, l) \in B \cup {NotPresent}
    /\ \A v, w \in VPages, k, l \in 1 .. Levels :
          TableAt(m, v, k) = TableAt(m, w, l) /\ TableAt(m, v, k) # NotPresent
          => k = l /\ Same(v, w, l)

LEMMA ClearEntry ==
    ASSUME NEW m, NEW B, Tree(m, B), NEW f \in 0 .. Frames, f \notin B, NEW i \in 0 .. T - 1
    PROVE  m[f][i] = NotPresent
BY DEF Tree, EmptyTable

(* A page without a table has no entry in it, and no table below. *)
LEMMA NothingBelow ==
    ASSUME NEW m, NEW B, Tree(m, B), NEW v \in VPages, NEW l \in 1 .. Levels,
           TableAt(m, v, l) = NotPresent
    PROVE  /\ l \in 1 .. Levels - 1
           /\ l # 1 => TableAt(m, v, l - 1) = NotPresent
           /\ l = 1 => EntryAt(m, v, 1) = NotPresent
<1>1. m \in Mem /\ v \in Nat /\ Frames \in 0 .. Frames /\ Frames \notin B
  BY VPagesAre, Constants DEF Tree
<1>2. l # Levels  BY <1>1, TableAtIs, Constants DEF NotPresent, Root
<1>3. \A i \in 0 .. T - 1 : m[Frames][i] = NotPresent  BY <1>1, ClearEntry
<1>4. ASSUME l # 1  PROVE TableAt(m, v, l - 1) = NotPresent
  <2>1. l - 1 \in 1 .. Levels - 1 /\ (l - 1) + 1 = l  BY <1>4, Constants
  <2>2. TableAt(m, v, l - 1) = m[TableAt(m, v, l)][IndexAt(v, l)]
    BY <1>1, <2>1, TableAtIs
  <2>3. IndexAt(v, l) \in 0 .. T - 1  BY <1>1, IndexIs
  <2> QED  BY <1>3, <2>2, <2>3 DEF NotPresent
<1>5. ASSUME l = 1  PROVE EntryAt(m, v, 1) = NotPresent
  BY <1>1, <1>3, <1>5, EntryIs, IndexIs DEF NotPresent
<1> QED  BY <1>2, <1>4, <1>5, Constants

(* A page that is present has its table. *)
LEMMA PresentHasTable ==
    ASSUME NEW m, NEW B, Tree(m, B), NEW v \in VPages, EntryAt(m, v, 1) # NotPresent
    PROVE  TableAt(m, v, 1) # NotPresent
<1>1. 1 \in 1 .. Levels  BY Constants
<1> QED  BY <1>1, NothingBelow

-----------------------------------------------------------------------------
(***************************************************************************)
(* A new table in a place that has none: every other place keeps its own,  *)
(* and no page is mapped or unmapped by it (memory.c:89-104).              *)
(***************************************************************************)
LEMMA AddTable ==
    ASSUME NEW m, NEW B, Tree(m, B), NEW v \in VPages, NEW l \in 1 .. Levels - 1,
           TableAt(m, v, l + 1) # NotPresent, TableAt(m, v, l) = NotPresent,
           NEW g \in 0 .. Frames - 1, g \notin B,
           NEW m2, m2 = WriteEntry(m, v, l + 1, g)
    PROVE  /\ Tree(m2, B \cup {g})
           /\ TableAt(m2, v, l) = g
           /\ \A w \in VPages : EntryAt(m2, w, 1) = EntryAt(m, w, 1)
<1> DEFINE a == TableAt(m, v, l + 1)
           Place(w, k) == IF k = l /\ Same(v, w, l) THEN g ELSE TableAt(m, w, k)
<1>1. /\ m \in Mem /\ VPages \subseteq Nat /\ g \in 0 .. Frames
      /\ l \in 1 .. Levels /\ l + 1 \in 1 .. Levels /\ (l + 1) - 1 = l
      /\ Frames = NotPresent /\ g # NotPresent
  <2>1. m \in Mem  BY DEF Tree
  <2>2. l \in 1 .. Levels /\ l + 1 \in 1 .. Levels /\ (l + 1) - 1 = l  BY Constants
  <2>3. g \in 0 .. Frames /\ Frames = NotPresent /\ g # NotPresent
    BY Constants DEF NotPresent
  <2> QED  BY <2>1, <2>2, <2>3, VPagesAre
<1>2. a \in B /\ a # g /\ a \in 0 .. Frames - 1 /\ a # NotPresent
  <2>1. a \in B \cup {NotPresent} /\ B \subseteq 0 .. Frames - 1  BY <1>1 DEF Tree
  <2> HIDE DEF a
  <2>2. a # NotPresent  BY DEF a
  <2> QED  BY <2>1, <2>2
<1>3. /\ m2 \in Mem
      /\ m2[a][IndexAt(v, l + 1)] = g
      /\ \A t \in 0 .. Frames : t # a => m2[t] = m[t]
      /\ \A t \in 0 .. Frames, i \in 0 .. T - 1 :
            t # a \/ i # IndexAt(v, l + 1) => m2[t][i] = m[t][i]
  <2>1. v \in Nat  BY <1>1
  <2>2. Differs(m, m2, a, IndexAt(v, l + 1), g)  BY <1>1, <2>1, Written
  <2> QED  BY <2>2 DEF Differs
<1>4. \A f \in 0 .. Frames : f \notin B => m2[f] = EmptyTable  BY <1>2, <1>3 DEF Tree
<1>5. \A i \in 0 .. T - 1 : m2[g][i] = NotPresent  BY <1>1, <1>4 DEF EmptyTable
<1>6. ASSUME NEW w \in VPages, NEW k \in 1 .. Levels, TableAt(m, w, k) = a
      PROVE  k = l + 1 /\ Same(v, w, l + 1)
  BY <1>1, <1>2, <1>6 DEF Tree, Same
<1>7. ASSUME NEW w \in VPages
      PROVE  \A k \in 1 .. Levels : TableAt(m2, w, k) = Place(w, k)
  <2> DEFINE S == {k \in 1 .. Levels : TableAt(m2, w, k) = Place(w, k)}
  <2>1. w \in Nat /\ v \in Nat  BY <1>1
  <2>2. Levels \in S  BY <1>1, <1>3, <2>1, TableAtIs, Constants
  <2>3. ASSUME NEW k \in 1 .. Levels - 1, TableAt(m2, w, k + 1) = Place(w, k + 1)
        PROVE  TableAt(m2, w, k) = Place(w, k)
    <3>1. k \in 1 .. Levels /\ k + 1 \in 1 .. Levels /\ (k + 1) - 1 = k /\ k + 1 # k
      BY Constants
    <3>2. /\ TableAt(m2, w, k) = m2[TableAt(m2, w, k + 1)][IndexAt(w, k + 1)]
          /\ TableAt(m, w, k) = m[TableAt(m, w, k + 1)][IndexAt(w, k + 1)]
          /\ TableAt(m, w, k + 1) \in 0 .. Frames
          /\ IndexAt(w, k + 1) \in 0 .. T - 1
      <4>1. TableAt(m2, w, k) = m2[TableAt(m2, w, k + 1)][IndexAt(w, k + 1)]
        BY <1>3, <2>1, TableAtIs
      <4>2. /\ TableAt(m, w, k) = m[TableAt(m, w, k + 1)][IndexAt(w, k + 1)]
            /\ TableAt(m, w, k + 1) \in 0 .. Frames
        BY <1>1, <2>1, <3>1, TableAtIs
      <4>3. IndexAt(w, k + 1) \in 0 .. T - 1  BY <2>1, <3>1, IndexIs
      <4> QED  BY <4>1, <4>2, <4>3
    <3>3. CASE k + 1 = l /\ Same(v, w, l)
      <4>1. TableAt(m2, w, k) = NotPresent  BY <1>5, <2>3, <3>2, <3>3
      <4>2. TableAt(m, w, k + 1) = NotPresent  BY <1>1, <2>1, <3>3, SamePlace
      <4>3. TableAt(m, w, k) = NotPresent  BY <3>1, <4>2, NothingBelow
      <4> QED  BY <3>1, <3>3, <4>1, <4>3
    <3>4. CASE ~ (k + 1 = l /\ Same(v, w, l))
      <4>1. TableAt(m2, w, k + 1) = TableAt(m, w, k + 1)  BY <2>3, <3>4
      <4>2. CASE k = l /\ Same(v, w, l)
        <5>1. Same(v, w, l + 1) /\ IndexAt(v, l + 1) = IndexAt(w, l + 1)
          BY <1>1, <2>1, <4>2, SameBelow
        <5>2. TableAt(m, w, l + 1) = a  BY <1>1, <2>1, <5>1, SamePlace
        <5> QED  BY <1>3, <3>2, <4>1, <4>2, <5>1, <5>2
      <4>3. CASE ~ (k = l /\ Same(v, w, l))
        <5>1. TableAt(m, w, k + 1) # a \/ IndexAt(w, k + 1) # IndexAt(v, l + 1)
          <6> SUFFICES ASSUME TableAt(m, w, k + 1) = a, IndexAt(w, k + 1) = IndexAt(v, l + 1)
                       PROVE  FALSE
            OBVIOUS
          <6>1. k + 1 = l + 1 /\ Same(v, w, l + 1)  BY <1>6, <3>1
          <6>2. k = l  BY <6>1, Constants
          <6>3. Same(v, w, l)  BY <1>1, <2>1, <6>1, <6>2, SameBelow
          <6> QED  BY <4>3, <6>2, <6>3
        <5> QED  BY <1>3, <3>2, <4>1, <4>3, <5>1
      <4> QED  BY <4>2, <4>3
    <3> QED  BY <3>3, <3>4
  <2>4. \A k \in 1 .. Levels - 1 : k + 1 \in S => k \in S
    <3>1. \A k \in 1 .. Levels - 1 : k \in 1 .. Levels  BY Constants
    <3> QED  BY <2>3, <3>1
  <2> HIDE DEF S
  <2>5. 1 .. Levels \subseteq S  BY <2>2, <2>4, Downwards
  <2> QED  BY <2>5 DEF S
<1> HIDE DEF a
<1>8. TableAt(m2, v, l) = g  BY <1>1, <1>7 DEF Same
<1>9. ASSUME NEW w \in VPages  PROVE EntryAt(m2, w, 1) = EntryAt(m, w, 1)
  <2>1. w \in Nat /\ v \in Nat /\ 1 \in 1 .. Levels  BY <1>1, Constants
  <2>2. /\ EntryAt(m2, w, 1) = m2[TableAt(m2, w, 1)][IndexAt(w, 1)]
        /\ EntryAt(m, w, 1) = m[TableAt(m, w, 1)][IndexAt(w, 1)]
        /\ IndexAt(w, 1) \in 0 .. T - 1 /\ TableAt(m, w, 1) \in 0 .. Frames
    BY <1>1, <1>3, <2>1, EntryIs, IndexIs, TableAtIs
  <2>3. CASE 1 = l /\ Same(v, w, l)
    <3>1. EntryAt(m2, w, 1) = NotPresent  BY <1>5, <1>7, <2>1, <2>2, <2>3
    <3>2. TableAt(m, w, 1) = NotPresent  BY <1>1, <2>1, <2>3, SamePlace
    <3>3. EntryAt(m, w, 1) = NotPresent  BY <2>1, <3>2, NothingBelow
    <3> QED  BY <3>1, <3>3
  <2>4. CASE ~ (1 = l /\ Same(v, w, l))
    <3>1. TableAt(m2, w, 1) = TableAt(m, w, 1)  BY <1>7, <2>1, <2>4
    <3>2. TableAt(m, w, 1) # a
      <4> SUFFICES ASSUME TableAt(m, w, 1) = a  PROVE FALSE  OBVIOUS
      <4>1. 1 = l + 1  BY <1>6, <2>1 DEF a
      <4> QED  BY <4>1, Constants
    <3> QED  BY <1>3, <2>2, <3>1, <3>2
  <2> QED  BY <2>3, <2>4
<1>10. Tree(m2, B \cup {g})
  <2>1. B \cup {g} \subseteq 0 .. Frames - 1  BY DEF Tree
  <2>2. \A w \in VPages, k \in 1 .. Levels : TableAt(m2, w, k) \in B \cup {g} \cup {NotPresent}
    BY <1>7 DEF Tree
  <2>3. ASSUME NEW x \in VPages, NEW w \in VPages, NEW j \in 1 .. Levels, NEW k \in 1 .. Levels,
               TableAt(m2, x, j) = TableAt(m2, w, k), TableAt(m2, x, j) # NotPresent
        PROVE  j = k /\ Same(x, w, k)
    <3>1. TableAt(m2, x, j) = Place(x, j) /\ TableAt(m2, w, k) = Place(w, k)  BY <1>7
    <3>2. TableAt(m, x, j) # g /\ TableAt(m, w, k) # g  BY <1>1 DEF Tree
    <3>3. CASE j = l /\ Same(v, x, l)
      <4>1. k = l /\ Same(v, w, l)  BY <2>3, <3>1, <3>2, <3>3
      <4> QED  BY <3>3, <4>1 DEF Same
    <3>4. CASE ~ (j = l /\ Same(v, x, l))
      <4>1. ~ (k = l /\ Same(v, w, l))  BY <2>3, <3>1, <3>2, <3>4
      <4>2. TableAt(m, x, j) = TableAt(m, w, k) /\ TableAt(m, x, j) # NotPresent
        BY <2>3, <3>1, <3>4, <4>1
      <4> QED  BY <4>2 DEF Tree
    <3> QED  BY <3>3, <3>4
  <2> HIDE DEF Place
  <2> QED  BY <1>3, <1>4, <2>1, <2>2, <2>3 DEF Tree
<1> QED  BY <1>8, <1>9, <1>10

(***************************************************************************)
(* An entry of a table of the lowest level: no table moves, and no other   *)
(* page is mapped or unmapped (memory.c:119-126).                          *)
(***************************************************************************)
LEMMA MapLeaf ==
    ASSUME NEW m, NEW B, Tree(m, B), NEW v \in VPages, TableAt(m, v, 1) # NotPresent,
           NEW x \in 0 .. Frames, NEW m2, m2 = WriteEntry(m, v, 1, x)
    PROVE  /\ Tree(m2, B)
           /\ EntryAt(m2, v, 1) = x
           /\ \A w \in VPages : w # v => EntryAt(m2, w, 1) = EntryAt(m, w, 1)
<1> DEFINE a == TableAt(m, v, 1)
<1>1. /\ m \in Mem /\ VPages \subseteq Nat /\ 1 \in 1 .. Levels /\ 1 - 1 = 0
  BY VPagesAre, Constants DEF Tree
<1>2. a \in B /\ a \in 0 .. Frames /\ a # NotPresent
  <2>1. B \subseteq 0 .. Frames /\ a \in B \cup {NotPresent}  BY <1>1, Constants DEF Tree
  <2> QED  BY <2>1
<1>3. /\ m2 \in Mem
      /\ m2[a][IndexAt(v, 1)] = x
      /\ \A t \in 0 .. Frames : t # a => m2[t] = m[t]
      /\ \A t \in 0 .. Frames, i \in 0 .. T - 1 :
            t # a \/ i # IndexAt(v, 1) => m2[t][i] = m[t][i]
  <2>1. v \in Nat  BY <1>1
  <2>2. Differs(m, m2, a, IndexAt(v, 1), x)  BY <1>1, <2>1, Written
  <2> QED  BY <2>2 DEF Differs
<1>4. ASSUME NEW w \in VPages, NEW k \in 1 .. Levels, TableAt(m, w, k) = a
      PROVE  k = 1 /\ Same(v, w, 1)
  BY <1>1, <1>2, <1>4 DEF Tree, Same
<1>5. ASSUME NEW w \in VPages
      PROVE  \A k \in 1 .. Levels : TableAt(m2, w, k) = TableAt(m, w, k)
  <2> DEFINE S == {k \in 1 .. Levels : TableAt(m2, w, k) = TableAt(m, w, k)}
  <2>1. w \in Nat  BY <1>1
  <2>2. Levels \in S  BY <1>1, <1>3, <2>1, TableAtIs, Constants
  <2>3. ASSUME NEW k \in 1 .. Levels - 1, TableAt(m2, w, k + 1) = TableAt(m, w, k + 1)
        PROVE  TableAt(m2, w, k) = TableAt(m, w, k)
    <3>1. k + 1 \in 1 .. Levels /\ k + 1 # 1  BY Constants
    <3>2. /\ TableAt(m2, w, k) = m2[TableAt(m2, w, k + 1)][IndexAt(w, k + 1)]
          /\ TableAt(m, w, k) = m[TableAt(m, w, k + 1)][IndexAt(w, k + 1)]
          /\ TableAt(m, w, k + 1) \in 0 .. Frames
      BY <1>1, <1>3, <2>1, <3>1, TableAtIs
    <3>3. TableAt(m, w, k + 1) # a  BY <1>4, <3>1
    <3> QED  BY <1>3, <2>3, <3>2, <3>3
  <2>4. \A k \in 1 .. Levels - 1 : k + 1 \in S => k \in S
    <3>1. \A k \in 1 .. Levels - 1 : k \in 1 .. Levels  BY Constants
    <3> QED  BY <2>3, <3>1
  <2> HIDE DEF S
  <2>5. 1 .. Levels \subseteq S  BY <2>2, <2>4, Downwards
  <2> QED  BY <2>5 DEF S
<1>6. EntryAt(m2, v, 1) = x  BY <1>1, <1>3, <1>5, EntryIs
<1>7. ASSUME NEW w \in VPages, w # v  PROVE EntryAt(m2, w, 1) = EntryAt(m, w, 1)
  <2>1. w \in Nat /\ v \in Nat  BY <1>1
  <2>2. /\ EntryAt(m2, w, 1) = m2[TableAt(m2, w, 1)][IndexAt(w, 1)]
        /\ EntryAt(m, w, 1) = m[TableAt(m, w, 1)][IndexAt(w, 1)]
        /\ IndexAt(w, 1) \in 0 .. T - 1 /\ TableAt(m, w, 1) \in 0 .. Frames
        /\ TableAt(m2, w, 1) = TableAt(m, w, 1)
    BY <1>1, <1>3, <1>5, <2>1, EntryIs, IndexIs, TableAtIs
  <2>3. TableAt(m, w, 1) # a \/ IndexAt(w, 1) # IndexAt(v, 1)
    <3> SUFFICES ASSUME TableAt(m, w, 1) = a, IndexAt(w, 1) = IndexAt(v, 1)  PROVE FALSE
      OBVIOUS
    <3>1. Same(v, w, 1)  BY <1>1, <1>4
    <3>2. Same(v, w, 0)  BY <1>1, <2>1, <3>1, SameBelow
    <3> QED  BY <1>7, <2>1, <3>2, SameZero
  <2> QED  BY <1>3, <2>2, <2>3
<1>8. Tree(m2, B)
  <2>1. \A f \in 0 .. Frames : f \notin B => m2[f] = EmptyTable  BY <1>2, <1>3 DEF Tree
  <2> HIDE DEF a
  <2> QED  BY <1>3, <1>5, <2>1 DEF Tree
<1> QED  BY <1>6, <1>7, <1>8

-----------------------------------------------------------------------------
(* The memory and the next frame, as pga_map goes on with them. *)
States == [m : Mem, next : Nat]

(* The frames from n on, up to the boot tables, are no tables. *)
ClearFrom(B, n) == \A g \in n .. Frames - Levels - 1 : g \notin B

(* From s, whose tables are B, to x: tables are added in frames of between. *)
Grown(s, B, x) ==
    /\ x \in States /\ s.next <= x.next
    /\ \E C : Tree(x.m, C) /\ ClearFrom(C, x.next) /\ C \subseteq B \cup (s.next .. x.next - 1)

LEMMA GrownMore ==
    ASSUME NEW s \in States, NEW B, NEW x, Grown(s, B, x)
    PROVE  \E C : /\ Tree(x.m, C) /\ ClearFrom(C, x.next)
                  /\ C \subseteq B \cup (s.next .. x.next - 1)
                  /\ \A y : Grown(x, C, y) => Grown(s, B, y)
<1>1. PICK C : /\ Tree(x.m, C) /\ ClearFrom(C, x.next)
               /\ C \subseteq B \cup (s.next .. x.next - 1)
  BY DEF Grown
<1>2. x \in States /\ s.next <= x.next /\ s.next \in Nat /\ x.next \in Nat
  BY DEF Grown, States
<1>3. ASSUME NEW y, Grown(x, C, y)  PROVE Grown(s, B, y)
  <2>1. PICK D : /\ Tree(y.m, D) /\ ClearFrom(D, y.next)
                 /\ D \subseteq C \cup (x.next .. y.next - 1)
    BY <1>3 DEF Grown
  <2>2. y \in States /\ x.next <= y.next /\ y.next \in Nat  BY <1>3 DEF Grown, States
  <2>3. s.next .. x.next - 1 \subseteq s.next .. y.next - 1
        /\ x.next .. y.next - 1 \subseteq s.next .. y.next - 1
    BY <1>2, <2>2
  <2>4. D \subseteq B \cup (s.next .. y.next - 1)  BY <1>1, <2>1, <2>3
  <2>5. s.next <= y.next  BY <1>2, <2>2
  <2> QED  BY <2>1, <2>2, <2>4, <2>5 DEF Grown
<1> QED  BY <1>1, <1>3

(* The table of a level, which is added when the entry above has none. *)
NextTable(v, l, x) ==
    IF page_ispresent(x.m, v, l + 1) THEN x
    ELSE [m |-> WriteEntry(x.m, v, l + 1, x.next), next |-> x.next + 1]

(* The tables of v are there down to the level l. *)
DownTo(s, B, v, l) ==
    {x \in States : /\ Grown(s, B, x) /\ x.next <= s.next + Levels - l
                    /\ TableAt(x.m, v, l) # NotPresent
                    /\ \A w \in VPages : EntryAt(x.m, w, 1) = EntryAt(s.m, w, 1)}

LEMMA NextTableDown ==
    ASSUME NEW s \in States, NEW B, s.next + Levels - 1 <= Frames - Levels,
           NEW v \in VPages, NEW l \in 1 .. Levels - 1, NEW x \in DownTo(s, B, v, l + 1)
    PROVE  NextTable(v, l, x) \in DownTo(s, B, v, l)
<1>1. /\ x \in States /\ Grown(s, B, x) /\ x.next <= s.next + Levels - (l + 1)
      /\ TableAt(x.m, v, l + 1) # NotPresent
      /\ \A w \in VPages : EntryAt(x.m, w, 1) = EntryAt(s.m, w, 1)
  BY DEF DownTo
<1>2. x.m \in Mem /\ x.next \in Nat /\ s.next \in Nat /\ v \in Nat
  BY <1>1, VPagesAre DEF States
<1>3. EntryAt(x.m, v, l + 1) = TableAt(x.m, v, l)  BY <1>2, EntryIsTable
<1>4. CASE page_ispresent(x.m, v, l + 1)
  <2>1. NextTable(v, l, x) = x  BY <1>4 DEF NextTable
  <2>2. TableAt(x.m, v, l) # NotPresent  BY <1>3, <1>4 DEF page_ispresent
  <2>3. x.next <= s.next + Levels - l  BY <1>1, <1>2, Constants
  <2> QED  BY <1>1, <2>1, <2>2, <2>3 DEF DownTo
<1>5. CASE ~ page_ispresent(x.m, v, l + 1)
  <2>1. PICK C : /\ Tree(x.m, C) /\ ClearFrom(C, x.next)
                 /\ C \subseteq B \cup (s.next .. x.next - 1)
                 /\ \A y : Grown(x, C, y) => Grown(s, B, y)
    BY <1>1, GrownMore
  <2>2. TableAt(x.m, v, l) = NotPresent  BY <1>3, <1>5 DEF page_ispresent
  <2>3. PICK g \in Nat : g = x.next  BY <1>2
  <2>4. g \in g .. Frames - Levels - 1 /\ g \in 0 .. Frames - 1
    BY <1>1, <1>2, <2>3, Constants
  <2>5. g \notin C  BY <2>1, <2>3, <2>4 DEF ClearFrom
  <2>6. PICK m2 : m2 = WriteEntry(x.m, v, l + 1, g)  OBVIOUS
  <2>7. /\ Tree(m2, C \cup {g}) /\ TableAt(m2, v, l) = g
        /\ \A w \in VPages : EntryAt(m2, w, 1) = EntryAt(x.m, w, 1)
    BY <1>1, <2>1, <2>2, <2>4, <2>5, <2>6, AddTable
  <2>8. PICK y : y = [m |-> m2, next |-> g + 1]  OBVIOUS
  <2>9. y.m = m2 /\ y.next = g + 1  BY <2>8
  <2>10. y \in States  BY <2>3, <2>7, <2>8 DEF Tree, States
  <2>11. NextTable(v, l, x) = y  BY <1>5, <2>3, <2>6, <2>8 DEF NextTable
  <2>12. Grown(x, C, y)
    <3>1. ClearFrom(C \cup {g}, g + 1)
      <4>1. ASSUME NEW f \in g + 1 .. Frames - Levels - 1  PROVE f \notin C \cup {g}
        <5>1. f \in g .. Frames - Levels - 1 /\ f # g  BY <2>3
        <5> QED  BY <2>1, <2>3, <5>1 DEF ClearFrom
      <4> QED  BY <4>1 DEF ClearFrom
    <3>2. C \cup {g} \subseteq C \cup (x.next .. y.next - 1)  BY <2>3, <2>9
    <3>3. x.next <= y.next  BY <2>3, <2>9
    <3> QED  BY <2>7, <2>9, <2>10, <3>1, <3>2, <3>3 DEF Grown
  <2>13. y.next <= s.next + Levels - l  BY <1>1, <1>2, <2>3, <2>9, Constants
  <2>14. TableAt(y.m, v, l) # NotPresent  BY <2>4, <2>7, <2>9, Constants DEF NotPresent
  <2>15. \A w \in VPages : EntryAt(y.m, w, 1) = EntryAt(s.m, w, 1)  BY <1>1, <2>7, <2>9
  <2> QED  BY <2>1, <2>10, <2>11, <2>12, <2>13, <2>14, <2>15 DEF DownTo
<1> QED  BY <1>4, <1>5

LEMMA RootDown ==
    ASSUME NEW s \in States, NEW B, Tree(s.m, B), ClearFrom(B, s.next), NEW v \in VPages
    PROVE  s \in DownTo(s, B, v, Levels)
<1>1. s.m \in Mem /\ s.next \in Nat /\ v \in Nat  BY VPagesAre DEF States
<1>2. TableAt(s.m, v, Levels) # NotPresent
  BY <1>1, TableAtIs, Constants DEF Root, NotPresent
<1>3. Grown(s, B, s)  BY <1>1 DEF Grown
<1>4. s.next <= s.next + Levels - Levels  BY <1>1, Constants
<1> QED  BY <1>2, <1>3, <1>4 DEF DownTo

(* page_table_alloc adds the tables of a page that are missing. *)
LEMMA AllocTables ==
    ASSUME NEW s \in States, NEW B, Tree(s.m, B), ClearFrom(B, s.next), NEW v \in VPages,
           s.next + Levels - 1 <= Frames - Levels
    PROVE  page_table_alloc(s, v) \in DownTo(s, B, v, 1)
<1> DEFINE P == [l \in 1 .. Levels |-> DownTo(s, B, v, l)]
           G == [z \in (1 .. Levels - 1) \X States |-> NextTable(v, z[1], z[2])]
           Is(f) == f = [l \in 1 .. Levels |->
                           IF l = Levels THEN s
                           ELSE IF page_ispresent(f[l + 1].m, v, l + 1) THEN f[l + 1]
                           ELSE [m    |-> WriteEntry(f[l + 1].m, v, l + 1, f[l + 1].next),
                                 next |-> f[l + 1].next + 1]]
<1>1. 1 \in 1 .. Levels /\ Levels \in 1 .. Levels
      /\ \A l \in 1 .. Levels - 1 : l \in 1 .. Levels /\ l + 1 \in 1 .. Levels /\ l # Levels
  BY Constants
<1>2. \A l \in 1 .. Levels : P[l] = DownTo(s, B, v, l)  OBVIOUS
<1>3. \A l \in 1 .. Levels - 1 : \A x \in States : G[<<l, x>>] = NextTable(v, l, x)  OBVIOUS
<1> HIDE DEF P, G
<1>4. \E f : Is(f)
  <2>1. Downwise(P, s, G)
    <3>1. s \in P[Levels]  BY <1>1, <1>2, RootDown
    <3>2. ASSUME NEW l \in 1 .. Levels - 1, NEW x \in P[l + 1]  PROVE G[<<l, x>>] \in P[l]
      <4>1. x \in DownTo(s, B, v, l + 1)  BY <1>1, <1>2, <3>2
      <4>2. x \in States  BY <4>1 DEF DownTo
      <4> QED  BY <1>1, <1>2, <1>3, <4>1, <4>2, NextTableDown
    <3> QED  BY <3>1, <3>2 DEF Downwise
  <2>2. PICK f : Descends(f, P, s, G)  BY <2>1, Descent
  <2>3. /\ f = [l \in 1 .. Levels |-> f[l]]
        /\ f[Levels] = s
        /\ \A l \in 1 .. Levels : f[l] \in P[l]
        /\ \A l \in 1 .. Levels - 1 : f[l] = G[<<l, f[l + 1]>>]
    BY <2>2 DEF Descends
  <2>4. \A l \in 1 .. Levels : f[l] = IF l = Levels THEN s ELSE NextTable(v, l, f[l + 1])
    <3> TAKE l \in 1 .. Levels
    <3>1. CASE l = Levels  BY <2>3, <3>1
    <3>2. CASE l # Levels
      <4>1. l \in 1 .. Levels - 1  BY <3>2, Constants
      <4>2. f[l + 1] \in States  BY <1>1, <1>2, <2>3, <4>1 DEF DownTo
      <4> QED  BY <1>3, <2>3, <3>2, <4>1, <4>2
    <3> QED  BY <3>1, <3>2
  <2>5. Is(f)  BY <2>3, <2>4 DEF NextTable
  <2> QED  BY <2>5
<1> DEFINE alloc == CHOOSE f : Is(f)
<1>5. Is(alloc)  BY <1>4
<1>6. page_table_alloc(s, v) = alloc[1]  BY DEF page_table_alloc
<1> HIDE DEF alloc
<1>7. alloc[Levels] = s  BY <1>1, <1>5
<1>8. \A l \in 1 .. Levels - 1 : alloc[l] = NextTable(v, l, alloc[l + 1])
  BY <1>1, <1>5 DEF NextTable
<1> HIDE DEF Is
<1> DEFINE S == {l \in 1 .. Levels : alloc[l] \in DownTo(s, B, v, l)}
<1>9. Levels \in S  BY <1>1, <1>7, RootDown
<1>10. \A l \in 1 .. Levels - 1 : l + 1 \in S => l \in S
  BY <1>1, <1>8, NextTableDown
<1>11. 1 .. Levels \subseteq S
  <2> HIDE DEF S
  <2> QED  BY <1>9, <1>10, Downwards
<1> QED  BY <1>1, <1>6, <1>11

-----------------------------------------------------------------------------
(* The first i pages of a block at v lead to the frames from f on. *)
MappedUpto(s, B, v, f, i) ==
    {x \in States : /\ Grown(s, B, x) /\ x.next <= s.next + i * (Levels - 1)
                    /\ \A w \in VPages : EntryAt(x.m, w, 1) =
                          IF w \in v .. v + i - 1 THEN f + w - v ELSE EntryAt(s.m, w, 1)}

LEMMA NextPageMapped ==
    ASSUME NEW s \in States, NEW B, NEW n \in Nat, NEW i \in 1 .. n,
           s.next + n * (Levels - 1) <= Frames - Levels,
           NEW v \in Nat, v .. v + n - 1 \subseteq VPages,
           NEW f \in Nat, f + n <= Frames,
           NEW x \in MappedUpto(s, B, v, f, i - 1)
    PROVE  MapPage(page_table_alloc(x, v + i - 1), v + i - 1, f + i - 1)
           \in MappedUpto(s, B, v, f, i)
<1>1. PICK p \in VPages : p = v + i - 1
  <2>1. v + i - 1 \in v .. v + n - 1  OBVIOUS
  <2> QED  BY <2>1
<1>2. PICK g \in 0 .. Frames : g = f + i - 1  BY Constants
<1>3. /\ x \in States /\ Grown(s, B, x) /\ x.next <= s.next + (i - 1) * (Levels - 1)
      /\ \A w \in VPages : EntryAt(x.m, w, 1) =
            IF w \in v .. v + (i - 1) - 1 THEN f + w - v ELSE EntryAt(s.m, w, 1)
  BY DEF MappedUpto
<1>4. PICK a \in Nat, b \in Nat : a = s.next /\ b = x.next  BY <1>3 DEF States
<1>5. PICK c \in Nat : c = Levels - 1  BY Constants
<1>6. b + c <= a + i * c /\ b + c <= Frames - Levels
  <2>1. (i - 1) * c + c = i * c  OBVIOUS
  <2>2. i * c <= n * c  OBVIOUS
  <2>3. PICK d \in Nat, e \in Nat, h \in Nat : d = (i - 1) * c /\ e = i * c /\ h = n * c
    BY <1>5
  <2>4. b <= a + d /\ d + c = e /\ e <= h  BY <1>3, <1>4, <1>5, <2>1, <2>2, <2>3
  <2>5. a + h <= Frames - Levels  BY <1>4, <1>5, <2>3
  <2>6. b + c <= a + e /\ b + c <= Frames - Levels  BY <2>4, <2>5, Constants
  <2> QED  BY <2>3, <2>6
<1>7. PICK C : /\ Tree(x.m, C) /\ ClearFrom(C, x.next)
               /\ C \subseteq B \cup (s.next .. x.next - 1)
               /\ \A y : Grown(x, C, y) => Grown(s, B, y)
  BY <1>3, GrownMore
<1>8. PICK y : y = page_table_alloc(x, p)  OBVIOUS
<1>9. y \in DownTo(x, C, p, 1)
  <2>1. x.next + Levels - 1 <= Frames - Levels  BY <1>4, <1>5, <1>6, Constants
  <2> QED  BY <1>3, <1>7, <1>8, <2>1, AllocTables
<1>10. /\ y \in States /\ Grown(x, C, y) /\ y.next <= x.next + Levels - 1
       /\ TableAt(y.m, p, 1) # NotPresent
       /\ \A w \in VPages : EntryAt(y.m, w, 1) = EntryAt(x.m, w, 1)
  BY <1>9 DEF DownTo
<1>11. PICK D : /\ Tree(y.m, D) /\ ClearFrom(D, y.next)
                /\ D \subseteq C \cup (x.next .. y.next - 1)
  BY <1>10 DEF Grown
<1>12. PICK z : z = MapPage(y, p, g)  OBVIOUS
<1>13. z.m = WriteEntry(y.m, p, 1, g) /\ z.next = y.next /\ z = [m |-> z.m, next |-> z.next]
  BY <1>10, <1>12 DEF States, MapPage
<1>14. /\ Tree(z.m, D) /\ EntryAt(z.m, p, 1) = g
       /\ \A w \in VPages : w # p => EntryAt(z.m, w, 1) = EntryAt(y.m, w, 1)
  BY <1>10, <1>11, <1>13, MapLeaf
<1>15. z \in States
  <2>1. z.m \in Mem /\ z.next \in Nat  BY <1>10, <1>13, <1>14 DEF States, Tree
  <2> QED  BY <1>13, <2>1 DEF States
<1>16. Grown(s, B, z)
  <2>1. x.next <= z.next  BY <1>10, <1>13 DEF Grown
  <2>2. Grown(x, C, z)  BY <1>11, <1>13, <1>14, <1>15, <2>1 DEF Grown
  <2> QED  BY <1>7, <2>2
<1>17. z.next <= s.next + i * (Levels - 1)
  <2>1. PICK e \in Nat : e = i * c  OBVIOUS
  <2>2. y.next \in Nat /\ y.next <= b + c  BY <1>4, <1>5, <1>10, Constants DEF States
  <2> QED  BY <1>4, <1>5, <1>6, <1>13, <2>1, <2>2
<1>18. ASSUME NEW w \in VPages
       PROVE  EntryAt(z.m, w, 1) = IF w \in v .. v + i - 1 THEN f + w - v ELSE EntryAt(s.m, w, 1)
  <2>1. w \in Nat  BY VPagesAre
  <2>2. CASE w = p
    <3>1. w \in v .. v + i - 1 /\ f + w - v = g  BY <1>1, <1>2, <2>2
    <3> QED  BY <1>14, <2>2, <3>1
  <2>3. CASE w # p
    <3>1. w \in v .. v + (i - 1) - 1 <=> w \in v .. v + i - 1  BY <1>1, <2>1, <2>3
    <3>2. EntryAt(z.m, w, 1) = EntryAt(x.m, w, 1)  BY <1>10, <1>14, <2>3
    <3> QED  BY <1>3, <3>1, <3>2
  <2> QED  BY <2>2, <2>3
<1>19. z \in MappedUpto(s, B, v, f, i)  BY <1>15, <1>16, <1>17, <1>18 DEF MappedUpto
<1> QED  BY <1>1, <1>2, <1>8, <1>12, <1>19

(* pga_map: the pages of the block lead to its frames, and no others differ. *)
LEMMA BlockMapped ==
    ASSUME NEW s \in States, NEW B, Tree(s.m, B), ClearFrom(B, s.next),
           NEW o, ORDER(o) \in Nat,
           s.next + ORDER(o) * (Levels - 1) <= Frames - Levels,
           NEW v \in Nat, PagesFrom(v, o) \subseteq VPages,
           NEW f \in Nat, f + ORDER(o) <= Frames
    PROVE  pga_map(s, v, o, f) \in MappedUpto(s, B, v, f, ORDER(o))
<1> DEFINE n == ORDER(o)
           Page(i, x) == MapPage(page_table_alloc(x, v + i - 1), v + i - 1, f + i - 1)
           P == [i \in 0 .. n |-> MappedUpto(s, B, v, f, i)]
           G == [z \in (1 .. n) \X States |-> Page(z[1], z[2])]
           Is(g) == g = [i \in 0 .. n |-> IF i = 0 THEN s ELSE Page(i, g[i - 1])]
<1>1. \A i \in 1 .. n : i \in 0 .. n /\ i - 1 \in 0 .. n /\ i # 0  OBVIOUS
<1>2. \A i \in 0 .. n : P[i] = MappedUpto(s, B, v, f, i)  OBVIOUS
<1>3. \A i \in 1 .. n : \A x \in States : G[<<i, x>>] = Page(i, x)  OBVIOUS
<1>4. ASSUME NEW i \in 1 .. n, NEW x \in MappedUpto(s, B, v, f, i - 1)
      PROVE  Page(i, x) \in MappedUpto(s, B, v, f, i)
  BY NextPageMapped DEF PagesFrom
<1>5. s \in MappedUpto(s, B, v, f, 0)
  <2>1. s.next \in Nat /\ 0 * (Levels - 1) = 0  BY Constants DEF States
  <2>2. Grown(s, B, s)  BY <2>1 DEF Grown
  <2>3. \A w \in VPages : w \notin v .. v + 0 - 1  BY VPagesAre
  <2> QED  BY <2>1, <2>2, <2>3 DEF MappedUpto
<1> HIDE DEF P, G, Page, n
<1>6. n \in Nat  BY DEF n
<1>7. \E g : Is(g)
  <2>1. Stepwise(n, P, s, G)
    <3>1. s \in P[0]  BY <1>2, <1>5, <1>6
    <3>2. ASSUME NEW i \in 1 .. n, NEW x \in P[i - 1]  PROVE G[<<i, x>>] \in P[i]
      <4>1. x \in MappedUpto(s, B, v, f, i - 1)  BY <1>1, <1>2, <3>2
      <4>2. x \in States  BY <4>1 DEF MappedUpto
      <4> QED  BY <1>1, <1>2, <1>3, <1>4, <4>1, <4>2
    <3> QED  BY <3>1, <3>2 DEF Stepwise
  <2>2. PICK g : Computes(g, n, P, s, G)  BY <1>6, <2>1, Computation
  <2>3. /\ g = [i \in 0 .. n |-> g[i]]
        /\ g[0] = s
        /\ \A i \in 0 .. n : g[i] \in P[i]
        /\ \A i \in 1 .. n : g[i] = G[<<i, g[i - 1]>>]
    BY <2>2 DEF Computes
  <2>4. \A i \in 0 .. n : g[i] = IF i = 0 THEN s ELSE Page(i, g[i - 1])
    <3> TAKE i \in 0 .. n
    <3>1. CASE i = 0  BY <2>3, <3>1
    <3>2. CASE i # 0
      <4>1. i \in 1 .. n  BY <1>6, <3>2
      <4>2. g[i - 1] \in States  BY <1>1, <1>2, <2>3, <4>1 DEF MappedUpto
      <4> QED  BY <1>3, <2>3, <3>2, <4>1, <4>2
    <3> QED  BY <3>1, <3>2
  <2> QED  BY <2>3, <2>4
<1> DEFINE step == CHOOSE g : Is(g)
<1>8. Is(step)  BY <1>7
<1>9. pga_map(s, v, o, f) = step[n]  BY DEF pga_map, Page, n
<1> HIDE DEF step
<1>10. step[0] = s /\ \A i \in 1 .. n : step[i] = Page(i, step[i - 1])
  BY <1>1, <1>6, <1>8
<1> HIDE DEF Is
<1> DEFINE S == {i \in 0 .. n : step[i] \in MappedUpto(s, B, v, f, i)}
<1>11. 0 \in S  BY <1>5, <1>6, <1>10
<1>12. \A i \in 1 .. n : i - 1 \in S => i \in S  BY <1>1, <1>4, <1>10
<1>13. 0 .. n \subseteq S
  <2> HIDE DEF S
  <2> QED  BY <1>6, <1>11, <1>12, Upwards
<1>14. step[n] \in MappedUpto(s, B, v, f, n)  BY <1>6, <1>13
<1> QED  BY <1>9, <1>14 DEF n

-----------------------------------------------------------------------------
(* The first i pages of a block at v are not present. *)
UnmappedUpto(m, B, v, i) ==
    {x \in Mem : /\ Tree(x, B)
                 /\ \A w \in VPages : EntryAt(x, w, 1) =
                       IF w \in v .. v + i - 1 THEN NotPresent ELSE EntryAt(m, w, 1)}

NextPageUnmapped(v, i, x) ==
    IF page_ispresent(x, v + i - 1, 1) THEN WriteEntry(x, v + i - 1, 1, NotPresent) ELSE x

LEMMA NextUnmapped ==
    ASSUME NEW m, NEW B, NEW n \in Nat, NEW i \in 1 .. n,
           NEW v \in Nat, v .. v + n - 1 \subseteq VPages,
           NEW x \in UnmappedUpto(m, B, v, i - 1)
    PROVE  NextPageUnmapped(v, i, x) \in UnmappedUpto(m, B, v, i)
<1>1. PICK p \in VPages : p = v + i - 1
  <2>1. v + i - 1 \in v .. v + n - 1  OBVIOUS
  <2> QED  BY <2>1
<1>2. PICK z : z = NextPageUnmapped(v, i, x)  OBVIOUS
<1>3. /\ Tree(x, B)
      /\ \A w \in VPages : EntryAt(x, w, 1) =
            IF w \in v .. v + (i - 1) - 1 THEN NotPresent ELSE EntryAt(m, w, 1)
  BY DEF UnmappedUpto
<1>4. /\ Tree(z, B) /\ EntryAt(z, p, 1) = NotPresent
      /\ \A w \in VPages : w # p => EntryAt(z, w, 1) = EntryAt(x, w, 1)
  <2>1. CASE page_ispresent(x, p, 1)
    <3>1. z = WriteEntry(x, p, 1, NotPresent)  BY <1>1, <1>2, <2>1 DEF NextPageUnmapped
    <3>2. TableAt(x, p, 1) # NotPresent  BY <1>3, <2>1, PresentHasTable DEF page_ispresent
    <3>3. NotPresent \in 0 .. Frames  BY Constants DEF NotPresent
    <3> QED  BY <1>3, <3>1, <3>2, <3>3, MapLeaf
  <2>2. CASE ~ page_ispresent(x, p, 1)
    <3>1. z = x  BY <1>1, <1>2, <2>2 DEF NextPageUnmapped
    <3> QED  BY <1>3, <2>2, <3>1 DEF page_ispresent
  <2> QED  BY <2>1, <2>2
<1>5. ASSUME NEW w \in VPages
      PROVE  EntryAt(z, w, 1) = IF w \in v .. v + i - 1 THEN NotPresent ELSE EntryAt(m, w, 1)
  <2>1. w \in Nat  BY VPagesAre
  <2>2. CASE w = p
    <3>1. w \in v .. v + i - 1  BY <1>1, <2>2
    <3> QED  BY <1>4, <2>2, <3>1
  <2>3. CASE w # p
    <3>1. w \in v .. v + (i - 1) - 1 <=> w \in v .. v + i - 1  BY <1>1, <2>1, <2>3
    <3> QED  BY <1>3, <1>4, <2>3, <3>1
  <2> QED  BY <2>2, <2>3
<1>6. z \in Mem  BY <1>4 DEF Tree
<1> QED  BY <1>2, <1>4, <1>5, <1>6 DEF UnmappedUpto

(* pga_unmap: the pages of the block are not present, and no others differ. *)
LEMMA BlockUnmapped ==
    ASSUME NEW m, NEW B, Tree(m, B), NEW o, ORDER(o) \in Nat,
           NEW v \in Nat, PagesFrom(v, o) \subseteq VPages
    PROVE  pga_unmap(m, v, o) \in UnmappedUpto(m, B, v, ORDER(o))
<1> DEFINE n == ORDER(o)
           P == [i \in 0 .. n |-> UnmappedUpto(m, B, v, i)]
           G == [z \in (1 .. n) \X Mem |-> NextPageUnmapped(v, z[1], z[2])]
           Is(g) == g = [i \in 0 .. n |->
                           IF i = 0 THEN m
                           ELSE IF page_ispresent(g[i - 1], v + i - 1, 1)
                             THEN WriteEntry(g[i - 1], v + i - 1, 1, NotPresent)
                           ELSE g[i - 1]]
<1>1. \A i \in 1 .. n : i \in 0 .. n /\ i - 1 \in 0 .. n /\ i # 0  OBVIOUS
<1>2. \A i \in 0 .. n : P[i] = UnmappedUpto(m, B, v, i)  OBVIOUS
<1>3. \A i \in 1 .. n : \A x \in Mem : G[<<i, x>>] = NextPageUnmapped(v, i, x)  OBVIOUS
<1>4. ASSUME NEW i \in 1 .. n, NEW x \in UnmappedUpto(m, B, v, i - 1)
      PROVE  NextPageUnmapped(v, i, x) \in UnmappedUpto(m, B, v, i)
  BY NextUnmapped DEF PagesFrom
<1>5. m \in UnmappedUpto(m, B, v, 0)
  <2>1. \A w \in VPages : w \notin v .. v + 0 - 1  BY VPagesAre
  <2> QED  BY <2>1 DEF UnmappedUpto, Tree
<1> HIDE DEF P, G, n
<1>6. n \in Nat  BY DEF n
<1>7. \E g : Is(g)
  <2>1. Stepwise(n, P, m, G)
    <3>1. m \in P[0]  BY <1>2, <1>5, <1>6
    <3>2. ASSUME NEW i \in 1 .. n, NEW x \in P[i - 1]  PROVE G[<<i, x>>] \in P[i]
      <4>1. x \in UnmappedUpto(m, B, v, i - 1)  BY <1>1, <1>2, <3>2
      <4>2. x \in Mem  BY <4>1 DEF UnmappedUpto
      <4> QED  BY <1>1, <1>2, <1>3, <1>4, <4>1, <4>2
    <3> QED  BY <3>1, <3>2 DEF Stepwise
  <2>2. PICK g : Computes(g, n, P, m, G)  BY <1>6, <2>1, Computation
  <2>3. /\ g = [i \in 0 .. n |-> g[i]]
        /\ g[0] = m
        /\ \A i \in 0 .. n : g[i] \in P[i]
        /\ \A i \in 1 .. n : g[i] = G[<<i, g[i - 1]>>]
    BY <2>2 DEF Computes
  <2>4. \A i \in 0 .. n : g[i] = IF i = 0 THEN m ELSE NextPageUnmapped(v, i, g[i - 1])
    <3> TAKE i \in 0 .. n
    <3>1. CASE i = 0  BY <2>3, <3>1
    <3>2. CASE i # 0
      <4>1. i \in 1 .. n  BY <1>6, <3>2
      <4>2. g[i - 1] \in Mem  BY <1>1, <1>2, <2>3, <4>1 DEF UnmappedUpto
      <4> QED  BY <1>3, <2>3, <3>2, <4>1, <4>2
    <3> QED  BY <3>1, <3>2
  <2>5. Is(g)  BY <2>3, <2>4 DEF NextPageUnmapped
  <2> QED  BY <2>5
<1> DEFINE step == CHOOSE g : Is(g)
<1>8. Is(step)  BY <1>7
<1>9. pga_unmap(m, v, o) = step[n]  BY DEF pga_unmap, n
<1> HIDE DEF step
<1>10. step[0] = m /\ \A i \in 1 .. n : step[i] = NextPageUnmapped(v, i, step[i - 1])
  BY <1>1, <1>6, <1>8 DEF NextPageUnmapped
<1> HIDE DEF Is
<1> DEFINE S == {i \in 0 .. n : step[i] \in UnmappedUpto(m, B, v, i)}
<1>11. 0 \in S  BY <1>5, <1>6, <1>10
<1>12. \A i \in 1 .. n : i - 1 \in S => i \in S  BY <1>1, <1>4, <1>10
<1>13. 0 .. n \subseteq S
  <2> HIDE DEF S
  <2> QED  BY <1>6, <1>11, <1>12, Upwards
<1>14. step[n] \in UnmappedUpto(m, B, v, n)  BY <1>6, <1>13
<1> QED  BY <1>9, <1>14 DEF n

-----------------------------------------------------------------------------
(* The least of a set of numbers is in it. *)
LEMMA MinOf ==
    ASSUME NEW S \in SUBSET Nat, S # {}
    PROVE  Min(S) \in S
<1> SUFFICES \E m \in S : \A x \in S : m <= x  BY DEF Min
<1>1. PICK m \in S : \A x \in S : ~ (<<x, m>> \in OpToRel(<, Nat))
  BY NatLessThanWellFounded, WFMin
<1>2. ASSUME NEW x \in S  PROVE  m <= x
  <2>1. ~ (<<x, m>> \in OpToRel(<, Nat))  BY <1>1
  <2> QED  BY <2>1 DEF OpToRel
<1> QED  BY <1>2

(* The frames of B are neither given out yet, nor in use by a caller. *)
OwnFrames(B) ==
    /\ ClearFrom(B, next_frame)
    /\ \A f \in 0 .. BootPages - 1 : f \notin B
    /\ \A b \in mapped : \A i \in 0 .. ORDER(b[2]) - 1 : b[3] + i \notin B

(* The blocks of the callers lie apart, in pages, and in frames given out. *)
BlocksPlaced ==
    /\ mapped \subseteq VPages \X MapOrders \X Nat
    /\ \A b \in mapped : /\ PagesFrom(b[1], b[2]) \subseteq VPages
                         /\ b[3] + ORDER(b[2]) <= next_frame
    /\ \A b, c \in mapped :
          b # c => PagesFrom(b[1], b[2]) \cap PagesFrom(c[1], c[2]) = {}

Placed ==
    /\ next_frame \in BootPages .. Frames - Levels
    /\ BlocksPlaced
    /\ \E B : Tree(mem, B) /\ OwnFrames(B)
    /\ MappingsKept /\ OnlyMapped

(***************************************************************************)
(* The tables are a tree of frames that nobody else has, blocks of pages   *)
(* are mapped in it where they lie, and the next page is free.             *)
(***************************************************************************)
VPageInv == Placed /\ next_free_vpage \in VPages /\ NextIsFree

(* A page that a caller has mapped is present. *)
LEMMA MappedPresent ==
    ASSUME Placed, NEW b \in mapped, NEW w \in PagesFrom(b[1], b[2])
    PROVE  EntryAt(mem, w, 1) # NotPresent /\ w \in VPages
<1>1. b \in VPages \X MapOrders \X Nat /\ PagesFrom(b[1], b[2]) \subseteq VPages
      /\ b[3] + ORDER(b[2]) <= next_frame /\ next_frame \in BootPages .. Frames - Levels
  BY DEF Placed, BlocksPlaced
<1>2. PICK v \in Nat, n \in Nat, f \in Nat : v = b[1] /\ n = ORDER(b[2]) /\ f = b[3]
  BY <1>1, VPagesAre, OrderPositive
<1>3. EntryAt(mem, w, 1) = f + w - v  BY <1>2 DEF Placed, MappingsKept
<1>4. w \in v .. v + n - 1  BY <1>2 DEF PagesFrom
<1>5. f + n <= Frames - Levels  BY <1>1, <1>2, Constants
<1>6. f + w - v # Frames  BY <1>4, <1>5, Constants
<1> QED  BY <1>1, <1>3, <1>6 DEF NotPresent

(***************************************************************************)
(* A block is added where nothing is mapped, in frames the caller has (the *)
(* next ones) or in those of the boot tables' pages: then everything is in *)
(* its place again, and no other page has changed.                         *)
(***************************************************************************)
LEMMA BlockAdded ==
    ASSUME Placed, NEW o \in MapOrders, NEW v \in VPages, PagesFrom(v, o) \subseteq VPages,
           \A w \in PagesFrom(v, o) : ~ page_ispresent(mem, w, 1),
           NEW k \in Nat, EnoughFrames(o, k),
           NEW f \in Nat, (k = ORDER(o) /\ f = next_frame) \/ (k = 0 /\ f = 0),
           mem' = pga_map([m |-> mem, next |-> next_frame + k], v, o, f).m,
           next_frame' = pga_map([m |-> mem, next |-> next_frame + k], v, o, f).next,
           mapped' = mapped \cup {<<v, o, f>>}
    PROVE  /\ Placed'
           /\ \A w \in VPages : w \notin PagesFrom(v, o) =>
                 EntryAt(mem', w, 1) = EntryAt(mem, w, 1)
<1>1. PICK s : s = [m |-> mem, next |-> next_frame + k]  OBVIOUS
<1>2. PICK B : Tree(mem, B) /\ OwnFrames(B)  BY DEF Placed
<1>3. PICK n \in Nat, a \in Nat : n = ORDER(o) /\ a = next_frame
  BY OrderPositive, Constants DEF Placed
<1>4. n # 0 /\ n <= BootPages  BY <1>3, OrderPositive
<1>5. a \in BootPages .. Frames - Levels  BY <1>3 DEF Placed
<1>6. s \in States /\ s.m = mem /\ s.next = a + k  BY <1>1, <1>2, <1>3 DEF States, Tree
<1>7. a + k + n * (Levels - 1) <= Frames - Levels  BY <1>3 DEF EnoughFrames
<1>8. n * (Levels - 1) \in Nat  BY Constants
<1>9. (k = n /\ f = a) \/ (k = 0 /\ f = 0)  BY <1>3
<1>10. a + k <= Frames - Levels /\ f + n <= a + k
  BY <1>4, <1>5, <1>7, <1>8, <1>9, Constants
<1>11. PICK x : x = pga_map(s, v, o, f)  OBVIOUS
<1>12. x \in MappedUpto(s, B, v, f, n)
  <2>1. ClearFrom(B, s.next)
    <3>1. \A g \in a + k .. Frames - Levels - 1 : g \in a .. Frames - Levels - 1  OBVIOUS
    <3> QED  BY <1>2, <1>3, <1>6, <3>1 DEF OwnFrames, ClearFrom
  <2>2. f + n <= Frames  BY <1>10, Constants
  <2>3. v \in Nat  BY VPagesAre
  <2> QED  BY <1>2, <1>3, <1>6, <1>7, <1>11, <2>1, <2>2, <2>3, BlockMapped
<1>13. /\ Grown(s, B, x) /\ x.next <= a + k + n * (Levels - 1)
       /\ \A w \in VPages : EntryAt(x.m, w, 1) =
             IF w \in PagesFrom(v, o) THEN f + w - v ELSE EntryAt(mem, w, 1)
  BY <1>3, <1>6, <1>12 DEF MappedUpto, PagesFrom
<1>14. mem' = x.m /\ next_frame' = x.next  BY <1>1, <1>11
<1>15. PICK D : /\ Tree(x.m, D) /\ ClearFrom(D, x.next)
                /\ D \subseteq B \cup (s.next .. x.next - 1)
  BY <1>13 DEF Grown
<1>16. PICK y \in Nat : y = x.next  BY <1>13 DEF Grown, States
<1>17. a + k <= y /\ y <= Frames - Levels  BY <1>6, <1>7, <1>8, <1>13, <1>16, Constants DEF Grown
<1>18. next_frame' \in BootPages .. Frames - Levels  BY <1>5, <1>14, <1>16, <1>17, Constants
<1>19. \A w \in VPages : w \notin PagesFrom(v, o) => EntryAt(mem', w, 1) = EntryAt(mem, w, 1)
  BY <1>13, <1>14
<1>20. ASSUME NEW b \in mapped
       PROVE  PagesFrom(b[1], b[2]) \cap PagesFrom(v, o) = {}
  BY MappedPresent DEF page_ispresent
<1>21. BlocksPlaced'
  <2>1. mapped' \subseteq VPages \X MapOrders \X Nat  BY DEF Placed, BlocksPlaced
  <2>2. ASSUME NEW b \in mapped'
        PROVE  PagesFrom(b[1], b[2]) \subseteq VPages /\ b[3] + ORDER(b[2]) <= next_frame'
    <3>1. CASE b = <<v, o, f>>
      <4>1. b[1] = v /\ b[2] = o /\ b[3] = f  BY <3>1
      <4>2. f + n <= y  BY <1>10, <1>17
      <4> QED  BY <1>3, <1>14, <1>16, <4>1, <4>2
    <3>2. CASE b \in mapped
      <4>1. /\ b \in VPages \X MapOrders \X Nat /\ PagesFrom(b[1], b[2]) \subseteq VPages
            /\ b[3] + ORDER(b[2]) <= a
        BY <1>3, <3>2 DEF Placed, BlocksPlaced
      <4>2. b[3] + ORDER(b[2]) \in Nat  BY <4>1, OrderPositive
      <4>3. b[3] + ORDER(b[2]) <= y  BY <1>17, <4>1, <4>2
      <4> QED  BY <1>14, <1>16, <4>1, <4>3
    <3> QED  BY <3>1, <3>2
  <2>3. ASSUME NEW b \in mapped', NEW c \in mapped', b # c
        PROVE  PagesFrom(b[1], b[2]) \cap PagesFrom(c[1], c[2]) = {}
    <3> DEFINE e == <<v, o, f>>
    <3>1. e[1] = v /\ e[2] = o  OBVIOUS
    <3>2. CASE b \in mapped /\ c \in mapped  BY <2>3, <3>2 DEF Placed, BlocksPlaced
    <3>3. CASE b \in mapped /\ c = e  BY <1>20, <3>1, <3>3
    <3>4. CASE b = e /\ c \in mapped  BY <1>20, <3>1, <3>4
    <3>5. (b \in mapped \/ b = e) /\ (c \in mapped \/ c = e)  OBVIOUS
    <3> HIDE DEF e
    <3> QED  BY <2>3, <3>2, <3>3, <3>4, <3>5
  <2> QED  BY <2>1, <2>2, <2>3 DEF BlocksPlaced
<1>22. OwnFrames(D)'
  <2>1. \A g \in D : g \in B \/ a + k <= g  BY <1>6, <1>15
  <2>2. \A g \in 0 .. BootPages - 1 : g \notin D
    <3>1. \A g \in 0 .. BootPages - 1 : g \notin B /\ ~ (a + k <= g)
      BY <1>2, <1>5, Constants DEF OwnFrames
    <3> QED  BY <2>1, <3>1
  <2>3. ASSUME NEW b \in mapped', NEW i \in 0 .. ORDER(b[2]) - 1
        PROVE  b[3] + i \notin D
    <3>1. CASE b \in mapped
      <4>1. b \in VPages \X MapOrders \X Nat /\ b[3] + ORDER(b[2]) <= a
        BY <1>3, <3>1 DEF Placed, BlocksPlaced
      <4>2. b[3] \in Nat /\ ORDER(b[2]) \in Nat  BY <4>1, OrderPositive
      <4>3. ~ (a + k <= b[3] + i)  BY <4>1, <4>2
      <4>4. b[3] + i \notin B  BY <1>2, <3>1 DEF OwnFrames
      <4> QED  BY <2>1, <4>3, <4>4
    <3>2. CASE b = <<v, o, f>>
      <4>1. b[2] = o /\ b[3] = f  BY <3>2
      <4>2. i \in 0 .. n - 1  BY <1>3, <4>1
      <4>3. ~ (a + k <= f + i)  BY <1>10, <4>2
      <4>4. f + i \notin B
        <5>1. CASE k = n /\ f = a
          <6>1. f + i \in a .. Frames - Levels - 1  BY <1>10, <4>2, <5>1, Constants
          <6> QED  BY <1>2, <1>3, <6>1 DEF OwnFrames, ClearFrom
        <5>2. CASE f = 0
          <6>1. f + i \in 0 .. BootPages - 1  BY <1>4, <4>2, <5>2, Constants
          <6> QED  BY <1>2, <6>1 DEF OwnFrames
        <5> QED  BY <1>9, <5>1, <5>2
      <4> QED  BY <2>1, <4>1, <4>3, <4>4
    <3> QED  BY <3>1, <3>2
  <2>4. ClearFrom(D, next_frame')  BY <1>14, <1>15
  <2> QED  BY <2>2, <2>3, <2>4 DEF OwnFrames
<1>23. MappingsKept'
  <2>1. ASSUME NEW b \in mapped', NEW w \in PagesFrom(b[1], b[2])
        PROVE  EntryAt(mem', w, 1) = b[3] + w - b[1]
    <3>1. CASE b \in mapped
      <4>1. w \in VPages /\ w \notin PagesFrom(v, o)  BY <1>20, <3>1, MappedPresent
      <4>2. EntryAt(mem, w, 1) = b[3] + w - b[1]  BY <3>1 DEF Placed, MappingsKept
      <4> QED  BY <1>19, <4>1, <4>2
    <3>2. CASE b = <<v, o, f>>
      <4>1. b[1] = v /\ b[2] = o /\ b[3] = f  BY <3>2
      <4> QED  BY <1>13, <1>14, <4>1
    <3> QED  BY <3>1, <3>2
  <2> QED  BY <2>1 DEF MappingsKept
<1>24. OnlyMapped'
  <2>1. ASSUME NEW w \in VPages, page_ispresent(mem', w, 1)
        PROVE  w < BootPages \/ \E b \in mapped' : w \in PagesFrom(b[1], b[2])
    <3>1. CASE w \in PagesFrom(v, o)
      <4>1. <<v, o, f>> \in mapped' /\ <<v, o, f>>[1] = v /\ <<v, o, f>>[2] = o  OBVIOUS
      <4> QED  BY <3>1, <4>1
    <3>2. CASE w \notin PagesFrom(v, o)
      <4>1. page_ispresent(mem, w, 1)  BY <1>19, <2>1, <3>2 DEF page_ispresent
      <4> QED  BY <4>1 DEF Placed, OnlyMapped
    <3> QED  BY <3>1, <3>2
  <2> QED  BY <2>1 DEF OnlyMapped
<1>25. Tree(mem', D)  BY <1>14, <1>15
<1>26. Placed'  BY <1>18, <1>21, <1>22, <1>23, <1>24, <1>25 DEF Placed
<1> QED  BY <1>19, <1>26

(* MapNew, with the pages it leaves alone and one behind it that is free. *)
LEMMA NewPlaced ==
    ASSUME Placed, NEW o \in MapOrders, NEW v \in VPages, PagesFrom(v, o) \subseteq VPages,
           \A w \in PagesFrom(v, o) : ~ page_ispresent(mem, w, 1), MapNew(v, o)
    PROVE  /\ Placed'
           /\ \A w \in VPages : w \notin PagesFrom(v, o) =>
                 EntryAt(mem', w, 1) = EntryAt(mem, w, 1)
           /\ \E w \in VPages : w >= v + ORDER(o) /\ ~ page_ispresent(mem', w, 1)
<1>1. PICK f \in Nat, k \in Nat : f = next_frame /\ k = ORDER(o)
  BY OrderPositive, Constants DEF Placed
<1>2. PICK s : s = pga_map([m |-> mem, next |-> next_frame + k], v, o, f)  OBVIOUS
<1>3. /\ EnoughFrames(o, k)
      /\ \E w \in VPages : w >= v + ORDER(o) /\ ~ page_ispresent(s.m, w, 1)
      /\ mem' = s.m /\ next_frame' = s.next /\ mapped' = mapped \cup {<<v, o, f>>}
  BY <1>1, <1>2 DEF MapNew
<1>4. (k = ORDER(o) /\ f = next_frame) \/ (k = 0 /\ f = 0)  BY <1>1
<1>5. /\ mem' = pga_map([m |-> mem, next |-> next_frame + k], v, o, f).m
      /\ next_frame' = pga_map([m |-> mem, next |-> next_frame + k], v, o, f).next
  BY <1>2, <1>3
<1> QED  BY <1>3, <1>4, <1>5, BlockAdded

(* The search of fnfp, where there is something to be found. *)
LEMMA Found ==
    ASSUME NEW m, NEW v \in Nat, \E w \in VPages : w >= v /\ ~ page_ispresent(m, w, 1)
    PROVE  fnfp(m, v) \in VPages /\ ~ page_ispresent(m, fnfp(m, v), 1)
<1> DEFINE S == {w \in VPages : w >= v /\ ~ page_ispresent(m, w, 1)}
<1>1. S \in SUBSET Nat /\ S # {}  BY VPagesAre
<1>2. Min(S) \in S
  <2> HIDE DEF S
  <2> QED  BY <1>1, MinOf
<1> QED  BY <1>2 DEF fnfp

LEMMA MapKeeps ==
    ASSUME VPageInv, NEW o \in MapOrders, vpages_map(o)
    PROVE  VPageInv'
<1> DEFINE v == Min(FreeRuns(o))
<1>1. v \in FreeRuns(o)
  <2>1. FreeRuns(o) \in SUBSET Nat /\ FreeRuns(o) # {}
    BY VPagesAre DEF vpages_map, FreeRuns
  <2> QED  BY <2>1, MinOf
<1>2. /\ MapNew(v, o)
      /\ next_free_vpage' = IF v = next_free_vpage THEN fnfp(mem', v + ORDER(o))
                                                   ELSE next_free_vpage
  BY DEF vpages_map
<1> HIDE DEF v
<1>3. /\ v \in VPages /\ v >= next_free_vpage /\ PagesFrom(v, o) \subseteq VPages
      /\ \A w \in PagesFrom(v, o) : ~ page_ispresent(mem, w, 1)
  BY <1>1 DEF FreeRuns
<1>4. /\ Placed'
      /\ \A w \in VPages : w \notin PagesFrom(v, o) =>
            EntryAt(mem', w, 1) = EntryAt(mem, w, 1)
      /\ \E w \in VPages : w >= v + ORDER(o) /\ ~ page_ispresent(mem', w, 1)
  BY <1>2, <1>3, NewPlaced DEF VPageInv
<1>5. next_free_vpage \in VPages /\ NextIsFree  BY DEF VPageInv
<1>6. v \in Nat /\ next_free_vpage \in Nat /\ v + ORDER(o) \in Nat
  BY <1>3, <1>5, VPagesAre, OrderPositive
<1>7. CASE v = next_free_vpage
  <2>1. next_free_vpage' = fnfp(mem', v + ORDER(o))  BY <1>2, <1>7
  <2>2. fnfp(mem', v + ORDER(o)) \in VPages
        /\ ~ page_ispresent(mem', fnfp(mem', v + ORDER(o)), 1)
    BY <1>4, <1>6, Found
  <2> QED  BY <1>4, <2>1, <2>2 DEF VPageInv, NextIsFree
<1>8. CASE v # next_free_vpage
  <2>1. next_free_vpage' = next_free_vpage  BY <1>2, <1>8
  <2>2. next_free_vpage \notin PagesFrom(v, o)  BY <1>3, <1>6, <1>8 DEF PagesFrom
  <2>3. EntryAt(mem', next_free_vpage, 1) = EntryAt(mem, next_free_vpage, 1)
    BY <1>4, <1>5, <2>2
  <2> QED  BY <1>4, <1>5, <2>1, <2>3 DEF VPageInv, NextIsFree, page_ispresent
<1> QED  BY <1>7, <1>8

(* Where the caller chooses pages that are free, and not the next one. *)
LEMMA ChosenFree ==
    ASSUME VPageInv, NEW o \in MapOrders, NEW v \in FixedPages, Choosable(v, o)
    PROVE  /\ v \in VPages /\ PagesFrom(v, o) \subseteq VPages
           /\ \A w \in PagesFrom(v, o) : ~ page_ispresent(mem, w, 1)
           /\ next_free_vpage \notin PagesFrom(v, o)
BY Constants DEF Choosable

LEMMA ChosenKeeps ==
    ASSUME VPageInv, NEW o \in MapOrders, NEW v \in FixedPages, Choosable(v, o),
           Placed', UNCHANGED next_free_vpage,
           \A w \in VPages : w \notin PagesFrom(v, o) => EntryAt(mem', w, 1) = EntryAt(mem, w, 1)
    PROVE  VPageInv'
<1>1. next_free_vpage \in VPages /\ next_free_vpage \notin PagesFrom(v, o)
  BY ChosenFree DEF VPageInv
<1>2. EntryAt(mem', next_free_vpage, 1) = EntryAt(mem, next_free_vpage, 1)  BY <1>1
<1> QED  BY <1>1, <1>2 DEF VPageInv, NextIsFree, page_ispresent

LEMMA SmapKeeps ==
    ASSUME VPageInv, NEW o \in MapOrders, NEW v \in FixedPages, vpages_smap(v, o)
    PROVE  VPageInv'
<1>1. Choosable(v, o) /\ MapNew(v, o) /\ UNCHANGED next_free_vpage  BY DEF vpages_smap
<1>2. /\ v \in VPages /\ PagesFrom(v, o) \subseteq VPages
      /\ \A w \in PagesFrom(v, o) : ~ page_ispresent(mem, w, 1)
  BY <1>1, ChosenFree
<1>3. /\ Placed'
      /\ \A w \in VPages : w \notin PagesFrom(v, o) =>
            EntryAt(mem', w, 1) = EntryAt(mem, w, 1)
  BY <1>1, <1>2, NewPlaced DEF VPageInv
<1> QED  BY <1>1, <1>3, ChosenKeeps

LEMMA ReserveKeeps ==
    ASSUME VPageInv, NEW o \in MapOrders, NEW v \in FixedPages, vpages_reserve(v, o)
    PROVE  VPageInv'
<1>1. PICK s : s = pga_map([m |-> mem, next |-> next_frame], v, o, 0)  OBVIOUS
<1>2. /\ Choosable(v, o) /\ EnoughFrames(o, 0) /\ UNCHANGED next_free_vpage
      /\ mem' = s.m /\ next_frame' = s.next /\ mapped' = mapped \cup {<<v, o, 0>>}
  BY <1>1 DEF vpages_reserve
<1>3. /\ v \in VPages /\ PagesFrom(v, o) \subseteq VPages
      /\ \A w \in PagesFrom(v, o) : ~ page_ispresent(mem, w, 1)
  BY <1>2, ChosenFree
<1>4. next_frame + 0 = next_frame  BY Constants DEF VPageInv, Placed
<1>5. /\ mem' = pga_map([m |-> mem, next |-> next_frame + 0], v, o, 0).m
      /\ next_frame' = pga_map([m |-> mem, next |-> next_frame + 0], v, o, 0).next
  BY <1>1, <1>2, <1>4
<1>6. /\ Placed'
      /\ \A w \in VPages : w \notin PagesFrom(v, o) =>
            EntryAt(mem', w, 1) = EntryAt(mem, w, 1)
  BY <1>2, <1>3, <1>5, BlockAdded DEF VPageInv
<1> QED  BY <1>2, <1>6, ChosenKeeps

(* The block that is unmapped is no longer present, and the others are. *)
LEMMA UnmapKeeps ==
    ASSUME VPageInv, vpages_unmap
    PROVE  VPageInv'
<1>1. PICK b \in mapped : mem' = pga_unmap(mem, b[1], b[2]) /\ mapped' = mapped \ {b}
  BY DEF vpages_unmap
<1>2. next_free_vpage' = next_free_vpage /\ next_frame' = next_frame
  BY DEF vpages_unmap
<1>3. Placed /\ BlocksPlaced  BY DEF VPageInv, Placed
<1>4. PICK B : Tree(mem, B) /\ OwnFrames(B)  BY <1>3 DEF Placed
<1>5. b \in VPages \X MapOrders \X Nat /\ PagesFrom(b[1], b[2]) \subseteq VPages
  BY <1>3 DEF BlocksPlaced
<1>6. mem' \in UnmappedUpto(mem, B, b[1], ORDER(b[2]))
  BY <1>1, <1>4, <1>5, VPagesAre, OrderPositive, BlockUnmapped
<1>7. /\ Tree(mem', B)
      /\ \A w \in VPages : EntryAt(mem', w, 1) =
            IF w \in PagesFrom(b[1], b[2]) THEN NotPresent ELSE EntryAt(mem, w, 1)
  BY <1>6 DEF UnmappedUpto, PagesFrom
<1>8. BlocksPlaced'  BY <1>1, <1>2, <1>3 DEF BlocksPlaced
<1>9. OwnFrames(B)'  BY <1>1, <1>2, <1>4 DEF OwnFrames
<1>10. MappingsKept'
  <2>1. ASSUME NEW c \in mapped', NEW w \in PagesFrom(c[1], c[2])
        PROVE  EntryAt(mem', w, 1) = c[3] + w - c[1]
    <3>1. c \in mapped /\ c # b  BY <1>1
    <3>2. w \in VPages  BY <1>3, <3>1, MappedPresent
    <3>3. w \notin PagesFrom(b[1], b[2])  BY <1>3, <3>1 DEF BlocksPlaced
    <3>4. EntryAt(mem', w, 1) = EntryAt(mem, w, 1)  BY <1>7, <3>2, <3>3
    <3> QED  BY <1>3, <3>1, <3>4 DEF Placed, MappingsKept
  <2> QED  BY <2>1 DEF MappingsKept
<1>11. OnlyMapped'
  <2>1. ASSUME NEW w \in VPages, page_ispresent(mem', w, 1)
        PROVE  w < BootPages \/ \E c \in mapped' : w \in PagesFrom(c[1], c[2])
    <3>1. w \notin PagesFrom(b[1], b[2]) /\ page_ispresent(mem, w, 1)
      BY <1>7, <2>1 DEF page_ispresent
    <3>2. w < BootPages \/ \E c \in mapped : w \in PagesFrom(c[1], c[2])
      BY <1>3, <3>1 DEF Placed, OnlyMapped
    <3> QED  BY <1>1, <3>1, <3>2
  <2> QED  BY <2>1 DEF OnlyMapped
<1>12. Placed'  BY <1>2, <1>3, <1>7, <1>8, <1>9, <1>10, <1>11 DEF Placed
<1>13. next_free_vpage \in VPages /\ ~ page_ispresent(mem', next_free_vpage, 1)
  BY <1>7 DEF VPageInv, NextIsFree, page_ispresent
<1> QED  BY <1>2, <1>12, <1>13 DEF VPageInv, NextIsFree

-----------------------------------------------------------------------------
(* The tables of boot32.asm: one in each level, for the first pages. *)
LEMMA BootMemory ==
    ASSUME Init
    PROVE  /\ mem \in Mem
           /\ \A i \in 0 .. T - 1 : mem[Frames - Levels][i] = i
           /\ \A f \in Frames - Levels + 1 .. Root, i \in 0 .. T - 1 :
                 mem[f][i] = IF i = 0 THEN f - 1 ELSE NotPresent
           /\ \A f \in 0 .. Frames :
                 f \notin Frames - Levels .. Root => mem[f] = EmptyTable
<1> DEFINE identity == [i \in 0 .. T - 1 |-> i]
           first(f) == [EmptyTable EXCEPT ![0] = f - 1]
           top == Frames - Levels
<1>1. /\ top \in 0 .. Frames /\ Root \in 0 .. Frames - 1 /\ Root = Frames - 1 /\ top <= Root
      /\ NotPresent = Frames /\ top > T /\ 0 \in 0 .. T - 1
  BY Constants DEF Root, NotPresent
<1>2. /\ EmptyTable \in [0 .. T - 1 -> 0 .. Frames]
      /\ \A i \in 0 .. T - 1 : EmptyTable[i] = NotPresent
  BY <1>1, Constants DEF EmptyTable
<1>3. identity \in [0 .. T - 1 -> 0 .. Frames]  BY <1>1, Constants
<1>4. ASSUME NEW f \in top + 1 .. Root
      PROVE  /\ first(f) \in [0 .. T - 1 -> 0 .. Frames]
             /\ \A i \in 0 .. T - 1 : first(f)[i] = IF i = 0 THEN f - 1 ELSE NotPresent
  <2>1. f - 1 \in 0 .. Frames  BY <1>1, Constants
  <2> HIDE DEF top
  <2> QED  BY <1>1, <1>2, <2>1
<1>5. mem = [f \in 0 .. Frames |-> IF f = top THEN identity
                                   ELSE IF f \in top .. Root THEN first(f)
                                   ELSE EmptyTable]
  BY DEF Init
<1> HIDE DEF identity, first
<1>6. /\ mem[top] = identity
      /\ \A f \in top + 1 .. Root : mem[f] = first(f)
      /\ \A f \in 0 .. Frames : f \notin top .. Root => mem[f] = EmptyTable
  BY <1>1, <1>5, Constants
<1>7. mem \in Mem
  <2>1. \A f \in 0 .. Frames : mem[f] \in [0 .. T - 1 -> 0 .. Frames]
    <3> TAKE f \in 0 .. Frames
    <3>1. f = top \/ f \in top + 1 .. Root \/ f \notin top .. Root  BY <1>1, Constants
    <3> QED  BY <1>2, <1>3, <1>4, <1>6, <3>1
  <2> QED  BY <1>5, <2>1 DEF Mem
<1>8. \A i \in 0 .. T - 1 : mem[top][i] = i  BY <1>6 DEF identity
<1> QED  BY <1>4, <1>6, <1>7, <1>8

LEMMA BootClear ==
    ASSUME Init, NEW i \in 0 .. T - 1
    PROVE  mem[NotPresent][i] = NotPresent
<1>1. Frames \in 0 .. Frames /\ Frames \notin Frames - Levels .. Root
  BY Constants DEF Root
<1>2. mem[Frames] = EmptyTable  BY <1>1, BootMemory
<1>3. EmptyTable[i] = NotPresent  BY DEF EmptyTable
<1> QED  BY <1>2, <1>3 DEF NotPresent

LEMMA BootTables ==
    ASSUME Init, NEW v \in VPages
    PROVE  \A l \in 1 .. Levels :
              TableAt(mem, v, l) = IF Above(v, l) = 0 THEN Root - (Levels - l) ELSE NotPresent
<1> DEFINE S == {l \in 1 .. Levels :
                   TableAt(mem, v, l) = IF Above(v, l) = 0 THEN Root - (Levels - l) ELSE NotPresent}
<1>1. mem \in Mem /\ v \in Nat /\ Above(v, Levels) = 0  BY BootMemory, VPagesAre
<1>2. Levels \in S
  <2>1. TableAt(mem, v, Levels) = Root /\ Root - (Levels - Levels) = Root
    BY <1>1, TableAtIs, Constants DEF Root
  <2> QED  BY <1>1, <2>1, Constants
<1>3. ASSUME NEW l \in 1 .. Levels - 1, l + 1 \in S  PROVE l \in S
  <2>1. l \in 1 .. Levels /\ l + 1 \in 1 .. Levels /\ (l + 1) - 1 = l /\ l \in 0 .. Levels
    BY Constants
  <2>2. PICK i \in 0 .. T - 1 : i = IndexAt(v, l + 1)  BY <1>1, <2>1, IndexIs
  <2>3. TableAt(mem, v, l) = mem[TableAt(mem, v, l + 1)][i]  BY <1>1, <2>2, TableAtIs
  <2>4. PICK a \in Nat : a = Above(v, l)  BY <1>1, <2>1, AboveIs
  <2>5. Above(v, l + 1) = a \div T /\ i = a % T
    <3>1. Above(v, l + 1) = Above(v, (l + 1) - 1) \div T  BY <1>1, <2>1, AboveIs
    <3>2. i = Above(v, (l + 1) - 1) % T  BY <2>2 DEF IndexAt
    <3> QED  BY <2>1, <2>4, <3>1, <3>2
  <2>6. a = 0 <=> a \div T = 0 /\ a % T = 0
    <3>1. a = T * (a \div T) + (a % T)  BY Constants
    <3>2. 0 \div T = 0 /\ 0 % T = 0  BY Constants
    <3> QED  BY <3>1, <3>2, Constants
  <2>7. CASE Above(v, l + 1) = 0
    <3>1. PICK f : f = Root - (Levels - (l + 1))  OBVIOUS
    <3>2. TableAt(mem, v, l + 1) = f  BY <1>3, <2>7, <3>1
    <3>3. f \in Frames - Levels + 1 .. Root /\ f - 1 = Root - (Levels - l)
      BY <3>1, Constants DEF Root
    <3>4. mem[f][i] = IF i = 0 THEN f - 1 ELSE NotPresent  BY <3>3, BootMemory
    <3> QED  BY <2>1, <2>3, <2>4, <2>5, <2>6, <2>7, <3>2, <3>3, <3>4
  <2>8. CASE Above(v, l + 1) # 0
    <3>1. TableAt(mem, v, l + 1) = NotPresent  BY <1>3, <2>8
    <3>2. mem[NotPresent][i] = NotPresent  BY BootClear
    <3>3. a # 0  BY <2>5, <2>6, <2>8
    <3> QED  BY <2>1, <2>3, <2>4, <3>1, <3>2, <3>3
  <2> QED  BY <2>7, <2>8
<1> HIDE DEF S
<1>4. 1 .. Levels \subseteq S
  <2>1. \A l \in 1 .. Levels - 1 : l + 1 \in S => l \in S  BY <1>3
  <2> QED  BY <1>2, <2>1, Downwards
<1> QED  BY <1>4 DEF S

(* A page that boot32.asm maps is one of the first. *)
LEMMA BootPresent ==
    ASSUME Init, NEW v \in VPages, page_ispresent(mem, v, 1)
    PROVE  v < BootPages
<1>1. mem \in Mem /\ v \in Nat /\ 1 \in 1 .. Levels /\ 1 - 1 = 0
  BY BootMemory, VPagesAre, Constants
<1>2. CASE Above(v, 1) = 0
  <2>1. Above(v, 0) = T * Above(v, 1) + IndexAt(v, 1) /\ IndexAt(v, 1) \in 0 .. T - 1
    BY <1>1, IndexIs
  <2>2. Above(v, 0) = v  BY <1>1, AboveIs
  <2> QED  BY <1>2, <2>1, <2>2, Constants
<1>3. CASE Above(v, 1) # 0
  <2>1. TableAt(mem, v, 1) = NotPresent  BY <1>1, <1>3, BootTables
  <2>2. IndexAt(v, 1) \in 0 .. T - 1  BY <1>1, IndexIs
  <2>3. mem[NotPresent][IndexAt(v, 1)] = NotPresent  BY <2>2, BootClear
  <2>4. EntryAt(mem, v, 1) = NotPresent  BY <1>1, <2>1, <2>3, EntryIs
  <2> QED  BY <2>4 DEF page_ispresent
<1> QED  BY <1>2, <1>3

LEMMA VPageInit == Init => VPageInv
<1> SUFFICES ASSUME Init  PROVE VPageInv
  OBVIOUS
<1> DEFINE B == Frames - Levels .. Root
<1>1. mapped = {} /\ next_frame = BootPages /\ next_free_vpage = fnfp(mem, Start)
  BY DEF Init
<1>2. Tree(mem, B)
  <2>1. B \subseteq 0 .. Frames - 1  BY Constants DEF Root
  <2>2. \A v \in VPages, l \in 1 .. Levels : Above(v, l) \in Nat
    <3>1. \A l \in 1 .. Levels : l \in 0 .. Levels  BY Constants
    <3> QED  BY <3>1, AboveIs, VPagesAre
  <2>3. \A l \in 1 .. Levels : Root - (Levels - l) \in B  BY Constants DEF Root
  <2>4. \A v \in VPages, l \in 1 .. Levels : TableAt(mem, v, l) \in B \cup {NotPresent}
    BY <2>3, BootTables
  <2>5. ASSUME NEW v \in VPages, NEW w \in VPages, NEW k \in 1 .. Levels, NEW l \in 1 .. Levels,
               TableAt(mem, v, k) = TableAt(mem, w, l), TableAt(mem, v, k) # NotPresent
        PROVE  k = l /\ Same(v, w, l)
    <3>1. Above(v, k) = 0 /\ TableAt(mem, v, k) = Root - (Levels - k)  BY <2>5, BootTables
    <3>2. Above(w, l) = 0 /\ TableAt(mem, w, l) = Root - (Levels - l)  BY <2>5, BootTables
    <3>3. k = l
      <4>1. Root - (Levels - k) = Root - (Levels - l)  BY <2>5, <3>1, <3>2
      <4> QED  BY <4>1, Constants DEF Root
    <3> QED  BY <3>1, <3>2, <3>3 DEF Same
  <2> HIDE DEF B
  <2>6. mem \in Mem /\ \A f \in 0 .. Frames : f \notin B => mem[f] = EmptyTable
    BY BootMemory DEF B
  <2> QED  BY <2>1, <2>4, <2>5, <2>6 DEF Tree
<1>3. OwnFrames(B)
  <2>1. \A f \in 0 .. BootPages - 1 : f \notin B  BY Constants
  <2>2. ClearFrom(B, next_frame)  BY <1>1, Constants DEF ClearFrom
  <2> QED  BY <1>1, <2>1, <2>2 DEF OwnFrames
<1>4. BlocksPlaced /\ MappingsKept  BY <1>1 DEF BlocksPlaced, MappingsKept
<1>5. OnlyMapped  BY BootPresent DEF OnlyMapped
<1>6. next_frame \in BootPages .. Frames - Levels  BY <1>1, Constants
<1>7. Placed  BY <1>2, <1>3, <1>4, <1>5, <1>6 DEF Placed
<1>8. next_free_vpage \in VPages /\ NextIsFree
  <2>1. T \in VPages /\ T >= Start /\ Start \in Nat  BY VPagesAre, Constants
  <2>2. ~ page_ispresent(mem, T, 1)  BY <2>1, BootPresent, Constants
  <2> QED  BY <1>1, <2>1, <2>2, Found DEF NextIsFree
<1> QED  BY <1>7, <1>8 DEF VPageInv

LEMMA VPageStep == VPageInv /\ [Next]_vars => VPageInv'
<1> SUFFICES ASSUME VPageInv, [Next]_vars  PROVE VPageInv'
  OBVIOUS
<1>1. CASE UNCHANGED vars
  BY <1>1 DEF vars, VPageInv, Placed, NextIsFree, OwnFrames, BlocksPlaced, MappingsKept, OnlyMapped
<1>2. ASSUME NEW o \in MapOrders, vpages_map(o)  PROVE VPageInv'
  BY <1>2, MapKeeps
<1>3. ASSUME NEW v \in FixedPages, NEW o \in MapOrders, vpages_smap(v, o)  PROVE VPageInv'
  BY <1>3, SmapKeeps
<1>4. ASSUME NEW v \in FixedPages, NEW o \in MapOrders, vpages_reserve(v, o)  PROVE VPageInv'
  BY <1>4, ReserveKeeps
<1>5. CASE vpages_unmap
  BY <1>5, UnmapKeeps
<1> QED  BY <1>1, <1>2, <1>3, <1>4, <1>5 DEF Next

-----------------------------------------------------------------------------
(***************************************************************************)
(* The frames of tables, pages and blocks that the two properties below    *)
(* rest on (page.c:36-84, memory.c:89-142): for any tables, any sizes of   *)
(* blocks and any pages that callers choose.                               *)
(***************************************************************************)
THEOREM VPageInvAlways == Spec => []VPageInv
BY VPageInit, VPageStep, PTL DEF Spec

(***************************************************************************)
(* The mappings are those the callers have asked for, each page leads to   *)
(* its frame, and the page that vpage_map takes next is free (page.c:36-84).*)
(***************************************************************************)
THEOREM MappingsExactAlways == Spec => []MappingsExact
<1>1. VPageInv => MappingsExact  BY DEF VPageInv, Placed, MappingsExact
<1> QED  BY <1>1, VPageInvAlways, PTL

(***************************************************************************)
(* No frame is the table of two places, and none that a caller has mapped  *)
(* is a table, however tables are added (memory.c:89-104).                 *)
(***************************************************************************)
THEOREM TablesApartAlways == Spec => []TablesApart
<1>1. ASSUME VPageInv  PROVE TablesApart
  <2>1. PICK B : Tree(mem, B) /\ OwnFrames(B)  BY <1>1 DEF VPageInv, Placed
  <2>2. ASSUME NEW t \in Tables
        PROVE  \E v \in VPages, l \in 1 .. Levels :
                  /\ t = <<l, Above(v, l), TableAt(mem, v, l)>>
                  /\ t[1] = l /\ t[2] = Above(v, l) /\ t[3] = TableAt(mem, v, l)
                  /\ TableAt(mem, v, l) # NotPresent /\ TableAt(mem, v, l) \in B
    <3>1. PICK v \in VPages, l \in 1 .. Levels : t = <<l, Above(v, l), TableAt(mem, v, l)>>
      BY <2>2 DEF Tables
    <3>2. t[1] = l /\ t[2] = Above(v, l) /\ t[3] = TableAt(mem, v, l) /\ t[3] # NotPresent
      BY <2>2, <3>1 DEF Tables
    <3> QED  BY <2>1, <3>1, <3>2 DEF Tree
  <2>3. ASSUME NEW t \in Tables, NEW u \in Tables, t[3] = u[3]  PROVE t = u
    <3>1. PICK v \in VPages, k \in 1 .. Levels :
             /\ t = <<k, Above(v, k), TableAt(mem, v, k)>> /\ t[3] = TableAt(mem, v, k)
             /\ TableAt(mem, v, k) # NotPresent
      BY <2>2
    <3>2. PICK w \in VPages, l \in 1 .. Levels :
             /\ u = <<l, Above(w, l), TableAt(mem, w, l)>> /\ u[3] = TableAt(mem, w, l)
      BY <2>2
    <3>3. k = l /\ Same(v, w, l)  BY <2>1, <2>3, <3>1, <3>2 DEF Tree
    <3> QED  BY <2>3, <3>1, <3>2, <3>3 DEF Same
  <2>4. ASSUME NEW b \in mapped, NEW t \in Tables
        PROVE  t[3] - b[3] \notin 0 .. ORDER(b[2]) - 1
    <3>1. t[3] \in B /\ t[3] \in Nat
      <4>1. t[3] \in B  BY <2>2
      <4>2. B \subseteq 0 .. Frames - 1  BY <2>1 DEF Tree
      <4>3. 0 .. Frames - 1 \subseteq Nat  BY Constants
      <4> QED  BY <4>1, <4>2, <4>3
    <3>2. b[3] \in Nat  BY <1>1 DEF VPageInv, Placed, BlocksPlaced
    <3>3. \A i \in 0 .. ORDER(b[2]) - 1 : b[3] + i # t[3]  BY <2>1, <3>1 DEF OwnFrames
    <3> QED  BY <3>1, <3>2, <3>3
  <2> QED  BY <2>3, <2>4 DEF TablesApart
<1> QED  BY <1>1, VPageInvAlways, PTL
==============================================================================
