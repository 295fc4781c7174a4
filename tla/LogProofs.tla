------------------------------- MODULE LogProofs -------------------------------
(***************************************************************************)
(* Proofs about the kernel's log: what printk does to the screen, and the  *)
(* entry it pushes for each call, when a tick that comes between two of    *)
(* its steps prints a message and pushes an entry of its own.              *)
(***************************************************************************)
EXTENDS Log, WellFoundedInduction, TLAPS

(***************************************************************************)
(* Induction over the numbers up to n, with a set for each of them: what   *)
(* a loop or a walk of n steps computes is in the set of its last step.    *)
(***************************************************************************)
LEMMA Upwards ==
    ASSUME NEW n \in Nat, NEW S, 0 \in S, \A k \in 1 .. n : k - 1 \in S => k \in S
    PROVE  0 .. n \subseteq S
<1> DEFINE Bad == {k \in Nat : k <= n /\ k \notin S}
<1> SUFFICES ASSUME Bad # {}  PROVE FALSE  OBVIOUS
<1>1. PICK m \in Bad : \A x \in Bad : ~ (<<x, m>> \in OpToRel(<, Nat))
  <2>1. Bad \subseteq Nat  OBVIOUS
  <2> HIDE DEF Bad
  <2> QED  BY <2>1, NatLessThanWellFounded, WFMin
<1>2. m # 0  OBVIOUS
<1>3. m - 1 \in Nat /\ m \in 1 .. n  BY <1>2
<1>4. m - 1 \notin Bad
  <2> SUFFICES ASSUME m - 1 \in Bad  PROVE FALSE  OBVIOUS
  <2>1. <<m - 1, m>> \in OpToRel(<, Nat)  BY <1>3 DEF OpToRel
  <2> QED  BY <1>1, <2>1
<1>5. m - 1 \in S  BY <1>3, <1>4
<1> QED  BY <1>3, <1>5

LEMMA StepByStep ==
    ASSUME NEW n \in Nat, NEW f, NEW P, f[0] \in P[0],
           \A k \in 1 .. n : f[k - 1] \in P[k - 1] => f[k] \in P[k]
    PROVE  \A k \in 0 .. n : f[k] \in P[k]
<1> DEFINE S == {k \in 0 .. n : f[k] \in P[k]}
<1>1. 0 \in S  OBVIOUS
<1>2. \A k \in 1 .. n : k - 1 \in S => k \in S  OBVIOUS
<1> HIDE DEF S
<1>3. 0 .. n \subseteq S  BY <1>1, <1>2, Upwards
<1> QED  BY <1>3 DEF S

(***************************************************************************)
(* A computation f of n steps G from a, and that there is one: a recursive *)
(* function is the one it describes.                                       *)
(***************************************************************************)
Stepwise(n, P, a, G) ==
    a \in P[0] /\ \A k \in 1 .. n : \A x \in P[k - 1] : G[<<k, x>>] \in P[k]

Computes(f, n, P, a, G) ==
    /\ f = [k \in 0 .. n |-> f[k]]
    /\ f[0] = a
    /\ \A k \in 0 .. n : f[k] \in P[k]
    /\ \A k \in 1 .. n : f[k] = G[<<k, f[k - 1]>>]

LEMMA Computation ==
    ASSUME NEW n \in Nat, NEW P, NEW a, NEW G, Stepwise(n, P, a, G)
    PROVE  \E f : Computes(f, n, P, a, G)
<1>0. a \in P[0] /\ \A k \in 1 .. n : \A x \in P[k - 1] : G[<<k, x>>] \in P[k]
  BY DEF Stepwise
<1> DEFINE Upto(k) == {f \in [0 .. k -> UNION {P[j] : j \in 0 .. n}] :
                          /\ f[0] = a
                          /\ \A j \in 0 .. k : f[j] \in P[j]
                          /\ \A j \in 1 .. k : f[j] = G[<<j, f[j - 1]>>]}
           S == {k \in 0 .. n : Upto(k) # {}}
<1>1. Upto(0) # {}
  <2> DEFINE f == [j \in 0 .. 0 |-> a]
  <2>1. f \in [0 .. 0 -> UNION {P[j] : j \in 0 .. n}]  BY <1>0
  <2>2. f \in Upto(0)  BY <1>0, <2>1
  <2> QED  BY <2>2
<1>2. ASSUME NEW k \in 1 .. n, Upto(k - 1) # {}  PROVE Upto(k) # {}
  <2>1. PICK f : f \in Upto(k - 1)  BY <1>2
  <2> DEFINE g == [j \in 0 .. k |-> IF j = k THEN G[<<k, f[k - 1]>>] ELSE f[j]]
  <2>2. k - 1 \in 0 .. k - 1 /\ f[k - 1] \in P[k - 1]  BY <2>1
  <2>3. \A j \in 0 .. k : g[j] \in P[j]
    <3> TAKE j \in 0 .. k
    <3>1. CASE j = k  BY <1>0, <2>2, <3>1
    <3>2. CASE j # k  BY <2>1, <3>2
    <3> QED  BY <3>1, <3>2
  <2>4. g \in [0 .. k -> UNION {P[j] : j \in 0 .. n}]  BY <2>3
  <2>5. g[0] = a  BY <2>1
  <2>6. \A j \in 1 .. k : g[j] = G[<<j, g[j - 1]>>]
    <3> TAKE j \in 1 .. k
    <3>1. CASE j = k
      <4>1. k \in 0 .. k /\ k - 1 \in 0 .. k /\ k - 1 # k  OBVIOUS
      <4>2. g[k] = G[<<k, f[k - 1]>>] /\ g[k - 1] = f[k - 1]  BY <4>1
      <4> QED  BY <3>1, <4>2
    <3>2. CASE j # k
      <4>1. j \in 1 .. k - 1 /\ j - 1 # k /\ j - 1 \in 0 .. k  BY <3>2
      <4> QED  BY <2>1, <3>2, <4>1
    <3> QED  BY <3>1, <3>2
  <2>7. g \in Upto(k)
    <3> HIDE DEF g
    <3> QED  BY <2>3, <2>4, <2>5, <2>6
  <2> QED  BY <2>7
<1>3. n \in S
  <2> HIDE DEF Upto
  <2>1. 0 \in S  BY <1>1
  <2>2. \A k \in 1 .. n : k - 1 \in S => k \in S  BY <1>2
  <2> HIDE DEF S
  <2>3. 0 .. n \subseteq S  BY <2>1, <2>2, Upwards
  <2> QED  BY <2>3
<1>4. Upto(n) # {}
  <2> HIDE DEF Upto
  <2> QED  BY <1>3
<1>5. PICK f : f \in Upto(n)  BY <1>4
<1> QED  BY <1>5 DEF Computes

-----------------------------------------------------------------------------
(* The screen's constants, and where a position is on it. *)
LEMMA ScreenIs ==
    /\ width \in Nat \ {0} /\ height \in Nat \ {0, 1} /\ TAB_SIZE \in Nat \ {0}
    /\ MAPPED \in Nat /\ WORD16 \in Nat \ {0} /\ BYTE \in Nat \ {0}
    /\ Size \in Nat /\ Size = width * height /\ Size >= width + width
    /\ Size + width + TAB_SIZE <= WORD16 /\ Size + TAB_SIZE <= MAPPED
<1>1. /\ width \in Nat \ {0} /\ height \in Nat \ {0, 1} /\ TAB_SIZE \in Nat \ {0}
      /\ MAPPED \in Nat /\ WORD16 \in Nat \ {0} /\ BYTE \in Nat \ {0}
      /\ width * height + width + TAB_SIZE <= WORD16 /\ width * height + TAB_SIZE <= MAPPED
  BY ScreenAssumption
<1>2. PICK w \in Nat \ {0}, h \in Nat \ {0, 1} : w = width /\ h = height  BY <1>1
<1>3. w * h \in Nat /\ w * h >= w + w
  <2>1. h - 2 \in Nat  OBVIOUS
  <2>2. w * (h - 2) \in Nat /\ w * h = w * (h - 2) + w * 2  BY <2>1
  <2> QED  BY <2>2
<1> QED  BY <1>1, <1>2, <1>3 DEF Size

LEMMA Rows ==
    ASSUME NEW a \in Int, NEW b \in Int, a <= b
    PROVE  a * width <= b * width /\ a * width \in Int /\ b * width \in Int
           /\ (b + 1) * width = b * width + width /\ (b - 1) * width = b * width - width
<1>1. PICK w \in Nat : w = width  BY ScreenIs
<1>2. PICK d \in Nat : d = b - a  OBVIOUS
<1>3. d * w \in Nat /\ b * w = a * w + d * w  BY <1>2
<1> QED  BY <1>1, <1>3

LEMMA Place ==
    ASSUME NEW c \in Nat
    PROVE  /\ getCursorPosX(c) \in 0 .. width - 1 /\ getCursorPosY(c) \in Nat
           /\ c = getCursorPosY(c) * width + getCursorPosX(c)
           /\ getCursorPosY(c) * width \in Nat
           /\ (c < Size => getCursorPosY(c) < height)
           /\ (c >= width => getCursorPosY(c) >= 1)
<1>1. PICK w \in Nat \ {0} : w = width  BY ScreenIs
<1>2. PICK y \in Nat, x \in 0 .. w - 1 : y = c \div w /\ x = c % w /\ c = w * y + x
  <2>1. c \div w \in Nat /\ c % w \in 0 .. w - 1 /\ c = w * (c \div w) + (c % w)  OBVIOUS
  <2> QED  BY <2>1
<1>3. y * w \in Nat /\ y * w = w * y  OBVIOUS
<1>4. ASSUME c < Size  PROVE y < height
  <2> SUFFICES ASSUME y >= height  PROVE FALSE  BY ScreenIs
  <2>1. height * width <= y * width  BY ScreenIs, Rows
  <2>2. height * width = Size  BY ScreenIs
  <2> QED  BY <1>1, <1>2, <1>3, <1>4, <2>1, <2>2, ScreenIs
<1>5. ASSUME c >= width  PROVE y >= 1
  <2> SUFFICES ASSUME y = 0  PROVE FALSE  OBVIOUS
  <2> QED  BY <1>1, <1>2, <1>5
<1> QED  BY <1>1, <1>2, <1>3, <1>4, <1>5 DEF getCursorPosX, getCursorPosY
-----------------------------------------------------------------------------
(* Screens, and those that are within reach: whose cells that were stored   *)
(* to are on the screen or little behind it.                                *)
Chars == STRING \cup {Blank, "?", "\n"}

Displays ==
    [cells : [0 .. MAPPED - 1 -> Chars], cursor : 0 .. WORD16 - 1,
     index : {"low", "high"}, low : Int, high : Int, reach : Int]

(* The screens that differ from one with this cursor and reach elsewhere. *)
Like(cursor, reach) == {t \in Displays : t.cursor = cursor /\ t.reach = reach}

LowRight(s) == s.low = s.cursor % BYTE
HighRight(s) == s.high = s.cursor \div BYTE
Right(s) == s.index = "high" /\ LowRight(s) /\ HighRight(s)

LEMMA MovedIs ==
    ASSUME NEW s \in Displays, NEW pos \in Int
    PROVE  Moved(s, pos) \in Like(pos % WORD16, s.reach) /\ pos % WORD16 \in 0 .. WORD16 - 1
<1>1. PICK p \in 0 .. WORD16 - 1 : p = pos % WORD16  BY ScreenIs
<1>2. [s EXCEPT !.cursor = p] \in Like(p, s.reach)  BY DEF Displays, Like
<1> QED  BY <1>1, <1>2 DEF Moved

(* A write to a port changes a register of the display at most. *)
LEMMA OutIs ==
    ASSUME NEW s \in Displays, NEW n \in 1 .. 4
    PROVE  LET t == Out(s, n)
           IN  /\ t \in Like(s.cursor, s.reach)
               /\ n = 1 => t.index = "low" /\ t.low = s.low
               /\ n = 2 => t.index = s.index /\ (s.index = "low" => LowRight(t))
                           /\ (s.index = "high" => t.low = s.low)
               /\ n = 3 => t.index = "high" /\ t.low = s.low
               /\ n = 4 => t.index = s.index /\ (s.index = "high" => HighRight(t) /\ t.low = s.low)
<1>1. PICK l \in Int, h \in Int : l = s.cursor % BYTE /\ h = s.cursor \div BYTE
  <2>1. s.cursor \in Int  BY ScreenIs DEF Displays
  <2>2. s.cursor % BYTE \in Int /\ s.cursor \div BYTE \in Int  BY <2>1, ScreenIs
  <2> QED  BY <2>2
<1>2. DOMAIN s = {"cells", "cursor", "index", "low", "high", "reach"} /\ s.index \in {"low", "high"}
  BY DEF Displays
<1>3. CASE n = 1
  <2>1. [s EXCEPT !.index = "low"] \in Like(s.cursor, s.reach)  BY DEF Displays, Like
  <2>2. Out(s, n) = [s EXCEPT !.index = "low"]  BY <1>3 DEF Out
  <2> QED  BY <1>2, <1>3, <2>1, <2>2
<1>4. CASE n = 3
  <2>1. [s EXCEPT !.index = "high"] \in Like(s.cursor, s.reach)  BY DEF Displays, Like
  <2>2. Out(s, n) = [s EXCEPT !.index = "high"]  BY <1>4 DEF Out
  <2> QED  BY <1>2, <1>4, <2>1, <2>2
<1>5. ASSUME NEW v \in Int
      PROVE  LET t == [s EXCEPT ![s.index] = v]
             IN  /\ t \in Like(s.cursor, s.reach) /\ t.index = s.index
                 /\ s.index = "low" => t.low = v
                 /\ s.index = "high" => t.high = v /\ t.low = s.low
  <2>1. CASE s.index = "low"
    <3>1. PICK t : t = [s EXCEPT !.low = v]  OBVIOUS
    <3>2. t \in Displays /\ t.cursor = s.cursor /\ t.reach = s.reach /\ t.index = s.index /\ t.low = v
      BY <1>2, <3>1 DEF Displays
    <3> QED  BY <2>1, <3>1, <3>2 DEF Like
  <2>2. CASE s.index = "high"
    <3>1. PICK t : t = [s EXCEPT !.high = v]  OBVIOUS
    <3>2. t \in Displays /\ t.cursor = s.cursor /\ t.reach = s.reach /\ t.index = s.index
          /\ t.high = v /\ t.low = s.low
      BY <1>2, <3>1 DEF Displays
    <3> QED  BY <2>2, <3>1, <3>2 DEF Like
  <2> QED  BY <1>2, <2>1, <2>2
<1>6. CASE n = 2
  <2>1. Out(s, n) = [s EXCEPT ![s.index] = l]  BY <1>1, <1>6 DEF Out
  <2>2. PICK t : t = Out(s, n)  OBVIOUS
  <2>3. /\ t \in Like(s.cursor, s.reach) /\ t.index = s.index
        /\ s.index = "low" => t.low = l
        /\ s.index = "high" => t.low = s.low
    BY <1>5, <2>1, <2>2
  <2>4. l = t.cursor % BYTE  BY <1>1, <2>3 DEF Like
  <2> QED  BY <1>6, <2>2, <2>3, <2>4 DEF LowRight
<1>7. CASE n = 4
  <2>1. Out(s, n) = [s EXCEPT ![s.index] = h]  BY <1>1, <1>7 DEF Out
  <2>2. PICK t : t = Out(s, n)  OBVIOUS
  <2>3. /\ t \in Like(s.cursor, s.reach) /\ t.index = s.index
        /\ s.index = "high" => t.high = h /\ t.low = s.low
    BY <1>5, <2>1, <2>2
  <2>4. h = t.cursor \div BYTE  BY <1>1, <2>3 DEF Like
  <2> QED  BY <1>7, <2>2, <2>3, <2>4 DEF HighRight
<1> QED  BY <1>3, <1>4, <1>6, <1>7

LEMMA ShownIs ==
    ASSUME NEW s \in Displays
    PROVE  Shown(s) \in Like(s.cursor, s.reach) /\ Right(Shown(s))
<1>1. PICK a : a = Out(s, 1)  OBVIOUS
<1>2. a \in Like(s.cursor, s.reach) /\ a.index = "low"  BY <1>1, OutIs
<1>3. PICK b : b = Out(a, 2)  OBVIOUS
<1>4. b \in Like(s.cursor, s.reach) /\ LowRight(b)  BY <1>2, <1>3, OutIs DEF Like
<1>5. PICK c : c = Out(b, 3)  OBVIOUS
<1>6. c \in Like(s.cursor, s.reach) /\ c.index = "high" /\ c.low = b.low
  BY <1>4, <1>5, OutIs DEF Like
<1>7. PICK d : d = Out(c, 4)  OBVIOUS
<1>8. d \in Like(s.cursor, s.reach) /\ d.index = "high" /\ HighRight(d) /\ d.low = c.low
  BY <1>6, <1>7, OutIs DEF Like
<1>9. LowRight(d)  BY <1>4, <1>6, <1>8 DEF Like, LowRight
<1>10. Shown(s) = d  BY <1>1, <1>3, <1>5, <1>7 DEF Shown
<1> QED  BY <1>8, <1>9, <1>10 DEF Right

LEMMA SetCursorIs ==
    ASSUME NEW s \in Displays, NEW x \in Int, NEW y \in Int
    PROVE  /\ Position(x, y) \in 0 .. WORD16 - 1
           /\ setCursorPos(s, x, y) \in Like(Position(x, y), s.reach)
           /\ Right(setCursorPos(s, x, y))
<1>1. PICK q \in Int : q = y * width + x  BY ScreenIs
<1>2. PICK p \in 0 .. WORD16 - 1 : p = q % WORD16  BY ScreenIs
<1>3. p % WORD16 = p  BY ScreenIs
<1>4. PICK t : t = Moved(s, p)  OBVIOUS
<1>5. t \in Like(p, s.reach)  BY <1>3, <1>4, MovedIs
<1>6. Shown(t) \in Like(p, s.reach) /\ Right(Shown(t))  BY <1>5, ShownIs DEF Like
<1>7. Position(x, y) = p /\ setCursorPos(s, x, y) = Shown(t)
  BY <1>1, <1>2, <1>4 DEF Position, setCursorPos
<1> QED  BY <1>6, <1>7
-----------------------------------------------------------------------------
(* A row of scroll's loops changes cells only. *)
LEMMA CopyRowIs ==
    ASSUME NEW s \in Displays, NEW i \in 0 .. height - 2
    PROVE  CopyRow(s, i) \in Like(s.cursor, s.reach) /\ CopyRow(s, i).index = s.index
           /\ CopyRow(s, i).low = s.low /\ CopyRow(s, i).high = s.high
<1> DEFINE cells == [c \in 0 .. MAPPED - 1 |-> IF c \div width = i THEN s.cells[c + width]
                                                                    ELSE s.cells[c]]
<1>1. s.cells \in [0 .. MAPPED - 1 -> Chars]  BY DEF Displays
<1>2. ASSUME NEW c \in 0 .. MAPPED - 1, c \div width = i  PROVE c + width \in 0 .. MAPPED - 1
  <2>1. c \in Nat /\ getCursorPosY(c) = i  BY <1>2, ScreenIs DEF getCursorPosY
  <2>2. PICK x \in Int : x < width /\ c = i * width + x  BY <2>1, Place, ScreenIs
  <2>3. i + 1 <= height - 1 /\ i \in Int /\ height \in Int  BY ScreenIs
  <2>4. (i + 1) * width <= (height - 1) * width  BY <2>3, Rows
  <2>5. (i + 1) * width = i * width + width  BY <2>3, Rows
  <2>6. (height - 1) * width = height * width - width  BY <2>3, Rows
  <2>7. height * width = Size  BY ScreenIs
  <2>8. PICK r \in Int, q \in Int : r = i * width /\ q = height * width  BY <2>3, Rows, ScreenIs
  <2> QED  BY <2>1, <2>2, <2>4, <2>5, <2>6, <2>7, <2>8, ScreenIs
<1>3. cells \in [0 .. MAPPED - 1 -> Chars]  BY <1>1, <1>2
<1>4. CopyRow(s, i) = [s EXCEPT !.cells = cells]  BY <1>1 DEF CopyRow
<1> HIDE DEF cells
<1>5. PICK t : t = CopyRow(s, i)  OBVIOUS
<1>6. t \in Displays /\ t.cursor = s.cursor /\ t.reach = s.reach /\ t.index = s.index
      /\ t.low = s.low /\ t.high = s.high
  BY <1>3, <1>4, <1>5 DEF Displays
<1> QED  BY <1>5, <1>6 DEF Like

LEMMA BlankRowIs ==
    ASSUME NEW s \in Displays
    PROVE  BlankRow(s) \in Like(s.cursor, s.reach) /\ BlankRow(s).index = s.index
           /\ BlankRow(s).low = s.low /\ BlankRow(s).high = s.high
<1> DEFINE cells == [c \in 0 .. MAPPED - 1 |-> IF c \div width = height - 1 THEN Blank
                                                                           ELSE s.cells[c]]
<1>1. s.cells \in [0 .. MAPPED - 1 -> Chars]  BY DEF Displays
<1>2. cells \in [0 .. MAPPED - 1 -> Chars]
  <2>1. Blank \in Chars  BY DEF Chars
  <2> QED  BY <1>1, <2>1
<1>3. BlankRow(s) = [s EXCEPT !.cells = cells]  BY <1>1 DEF BlankRow
<1> HIDE DEF cells
<1>4. PICK t : t = BlankRow(s)  OBVIOUS
<1>5. t \in Displays /\ t.cursor = s.cursor /\ t.reach = s.reach /\ t.index = s.index
      /\ t.low = s.low /\ t.high = s.high
  BY <1>2, <1>3, <1>4 DEF Displays
<1> QED  BY <1>4, <1>5 DEF Like

(* What is like a screen that is like another one is like this one. *)
LEMMA LikeIs ==
    ASSUME NEW cursor, NEW reach, NEW t \in Like(cursor, reach)
    PROVE  t \in Displays /\ t.cursor = cursor /\ t.reach = reach
           /\ Like(t.cursor, t.reach) = Like(cursor, reach)
BY DEF Like

LEMMA RowsCopiedIs ==
    ASSUME NEW s \in Displays
    PROVE  RowsCopied(s) \in Like(s.cursor, s.reach)
<1>0. PICK n \in Nat : n = height - 1  BY ScreenIs
<1> DEFINE L == Like(s.cursor, s.reach)
           P == [k \in 0 .. n |-> L]
           G == [z \in (1 .. n) \X L |-> CopyRow(z[2], z[1] - 1)]
<1>1. \A k \in 1 .. n : \A t \in L : CopyRow(t, k - 1) \in L
  <2> TAKE k \in 1 .. n
  <2> TAKE t \in L
  <2>1. k - 1 \in 0 .. height - 2 /\ t \in Displays  BY <1>0, ScreenIs, LikeIs
  <2>2. CopyRow(t, k - 1) \in Like(t.cursor, t.reach)  BY <2>1, CopyRowIs
  <2> QED  BY <2>2, LikeIs
<1>2. /\ \A k \in 0 .. n : P[k] = L
      /\ \A k \in 1 .. n : \A t \in L : G[<<k, t>>] = CopyRow(t, k - 1)
  OBVIOUS
<1>3. s \in L  BY DEF Like
<1> HIDE DEF P, G, L
<1>4. \E f : f = [k \in 0 .. n |-> IF k = 0 THEN s ELSE CopyRow(f[k - 1], k - 1)]
  <2>1. Stepwise(n, P, s, G)
    <3>1. s \in P[0]  BY <1>2, <1>3
    <3>2. ASSUME NEW k \in 1 .. n  PROVE \A t \in P[k - 1] : G[<<k, t>>] \in P[k]
      <4>1. k - 1 \in 0 .. n /\ k \in 0 .. n  OBVIOUS
      <4> QED  BY <1>1, <1>2, <4>1
    <3> QED  BY <3>1, <3>2 DEF Stepwise
  <2>2. PICK f : Computes(f, n, P, s, G)  BY <2>1, Computation
  <2>3. /\ f = [k \in 0 .. n |-> f[k]]
        /\ f[0] = s
        /\ \A k \in 0 .. n : f[k] \in P[k]
        /\ \A k \in 1 .. n : f[k] = G[<<k, f[k - 1]>>]
    BY <2>2 DEF Computes
  <2>4. \A k \in 0 .. n : f[k] = IF k = 0 THEN s ELSE CopyRow(f[k - 1], k - 1)
    <3> TAKE k \in 0 .. n
    <3>1. CASE k = 0  BY <2>3, <3>1
    <3>2. CASE k # 0
      <4>1. k \in 1 .. n /\ k - 1 \in 0 .. n  BY <3>2
      <4>2. f[k - 1] \in L  BY <1>2, <2>3, <4>1
      <4>3. G[<<k, f[k - 1]>>] = CopyRow(f[k - 1], k - 1)  BY <1>2, <4>1, <4>2
      <4> QED  BY <2>3, <3>2, <4>1, <4>3
    <3> QED  BY <3>1, <3>2
  <2> QED  BY <2>3, <2>4
<1> DEFINE copied == CHOOSE f : f = [k \in 0 .. n |-> IF k = 0 THEN s
                                                     ELSE CopyRow(f[k - 1], k - 1)]
<1>5. copied = [k \in 0 .. n |-> IF k = 0 THEN s ELSE CopyRow(copied[k - 1], k - 1)]
  BY <1>4
<1>6. RowsCopied(s) = copied[n]  BY <1>0 DEF RowsCopied
<1> HIDE DEF copied
<1>7. \A k \in 0 .. n : copied[k] \in P[k]
  <2>1. copied[0] \in P[0]  BY <1>2, <1>3, <1>5
  <2>2. \A k \in 1 .. n : copied[k - 1] \in P[k - 1] => copied[k] \in P[k]
    <3> TAKE k \in 1 .. n
    <3>1. k - 1 \in 0 .. n /\ k \in 0 .. n /\ k # 0  OBVIOUS
    <3>2. copied[k] = CopyRow(copied[k - 1], k - 1)  BY <1>5, <3>1
    <3> QED  BY <1>1, <1>2, <3>1, <3>2
  <2> QED  BY <2>1, <2>2, StepByStep
<1>8. copied[n] \in L  BY <1>2, <1>7
<1> QED  BY <1>6, <1>8 DEF L
-----------------------------------------------------------------------------
(* scroll takes the cursor up a row, and is repeated until it is on the     *)
(* screen.                                                                  *)
LEMMA ScrollIs ==
    ASSUME NEW s \in Displays, s.cursor >= width
    PROVE  scroll(s) \in Like(s.cursor - width, s.reach)
<1>1. PICK c \in 0 .. WORD16 - 1 : c = s.cursor  BY DEF Displays
<1>2. PICK t : t = BlankRow(RowsCopied(s))  OBVIOUS
<1>3. t \in Displays /\ t.cursor = c /\ t.reach = s.reach
  <2>1. PICK u : u = RowsCopied(s)  OBVIOUS
  <2>2. u \in Displays /\ u.cursor = s.cursor /\ u.reach = s.reach
    BY <2>1, RowsCopiedIs, LikeIs
  <2>3. BlankRow(u) \in Like(u.cursor, u.reach)  BY <2>2, BlankRowIs
  <2> QED  BY <1>1, <1>2, <2>1, <2>2, <2>3, LikeIs
<1>4. PICK x \in Int, y \in Int : x = getCursorPosX(c) /\ y = getCursorPosY(c)
                                   /\ x >= 0 /\ y >= 1 /\ c = y * width + x
  <2>1. c \in Nat /\ c >= width  BY <1>1, ScreenIs
  <2>2. PICK x, y : x = getCursorPosX(c) /\ y = getCursorPosY(c)  OBVIOUS
  <2>3. x \in 0 .. width - 1 /\ y \in Nat /\ c = y * width + x /\ y >= 1
    BY <2>1, <2>2, Place
  <2> QED  BY <2>2, <2>3
<1>5. scroll(s) = setCursorPos(t, x, y - 1)  BY <1>1, <1>2, <1>4 DEF scroll
<1>6. Position(x, y - 1) = c - width
  <2>1. (y - 1) * width = y * width - width  BY Rows
  <2>2. PICK r \in Int : r = y * width  BY Rows
  <2>3. (y - 1) * width + x = c - width  BY <1>1, <1>4, <2>1, <2>2, ScreenIs
  <2>4. c - width \in 0 .. WORD16 - 1  BY <1>1, ScreenIs
  <2>5. (c - width) % WORD16 = c - width  BY <2>4, ScreenIs
  <2> QED  BY <2>3, <2>5 DEF Position
<1> QED  BY <1>1, <1>3, <1>5, <1>6, SetCursorIs

(* What scrollRep makes of a screen in n passes. *)
Lifted(c, r, n) ==
    {t \in Displays : /\ t.reach = r
                      /\ t.cursor < Size \/ t.cursor + n * width <= c
                      /\ c >= width => t.cursor >= width
                      /\ c < Size => t.cursor = c}

LEMMA PassIs ==
    ASSUME NEW c \in Nat, NEW r, NEW n \in Nat, NEW t \in Lifted(c, r, n)
    PROVE  scrollRep(t) \in Lifted(c, r, n + 1)
<1>1. PICK d \in 0 .. WORD16 - 1 : d = t.cursor  BY DEF Displays, Lifted
<1>2. t \in Displays /\ t.reach = r /\ (c >= width => d >= width) /\ (c < Size => d = c)
      /\ (d < Size \/ d + n * width <= c)
  BY <1>1 DEF Lifted
<1>3. CASE d < Size
  <2>1. scrollRep(t) = t  BY <1>1, <1>3, ScreenIs DEF scrollRep
  <2> QED  BY <1>1, <1>2, <1>3, <2>1 DEF Lifted
<1>4. CASE ~ (d < Size)
  <2>1. d >= Size /\ d >= width  BY <1>1, <1>4, ScreenIs
  <2>2. scrollRep(t) = scroll(t)  BY <1>1, <2>1 DEF scrollRep
  <2>3. PICK u : u = scroll(t)  OBVIOUS
  <2>4. u \in Displays /\ u.cursor = d - width /\ u.reach = r
    BY <1>1, <1>2, <2>1, <2>3, ScrollIs, LikeIs
  <2>5. (n + 1) * width = n * width + width /\ n * width \in Int  BY Rows
  <2>6. PICK q \in Int : q = n * width  BY <2>5
  <2>7. d - width + (n + 1) * width <= c  BY <1>1, <1>2, <1>4, <2>5, <2>6, ScreenIs
  <2>8. d - width >= width /\ ~ (c < Size)  BY <1>1, <1>2, <1>4, <2>1, ScreenIs
  <2> QED  BY <2>2, <2>3, <2>4, <2>7, <2>8 DEF Lifted
<1> QED  BY <1>3, <1>4

LEMMA ScrolledIs ==
    ASSUME NEW s \in Displays
    PROVE  LET t == Scrolled(s)
           IN  /\ t \in Displays /\ t.reach = s.reach /\ t.cursor < Size
               /\ s.cursor >= width => t.cursor >= width
               /\ s.cursor < Size => t.cursor = s.cursor
<1>1. PICK c \in Nat : c = s.cursor  BY DEF Displays
<1>2. PICK y \in Nat, x \in Int : y = getCursorPosY(c) /\ x < width /\ c = y * width + x
  <2>1. PICK x, y : x = getCursorPosX(c) /\ y = getCursorPosY(c)  OBVIOUS
  <2>2. x \in 0 .. width - 1 /\ y \in Nat /\ c = y * width + x  BY <2>1, Place
  <2>3. x \in Int /\ x < width  BY <2>2, ScreenIs
  <2> QED  BY <2>1, <2>2, <2>3
<1>3. PICK n \in Nat : n = y + 1  OBVIOUS
<1> DEFINE r == s.reach
           P == [k \in 0 .. n |-> Lifted(c, r, k)]
           G == [z \in (1 .. n) \X Displays |-> scrollRep(z[2])]
<1>4. \A k \in 1 .. n : \A t \in P[k - 1] : scrollRep(t) \in P[k]
  <2> TAKE k \in 1 .. n
  <2>1. k - 1 \in 0 .. n /\ k - 1 \in Nat /\ k \in 0 .. n /\ (k - 1) + 1 = k  OBVIOUS
  <2>2. P[k - 1] = Lifted(c, r, k - 1) /\ P[k] = Lifted(c, r, k)  BY <2>1
  <2> HIDE DEF P, r
  <2> QED  BY <2>1, <2>2, PassIs
<1>5. /\ \A k \in 0 .. n : P[k] = Lifted(c, r, k)
      /\ \A k \in 1 .. n : \A t \in Displays : G[<<k, t>>] = scrollRep(t)
  OBVIOUS
<1>6. s \in P[0]
  <2>1. 0 * width = 0 /\ 0 \in 0 .. n  BY ScreenIs
  <2>2. s \in Lifted(c, r, 0)  BY <1>1, <2>1 DEF Lifted
  <2> QED  BY <2>1, <2>2
<1> HIDE DEF P, G, r
<1>7. \A k \in 0 .. n : P[k] \subseteq Displays  BY <1>5 DEF Lifted
<1>8. \E f : f = [k \in 0 .. n |-> IF k = 0 THEN s ELSE scrollRep(f[k - 1])]
  <2>1. Stepwise(n, P, s, G)
    <3>1. ASSUME NEW k \in 1 .. n  PROVE \A t \in P[k - 1] : G[<<k, t>>] \in P[k]
      <4>1. k - 1 \in 0 .. n /\ k \in 0 .. n  OBVIOUS
      <4> QED  BY <1>4, <1>5, <1>7, <4>1
    <3> QED  BY <1>6, <3>1 DEF Stepwise
  <2>2. PICK f : Computes(f, n, P, s, G)  BY <2>1, Computation
  <2>3. /\ f = [k \in 0 .. n |-> f[k]]
        /\ f[0] = s
        /\ \A k \in 0 .. n : f[k] \in P[k]
        /\ \A k \in 1 .. n : f[k] = G[<<k, f[k - 1]>>]
    BY <2>2 DEF Computes
  <2>4. \A k \in 0 .. n : f[k] = IF k = 0 THEN s ELSE scrollRep(f[k - 1])
    <3> TAKE k \in 0 .. n
    <3>1. CASE k = 0  BY <2>3, <3>1
    <3>2. CASE k # 0
      <4>1. k \in 1 .. n /\ k - 1 \in 0 .. n  BY <3>2
      <4>2. f[k - 1] \in Displays  BY <1>7, <2>3, <4>1
      <4>3. G[<<k, f[k - 1]>>] = scrollRep(f[k - 1])  BY <1>5, <4>1, <4>2
      <4> QED  BY <2>3, <3>2, <4>1, <4>3
    <3> QED  BY <3>1, <3>2
  <2> QED  BY <2>3, <2>4
<1> DEFINE after == CHOOSE f : f = [k \in 0 .. n |-> IF k = 0 THEN s ELSE scrollRep(f[k - 1])]
<1>9. after = [k \in 0 .. n |-> IF k = 0 THEN s ELSE scrollRep(after[k - 1])]
  BY <1>8
<1>10. Scrolled(s) = after[n]  BY <1>1, <1>2, <1>3 DEF Scrolled, getCursorPosY
<1> HIDE DEF after
<1>11. \A k \in 0 .. n : after[k] \in P[k]
  <2>1. after[0] \in P[0]  BY <1>6, <1>9
  <2>2. \A k \in 1 .. n : after[k - 1] \in P[k - 1] => after[k] \in P[k]
    <3> TAKE k \in 1 .. n
    <3>1. k - 1 \in 0 .. n /\ k \in 0 .. n /\ k # 0  OBVIOUS
    <3>2. after[k] = scrollRep(after[k - 1])  BY <1>9, <3>1
    <3> QED  BY <1>4, <3>1, <3>2
  <2> QED  BY <2>1, <2>2, StepByStep
<1>12. PICK t : t = Scrolled(s)  OBVIOUS
<1>13. t \in Lifted(c, r, n)  BY <1>5, <1>10, <1>11, <1>12
<1>14. PICK d \in Nat : d = t.cursor  BY <1>13 DEF Lifted, Displays
<1>15. d < Size
  <2>1. n * width = y * width + width  BY <1>3, Rows
  <2>2. PICK q \in Int : q = y * width  BY Rows
  <2>3. ~ (d + n * width <= c)  BY <1>2, <1>14, <2>1, <2>2, ScreenIs
  <2> QED  BY <1>13, <1>14, <2>3 DEF Lifted
<1> QED  BY <1>1, <1>12, <1>13, <1>14, <1>15 DEF Lifted, r
-----------------------------------------------------------------------------
(* What a character does to the screen. *)
Typable == Chars \ {"VT"}
Reach == Size + TAB_SIZE

(* The screens on which the cursor is little behind the last cell, at most. *)
Near == {t \in Displays : t.cursor < Reach /\ t.reach <= Reach}

LEMMA MaxIs ==
    ASSUME NEW a \in Int, NEW b \in Int
    PROVE  Max({a, b}) = IF a >= b THEN a ELSE b
<1>1. PICK m : m = IF a >= b THEN a ELSE b  OBVIOUS
<1>2. m \in {a, b} /\ \A x \in {a, b} : m >= x  BY <1>1
<1>3. ASSUME NEW k \in {a, b}, \A x \in {a, b} : k >= x  PROVE k = m
  BY <1>2, <1>3
<1>4. Max({a, b}) = CHOOSE x \in {a, b} : \A y \in {a, b} : x >= y  BY DEF Max
<1> QED  BY <1>1, <1>2, <1>3, <1>4

LEMMA PutIs ==
    ASSUME NEW s \in Displays, NEW i \in Nat, i < Reach, NEW c \in Chars, s.reach <= Reach
    PROVE  LET t == Put(s, i, c)
           IN  t \in Displays /\ t.cursor = s.cursor /\ t.reach <= Reach /\ t.index = s.index
               /\ t.low = s.low /\ t.high = s.high
<1> DEFINE cells == IF i < MAPPED THEN [s.cells EXCEPT ![i] = c] ELSE s.cells
<1>1. cells \in [0 .. MAPPED - 1 -> Chars]  BY DEF Displays
<1>2. PICK r \in Int : r = Max({s.reach, i + 1}) /\ r <= Reach
  BY MaxIs, ScreenIs DEF Reach, Displays
<1>3. Put(s, i, c) = [s EXCEPT !.cells = cells, !.reach = r]
  BY <1>2 DEF Put
<1> HIDE DEF cells
<1>4. PICK t : t = Put(s, i, c)  OBVIOUS
<1>5. t \in Displays /\ t.cursor = s.cursor /\ t.reach = r /\ t.index = s.index
      /\ t.low = s.low /\ t.high = s.high
  BY <1>1, <1>3, <1>4 DEF Displays
<1> QED  BY <1>2, <1>4, <1>5

LEMMA PositionIs ==
    ASSUME NEW x \in Int, NEW y \in Int
    PROVE  /\ Position(x, y) \in 0 .. WORD16 - 1
           /\ y * width + x \in 0 .. WORD16 - 1 => Position(x, y) = y * width + x
<1>1. PICK q \in Int : q = y * width + x  BY ScreenIs
<1>2. q % WORD16 \in 0 .. WORD16 - 1  BY ScreenIs
<1>3. q \in 0 .. WORD16 - 1 => q % WORD16 = q  BY ScreenIs
<1> QED  BY <1>1, <1>2, <1>3 DEF Position

LEMMA TargetIs ==
    ASSUME NEW c, NEW pos \in Nat
    PROVE  /\ Target(c, pos) \in Int
           /\ pos < Size /\ c # "VT" => Target(c, pos) \in 0 .. Reach - 1
           /\ c = "\n" /\ pos < Reach => Target(c, pos) \in width .. WORD16 - 1
<1>1. PICK x \in Int, y \in Int : x = getCursorPosX(pos) /\ y = getCursorPosY(pos)
                                   /\ pos = y * width + x /\ x >= 0 /\ x < width /\ y >= 0
                                   /\ (pos < Size => y < height)
  <2>1. PICK x, y : x = getCursorPosX(pos) /\ y = getCursorPosY(pos)  OBVIOUS
  <2>2. /\ x \in 0 .. width - 1 /\ y \in Nat /\ pos = y * width + x
        /\ (pos < Size => y < height)
    BY <2>1, Place
  <2>3. x \in Int /\ x >= 0 /\ x < width  BY <2>2, ScreenIs
  <2> QED  BY <2>1, <2>2, <2>3
<1>2. PICK q \in Int : q = y * width /\ (y + 1) * width = q + width
  <2>1. PICK q : q = y * width  OBVIOUS
  <2>2. q \in Int /\ (y + 1) * width = q + width  BY <2>1, Rows
  <2> QED  BY <2>1, <2>2
<1>3. Position(x, y + 1) \in Int /\ Position(0, y + 1) \in Int /\ Position(0, y) \in Int
  <2>1. 0 \in Int /\ y + 1 \in Int /\ 0 .. WORD16 - 1 \subseteq Int  BY ScreenIs
  <2> QED  BY <2>1, PositionIs
<1>4. CASE c = "\n"
  <2>1. Target(c, pos) = Position(0, y + 1)  BY <1>1, <1>4 DEF Target, Printable, SetsCursor
  <2>2. ASSUME pos < Reach  PROVE Position(0, y + 1) = q + width /\ q + width \in width .. WORD16 - 1
    <3>1. q + width \in 0 .. WORD16 - 1 /\ q >= 0
      <4>1. 0 * width <= y * width /\ 0 * width = 0  BY <1>1, Rows, ScreenIs
      <4> QED  BY <1>1, <1>2, <2>2, <4>1, ScreenIs DEF Reach
    <3>2. (y + 1) * width + 0 = q + width  BY <1>2, <3>1, ScreenIs
    <3>3. Position(0, y + 1) = q + width
      <4>1. y + 1 \in Int /\ 0 \in Int  OBVIOUS
      <4> QED  BY <3>1, <3>2, <4>1, PositionIs
    <3> QED  BY <3>1, <3>3, ScreenIs
  <2>3. ASSUME pos < Size  PROVE q + width \in 0 .. Reach - 1 /\ pos < Reach
    <3>1. y + 1 <= height /\ height \in Int  BY <1>1, <2>3, ScreenIs
    <3>2. (y + 1) * width <= height * width  BY <3>1, Rows
    <3>3. height * width = Size  BY ScreenIs
    <3>4. 0 * width <= y * width /\ 0 * width = 0  BY <1>1, Rows, ScreenIs
    <3> QED  BY <1>2, <2>3, <3>2, <3>3, <3>4, ScreenIs DEF Reach
  <2> QED  BY <1>3, <1>4, <2>1, <2>2, <2>3
<1>5. CASE c = "\r"
  <2>1. Target(c, pos) = Position(0, y)  BY <1>1, <1>5 DEF Target, Printable, SetsCursor
  <2>2. ASSUME pos < Size  PROVE Position(0, y) \in 0 .. Reach - 1
    <3>1. 0 * width <= y * width /\ 0 * width = 0  BY <1>1, Rows, ScreenIs
    <3>2. q \in 0 .. Reach - 1 /\ q \in 0 .. WORD16 - 1
      BY <1>1, <1>2, <2>2, <3>1, ScreenIs DEF Reach
    <3>3. y * width + 0 = q  BY <1>2
    <3>4. y \in Int /\ 0 \in Int  OBVIOUS
    <3> QED  BY <3>2, <3>3, <3>4, PositionIs
  <2> QED  BY <1>3, <1>5, <2>1, <2>2
<1>6. CASE c = "VT"
  <2>1. Target(c, pos) = Position(x, y + 1)  BY <1>1, <1>6 DEF Target, Printable, SetsCursor
  <2> QED  BY <1>3, <1>6, <2>1
<1>7. CASE c \notin {"\n", "\r", "VT"}
  <2>1. Target(c, pos) \in {pos + 1, pos + TAB_SIZE, Max({pos - 1, 0}), pos}
    BY <1>7 DEF Target, Printable, SetsCursor
  <2>2. Max({pos - 1, 0}) \in 0 .. pos
    BY MaxIs
  <2> HIDE DEF Target
  <2>3. PICK t : t = Target(c, pos)  OBVIOUS
  <2>4. t \in Int /\ t >= 0 /\ t <= pos + TAB_SIZE  BY <2>1, <2>2, <2>3, ScreenIs
  <2> QED  BY <1>7, <2>3, <2>4, ScreenIs DEF Reach
<1> QED  BY <1>4, <1>5, <1>6, <1>7
LEMMA TypedIs ==
    ASSUME NEW s \in Near, NEW c \in Typable
    PROVE  /\ Typed(s, c) \in Displays /\ Typed(s, c).reach <= Reach
           /\ c = "\n" => Typed(s, c).cursor >= width
<1>1. PICK p \in Nat : p = s.cursor /\ p < Reach  BY ScreenIs DEF Near, Displays
<1>2. s \in Displays /\ s.reach <= Reach /\ c \in Chars  BY DEF Near, Typable
<1>3. PICK t : t = IF Printable(c) THEN Put(s, p, c) ELSE s  OBVIOUS
<1>4. t \in Displays /\ t.reach <= Reach  BY <1>1, <1>2, <1>3, PutIs
<1>5. PICK d \in Int : d = Target(c, p)  BY <1>1, TargetIs
<1>6. PICK u : u = Moved(t, d)  OBVIOUS
<1>7. u \in Displays /\ u.cursor = d % WORD16 /\ u.reach = t.reach
  <2>1. Moved(t, d) \in Like(d % WORD16, t.reach)  BY <1>4, <1>5, MovedIs
  <2> QED  BY <1>6, <2>1, LikeIs
<1>8. PICK v : v = IF SetsCursor(c) THEN Shown(u) ELSE u  OBVIOUS
<1>9. v \in Displays /\ v.cursor = u.cursor /\ v.reach = u.reach
  <2>1. Shown(u) \in Like(u.cursor, u.reach)  BY <1>7, ShownIs
  <2> QED  BY <1>7, <1>8, <2>1, LikeIs
<1>10. Typed(s, c) = v  BY <1>1, <1>3, <1>5, <1>6, <1>8 DEF Typed
<1>11. ASSUME c = "\n"  PROVE v.cursor >= width
  <2>1. d \in width .. WORD16 - 1  BY <1>1, <1>5, <1>11, TargetIs
  <2>2. d % WORD16 = d  BY <2>1, ScreenIs
  <2> QED  BY <1>7, <1>9, <2>1, <2>2, ScreenIs
<1> QED  BY <1>4, <1>7, <1>9, <1>10, <1>11

(* The screen after the first k characters of a text. *)
After(s, text, k) ==
    {t \in Near : /\ k > 0 \/ s.cursor < Size => t.cursor < Size
                  /\ k > 0 /\ text[k] = "\n" => t.cursor >= width}

LEMMA CharIs ==
    ASSUME NEW s, NEW text, NEW k \in Nat, text[k + 1] \in Typable,
           NEW t \in After(s, text, k)
    PROVE  Scrolled(Typed(t, text[k + 1])) \in After(s, text, k + 1)
<1>1. PICK c \in Typable : c = text[k + 1]  OBVIOUS
<1>2. t \in Near  BY DEF After
<1>3. PICK u : u = Typed(t, c)  OBVIOUS
<1>4. u \in Displays /\ u.reach <= Reach /\ (c = "\n" => u.cursor >= width)
  BY <1>2, <1>3, TypedIs
<1>5. PICK v : v = Scrolled(u)  OBVIOUS
<1>6. v \in Displays /\ v.reach = u.reach /\ v.cursor < Size
      /\ (u.cursor >= width => v.cursor >= width)
  BY <1>4, <1>5, ScrolledIs
<1>7. v.cursor < Reach
  <2>1. v.cursor \in Int  BY <1>6, ScreenIs DEF Displays
  <2> QED  BY <1>6, <2>1, ScreenIs DEF Reach
<1>8. v \in Near  BY <1>4, <1>6, <1>7 DEF Near
<1> QED  BY <1>1, <1>3, <1>4, <1>5, <1>6, <1>8 DEF After

LEMMA PrintedIs ==
    ASSUME NEW s \in Near, NEW text \in Seq(Typable)
    PROVE  Printed(s, text) \in After(s, text, Len(text))
<1>1. PICK n \in Nat : n = Len(text)  OBVIOUS
<1>2. \A k \in 1 .. n : text[k] \in Typable  BY <1>1
<1> DEFINE P == [k \in 0 .. n |-> After(s, text, k)]
           G == [z \in (1 .. n) \X Near |-> Scrolled(Typed(z[2], text[z[1]]))]
<1>3. \A k \in 0 .. n : P[k] = After(s, text, k)
  OBVIOUS
<1>4. \A k \in 1 .. n : \A t \in Near : G[<<k, t>>] = Scrolled(Typed(t, text[k]))
  OBVIOUS
<1> HIDE DEF P, G
<1>5. \A k \in 1 .. n : \A t \in P[k - 1] : Scrolled(Typed(t, text[k])) \in P[k]
  <2> TAKE k \in 1 .. n
  <2> TAKE t \in P[k - 1]
  <2>1. PICK j \in Nat : j = k - 1  OBVIOUS
  <2>2. j \in 0 .. n /\ j + 1 \in 0 .. n /\ k = j + 1 /\ text[j + 1] \in Typable  BY <1>2, <2>1
  <2>3. t \in After(s, text, j)  BY <1>3, <2>1, <2>2
  <2>4. Scrolled(Typed(t, text[j + 1])) \in After(s, text, j + 1)  BY <2>2, <2>3, CharIs
  <2> QED  BY <1>3, <2>2, <2>4
<1>6. s \in P[0]  BY <1>3 DEF After
<1>7. \A k \in 0 .. n : P[k] \subseteq Near  BY <1>3 DEF After
<1>8. \E f : f = [k \in 0 .. n |-> IF k = 0 THEN s ELSE Scrolled(Typed(f[k - 1], text[k]))]
  <2>1. Stepwise(n, P, s, G)
    <3>1. ASSUME NEW k \in 1 .. n  PROVE \A t \in P[k - 1] : G[<<k, t>>] \in P[k]
      <4>1. k - 1 \in 0 .. n /\ k \in 0 .. n  OBVIOUS
      <4> QED  BY <1>4, <1>5, <1>7, <4>1
    <3> QED  BY <1>6, <3>1 DEF Stepwise
  <2>2. PICK f : Computes(f, n, P, s, G)  BY <2>1, Computation
  <2>3. /\ f = [k \in 0 .. n |-> f[k]]
        /\ f[0] = s
        /\ \A k \in 0 .. n : f[k] \in P[k]
        /\ \A k \in 1 .. n : f[k] = G[<<k, f[k - 1]>>]
    BY <2>2 DEF Computes
  <2>4. \A k \in 0 .. n : f[k] = IF k = 0 THEN s ELSE Scrolled(Typed(f[k - 1], text[k]))
    <3> TAKE k \in 0 .. n
    <3>1. CASE k = 0  BY <2>3, <3>1
    <3>2. CASE k # 0
      <4>1. k \in 1 .. n /\ k - 1 \in 0 .. n  BY <3>2
      <4>2. f[k - 1] \in Near  BY <1>7, <2>3, <4>1
      <4>3. G[<<k, f[k - 1]>>] = Scrolled(Typed(f[k - 1], text[k]))  BY <1>4, <4>1, <4>2
      <4> QED  BY <2>3, <3>2, <4>1, <4>3
    <3> QED  BY <3>1, <3>2
  <2> QED  BY <2>3, <2>4
<1> DEFINE after == CHOOSE f : f = [k \in 0 .. n |-> IF k = 0 THEN s
                                             ELSE Scrolled(Typed(f[k - 1], text[k]))]
<1>9. after = [k \in 0 .. n |-> IF k = 0 THEN s ELSE Scrolled(Typed(after[k - 1], text[k]))]
  BY <1>8
<1>10. Printed(s, text) = after[n]  BY <1>1 DEF Printed
<1> HIDE DEF after
<1>11. \A k \in 0 .. n : after[k] \in P[k]
  <2>1. after[0] \in P[0]  BY <1>6, <1>9
  <2>2. \A k \in 1 .. n : after[k - 1] \in P[k - 1] => after[k] \in P[k]
    <3> TAKE k \in 1 .. n
    <3>1. k - 1 \in 0 .. n /\ k \in 0 .. n /\ k # 0  OBVIOUS
    <3>2. after[k] = Scrolled(Typed(after[k - 1], text[k]))  BY <1>9, <3>1
    <3> QED  BY <1>5, <3>1, <3>2
  <2> QED  BY <2>1, <2>2, StepByStep
<1> QED  BY <1>1, <1>3, <1>10, <1>11
(* A call of arch_print leaves the display as it should be. *)
LEMMA PrintIs ==
    ASSUME NEW s \in Near, NEW text \in Seq(Typable)
    PROVE  LET t == arch_print(s, text)
           IN  /\ t \in Near /\ Right(t)
               /\ s.cursor < Size \/ text # <<>> => t.cursor < Size
               /\ text = <<"\n">> => t.cursor >= width
<1>1. PICK n \in Nat : n = Len(text)  OBVIOUS
<1>2. PICK e : e = Printed(s, text)  OBVIOUS
<1>3. e \in After(s, text, n)  BY <1>1, <1>2, PrintedIs
<1>4. PICK c \in 0 .. WORD16 - 1 : c = e.cursor /\ c < Reach
  BY <1>3 DEF After, Near, Displays
<1>5. PICK x \in Int, y \in Int : x = getCursorPosX(c) /\ y = getCursorPosY(c)
                                   /\ y * width + x = c
  <2>1. PICK x, y : x = getCursorPosX(c) /\ y = getCursorPosY(c)  OBVIOUS
  <2>2. x \in 0 .. width - 1 /\ y \in Nat /\ c = y * width + x  BY <2>1, Place, ScreenIs
  <2> QED  BY <2>1, <2>2
<1>6. Position(x, y) = c  BY <1>4, <1>5, PositionIs
<1>7. PICK t : t = arch_print(s, text)  OBVIOUS
<1>8. t = setCursorPos(e, x, y)  BY <1>2, <1>4, <1>5, <1>7 DEF arch_print
<1>9. e \in Displays /\ e.reach <= Reach  BY <1>3 DEF After, Near
<1>10. t \in Displays /\ t.cursor = c /\ t.reach = e.reach /\ Right(t)
  BY <1>6, <1>8, <1>9, SetCursorIs, LikeIs
<1>11. t \in Near  BY <1>4, <1>9, <1>10 DEF Near
<1>12. ASSUME s.cursor < Size \/ text # <<>>  PROVE c < Size
  <2>1. n > 0 \/ s.cursor < Size  BY <1>1, <1>12
  <2> QED  BY <1>3, <1>4, <2>1 DEF After
<1>13. ASSUME text = <<"\n">>  PROVE c >= width
  <2>1. n = 1 /\ text[1] = "\n"  BY <1>1, <1>13
  <2> QED  BY <1>3, <1>4, <2>1 DEF After
<1> QED  BY <1>7, <1>10, <1>11, <1>12, <1>13

(* The texts that are printed. *)
Plain == STRING \ {"VT"}

LEMMA MoreChars ==
    ASSUME NEW s \in Seq(Plain)
    PROVE  s \in Seq(Typable)
<1>1. Plain \subseteq Typable  BY DEF Plain, Typable, Chars
<1>2. \A i \in 1 .. Len(s) : s[i] \in Typable  BY <1>1
<1> QED  BY <1>2

LEMMA TextsIs ==
    /\ Stamp \in Seq(Typable) /\ <<"\n">> \in Seq(Typable)
    /\ \A m \in Messages \cup {TickMessage} : Formatted(m.str, m.args).text \in Seq(Typable)
<1>1. "\n" \in Typable  BY DEF Typable, Chars
<1>2. Stamp \in Seq(Typable)
  <2>1. Stamp \in Seq(Plain)  BY MessagesAssumption DEF Plain
  <2> QED  BY <2>1, MoreChars
<1>3. ASSUME NEW m \in Messages \cup {TickMessage}
      PROVE  Formatted(m.str, m.args).text \in Seq(Typable)
  <2>1. Formatted(m.str, m.args).text \in Seq(Plain)  BY MessagesAssumption DEF Plain
  <2> QED  BY <2>1, MoreChars
<1> QED  BY <1>1, <1>2, <1>3

(* The handler's message ends its line: the cursor is below the first row. *)
LEMMA LineIs ==
    ASSUME NEW s \in Near, NEW a \in Seq(Typable), NEW b \in Seq(Typable)
    PROVE  LET t == arch_print(arch_print(arch_print(s, a), b), <<"\n">>)
           IN  t \in Near /\ Right(t) /\ t.cursor < Size /\ t.cursor >= width
<1>1. PICK u : u = arch_print(s, a)  OBVIOUS
<1>2. u \in Near  BY <1>1, PrintIs
<1>3. PICK v : v = arch_print(u, b)  OBVIOUS
<1>4. v \in Near  BY <1>2, <1>3, PrintIs
<1>5. PICK nl : nl = <<"\n">>  OBVIOUS
<1>6. nl \in Seq(Typable) /\ nl # <<>>  BY <1>5, TextsIs
<1>7. PICK t : t = arch_print(v, nl)  OBVIOUS
<1>8. t \in Near /\ Right(t) /\ t.cursor < Size /\ t.cursor >= width
  BY <1>4, <1>5, <1>6, <1>7, PrintIs
<1> QED  BY <1>1, <1>3, <1>5, <1>7, <1>8

-----------------------------------------------------------------------------
(***************************************************************************)
(* What is true of the main line and the screen wherever ticks come        *)
(* between the steps of printk (arch/X86_64/printk.c:58-127): where        *)
(* cursor_pos may be at each step, and in the middle of setCursorPos which *)
(* registers of the display are right already.                             *)
(***************************************************************************)
Line ==
    [pc : {"start", "halted", "idle", "load", "move", "put", "check", "copy", "first",
           "second", "out", "push", "resize", "replace"},
     call : Messages \cup {TickMessage},
     lstr : {newString} \cup {Formatted(m.str, m.args) : m \in Messages},
     rest : Seq(Seq(Typable)), pos : Nat, n : Nat,
     for : {"none", "sync", "char", "scroll"}]

(* Where the cursor may be when setCursorPos is called. *)
Aimed(for, c) == IF for = "sync" THEN c < Size ELSE width <= c /\ c < Reach

(* Before the nth write: a tick makes both registers right, and index high. *)
Half(n, s) ==
    /\ n = 2 => s.index = "low" \/ LowRight(s)
    /\ n \in {3, 4} => LowRight(s)
    /\ n = 4 => s.index = "high"

AtStep(m, s) ==
    /\ m \in Line /\ s \in Near
    /\ m.pc \in {"idle", "push", "resize", "replace"} =>
          s.cursor < Size /\ LowRight(s) /\ HighRight(s)
    /\ m.pc \in {"load", "move"} => s.cursor < Size
    /\ m.pc \in {"move", "put"} => m.pos < Size
    /\ m.pc \in {"load", "move", "put", "check", "copy"} => m.rest # <<>> /\ Head(m.rest) # <<>>
    /\ m.pc \in {"first", "second", "out"} =>
          m.rest # <<>> /\ (m.for # "sync" => Head(m.rest) # <<>>)
    /\ m.pc = "copy" => m.n <= height - 1 /\ s.cursor >= width
    /\ m.pc \in {"first", "second"} => m.for \in {"sync", "scroll"} /\ Aimed(m.for, s.cursor)
    /\ m.pc = "second" => Aimed(m.for, m.pos)
    /\ m.pc = "out" => m.n \in 1 .. 4 /\ (m.for = "sync" => s.cursor < Size /\ Half(m.n, s))

ScreenInv == AtStep(main, screen)

-----------------------------------------------------------------------------
LEMMA RestIs ==
    ASSUME NEW S, NEW r \in Seq(Seq(S)), r # <<>>
    PROVE  /\ Head(r) \in Seq(S) /\ Tail(r) \in Seq(Seq(S))
           /\ Head(r) # <<>> =>
                 /\ Head(Head(r)) \in S
                 /\ LET t == <<Tail(Head(r))>> \o Tail(r) IN t \in Seq(Seq(S)) /\ t # <<>>
<1>1. Head(r) \in Seq(S) /\ Tail(r) \in Seq(Seq(S))  OBVIOUS
<1>2. PICK h \in Seq(S), l \in Seq(Seq(S)) : h = Head(r) /\ l = Tail(r)  BY <1>1
<1>3. ASSUME h # <<>>
      PROVE  Head(h) \in S /\ <<Tail(h)>> \o l \in Seq(Seq(S)) /\ <<Tail(h)>> \o l # <<>>
  <2>1. Head(h) \in S /\ Tail(h) \in Seq(S)  BY <1>3
  <2>2. PICK u \in Seq(Seq(S)) : u = <<Tail(h)>> /\ Len(u) = 1
    <3>1. PICK Q : Q = Seq(S)  OBVIOUS
    <3>2. PICK v \in Q : v = Tail(h)  BY <2>1, <3>1
    <3>3. <<v>> \in Seq(Q) /\ Len(<<v>>) = 1  OBVIOUS
    <3> QED  BY <3>1, <3>2, <3>3
  <2>3. u \o l \in Seq(Seq(S)) /\ Len(u \o l) = 1 + Len(l) /\ Len(l) \in Nat  BY <2>2
  <2>4. u \o l # <<>>  BY <2>3
  <2> QED  BY <2>1, <2>2, <2>3, <2>4
<1> QED  BY <1>1, <1>2, <1>3

(* The loop over a text goes on, or ends with setCursorPos. *)
LEMMA LoopIs ==
    ASSUME NEW m \in Line, NEW s \in Near, s.cursor < Size,
           m.rest # <<>>, m.for = "sync", m.pc = Loop(m.rest)
    PROVE  AtStep(m, s)
<1>1. CASE Head(m.rest) = <<>>  BY <1>1 DEF AtStep, Aimed, Loop
<1>2. CASE Head(m.rest) # <<>>  BY <1>2 DEF AtStep, Loop
<1> QED  BY <1>1, <1>2

LEMMA ScreenInit == Init => ScreenInv
<1> SUFFICES ASSUME Init  PROVE ScreenInv
  OBVIOUS
<1>1. main.pc = "start" /\ main \in Line  BY DEF Init, Line
<1>2. screen \in Near
  <2> DEFINE cells == [i \in 0 .. MAPPED - 1 |-> "?"]
  <2>1. cells \in [0 .. MAPPED - 1 -> Chars]  BY DEF Chars
  <2>2. screen = [cells |-> cells, cursor |-> 0, index |-> "low", low |-> 0, high |-> 0,
                  reach |-> 0]
    BY DEF Init
  <2> HIDE DEF cells
  <2> QED  BY <2>1, <2>2, ScreenIs DEF Near, Displays, Reach
<1> QED  BY <1>1, <1>2 DEF ScreenInv, AtStep

LEMMA PrintkInitKeeps == ScreenInv /\ printk_init => ScreenInv'
<1> SUFFICES ASSUME ScreenInv, printk_init  PROVE ScreenInv'
  OBVIOUS
<1>1. main \in Line /\ screen \in Near  BY DEF ScreenInv, AtStep
<1>2. CASE screen' = screen /\ main' = [main EXCEPT !.pc = "halted"]
  <2>1. main' \in Line /\ main'.pc = "halted"  BY <1>1, <1>2 DEF Line
  <2> QED  BY <1>1, <1>2, <2>1 DEF ScreenInv, AtStep
<1>3. CASE screen' = clear_screen(screen) /\ main' = [main EXCEPT !.pc = "idle"]
  <2>1. main' \in Line /\ main'.pc = "idle"  BY <1>1, <1>3 DEF Line
  <2> DEFINE cells == [c \in 0 .. MAPPED - 1 |-> IF c < Size THEN Blank ELSE screen.cells[c]]
  <2>2. screen \in Displays /\ screen.cells \in [0 .. MAPPED - 1 -> Chars] /\ Blank \in Chars
    BY <1>1 DEF Near, Displays, Chars
  <2>3. cells \in [0 .. MAPPED - 1 -> Chars]  BY <2>2
  <2>4. PICK t : t = [screen EXCEPT !.cells = cells]  OBVIOUS
  <2>5. screen' = setCursorPos(t, 0, 0)
    BY <1>3, <2>2, <2>4 DEF clear_screen
  <2> HIDE DEF cells
  <2>6. t \in Displays /\ t.reach = screen.reach  BY <2>2, <2>3, <2>4 DEF Displays
  <2>7. Position(0, 0) = 0
    <3>1. 0 * width + 0 = 0 /\ 0 \in 0 .. WORD16 - 1 /\ 0 \in Int  BY ScreenIs
    <3> QED  BY <3>1, PositionIs
  <2>8. screen' \in Displays /\ screen'.cursor = 0 /\ screen'.reach = screen.reach
        /\ Right(screen')
    <3>1. setCursorPos(t, 0, 0) \in Like(Position(0, 0), t.reach) /\ Right(setCursorPos(t, 0, 0))
      BY <2>6, SetCursorIs
    <3> QED  BY <2>5, <2>6, <2>7, <3>1, LikeIs
  <2>9. screen' \in Near /\ screen'.cursor < Size
    BY <1>1, <2>8, ScreenIs DEF Near, Reach
  <2> QED  BY <2>1, <2>8, <2>9 DEF ScreenInv, AtStep, Right
<1> QED  BY <1>2, <1>3 DEF printk_init, At

LEMMA CallKeeps ==
    ASSUME ScreenInv, NEW m \in Messages, printk(m)
    PROVE  ScreenInv'
<1>1. main \in Line /\ screen \in Near /\ main.pc = "idle" /\ screen' = screen
      /\ screen.cursor < Size /\ LowRight(screen) /\ HighRight(screen)
  BY DEF ScreenInv, AtStep, printk
<1>2. PICK l : l = Formatted(m.str, m.args)  OBVIOUS
<1>3. l.text \in Seq(Typable) /\ l \in {Formatted(k.str, k.args) : k \in Messages}
  BY <1>2, TextsIs
<1>4. PICK r : r = <<Stamp, l.text, <<"\n">>>>  OBVIOUS
<1>5. r \in Seq(Seq(Typable)) /\ r # <<>>
  <2>1. PICK a \in Seq(Typable), b \in Seq(Typable), c \in Seq(Typable) :
           a = Stamp /\ b = l.text /\ c = <<"\n">>
    BY <1>3, TextsIs
  <2>2. <<a, b, c>> \in Seq(Seq(Typable)) /\ <<a, b, c>> # <<>>  OBVIOUS
  <2> QED  BY <1>4, <2>1, <2>2
<1>6. CASE m.level <= LOGLEVEL
  <2>1. main' = [main EXCEPT !.call = m, !.lstr = l, !.for = "sync", !.rest = r, !.pc = Loop(r)]
    BY <1>2, <1>4, <1>6 DEF printk
  <2>2. Loop(r) \in {"first", "load"}  BY DEF Loop
  <2>3. main' \in Line /\ main'.rest = r /\ main'.for = "sync" /\ main'.pc = Loop(r)
    BY <1>1, <1>3, <1>5, <2>1, <2>2 DEF Line
  <2> QED  BY <1>1, <1>5, <2>3, LoopIs DEF ScreenInv
<1>7. CASE ~ (m.level <= LOGLEVEL)
  <2>1. main' = [main EXCEPT !.call = m, !.lstr = l, !.for = "sync", !.rest = <<>>, !.pc = "push"]
    BY <1>2, <1>7 DEF printk
  <2>2. <<>> \in Seq(Seq(Typable))  OBVIOUS
  <2>3. main' \in Line /\ main'.pc = "push"
    BY <1>1, <1>3, <2>1, <2>2 DEF Line
  <2> QED  BY <1>1, <2>3 DEF ScreenInv, AtStep
<1> QED  BY <1>6, <1>7

LEMMA LoadKeeps == ScreenInv /\ LoadCursor => ScreenInv'
<1> SUFFICES ASSUME ScreenInv, LoadCursor  PROVE ScreenInv'
  OBVIOUS
<1>1. /\ main \in Line /\ screen \in Near /\ main.pc = "load" /\ screen' = screen
      /\ main' = [main EXCEPT !.pos = screen.cursor, !.pc = "move"]
      /\ screen.cursor < Size /\ main.rest # <<>> /\ Head(main.rest) # <<>>
  BY DEF ScreenInv, AtStep, LoadCursor
<1>2. screen.cursor \in Nat  BY <1>1 DEF Near, Displays
<1>3. main' \in Line /\ main'.pc = "move" /\ main'.pos = screen.cursor /\ main'.rest = main.rest
  BY <1>1, <1>2 DEF Line
<1> QED  BY <1>1, <1>3 DEF ScreenInv, AtStep

LEMMA MoveKeeps == ScreenInv /\ MoveCursor => ScreenInv'
<1> SUFFICES ASSUME ScreenInv, MoveCursor  PROVE ScreenInv'
  OBVIOUS
<1>1. /\ main \in Line /\ screen \in Near /\ main.pc = "move"
      /\ main.pos < Size /\ main.rest # <<>> /\ Head(main.rest) # <<>>
  BY DEF ScreenInv, AtStep, MoveCursor
<1>2. PICK c \in Typable : c = Char
  <2>1. main.rest \in Seq(Seq(Typable))  BY <1>1 DEF Line
  <2>2. Head(Head(main.rest)) \in Typable  BY <1>1, <2>1, RestIs
  <2> QED  BY <2>2 DEF Char
<1>3. PICK p \in Nat : p = main.pos /\ p < Size  BY <1>1 DEF Line
<1>4. PICK d \in 0 .. Reach - 1 : d = Target(c, p)
  BY <1>2, <1>3, TargetIs DEF Typable
<1>5. screen' \in Near
  <2>1. screen' = Moved(screen, d)  BY <1>2, <1>3, <1>4 DEF MoveCursor
  <2>2. d % WORD16 = d /\ d \in Int  BY <1>4, ScreenIs DEF Reach
  <2>3. screen \in Displays /\ screen.reach <= Reach  BY <1>1 DEF Near
  <2>4. Moved(screen, d) \in Like(d % WORD16, screen.reach)  BY <2>2, <2>3, MovedIs
  <2>5. screen' \in Displays /\ screen'.cursor = d /\ screen'.reach = screen.reach
    BY <2>1, <2>2, <2>4, LikeIs
  <2> QED  BY <1>4, <2>3, <2>5, ScreenIs DEF Near, Reach
<1>6. PICK pc : pc = IF SetsCursor(Char) THEN "out" ELSE IF Printable(Char) THEN "put" ELSE "check"
  OBVIOUS
<1>7. PICK for : for = IF SetsCursor(Char) THEN "char" ELSE main.for  OBVIOUS
<1>8. main' = [main EXCEPT !.pc = pc, !.n = 1, !.for = for]
  BY <1>6, <1>7 DEF MoveCursor
<1>9. pc \in {"out", "put", "check"} /\ (pc = "out" => for = "char")
      /\ for \in {"none", "sync", "char", "scroll"}
  BY <1>1, <1>6, <1>7 DEF Line
<1>10. main' \in Line /\ main'.pc = pc /\ main'.for = for /\ main'.n = 1
       /\ main'.rest = main.rest /\ main'.pos = main.pos
  BY <1>1, <1>8, <1>9 DEF Line
<1> QED  BY <1>1, <1>5, <1>9, <1>10 DEF ScreenInv, AtStep

LEMMA PutKeeps == ScreenInv /\ PutChar => ScreenInv'
<1> SUFFICES ASSUME ScreenInv, PutChar  PROVE ScreenInv'
  OBVIOUS
<1>1. /\ main \in Line /\ screen \in Near /\ main.pc = "put"
      /\ screen' = Put(screen, main.pos, Char) /\ main' = [main EXCEPT !.pc = "check"]
      /\ main.pos < Size /\ main.rest # <<>> /\ Head(main.rest) # <<>>
  BY DEF ScreenInv, AtStep, PutChar, At
<1>2. Char \in Chars
  <2>1. main.rest \in Seq(Seq(Typable))  BY <1>1 DEF Line
  <2>2. Head(Head(main.rest)) \in Typable  BY <1>1, <2>1, RestIs
  <2> QED  BY <2>2 DEF Char, Typable
<1>3. PICK p \in Nat : p = main.pos /\ p < Reach
  <2>1. main.pos \in Nat  BY <1>1 DEF Line
  <2>2. Size \in Nat /\ TAB_SIZE \in Nat /\ main.pos < Size  BY <1>1, ScreenIs
  <2> QED  BY <2>1, <2>2 DEF Reach
<1>4. screen' \in Near
  BY <1>1, <1>2, <1>3, PutIs DEF Near
<1>5. main' \in Line /\ main'.pc = "check" /\ main'.rest = main.rest
  BY <1>1 DEF Line
<1> QED  BY <1>1, <1>4, <1>5 DEF ScreenInv, AtStep

LEMMA CheckKeeps == ScreenInv /\ CheckCursor => ScreenInv'
<1> SUFFICES ASSUME ScreenInv, CheckCursor  PROVE ScreenInv'
  OBVIOUS
<1>1. /\ main \in Line /\ screen \in Near /\ main.pc = "check" /\ screen' = screen
      /\ main.rest # <<>> /\ Head(main.rest) # <<>>
  BY DEF ScreenInv, AtStep, CheckCursor
<1>2. PICK c \in Nat : c = screen.cursor  BY <1>1 DEF Near, Displays
<1>3. CASE Behind(screen.cursor)
  <2>1. main' = [main EXCEPT !.pc = "copy", !.n = 0]  BY <1>3 DEF CheckCursor
  <2>2. main' \in Line /\ main'.pc = "copy" /\ main'.n = 0 /\ main'.rest = main.rest
    BY <1>1, <2>1 DEF Line
  <2>3. c >= width  BY <1>2, <1>3, ScreenIs DEF Behind
  <2> QED  BY <1>1, <1>2, <2>2, <2>3, ScreenIs DEF ScreenInv, AtStep
<1>4. CASE ~ Behind(screen.cursor)
  <2>1. PICK r : r = <<Tail(Head(main.rest))>> \o Tail(main.rest)  OBVIOUS
  <2>2. main.rest \in Seq(Seq(Typable))  BY <1>1 DEF Line
  <2>3. r \in Seq(Seq(Typable)) /\ r # <<>>  BY <1>1, <2>1, <2>2, RestIs
  <2>4. main' = [main EXCEPT !.rest = r, !.pc = Loop(r), !.for = "sync"]
    BY <1>4, <2>1 DEF CheckCursor
  <2>5. Loop(r) \in {"first", "load"}  BY DEF Loop
  <2>6. main' \in Line /\ main'.rest = r /\ main'.pc = Loop(r) /\ main'.for = "sync"
    BY <1>1, <2>3, <2>4, <2>5 DEF Line
  <2>7. screen.cursor < Size  BY <1>2, <1>4, ScreenIs DEF Behind
  <2> QED  BY <1>1, <2>3, <2>6, <2>7, LoopIs DEF ScreenInv
<1> QED  BY <1>3, <1>4

LEMMA ScrollRowKeeps == ScreenInv /\ ScrollRow => ScreenInv'
<1> SUFFICES ASSUME ScreenInv, ScrollRow  PROVE ScreenInv'
  OBVIOUS
<1>1. /\ main \in Line /\ screen \in Near /\ main.pc = "copy"
      /\ main.rest # <<>> /\ Head(main.rest) # <<>>
      /\ main.n <= height - 1 /\ screen.cursor >= width
  BY DEF ScreenInv, AtStep, ScrollRow
<1>2. PICK n \in Nat : n = main.n  BY <1>1 DEF Line
<1>3. screen \in Displays /\ screen.reach <= Reach /\ screen.cursor < Reach  BY <1>1 DEF Near
<1>4. CASE n < height - 1
  <2>0. PICK k \in Nat : k = n + 1  OBVIOUS
  <2>1. screen' = CopyRow(screen, n) /\ main' = [main EXCEPT !.n = k]
    BY <1>2, <1>4, <2>0 DEF ScrollRow
  <2>2. n \in 0 .. height - 2  BY <1>4, ScreenIs
  <2>3. CopyRow(screen, n) \in Like(screen.cursor, screen.reach)  BY <1>3, <2>2, CopyRowIs
  <2>4. screen' \in Near /\ screen'.cursor = screen.cursor
    BY <1>3, <2>1, <2>3, LikeIs DEF Near
  <2>5. main' \in Line /\ main'.pc = "copy" /\ main'.n = k /\ main'.rest = main.rest
    BY <1>1, <2>1 DEF Line
  <2>6. k <= height - 1  BY <1>4, <2>0, ScreenIs
  <2> QED  BY <1>1, <2>4, <2>5, <2>6 DEF ScreenInv, AtStep
<1>5. CASE ~ (n < height - 1)
  <2>1. screen' = BlankRow(screen) /\ main' = [main EXCEPT !.pc = "first", !.for = "scroll"]
    BY <1>2, <1>5 DEF ScrollRow
  <2>2. BlankRow(screen) \in Like(screen.cursor, screen.reach)  BY <1>3, BlankRowIs
  <2>3. screen' \in Near /\ screen'.cursor = screen.cursor
    BY <1>3, <2>1, <2>2, LikeIs DEF Near
  <2>4. main' \in Line /\ main'.pc = "first" /\ main'.for = "scroll" /\ main'.rest = main.rest
    BY <1>1, <2>1 DEF Line
  <2> QED  BY <1>1, <1>3, <2>3, <2>4 DEF ScreenInv, AtStep, Aimed
<1> QED  BY <1>4, <1>5

LEMMA FirstReadKeeps == ScreenInv /\ FirstRead => ScreenInv'
<1> SUFFICES ASSUME ScreenInv, FirstRead  PROVE ScreenInv'
  OBVIOUS
<1>1. /\ main \in Line /\ screen \in Near /\ main.pc = "first" /\ screen' = screen
      /\ main' = [main EXCEPT !.pos = screen.cursor, !.pc = "second"]
      /\ main.rest # <<>> /\ (main.for # "sync" => Head(main.rest) # <<>>)
      /\ main.for \in {"sync", "scroll"} /\ Aimed(main.for, screen.cursor)
  BY DEF ScreenInv, AtStep, FirstRead
<1>2. screen.cursor \in Nat  BY <1>1 DEF Near, Displays
<1>3. main' \in Line /\ main'.pc = "second" /\ main'.pos = screen.cursor
      /\ main'.rest = main.rest /\ main'.for = main.for
  BY <1>1, <1>2 DEF Line
<1> QED  BY <1>1, <1>3 DEF ScreenInv, AtStep

(* The row of one position and the column of another one. *)
LEMMA MixedIs ==
    ASSUME NEW a \in Nat, NEW b \in Nat, NEW up \in {0, 1}, NEW for \in {"sync", "scroll"},
           Aimed(for, a), Aimed(for, b), up = RowsUp(for)
    PROVE  LET p == Position(getCursorPosX(a), getCursorPosY(b) - up)
           IN  p \in 0 .. Reach - 1 /\ (for = "sync" => p < Size)
<1>1. PICK x \in Int, y \in Int : x = getCursorPosX(a) /\ y = getCursorPosY(b)
  BY Place, ScreenIs
<1>2. x >= 0 /\ x < width /\ x \in Int  BY <1>1, Place, ScreenIs
<1>3. PICK z \in Int, q \in Int : z = getCursorPosX(b) /\ z >= 0 /\ q = y * width /\ b = q + z
      /\ (b < Size => y < height) /\ (b >= width => y >= 1) /\ y >= 0
  <2>1. PICK z, q : z = getCursorPosX(b) /\ q = y * width  OBVIOUS
  <2>2. /\ z \in 0 .. width - 1 /\ y \in Nat /\ b = q + z /\ q \in Nat
        /\ (b < Size => y < height) /\ (b >= width => y >= 1)
    BY <1>1, <2>1, Place
  <2> QED  BY <2>1, <2>2
<1>4. CASE for = "sync"
  <2>1. up = 0 /\ b < Size  BY <1>4 DEF Aimed, RowsUp
  <2>2. q + width <= Size
    <3>1. y + 1 <= height /\ height \in Int  BY <1>3, <2>1, ScreenIs
    <3>2. (y + 1) * width <= height * width  BY <3>1, Rows
    <3>3. (y + 1) * width = q + width  BY <1>3, <3>1, Rows
    <3> QED  BY <3>2, <3>3, ScreenIs
  <2>3. q >= 0
    <3>1. 0 * width <= y * width /\ 0 * width = 0  BY <1>3, Rows, ScreenIs
    <3> QED  BY <1>3, <3>1
  <2>4. PICK p \in 0 .. WORD16 - 1 : p = q + x /\ p < Size
    BY <1>2, <1>3, <2>2, <2>3, ScreenIs
  <2>5. Position(x, y - up) = p
    <3>1. y - up = y  BY <2>1
    <3>2. y * width + x = p  BY <1>3, <2>4
    <3> QED  BY <2>4, <3>1, <3>2, PositionIs
  <2> QED  BY <1>1, <2>4, <2>5, ScreenIs DEF Reach
<1>5. CASE for = "scroll"
  <2>1. up = 1 /\ width <= b /\ b < Reach  BY <1>5 DEF Aimed, RowsUp
  <2>2. (y - 1) * width = q - width /\ q - width >= 0
    <3>1. (y - 1) * width = q - width  BY <1>3, Rows
    <3>2. 0 <= y - 1 /\ y - 1 \in Int  BY <1>3, <2>1, ScreenIs
    <3>3. 0 * width <= (y - 1) * width /\ 0 * width = 0  BY <3>2, Rows, ScreenIs
    <3> QED  BY <3>1, <3>3
  <2>3. PICK p \in 0 .. WORD16 - 1 : p = q - width + x /\ p < Reach
    BY <1>2, <1>3, <2>1, <2>2, ScreenIs DEF Reach
  <2>4. Position(x, y - up) = p
    <3>1. y - up = y - 1 /\ y - 1 \in Int  BY <2>1
    <3>2. (y - 1) * width + x = p  BY <2>2, <2>3
    <3> QED  BY <2>3, <3>1, <3>2, PositionIs
  <2>5. p \in 0 .. Reach - 1  BY <2>3, ScreenIs DEF Reach
  <2> QED  BY <1>1, <1>5, <2>4, <2>5
<1> QED  BY <1>4, <1>5

LEMMA SecondReadKeeps == ScreenInv /\ SecondRead => ScreenInv'
<1> SUFFICES ASSUME ScreenInv, SecondRead  PROVE ScreenInv'
  OBVIOUS
<1>1. /\ main \in Line /\ screen \in Near /\ main.pc = "second"
      /\ main' = [main EXCEPT !.pc = "out", !.n = 1]
      /\ main.rest # <<>> /\ (main.for # "sync" => Head(main.rest) # <<>>)
      /\ main.for \in {"sync", "scroll"}
      /\ Aimed(main.for, screen.cursor) /\ Aimed(main.for, main.pos)
  BY DEF ScreenInv, AtStep, SecondRead
<1>2. PICK a \in {main.pos, screen.cursor}, b \in {main.pos, screen.cursor} :
          screen' = Moved(screen, Position(getCursorPosX(a), getCursorPosY(b) - RowsUp(main.for)))
  BY DEF SecondRead
<1>3. screen.cursor \in Nat /\ main.pos \in Nat  BY <1>1 DEF Near, Displays, Line
<1>4. PICK up \in {0, 1} : up = RowsUp(main.for)  BY DEF RowsUp
<1>5. PICK p : p = Position(getCursorPosX(a), getCursorPosY(b) - up)  OBVIOUS
<1>6. p \in 0 .. Reach - 1 /\ (main.for = "sync" => p < Size)
  <2>1. a \in Nat /\ b \in Nat /\ Aimed(main.for, a) /\ Aimed(main.for, b)
    BY <1>1, <1>2, <1>3
  <2> QED  BY <1>1, <1>4, <1>5, <2>1, MixedIs
<1>7. p % WORD16 = p /\ p \in Int  BY <1>6, ScreenIs DEF Reach
<1>8. screen \in Displays /\ screen.reach <= Reach  BY <1>1 DEF Near
<1>9. screen' \in Displays /\ screen'.cursor = p /\ screen'.reach = screen.reach
  <2>1. screen' = Moved(screen, p)  BY <1>2, <1>4, <1>5
  <2>2. Moved(screen, p) \in Like(p % WORD16, screen.reach)  BY <1>7, <1>8, MovedIs
  <2> QED  BY <1>7, <2>1, <2>2, LikeIs
<1>10. screen' \in Near
  BY <1>6, <1>8, <1>9, ScreenIs DEF Near, Reach
<1>11. main' \in Line /\ main'.pc = "out" /\ main'.n = 1 /\ main'.rest = main.rest
       /\ main'.for = main.for
  BY <1>1 DEF Line
<1> QED  BY <1>1, <1>6, <1>9, <1>10, <1>11 DEF ScreenInv, AtStep, Half

LEMMA OutKeeps == ScreenInv /\ OutCursor => ScreenInv'
<1> SUFFICES ASSUME ScreenInv, OutCursor  PROVE ScreenInv'
  OBVIOUS
<1>1. /\ main \in Line /\ screen \in Near /\ main.pc = "out"
      /\ main.rest # <<>> /\ (main.for # "sync" => Head(main.rest) # <<>>)
      /\ main.n \in 1 .. 4
      /\ main.for = "sync" => screen.cursor < Size /\ Half(main.n, screen)
      /\ screen' = Out(screen, main.n)
  BY DEF ScreenInv, AtStep, OutCursor
<1>2. PICK n \in 1 .. 4 : n = main.n  BY <1>1
<1>3. screen \in Displays /\ screen.index \in {"low", "high"}  BY <1>1 DEF Near, Displays
<1>4. PICK t : t = Out(screen, n)  OBVIOUS
<1>5. t \in Like(screen.cursor, screen.reach)  BY <1>3, <1>4, OutIs
<1>6. t \in Near /\ t.cursor = screen.cursor
  BY <1>1, <1>5, LikeIs DEF Near
<1>7. ASSUME Half(n, screen), n < 4  PROVE Half(n + 1, t)
  <2>1. CASE n = 1
    <3>1. t.index = "low"  BY <1>3, <1>4, <2>1, OutIs
    <3>2. n + 1 = 2  BY <2>1
    <3> QED  BY <3>1, <3>2 DEF Half
  <2>2. CASE n = 2
    <3>1. n + 1 = 3  BY <2>2
    <3>2. screen.index = "low" => LowRight(t)  BY <1>3, <1>4, <2>2, OutIs
    <3>3. screen.index = "high" => t.low = screen.low  BY <1>3, <1>4, <2>2, OutIs
    <3>4. screen.index = "low" \/ LowRight(screen)  BY <1>7, <2>2 DEF Half
    <3>5. LowRight(t)  BY <1>3, <1>6, <3>2, <3>3, <3>4 DEF LowRight
    <3> QED  BY <3>1, <3>5 DEF Half
  <2>3. CASE n = 3
    <3>1. n + 1 = 4  BY <2>3
    <3>2. t.index = "high" /\ t.low = screen.low  BY <1>3, <1>4, <2>3, OutIs
    <3>3. LowRight(screen)  BY <1>7, <2>3 DEF Half
    <3>4. LowRight(t)  BY <1>6, <3>2, <3>3 DEF LowRight
    <3> QED  BY <3>1, <3>2, <3>4 DEF Half
  <2> QED  BY <1>7, <2>1, <2>2, <2>3
<1>8. ASSUME Half(n, screen), n = 4  PROVE LowRight(t) /\ HighRight(t)
  <2>1. screen.index = "high" /\ LowRight(screen)  BY <1>8 DEF Half
  <2>2. HighRight(t) /\ t.low = screen.low  BY <1>3, <1>4, <1>8, <2>1, OutIs
  <2> QED  BY <1>6, <2>1, <2>2 DEF LowRight
<1>9. CASE n < 4
  <2>1. PICK k \in Nat : k = n + 1 /\ k \in 1 .. 4  BY <1>9
  <2>2. main' = [main EXCEPT !.n = k]  BY <1>2, <1>9, <2>1 DEF OutCursor
  <2>3. main' \in Line /\ main'.pc = "out" /\ main'.n = k /\ main'.rest = main.rest
        /\ main'.for = main.for
    BY <1>1, <2>2 DEF Line
  <2>4. main.for = "sync" => t.cursor < Size /\ Half(k, t)
    BY <1>1, <1>2, <1>6, <1>7, <1>9, <2>1
  <2> QED  BY <1>1, <1>2, <1>4, <1>6, <2>1, <2>3, <2>4 DEF ScreenInv, AtStep
<1>10. CASE n = 4 /\ main.for # "sync"
  <2>1. main' = [main EXCEPT !.pc = "check"]  BY <1>2, <1>10 DEF OutCursor, At
  <2>2. main' \in Line /\ main'.pc = "check" /\ main'.rest = main.rest
    BY <1>1, <2>1 DEF Line
  <2> QED  BY <1>1, <1>2, <1>4, <1>6, <1>10, <2>2 DEF ScreenInv, AtStep
<1>11. CASE n = 4 /\ main.for = "sync"
  <2>1. PICK r : r = Tail(main.rest)  OBVIOUS
  <2>2. PICK pc : pc = IF r = <<>> THEN "push" ELSE Loop(r)  OBVIOUS
  <2>3. main' = [main EXCEPT !.rest = r, !.pc = pc]
    BY <1>2, <1>11, <2>1, <2>2 DEF OutCursor
  <2>4. main.rest \in Seq(Seq(Typable))  BY <1>1 DEF Line
  <2>5. r \in Seq(Seq(Typable))  BY <1>1, <2>1, <2>4, RestIs
  <2>6. pc \in {"push", "first", "load"}  BY <2>2 DEF Loop
  <2>7. main' \in Line /\ main'.pc = pc /\ main'.rest = r /\ main'.for = "sync"
    BY <1>1, <1>11, <2>3, <2>5, <2>6 DEF Line
  <2>8. screen' = t /\ t.cursor < Size /\ LowRight(t) /\ HighRight(t)
    BY <1>1, <1>2, <1>4, <1>6, <1>8, <1>11
  <2>9. CASE r = <<>>
    <3>1. pc = "push"  BY <2>2, <2>9
    <3> QED  BY <1>6, <2>7, <2>8, <3>1 DEF ScreenInv, AtStep
  <2>10. CASE r # <<>>
    <3>1. pc = Loop(r)  BY <2>2, <2>10
    <3> QED  BY <1>6, <2>7, <2>8, <2>10, <3>1, LoopIs DEF ScreenInv
  <2> QED  BY <2>9, <2>10
<1> QED  BY <1>9, <1>10, <1>11

(* The steps that leave the screen alone. *)
LEMMA AloneKeeps ==
    ScreenInv /\ (interrupt_enable \/ PushEntry \/ ResizeLogs \/ ReplaceLogs) => ScreenInv'
<1> SUFFICES ASSUME ScreenInv, interrupt_enable \/ PushEntry \/ ResizeLogs \/ ReplaceLogs
             PROVE  ScreenInv'
  OBVIOUS
<1>1. main \in Line /\ screen \in Near /\ screen' = screen
  BY DEF ScreenInv, AtStep, interrupt_enable, PushEntry, ResizeLogs, ReplaceLogs
<1>2. CASE interrupt_enable
  <2>1. main' = main  BY <1>2 DEF interrupt_enable
  <2> QED  BY <1>1, <2>1 DEF ScreenInv
<1>3. ASSUME NEW pc \in {"idle", "resize", "replace"}, main' = [main EXCEPT !.pc = pc],
             main.pc \in {"push", "resize", "replace"}
      PROVE  ScreenInv'
  <2>1. main' \in Line /\ main'.pc = pc  BY <1>1, <1>3 DEF Line
  <2>2. screen.cursor < Size /\ LowRight(screen) /\ HighRight(screen)
    BY <1>3 DEF ScreenInv, AtStep
  <2> QED  BY <1>1, <1>3, <2>1, <2>2 DEF ScreenInv, AtStep
<1>4. CASE PushEntry  BY <1>3, <1>4 DEF PushEntry, At
<1>5. CASE ResizeLogs
  <2>1. PICK pc : pc = IF Capacity(logs) = logs.alloc_length THEN "idle" ELSE "replace"
    OBVIOUS
  <2>2. pc \in {"idle", "replace"} /\ main' = [main EXCEPT !.pc = pc] /\ main.pc = "resize"
    BY <1>5, <2>1 DEF ResizeLogs, At
  <2> QED  BY <1>3, <2>2
<1>6. CASE ReplaceLogs  BY <1>3, <1>6 DEF ReplaceLogs, At
<1> QED  BY <1>2, <1>4, <1>5, <1>6

(* Wherever a tick comes, the main line can go on. *)
LEMMA TickPrintKeeps == ScreenInv /\ Tick => ScreenInv'
<1> SUFFICES ASSUME ScreenInv, Tick  PROVE ScreenInv'
  OBVIOUS
<1>1. main \in Line /\ screen \in Near /\ main' = main
  BY DEF ScreenInv, AtStep, Tick
<1>2. PICK a \in Seq(Typable), b \in Seq(Typable) :
          a = Stamp /\ b = Formatted(TickMessage.str, TickMessage.args).text
  BY TextsIs
<1>3. PICK t : t = arch_print(arch_print(arch_print(screen, a), b), <<"\n">>)
  OBVIOUS
<1>4. screen' = t \/ screen' = screen
  BY <1>2, <1>3 DEF Tick
<1>5. t \in Near /\ Right(t) /\ t.cursor < Size /\ t.cursor >= width
  BY <1>1, <1>3, LineIs
<1>6. width <= t.cursor /\ t.cursor < Reach
  <2>1. t.cursor \in Int  BY <1>5, ScreenIs DEF Near, Displays
  <2> QED  BY <1>5, <2>1, ScreenIs DEF Near
<1>7. t.index = "high" /\ LowRight(t) /\ HighRight(t)  BY <1>5 DEF Right
<1>8. \A n : Half(n, t)  BY <1>7 DEF Half
<1>9. \A for : Aimed(for, t.cursor)  BY <1>5, <1>6 DEF Aimed
<1>10. AtStep(main, t)
  BY <1>1, <1>5, <1>7, <1>8, <1>9 DEF ScreenInv, AtStep
<1> QED  BY <1>1, <1>4, <1>10 DEF ScreenInv

LEMMA ScreenStep == ScreenInv /\ [Next]_vars => ScreenInv'
<1> SUFFICES ASSUME ScreenInv, [Next]_vars  PROVE ScreenInv'
  OBVIOUS
<1>1. CASE UNCHANGED vars  BY <1>1 DEF vars, ScreenInv
<1>2. CASE Next
  BY <1>2, PrintkInitKeeps, CallKeeps, LoadKeeps, MoveKeeps, PutKeeps, CheckKeeps,
     ScrollRowKeeps, FirstReadKeeps, SecondReadKeeps, OutKeeps, AloneKeeps, TickPrintKeeps
     DEF Next, Main
<1> QED  BY <1>1, <1>2

(***************************************************************************)
(* At each step of printk the cursor and the registers are as AtStep says, *)
(* wherever ticks print in the middle of it: for every size of the screen  *)
(* and whatever the texts are.                                             *)
(***************************************************************************)
THEOREM ScreenInvAlways == Spec => []ScreenInv
BY ScreenInit, ScreenStep, PTL DEF Spec

(***************************************************************************)
(* No cell is stored to that lies more than a tab behind the screen        *)
(* (arch/X86_64/printk.c:92, 119): within the pages mapped for it, by      *)
(* ScreenAssumption.                                                       *)
(***************************************************************************)
THEOREM StoresNearScreenAlways == Spec => []StoresNearScreen
<1>1. ScreenInv => StoresNearScreen
  BY DEF ScreenInv, AtStep, Near, Reach, StoresNearScreen
<1> QED  BY <1>1, ScreenInvAlways, PTL

(***************************************************************************)
(* Between calls the display shows the cursor where cursor_pos has it,     *)
(* although ticks divide the four writes of setCursorPos                   *)
(* (arch/X86_64/printk.c:58-66).                                           *)
(***************************************************************************)
THEOREM CursorShownAlways == Spec => []CursorShown
<1>1. ScreenInv => CursorShown
  <2> SUFFICES ASSUME ScreenInv, Resting  PROVE screen.cursor < Size
                 /\ screen.high * BYTE + screen.low = screen.cursor
    BY DEF CursorShown
  <2>1. screen.cursor < Size /\ LowRight(screen) /\ HighRight(screen) /\ screen \in Near
    BY DEF ScreenInv, AtStep, Resting
  <2>2. PICK c \in Nat : c = screen.cursor  BY <2>1 DEF Near, Displays
  <2>3. PICK b \in Nat \ {0} : b = BYTE  BY ScreenIs
  <2>4. screen.low = c % b /\ screen.high = c \div b  BY <2>1, <2>2, <2>3 DEF LowRight, HighRight
  <2>5. c = b * (c \div b) + (c % b) /\ c \div b \in Int /\ c % b \in Int  OBVIOUS
  <2>6. (c \div b) * b = b * (c \div b)  BY <2>5
  <2> QED  BY <2>1, <2>2, <2>3, <2>4, <2>5, <2>6
<1> QED  BY <1>1, ScreenInvAlways, PTL

-----------------------------------------------------------------------------
(***************************************************************************)
(* What the screen shows of the paper as long as no tick has come: cell i  *)
(* of the screen is position J + i of the paper, in the middle of scroll a *)
(* row more for the rows that are copied.  The paper has the character     *)
(* that is being typed from when cursor_pos is moved for it                *)
(* (arch/X86_64/printk.c:67-75, 87-124).                                   *)
(***************************************************************************)
Clean == (STRING \cup {"\n"}) \ {"VT", "BS", "\r", Blank}

Sheets ==
    {p \in [pos : Nat, ink : SUBSET (Nat \X (Chars \ {Blank}))] : \A q \in p.ink : q[1] < p.pos}

Typing(m) ==
    m.pc \in {"put", "check", "copy"} \/ (m.pc \in {"first", "second", "out"} /\ m.for # "sync")

Sheet(m, p) == IF Typing(m) THEN OnPaper(p, Head(Head(m.rest))) ELSE p

(* What a cell shows is what is on the paper at position q. *)
Cell(v, ink, q) ==
    /\ \A r \in ink : r[1] = q => r[2] = v
    /\ v # Blank => <<q, v>> \in ink

(* The rows that scroll has moved up: those in front of cell RowsUpTo(m). *)
Moving(m) == m.pc \in {"first", "second"} /\ m.for = "scroll"

Up(m, i) == IF (m.pc = "copy" /\ i < m.n * width) \/ Moving(m) THEN width ELSE 0

Positions(m, s, sheet, J) ==
    /\ sheet.pos = s.cursor + J
    /\ J = 0 \/ s.cursor >= Size - width
    /\ \A r \in sheet.ink : r[1] < J + Size
    /\ m.pc \in {"move", "second"} => m.pos = s.cursor
    /\ m.pc = "put" => m.pos + 1 = s.cursor /\ Printable(Head(Head(m.rest)))
    /\ m.pc = "copy" \/ Moving(m) => s.cursor >= Size

TailAt(m, s, p, J) ==
    /\ Positions(m, s, Sheet(m, p), J)
    /\ \A i \in 0 .. Size - 1 :
          Cell(s.cells[i], IF m.pc = "put" THEN p.ink ELSE Sheet(m, p).ink, i + J + Up(m, i))

TailInv ==
    /\ main.rest \in Seq(Seq(Clean))
    /\ main.pc = "start" => printed = Unused
    /\ ticks \in Nat
    /\ main.pc \notin {"start", "halted"} /\ ticks = 0 =>
          /\ printed \in Sheets
          /\ \E j \in Nat : TailAt(main, screen, printed, j * width)

-----------------------------------------------------------------------------
LEMMA RowNext ==
    ASSUME NEW b \in Int
    PROVE  b * width \in Int /\ (b + 1) * width = b * width + width
           /\ (b - 1) * width = b * width - width
<1>1. b <= b  OBVIOUS
<1> QED  BY <1>1, Rows

(* A position has one row and one column. *)
LEMMA OneRow ==
    ASSUME NEW a \in Nat, NEW y \in Nat, NEW x \in Int, 0 <= x, x < width, a = y * width + x
    PROVE  getCursorPosY(a) = y /\ getCursorPosX(a) = x
<1>1. PICK b \in Nat, z \in Int : /\ b = getCursorPosY(a) /\ z = getCursorPosX(a)
                                   /\ a = b * width + z /\ 0 <= z /\ z < width
  <2>1. PICK b, z : b = getCursorPosY(a) /\ z = getCursorPosX(a)  OBVIOUS
  <2>2. z \in 0 .. width - 1 /\ b \in Nat /\ a = b * width + z  BY <2>1, Place
  <2>3. z \in Int /\ 0 <= z /\ z < width  BY <2>2, ScreenIs
  <2> QED  BY <2>1, <2>2, <2>3
<1>2. PICK q \in Int, r \in Int : q = y * width /\ r = b * width /\ a = q + x /\ a = r + z
  <2>1. y * width \in Int /\ b * width \in Int  BY Rows
  <2> QED  BY <1>1, <2>1
<1>3. ASSUME y < b  PROVE FALSE
  <2>1. y + 1 <= b /\ y + 1 \in Int  BY <1>3
  <2>2. (y + 1) * width <= b * width  BY <2>1, Rows
  <2>3. (y + 1) * width = y * width + width  BY RowNext
  <2> QED  BY <1>1, <1>2, <2>2, <2>3, ScreenIs
<1>4. ASSUME b < y  PROVE FALSE
  <2>1. b + 1 <= y /\ b + 1 \in Int  BY <1>4
  <2>2. (b + 1) * width <= y * width  BY <2>1, Rows
  <2>3. (b + 1) * width = b * width + width  BY RowNext
  <2> QED  BY <1>1, <1>2, <2>2, <2>3, ScreenIs
<1>5. b = y  BY <1>3, <1>4
<1> QED  BY <1>1, <1>2, <1>5

LEMMA RowsDown ==
    ASSUME NEW c \in Nat, NEW j \in Nat
    PROVE  /\ c + j * width \in Nat
           /\ getCursorPosY(c + j * width) = getCursorPosY(c) + j
           /\ getCursorPosX(c + j * width) = getCursorPosX(c)
<1>1. PICK y \in Nat, x \in Int : y = getCursorPosY(c) /\ x = getCursorPosX(c)
                                   /\ 0 <= x /\ x < width /\ c = y * width + x
  <2>1. PICK x, y : x = getCursorPosX(c) /\ y = getCursorPosY(c)  OBVIOUS
  <2>2. x \in 0 .. width - 1 /\ y \in Nat /\ c = y * width + x  BY <2>1, Place
  <2>3. x \in Int /\ 0 <= x /\ x < width  BY <2>2, ScreenIs
  <2> QED  BY <2>1, <2>2, <2>3
<1>2. j * width \in Nat
  <2>1. 0 * width <= j * width /\ j * width \in Int /\ 0 * width = 0  BY Rows, ScreenIs
  <2> QED  BY <2>1
<1>3. (y + j) * width = y * width + j * width /\ y * width \in Int
  <2>1. PICK w \in Nat : w = width  BY ScreenIs
  <2>2. (y + j) * w = y * w + j * w /\ y * w \in Int  OBVIOUS
  <2> QED  BY <2>1, <2>2
<1>4. PICK a \in Nat : a = c + j * width  BY <1>2
<1>5. a = (y + j) * width + x /\ y + j \in Nat  BY <1>1, <1>2, <1>3, <1>4
<1> QED  BY <1>1, <1>4, <1>5, OneRow

LEMMA InRow ==
    ASSUME NEW i \in Nat, NEW n \in Nat
    PROVE  n * width \in Nat /\ (i \div width = n <=> n * width <= i /\ i < n * width + width)
<1>1. n * width \in Nat
  <2>1. 0 * width <= n * width /\ n * width \in Int /\ 0 * width = 0  BY Rows, ScreenIs
  <2> QED  BY <2>1
<1>2. ASSUME i \div width = n  PROVE n * width <= i /\ i < n * width + width
  <2>1. getCursorPosX(i) \in 0 .. width - 1 /\ i = n * width + getCursorPosX(i)
    BY <1>2, Place DEF getCursorPosY
  <2> QED  BY <1>1, <2>1, ScreenIs
<1>3. ASSUME n * width <= i, i < n * width + width  PROVE i \div width = n
  <2>1. PICK x \in Int : x = i - n * width /\ 0 <= x /\ x < width /\ i = n * width + x
    BY <1>1, <1>3, ScreenIs
  <2> QED  BY <2>1, OneRow DEF getCursorPosY
<1> QED  BY <1>1, <1>2, <1>3

(* What the row and the column of a position are a position of. *)
LEMMA Back ==
    ASSUME NEW c \in Nat, c < Reach
    PROVE  /\ Position(getCursorPosX(c), getCursorPosY(c)) = c
           /\ c >= width => Position(getCursorPosX(c), getCursorPosY(c) - 1) = c - width
           /\ Position(0, getCursorPosY(c) + 1) = c - getCursorPosX(c) + width
           /\ getCursorPosX(c) \in 0 .. width - 1 /\ c - getCursorPosX(c) >= 0
<1>1. PICK y \in Nat, x \in Int, q \in Int :
          /\ y = getCursorPosY(c) /\ x = getCursorPosX(c) /\ q = y * width
          /\ 0 <= x /\ x < width /\ c = q + x /\ q >= 0 /\ x \in 0 .. width - 1
          /\ c >= width => y >= 1
  <2>1. PICK x, y, q : x = getCursorPosX(c) /\ y = getCursorPosY(c) /\ q = y * width
    OBVIOUS
  <2>2. x \in 0 .. width - 1 /\ y \in Nat /\ c = q + x /\ q \in Nat /\ (c >= width => y >= 1)
    BY <2>1, Place
  <2>3. x \in Int /\ 0 <= x /\ x < width  BY <2>2, ScreenIs
  <2> QED  BY <2>1, <2>2, <2>3
<1>2. (y - 1) * width = q - width /\ (y + 1) * width = q + width /\ y - 1 \in Int /\ y + 1 \in Int
  BY <1>1, RowNext
<1>3. Position(x, y) = c
  <2>1. y * width + x \in 0 .. WORD16 - 1  BY <1>1, ScreenIs DEF Reach
  <2> QED  BY <1>1, <2>1, PositionIs
<1>4. Position(0, y + 1) = c - x + width
  <2>1. PICK p \in 0 .. WORD16 - 1 : p = c - x + width /\ p = q + width
    BY <1>1, ScreenIs DEF Reach
  <2>2. (y + 1) * width + 0 = p
    <3>1. (y + 1) * width = p  BY <1>2, <2>1
    <3>2. p + 0 = p  BY <2>1, ScreenIs
    <3> QED  BY <3>1, <3>2
  <2>3. Position(0, y + 1) = p  BY <1>2, <2>1, <2>2, PositionIs
  <2> QED  BY <2>1, <2>3
<1>5. ASSUME c >= width  PROVE Position(x, y - 1) = c - width
  <2>1. PICK p \in 0 .. WORD16 - 1 : p = c - width  BY <1>1, <1>5, ScreenIs DEF Reach
  <2>2. (y - 1) * width + x = p  BY <1>1, <1>2, <2>1, ScreenIs
  <2>3. Position(x, y - 1) = p  BY <1>1, <1>2, <2>1, <2>2, PositionIs
  <2> QED  BY <2>1, <2>3
<1> QED  BY <1>1, <1>3, <1>4, <1>5

(* The cells that the steps of arch_print leave alone, and those they do not. *)
LEMMA CellsAre ==
    ASSUME NEW s \in Displays
    PROVE  /\ \A pos : Moved(s, pos).cells = s.cells
           /\ \A n \in 1 .. 4 : Out(s, n).cells = s.cells
           /\ \A p \in 0 .. MAPPED - 1 : \A c : Put(s, p, c).cells = [s.cells EXCEPT ![p] = c]
           /\ \A n : CopyRow(s, n).cells = [i \in 0 .. MAPPED - 1 |->
                        IF i \div width = n THEN s.cells[i + width] ELSE s.cells[i]]
           /\ BlankRow(s).cells = [i \in 0 .. MAPPED - 1 |->
                        IF i \div width = height - 1 THEN Blank ELSE s.cells[i]]
<1>1. /\ s = [cells |-> s.cells, cursor |-> s.cursor, index |-> s.index, low |-> s.low,
               high |-> s.high, reach |-> s.reach]
      /\ s.cells = [i \in 0 .. MAPPED - 1 |-> s.cells[i]] /\ s.index \in {"low", "high"}
  BY DEF Displays
<1>2. \A pos : Moved(s, pos).cells = s.cells  BY <1>1 DEF Moved
<1>3. ASSUME NEW n \in 1 .. 4  PROVE Out(s, n).cells = s.cells
  <2>1. \A v : [s EXCEPT !.low = v].cells = s.cells /\ [s EXCEPT !.high = v].cells = s.cells
             /\ [s EXCEPT !.index = v].cells = s.cells
    BY <1>1
  <2>2. \A v : [s EXCEPT ![s.index] = v].cells = s.cells
    <3>1. CASE s.index = "low"
      <4>1. \A v : [s EXCEPT ![s.index] = v] = [s EXCEPT !.low = v]  BY <3>1
      <4> QED  BY <2>1, <4>1
    <3>2. CASE s.index = "high"
      <4>1. \A v : [s EXCEPT ![s.index] = v] = [s EXCEPT !.high = v]  BY <3>2
      <4> QED  BY <2>1, <4>1
    <3> QED  BY <1>1, <3>1, <3>2
  <2> QED  BY <2>1, <2>2 DEF Out
<1>4. ASSUME NEW p \in 0 .. MAPPED - 1, NEW c
      PROVE  Put(s, p, c).cells = [s.cells EXCEPT ![p] = c]
  <2>1. p < MAPPED  BY ScreenIs
  <2> QED  BY <1>1, <2>1 DEF Put
<1>5. ASSUME NEW n
      PROVE  CopyRow(s, n).cells = [i \in 0 .. MAPPED - 1 |->
                        IF i \div width = n THEN s.cells[i + width] ELSE s.cells[i]]
  BY <1>1 DEF CopyRow
<1>6. BlankRow(s).cells = [i \in 0 .. MAPPED - 1 |->
                        IF i \div width = height - 1 THEN Blank ELSE s.cells[i]]
  BY <1>1 DEF BlankRow
<1> QED  BY <1>2, <1>3, <1>4, <1>5, <1>6

LEMMA OutCells ==
    ASSUME NEW s \in Displays, NEW n \in 1 .. 4
    PROVE  Out(s, n) \in Displays /\ Out(s, n).cells = s.cells
           /\ Out(s, n).cursor = s.cursor
<1>1. Out(s, n) \in Like(s.cursor, s.reach)  BY OutIs
<1>2. Out(s, n).cells = s.cells  BY CellsAre
<1> QED  BY <1>1, <1>2, LikeIs

-----------------------------------------------------------------------------
LEMMA CleanIs ==
    ASSUME NEW c \in Clean
    PROVE  /\ c \in Chars /\ c # Blank /\ c \in Typable
           /\ SetsCursor(c) <=> c = "\n"
           /\ Printable(c) <=> c \notin {"\n", "\t"}
<1>1. c \in Chars /\ c \notin {"VT", "BS", "\r", Blank}  BY DEF Clean, Chars
<1>2. "\t" \notin {"\n", "VT", "BS", "\r"} /\ "\n" \notin {"VT", "BS", "\r"}  OBVIOUS
<1>3. SetsCursor(c) <=> c = "\n"  BY <1>1 DEF SetsCursor
<1> QED  BY <1>1, <1>2, <1>3 DEF Typable, Printable

LEMMA OnPaperIs ==
    ASSUME NEW p \in Sheets, NEW c \in Clean
    PROVE  /\ OnPaper(p, c) \in Sheets /\ p.pos \in Nat
           /\ c = "\n" => OnPaper(p, c).pos = p.pos - getCursorPosX(p.pos) + width
           /\ c = "\t" => OnPaper(p, c).pos = p.pos + TAB_SIZE
           /\ c \in {"\n", "\t"} => OnPaper(p, c).ink = p.ink
           /\ Printable(c) => /\ OnPaper(p, c).pos = p.pos + 1
                              /\ OnPaper(p, c).ink = p.ink \cup {<<p.pos, c>>}
<1>1. PICK a \in Nat, ink \in SUBSET (Nat \X (Chars \ {Blank})) :
          p = [pos |-> a, ink |-> ink] /\ \A r \in ink : r[1] < a
  BY DEF Sheets
<1>2. p.pos = a /\ p.ink = ink  BY <1>1
<1>3. CASE c = "\n"
  <2>1. PICK x \in Int : x = getCursorPosX(a) /\ x >= 0 /\ x < width
    BY Place, ScreenIs
  <2>2. PICK b \in Nat : b = a - x + width /\ b > a
    <3>1. a + (width - x) \in Nat /\ a - x + width = a + (width - x) /\ a + (width - x) > a
      BY <2>1, ScreenIs
    <3> QED  BY <3>1
  <2>3. OnPaper(p, c) = [pos |-> b, ink |-> ink]
    <3>1. OnPaper(p, c) = [p EXCEPT !.pos = @ + width - (@ % width)]  BY <1>3 DEF OnPaper
    <3>2. a + width - (a % width) = b  BY <2>1, <2>2, ScreenIs DEF getCursorPosX
    <3> QED  BY <1>1, <3>1, <3>2
  <2>4. \A r \in ink : r[1] < b
    <3> TAKE r \in ink
    <3>1. r[1] \in Nat /\ r[1] < a  BY <1>1
    <3> QED  BY <2>2, <3>1
  <2>5. OnPaper(p, c) \in Sheets  BY <2>3, <2>4 DEF Sheets
  <2> QED  BY <1>2, <1>3, <2>1, <2>2, <2>3, <2>5, CleanIs
<1>4. CASE c = "\t"
  <2>1. PICK b \in Nat : b = a + TAB_SIZE /\ b > a  BY ScreenIs
  <2>2. OnPaper(p, c) = [pos |-> b, ink |-> ink]
    <3>1. OnPaper(p, c) = [p EXCEPT !.pos = @ + TAB_SIZE]  BY <1>4 DEF OnPaper
    <3> QED  BY <1>1, <2>1, <3>1
  <2>3. \A r \in ink : r[1] < b
    <3> TAKE r \in ink
    <3>1. r[1] \in Nat /\ r[1] < a  BY <1>1
    <3> QED  BY <2>1, <3>1
  <2>4. OnPaper(p, c) \in Sheets  BY <2>2, <2>3 DEF Sheets
  <2> QED  BY <1>2, <1>4, <2>1, <2>2, <2>4, CleanIs
<1>5. CASE c \notin {"\n", "\t"}
  <2>1. PICK b \in Nat : b = a + 1  OBVIOUS
  <2>2. OnPaper(p, c) = [pos |-> b, ink |-> ink \cup {<<a, c>>}]
    BY <1>2, <1>5, <2>1 DEF OnPaper
  <2>3. \A r \in ink \cup {<<a, c>>} : r[1] < b
    <3> TAKE r \in ink \cup {<<a, c>>}
    <3>1. CASE r \in ink
      <4>1. r[1] \in Nat /\ r[1] < a  BY <1>1, <3>1
      <4> QED  BY <2>1, <4>1
    <3>2. CASE r = <<a, c>>  BY <2>1, <3>2
    <3> QED  BY <3>1, <3>2
  <2>4. ink \cup {<<a, c>>} \in SUBSET (Nat \X (Chars \ {Blank}))  BY CleanIs
  <2>5. OnPaper(p, c) \in Sheets  BY <2>2, <2>3, <2>4 DEF Sheets
  <2> QED  BY <1>2, <1>5, <2>1, <2>2, <2>5
<1> QED  BY <1>3, <1>4, <1>5

(* A step that neither writes a cell nor moves the cursor or a row. *)
LEMMA TailLike ==
    ASSUME NEW m, NEW k, NEW s, NEW t, NEW p, NEW q, NEW J, TailAt(m, s, p, J),
           t.cells = s.cells, t.cursor = s.cursor, Sheet(k, q) = Sheet(m, p),
           m.pc \notin {"put", "copy"}, k.pc \notin {"put", "copy"}, Moving(k) <=> Moving(m),
           k.pc \in {"move", "second"} => k.pos = s.cursor
    PROVE  TailAt(k, t, q, J)
<1>1. Positions(k, t, Sheet(k, q), J)  BY DEF TailAt, Positions
<1>2. \A i : Up(k, i) = Up(m, i)  BY DEF Up
<1> QED  BY <1>1, <1>2 DEF TailAt

LEMMA TailInit == Init => TailInv
<1> SUFFICES ASSUME Init  PROVE TailInv
  OBVIOUS
<1>1. main.pc = "start" /\ main.rest = <<>> /\ printed = Unused /\ ticks = 0  BY DEF Init
<1>2. <<>> \in Seq(Seq(Clean))  OBVIOUS
<1> QED  BY <1>1, <1>2 DEF TailInv

LEMMA StartTail == ScreenInv /\ TailInv /\ printk_init => TailInv'
<1> SUFFICES ASSUME ScreenInv, TailInv, printk_init  PROVE TailInv'
  OBVIOUS
<1>1. /\ main \in Line /\ screen \in Near /\ main.rest \in Seq(Seq(Clean)) /\ ticks \in Nat
      /\ printed = Unused /\ printed' = printed /\ ticks' = ticks
  BY DEF ScreenInv, AtStep, TailInv, printk_init
<1>2. CASE main' = [main EXCEPT !.pc = "halted"]
  <2>1. main'.pc = "halted" /\ main'.rest = main.rest  BY <1>1, <1>2 DEF Line
  <2> QED  BY <1>1, <2>1 DEF TailInv
<1>3. CASE screen' = clear_screen(screen) /\ main' = [main EXCEPT !.pc = "idle"]
  <2>1. main'.pc = "idle" /\ main'.rest = main.rest  BY <1>1, <1>3 DEF Line
  <2> DEFINE cells == [c \in 0 .. MAPPED - 1 |-> IF c < Size THEN Blank ELSE screen.cells[c]]
  <2>2. screen \in Displays /\ screen.cells \in [0 .. MAPPED - 1 -> Chars] /\ Blank \in Chars
    BY <1>1 DEF Near, Displays, Chars
  <2>3. cells \in [0 .. MAPPED - 1 -> Chars]  BY <2>2
  <2>4. PICK t : t = [screen EXCEPT !.cells = cells]  OBVIOUS
  <2>5. t \in Displays /\ t.cells = cells
    <3> HIDE DEF cells
    <3> QED  BY <2>2, <2>3, <2>4 DEF Displays
  <2>6. screen' = setCursorPos(t, 0, 0)
    BY <1>3, <2>2, <2>4 DEF clear_screen
  <2>7. Position(0, 0) = 0
    <3>1. 0 * width + 0 = 0 /\ 0 \in 0 .. WORD16 - 1 /\ 0 \in Int  BY ScreenIs
    <3> QED  BY <3>1, PositionIs
  <2>8. screen'.cursor = 0 /\ screen'.cells = cells
    <3>1. screen'.cursor = 0  BY <2>5, <2>6, <2>7, SetCursorIs, LikeIs
    <3>2. PICK a : a = Moved(t, 0)  OBVIOUS
    <3>3. a \in Displays /\ a.cells = cells
      <4>1. Moved(t, 0) \in Like(0 % WORD16, t.reach)  BY <2>5, MovedIs
      <4> QED  BY <2>5, <3>2, <4>1, LikeIs, CellsAre
    <3>4. Shown(a).cells = cells
      <4>1. PICK b : b = Out(a, 1)  OBVIOUS
      <4>2. b \in Displays /\ b.cells = cells  BY <3>3, <4>1, OutCells
      <4>3. PICK c : c = Out(b, 2)  OBVIOUS
      <4>4. c \in Displays /\ c.cells = cells  BY <4>2, <4>3, OutCells
      <4>5. PICK d : d = Out(c, 3)  OBVIOUS
      <4>6. d \in Displays /\ d.cells = cells  BY <4>4, <4>5, OutCells
      <4>7. Out(d, 4).cells = cells  BY <4>6, OutCells
      <4> QED  BY <4>1, <4>3, <4>5, <4>7 DEF Shown
    <3> QED  BY <2>6, <2>7, <3>1, <3>2, <3>4 DEF setCursorPos
  <2>9. Unused.pos = 0 /\ Unused.ink = {} /\ Unused \in Sheets  BY DEF Unused, Sheets
  <2>10. TailAt(main', screen', printed', 0)
    <3>1. Sheet(main', printed') = Unused  BY <1>1, <2>1 DEF Sheet, Typing
    <3>2. Positions(main', screen', Unused, 0)
      BY <2>1, <2>8, <2>9 DEF Positions, Moving
    <3>3. \A i \in 0 .. Size - 1 : screen'.cells[i] = Blank
      <4> TAKE i \in 0 .. Size - 1
      <4>1. i \in 0 .. MAPPED - 1 /\ i < Size  BY ScreenIs
      <4> QED  BY <2>8, <4>1
    <3> QED  BY <2>1, <2>9, <3>1, <3>2, <3>3 DEF TailAt, Cell
  <2>11. 0 * width = 0  BY ScreenIs
  <2> QED  BY <1>1, <2>1, <2>9, <2>10, <2>11 DEF TailInv
<1> QED  BY <1>2, <1>3 DEF printk_init, At

(* The steps that neither write a cell nor move the cursor or a row. *)
LEMMA LoadTail == ScreenInv /\ TailInv /\ LoadCursor => TailInv'
<1> SUFFICES ASSUME ScreenInv, TailInv, LoadCursor  PROVE TailInv'
  OBVIOUS
<1>1. /\ main \in Line /\ main.pc = "load" /\ screen' = screen /\ main.rest \in Seq(Seq(Clean))
      /\ main' = [main EXCEPT !.pos = screen.cursor, !.pc = "move"]
      /\ printed' = printed /\ ticks' = ticks /\ ticks \in Nat
  BY DEF ScreenInv, AtStep, LoadCursor, TailInv
<1>2. main'.pc = "move" /\ main'.rest = main.rest /\ main'.pos = screen.cursor
  BY <1>1 DEF Line
<1>3. ASSUME NEW J, TailAt(main, screen, printed, J)  PROVE TailAt(main', screen', printed', J)
  <2>1. Sheet(main', printed') = Sheet(main, printed)  BY <1>1, <1>2 DEF Sheet, Typing
  <2>2. Moving(main') <=> Moving(main)  BY <1>1, <1>2 DEF Moving
  <2> QED  BY <1>1, <1>2, <1>3, <2>1, <2>2, TailLike
<1> QED  BY <1>1, <1>2, <1>3 DEF TailInv

LEMMA FirstReadTail == ScreenInv /\ TailInv /\ FirstRead => TailInv'
<1> SUFFICES ASSUME ScreenInv, TailInv, FirstRead  PROVE TailInv'
  OBVIOUS
<1>1. /\ main \in Line /\ main.pc = "first" /\ screen' = screen /\ main.rest \in Seq(Seq(Clean))
      /\ main' = [main EXCEPT !.pos = screen.cursor, !.pc = "second"]
      /\ printed' = printed /\ ticks' = ticks /\ ticks \in Nat
  BY DEF ScreenInv, AtStep, FirstRead, TailInv
<1>2. main'.pc = "second" /\ main'.rest = main.rest /\ main'.pos = screen.cursor
      /\ main'.for = main.for
  BY <1>1 DEF Line
<1>3. ASSUME NEW J, TailAt(main, screen, printed, J)  PROVE TailAt(main', screen', printed', J)
  <2>1. Sheet(main', printed') = Sheet(main, printed)  BY <1>1, <1>2 DEF Sheet, Typing
  <2>2. Moving(main') <=> Moving(main)  BY <1>1, <1>2 DEF Moving
  <2> QED  BY <1>1, <1>2, <1>3, <2>1, <2>2, TailLike
<1> QED  BY <1>1, <1>2, <1>3 DEF TailInv

LEMMA OutTail == ScreenInv /\ TailInv /\ OutCursor => TailInv'
<1> SUFFICES ASSUME ScreenInv, TailInv, OutCursor  PROVE TailInv'
  OBVIOUS
<1>1. /\ main \in Line /\ main.pc = "out" /\ main.rest \in Seq(Seq(Clean))
      /\ main.n \in 1 .. 4 /\ screen \in Displays /\ main.rest # <<>>
      /\ screen' = Out(screen, main.n)
      /\ printed' = printed /\ ticks' = ticks /\ ticks \in Nat
  BY DEF ScreenInv, AtStep, Near, OutCursor, TailInv
<1>2. screen'.cells = screen.cells /\ screen'.cursor = screen.cursor  BY <1>1, OutCells
<1>3. ASSUME main'.rest \in Seq(Seq(Clean)), main'.pc \notin {"start", "put", "copy", "move", "second"},
             ~ Moving(main'), Sheet(main', printed) = Sheet(main, printed)
      PROVE  TailInv'
  <2>1. ASSUME NEW J, TailAt(main, screen, printed, J)  PROVE TailAt(main', screen', printed', J)
    <3>1. ~ Moving(main)  BY <1>1 DEF Moving
    <3> QED  BY <1>1, <1>2, <1>3, <2>1, <3>1, TailLike
  <2> QED  BY <1>1, <1>3, <2>1 DEF TailInv
<1>4. CASE main.n < 4
  <2>1. main' = [main EXCEPT !.n = @ + 1]  BY <1>4 DEF OutCursor
  <2>2. main'.pc = "out" /\ main'.rest = main.rest /\ main'.for = main.for
    BY <1>1, <2>1 DEF Line
  <2> QED  BY <1>1, <1>3, <2>2 DEF Moving, Sheet, Typing
<1>5. CASE ~ (main.n < 4) /\ main.for # "sync"
  <2>1. main' = [main EXCEPT !.pc = "check"]  BY <1>5 DEF OutCursor, At
  <2>2. main'.pc = "check" /\ main'.rest = main.rest  BY <1>1, <2>1 DEF Line
  <2> QED  BY <1>1, <1>3, <1>5, <2>2 DEF Moving, Sheet, Typing
<1>6. CASE ~ (main.n < 4) /\ main.for = "sync"
  <2>1. PICK r : r = Tail(main.rest)  OBVIOUS
  <2>2. PICK pc : pc = IF r = <<>> THEN "push" ELSE Loop(r)  OBVIOUS
  <2>3. main' = [main EXCEPT !.rest = r, !.pc = pc]  BY <1>6, <2>1, <2>2 DEF OutCursor
  <2>4. r \in Seq(Seq(Clean))  BY <1>1, <2>1, RestIs
  <2>5. pc \in {"push", "first", "load"}  BY <2>2 DEF Loop
  <2>6. main'.pc = pc /\ main'.rest = r /\ main'.for = "sync"
    BY <1>1, <1>6, <2>3 DEF Line
  <2> QED  BY <1>1, <1>3, <1>6, <2>4, <2>5, <2>6 DEF Moving, Sheet, Typing
<1> QED  BY <1>4, <1>5, <1>6

LEMMA CallTail ==
    ASSUME ScreenInv, TailInv, NEW m \in Messages, printk(m)
    PROVE  TailInv'
<1>1. /\ main \in Line /\ main.pc = "idle" /\ screen' = screen
      /\ printed' = printed /\ ticks' = ticks /\ ticks \in Nat
  BY DEF ScreenInv, AtStep, printk, TailInv
<1>2. PICK l : l = Formatted(m.str, m.args)  OBVIOUS
<1>3. Stamp \in Seq(Clean) /\ l.text \in Seq(Clean) /\ <<"\n">> \in Seq(Clean)
  <2>1. PICK S : S = STRING \ {"VT", "BS", "\r", Blank}  OBVIOUS
  <2>2. Stamp \in Seq(S) /\ l.text \in Seq(S)  BY <1>2, <2>1, PrintoutAssumption
  <2>3. S \subseteq Clean  BY <2>1 DEF Clean
  <2>4. \A t \in Seq(S) : t \in Seq(Clean)
    <3> TAKE t \in Seq(S)
    <3>1. \A i \in 1 .. Len(t) : t[i] \in Clean  BY <2>3
    <3> QED  BY <3>1
  <2>5. "\n" \in Clean  BY DEF Clean, Blank
  <2> QED  BY <2>2, <2>4, <2>5
<1>4. PICK r : r = IF m.level <= LOGLEVEL THEN <<Stamp, l.text, <<"\n">>>> ELSE <<>>  OBVIOUS
<1>5. r \in Seq(Seq(Clean))
  <2>1. PICK a \in Seq(Clean), b \in Seq(Clean), c \in Seq(Clean) :
            a = Stamp /\ b = l.text /\ c = <<"\n">>
    BY <1>3
  <2>2. PICK Q : Q = Seq(Clean)  OBVIOUS
  <2>3. <<a, b, c>> \in Seq(Q) /\ <<>> \in Seq(Q)  BY <2>2
  <2> QED  BY <1>4, <2>1, <2>2, <2>3
<1>6. PICK pc : pc = IF m.level <= LOGLEVEL THEN Loop(r) ELSE "push"  OBVIOUS
<1>7. main' = [main EXCEPT !.call = m, !.lstr = l, !.for = "sync", !.rest = r, !.pc = pc]
  BY <1>2, <1>4, <1>6 DEF printk
<1>8. pc \in {"first", "load", "push"}  BY <1>6 DEF Loop
<1>9. main'.pc = pc /\ main'.rest = r /\ main'.for = "sync"  BY <1>1, <1>7 DEF Line
<1>10. ASSUME NEW J, TailAt(main, screen, printed, J)  PROVE TailAt(main', screen', printed', J)
  <2>1. Sheet(main', printed') = Sheet(main, printed)
    BY <1>1, <1>8, <1>9 DEF Sheet, Typing
  <2>2. Moving(main') <=> Moving(main)  BY <1>1, <1>8, <1>9 DEF Moving
  <2> QED  BY <1>1, <1>8, <1>9, <1>10, <2>1, <2>2, TailLike
<1> QED  BY <1>1, <1>5, <1>8, <1>9, <1>10 DEF TailInv

LEMMA AloneTail ==
    ASSUME ScreenInv, TailInv, interrupt_enable \/ PushEntry \/ ResizeLogs \/ ReplaceLogs
    PROVE  TailInv'
<1>1. /\ main \in Line /\ screen' = screen /\ main.rest \in Seq(Seq(Clean))
      /\ printed' = printed /\ ticks' = ticks /\ ticks \in Nat
      /\ main.pc \in {"idle", "push", "resize", "replace"}
  BY DEF ScreenInv, AtStep, TailInv, interrupt_enable, PushEntry, ResizeLogs, ReplaceLogs
<1>2. PICK pc \in {"idle", "resize", "replace"} : main' = [main EXCEPT !.pc = pc]
  <2>1. CASE interrupt_enable  BY <1>1, <2>1 DEF interrupt_enable, Line
  <2>2. CASE PushEntry  BY <2>2 DEF PushEntry, At
  <2>3. CASE ResizeLogs
    <3>1. PICK c : c = IF Capacity(logs) = logs.alloc_length THEN "idle" ELSE "replace"
      OBVIOUS
    <3> QED  BY <2>3, <3>1 DEF ResizeLogs, At
  <2>4. CASE ReplaceLogs  BY <2>4 DEF ReplaceLogs, At
  <2> QED  BY <2>1, <2>2, <2>3, <2>4
<1>3. main'.pc = pc /\ main'.rest = main.rest  BY <1>1, <1>2 DEF Line
<1>4. ASSUME NEW J, TailAt(main, screen, printed, J)  PROVE TailAt(main', screen', printed', J)
  <2>1. Sheet(main', printed') = Sheet(main, printed)  BY <1>1, <1>3 DEF Sheet, Typing
  <2>2. Moving(main') <=> Moving(main)  BY <1>1, <1>3 DEF Moving
  <2> QED  BY <1>1, <1>3, <1>4, <2>1, <2>2, TailLike
<1> QED  BY <1>1, <1>3, <1>4 DEF TailInv

(* After a tick the screen is not the paper any more. *)
LEMMA TickTail == ScreenInv /\ TailInv /\ Tick => TailInv'
<1> SUFFICES ASSUME ScreenInv, TailInv, Tick  PROVE TailInv'
  OBVIOUS
<1>1. main' = main /\ printed' = printed /\ ticks' = ticks + 1 /\ ticks \in Nat
  BY DEF Tick, TailInv
<1>2. ticks' \in Nat /\ ticks' # 0  BY <1>1
<1> QED  BY <1>1, <1>2 DEF TailInv

LEMMA OnScreen ==
    ASSUME NEW i \in Nat, i < Size
    PROVE  i \in 0 .. MAPPED - 1 /\ i < Reach
<1>1. PICK z \in Nat, m \in Nat, t \in Nat : z = Size /\ m = MAPPED /\ t = TAB_SIZE /\ z + t <= m
  BY ScreenIs
<1> QED  BY <1>1 DEF Reach

(* The character that is being typed. *)
LEMMA CharClean ==
    ASSUME main.rest \in Seq(Seq(Clean)), main.rest # <<>>, Head(main.rest) # <<>>
    PROVE  Char \in Clean
BY RestIs DEF Char

(* What another character does to the paper, a cell does not show. *)
LEMMA CellElsewhere ==
    ASSUME NEW v, NEW ink, NEW q, NEW a, NEW c, Cell(v, ink, q), a # q
    PROVE  Cell(v, ink \cup {<<a, c>>}, q)
<1>1. \A r \in ink \cup {<<a, c>>} : r[1] = q => r \in ink  OBVIOUS
<1> QED  BY <1>1 DEF Cell

LEMMA MoveTail == ScreenInv /\ TailInv /\ MoveCursor => TailInv'
<1> SUFFICES ASSUME ScreenInv, TailInv, MoveCursor  PROVE TailInv'
  OBVIOUS
<1>1. /\ main \in Line /\ main.pc = "move" /\ screen \in Displays /\ screen.cursor < Size
      /\ main.rest \in Seq(Seq(Clean)) /\ main.rest # <<>> /\ Head(main.rest) # <<>>
      /\ printed' = printed /\ ticks' = ticks /\ ticks \in Nat
  BY DEF ScreenInv, AtStep, Near, MoveCursor, TailInv
<1>2. PICK c \in Clean : c = Char  BY <1>1, CharClean
<1>3. PICK pc : pc = IF SetsCursor(Char) THEN "out" ELSE IF Printable(Char) THEN "put" ELSE "check"
  OBVIOUS
<1>4. PICK for : for = IF SetsCursor(Char) THEN "char" ELSE main.for  OBVIOUS
<1>5. main' = [main EXCEPT !.pc = pc, !.n = 1, !.for = for]
  BY <1>3, <1>4 DEF MoveCursor
<1>6. main'.pc = pc /\ main'.rest = main.rest /\ main'.for = for /\ main'.pos = main.pos
      /\ main'.n = 1
  BY <1>1, <1>5 DEF Line
<1>7. pc \in {"out", "put", "check"} /\ (pc = "out" => for = "char")
      /\ (c = "\n" => pc = "out") /\ (c = "\t" => pc = "check")
      /\ (Printable(c) => pc = "put" /\ c \notin {"\n", "\t"})
      /\ (c \in {"\n", "\t"} \/ Printable(c))
  BY <1>2, <1>3, <1>4, CleanIs
<1>8. ASSUME ticks = 0, printed \in Sheets, NEW j \in Nat,
             TailAt(main, screen, printed, j * width)
      PROVE  TailAt(main', screen', printed', j * width)
  <2>1. PICK J \in Nat : J = j * width
    <3>1. 0 * width <= j * width /\ j * width \in Int /\ 0 * width = 0  BY Rows, ScreenIs
    <3> QED  BY <3>1
  <2>2. PICK a \in Nat : a = screen.cursor /\ a = main.pos /\ a < Size /\ a < Reach
                         /\ printed.pos = a + J /\ (J = 0 \/ a >= Size - width)
                         /\ \A r \in printed.ink : r[1] < J + Size
    <3>1. Sheet(main, printed) = printed  BY <1>1 DEF Sheet, Typing
    <3>2. PICK a \in Nat : a = screen.cursor /\ a < Size  BY <1>1 DEF Displays
    <3>3. a < Reach  BY <3>2, OnScreen
    <3>4. Positions(main, screen, printed, J)  BY <1>8, <2>1, <3>1 DEF TailAt
    <3>5. a = main.pos  BY <1>1, <3>2, <3>4 DEF Positions
    <3> QED  BY <3>2, <3>3, <3>4, <3>5 DEF Positions
  <2>3. \A i \in 0 .. Size - 1 : Cell(screen.cells[i], printed.ink, i + J + 0)
    <3>1. Sheet(main, printed) = printed  BY <1>1 DEF Sheet, Typing
    <3>2. \A i : Up(main, i) = 0  BY <1>1 DEF Up, Moving
    <3> QED  BY <1>1, <1>8, <2>1, <3>1, <3>2 DEF TailAt
  <2>4. PICK d \in 0 .. Reach - 1 : d = Target(c, a)
    <3>1. c # "VT"  BY <1>2 DEF Clean
    <3> QED  BY <2>2, <3>1, TargetIs
  <2>5. screen'.cursor = d /\ screen'.cells = screen.cells
    <3>1. screen' = Moved(screen, d)  BY <1>2, <2>2, <2>4 DEF MoveCursor
    <3>2. d % WORD16 = d /\ d \in Int  BY <2>4, ScreenIs DEF Reach
    <3>3. Moved(screen, d) \in Like(d, screen.reach)  BY <1>1, <3>2, MovedIs
    <3>4. screen'.cursor = d  BY <3>1, <3>3, LikeIs
    <3> QED  BY <1>1, <3>1, <3>4, CellsAre
  <2>6. PICK o : o = OnPaper(printed, c)  OBVIOUS
  <2>7. Sheet(main', printed') = o
    BY <1>1, <1>2, <1>6, <1>7, <2>6 DEF Sheet, Typing, Char
  <2>8. ~ Moving(main') /\ \A i : Up(main', i) = 0  BY <1>6, <1>7 DEF Moving, Up
  <2>9. o.pos = d + J /\ d >= a
    <3>1. CASE c = "\n"
      <4>1. PICK x \in Int : x = getCursorPosX(a) /\ x >= 0 /\ x < width  BY Place, ScreenIs
      <4>2. d = Position(0, getCursorPosY(a) + 1)
        BY <2>4, <3>1 DEF Target, Printable, SetsCursor
      <4>3. d = a - x + width  BY <2>2, <4>1, <4>2, Back
      <4>4. getCursorPosX(printed.pos) = x
        <5>1. printed.pos = a + j * width  BY <2>1, <2>2
        <5> QED  BY <4>1, <5>1, RowsDown
      <4>5. o.pos = printed.pos - x + width  BY <1>8, <2>6, <3>1, <4>4, OnPaperIs
      <4> QED  BY <2>2, <4>1, <4>3, <4>5, ScreenIs
    <3>2. CASE c = "\t"
      <4>1. d = a + TAB_SIZE  BY <2>4, <3>2 DEF Target, Printable
      <4>2. o.pos = printed.pos + TAB_SIZE  BY <1>8, <2>6, <3>2, OnPaperIs
      <4> QED  BY <2>2, <4>1, <4>2, ScreenIs
    <3>3. CASE Printable(c)
      <4>1. d = a + 1  BY <2>4, <3>3 DEF Target, Printable, SetsCursor
      <4>2. o.pos = printed.pos + 1  BY <1>8, <2>6, <3>3, OnPaperIs
      <4> QED  BY <2>2, <4>1, <4>2
    <3> QED  BY <1>7, <3>1, <3>2, <3>3
  <2>10. \A r \in o.ink : r[1] < J + Size
    <3>1. CASE c \in {"\n", "\t"}  BY <1>8, <2>2, <2>6, <3>1, OnPaperIs
    <3>2. CASE Printable(c)
      <4>1. o.ink = printed.ink \cup {<<a + J, c>>}  BY <1>8, <2>2, <2>6, <3>2, OnPaperIs
      <4>2. a + J < J + Size  BY <2>2, ScreenIs
      <4> QED  BY <2>2, <4>1, <4>2
    <3> QED  BY <1>7, <3>1, <3>2
  <2>11. pc = "put" => a + 1 = d /\ Printable(c)
    <3>1. ASSUME Printable(c)  PROVE d = a + 1  BY <2>4, <3>1 DEF Target, Printable, SetsCursor
    <3>2. pc = "put" => Printable(c)  BY <1>7
    <3> QED  BY <3>1, <3>2
  <2>12. Positions(main', screen', o, J)
    <3>1. J = 0 \/ d >= Size - width  BY <2>2, <2>4, <2>9, ScreenIs
    <3>2. Head(Head(main'.rest)) = c  BY <1>2, <1>6 DEF Char
    <3> QED  BY <1>6, <1>7, <2>2, <2>5, <2>8, <2>9, <2>10, <2>11, <3>1, <3>2 DEF Positions
  <2>13. ASSUME NEW i \in 0 .. Size - 1
         PROVE  Cell(screen'.cells[i], IF pc = "put" THEN printed.ink ELSE o.ink, i + J + 0)
    <3>1. pc # "put" => o.ink = printed.ink  BY <1>7, <1>8, <2>6, OnPaperIs
    <3> QED  BY <2>3, <2>5, <3>1
  <2> QED  BY <1>1, <1>6, <2>1, <2>7, <2>8, <2>12, <2>13 DEF TailAt
<1> QED  BY <1>1, <1>6, <1>7, <1>8 DEF TailInv

LEMMA PutTail == ScreenInv /\ TailInv /\ PutChar => TailInv'
<1> SUFFICES ASSUME ScreenInv, TailInv, PutChar  PROVE TailInv'
  OBVIOUS
<1>1. /\ main \in Line /\ main.pc = "put" /\ screen \in Displays /\ main.pos < Size
      /\ main.rest \in Seq(Seq(Clean)) /\ main.rest # <<>> /\ Head(main.rest) # <<>>
      /\ printed' = printed /\ ticks' = ticks /\ ticks \in Nat
      /\ screen' = Put(screen, main.pos, Char) /\ main' = [main EXCEPT !.pc = "check"]
  BY DEF ScreenInv, AtStep, Near, PutChar, At, TailInv
<1>2. PICK c \in Clean : c = Char  BY <1>1, CharClean
<1>3. main'.pc = "check" /\ main'.rest = main.rest  BY <1>1 DEF Line
<1>4. ASSUME ticks = 0, printed \in Sheets, NEW j \in Nat,
             TailAt(main, screen, printed, j * width)
      PROVE  TailAt(main', screen', printed', j * width)
  <2>1. PICK J \in Nat : J = j * width
    <3>1. 0 * width <= j * width /\ j * width \in Int /\ 0 * width = 0  BY Rows, ScreenIs
    <3> QED  BY <3>1
  <2>2. PICK a \in Nat : a = main.pos /\ a < Size /\ a \in 0 .. MAPPED - 1
    <3>1. PICK a \in Nat : a = main.pos /\ a < Size  BY <1>1 DEF Line
    <3> QED  BY <3>1, OnScreen
  <2>3. PICK o : o = OnPaper(printed, c)  OBVIOUS
  <2>4. Sheet(main, printed) = o /\ Sheet(main', printed') = o
    BY <1>1, <1>2, <1>3, <2>3 DEF Sheet, Typing, Char
  <2>5. /\ Positions(main, screen, o, J) /\ Printable(c) /\ screen.cursor = a + 1
        /\ o.pos = a + 1 + J
    <3>1. Positions(main, screen, o, J)  BY <1>4, <2>1, <2>4 DEF TailAt
    <3> QED  BY <1>1, <1>2, <2>2, <3>1 DEF Positions, Char
  <2>6. printed.pos = a + J /\ o.ink = printed.ink \cup {<<a + J, c>>}
        /\ \A r \in printed.ink : r[1] # a + J
    <3>1. o.pos = printed.pos + 1 /\ printed.pos \in Nat
          /\ o.ink = printed.ink \cup {<<printed.pos, c>>}
      BY <1>4, <2>3, <2>5, OnPaperIs
    <3>2. printed.pos = a + J  BY <2>5, <3>1
    <3>3. \A r \in printed.ink : r[1] # printed.pos
      <4> TAKE r \in printed.ink
      <4>1. r[1] \in Nat /\ r[1] < printed.pos  BY <1>4 DEF Sheets
      <4> QED  BY <3>1, <4>1
    <3> QED  BY <3>1, <3>2, <3>3
  <2>7. screen'.cells = [screen.cells EXCEPT ![a] = c] /\ screen'.cursor = screen.cursor
    <3>1. screen' = Put(screen, a, c)  BY <1>1, <1>2, <2>2
    <3>2. Put(screen, a, c).cells = [screen.cells EXCEPT ![a] = c]
      <4>1. \A p \in 0 .. MAPPED - 1 : \A v : Put(screen, p, v).cells = [screen.cells EXCEPT ![p] = v]
        BY <1>1, CellsAre
      <4> QED  BY <2>2, <4>1
    <3>3. Put(screen, a, c).cursor = screen.cursor  BY <1>1 DEF Put, Displays
    <3> QED  BY <3>1, <3>2, <3>3
  <2>8. ASSUME NEW i \in 0 .. Size - 1  PROVE Cell(screen'.cells[i], o.ink, i + J + 0)
    <3>1. i \in 0 .. MAPPED - 1 /\ screen.cells \in [0 .. MAPPED - 1 -> Chars]
      <4>1. i \in Nat /\ i < Size  BY ScreenIs
      <4> QED  BY <1>1, <4>1, OnScreen DEF Displays
    <3>2. CASE i = a
      <4>1. screen'.cells[i] = c  BY <2>7, <3>1, <3>2
      <4>2. i + J + 0 = a + J  BY <3>2
      <4>3. \A r \in o.ink : r[1] = a + J => r[2] = c  BY <2>6
      <4> QED  BY <2>6, <4>1, <4>2, <4>3 DEF Cell
    <3>3. CASE i # a
      <4>1. screen'.cells[i] = screen.cells[i]  BY <2>7, <3>1, <3>3
      <4>2. Up(main, i) = 0  BY <1>1 DEF Up, Moving
      <4>3. Cell(screen.cells[i], printed.ink, i + J + 0)
        BY <1>1, <1>4, <2>1, <4>2 DEF TailAt
      <4>4. PICK q : q = i + J + 0 /\ a + J # q  BY <2>2, <3>3
      <4>5. Cell(screen.cells[i], printed.ink \cup {<<a + J, c>>}, q)
        BY <4>3, <4>4, CellElsewhere
      <4> QED  BY <2>6, <4>1, <4>4, <4>5
    <3> QED  BY <3>2, <3>3
  <2>9. Positions(main', screen', o, J) /\ \A i : Up(main', i) = 0
    BY <1>3, <2>5, <2>7 DEF Positions, Moving, Up
  <2> QED  BY <1>3, <2>1, <2>4, <2>8, <2>9 DEF TailAt
<1> QED  BY <1>1, <1>3, <1>4 DEF TailInv

LEMMA CheckTail == ScreenInv /\ TailInv /\ CheckCursor => TailInv'
<1> SUFFICES ASSUME ScreenInv, TailInv, CheckCursor  PROVE TailInv'
  OBVIOUS
<1>1. /\ main \in Line /\ main.pc = "check" /\ screen' = screen /\ screen.cursor \in Nat
      /\ main.rest \in Seq(Seq(Clean)) /\ main.rest # <<>> /\ Head(main.rest) # <<>>
      /\ ticks' = ticks /\ ticks \in Nat
  BY DEF ScreenInv, AtStep, Near, Displays, CheckCursor, TailInv
<1>2. CASE Behind(screen.cursor)
  <2>1. main' = [main EXCEPT !.pc = "copy", !.n = 0] /\ printed' = printed
    BY <1>2 DEF CheckCursor
  <2>2. main'.pc = "copy" /\ main'.n = 0 /\ main'.rest = main.rest  BY <1>1, <2>1 DEF Line
  <2>3. ASSUME NEW J, TailAt(main, screen, printed, J)  PROVE TailAt(main', screen', printed', J)
    <3>1. Sheet(main', printed') = Sheet(main, printed)
      BY <1>1, <2>1, <2>2 DEF Sheet, Typing
    <3>2. Positions(main', screen', Sheet(main', printed'), J)
      BY <1>1, <1>2, <2>2, <2>3, <3>1 DEF TailAt, Positions, Behind
    <3>3. \A i \in 0 .. Size - 1 : Up(main', i) = Up(main, i)
      <4> TAKE i \in 0 .. Size - 1
      <4>1. 0 * width = 0 /\ ~ (i < 0)  BY ScreenIs
      <4> QED  BY <1>1, <2>2, <4>1 DEF Up, Moving
    <3> QED  BY <1>1, <2>2, <2>3, <3>1, <3>2, <3>3 DEF TailAt
  <2> QED  BY <1>1, <2>1, <2>2, <2>3 DEF TailInv
<1>3. CASE ~ Behind(screen.cursor)
  <2>1. PICK r : r = <<Tail(Head(main.rest))>> \o Tail(main.rest)  OBVIOUS
  <2>2. r \in Seq(Seq(Clean))  BY <1>1, <2>1, RestIs
  <2>3. main' = [main EXCEPT !.rest = r, !.pc = Loop(r), !.for = "sync"]
        /\ (ticks = 0 => printed' = OnPaper(printed, Char))
    BY <1>3, <2>1 DEF CheckCursor
  <2>4. PICK pc \in {"first", "load"} : pc = Loop(r)  BY DEF Loop
  <2>5. main'.pc = pc /\ main'.rest = r /\ main'.for = "sync"  BY <1>1, <2>3, <2>4 DEF Line
  <2>6. ASSUME ticks = 0, printed \in Sheets
        PROVE  printed' \in Sheets
    <3>1. Char \in Clean  BY <1>1, CharClean
    <3> QED  BY <2>3, <2>6, <3>1, OnPaperIs
  <2>7. ASSUME ticks = 0, NEW J, TailAt(main, screen, printed, J)
        PROVE  TailAt(main', screen', printed', J)
    <3>1. Sheet(main', printed') = Sheet(main, printed)
      BY <1>1, <2>3, <2>5, <2>7 DEF Sheet, Typing, Char
    <3>2. ~ Moving(main') /\ ~ Moving(main)  BY <1>1, <2>5 DEF Moving
    <3> QED  BY <1>1, <2>5, <2>7, <3>1, <3>2, TailLike
  <2> QED  BY <1>1, <2>2, <2>5, <2>6, <2>7 DEF TailInv
<1> QED  BY <1>2, <1>3

(* A row that scroll copies, and the one it makes blank. *)
LEMMA ScrollRowTail == ScreenInv /\ TailInv /\ ScrollRow => TailInv'
<1> SUFFICES ASSUME ScreenInv, TailInv, ScrollRow  PROVE TailInv'
  OBVIOUS
<1>1. /\ main \in Line /\ main.pc = "copy" /\ screen \in Displays
      /\ main.rest \in Seq(Seq(Clean)) /\ main.n <= height - 1
      /\ printed' = printed /\ ticks' = ticks /\ ticks \in Nat
  BY DEF ScreenInv, AtStep, Near, ScrollRow, TailInv
<1>2. PICK n \in Nat : n = main.n  BY <1>1 DEF Line
<1>3. PICK w \in Nat, z \in Nat, M \in Nat :
          w = width /\ z = Size /\ M = n * width /\ w >= 1
          /\ (n + 1) * width = M + w /\ n + 1 \in Nat
  <2>1. n * width \in Nat  BY InRow
  <2>2. (n + 1) * width = n * width + width  BY RowNext
  <2> QED  BY <2>1, <2>2, ScreenIs
<1>4. (height - 1) * width = z - w /\ z - w >= 0
  <2>1. (height - 1) * width = height * width - width /\ height * width = Size
    BY RowNext, ScreenIs
  <2> QED  BY <1>3, <2>1, ScreenIs
<1>5. \A i \in 0 .. Size - 1 : i \in Nat /\ i < z /\ i \in 0 .. MAPPED - 1
      /\ (i \div width = n <=> M <= i /\ i < M + w)
  <2> TAKE i \in 0 .. Size - 1
  <2>1. i \in Nat /\ i < Size  BY ScreenIs
  <2> QED  BY <1>3, <2>1, OnScreen, InRow
<1>6. ASSUME NEW J \in Nat, TailAt(main, screen, printed, J)
      PROVE  /\ screen.cursor >= Size /\ Positions(main, screen, Sheet(main, printed), J)
             /\ \A i \in 0 .. Size - 1 :
                   Cell(screen.cells[i], Sheet(main, printed).ink,
                        i + J + (IF i < M THEN w ELSE 0))
  <2>1. Positions(main, screen, Sheet(main, printed), J)  BY <1>6 DEF TailAt
  <2>2. \A i : Up(main, i) = IF i < M THEN w ELSE 0  BY <1>1, <1>2, <1>3 DEF Up, Moving
  <2> QED  BY <1>1, <1>6, <2>1, <2>2 DEF TailAt, Positions
<1>7. CASE n < height - 1
  <2>1. PICK k \in Nat : k = n + 1  OBVIOUS
  <2>2. screen' = CopyRow(screen, n) /\ main' = [main EXCEPT !.n = k]
    BY <1>2, <1>7, <2>1 DEF ScrollRow
  <2>3. main'.pc = "copy" /\ main'.n = k /\ main'.rest = main.rest /\ main'.for = main.for
    BY <1>1, <2>2 DEF Line
  <2>4. screen'.cursor = screen.cursor
        /\ screen'.cells = [i \in 0 .. MAPPED - 1 |->
                              IF i \div width = n THEN screen.cells[i + width] ELSE screen.cells[i]]
    <3>1. n \in 0 .. height - 2  BY <1>7, ScreenIs
    <3>2. CopyRow(screen, n) \in Like(screen.cursor, screen.reach)  BY <1>1, <3>1, CopyRowIs
    <3>3. screen'.cursor = screen.cursor  BY <2>2, <3>2, LikeIs
    <3> QED  BY <1>1, <2>2, <3>3, CellsAre
  <2>5. M + w <= z - w
    <3>1. n + 1 <= height - 1 /\ n + 1 \in Int /\ height - 1 \in Int  BY <1>7, ScreenIs
    <3>2. (n + 1) * width <= (height - 1) * width  BY <3>1, Rows
    <3> QED  BY <1>3, <1>4, <3>2
  <2>6. ASSUME NEW J \in Nat, TailAt(main, screen, printed, J)
        PROVE  TailAt(main', screen', printed', J)
    <3>1. PICK o : o = Sheet(main, printed) /\ o = Sheet(main', printed')
      BY <1>1, <2>3 DEF Sheet, Typing
    <3>2. Positions(main', screen', o, J)
      BY <1>1, <1>6, <2>3, <2>4, <2>6, <3>1 DEF Positions, Moving
    <3>3. \A i : Up(main', i) = IF i < M + w THEN w ELSE 0
      BY <1>3, <2>1, <2>3 DEF Up, Moving
    <3>4. ASSUME NEW i \in 0 .. Size - 1
          PROVE  Cell(screen'.cells[i], o.ink, i + J + (IF i < M + w THEN w ELSE 0))
      <4>1. i \in Nat /\ i < z /\ i \in 0 .. MAPPED - 1  BY <1>5
      <4>2. CASE M <= i /\ i < M + w
        <5>1. i + w \in 0 .. Size - 1 /\ ~ (i + w < M)  BY <1>3, <2>5, <4>1, <4>2
        <5>2. screen'.cells[i] = screen.cells[i + w]  BY <1>3, <1>5, <2>4, <4>1, <4>2
        <5>3. Cell(screen.cells[i + w], o.ink, i + w + J + 0)  BY <1>6, <2>6, <3>1, <5>1
        <5>4. i + w + J + 0 = i + J + w  BY <4>1
        <5> QED  BY <4>2, <5>2, <5>3, <5>4
      <4>3. CASE ~ (M <= i /\ i < M + w)
        <5>1. screen'.cells[i] = screen.cells[i]  BY <1>5, <2>4, <4>1, <4>3
        <5>2. (i < M) <=> (i < M + w)  BY <4>1, <4>3
        <5> QED  BY <1>6, <2>6, <3>1, <5>1, <5>2
      <4> QED  BY <4>2, <4>3
    <3> QED  BY <1>3, <2>3, <3>1, <3>2, <3>3, <3>4 DEF TailAt
  <2>7. \A j \in Nat : j * width \in Nat  BY InRow
  <2> QED  BY <1>1, <2>3, <2>6, <2>7 DEF TailInv
<1>8. CASE ~ (n < height - 1)
  <2>1. screen' = BlankRow(screen) /\ main' = [main EXCEPT !.pc = "first", !.for = "scroll"]
    BY <1>2, <1>8 DEF ScrollRow
  <2>2. main'.pc = "first" /\ main'.for = "scroll" /\ main'.rest = main.rest
    BY <1>1, <2>1 DEF Line
  <2>3. n = height - 1 /\ M = z - w
    <3>1. n = height - 1  BY <1>1, <1>2, <1>8, ScreenIs
    <3> QED  BY <1>3, <1>4, <3>1
  <2>4. screen'.cursor = screen.cursor
        /\ screen'.cells = [i \in 0 .. MAPPED - 1 |->
                              IF i \div width = n THEN Blank ELSE screen.cells[i]]
    <3>1. BlankRow(screen) \in Like(screen.cursor, screen.reach)  BY <1>1, BlankRowIs
    <3>2. screen'.cursor = screen.cursor  BY <2>1, <3>1, LikeIs
    <3>3. screen'.cells = [i \in 0 .. MAPPED - 1 |->
                              IF i \div width = height - 1 THEN Blank ELSE screen.cells[i]]
      BY <1>1, <2>1, CellsAre
    <3> QED  BY <2>3, <3>2, <3>3
  <2>5. ASSUME NEW J \in Nat, printed \in Sheets, TailAt(main, screen, printed, J)
        PROVE  TailAt(main', screen', printed', J)
    <3>1. PICK o : o = Sheet(main, printed) /\ o = Sheet(main', printed')
      BY <1>1, <2>2 DEF Sheet, Typing
    <3>2. Positions(main', screen', o, J)
      BY <1>1, <1>6, <2>2, <2>4, <2>5, <3>1 DEF Positions, Moving
    <3>3. \A i : Up(main', i) = w  BY <1>3, <2>2 DEF Up, Moving
    <3>4. ASSUME NEW i \in 0 .. Size - 1  PROVE Cell(screen'.cells[i], o.ink, i + J + w)
      <4>1. i \in Nat /\ i < z /\ i \in 0 .. MAPPED - 1  BY <1>5
      <4>2. CASE i < M
        <5>1. screen'.cells[i] = screen.cells[i]  BY <1>5, <2>4, <4>1, <4>2
        <5> QED  BY <1>6, <2>5, <3>1, <4>2, <5>1
      <4>3. CASE ~ (i < M)
        <5>1. screen'.cells[i] = Blank
          <6>1. M <= i /\ i < M + w  BY <2>3, <4>1, <4>3
          <6> QED  BY <1>5, <2>4, <4>1, <6>1
        <5>2. o \in Sheets
          <6>1. main.rest # <<>> /\ Head(main.rest) # <<>>  BY <1>1 DEF ScreenInv, AtStep
          <6>2. Char \in Clean  BY <1>1, <6>1, CharClean
          <6>3. o = OnPaper(printed, Char)  BY <1>1, <3>1 DEF Sheet, Typing, Char
          <6> QED  BY <2>5, <6>2, <6>3, OnPaperIs
        <5>3. \A r \in o.ink : r[1] # i + J + w
          <6> TAKE r \in o.ink
          <6>1. r[1] \in Nat  BY <5>2 DEF Sheets
          <6>2. r[1] < J + z  BY <1>3, <1>6, <2>5, <3>1 DEF Positions
          <6> QED  BY <2>3, <4>1, <4>3, <6>1, <6>2
        <5> QED  BY <5>1, <5>3 DEF Cell
      <4> QED  BY <4>2, <4>3
    <3> QED  BY <1>3, <2>2, <3>1, <3>2, <3>3, <3>4 DEF TailAt
  <2>6. \A j \in Nat : j * width \in Nat  BY InRow
  <2> QED  BY <1>1, <2>2, <2>5, <2>6 DEF TailInv
<1> QED  BY <1>7, <1>8

(* With the cursor a row up, the rows of the screen are a row further down *)
(* on the paper.                                                           *)
LEMMA SecondReadTail == ScreenInv /\ TailInv /\ SecondRead => TailInv'
<1> SUFFICES ASSUME ScreenInv, TailInv, SecondRead  PROVE TailInv'
  OBVIOUS
<1>1. /\ main \in Line /\ main.pc = "second" /\ screen \in Displays /\ screen.cursor < Reach
      /\ main.rest \in Seq(Seq(Clean)) /\ main.for \in {"sync", "scroll"}
      /\ main' = [main EXCEPT !.pc = "out", !.n = 1]
      /\ printed' = printed /\ ticks' = ticks /\ ticks \in Nat
  BY DEF ScreenInv, AtStep, Near, SecondRead, TailInv
<1>2. main'.pc = "out" /\ main'.rest = main.rest /\ main'.for = main.for
  BY <1>1 DEF Line
<1>3. PICK a \in Nat : a = screen.cursor /\ a < Reach  BY <1>1 DEF Displays
<1>4. ASSUME main.pos = a
      PROVE  /\ screen'.cells = screen.cells
             /\ main.for = "sync" => screen'.cursor = a
             /\ main.for = "scroll" /\ a >= width => screen'.cursor = a - width
  <2>1. PICK up \in {0, 1} : up = RowsUp(main.for) /\ (main.for = "scroll" => up = 1)
                             /\ (main.for = "sync" => up = 0)
    BY DEF RowsUp
  <2>2. PICK y \in Int, x \in Int : y = getCursorPosY(a) /\ x = getCursorPosX(a)
    <3>1. PICK y, x : y = getCursorPosY(a) /\ x = getCursorPosX(a)  OBVIOUS
    <3>2. y \in Nat /\ x \in 0 .. width - 1  BY <3>1, Place
    <3> QED  BY <3>1, <3>2, ScreenIs
  <2>3. PICK d : d = Position(x, y - up)  OBVIOUS
  <2>4. d \in 0 .. WORD16 - 1
    <3>1. y - up \in Int  OBVIOUS
    <3> QED  BY <2>3, <3>1, PositionIs
  <2>5. screen' = Moved(screen, d)  BY <1>3, <1>4, <2>1, <2>2, <2>3 DEF SecondRead
  <2>6. screen'.cursor = d /\ screen'.cells = screen.cells
    <3>1. d % WORD16 = d /\ d \in Int  BY <2>4, ScreenIs
    <3>2. Moved(screen, d) \in Like(d, screen.reach)  BY <1>1, <3>1, MovedIs
    <3>3. screen'.cursor = d  BY <2>5, <3>2, LikeIs
    <3> QED  BY <1>1, <2>5, <3>3, CellsAre
  <2>7. main.for = "sync" => d = a
    <3>1. y - 0 = y  OBVIOUS
    <3> QED  BY <1>3, <2>1, <2>2, <2>3, <3>1, Back
  <2>8. main.for = "scroll" /\ a >= width => d = a - width
    BY <1>3, <2>1, <2>2, <2>3, Back
  <2> QED  BY <2>6, <2>7, <2>8
<1>5. CASE main.for = "sync"
  <2>1. ASSUME NEW J, TailAt(main, screen, printed, J)
        PROVE  TailAt(main', screen', printed', J)
    <3>1. Sheet(main', printed') = Sheet(main, printed)
      BY <1>1, <1>2, <1>5 DEF Sheet, Typing
    <3>2. ~ Moving(main') /\ ~ Moving(main)  BY <1>2, <1>5 DEF Moving
    <3>3. main.pos = a  BY <1>1, <1>3, <2>1 DEF TailAt, Positions
    <3>4. screen'.cells = screen.cells /\ screen'.cursor = screen.cursor
      BY <1>3, <1>4, <1>5, <3>3
    <3>5. main.pc \notin {"put", "copy"} /\ main'.pc \notin {"put", "copy", "move", "second"}
      BY <1>1, <1>2
    <3> QED  BY <2>1, <3>1, <3>2, <3>4, <3>5, TailLike
  <2> QED  BY <1>1, <1>2, <2>1 DEF TailInv
<1>6. CASE main.for = "scroll"
  <2>1. PICK w \in Nat, z \in Nat : w = width /\ z = Size /\ z >= w + w  BY ScreenIs
  <2>2. ASSUME NEW j \in Nat, TailAt(main, screen, printed, j * width), printed \in Sheets
        PROVE  TailAt(main', screen', printed', (j + 1) * width)
    <3>1. PICK J \in Nat : J = j * width  BY InRow
    <3>2. PICK K \in Nat : K = (j + 1) * width /\ K = J + w
      <4>1. (j + 1) * width = j * width + width  BY RowNext
      <4> QED  BY <2>1, <3>1, <4>1
    <3>3. PICK o : o = Sheet(main, printed) /\ o = Sheet(main', printed')
      BY <1>1, <1>2, <1>6 DEF Sheet, Typing
    <3>4. Moving(main) /\ ~ Moving(main')  BY <1>1, <1>2, <1>6 DEF Moving
    <3>5. /\ o.pos = a + J /\ a >= z /\ main.pos = a
          /\ \A r \in o.ink : r[1] < J + z
      BY <1>1, <1>3, <2>1, <2>2, <3>1, <3>3, <3>4 DEF TailAt, Positions
    <3>6. screen'.cells = screen.cells /\ screen'.cursor = a - w
      <4>1. a >= w  BY <2>1, <3>5
      <4> QED  BY <1>4, <1>6, <2>1, <3>5, <4>1
    <3>7. o \in Sheets
      <4>1. main.rest # <<>> /\ Head(main.rest) # <<>>  BY <1>1, <1>6 DEF ScreenInv, AtStep
      <4>2. Char \in Clean  BY <1>1, <4>1, CharClean
      <4>3. o = OnPaper(printed, Char)  BY <1>1, <1>6, <3>3 DEF Sheet, Typing, Char
      <4> QED  BY <2>2, <4>2, <4>3, OnPaperIs
    <3>8. Positions(main', screen', o, K)
      <4>1. o.pos = (a - w) + K  BY <3>2, <3>5
      <4>2. a - w >= z - w  BY <3>5
      <4>3. \A r \in o.ink : r[1] < K + z
        <5> TAKE r \in o.ink
        <5>1. r[1] \in Nat /\ r[1] < J + z  BY <3>5, <3>7 DEF Sheets
        <5> QED  BY <3>2, <5>1
      <4> QED  BY <1>2, <2>1, <3>4, <3>6, <4>1, <4>2, <4>3 DEF Positions
    <3>9. ASSUME NEW i \in 0 .. Size - 1  PROVE Cell(screen'.cells[i], o.ink, i + K + 0)
      <4>1. Up(main, i) = w  BY <2>1, <3>4 DEF Up
      <4>2. Cell(screen.cells[i], o.ink, i + J + w)
        BY <1>1, <2>2, <3>1, <3>3, <4>1 DEF TailAt
      <4>3. i \in Int /\ i + J + w = i + K + 0  BY <3>2, ScreenIs
      <4> QED  BY <3>6, <4>2, <4>3
    <3>10. \A i : Up(main', i) = 0  BY <1>2, <3>4 DEF Up
    <3> QED  BY <1>2, <3>2, <3>3, <3>8, <3>9, <3>10 DEF TailAt
  <2>3. \A j \in Nat : j + 1 \in Nat  OBVIOUS
  <2> QED  BY <1>1, <1>2, <2>2, <2>3 DEF TailInv
<1> QED  BY <1>1, <1>5, <1>6

LEMMA TailStep == ScreenInv /\ TailInv /\ [Next]_vars => TailInv'
<1> SUFFICES ASSUME ScreenInv, TailInv, [Next]_vars  PROVE TailInv'
  OBVIOUS
<1>1. CASE UNCHANGED vars  BY <1>1 DEF vars, TailInv
<1>2. CASE Next
  BY <1>2, StartTail, CallTail, LoadTail, MoveTail, PutTail, CheckTail, ScrollRowTail,
     FirstReadTail, SecondReadTail, OutTail, AloneTail, TickTail
     DEF Next, Main
<1> QED  BY <1>1, <1>2

(* Between calls, the rows of the screen are the last ones of the paper. *)
LEMMA TailShown == ScreenInv /\ TailInv => ScreenShowsTail
<1> SUFFICES ASSUME ScreenInv, TailInv, Resting, ticks = 0
             PROVE  LET top == Max({0, printed.pos \div width - (height - 1)}) * width
                    IN  /\ screen.cursor = printed.pos - top
                        /\ \A i \in 0 .. Size - 1 :
                            LET ink == {q[2] : q \in {r \in printed.ink : r[1] = top + i}}
                            IN  IF ink = {} THEN screen.cells[i] = Blank
                                ELSE ink = {screen.cells[i]}
  BY DEF ScreenShowsTail
<1>1. /\ main.pc \in {"idle", "push", "resize", "replace"} /\ screen \in Displays
      /\ screen.cursor < Size /\ printed \in Sheets
  BY DEF ScreenInv, AtStep, Near, Resting, TailInv
<1>2. PICK j \in Nat : TailAt(main, screen, printed, j * width)  BY <1>1 DEF TailInv
<1>3. PICK J \in Nat : J = j * width  BY InRow
<1>4. PICK a \in Nat : a = screen.cursor /\ a < Size  BY <1>1 DEF Displays
<1>5. Sheet(main, printed) = printed /\ \A i : Up(main, i) = 0
  BY <1>1 DEF Sheet, Typing, Up, Moving
<1>6. printed.pos = a + J /\ (J = 0 \/ a >= Size - width)
      /\ \A i \in 0 .. Size - 1 : Cell(screen.cells[i], printed.ink, i + J + 0)
  BY <1>1, <1>2, <1>3, <1>4, <1>5 DEF TailAt, Positions
<1>7. PICK y \in Nat, h \in Nat : y = getCursorPosY(a) /\ h = height - 1 /\ y <= h
                                  /\ printed.pos \div width = y + j
  <2>1. PICK y \in Nat : y = getCursorPosY(a) /\ y < height  BY <1>4, Place
  <2>2. printed.pos = a + j * width  BY <1>3, <1>6
  <2>3. printed.pos \div width = y + j  BY <2>1, <2>2, RowsDown DEF getCursorPosY
  <2> QED  BY <2>1, <2>3, ScreenIs
<1>8. j > 0 => y = h
  <2> SUFFICES ASSUME j > 0  PROVE y = h  OBVIOUS
  <2>1. J > 0
    <3>1. 1 <= j /\ 1 \in Int /\ j \in Int  OBVIOUS
    <3>2. 1 * width <= j * width /\ 1 * width = width  BY <3>1, Rows, ScreenIs
    <3> QED  BY <1>3, <3>2, ScreenIs
  <2>2. h * width = Size - width
    <3>1. (height - 1) * width = height * width - width /\ height * width = Size
      BY RowNext, ScreenIs
    <3> QED  BY <1>7, <3>1
  <2>3. a >= h * width /\ a < h * width + width
    <3>1. a >= Size - width  BY <1>6, <2>1
    <3>2. Size - width + width = Size  BY ScreenIs
    <3> QED  BY <1>4, <2>2, <3>1, <3>2
  <2> QED  BY <1>7, <2>3, InRow DEF getCursorPosY
<1>9. Max({0, printed.pos \div width - (height - 1)}) = j
  <2>1. PICK k \in Int : k = printed.pos \div width - (height - 1) /\ k = y + j - h  BY <1>7
  <2>2. j = 0 => k <= 0  BY <1>7, <2>1
  <2>3. j > 0 => k = j  BY <1>8, <2>1
  <2>4. Max({0, k}) = IF 0 >= k THEN 0 ELSE k  BY MaxIs
  <2> QED  BY <2>1, <2>2, <2>3, <2>4
<1>10. screen.cursor = printed.pos - J  BY <1>4, <1>6
<1>11. ASSUME NEW i \in 0 .. Size - 1
       PROVE  LET ink == {q[2] : q \in {r \in printed.ink : r[1] = J + i}}
              IN  IF ink = {} THEN screen.cells[i] = Blank ELSE ink = {screen.cells[i]}
  <2>1. PICK q \in Nat : q = J + i /\ q = i + J + 0  BY ScreenIs
  <2>2. PICK v : v = screen.cells[i]  OBVIOUS
  <2>3. Cell(v, printed.ink, q)  BY <1>6, <2>1, <2>2
  <2> DEFINE ink == {r[2] : r \in {r \in printed.ink : r[1] = q}}
  <2>4. \A c \in ink : c = v  BY <2>3 DEF Cell
  <2>5. v # Blank => v \in ink
    <3>1. v # Blank => <<q, v>> \in printed.ink  BY <2>3 DEF Cell
    <3>2. <<q, v>>[1] = q /\ <<q, v>>[2] = v  OBVIOUS
    <3> QED  BY <3>1, <3>2
  <2>6. IF ink = {} THEN v = Blank ELSE ink = {v}  BY <2>4, <2>5
  <2> QED  BY <2>1, <2>2, <2>6
<1> QED  BY <1>3, <1>9, <1>10, <1>11

(***************************************************************************)
(* As long as the main line prints alone, the screen shows the last rows   *)
(* of all it printed, each in its place (arch/X86_64/printk.c:67-127): for *)
(* every size of the screen, and texts that no \r, \b or \v moves about.   *)
(***************************************************************************)
THEOREM ScreenShowsTailAlways == Spec => []ScreenShowsTail
<1>1. Init => ScreenInv /\ TailInv  BY ScreenInit, TailInit
<1>2. (ScreenInv /\ TailInv) /\ [Next]_vars => (ScreenInv /\ TailInv)'
  BY ScreenStep, TailStep
<1>3. ScreenInv /\ TailInv => ScreenShowsTail  BY TailShown
<1> QED  BY <1>1, <1>2, <1>3, PTL DEF Spec

-----------------------------------------------------------------------------
(* The array of entries. *)
Pushers == {"main", "irq"}
Entries == Pushers \cup {"unset"}

LEMMA GrowsBy == ARRAY_ALLOC_LENGTH \in Nat \ {0}
BY LogAssumption

USE GrowsBy

-----------------------------------------------------------------------------
(* An array of n entries that takes its block b for one of m. *)
Logs(a, n, m, b) ==
    /\ DOMAIN a = {"length", "alloc_length", "arr", "stray"}
    /\ a.length = n /\ a.alloc_length = m /\ a.arr = b /\ a.stray = FALSE

(* The block begins with the entries s. *)
Filled(b, s, k) ==
    /\ b \in [0 .. k - 1 -> Entries] /\ Len(s) <= k
    /\ \A i \in 1 .. Len(s) : b[i - 1] = s[i]

Holds(s, k, m) ==
    \E b \in [0 .. k - 1 -> Entries] : Filled(b, s, k) /\ Logs(logs, Len(s), m, b)

(* Room for one entry more, and for no more than a step of growth. *)
Roomy(n, m) == n < m /\ m - n <= ARRAY_ALLOC_LENGTH

(***************************************************************************)
(* Between calls there is room for the next entry (array.c:27-33).  In the *)
(* middle of one it may be used up, and alloc_length runs ahead of the     *)
(* block until the block is replaced.                                      *)
(***************************************************************************)
LogInv ==
    /\ order \in Seq(Pushers) /\ "pc" \in DOMAIN main
    /\ \E m \in Nat :
          /\ main.pc = "resize" =>
                /\ Holds(order, m, m)
                /\ Len(order) <= m /\ m - Len(order) < ARRAY_ALLOC_LENGTH
          /\ main.pc = "replace" =>
                /\ Holds(order, Len(order), m)
                /\ m = Len(order) + ARRAY_ALLOC_LENGTH
          /\ ~ InPush => Holds(order, m, m) /\ Roomy(Len(order), m)

-----------------------------------------------------------------------------
(* What is pushed goes behind the entries there are. *)
LEMMA StoreFills ==
    ASSUME NEW a, NEW s \in Seq(Pushers), NEW k \in Nat, NEW m \in Nat, Len(s) < k,
           NEW b, Filled(b, s, k), Logs(a, Len(s), m, b), NEW v \in Pushers
    PROVE  \E c : /\ Filled(c, Append(s, v), k)
                  /\ Logs(array_store(a, v), Len(s) + 1, m, c)
<1>1. PICK n \in Nat : n = Len(s)  OBVIOUS
<1> DEFINE c == [b EXCEPT ![n] = v]
<1>2. n \in 0 .. k - 1 /\ b \in [0 .. k - 1 -> Entries] /\ DOMAIN b = 0 .. k - 1
  BY <1>1 DEF Filled
<1>3. n \in DOMAIN b /\ a.length = n /\ a.arr = b /\ a.stray = FALSE /\ a.alloc_length = m
      /\ DOMAIN a = {"length", "alloc_length", "arr", "stray"}
  BY <1>1, <1>2 DEF Logs
<1>4. Logs(array_store(a, v), n + 1, m, c)
  <2>1. PICK x : x = IF a.length \in DOMAIN a.arr THEN [a.arr EXCEPT ![a.length] = v] ELSE a.arr
    OBVIOUS
  <2>2. PICK y : y = (a.stray \/ a.length \notin DOMAIN a.arr)  OBVIOUS
  <2>3. PICK z : z = a.length + 1  OBVIOUS
  <2>4. x = c /\ z = n + 1  BY <1>3, <2>1, <2>3
  <2>5. y = FALSE  BY <1>3, <2>2
  <2>6. array_store(a, v) = [a EXCEPT !.arr = x, !.stray = y, !.length = z]
    BY <2>1, <2>2, <2>3, Zenon DEF array_store
  <2> HIDE DEF c
  <2>7. PICK e : e = array_store(a, v)  OBVIOUS
  <2>8. DOMAIN e = DOMAIN a /\ e.length = z /\ e.alloc_length = a.alloc_length
        /\ e.arr = x /\ e.stray = y
    BY <1>3, <2>6, <2>7
  <2> QED  BY <1>3, <2>4, <2>5, <2>7, <2>8 DEF Logs
<1>5. /\ Append(s, v) \in Seq(Pushers) /\ Len(Append(s, v)) = n + 1
      /\ Append(s, v)[n + 1] = v /\ \A i \in 1 .. n : Append(s, v)[i] = s[i]
  BY <1>1
<1>6. Filled(c, Append(s, v), k)
  <2>1. c \in [0 .. k - 1 -> Entries]  BY <1>2 DEF Entries
  <2>2. ASSUME NEW i \in 1 .. n + 1  PROVE c[i - 1] = Append(s, v)[i]
    <3>1. CASE i = n + 1
      <4>1. i - 1 = n  BY <3>1
      <4> QED  BY <1>2, <1>5, <3>1, <4>1
    <3>2. CASE i # n + 1
      <4>1. i \in 1 .. n /\ i - 1 \in 0 .. k - 1 /\ i - 1 # n  BY <1>2, <3>2
      <4>2. c[i - 1] = b[i - 1]  BY <1>2, <4>1
      <4>3. b[i - 1] = s[i]  BY <1>1, <4>1 DEF Filled
      <4> QED  BY <1>5, <4>1, <4>2, <4>3
    <3> QED  BY <3>1, <3>2
  <2> HIDE DEF c
  <2> QED  BY <1>2, <1>5, <2>1, <2>2 DEF Filled
<1> QED  BY <1>1, <1>4, <1>6

(* The block that replaces a full one, or any other, has them too. *)
LEMMA ReplacedFills ==
    ASSUME NEW a, NEW s \in Seq(Pushers), NEW k \in Nat, NEW m \in Nat, Len(s) <= m,
           NEW b, Filled(b, s, k), Logs(a, Len(s), m, b)
    PROVE  \E c : Filled(c, s, m) /\ Logs(Replaced(a), Len(s), m, c)
<1>1. PICK n \in Nat : n = Len(s)  OBVIOUS
<1> DEFINE c == [i \in 0 .. m - 1 |-> IF i < n /\ i \in DOMAIN b THEN b[i] ELSE "unset"]
<1>2. n <= k /\ b \in [0 .. k - 1 -> Entries] /\ DOMAIN b = 0 .. k - 1
      /\ \A i \in 1 .. n : b[i - 1] = s[i]
  BY <1>1 DEF Filled
<1>3. a.length = n /\ a.alloc_length = m /\ a.arr = b /\ a.stray = FALSE
      /\ DOMAIN a = {"length", "alloc_length", "arr", "stray"}
  BY <1>1 DEF Logs
<1>4. Logs(Replaced(a), n, m, c)
  <2>1. Replaced(a) = [a EXCEPT !.arr = c]
    BY <1>3 DEF Replaced
  <2> HIDE DEF c
  <2>2. PICK e : e = Replaced(a)  OBVIOUS
  <2>3. DOMAIN e = DOMAIN a /\ e.length = a.length /\ e.alloc_length = a.alloc_length
        /\ e.arr = c /\ e.stray = a.stray
    BY <1>3, <2>1, <2>2
  <2> QED  BY <1>3, <2>2, <2>3 DEF Logs
<1>5. c \in [0 .. m - 1 -> Entries]  BY <1>2 DEF Entries
<1>6. ASSUME NEW i \in 1 .. n  PROVE c[i - 1] = s[i]
  <2>1. i - 1 \in 0 .. m - 1 /\ i - 1 < n /\ i - 1 \in 0 .. k - 1  BY <1>1, <1>2
  <2> QED  BY <1>2, <2>1
<1> HIDE DEF c
<1>7. Filled(c, s, m)  BY <1>1, <1>5, <1>6 DEF Filled
<1> QED  BY <1>1, <1>4, <1>7

(* alloc_length after a push: the block grows when the last cell is taken. *)
LEMMA CapacityIs ==
    ASSUME NEW a, NEW n \in Nat, NEW m \in Nat, NEW b, n <= m,
           m - n < ARRAY_ALLOC_LENGTH, Logs(a, n, m, b)
    PROVE  Capacity(a) = IF n = m THEN m + ARRAY_ALLOC_LENGTH ELSE m
<1>1. PICK A \in Nat \ {0} : A = ARRAY_ALLOC_LENGTH  OBVIOUS
<1>2. a.length = n /\ a.alloc_length = m  BY DEF Logs
<1>3. Capacity(a) = IF n >= m THEN m + A ELSE IF n < m - A THEN m - A ELSE m
  BY <1>1, <1>2 DEF Capacity
<1> QED  BY <1>1, <1>3

LEMMA LengthSet ==
    ASSUME NEW a, NEW n, NEW m, NEW b, NEW l, Logs(a, n, m, b)
    PROVE  Logs([a EXCEPT !.alloc_length = l], n, l, b)
<1>1. PICK e : e = [a EXCEPT !.alloc_length = l]  OBVIOUS
<1>2. DOMAIN a = {"length", "alloc_length", "arr", "stray"}  BY DEF Logs
<1>3. DOMAIN e = DOMAIN a /\ e.length = a.length /\ e.alloc_length = l
      /\ e.arr = a.arr /\ e.stray = a.stray
  BY <1>1, <1>2
<1> QED  BY <1>1, <1>3 DEF Logs

(* array_push as a whole, as a tick calls it. *)
LEMMA PushFills ==
    ASSUME NEW s \in Seq(Pushers), NEW m \in Nat, Roomy(Len(s), m), Holds(s, m, m),
           NEW v \in Pushers, logs' = array_push(logs, v), order' = Append(s, v)
    PROVE  \E l \in Nat : Holds(order, l, l)' /\ Roomy(Len(order'), l)
<1>1. PICK b \in [0 .. m - 1 -> Entries] : Filled(b, s, m) /\ Logs(logs, Len(s), m, b)
  BY DEF Holds
<1>2. PICK A \in Nat \ {0} : A = ARRAY_ALLOC_LENGTH  OBVIOUS
<1>3. PICK n \in Nat : n = Len(s) /\ n < m /\ m - n <= A  BY <1>2 DEF Roomy
<1>4. PICK a : a = array_store(logs, v)  OBVIOUS
<1>5. PICK c : Filled(c, Append(s, v), m) /\ Logs(a, n + 1, m, c)
  BY <1>1, <1>3, <1>4, StoreFills
<1>6. Append(s, v) \in Seq(Pushers) /\ Len(Append(s, v)) = n + 1  BY <1>3
<1>7. n + 1 \in Nat /\ n + 1 <= m /\ m - (n + 1) < ARRAY_ALLOC_LENGTH  BY <1>2, <1>3
<1>8. Capacity(a) = IF n + 1 = m THEN m + A ELSE m
  BY <1>2, <1>5, <1>7, CapacityIs
<1>9. a.alloc_length = m /\ logs' = array_resize(a)
  BY <1>4, <1>5 DEF Logs, array_push
<1>10. CASE n + 1 # m
  <2>1. logs' = a  BY <1>8, <1>9, <1>10 DEF array_resize
  <2>2. c \in [0 .. m - 1 -> Entries]  BY <1>5 DEF Filled
  <2>3. Holds(order, m, m)'  BY <1>5, <1>6, <2>1, <2>2 DEF Holds
  <2>4. Roomy(n + 1, m)  BY <1>7, <1>10 DEF Roomy
  <2> QED  BY <1>6, <2>3, <2>4
<1>11. CASE n + 1 = m
  <2>1. PICK l \in Nat : l = m + A  OBVIOUS
  <2>2. l # m /\ n + 1 <= l  BY <1>2, <1>11, <2>1
  <2>3. PICK g : g = [a EXCEPT !.alloc_length = l]  OBVIOUS
  <2>4. logs' = Replaced(g)
    BY <1>8, <1>9, <1>11, <2>1, <2>2, <2>3 DEF array_resize
  <2>5. Logs(g, n + 1, l, c)  BY <1>5, <2>3, LengthSet
  <2>6. PICK d : Filled(d, Append(s, v), l) /\ Logs(logs', n + 1, l, d)
    <3>1. PICK t \in Seq(Pushers) : t = Append(s, v) /\ Len(t) = n + 1  BY <1>6
    <3>2. Len(t) <= l /\ Filled(c, t, m) /\ Logs(g, Len(t), l, c)
      BY <1>5, <2>2, <2>5, <3>1
    <3>3. \E d : Filled(d, t, l) /\ Logs(Replaced(g), Len(t), l, d)
      BY <3>2, ReplacedFills
    <3> QED  BY <2>4, <3>1, <3>3
  <2>7. d \in [0 .. l - 1 -> Entries]  BY <2>6 DEF Filled
  <2>8. Holds(order, l, l)'  BY <1>6, <2>6, <2>7 DEF Holds
  <2>9. Roomy(n + 1, l)  BY <1>2, <1>11, <2>1 DEF Roomy
  <2> QED  BY <1>6, <2>8, <2>9
<1> QED  BY <1>10, <1>11

-----------------------------------------------------------------------------
LEMMA LogInit == Init => LogInv
<1> SUFFICES ASSUME Init  PROVE LogInv
  OBVIOUS
<1>1. PICK A \in Nat \ {0} : A = ARRAY_ALLOC_LENGTH  OBVIOUS
<1> DEFINE b == [i \in 0 .. A - 1 |-> "unset"]
<1>2. /\ order = <<>> /\ Len(order) = 0 /\ order \in Seq(Pushers)
      /\ main.pc = "start" /\ "pc" \in DOMAIN main
  BY DEF Init
<1>3. b \in [0 .. A - 1 -> Entries] /\ Filled(b, order, A)
  BY <1>2 DEF Entries, Filled
<1>4. Logs(logs, 0, A, b)  BY <1>1 DEF Init, newArray, Logs
<1> HIDE DEF b
<1>5. Holds(order, A, A)  BY <1>2, <1>3, <1>4 DEF Holds
<1>6. Roomy(Len(order), A)  BY <1>1, <1>2 DEF Roomy
<1> QED  BY <1>2, <1>5, <1>6 DEF LogInv, InPush

(* A step elsewhere in printk leaves the log as it is. *)
LEMMA Elsewhere ==
    ASSUME LogInv, ~ InPush, ~ InPush', "pc" \in DOMAIN main', UNCHANGED <<logs, order>>
    PROVE  LogInv'
BY DEF LogInv, InPush, Holds

LEMMA PushEntryKeeps == LogInv /\ PushEntry => LogInv'
<1> SUFFICES ASSUME LogInv, PushEntry  PROVE LogInv'
  OBVIOUS
<1>1. /\ main.pc = "push" /\ logs' = array_store(logs, "main")
      /\ order' = Append(order, "main") /\ main' = [main EXCEPT !.pc = "resize"]
  BY DEF PushEntry, At
<1>2. order \in Seq(Pushers) /\ ~ InPush  BY <1>1 DEF LogInv, InPush
<1>3. PICK m \in Nat : Holds(order, m, m) /\ Roomy(Len(order), m)
  BY <1>2 DEF LogInv
<1>4. PICK b \in [0 .. m - 1 -> Entries] : Filled(b, order, m) /\ Logs(logs, Len(order), m, b)
  BY <1>3 DEF Holds
<1>5. PICK A \in Nat \ {0} : A = ARRAY_ALLOC_LENGTH  OBVIOUS
<1>6. PICK n \in Nat : n = Len(order) /\ n < m /\ m - n <= A  BY <1>2, <1>3, <1>5 DEF Roomy
<1>7. "main" \in Pushers  BY DEF Pushers
<1>8. PICK c : Filled(c, order', m) /\ Logs(logs', n + 1, m, c)
  BY <1>1, <1>2, <1>4, <1>6, <1>7, StoreFills
<1>9. order' \in Seq(Pushers) /\ Len(order') = n + 1  BY <1>1, <1>2, <1>6, <1>7
<1>10. c \in [0 .. m - 1 -> Entries]  BY <1>8 DEF Filled
<1>11. Holds(order, m, m)'  BY <1>8, <1>9, <1>10 DEF Holds
<1>12. n + 1 <= m /\ m - (n + 1) < A  BY <1>6
<1>13. main'.pc = "resize" /\ "pc" \in DOMAIN main'  BY <1>1 DEF LogInv
<1> QED  BY <1>5, <1>9, <1>11, <1>12, <1>13 DEF LogInv, InPush

LEMMA ResizeLogsKeeps == LogInv /\ ResizeLogs => LogInv'
<1> SUFFICES ASSUME LogInv, ResizeLogs  PROVE LogInv'
  OBVIOUS
<1>1. PICK pc : pc = IF Capacity(logs) = logs.alloc_length THEN "idle" ELSE "replace"
  OBVIOUS
<1>2. /\ main.pc = "resize" /\ logs' = [logs EXCEPT !.alloc_length = Capacity(logs)]
      /\ order' = order /\ main' = [main EXCEPT !.pc = pc] /\ order \in Seq(Pushers)
  BY <1>1 DEF ResizeLogs, At, LogInv
<1>3. PICK m \in Nat : Holds(order, m, m) /\ Len(order) <= m
                        /\ m - Len(order) < ARRAY_ALLOC_LENGTH
  BY <1>2 DEF LogInv
<1>4. PICK b \in [0 .. m - 1 -> Entries] : Filled(b, order, m) /\ Logs(logs, Len(order), m, b)
  BY <1>3 DEF Holds
<1>5. PICK A \in Nat \ {0} : A = ARRAY_ALLOC_LENGTH  OBVIOUS
<1>6. PICK n \in Nat : n = Len(order) /\ n <= m /\ m - n < A  BY <1>2, <1>3, <1>5
<1>7. Capacity(logs) = IF n = m THEN m + A ELSE m  BY <1>4, <1>5, <1>6, CapacityIs
<1>8. logs.alloc_length = m  BY <1>4 DEF Logs
<1>9. PICK l \in Nat : l = IF n = m THEN m + A ELSE m  OBVIOUS
<1>10. Logs(logs', n, l, b)  BY <1>2, <1>4, <1>6, <1>7, <1>9, LengthSet
<1>11. main'.pc = pc /\ "pc" \in DOMAIN main'  BY <1>2 DEF LogInv
<1>12. CASE n = m
  <2>1. pc = "replace" /\ l = n + A
    <3>1. m + A # m /\ l = m + A  BY <1>9, <1>12
    <3> QED  BY <1>1, <1>7, <1>8, <1>12, <3>1
  <2>2. Holds(order, n, l)'  BY <1>2, <1>4, <1>6, <1>10, <1>12 DEF Holds
  <2> QED  BY <1>2, <1>5, <1>6, <1>11, <2>1, <2>2 DEF LogInv, InPush
<1>13. CASE n # m
  <2>1. pc = "idle" /\ l = m  BY <1>1, <1>7, <1>8, <1>9, <1>13
  <2>2. Holds(order, m, m)'  BY <1>2, <1>4, <1>6, <1>10, <2>1 DEF Holds
  <2>3. Roomy(n, m)  BY <1>5, <1>6, <1>13 DEF Roomy
  <2> QED  BY <1>2, <1>6, <1>11, <2>1, <2>2, <2>3 DEF LogInv, InPush
<1> QED  BY <1>12, <1>13

LEMMA ReplaceLogsKeeps == LogInv /\ ReplaceLogs => LogInv'
<1> SUFFICES ASSUME LogInv, ReplaceLogs  PROVE LogInv'
  OBVIOUS
<1>1. /\ main.pc = "replace" /\ logs' = Replaced(logs) /\ order' = order
      /\ main' = [main EXCEPT !.pc = "idle"] /\ order \in Seq(Pushers)
  BY DEF ReplaceLogs, At, LogInv
<1>2. PICK A \in Nat \ {0} : A = ARRAY_ALLOC_LENGTH  OBVIOUS
<1>3. PICK n \in Nat : n = Len(order)  BY <1>1
<1>4. PICK m \in Nat : Holds(order, n, m) /\ m = n + A  BY <1>1, <1>2, <1>3 DEF LogInv
<1>5. PICK b \in [0 .. n - 1 -> Entries] : Filled(b, order, n) /\ Logs(logs, n, m, b)
  BY <1>3, <1>4 DEF Holds
<1>6. n <= m  BY <1>4
<1>7. PICK c : Filled(c, order, m) /\ Logs(logs', n, m, c)
  BY <1>1, <1>3, <1>5, <1>6, ReplacedFills
<1>8. c \in [0 .. m - 1 -> Entries]  BY <1>7 DEF Filled
<1>9. Holds(order, m, m)'  BY <1>1, <1>3, <1>7, <1>8 DEF Holds
<1>10. Roomy(n, m)  BY <1>2, <1>4 DEF Roomy
<1>11. main'.pc = "idle" /\ "pc" \in DOMAIN main'  BY <1>1 DEF LogInv
<1> QED  BY <1>1, <1>3, <1>9, <1>10, <1>11 DEF LogInv, InPush

LEMMA TickKeeps == ~ TickInPush /\ LogInv /\ Tick => LogInv'
<1> SUFFICES ASSUME ~ TickInPush, LogInv, Tick  PROVE LogInv'
  OBVIOUS
<1>1. /\ ~ InPush /\ logs' = array_push(logs, "irq") /\ order' = Append(order, "irq")
      /\ main' = main
  BY DEF Tick
<1>2. order \in Seq(Pushers) /\ "irq" \in Pushers  BY DEF LogInv, Pushers
<1>3. PICK m \in Nat : Holds(order, m, m) /\ Roomy(Len(order), m)
  BY <1>1 DEF LogInv
<1>4. PICK l \in Nat : Holds(order, l, l)' /\ Roomy(Len(order'), l)
  BY <1>1, <1>2, <1>3, PushFills
<1>5. order' \in Seq(Pushers) /\ ~ InPush' /\ "pc" \in DOMAIN main'
  BY <1>1, <1>2 DEF InPush, LogInv
<1> QED  BY <1>4, <1>5 DEF LogInv, InPush

(* The other steps of printk, and those before it. *)
Printing ==
    \/ LoadCursor \/ MoveCursor \/ PutChar \/ CheckCursor \/ ScrollRow
    \/ FirstRead \/ SecondRead \/ OutCursor

LEMMA PrintingKeeps == LogInv /\ Printing => LogInv'
<1> SUFFICES ASSUME LogInv, Printing  PROVE LogInv'
  OBVIOUS
<1>1. "pc" \in DOMAIN main  BY DEF LogInv
<1>2. UNCHANGED <<logs, order>>
  BY DEF Printing, LoadCursor, MoveCursor, PutChar, CheckCursor, ScrollRow, FirstRead,
         SecondRead, OutCursor
<1>3. ~ InPush
  BY DEF Printing, LoadCursor, MoveCursor, PutChar, CheckCursor, ScrollRow, FirstRead,
         SecondRead, OutCursor, InPush
<1>4. "pc" \in DOMAIN main' /\ ~ InPush'
  <2>1. CASE LoadCursor  BY <1>1, <2>1 DEF LoadCursor, InPush
  <2>2. CASE MoveCursor  BY <1>1, <2>2 DEF MoveCursor, InPush
  <2>3. CASE PutChar  BY <1>1, <2>3 DEF PutChar, At, InPush
  <2>4. CASE CheckCursor  BY <1>1, <2>4 DEF CheckCursor, Loop, InPush
  <2>5. CASE ScrollRow  BY <1>1, <2>5 DEF ScrollRow, InPush
  <2>6. CASE FirstRead  BY <1>1, <2>6 DEF FirstRead, InPush
  <2>7. CASE SecondRead  BY <1>1, <2>7 DEF SecondRead, InPush
  <2>8. CASE OutCursor  BY <1>1, <2>8 DEF OutCursor, At, Loop, InPush
  <2> QED  BY <2>1, <2>2, <2>3, <2>4, <2>5, <2>6, <2>7, <2>8 DEF Printing
<1> QED  BY <1>2, <1>3, <1>4, Elsewhere

LEMMA BeginningKeeps ==
    ASSUME LogInv, printk_init \/ interrupt_enable \/ \E m \in Messages : printk(m)
    PROVE  LogInv'
<1>1. "pc" \in DOMAIN main  BY DEF LogInv
<1>2. UNCHANGED <<logs, order>> /\ ~ InPush
  BY DEF printk_init, interrupt_enable, printk, InPush
<1>3. "pc" \in DOMAIN main' /\ ~ InPush'
  <2>1. CASE printk_init  BY <1>1, <2>1 DEF printk_init, At, InPush
  <2>2. CASE interrupt_enable  BY <1>1, <2>2 DEF interrupt_enable, InPush
  <2>3. ASSUME NEW m \in Messages, printk(m)  PROVE "pc" \in DOMAIN main' /\ ~ InPush'
    BY <1>1, <2>3 DEF printk, Loop, InPush
  <2> QED  BY <2>1, <2>2, <2>3
<1> QED  BY <1>2, <1>3, Elsewhere

LEMMA LogStep == ~ TickInPush /\ LogInv /\ [Next]_vars => LogInv'
<1> SUFFICES ASSUME ~ TickInPush, LogInv, [Next]_vars  PROVE LogInv'
  OBVIOUS
<1>1. CASE UNCHANGED vars  BY <1>1 DEF vars, LogInv, Holds, InPush
<1>2. CASE Next
  BY <1>2, BeginningKeeps, PrintingKeeps, PushEntryKeeps, ResizeLogsKeeps, ReplaceLogsKeeps,
     TickKeeps DEF Next, Main, Printing
<1> QED  BY <1>1, <1>2

(* The invariant, of which the property is a part. *)
LEMMA KeptByInv == LogInv => LogKept
<1> SUFFICES ASSUME LogInv  PROVE LogKept
  OBVIOUS
<1>1. order \in Seq(Pushers)  BY DEF LogInv
<1>2. \E k \in Nat, m \in Nat : Holds(order, k, m)
  <2>1. PICK m \in Nat :
          /\ main.pc = "resize" => Holds(order, m, m)
          /\ main.pc = "replace" => Holds(order, Len(order), m)
          /\ ~ InPush => Holds(order, m, m)
    BY DEF LogInv
  <2>2. Len(order) \in Nat  BY <1>1
  <2> QED  BY <2>1, <2>2 DEF InPush
<1>3. ~ logs.stray /\ logs.length = Len(order)  BY <1>2 DEF Holds, Logs
<1>4. ASSUME ~ InPush
      PROVE  /\ logs.length < logs.alloc_length
             /\ DOMAIN logs.arr = 0 .. logs.alloc_length - 1
             /\ \A i \in 1 .. Len(order) : logs.arr[i - 1] = order[i]
  <2>1. PICK m \in Nat : Holds(order, m, m) /\ Roomy(Len(order), m)  BY <1>4 DEF LogInv
  <2>2. PICK b \in [0 .. m - 1 -> Entries] :
           Filled(b, order, m) /\ Logs(logs, Len(order), m, b)
    BY <2>1 DEF Holds
  <2>3. logs.length = Len(order) /\ logs.alloc_length = m /\ logs.arr = b
    BY <2>2 DEF Logs
  <2>4. DOMAIN b = 0 .. m - 1 /\ \A i \in 1 .. Len(order) : b[i - 1] = order[i]
    BY <2>2 DEF Filled
  <2> QED  BY <2>1, <2>3, <2>4 DEF Roomy
<1> QED  BY <1>3, <1>4 DEF LogKept

(***************************************************************************)
(* The log has an entry for every call, in their order, and the array has  *)
(* room for the next one, whatever is printed and wherever ticks come, as  *)
(* long as none comes inside array_push, where the code does not keep them *)
(* out (mutils/impl/array.c:27-33): for any length of blocks.              *)
(***************************************************************************)
THEOREM LogKeptAlways == ~ TickInPush => (Spec => []LogKept)
<1>1. ~ TickInPush /\ Init => ~ TickInPush /\ LogInv
  BY LogInit
<1>2. (~ TickInPush /\ LogInv) /\ [Next]_vars => (~ TickInPush /\ LogInv)'
  BY LogStep
<1>3. ~ TickInPush /\ LogInv => LogKept
  BY KeptByInv
<1> QED  BY <1>1, <1>2, <1>3, PTL DEF Spec
================================================================================
