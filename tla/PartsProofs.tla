------------------------------ MODULE PartsProofs ------------------------------
(***************************************************************************)
(* Proofs about the parts: the array of mutils/impl/array.c holds its      *)
(* entries whatever calls are made, for any block length, the table of     *)
(* kernel/syscall.c finds what was set last, a stack trace names the       *)
(* nearest symbols, the time of day is read right or ahead, the fields of  *)
(* ELF files come from their places, and the handlers of                   *)
(* interrupts/isr.asm leave no trace in what they interrupt.               *)
(***************************************************************************)
EXTENDS Parts, Integers, Sequences, SequenceTheorems, WellFoundedInduction, TLAPS

-----------------------------------------------------------------------------
(***************************************************************************)
(* Induction over the numbers up to n.                                     *)
(***************************************************************************)
LEMMA Upwards ==
    ASSUME NEW n \in Nat, NEW S, 0 \in S, \A k \in 1 .. n : k - 1 \in S => k \in S
    PROVE  0 .. n \subseteq S
<1> DEFINE Bad == {k \in Nat : k <= n /\ k \notin S}
<1> SUFFICES ASSUME Bad # {}  PROVE FALSE  OBVIOUS
<1>1. PICK m \in Bad : \A x \in Bad : ~ (<<x, m>> \in OpToRel(<, Nat))
  <2>1. Bad \subseteq Nat  OBVIOUS
  <2> HIDE DEF Bad
  <2> QED  BY <2>1, NatLessThanWellFounded, WFMin
<1>2. m # 0  OBVIOUS
<1>3. m - 1 \in Nat /\ m \in 1 .. n  BY <1>2
<1>4. m - 1 \notin Bad
  <2> SUFFICES ASSUME m - 1 \in Bad  PROVE FALSE  OBVIOUS
  <2>1. <<m - 1, m>> \in OpToRel(<, Nat)  BY <1>3 DEF OpToRel
  <2> QED  BY <1>1, <2>1
<1>5. m - 1 \in S  BY <1>3, <1>4
<1> QED  BY <1>3, <1>5

-----------------------------------------------------------------------------
(***************************************************************************)
(* The array.  Its block is a function on the numbers below alloc_length.  *)
(***************************************************************************)
Cell == Values \cup {Junk}

ArrayInv ==
    /\ entries \in Seq(Values) /\ length = Len(entries)
    /\ alloc_length \in Nat /\ length < alloc_length
    /\ alloc_length - length <= ARRAY_ALLOC_LENGTH
    /\ arr \in [0 .. alloc_length - 1 -> Cell]
    /\ \A i \in 0 .. length - 1 : arr[i] = entries[i + 1]
    /\ answer # wanted => answer = Junk /\ Arrays!Shortened

LEMMA ArraySizes ==
    ARRAY_ALLOC_LENGTH \in Nat \ {0} /\ MaxEntries \in Nat /\ Junk \notin Values
BY PartsAssumption DEF Arrays!ArrayAssumption

USE ArraySizes

(* What array_resize makes of a block of n with room for len entries. *)
Kept(a, n, b, m, len) ==
    /\ m \in Nat /\ len < m /\ m - len <= ARRAY_ALLOC_LENGTH
    /\ b \in [0 .. m - 1 -> Cell]
    /\ \A i \in 0 .. len - 1 : b[i] = a[i]
    /\ len < n => (b = a /\ m = n) \/ (len = m - 1 /\ b[len] = Junk)

LEMMA ResizeKeeps ==
    ASSUME NEW n \in Nat, alloc_length = n, NEW a \in [0 .. n - 1 -> Cell],
           NEW len \in Nat, len <= n, n - len <= ARRAY_ALLOC_LENGTH + 1,
           Arrays!array_resize(a, len)
    PROVE  length' = len /\ Kept(a, n, arr', alloc_length', len)
<1>1. PICK A \in Nat \ {0} : A = ARRAY_ALLOC_LENGTH  OBVIOUS
<1>2. PICK m : m = Arrays!NewLength(len, n)  OBVIOUS
<1>3. length' = len /\ alloc_length' = m /\ arr' = Arrays!Resized(a, len)
  BY <1>2 DEF Arrays!array_resize
<1>4. m = IF len >= n THEN n + A ELSE IF len < n - A THEN n - A ELSE n
  BY <1>1, <1>2 DEF Arrays!NewLength
<1>5. m \in Nat /\ len < m /\ m - len <= A
  BY <1>1, <1>4
<1>6. CASE m = n
  <2>1. arr' = a  BY <1>2, <1>3, <1>6 DEF Arrays!Resized
  <2> QED  BY <1>1, <1>3, <1>5, <1>6, <2>1 DEF Kept
<1>7. CASE m # n
  <2>1. arr' = [i \in DOMAIN [i \in 0 .. m - 1 |-> Junk] |->
                  IF i < len THEN Arrays!Entry(a, i) ELSE [k \in 0 .. m - 1 |-> Junk][i]]
    BY <1>2, <1>3, <1>7 DEF Arrays!Resized, Arrays!memcpy, Arrays!Block
  <2>2. arr' = [i \in 0 .. m - 1 |-> IF i < len THEN Arrays!Entry(a, i) ELSE Junk]
    BY <2>1
  <2>3. ASSUME NEW i \in 0 .. m - 1, i < len  PROVE Arrays!Entry(a, i) = a[i] /\ a[i] \in Cell
    <3>1. i \in 0 .. n - 1  BY <1>5, <2>3
    <3> QED  BY <3>1 DEF Arrays!Entry
  <2>4. arr' \in [0 .. m - 1 -> Cell]  BY <2>2, <2>3 DEF Cell
  <2>5. \A i \in 0 .. len - 1 : arr'[i] = a[i]
    <3> TAKE i \in 0 .. len - 1
    <3>1. i \in 0 .. m - 1 /\ i < len  BY <1>5
    <3> QED  BY <2>2, <2>3, <3>1
  <2>6. len < n => len = m - 1 /\ arr'[len] = Junk
    <3>1. len \in 0 .. m - 1 /\ ~ len < len  BY <1>5
    <3>2. len < n => len = m - 1  BY <1>1, <1>4, <1>7
    <3> QED  BY <2>2, <3>1, <3>2
  <2> QED  BY <1>1, <1>3, <1>5, <2>4, <2>5, <2>6 DEF Kept
<1> QED  BY <1>6, <1>7

(* Whatever a call stores, the block holds it after array_resize. *)
LEMMA ResizedHolds ==
    ASSUME NEW n \in Nat, alloc_length = n, NEW a \in [0 .. n - 1 -> Cell],
           NEW s \in Seq(Values), NEW len \in Nat, len = Len(s),
           len <= n, n - len <= ARRAY_ALLOC_LENGTH + 1,
           \A i \in 0 .. len - 1 : a[i] = s[i + 1],
           Arrays!array_resize(a, len), entries' = s,
           answer' # wanted' => answer' = Junk /\ length' = alloc_length' - 1
    PROVE  ArrayInv'
<1>1. length' = len /\ Kept(a, n, arr', alloc_length', len)  BY ResizeKeeps
<1>2. \A i \in 0 .. len - 1 : arr'[i] = s[i + 1]  BY <1>1 DEF Kept
<1> QED  BY <1>1, <1>2 DEF ArrayInv, Kept, Arrays!Shortened

(* The state before a call, with its lengths as numbers. *)
LEMMA Before ==
    ASSUME ArrayInv
    PROVE  \E n \in Nat, len \in Nat :
             /\ n = alloc_length /\ len = length /\ len = Len(entries) /\ len < n
             /\ n - len <= ARRAY_ALLOC_LENGTH /\ entries \in Seq(Values)
             /\ arr \in [0 .. n - 1 -> Cell]
             /\ \A i \in 0 .. len - 1 : arr[i] = entries[i + 1]
<1>1. entries \in Seq(Values) /\ Len(entries) \in Nat  BY DEF ArrayInv
<1> QED  BY <1>1 DEF ArrayInv

LEMMA PushKeeps ==
    ASSUME ArrayInv, NEW value \in Values, Arrays!array_push(value)
    PROVE  ArrayInv'
<1>1. PICK n \in Nat, len \in Nat :
          /\ n = alloc_length /\ len = length /\ len = Len(entries) /\ len < n
          /\ n - len <= ARRAY_ALLOC_LENGTH /\ entries \in Seq(Values)
          /\ arr \in [0 .. n - 1 -> Cell]
          /\ \A i \in 0 .. len - 1 : arr[i] = entries[i + 1]
  BY Before
<1>2. PICK a : a = [arr EXCEPT ![len] = value]  OBVIOUS
<1>3. PICK s : s = Append(entries, value)  OBVIOUS
<1>4. Arrays!array_resize(a, len + 1) /\ entries' = s /\ answer' = wanted'
  BY <1>1, <1>2, <1>3 DEF Arrays!array_push, Arrays!Store, Arrays!ReturnsNothing, Arrays!Returns
<1>5. len \in 0 .. n - 1 /\ value \in Cell /\ \A i \in 0 .. len - 1 : i \in 0 .. n - 1 /\ i # len
  BY <1>1 DEF Cell
<1>6. a \in [0 .. n - 1 -> Cell] /\ a[len] = value /\ \A i \in 0 .. len - 1 : a[i] = arr[i]
  BY <1>1, <1>2, <1>5
<1>7. /\ s \in Seq(Values) /\ Len(s) = len + 1
      /\ s[len + 1] = value /\ \A i \in 1 .. len : s[i] = entries[i]
  BY <1>1, <1>3
<1>8. ASSUME NEW i \in 0 .. (len + 1) - 1  PROVE a[i] = s[i + 1]
  <2>1. CASE i = len  BY <1>6, <1>7, <2>1
  <2>2. CASE i # len
    <3>1. i \in 0 .. len - 1 /\ i + 1 \in 1 .. len  BY <2>2
    <3> QED  BY <1>1, <1>6, <1>7, <3>1
  <2> QED  BY <2>1, <2>2
<1>9. len + 1 \in Nat /\ len + 1 <= n /\ n - (len + 1) <= ARRAY_ALLOC_LENGTH + 1
  BY <1>1
<1> QED  BY <1>1, <1>4, <1>6, <1>7, <1>8, <1>9, ResizedHolds

(* What the library's insertion makes of a sequence, and its removal. *)
InsertedAt(t, s, k, e) ==
    /\ Len(t) = Len(s) + 1
    /\ \A j \in 1 .. Len(s) + 1 :
            t[j] = IF j < k THEN s[j] ELSE IF j = k THEN e ELSE s[j - 1]

LEMMA Insertion ==
    ASSUME NEW s \in Seq(Values), NEW k \in 1 .. Len(s), NEW e \in Values
    PROVE  /\ Arrays!InsertAt(s, k, e) \in Seq(Values)
           /\ InsertedAt(Arrays!InsertAt(s, k, e), s, k, e)
<1> DEFINE a == SubSeq(s, 1, k - 1)
           z == SubSeq(s, k, Len(s))
<1>0. Len(s) \in Nat /\ k \in Nat  OBVIOUS
<1>1. /\ a \in Seq(Values) /\ Len(a) = k - 1 /\ \A j \in 1 .. k - 1 : a[j] = s[j]
      /\ z \in Seq(Values) /\ Len(z) = Len(s) - k + 1
      /\ \A j \in 1 .. Len(s) - k + 1 : z[j] = s[k + j - 1]
  OBVIOUS
<1>2. Arrays!InsertAt(s, k, e) = a \o <<e>> \o z  BY DEF Arrays!InsertAt
<1> HIDE DEF a, z
<1>3. /\ a \o <<e>> \in Seq(Values) /\ Len(a \o <<e>>) = k
      /\ \A j \in 1 .. k : (a \o <<e>>)[j] = IF j < k THEN s[j] ELSE e
  BY <1>1
<1> DEFINE f == a \o <<e>>
<1> HIDE DEF f
<1>4. /\ f \o z \in Seq(Values) /\ Len(f \o z) = Len(s) + 1
      /\ \A j \in 1 .. Len(s) + 1 : (f \o z)[j] = IF j <= k THEN f[j] ELSE z[j - k]
  <2>1. f \in Seq(Values) /\ z \in Seq(Values) /\ Len(f) = k /\ Len(z) = Len(s) - k + 1
    BY <1>1, <1>3 DEF f
  <2>2. Len(f) + Len(z) = Len(s) + 1  BY <1>0, <2>1
  <2>3. /\ f \o z \in Seq(Values) /\ Len(f \o z) = Len(f) + Len(z)
        /\ \A j \in 1 .. Len(f) + Len(z) :
              (f \o z)[j] = IF j <= Len(f) THEN f[j] ELSE z[j - Len(f)]
    BY <2>1, ConcatProperties
  <2> QED  BY <2>1, <2>2, <2>3
<1>5. Arrays!InsertAt(s, k, e) = f \o z  BY <1>2 DEF f
<1>6. ASSUME NEW j \in 1 .. Len(s) + 1
      PROVE  (f \o z)[j] = IF j < k THEN s[j] ELSE IF j = k THEN e ELSE s[j - 1]
  <2>1. CASE j <= k
    <3>1. j \in 1 .. k /\ (j < k \/ j = k)  BY <1>0, <2>1
    <3> QED  BY <1>3, <1>4, <2>1, <3>1 DEF f
  <2>2. CASE j > k
    <3>1. j - k \in 1 .. Len(s) - k + 1  BY <1>0, <2>2
    <3>2. z[j - k] = s[k + (j - k) - 1]  BY <1>1, <3>1
    <3>3. k + (j - k) - 1 = j - 1  BY <1>0
    <3>4. ~ (j <= k) /\ ~ (j < k) /\ j # k  BY <1>0, <2>2
    <3> QED  BY <1>4, <3>2, <3>3, <3>4
  <2>3. j <= k \/ j > k  BY <1>0
  <2> QED  BY <2>1, <2>2, <2>3
<1> QED  BY <1>4, <1>5, <1>6 DEF InsertedAt

RemovedAt(t, s, k) ==
    /\ Len(t) = Len(s) - 1
    /\ \A j \in 1 .. Len(s) - 1 : t[j] = IF j < k THEN s[j] ELSE s[j + 1]

LEMMA Removal ==
    ASSUME NEW s \in Seq(Values), NEW k \in 1 .. Len(s)
    PROVE  /\ Arrays!RemoveAt(s, k) \in Seq(Values)
           /\ RemovedAt(Arrays!RemoveAt(s, k), s, k)
<1> DEFINE a == SubSeq(s, 1, k - 1)
           z == SubSeq(s, k + 1, Len(s))
<1>0. Len(s) \in Nat /\ k \in Nat  OBVIOUS
<1>1. /\ a \in Seq(Values) /\ Len(a) = k - 1 /\ \A j \in 1 .. k - 1 : a[j] = s[j]
      /\ z \in Seq(Values) /\ Len(z) = Len(s) - k
      /\ \A j \in 1 .. Len(s) - k : z[j] = s[k + j]
  OBVIOUS
<1>2. Arrays!RemoveAt(s, k) = a \o z  BY DEF Arrays!RemoveAt
<1> HIDE DEF a, z
<1>4. /\ a \o z \in Seq(Values) /\ Len(a \o z) = Len(s) - 1
      /\ \A j \in 1 .. Len(s) - 1 : (a \o z)[j] = IF j <= k - 1 THEN a[j] ELSE z[j - (k - 1)]
  BY <1>0, <1>1
<1>6. ASSUME NEW j \in 1 .. Len(s) - 1
      PROVE  (a \o z)[j] = IF j < k THEN s[j] ELSE s[j + 1]
  <2>1. CASE j <= k - 1
    <3>1. j \in 1 .. k - 1 /\ j < k  BY <1>0, <2>1
    <3> QED  BY <1>1, <1>4, <2>1, <3>1
  <2>2. CASE j > k - 1
    <3>1. j - (k - 1) \in 1 .. Len(s) - k  BY <1>0, <2>2
    <3>2. z[j - (k - 1)] = s[k + (j - (k - 1))]  BY <1>1, <3>1
    <3>3. k + (j - (k - 1)) = j + 1  BY <1>0
    <3>4. ~ (j <= k - 1) /\ ~ (j < k)  BY <1>0, <2>2
    <3> QED  BY <1>4, <3>2, <3>3, <3>4
  <2>3. j <= k - 1 \/ j > k - 1  BY <1>0
  <2> QED  BY <2>1, <2>2, <2>3
<1> QED  BY <1>2, <1>4, <1>6 DEF RemovedAt

LEMMA InsertKeeps ==
    ASSUME ArrayInv, NEW value \in Values, NEW index \in 0 .. MaxEntries,
           Arrays!array_insert(index, value)
    PROVE  ArrayInv'
<1>1. PICK n \in Nat, len \in Nat :
          /\ n = alloc_length /\ len = length /\ len = Len(entries) /\ len < n
          /\ n - len <= ARRAY_ALLOC_LENGTH /\ entries \in Seq(Values)
          /\ arr \in [0 .. n - 1 -> Cell]
          /\ \A i \in 0 .. len - 1 : arr[i] = entries[i + 1]
  BY Before
<1>0. answer' = wanted'
  BY DEF Arrays!array_insert, Arrays!ReturnsNothing, Arrays!Returns
<1>2. CASE index >= len
  BY <1>0, <1>1, <1>2 DEF Arrays!array_insert, ArrayInv
<1>3. CASE ~ (index >= len)
  <2>1. PICK a : a = Arrays!Opened(arr, index, value)  OBVIOUS
  <2>2. PICK s : s = Arrays!InsertAt(entries, index + 1, value)  OBVIOUS
  <2>3. Arrays!array_resize(a, len + 1) /\ entries' = s
    BY <1>1, <1>3, <2>1, <2>2 DEF Arrays!array_insert
  <2>4. a = [i \in 0 .. n - 1 |-> IF i = index THEN value
                                  ELSE IF i \in index + 1 .. len THEN arr[i - 1] ELSE arr[i]]
    BY <1>1, <2>1 DEF Arrays!Opened
  <2>5. a \in [0 .. n - 1 -> Cell]
    <3>1. ASSUME NEW i \in 0 .. n - 1, i \in index + 1 .. len  PROVE i - 1 \in 0 .. n - 1
      <4>1. index \in Nat /\ i >= index + 1  BY <3>1, ArraySizes
      <4> QED  BY <4>1
    <3> QED  BY <1>1, <2>4, <3>1 DEF Cell
  <2>6. /\ s \in Seq(Values) /\ Len(s) = len + 1
        /\ \A j \in 1 .. len + 1 :
              s[j] = IF j < index + 1 THEN entries[j]
                     ELSE IF j = index + 1 THEN value ELSE entries[j - 1]
    <3>1. index + 1 \in 1 .. len  BY <1>1, <1>3
    <3> QED  BY <1>1, <2>2, <3>1, Insertion DEF InsertedAt
  <2>7. ASSUME NEW i \in 0 .. (len + 1) - 1  PROVE a[i] = s[i + 1]
    <3>1. i \in 0 .. n - 1 /\ i + 1 \in 1 .. len + 1 /\ i \in Nat  BY <1>1
    <3>2. CASE i = index  BY <2>4, <2>6, <3>1, <3>2
    <3>3. CASE i < index
      <4>1. i # index /\ i \notin index + 1 .. len /\ i + 1 < index + 1 /\ i \in 0 .. len - 1
        BY <1>1, <1>3, <3>1, <3>3
      <4> QED  BY <1>1, <2>4, <2>6, <3>1, <4>1
    <3>4. CASE i > index
      <4>1. /\ i # index /\ i \in index + 1 .. len /\ ~ (i + 1 < index + 1) /\ i + 1 # index + 1
            /\ i - 1 \in 0 .. len - 1 /\ (i - 1) + 1 = i /\ (i + 1) - 1 = i
        BY <1>1, <3>1, <3>4
      <4>2. arr[i - 1] = entries[i]  BY <1>1, <4>1
      <4> QED  BY <2>4, <2>6, <3>1, <4>1, <4>2
    <3> QED  BY <3>1, <3>2, <3>3, <3>4
  <2>8. len + 1 \in Nat /\ len + 1 <= n /\ n - (len + 1) <= ARRAY_ALLOC_LENGTH + 1
    BY <1>1
  <2> QED  BY <1>0, <1>1, <2>3, <2>5, <2>6, <2>7, <2>8, ResizedHolds
<1> QED  BY <1>2, <1>3

LEMMA PopKeeps ==
    ASSUME ArrayInv, Arrays!array_pop
    PROVE  ArrayInv'
<1>1. PICK n \in Nat, len \in Nat :
          /\ n = alloc_length /\ len = length /\ len = Len(entries) /\ len < n
          /\ n - len <= ARRAY_ALLOC_LENGTH /\ entries \in Seq(Values)
          /\ arr \in [0 .. n - 1 -> Cell]
          /\ \A i \in 0 .. len - 1 : arr[i] = entries[i + 1]
  BY Before
<1>2. len > 0 /\ Arrays!array_resize(arr, len - 1)
  BY <1>1 DEF Arrays!array_pop
<1>3. PICK s : s = SubSeq(entries, 1, len - 1)  OBVIOUS
<1>4. /\ entries' = s /\ answer' = Arrays!Entry(arr', length') /\ wanted' = entries[len]
  BY <1>1, <1>3 DEF Arrays!array_pop, Arrays!Returns, Arrays!Front, Arrays!Last
<1>5. s \in Seq(Values) /\ Len(s) = len - 1 /\ \A i \in 1 .. len - 1 : s[i] = entries[i]
  BY <1>1, <1>2, <1>3
<1>6. ASSUME NEW i \in 0 .. (len - 1) - 1  PROVE arr[i] = s[i + 1]
  <2>1. i \in 0 .. len - 1 /\ i + 1 \in 1 .. len - 1  BY <1>1
  <2> QED  BY <1>1, <1>5, <2>1
<1>7. len - 1 \in Nat /\ len - 1 <= n /\ n - (len - 1) <= ARRAY_ALLOC_LENGTH + 1 /\ len - 1 < n
  BY <1>1, <1>2
<1>8. length' = len - 1 /\ Kept(arr, n, arr', alloc_length', len - 1)
  BY <1>1, <1>2, <1>7, ResizeKeeps
<1>9. answer' # wanted' => answer' = Junk /\ length' = alloc_length' - 1
  <2>1. PICK m \in Nat : m = alloc_length'  BY <1>8 DEF Kept
  <2>2. len - 1 < m /\ DOMAIN arr' = 0 .. m - 1  BY <1>8, <2>1 DEF Kept
  <2>3. answer' = arr'[len - 1]
    <3>1. len - 1 \in 0 .. m - 1  BY <1>7, <2>2
    <3> QED  BY <1>4, <1>8, <2>2, <3>1 DEF Arrays!Entry
  <2>4. CASE arr' = arr
    <3>1. len - 1 \in 0 .. len - 1 /\ (len - 1) + 1 = len  BY <1>1, <1>2
    <3> QED  BY <1>1, <1>4, <2>3, <2>4, <3>1
  <2>5. CASE len - 1 = alloc_length' - 1 /\ arr'[len - 1] = Junk
    BY <1>8, <2>3, <2>5
  <2> QED  BY <1>7, <1>8, <2>4, <2>5 DEF Kept
<1> QED  BY <1>1, <1>2, <1>4, <1>5, <1>6, <1>7, <1>9, ResizedHolds

LEMMA PullKeeps ==
    ASSUME ArrayInv, NEW index \in 0 .. MaxEntries, Arrays!array_pull(index)
    PROVE  ArrayInv'
<1>1. PICK n \in Nat, len \in Nat :
          /\ n = alloc_length /\ len = length /\ len = Len(entries) /\ len < n
          /\ n - len <= ARRAY_ALLOC_LENGTH /\ entries \in Seq(Values)
          /\ arr \in [0 .. n - 1 -> Cell]
          /\ \A i \in 0 .. len - 1 : arr[i] = entries[i + 1]
  BY Before
<1>2. CASE index >= len
  BY <1>1, <1>2 DEF Arrays!array_pull, Arrays!ReturnsNothing, Arrays!Returns, ArrayInv
<1>3. CASE ~ (index >= len)
  <2>1. PICK a : a = Arrays!Closed(arr, index)  OBVIOUS
  <2>2. PICK s : s = Arrays!RemoveAt(entries, index + 1)  OBVIOUS
  <2>3. /\ Arrays!array_resize(a, len - 1) /\ entries' = s
        /\ answer' = arr[index] /\ wanted' = entries[index + 1]
    BY <1>1, <1>3, <2>1, <2>2 DEF Arrays!array_pull, Arrays!Returns
  <2>4. a = [i \in 0 .. n - 1 |-> IF i \in index .. len - 2 THEN arr[i + 1] ELSE arr[i]]
    BY <1>1, <2>1 DEF Arrays!Closed
  <2>5. a \in [0 .. n - 1 -> Cell]
    <3>1. ASSUME NEW i \in 0 .. n - 1, i \in index .. len - 2  PROVE i + 1 \in 0 .. n - 1
      <4>1. i <= len - 2 /\ len < n  BY <1>1, <3>1, ArraySizes
      <4> QED  BY <4>1
    <3> QED  BY <1>1, <2>4, <3>1 DEF Cell
  <2>6. /\ s \in Seq(Values) /\ Len(s) = len - 1
        /\ \A j \in 1 .. len - 1 :
              s[j] = IF j < index + 1 THEN entries[j] ELSE entries[j + 1]
    <3>1. index + 1 \in 1 .. len  BY <1>1, <1>3
    <3>2. /\ s \in Seq(Values) /\ RemovedAt(s, entries, index + 1)
      BY <1>1, <2>2, <3>1, Removal
    <3>3. Len(entries) = len  BY <1>1
    <3> QED  BY <3>2, <3>3 DEF RemovedAt
  <2>7. ASSUME NEW i \in 0 .. (len - 1) - 1  PROVE a[i] = s[i + 1]
    <3>1. i \in 0 .. n - 1 /\ i + 1 \in 1 .. len - 1 /\ i \in Nat  BY <1>1
    <3>2. CASE i < index
      <4>1. i \notin index .. len - 2 /\ i + 1 < index + 1 /\ i \in 0 .. len - 1
        BY <1>1, <1>3, <3>1, <3>2
      <4> QED  BY <1>1, <2>4, <2>6, <3>1, <4>1
    <3>3. CASE i >= index
      <4>1. i \in index .. len - 2 /\ ~ (i + 1 < index + 1) /\ i + 1 \in 0 .. len - 1
        BY <1>1, <3>1, <3>3
      <4> QED  BY <1>1, <2>4, <2>6, <3>1, <4>1
    <3> QED  BY <3>1, <3>2, <3>3
  <2>8. /\ len - 1 \in Nat /\ len - 1 <= n /\ n - (len - 1) <= ARRAY_ALLOC_LENGTH + 1
        /\ index \in 0 .. len - 1
    BY <1>1, <1>3
  <2>9. answer' = wanted'  BY <1>1, <2>3, <2>8
  <2> QED  BY <1>1, <2>3, <2>5, <2>6, <2>7, <2>8, <2>9, ResizedHolds
<1> QED  BY <1>2, <1>3

LEMMA ArrayStep ==
    ASSUME ArrayInv, Arrays!Next
    PROVE  ArrayInv'
BY PushKeeps, InsertKeeps, PopKeeps, PullKeeps DEF Arrays!Next

LEMMA ArrayStarts ==
    ASSUME Arrays!Init
    PROVE  ArrayInv
<1>1. PICK n \in Nat \ {0} : n = ARRAY_ALLOC_LENGTH  OBVIOUS
<1>2. arr = [i \in 0 .. n - 1 |-> Junk] /\ alloc_length = n /\ length = 0
  BY <1>1 DEF Arrays!Init, Arrays!newArray, Arrays!Block
<1>3. entries = <<>> /\ answer = wanted  BY DEF Arrays!Init
<1> QED  BY <1>1, <1>2, <1>3 DEF ArrayInv, Cell

LEMMA ArrayHolds ==
    ArrayInv => Arrays!ArrayRight
BY DEF ArrayInv, Arrays!ArrayRight

-----------------------------------------------------------------------------
(***************************************************************************)
(* The table of system calls: an entry for each number that was set.       *)
(***************************************************************************)
EntryType == [id : Ids, function : Functions]

SyscallsInv ==
    /\ syscall_VT \in Seq(EntryType) /\ syscall_VT_length = Len(syscall_VT)
    /\ \A i, j \in 1 .. syscall_VT_length : syscall_VT[i].id = syscall_VT[j].id => i = j
    /\ last \in [Ids -> Functions \cup {NULL}]
    /\ \A i \in 1 .. syscall_VT_length : last[syscall_VT[i].id] = syscall_VT[i].function
    /\ \A id \in Ids : (\A i \in 1 .. syscall_VT_length : syscall_VT[i].id # id)
                            => last[id] = NULL

LEMMA SyscallNames ==
    SYSCALL_SYC \in Ids /\ sc_fnc \in Functions /\ NULL \notin Functions
BY PartsAssumption DEF Syscalls!SyscallsAssumption

LEMMA LeastOf ==
    ASSUME NEW S \in SUBSET Nat, S # {}
    PROVE  Syscalls!Min(S) \in S
<1> SUFFICES \E m \in S : \A x \in S : m <= x  BY DEF Syscalls!Min
<1>1. PICK m \in S : \A x \in S : ~ (<<x, m>> \in OpToRel(<, Nat))
  BY NatLessThanWellFounded, WFMin
<1>2. ASSUME NEW x \in S  PROVE  m <= x
  <2>1. ~ (<<x, m>> \in OpToRel(<, Nat))  BY <1>1
  <2> QED  BY <2>1 DEF OpToRel
<1> QED  BY <1>2

(* The whole table is searched: 0 says that no entry has the number. *)
LEMMA FindsIndex ==
    ASSUME syscall_VT \in Seq(EntryType), syscall_VT_length = Len(syscall_VT),
           NEW id, NEW index, index = Syscalls!syscall_find_index(id)
    PROVE  \/ index = 0 /\ \A i \in 1 .. Len(syscall_VT) : syscall_VT[i].id # id
           \/ index \in 1 .. Len(syscall_VT) /\ syscall_VT[index].id = id
<1> DEFINE I == {i \in 1 .. Len(syscall_VT) : syscall_VT[i].id = id}
<1>1. SubSeq(syscall_VT, 1, syscall_VT_length) = syscall_VT  OBVIOUS
<1>2. index = IF I # {} THEN Syscalls!Min(I) ELSE 0
  BY <1>1 DEF Syscalls!syscall_find_index, Syscalls!SelectInSeq
<1>3. I \in SUBSET Nat  OBVIOUS
<1>4. I # {} => Syscalls!Min(I) \in I
  <2> HIDE DEF I
  <2> QED  BY <1>3, LeastOf
<1> QED  BY <1>2, <1>4

(* A sequence, whole and with an entry behind it. *)
LEMMA Whole ==
    ASSUME NEW S, NEW s \in Seq(S)
    PROVE  Len(s) \in Nat /\ SubSeq(s, 1, Len(s)) = s /\ s \in [1 .. Len(s) -> S]
OBVIOUS

LEMMA Appended ==
    ASSUME NEW S, NEW s \in Seq(S), NEW e \in S
    PROVE  /\ Append(s, e) \in Seq(S) /\ Len(Append(s, e)) = Len(s) + 1
           /\ Append(s, e)[Len(s) + 1] = e
           /\ \A i \in 1 .. Len(s) : Append(s, e)[i] = s[i]
OBVIOUS

LEMMA SetKeeps ==
    ASSUME SyscallsInv, NEW id \in Ids, NEW f \in Functions, Syscalls!syscall_set(id, f)
    PROVE  SyscallsInv'
<1>1. PICK v \in Seq(EntryType), n \in Nat : v = syscall_VT /\ n = Len(v) /\ n = syscall_VT_length
  <2>1. syscall_VT \in Seq(EntryType)  BY DEF SyscallsInv
  <2> QED  BY <2>1 DEF SyscallsInv
<1>2. PICK index : index = Syscalls!syscall_find_index(id)  OBVIOUS
<1>3. \/ index = 0 /\ \A i \in 1 .. n : v[i].id # id
      \/ index \in 1 .. n /\ v[index].id = id
  BY <1>1, <1>2, FindsIndex
<1>4. /\ \A i, j \in 1 .. n : v[i].id = v[j].id => i = j
      /\ last \in [Ids -> Functions \cup {NULL}]
      /\ \A i \in 1 .. n : last[v[i].id] = v[i].function
      /\ \A k \in Ids : (\A i \in 1 .. n : v[i].id # k) => last[k] = NULL
      /\ \A i \in 1 .. n : v[i] \in EntryType
  BY <1>1 DEF SyscallsInv
<1>5. /\ last' \in [Ids -> Functions \cup {NULL}] /\ last'[id] = f
      /\ \A k \in Ids \ {id} : last'[k] = last[k]
  BY <1>4 DEF Syscalls!syscall_set
<1>6. PICK w : w = syscall_VT'  OBVIOUS
<1>7. CASE index = 0 /\ \A i \in 1 .. n : v[i].id # id
  <2>1. PICK e \in EntryType : e = [id |-> id, function |-> f]  BY DEF EntryType
  <2>2. SubSeq(v, 1, n) = v  BY <1>1, Whole
  <2>3. w = Append(v, e) /\ syscall_VT_length' = n + 1
    BY <1>1, <1>2, <1>6, <1>7, <2>1, <2>2 DEF Syscalls!syscall_set
  <2>4. /\ w \in Seq(EntryType) /\ Len(w) = n + 1
        /\ w[n + 1] = e /\ \A i \in 1 .. n : w[i] = v[i]
    <3>1. /\ Append(v, e) \in Seq(EntryType) /\ Len(Append(v, e)) = Len(v) + 1
          /\ Append(v, e)[Len(v) + 1] = e
          /\ \A i \in 1 .. Len(v) : Append(v, e)[i] = v[i]
      BY Appended
    <3>2. Len(v) = n /\ Append(v, e) = w  BY <1>1, <2>3
    <3> QED  BY <3>1, <3>2
  <2>5. e.id = id /\ e.function = f  BY <2>1
  <2>6. \A i \in 1 .. n + 1 : i \in 1 .. n \/ i = n + 1  OBVIOUS
  <2>7. w[n + 1] = e  BY <2>4
  <2>8. \A i, j \in 1 .. n + 1 : w[i].id = w[j].id => i = j
    <3> SUFFICES ASSUME NEW i \in 1 .. n + 1, NEW j \in 1 .. n + 1, w[i].id = w[j].id
                 PROVE  i = j
      OBVIOUS
    <3>1. CASE i \in 1 .. n /\ j \in 1 .. n  BY <1>4, <2>4, <3>1
    <3>2. CASE i = n + 1 /\ j = n + 1  BY <3>2
    <3>3. CASE i \in 1 .. n /\ j = n + 1  BY <1>7, <2>4, <2>5, <3>3
    <3>4. CASE i = n + 1 /\ j \in 1 .. n  BY <1>7, <2>4, <2>5, <3>4
    <3> QED  BY <2>6, <3>1, <3>2, <3>3, <3>4
  <2>9. \A i \in 1 .. n + 1 : last'[w[i].id] = w[i].function
    <3>1. \A i \in 1 .. n : v[i].id \in Ids \ {id}  BY <1>4, <1>7 DEF EntryType
    <3> QED  BY <1>4, <1>5, <2>4, <2>5, <2>6, <2>7, <3>1
  <2>10. \A k \in Ids : (\A i \in 1 .. n + 1 : w[i].id # k) => last'[k] = NULL
    <3> SUFFICES ASSUME NEW k \in Ids, \A i \in 1 .. n + 1 : w[i].id # k
                 PROVE  last'[k] = NULL
      OBVIOUS
    <3>1. n + 1 \in 1 .. n + 1 /\ \A i \in 1 .. n : i \in 1 .. n + 1  OBVIOUS
    <3>2. k # id /\ \A i \in 1 .. n : v[i].id # k  BY <2>4, <2>5, <2>7, <3>1
    <3> QED  BY <1>4, <1>5, <3>2
  <2> QED  BY <1>5, <1>6, <2>3, <2>4, <2>8, <2>9, <2>10 DEF SyscallsInv
<1>8. CASE index \in 1 .. n /\ v[index].id = id
  <2>1. index # 0  BY <1>8
  <2>2. w = [v EXCEPT ![index].function = f] /\ syscall_VT_length' = n
    BY <1>1, <1>2, <1>6, <2>1 DEF Syscalls!syscall_set
  <2>3. v \in [1 .. n -> EntryType]
    <3>1. v \in [1 .. Len(v) -> EntryType]  BY Whole
    <3> QED  BY <1>1, <3>1
  <2>4. PICK e \in EntryType : e = [v[index] EXCEPT !.function = f]
    BY <1>4, <1>8 DEF EntryType
  <2>5. w = [v EXCEPT ![index] = e]  BY <2>2, <2>4
  <2>6. e.id = id /\ e.function = f  BY <1>4, <1>8, <2>4 DEF EntryType
  <2>7. /\ w \in [1 .. n -> EntryType] /\ w[index] = e
        /\ \A i \in 1 .. n : i # index => w[i] = v[i]
    BY <1>8, <2>3, <2>5
  <2>8. w \in Seq(EntryType) /\ Len(w) = n  BY <2>7
  <2>9. \A i \in 1 .. n : w[i].id = v[i].id  BY <1>8, <2>6, <2>7
  <2>10. \A i \in 1 .. n : last'[w[i].id] = w[i].function
    <3> SUFFICES ASSUME NEW i \in 1 .. n  PROVE last'[w[i].id] = w[i].function  OBVIOUS
    <3>1. CASE i = index  BY <1>5, <2>6, <2>7, <3>1
    <3>2. CASE i # index
      <4>1. v[i].id \in Ids \ {id}  BY <1>4, <1>8, <3>2 DEF EntryType
      <4> QED  BY <1>4, <1>5, <2>7, <3>2, <4>1
    <3> QED  BY <3>1, <3>2
  <2>11. \A k \in Ids : (\A i \in 1 .. n : w[i].id # k) => last'[k] = NULL
    <3> SUFFICES ASSUME NEW k \in Ids, \A i \in 1 .. n : w[i].id # k
                 PROVE  last'[k] = NULL
      OBVIOUS
    <3>1. k # id  BY <1>8, <2>9
    <3> QED  BY <1>4, <1>5, <2>9, <3>1
  <2>12. \A i, j \in 1 .. n : w[i].id = w[j].id => i = j  BY <1>4, <2>9
  <2> QED  BY <1>5, <1>6, <2>2, <2>8, <2>10, <2>11, <2>12 DEF SyscallsInv
<1> QED  BY <1>3, <1>7, <1>8

LEMMA SyscallsStep ==
    ASSUME SyscallsInv, Syscalls!Next
    PROVE  SyscallsInv'
BY SetKeeps, SyscallNames DEF Syscalls!Next, Syscalls!syscall_init, Syscalls!Later

LEMMA SyscallsStart ==
    ASSUME Syscalls!Init
    PROVE  SyscallsInv
BY DEF Syscalls!Init, SyscallsInv

LEMMA SyscallsHold ==
    SyscallsInv => Syscalls!SyscallsResolve
<1> SUFFICES ASSUME SyscallsInv  PROVE Syscalls!SyscallsResolve  OBVIOUS
<1>1. syscall_VT \in Seq(EntryType) /\ syscall_VT_length = Len(syscall_VT)  BY DEF SyscallsInv
<1>2. ASSUME NEW id \in Ids, NEW index, index = Syscalls!syscall_find_index(id)
      PROVE  last[id] = IF index = 0 THEN NULL ELSE syscall_VT[index].function
  <2>1. \/ index = 0 /\ \A i \in 1 .. Len(syscall_VT) : syscall_VT[i].id # id
        \/ index \in 1 .. Len(syscall_VT) /\ syscall_VT[index].id = id
    BY <1>1, <1>2, FindsIndex
  <2>2. CASE index = 0 /\ \A i \in 1 .. Len(syscall_VT) : syscall_VT[i].id # id
    BY <1>1, <2>2 DEF SyscallsInv
  <2>3. CASE index \in 1 .. Len(syscall_VT) /\ syscall_VT[index].id = id
    <3>1. index # 0  BY <2>3
    <3> QED  BY <1>1, <2>3, <3>1 DEF SyscallsInv
  <2> QED  BY <2>1, <2>2, <2>3
<1> QED  BY <1>1, <1>2 DEF SyscallsInv, Syscalls!SyscallsResolve

HIDE ArraySizes

-----------------------------------------------------------------------------
(***************************************************************************)
(* The handlers.  Only exceptions 1 and 3 leave interrupts on, and so at   *)
(* most two handlers are under way: every state of the stack is known.     *)
(***************************************************************************)
LEMMA Vectors == IRQ_start \in 31 .. 240 /\ SyscallInts \subseteq Nat
BY PartsAssumption DEF Handling!InterruptsAssumption

USE Vectors

Frame(p, f) == <<"frame", p, f>>
Pushed(v) == <<"saved", v>>
MainPc == [code |-> Handling!Main, at |-> 1]
ExceptionPc(n) == [code |-> Handling!exc(n), at |-> 1]

MainBase == <<Frame(MainPc, enabled)>> \o <<>>
TrapBase(n) == <<Frame(ExceptionPc(n), TRUE)>> \o MainBase

RegValues ==
    {Handling!Own(r) : r \in Handling!Registers} \cup {Handling!Other}
    \cup {<<"irq", n>> : n \in 0 .. 15}

Items ==
    {<<"error">>} \cup {Pushed(v) : v \in RegValues}
    \cup {Frame(MainPc, TRUE), Frame(MainPc, FALSE),
          Frame(ExceptionPc(1), TRUE), Frame(ExceptionPc(3), TRUE)}

(* What lies below what a handler pushes. *)
Underneath(base) ==
    \/ base = MainBase
    \/ enabled /\ \E n \in Handling!Traps : base = TrapBase(n)

Bases == {MainBase, TrapBase(1), TrapBase(3)}

Idle == pic1 = {} /\ pic2 = {}
OwnRegs == \A r \in Handling!Kept : regs[r] = Handling!Own(r)

AtMain == pc = MainPc /\ stack = <<>> /\ Idle /\ iflag = enabled /\ OwnRegs

AtException(n) ==
    /\ n \in Handling!Exceptions /\ Idle /\ OwnRegs
    /\ iflag <=> (enabled /\ n \in Handling!Traps)
    /\ n = 13 => "gpf" \in arrived
    /\ \/ /\ pc = ExceptionPc(n)
          /\ stack = IF n \in Handling!ErrorCodes THEN <<<<"error">>>> \o MainBase ELSE MainBase
       \/ n = 13 /\ pc = [code |-> Handling!exc(n), at |-> 2] /\ stack = MainBase

(* A system call pushes six registers and pops them. *)
SavedOrder == <<"rbx", "rbp", "r12", "r13", "r14", "r15">>
Onto(m, s) == <<Pushed(Handling!Own(SavedOrder[m]))>> \o s
Pile(m, s) ==
    IF m = 0 THEN s ELSE IF m = 1 THEN Onto(1, s) ELSE IF m = 2 THEN Onto(2, Onto(1, s))
    ELSE IF m = 3 THEN Onto(3, Onto(2, Onto(1, s)))
    ELSE IF m = 4 THEN Onto(4, Onto(3, Onto(2, Onto(1, s))))
    ELSE IF m = 5 THEN Onto(5, Onto(4, Onto(3, Onto(2, Onto(1, s)))))
    ELSE Onto(6, Onto(5, Onto(4, Onto(3, Onto(2, Onto(1, s))))))
Height(k) == IF k <= 7 THEN k - 1 ELSE 13 - k

AtSystemCall(k) ==
    /\ k \in 1 .. 13 /\ pc = [code |-> Handling!syscall_fn, at |-> k]
    /\ stack = Pile(Height(k), MainBase)
    /\ ~ iflag /\ Idle /\ OwnRegs

(* Where in the handler of line n rdi is on the stack, and which lines are  *)
(* in service until the end of the interrupt is told.                       *)
WorkLength(n) == IF n = 4 THEN 1 ELSE IF n = 8 THEN 2 ELSE 0
OnStack(n, k) == k \in 2 .. 4 \/ k \in 6 + WorkLength(n) .. 8 + WorkLength(n)

InService(n) ==
    IF n < 8 THEN pic2 = {} /\ (pic1 = {n} \/ (n = 7 /\ pic1 = {}))
    ELSE pic1 = {2} /\ (pic2 = {n} \/ (n = 15 /\ pic2 = {}))

AtInterrupt(n, k, base, v) ==
    /\ n \in 0 .. 15 /\ k \in 1 .. 9 + WorkLength(n)
    /\ pc = [code |-> Handling!irq(n), at |-> k]
    /\ Underneath(base) /\ v \in RegValues
    /\ stack = IF OnStack(n, k) THEN <<Pushed(v)>> \o base ELSE base
    /\ "work" \notin arrived => v = Handling!Own("rdi")
    /\ "work" \notin arrived /\ ~ OnStack(n, k) => regs["rdi"] = v
    /\ k = 3 \/ k = 7 + WorkLength(n) => regs["rdi"] = <<"irq", n>>
    /\ IF k <= 7 + WorkLength(n) THEN InService(n) ELSE Idle
    /\ \A r \in Handling!CalleeSaved : regs[r] = Handling!Own(r)
    /\ ~ iflag /\ "irq" \in arrived /\ (n \in {4, 8} => "work" \in arrived)

HandlingInv ==
    /\ syscall_isr \in Nat /\ enabled \in BOOLEAN /\ iflag \in BOOLEAN
    /\ regs \in [Handling!Registers -> RegValues]
    /\ phase = "loaded" => IDT = Handling!idt_map /\ ~ Handling!Conflict
    /\ fault \in Handling!NotReturning \cup {-1}
    /\ fault = -1 =>
          \/ AtMain
          \/ phase = "loaded" /\ \E n \in Handling!Exceptions : AtException(n)
          \/ phase = "loaded" /\ \E k \in 1 .. 13 : AtSystemCall(k)
          \/ phase = "loaded" /\ \E n \in 0 .. 15, k \in 1 .. 11, base \in Bases, v \in RegValues :
                AtInterrupt(n, k, base, v)

-----------------------------------------------------------------------------
(* The stack. *)
LEMMA OnTop ==
    ASSUME NEW S, NEW s \in Seq(S), NEW e \in S
    PROVE  /\ <<e>> \o s \in Seq(S) /\ Head(<<e>> \o s) = e /\ Tail(<<e>> \o s) = s
           /\ <<e>> \o s # <<>>
<1>1. <<e>> \in Seq(S) /\ Len(<<e>>) = 1 /\ <<e>>[1] = e  OBVIOUS
<1> DEFINE t == <<e>> \o s
<1>2. /\ t \in Seq(S) /\ Len(t) = Len(s) + 1 /\ t[1] = e
      /\ \A i \in 1 .. Len(s) : t[i + 1] = s[i]
  BY <1>1
<1> HIDE DEF t
<1>3. t # <<>> /\ Head(t) = e  BY <1>2
<1>4. Tail(t) = s
  <2>1. Tail(t) \in Seq(S) /\ Len(Tail(t)) = Len(s)  BY <1>2, <1>3
  <2>2. \A i \in 1 .. Len(s) : Tail(t)[i] = s[i]  BY <1>2, <1>3
  <2> QED  BY <2>1, <2>2
<1> QED  BY <1>2, <1>3, <1>4 DEF t

LEMMA BasesAre ==
    ASSUME enabled \in BOOLEAN
    PROVE  /\ MainBase \in Seq(Items) /\ Head(MainBase) = Frame(MainPc, enabled)
           /\ Tail(MainBase) = <<>> /\ MainBase # <<>> /\ Frame(MainPc, enabled) \in Items
           /\ <<<<"error">>>> \o MainBase \in Seq(Items)
           /\ Head(<<<<"error">>>> \o MainBase) = <<"error">>
           /\ Tail(<<<<"error">>>> \o MainBase) = MainBase
           /\ \A n \in Handling!Traps :
                /\ TrapBase(n) \in Seq(Items) /\ Head(TrapBase(n)) = Frame(ExceptionPc(n), TRUE)
                /\ Tail(TrapBase(n)) = MainBase /\ TrapBase(n) # <<>>
<1>1. /\ Frame(MainPc, enabled) \in Items /\ <<"error">> \in Items
      /\ \A n \in Handling!Traps : Frame(ExceptionPc(n), TRUE) \in Items
  <2>1. Frame(MainPc, enabled) \in Items
    <3>1. CASE enabled  BY <3>1 DEF Items
    <3>2. CASE ~ enabled  BY <3>2 DEF Items
    <3> QED  BY <3>1, <3>2
  <2>2. <<"error">> \in Items /\ \A n \in Handling!Traps : Frame(ExceptionPc(n), TRUE) \in Items
    BY DEF Items, Handling!Traps
  <2> QED  BY <2>1, <2>2
<1>2. <<>> \in Seq(Items)  OBVIOUS
<1>3. /\ MainBase \in Seq(Items) /\ Head(MainBase) = Frame(MainPc, enabled)
      /\ Tail(MainBase) = <<>> /\ MainBase # <<>>
  BY <1>1, <1>2, OnTop DEF MainBase
<1>4. /\ <<<<"error">>>> \o MainBase \in Seq(Items)
      /\ Head(<<<<"error">>>> \o MainBase) = <<"error">>
      /\ Tail(<<<<"error">>>> \o MainBase) = MainBase
  BY <1>1, <1>3, OnTop
<1>5. \A n \in Handling!Traps :
          /\ TrapBase(n) \in Seq(Items) /\ Head(TrapBase(n)) = Frame(ExceptionPc(n), TRUE)
          /\ Tail(TrapBase(n)) = MainBase /\ TrapBase(n) # <<>>
  BY <1>1, <1>3, OnTop DEF TrapBase
<1> QED  BY <1>1, <1>3, <1>4, <1>5

(* The instructions of the handlers. *)
LineCodeIs(c, n, w) ==
    /\ c[1] = Handling!push("rdi") /\ c[2] = <<"mov", "rdi", <<"irq", n>>>>
    /\ c[3] = <<"call", "IC_SOI">> /\ c[4] = Handling!pop("rdi")
    /\ c[5 + w] = Handling!push("rdi") /\ c[6 + w] = <<"mov", "rdi", <<"irq", n>>>>
    /\ c[7 + w] = <<"call", "IC_EOI">> /\ c[8 + w] = Handling!pop("rdi")
    /\ c[9 + w] = Handling!iretq
    /\ n = 4 => c[5] = <<"call", "read_serial">>
    /\ n = 8 => c[5] = <<"mov", "rax", Handling!Other>> /\ c[6] = <<"call", "ms_update">>

LEMMA LineCode ==
    ASSUME NEW n \in 0 .. 15, NEW c, c = Handling!Code(Handling!irq(n)),
           NEW w \in 0 .. 2, w = WorkLength(n)
    PROVE  LineCodeIs(c, n, w)
<1>1. c = Handling!SOI(n) \o Handling!Work(n) \o Handling!EOI(n) \o <<Handling!iretq>>
  BY DEF Handling!Code, Handling!irq
<1>2. CASE n = 4
  BY <1>1, <1>2 DEF LineCodeIs, WorkLength, Handling!SOI, Handling!EOI, Handling!Work
<1>3. CASE n = 8
  BY <1>1, <1>3 DEF LineCodeIs, WorkLength, Handling!SOI, Handling!EOI, Handling!Work
<1>4. CASE n # 4 /\ n # 8
  <2>1. Handling!Work(n) = <<>> /\ w = 0  BY <1>4 DEF Handling!Work, WorkLength
  <2> QED  BY <1>1, <1>4, <2>1 DEF LineCodeIs, Handling!SOI, Handling!EOI
<1> QED  BY <1>2, <1>3, <1>4

LEMMA SystemCallCode ==
    ASSUME NEW c, c = Handling!Code(Handling!syscall_fn)
    PROVE  /\ \A k \in 1 .. 6 : c[k] = Handling!push(SavedOrder[k])
           /\ \A k \in 7 .. 12 : c[k] = Handling!pop(SavedOrder[13 - k])
           /\ c[13] = Handling!iretq
<1>1. c = <<Handling!push("rbx"), Handling!push("rbp"), Handling!push("r12"),
            Handling!push("r13"), Handling!push("r14"), Handling!push("r15")>>
          \o Handling!Popped \o <<Handling!iretq>>
  BY DEF Handling!Code, Handling!syscall_fn
<1>2. \A k \in 1 .. 6 : c[k] = Handling!push(SavedOrder[k])
  BY <1>1 DEF SavedOrder, Handling!Popped
<1>3. \A k \in 7 .. 12 : c[k] = Handling!pop(SavedOrder[13 - k])
  BY <1>1 DEF SavedOrder, Handling!Popped
<1>4. c[13] = Handling!iretq
  BY <1>1 DEF Handling!Popped
<1> QED  BY <1>2, <1>3, <1>4

LEMMA ExceptionCode ==
    ASSUME NEW n, NEW c, c = Handling!Code(Handling!exc(n))
    PROVE  /\ n = 13 => c[1] = Handling!pop("rax") /\ c[2] = Handling!iretq
           /\ n # 13 => c[1] = Handling!iretq
BY DEF Handling!Code, Handling!exc, Handling!Exception

(* One step of a handler, by its instruction. *)
LEMMA Steps ==
    ASSUME Handling!Step, NEW c, NEW k, pc = [code |-> c, at |-> k],
           NEW i, i = Handling!Code(c)[k]
    PROVE  /\ fault = -1 /\ c # Handling!Main
           /\ UNCHANGED <<syscall_isr, IDT, phase, enabled, arrived>>
           /\ \A r : i = Handling!push(r) =>
                /\ stack' = <<Pushed(regs[r])>> \o stack /\ pc' = [code |-> c, at |-> k + 1]
                /\ UNCHANGED <<regs, iflag, pic1, pic2, fault>>
           /\ \A r : i = Handling!pop(r) =>
                /\ stack' = Tail(stack) /\ pc' = [code |-> c, at |-> k + 1]
                /\ regs' = [regs EXCEPT ![r] = IF Head(stack)[1] = "saved" THEN Head(stack)[2]
                                               ELSE Handling!Other]
                /\ UNCHANGED <<iflag, pic1, pic2, fault>>
           /\ \A r, v : i = <<"mov", r, v>> =>
                /\ regs' = [regs EXCEPT ![r] = v] /\ pc' = [code |-> c, at |-> k + 1]
                /\ UNCHANGED <<stack, iflag, pic1, pic2, fault>>
           /\ i = <<"call", "IC_SOI">> =>
                Handling!CallSOI(regs["rdi"][2]) /\ UNCHANGED <<stack, iflag>>
           /\ i = <<"call", "IC_EOI">> =>
                Handling!CallEOI(regs["rdi"][2]) /\ UNCHANGED <<stack, iflag>>
           /\ \A f \in {"read_serial", "ms_update"} : i = <<"call", f>> =>
                /\ regs' = Handling!Clobbered /\ pc' = [code |-> c, at |-> k + 1]
                /\ UNCHANGED <<stack, iflag, pic1, pic2, fault>>
           /\ i = Handling!iretq => Handling!Return
<1>1. pc.code = c /\ pc.at = k /\ Handling!Next1 = [code |-> c, at |-> k + 1]
  BY DEF Handling!Next1
<1>2. ASSUME NEW r, i = Handling!push(r)
      PROVE  /\ stack' = <<Pushed(regs[r])>> \o stack /\ pc' = [code |-> c, at |-> k + 1]
             /\ UNCHANGED <<regs, iflag, pic1, pic2, fault>>
  <2>1. i[1] = "push" /\ i[2] = r  BY <1>2 DEF Handling!push
  <2> QED  BY <1>1, <2>1 DEF Handling!Step, Pushed
<1>3. ASSUME NEW r, i = Handling!pop(r)
      PROVE  /\ stack' = Tail(stack) /\ pc' = [code |-> c, at |-> k + 1]
             /\ regs' = [regs EXCEPT ![r] = IF Head(stack)[1] = "saved" THEN Head(stack)[2]
                                            ELSE Handling!Other]
             /\ UNCHANGED <<iflag, pic1, pic2, fault>>
  <2>1. i[1] = "pop" /\ i[2] = r  BY <1>3 DEF Handling!pop
  <2> QED  BY <1>1, <2>1 DEF Handling!Step
<1>4. ASSUME NEW r, NEW v, i = <<"mov", r, v>>
      PROVE  /\ regs' = [regs EXCEPT ![r] = v] /\ pc' = [code |-> c, at |-> k + 1]
             /\ UNCHANGED <<stack, iflag, pic1, pic2, fault>>
  <2>1. i[1] = "mov" /\ i[2] = r /\ i[3] = v  BY <1>4
  <2> QED  BY <1>1, <2>1 DEF Handling!Step
<1>5. ASSUME NEW f \in {"read_serial", "ms_update"}, i = <<"call", f>>
      PROVE  /\ regs' = Handling!Clobbered /\ pc' = [code |-> c, at |-> k + 1]
             /\ UNCHANGED <<stack, iflag, pic1, pic2, fault>>
  <2>1. i[1] = "call" /\ i[2] = f  BY <1>5
  <2> QED  BY <1>1, <2>1 DEF Handling!Step
<1>8. i = <<"call", "IC_SOI">> => Handling!CallSOI(regs["rdi"][2]) /\ UNCHANGED <<stack, iflag>>
  <2>1. i = <<"call", "IC_SOI">> => i[1] = "call" /\ i[2] = "IC_SOI"  OBVIOUS
  <2> QED  BY <1>1, <2>1 DEF Handling!Step
<1>9. i = <<"call", "IC_EOI">> => Handling!CallEOI(regs["rdi"][2]) /\ UNCHANGED <<stack, iflag>>
  <2>1. i = <<"call", "IC_EOI">> => i[1] = "call" /\ i[2] = "IC_EOI"  OBVIOUS
  <2> QED  BY <1>1, <2>1 DEF Handling!Step
<1>6. i = Handling!iretq => Handling!Return
  <2>1. i = Handling!iretq => i[1] = "iretq"  BY DEF Handling!iretq
  <2> QED  BY <1>1, <2>1 DEF Handling!Step
<1>7. /\ fault = -1 /\ c # Handling!Main
      /\ UNCHANGED <<syscall_isr, IDT, phase, enabled, arrived>>
  BY <1>1 DEF Handling!Step
<1> QED  BY <1>2, <1>3, <1>4, <1>5, <1>6, <1>7, <1>8, <1>9

-----------------------------------------------------------------------------
(* The table leads each vector to its own handler. *)
LEMMA Gates ==
    ASSUME syscall_isr \in Nat, IDT = Handling!idt_map, ~ Handling!Conflict
    PROVE  /\ \A n \in Handling!Exceptions :
                /\ Handling!Entered(IDT[n]) = {Handling!exc(n)}
                /\ (IDT[n].trap <=> n \in Handling!Traps) /\ n \in DOMAIN IDT
           /\ \A n \in 0 .. 15 :
                /\ Handling!Entered(IDT[IRQ_start + n]) = {Handling!irq(n)}
                /\ ~ IDT[IRQ_start + n].trap
           /\ Handling!Entered(IDT[syscall_isr]) = {Handling!syscall_fn}
           /\ ~ IDT[syscall_isr].trap
           /\ \A n, v : v \in DOMAIN IDT /\ Handling!exc(n) \in Handling!Entered(IDT[v]) => v = n
<1>1. ASSUME NEW h \in Handling!Handlers, NEW t
      PROVE  Handling!Entered(Handling!Gate(h, t)) = {h} /\ Handling!Gate(h, t).trap = t
  BY <1>1 DEF Handling!Entered, Handling!Gate, Handling!Word
<1>2. syscall_isr > 31 /\ syscall_isr \notin Handling!Lines
  BY DEF Handling!Conflict
<1>3. /\ DOMAIN IDT = Handling!Exceptions \cup Handling!Lines \cup {syscall_isr}
      /\ \A v \in DOMAIN IDT :
            IDT[v] = IF v = syscall_isr THEN Handling!Gate(Handling!syscall_fn, FALSE)
                     ELSE IF v \in Handling!Lines
                          THEN Handling!Gate(Handling!irq(v - IRQ_start), FALSE)
                          ELSE Handling!Gate(Handling!exc(v), v \in Handling!Traps)
  BY DEF Handling!idt_map
<1>4. \A n \in Handling!Exceptions : n \in DOMAIN IDT /\ n # syscall_isr /\ n \notin Handling!Lines
  BY <1>2, <1>3 DEF Handling!Exceptions, Handling!Lines
<1>5. \A n \in 0 .. 15 : /\ IRQ_start + n \in Handling!Lines /\ IRQ_start + n \in DOMAIN IDT
                         /\ IRQ_start + n # syscall_isr /\ (IRQ_start + n) - IRQ_start = n
  BY <1>2, <1>3 DEF Handling!Lines
<1>6. \A v \in Handling!Lines : v - IRQ_start \in 0 .. 15
  BY DEF Handling!Lines
<1>7. /\ \A n \in Handling!Exceptions : Handling!exc(n) \in Handling!Handlers
      /\ \A n \in 0 .. 15 : Handling!irq(n) \in Handling!Handlers
      /\ Handling!syscall_fn \in Handling!Handlers
  BY DEF Handling!Handlers
<1>8. ASSUME NEW n \in Handling!Exceptions
      PROVE  /\ Handling!Entered(IDT[n]) = {Handling!exc(n)}
             /\ (IDT[n].trap <=> n \in Handling!Traps) /\ n \in DOMAIN IDT
  <2>0. PICK t : t = (n \in Handling!Traps)  OBVIOUS
  <2>1. IDT[n] = Handling!Gate(Handling!exc(n), n \in Handling!Traps)  BY <1>3, <1>4
  <2>2. IDT[n] = Handling!Gate(Handling!exc(n), t)  BY <2>0, <2>1
  <2>3. Handling!exc(n) \in Handling!Handlers  BY <1>7
  <2>4. Handling!Entered(IDT[n]) = {Handling!exc(n)} /\ IDT[n].trap = t  BY <1>1, <2>2, <2>3
  <2>5. IDT[n].trap <=> n \in Handling!Traps  BY <2>0, <2>4
  <2> QED  BY <1>4, <2>4, <2>5
<1>9. ASSUME NEW n \in 0 .. 15
      PROVE  /\ Handling!Entered(IDT[IRQ_start + n]) = {Handling!irq(n)}
             /\ ~ IDT[IRQ_start + n].trap
  <2>1. IDT[IRQ_start + n] = Handling!Gate(Handling!irq(n), FALSE)  BY <1>3, <1>5
  <2>2. Handling!irq(n) \in Handling!Handlers  BY <1>7
  <2> QED  BY <1>1, <2>1, <2>2
<1>10. /\ Handling!Entered(IDT[syscall_isr]) = {Handling!syscall_fn}
       /\ ~ IDT[syscall_isr].trap
  <2>1. IDT[syscall_isr] = Handling!Gate(Handling!syscall_fn, FALSE)  BY <1>3
  <2> QED  BY <1>1, <1>7, <2>1
<1>11. ASSUME NEW n, NEW v \in DOMAIN IDT, Handling!exc(n) \in Handling!Entered(IDT[v])
       PROVE  v = n
  <2>1. /\ \A k : Handling!exc(n) # Handling!irq(k)
        /\ Handling!exc(n) # Handling!syscall_fn
        /\ \A k : Handling!exc(n) = Handling!exc(k) => k = n
    BY DEF Handling!exc, Handling!irq, Handling!syscall_fn
  <2>2. v # syscall_isr  BY <1>10, <1>11, <2>1
  <2>3. v \notin Handling!Lines
    <3>1. v \in Handling!Lines => IRQ_start + (v - IRQ_start) = v  BY DEF Handling!Lines
    <3> QED  BY <1>6, <1>9, <1>11, <2>1, <3>1
  <2>4. v \in Handling!Exceptions  BY <1>3, <2>2, <2>3
  <2> QED  BY <1>8, <1>11, <2>1, <2>4
<1> QED  BY <1>8, <1>9, <1>10, <1>11

(* What the processor does to enter the handler h. *)
Begun(v, h, e) ==
    /\ fault = -1 /\ phase = "loaded" /\ fault' = -1
    /\ pc' = [code |-> h, at |-> 1] /\ (iflag' <=> iflag /\ IDT[v].trap) /\ iflag' \in BOOLEAN
    /\ stack' = IF e THEN <<<<"error">>>> \o (<<Frame(pc, iflag)>> \o stack)
                ELSE <<Frame(pc, iflag)>> \o stack
    /\ UNCHANGED <<syscall_isr, IDT, phase, enabled, regs>>

LEMMA Enters ==
    ASSUME NEW v, NEW h, NEW e, stack \in Seq(Items), Frame(pc, iflag) \in Items,
           Handling!Entered(IDT[v]) = {h}, Handling!Enter(v, e)
    PROVE  Begun(v, h, e)
<1>1. (CHOOSE x \in {h} : TRUE) = h /\ {h} # {}  OBVIOUS
<1>2. /\ fault = -1 /\ phase = "loaded" /\ fault' = -1
      /\ pc' = [code |-> h, at |-> 1] /\ (iflag' <=> iflag /\ IDT[v].trap) /\ iflag' \in BOOLEAN
      /\ UNCHANGED <<syscall_isr, IDT, phase, enabled, regs>>
  BY <1>1 DEF Handling!Enter
<1>3. stack' = (IF e THEN <<<<"error">>>> ELSE <<>>) \o <<Frame(pc, iflag)>> \o stack
  BY DEF Handling!Enter, Frame
<1>4. /\ <<Frame(pc, iflag)>> \in Seq(Items) /\ <<<<"error">>>> \in Seq(Items)
      /\ <<>> \o <<Frame(pc, iflag)>> = <<Frame(pc, iflag)>>
  <2>1. <<"error">> \in Items  BY DEF Items
  <2>2. <<Frame(pc, iflag)>> \in Seq(Items)  OBVIOUS
  <2> QED  BY <2>1, <2>2
<1>5. <<<<"error">>>> \o <<Frame(pc, iflag)>> \o stack
          = <<<<"error">>>> \o (<<Frame(pc, iflag)>> \o stack)
  BY <1>4, ConcatAssociative
<1>6. stack' = IF e THEN <<<<"error">>>> \o (<<Frame(pc, iflag)>> \o stack)
               ELSE <<Frame(pc, iflag)>> \o stack
  BY <1>3, <1>4, <1>5
<1> QED  BY <1>2, <1>6 DEF Begun

(* The code of the kernel is at AtMain, and only trap gates leave interrupts on. *)
LEMMA WhichCode ==
    ASSUME HandlingInv, fault = -1
    PROVE  /\ pc.code = Handling!Main => AtMain
           /\ iflag => AtMain \/ \E n \in Handling!Traps : AtException(n)
<1>1. /\ \A n, k : Handling!Main # Handling!exc(n) /\ Handling!Main # Handling!irq(n)
                   /\ Handling!Main # Handling!syscall_fn
  BY DEF Handling!Main, Handling!exc, Handling!irq, Handling!syscall_fn
<1>2. ASSUME NEW n, AtException(n)
      PROVE  pc.code = Handling!exc(n) /\ (iflag => n \in Handling!Traps)
  BY <1>2 DEF AtException, ExceptionPc
<1>3. ASSUME NEW k, AtSystemCall(k)
      PROVE  pc.code = Handling!syscall_fn /\ ~ iflag
  BY <1>3 DEF AtSystemCall
<1>4. ASSUME NEW n, NEW k, NEW base, NEW v, AtInterrupt(n, k, base, v)
      PROVE  pc.code = Handling!irq(n) /\ ~ iflag
  BY <1>4 DEF AtInterrupt
<1>5. \/ AtMain
      \/ \E n \in Handling!Exceptions : AtException(n)
      \/ \E k \in 1 .. 13 : AtSystemCall(k)
      \/ \E n \in 0 .. 15, k \in 1 .. 11, base \in Bases, v \in RegValues :
            AtInterrupt(n, k, base, v)
  BY DEF HandlingInv
<1> QED  BY <1>1, <1>2, <1>3, <1>4, <1>5

(* An exception and a system call come from the code of the kernel. *)
LEMMA RaiseKeeps ==
    ASSUME HandlingInv, NEW n \in Handling!Exceptions, Handling!Raise(n)
    PROVE  HandlingInv'
<1>1. Handling!Enter(n, n \in Handling!ErrorCodes) /\ fault = -1 /\ phase = "loaded"
  BY DEF Handling!Raise, Handling!Enter
<1>2. AtMain /\ IDT = Handling!idt_map /\ ~ Handling!Conflict /\ syscall_isr \in Nat
      /\ enabled \in BOOLEAN
  BY <1>1, WhichCode DEF HandlingInv, Handling!Raise
<1>3. /\ Handling!Entered(IDT[n]) = {Handling!exc(n)} /\ (IDT[n].trap <=> n \in Handling!Traps)
  BY <1>2, Gates
<1>4. stack \in Seq(Items) /\ Frame(pc, iflag) \in Items /\ pc = MainPc /\ iflag = enabled
      /\ stack = <<>>
  <2>1. pc = MainPc /\ iflag = enabled /\ stack = <<>>  BY <1>2 DEF AtMain
  <2>2. Frame(MainPc, enabled) \in Items  BY <1>2, BasesAre
  <2> QED  BY <2>1, <2>2
<1>5. PICK e : e = (n \in Handling!ErrorCodes)  OBVIOUS
<1>11. Handling!Enter(n, e)  BY <1>1, <1>5
<1>6. Begun(n, Handling!exc(n), e)
  BY <1>3, <1>4, <1>11, Enters
<1>7. stack' = IF n \in Handling!ErrorCodes THEN <<<<"error">>>> \o MainBase' ELSE MainBase'
  <2>1. MainBase' = <<Frame(pc, iflag)>> \o stack  BY <1>4, <1>6 DEF MainBase, Begun
  <2> QED  BY <1>5, <1>6, <2>1 DEF Begun
<1>8. /\ pic1' = pic1 /\ pic2' = pic2 /\ Handling!Kept' \subseteq Handling!Kept
      /\ n = 13 => "gpf" \in arrived'
  BY DEF Handling!Raise, Handling!Kept
<1>9. AtException(n)'
  <2>1. Idle' /\ OwnRegs'  BY <1>2, <1>6, <1>8 DEF Begun, AtMain, Idle, OwnRegs
  <2>2. iflag' <=> (enabled' /\ n \in Handling!Traps)  BY <1>2, <1>3, <1>4, <1>6 DEF Begun
  <2> QED  BY <1>6, <1>7, <1>8, <2>1, <2>2 DEF Begun, AtException, ExceptionPc
<1> QED  BY <1>6, <1>9 DEF Begun, HandlingInv, Handling!Conflict, Handling!idt_map

LEMMA SystemCallKeeps ==
    ASSUME HandlingInv, Handling!SystemCall
    PROVE  HandlingInv'
<1>1. /\ Handling!Enter(syscall_isr, FALSE) /\ fault = -1 /\ phase = "loaded"
      /\ UNCHANGED <<pic1, pic2, arrived>>
  BY DEF Handling!SystemCall, Handling!Enter
<1>2. AtMain /\ IDT = Handling!idt_map /\ ~ Handling!Conflict /\ syscall_isr \in Nat
      /\ enabled \in BOOLEAN
  BY <1>1, WhichCode DEF HandlingInv, Handling!SystemCall
<1>3. Handling!Entered(IDT[syscall_isr]) = {Handling!syscall_fn} /\ ~ IDT[syscall_isr].trap
  BY <1>2, Gates
<1>4. stack \in Seq(Items) /\ Frame(pc, iflag) \in Items /\ pc = MainPc /\ iflag = enabled
      /\ stack = <<>>
  <2>1. pc = MainPc /\ iflag = enabled /\ stack = <<>>  BY <1>2 DEF AtMain
  <2>2. Frame(MainPc, enabled) \in Items  BY <1>2, BasesAre
  <2> QED  BY <2>1, <2>2
<1>5. Begun(syscall_isr, Handling!syscall_fn, FALSE)
  BY <1>1, <1>3, <1>4, Enters
<1>6. stack' = MainBase'  BY <1>4, <1>5 DEF MainBase, Begun
<1>7. Height(1) = 0 /\ Pile(0, MainBase)' = MainBase'  BY DEF Height, Pile
<1>8. AtSystemCall(1)'
  <2>1. Idle' /\ OwnRegs'  BY <1>1, <1>2, <1>5 DEF Begun, AtMain, Idle, OwnRegs, Handling!Kept
  <2>2. ~ iflag'  BY <1>3, <1>5 DEF Begun
  <2>3. stack' = Pile(Height(1), MainBase)'  BY <1>6, <1>7
  <2> QED  BY <1>5, <2>1, <2>2, <2>3 DEF Begun, AtSystemCall
<1>9. 1 \in 1 .. 13  OBVIOUS
<1> QED  BY <1>5, <1>8, <1>9 DEF Begun, HandlingInv, Handling!Conflict, Handling!idt_map

(* Interrupts come where iflag is set: at AtMain, or before an exception's iretq. *)
LEMMA InterruptKeeps ==
    ASSUME HandlingInv, NEW n \in 0 .. 15, NEW spurious \in BOOLEAN,
           Handling!Interrupt(n, spurious)
    PROVE  HandlingInv'
<1>1. /\ Handling!Enter(IRQ_start + n, FALSE) /\ fault = -1 /\ phase = "loaded" /\ iflag
      /\ spurious => n \in {7, 15}
      /\ pic1' = IF n = 7 /\ spurious THEN pic1 ELSE pic1 \cup {IF n < 8 THEN n ELSE 2}
      /\ pic2' = IF n < 8 \/ spurious THEN pic2 ELSE pic2 \cup {n}
      /\ arrived' = arrived \cup {"irq"} \cup (IF Handling!Work(n) = <<>> THEN {} ELSE {"work"})
  BY DEF Handling!Interrupt, Handling!Enter
<1>2. IDT = Handling!idt_map /\ ~ Handling!Conflict /\ syscall_isr \in Nat
      /\ enabled \in BOOLEAN /\ iflag \in BOOLEAN
  BY <1>1 DEF HandlingInv
<1>3. Handling!Entered(IDT[IRQ_start + n]) = {Handling!irq(n)} /\ ~ IDT[IRQ_start + n].trap
  BY <1>2, Gates
<1>4. /\ Idle /\ OwnRegs /\ stack \in Seq(Items) /\ Frame(pc, iflag) \in Items
      /\ Underneath(<<Frame(pc, iflag)>> \o stack)
      /\ <<Frame(pc, iflag)>> \o stack \in Bases /\ enabled
  <2>1. CASE AtMain
    <3>1. pc = MainPc /\ iflag = enabled /\ stack = <<>> /\ Idle /\ OwnRegs  BY <2>1 DEF AtMain
    <3>2. Frame(MainPc, enabled) \in Items  BY <1>2, BasesAre
    <3>3. <<Frame(pc, iflag)>> \o stack = MainBase  BY <3>1 DEF MainBase
    <3>4. enabled
      <4>1. iflag /\ iflag = enabled  BY <1>1, <3>1
      <4> QED  BY <4>1, Zenon
    <3>5. Underneath(MainBase) /\ MainBase \in Bases  BY DEF Underneath, Bases
    <3>6. stack \in Seq(Items) /\ Frame(pc, iflag) \in Items  BY <3>1, <3>2
    <3> QED  BY <3>1, <3>3, <3>4, <3>5, <3>6
  <2>2. ASSUME NEW t \in Handling!Traps, AtException(t)
        PROVE  /\ Idle /\ OwnRegs /\ stack \in Seq(Items) /\ Frame(pc, iflag) \in Items
               /\ Underneath(<<Frame(pc, iflag)>> \o stack)
               /\ <<Frame(pc, iflag)>> \o stack \in Bases /\ enabled
    <3>1. t # 13 /\ t \notin Handling!ErrorCodes /\ t \in {1, 3}
      BY DEF Handling!Traps, Handling!ErrorCodes
    <3>2. pc = ExceptionPc(t) /\ stack = MainBase /\ Idle /\ OwnRegs /\ enabled
      BY <1>1, <2>2, <3>1 DEF AtException
    <3>3. iflag = TRUE  BY <1>1, <1>2
    <3>4. <<Frame(pc, iflag)>> \o stack = TrapBase(t)  BY <3>2, <3>3 DEF TrapBase
    <3>5. MainBase \in Seq(Items)  BY <1>2, BasesAre
    <3>6. Frame(pc, iflag) \in Items  BY <3>1, <3>2, <3>3 DEF Items
    <3>7. TrapBase(t) \in Bases  BY <3>1 DEF Bases
    <3>8. Underneath(TrapBase(t))  BY <3>2 DEF Underneath
    <3> QED  BY <3>2, <3>4, <3>5, <3>6, <3>7, <3>8
  <2> QED  BY <1>1, <2>1, <2>2, WhichCode
<1>5. Begun(IRQ_start + n, Handling!irq(n), FALSE)
  BY <1>1, <1>3, <1>4, Enters
<1>6. PICK base : base = <<Frame(pc, iflag)>> \o stack  OBVIOUS
<1>7. PICK v : v = regs["rdi"]  OBVIOUS
<1>8. v \in RegValues
  <2>1. "rdi" \in Handling!Registers  BY DEF Handling!Registers, Handling!CallerSaved
  <2> QED  BY <1>7, <2>1 DEF HandlingInv
<1>9. Underneath(base)' /\ (base \in Bases)'
  BY <1>4, <1>5, <1>6 DEF Underneath, Bases, MainBase, TrapBase, Begun
<1>10. stack' = base /\ ~ OnStack(n, 1)
  <2>1. ~ OnStack(n, 1)  BY DEF OnStack, WorkLength
  <2> QED  BY <1>5, <1>6, <2>1 DEF Begun
<1>11. InService(n)'
  <2>1. pic1 = {} /\ pic2 = {}  BY <1>4 DEF Idle
  <2>2. CASE n < 8
    <3>1. pic1' = IF n = 7 /\ spurious THEN {} ELSE {n}  BY <1>1, <2>1, <2>2
    <3>2. pic2' = {}  BY <1>1, <2>1, <2>2
    <3> QED  BY <2>2, <3>1, <3>2 DEF InService
  <2>3. CASE ~ (n < 8)
    <3>1. n # 7  BY <2>3
    <3>2. pic1' = {2}  BY <1>1, <2>1, <2>3, <3>1
    <3>3. pic2' = IF spurious THEN {} ELSE {n}  BY <1>1, <2>1, <2>3
    <3>4. spurious => n = 15  BY <1>1, <3>1
    <3> QED  BY <2>3, <3>2, <3>3, <3>4 DEF InService
  <2> QED  BY <2>2, <2>3
<1>12. /\ "irq" \in arrived' /\ (n \in {4, 8} => "work" \in arrived')
       /\ "work" \notin arrived' => "work" \notin arrived
  <2>1. n \in {4, 8} => Handling!Work(n) # <<>>  BY DEF Handling!Work
  <2> QED  BY <1>1, <2>1
<1>13. /\ "work" \notin arrived' => v = Handling!Own("rdi")
       /\ \A r \in Handling!CalleeSaved : regs'[r] = Handling!Own(r)
       /\ regs'["rdi"] = v
  <2>1. /\ Handling!CalleeSaved \subseteq Handling!Kept
        /\ "work" \notin arrived => "rdi" \in Handling!Kept
    BY DEF Handling!Kept
  <2>2. regs' = regs  BY <1>5 DEF Begun
  <2> QED  BY <1>4, <1>7, <1>12, <2>1, <2>2 DEF OwnRegs
<1>14. 1 \in 1 .. 9 + WorkLength(n) /\ 1 <= 7 + WorkLength(n) /\ 1 # 7 + WorkLength(n)
       /\ 1 \in 1 .. 11
  BY DEF WorkLength
<1>15. ~ iflag' /\ pc' = [code |-> Handling!irq(n), at |-> 1]  BY <1>3, <1>5 DEF Begun
<1>16. AtInterrupt(n, 1, base, v)'
  BY <1>8, <1>9, <1>10, <1>11, <1>12, <1>13, <1>14, <1>15 DEF AtInterrupt
<1> QED
  BY <1>5, <1>8, <1>9, <1>14, <1>16
  DEF Begun, HandlingInv, Handling!Conflict, Handling!idt_map

-----------------------------------------------------------------------------
(* The return of a handler whose frame is on top of the stack. *)
LEMMA Returns ==
    ASSUME NEW p, NEW f, Handling!Return, stack # <<>>, Head(stack) = Frame(p, f)
    PROVE  pc' = p /\ iflag' = f /\ stack' = Tail(stack) /\ UNCHANGED <<regs, pic1, pic2, fault>>
<1>1. Head(stack)[1] = "frame" /\ Head(stack)[2] = p /\ Head(stack)[3] = f  BY DEF Frame
<1> QED  BY <1>1 DEF Handling!Return

LEMMA BackAtMain ==
    ASSUME enabled \in BOOLEAN, Handling!Return, stack = MainBase, Idle, OwnRegs,
           UNCHANGED <<enabled, arrived>>
    PROVE  AtMain' /\ iflag' \in BOOLEAN /\ UNCHANGED <<regs, fault>>
<1>1. stack # <<>> /\ Head(stack) = Frame(MainPc, enabled) /\ Tail(stack) = <<>>
  BY BasesAre
<1>2. pc' = MainPc /\ iflag' = enabled /\ stack' = <<>> /\ UNCHANGED <<regs, pic1, pic2, fault>>
  BY <1>1, Returns
<1>3. Idle' /\ OwnRegs'  BY <1>2 DEF Idle, OwnRegs, Handling!Kept
<1> QED  BY <1>2, <1>3 DEF AtMain

(* What else a step of a handler has to leave as it must be. *)
LEMMA Onwards ==
    ASSUME HandlingInv, phase = "loaded", fault = -1,
           UNCHANGED <<syscall_isr, IDT, phase, enabled>>, iflag' \in BOOLEAN,
           regs' \in [Handling!Registers -> RegValues],
           \/ fault' \in Handling!NotReturning \ {-1}
           \/ /\ UNCHANGED fault
              /\ \/ AtMain'
                 \/ \E n \in Handling!Exceptions : AtException(n)'
                 \/ \E k \in 1 .. 13 : AtSystemCall(k)'
                 \/ \E n \in 0 .. 15, k \in 1 .. 11, base \in Bases', v \in RegValues :
                        AtInterrupt(n, k, base, v)'
    PROVE  HandlingInv'
BY DEF HandlingInv, Handling!Conflict, Handling!idt_map

LEMMA ExceptionStep ==
    ASSUME HandlingInv, phase = "loaded", NEW n \in Handling!Exceptions, AtException(n),
           Handling!Step
    PROVE  HandlingInv'
<1>1. /\ enabled \in BOOLEAN /\ iflag \in BOOLEAN /\ regs \in [Handling!Registers -> RegValues]
      /\ IDT = Handling!idt_map /\ ~ Handling!Conflict /\ syscall_isr \in Nat
  BY DEF HandlingInv
<1>2. fault = -1 /\ UNCHANGED <<syscall_isr, IDT, phase, enabled, arrived>>
  BY DEF Handling!Step
<1>3. Idle /\ OwnRegs /\ (n = 13 => "gpf" \in arrived)  BY DEF AtException
<1>4. PICK c : c = Handling!exc(n)  OBVIOUS
<1>5. /\ n = 13 => /\ Handling!Code(c)[1] = Handling!pop("rax")
                   /\ Handling!Code(c)[2] = Handling!iretq
      /\ n # 13 => Handling!Code(c)[1] = Handling!iretq
  BY <1>4, ExceptionCode
<1>6. CASE stack = MainBase /\ Handling!Return
  <2>1. AtMain' /\ iflag' \in BOOLEAN /\ UNCHANGED <<regs, fault>>
    BY <1>1, <1>2, <1>3, <1>6, BackAtMain
  <2> QED  BY <1>1, <1>2, <2>1, Onwards
<1>7. CASE pc = ExceptionPc(n) /\ n = 13
  <2>1. pc = [code |-> c, at |-> 1]  BY <1>4, <1>7 DEF ExceptionPc
  <2>2. stack = <<<<"error">>>> \o MainBase
    BY <1>7 DEF AtException, ExceptionPc, Handling!ErrorCodes
  <2>3. Head(stack) = <<"error">> /\ Tail(stack) = MainBase  BY <1>1, <2>2, BasesAre
  <2>4. Head(stack)[1] # "saved"  BY <2>3
  <2>5. /\ stack' = Tail(stack) /\ pc' = [code |-> c, at |-> 1 + 1]
        /\ regs' = [regs EXCEPT !["rax"] = IF Head(stack)[1] = "saved" THEN Head(stack)[2]
                                           ELSE Handling!Other]
        /\ UNCHANGED <<iflag, pic1, pic2, fault>>
    BY <1>5, <1>7, <2>1, Steps
  <2>6. regs' = [regs EXCEPT !["rax"] = Handling!Other]  BY <2>4, <2>5
  <2>7. regs' \in [Handling!Registers -> RegValues]
    BY <1>1, <2>6 DEF RegValues
  <2>8. OwnRegs' /\ Idle'
    <3>1. "rax" \notin Handling!Kept /\ Handling!Kept' = Handling!Kept
          /\ Handling!Kept \subseteq Handling!Registers
      BY <1>2, <1>3, <1>7
      DEF Handling!Kept, Handling!CalleeSaved, Handling!Registers, Handling!CallerSaved
    <3>2. \A r \in Handling!Kept : regs'[r] = regs[r]  BY <1>1, <2>6, <3>1
    <3> QED  BY <1>3, <2>5, <3>1, <3>2 DEF OwnRegs, Idle
  <2>9. MainBase' = MainBase  BY <1>2 DEF MainBase
  <2>10. iflag' <=> (enabled' /\ n \in Handling!Traps)  BY <1>2, <2>5 DEF AtException
  <2>11. AtException(n)'
    BY <1>2, <1>3, <1>4, <1>7, <2>3, <2>5, <2>8, <2>9, <2>10 DEF AtException
  <2>12. iflag' \in BOOLEAN  BY <1>1, <2>5
  <2> QED  BY <1>2, <2>5, <2>7, <2>11, <2>12, Onwards
<1>8. CASE pc = ExceptionPc(n) /\ n # 13
  <2>1. pc = [code |-> c, at |-> 1]  BY <1>4, <1>8 DEF ExceptionPc
  <2>2. Handling!Return  BY <1>5, <1>8, <2>1, Steps
  <2>3. CASE n \notin Handling!ErrorCodes
    <3>1. stack = MainBase  BY <1>8, <2>3 DEF AtException
    <3> QED  BY <1>6, <2>2, <3>1
  <2>4. CASE n \in Handling!ErrorCodes
    <3>1. stack = <<<<"error">>>> \o MainBase  BY <1>8, <2>4 DEF AtException
    <3>2. Head(stack) = <<"error">>  BY <1>1, <3>1, BasesAre
    <3>3. Head(stack)[1] # "frame"  BY <3>2
    <3>4. /\ fault' = CHOOSE v \in DOMAIN IDT : pc.code \in Handling!Entered(IDT[v])
          /\ UNCHANGED <<regs, iflag>>
      BY <2>2, <3>3 DEF Handling!Return
    <3>5. pc.code = Handling!exc(n)  BY <1>4, <2>1
    <3>6. n \in DOMAIN IDT /\ pc.code \in Handling!Entered(IDT[n])
      BY <1>1, <3>5, Gates
    <3>7. \A v \in DOMAIN IDT : pc.code \in Handling!Entered(IDT[v]) => v = n
      BY <1>1, <3>5, Gates
    <3>8. fault' = n  BY <3>4, <3>6, <3>7
    <3>9. n \in Handling!NotReturning \ {-1}
      BY <1>8, <2>4 DEF Handling!NotReturning, Handling!Exceptions
    <3>10. iflag' \in BOOLEAN /\ regs' \in [Handling!Registers -> RegValues]
      BY <1>1, <3>4
    <3> QED  BY <1>2, <3>8, <3>9, <3>10, Onwards
  <2> QED  BY <2>3, <2>4
<1>9. CASE n = 13 /\ pc = [code |-> Handling!exc(n), at |-> 2] /\ stack = MainBase
  <2>1. pc = [code |-> c, at |-> 2]  BY <1>4, <1>9
  <2>2. Handling!Return  BY <1>5, <1>9, <2>1, Steps
  <2> QED  BY <1>6, <1>9, <2>2
<1> QED  BY <1>7, <1>8, <1>9 DEF AtException

(* A system call takes off what it has put on. *)
LEMMA InOrder ==
    \A m \in 1 .. 6 : /\ SavedOrder[m] \in Handling!CalleeSaved
                       /\ Pushed(Handling!Own(SavedOrder[m])) \in Items
<1>1. \A m \in 1 .. 6 : SavedOrder[m] \in Handling!CalleeSaved
  BY DEF SavedOrder, Handling!CalleeSaved
<1>2. \A m \in 1 .. 6 : Pushed(Handling!Own(SavedOrder[m])) \in Items
  BY <1>1 DEF Items, RegValues, Handling!Registers
<1> QED  BY <1>1, <1>2

LEMMA Piles ==
    ASSUME enabled \in BOOLEAN
    PROVE  /\ \A m \in 0 .. 6 : Pile(m, MainBase) \in Seq(Items)
           /\ \A m \in 1 .. 6 : Pile(m, MainBase) = Onto(m, Pile(m - 1, MainBase))
<1>3. \A m \in 1 .. 6, s \in Seq(Items) : Onto(m, s) \in Seq(Items)
  BY InOrder, OnTop DEF Onto
<1>4. MainBase \in Seq(Items)  BY BasesAre
<1>5. \A m \in 1 .. 6 : Pile(m, MainBase) = Onto(m, Pile(m - 1, MainBase))
  BY DEF Pile
<1>6. Pile(0, MainBase) = MainBase  BY DEF Pile
<1>7. Pile(0, MainBase) \in Seq(Items)  BY <1>4, <1>6
<1>8. \A m \in 1 .. 6 : Pile(m - 1, MainBase) \in Seq(Items) => Pile(m, MainBase) \in Seq(Items)
  BY <1>3, <1>5
<1>9. Pile(1, MainBase) \in Seq(Items) /\ Pile(2, MainBase) \in Seq(Items)
      /\ Pile(3, MainBase) \in Seq(Items)
  <2>1. Pile(1, MainBase) \in Seq(Items)  BY <1>7, <1>8
  <2>2. Pile(2, MainBase) \in Seq(Items)  BY <2>1, <1>8
  <2> QED  BY <2>1, <2>2, <1>8
<1>10. Pile(4, MainBase) \in Seq(Items) /\ Pile(5, MainBase) \in Seq(Items)
       /\ Pile(6, MainBase) \in Seq(Items)
  <2>1. Pile(4, MainBase) \in Seq(Items)  BY <1>8, <1>9
  <2>2. Pile(5, MainBase) \in Seq(Items)  BY <2>1, <1>8
  <2> QED  BY <2>1, <2>2, <1>8
<1>11. \A m \in 0 .. 6 : m = 0 \/ m = 1 \/ m = 2 \/ m = 3 \/ m = 4 \/ m = 5 \/ m = 6
  OBVIOUS
<1> QED  BY <1>5, <1>7, <1>9, <1>10, <1>11

LEMMA SystemCallStep ==
    ASSUME HandlingInv, phase = "loaded", NEW k \in 1 .. 13, AtSystemCall(k), Handling!Step
    PROVE  HandlingInv'
<1>1. /\ enabled \in BOOLEAN /\ iflag \in BOOLEAN /\ regs \in [Handling!Registers -> RegValues]
  BY DEF HandlingInv
<1>2. fault = -1 /\ UNCHANGED <<syscall_isr, IDT, phase, enabled, arrived>>
  BY DEF Handling!Step
<1>3. PICK c : c = Handling!syscall_fn  OBVIOUS
<1>4. /\ pc = [code |-> c, at |-> k] /\ stack = Pile(Height(k), MainBase)
      /\ ~ iflag /\ Idle /\ OwnRegs
  BY <1>3 DEF AtSystemCall
<1>5. /\ \A j \in 1 .. 6 : Handling!Code(c)[j] = Handling!push(SavedOrder[j])
      /\ \A j \in 7 .. 12 : Handling!Code(c)[j] = Handling!pop(SavedOrder[13 - j])
      /\ Handling!Code(c)[13] = Handling!iretq
  BY <1>3, SystemCallCode
<1>6. /\ \A m \in 1 .. 6 : /\ SavedOrder[m] \in Handling!Kept
                           /\ SavedOrder[m] \in Handling!Registers
                           /\ Pushed(Handling!Own(SavedOrder[m])) \in Items
  BY InOrder DEF Handling!Kept, Handling!Registers
<1>7. Pile(Height(k + 1), MainBase)' = Pile(Height(k + 1), MainBase)
  BY <1>2 DEF MainBase, Pile, Onto
<1>8. ASSUME k < 13, UNCHANGED <<regs, iflag, pic1, pic2, fault>>,
             pc' = [code |-> c, at |-> k + 1], stack' = Pile(Height(k + 1), MainBase)
      PROVE  HandlingInv'
  <2>1. AtSystemCall(k + 1)'
    BY <1>2, <1>3, <1>4, <1>7, <1>8 DEF AtSystemCall, Idle, OwnRegs, Handling!Kept
  <2>2. k + 1 \in 1 .. 13  BY <1>8
  <2>3. iflag' \in BOOLEAN /\ regs' \in [Handling!Registers -> RegValues]  BY <1>1, <1>8
  <2> QED  BY <1>2, <1>8, <2>1, <2>2, <2>3, Onwards
<1>9. CASE k \in 1 .. 6
  <2>1. /\ stack' = <<Pushed(regs[SavedOrder[k]])>> \o stack /\ pc' = [code |-> c, at |-> k + 1]
        /\ UNCHANGED <<regs, iflag, pic1, pic2, fault>>
    BY <1>4, <1>5, <1>9, Steps
  <2>2. regs[SavedOrder[k]] = Handling!Own(SavedOrder[k])  BY <1>4, <1>6, <1>9 DEF OwnRegs
  <2>3. Height(k) = k - 1 /\ Height(k + 1) = k /\ k < 13  BY <1>9 DEF Height
  <2>4. Pile(k, MainBase) = Onto(k, Pile(k - 1, MainBase))  BY <1>1, <1>9, Piles
  <2>5. stack' = Pile(Height(k + 1), MainBase)  BY <1>4, <2>1, <2>2, <2>3, <2>4 DEF Onto
  <2> QED  BY <1>8, <2>1, <2>3, <2>5
<1>10. CASE k \in 7 .. 12
  <2>1. PICK m \in 1 .. 6 : m = 13 - k  BY <1>10
  <2>2. Height(k) = m /\ Height(k + 1) = m - 1 /\ k < 13  BY <1>10, <2>1 DEF Height
  <2>3. PICK r : r = SavedOrder[m]  OBVIOUS
  <2>4. Handling!Code(c)[k] = Handling!pop(r)  BY <1>5, <1>10, <2>1, <2>3
  <2>5. /\ stack' = Tail(stack) /\ pc' = [code |-> c, at |-> k + 1]
        /\ regs' = [regs EXCEPT ![r] = IF Head(stack)[1] = "saved" THEN Head(stack)[2]
                                       ELSE Handling!Other]
        /\ UNCHANGED <<iflag, pic1, pic2, fault>>
    BY <1>4, <2>4, Steps
  <2>6. stack = <<Pushed(Handling!Own(r))>> \o Pile(m - 1, MainBase)
    BY <1>1, <1>4, <2>2, <2>3, Piles DEF Onto
  <2>7. /\ Pile(m - 1, MainBase) \in Seq(Items) /\ Pushed(Handling!Own(r)) \in Items
    <3>1. m - 1 \in 0 .. 6  OBVIOUS
    <3> QED  BY <1>1, <1>6, <2>3, <3>1, Piles
  <2>8. Tail(stack) = Pile(m - 1, MainBase) /\ Head(stack) = Pushed(Handling!Own(r))
    BY <2>6, <2>7, OnTop
  <2>9. Head(stack)[1] = "saved" /\ Head(stack)[2] = Handling!Own(r)  BY <2>8 DEF Pushed
  <2>10. regs[r] = Handling!Own(r)  BY <1>4, <1>6, <2>3 DEF OwnRegs
  <2>11. regs' = [regs EXCEPT ![r] = Handling!Own(r)]  BY <2>5, <2>9
  <2>12. regs' = regs  BY <1>1, <2>10, <2>11
  <2>13. stack' = Pile(Height(k + 1), MainBase)  BY <2>2, <2>5, <2>8
  <2> QED  BY <1>8, <2>2, <2>5, <2>12, <2>13
<1>11. CASE k = 13
  <2>1. Handling!Return  BY <1>4, <1>5, <1>11, Steps
  <2>2. stack = MainBase  BY <1>4, <1>11 DEF Height, Pile
  <2>3. AtMain' /\ iflag' \in BOOLEAN /\ UNCHANGED <<regs, fault>>
    BY <1>1, <1>2, <1>4, <2>1, <2>2, BackAtMain
  <2> QED  BY <1>1, <1>2, <2>3, Onwards
<1> QED  BY <1>9, <1>10, <1>11

(* The handler of a line. *)
LEMMA FirstOf ==
    /\ Handling!First({}) = {}
    /\ \A x \in Nat : Handling!First({x}) = {x}
BY DEF Handling!First, Handling!Min

(* The calls that the handlers make keep the registers that functions keep. *)
LEMMA ClobberedRegs ==
    ASSUME regs \in [Handling!Registers -> RegValues]
    PROVE  /\ Handling!Clobbered \in [Handling!Registers -> RegValues]
           /\ \A r \in Handling!CalleeSaved : Handling!Clobbered[r] = regs[r]
<1>1. Handling!CalleeSaved \cap Handling!CallerSaved = {}
  BY DEF Handling!CalleeSaved, Handling!CallerSaved
<1> QED  BY <1>1 DEF Handling!Clobbered, Handling!Registers, RegValues

LEMMA LoadedRegs ==
    ASSUME regs \in [Handling!Registers -> RegValues], NEW r \in Handling!CallerSaved,
           NEW v \in RegValues
    PROVE  /\ [regs EXCEPT ![r] = v] \in [Handling!Registers -> RegValues]
           /\ [regs EXCEPT ![r] = v][r] = v
           /\ \A s \in Handling!Registers : s # r => [regs EXCEPT ![r] = v][s] = regs[s]
           /\ \A s \in Handling!CalleeSaved : [regs EXCEPT ![r] = v][s] = regs[s]
<1>1. Handling!CalleeSaved \cap Handling!CallerSaved = {}
  BY DEF Handling!CalleeSaved, Handling!CallerSaved
<1> QED  BY <1>1 DEF Handling!Registers

(* The next instruction, with what is on the stack and in rdi. *)
Moved(n, k, base, v) ==
    /\ pc' = [code |-> Handling!irq(n), at |-> k + 1] /\ v \in RegValues
    /\ stack' = IF OnStack(n, k + 1) THEN <<Pushed(v)>> \o base ELSE base
    /\ "work" \notin arrived => v = Handling!Own("rdi")
    /\ "work" \notin arrived /\ ~ OnStack(n, k + 1) => regs'["rdi"] = v
    /\ k + 1 = 3 \/ k + 1 = 7 + WorkLength(n) => regs'["rdi"] = <<"irq", n>>
    /\ regs' \in [Handling!Registers -> RegValues]
    /\ \A r \in Handling!CalleeSaved : regs'[r] = regs[r]
    /\ UNCHANGED <<iflag, fault>>

LEMMA MovedOn ==
    ASSUME HandlingInv, phase = "loaded", NEW n \in 0 .. 15, NEW k \in 1 .. 8 + WorkLength(n),
           NEW base \in Bases, NEW u, AtInterrupt(n, k, base, u), NEW v,
           Moved(n, k, base, v), fault = -1,
           UNCHANGED <<syscall_isr, IDT, phase, enabled, arrived>>,
           IF k + 1 <= 7 + WorkLength(n) THEN UNCHANGED <<pic1, pic2>> ELSE Idle'
    PROVE  HandlingInv'
<1>1. PICK w \in 0 .. 2 : w = WorkLength(n)  BY DEF WorkLength
<1>2. k + 1 \in 1 .. 11 /\ k + 1 \in 1 .. 9 + w /\ (k + 1 <= 7 + w => k <= 7 + w)
  BY <1>1
<1>3. base \in Bases' /\ Underneath(base)'
  <2>1. Underneath(base)  BY DEF AtInterrupt
  <2> QED  BY <2>1 DEF Bases, Underneath, MainBase, TrapBase
<1>4. IF k + 1 <= 7 + w THEN InService(n)' ELSE Idle'
  <2>1. k <= 7 + w => InService(n)  BY <1>1 DEF AtInterrupt
  <2> QED  BY <1>1, <1>2, <2>1 DEF InService
<1>5. \A r \in Handling!CalleeSaved : regs'[r] = Handling!Own(r)
  BY DEF Moved, AtInterrupt
<1>6. ~ iflag' /\ "irq" \in arrived' /\ (n \in {4, 8} => "work" \in arrived')
  BY DEF Moved, AtInterrupt
<1>7. /\ pc' = [code |-> Handling!irq(n), at |-> k + 1] /\ v \in RegValues
      /\ stack' = IF OnStack(n, k + 1) THEN <<Pushed(v)>> \o base ELSE base
      /\ "work" \notin arrived' => v = Handling!Own("rdi")
      /\ "work" \notin arrived' /\ ~ OnStack(n, k + 1) => regs'["rdi"] = v
      /\ k + 1 = 3 \/ k + 1 = 7 + WorkLength(n) => regs'["rdi"] = <<"irq", n>>
  BY DEF Moved
<1>8. AtInterrupt(n, k + 1, base, v)'
  BY <1>1, <1>2, <1>3, <1>4, <1>5, <1>6, <1>7 DEF AtInterrupt
<1>9. iflag' \in BOOLEAN /\ regs' \in [Handling!Registers -> RegValues] /\ UNCHANGED fault
  BY DEF HandlingInv, Moved
<1> QED  BY <1>2, <1>3, <1>7, <1>8, <1>9, Onwards

(* A call of a C function in the middle part. *)
LEMMA WorkCalled ==
    ASSUME Handling!Step, NEW c, NEW k, pc = [code |-> c, at |-> k],
           NEW i, i = Handling!Code(c)[k],
           NEW f \in {"read_serial", "ms_update"}, i = <<"call", f>>
    PROVE  /\ pc' = [code |-> c, at |-> k + 1] /\ UNCHANGED <<stack, iflag, pic1, pic2, fault>>
           /\ regs' = Handling!Clobbered
<1>1. \A g \in {"read_serial", "ms_update"} : i = <<"call", g>> =>
          /\ regs' = Handling!Clobbered /\ pc' = [code |-> c, at |-> k + 1]
          /\ UNCHANGED <<stack, iflag, pic1, pic2, fault>>
  BY Steps
<1> QED  BY <1>1

LEMMA LineStep ==
    ASSUME HandlingInv, phase = "loaded", NEW n \in 0 .. 15, NEW k \in 1 .. 11,
           NEW base \in Bases, NEW u \in RegValues, AtInterrupt(n, k, base, u), Handling!Step
    PROVE  HandlingInv'
<1>1. /\ enabled \in BOOLEAN /\ iflag \in BOOLEAN /\ regs \in [Handling!Registers -> RegValues]
  BY DEF HandlingInv
<1>2. fault = -1 /\ UNCHANGED <<syscall_isr, IDT, phase, enabled, arrived>>
  BY DEF Handling!Step
<1>3. PICK w \in 0 .. 2 : w = WorkLength(n)  BY DEF WorkLength
<1>4. PICK c : c = Handling!irq(n)  OBVIOUS
<1>5. PICK i : i = Handling!Code(c)[k]  OBVIOUS
<1>6. /\ pc = [code |-> c, at |-> k] /\ k \in 1 .. 9 + w /\ Underneath(base)
      /\ stack = IF OnStack(n, k) THEN <<Pushed(u)>> \o base ELSE base
      /\ "work" \notin arrived => u = Handling!Own("rdi")
      /\ "work" \notin arrived /\ ~ OnStack(n, k) => regs["rdi"] = u
      /\ k = 3 \/ k = 7 + w => regs["rdi"] = <<"irq", n>>
      /\ IF k <= 7 + w THEN InService(n) ELSE Idle
      /\ \A r \in Handling!CalleeSaved : regs[r] = Handling!Own(r)
      /\ ~ iflag /\ "irq" \in arrived /\ (n \in {4, 8} => "work" \in arrived)
  BY <1>3, <1>4 DEF AtInterrupt
<1>7. \A j \in 1 .. 12 : OnStack(n, j) <=> j \in 2 .. 4 \/ j \in 6 + w .. 8 + w
  BY <1>3 DEF OnStack
<1>8. base \in Seq(Items) /\ Pushed(u) \in Items
  <2>1. base \in Seq(Items)  BY <1>1, BasesAre DEF Bases, Handling!Traps
  <2> QED  BY <2>1 DEF Items
<1>9. "rdi" \in Handling!CallerSaved /\ "rax" \in Handling!CallerSaved
      /\ "rdi" \in Handling!Registers
  BY DEF Handling!CallerSaved, Handling!Registers
<1>10. ASSUME NEW v, Moved(n, k, base, v), k <= 8 + w,
              IF k + 1 <= 7 + w THEN UNCHANGED <<pic1, pic2>> ELSE Idle'
       PROVE  HandlingInv'
  <2>1. k \in 1 .. 8 + WorkLength(n)  BY <1>3, <1>10
  <2> QED  BY <1>2, <1>3, <1>10, <2>1, MovedOn
<1>11. CASE i = Handling!push("rdi") /\ (k = 1 \/ k = 5 + w)
  <2>1. /\ stack' = <<Pushed(regs["rdi"])>> \o stack /\ pc' = [code |-> c, at |-> k + 1]
        /\ UNCHANGED <<regs, iflag, pic1, pic2, fault>>
    BY <1>5, <1>6, <1>11, Steps
  <2>2. ~ OnStack(n, k) /\ OnStack(n, k + 1) /\ k <= 8 + w /\ k + 1 <= 7 + w
        /\ k + 1 # 3 /\ k + 1 # 7 + w
    BY <1>6, <1>7, <1>11
  <2>3. PICK v : v = regs["rdi"]  OBVIOUS
  <2>4. v \in RegValues  BY <1>1, <1>9, <2>3
  <2>5. "work" \notin arrived => v = Handling!Own("rdi")  BY <1>6, <2>2, <2>3
  <2>6. stack' = <<Pushed(v)>> \o base  BY <1>6, <2>1, <2>2, <2>3
  <2>7. Moved(n, k, base, v)  BY <1>1, <1>3, <1>4, <2>1, <2>2, <2>4, <2>5, <2>6 DEF Moved
  <2> QED  BY <1>10, <2>1, <2>2, <2>7
<1>12. CASE i = <<"mov", "rdi", <<"irq", n>>>> /\ (k = 2 \/ k = 6 + w)
  <2>1. /\ regs' = [regs EXCEPT !["rdi"] = <<"irq", n>>] /\ pc' = [code |-> c, at |-> k + 1]
        /\ UNCHANGED <<stack, iflag, pic1, pic2, fault>>
    BY <1>5, <1>6, <1>12, Steps
  <2>2. OnStack(n, k) /\ OnStack(n, k + 1) /\ k <= 8 + w /\ k + 1 <= 7 + w
    BY <1>6, <1>7, <1>12
  <2>3. <<"irq", n>> \in RegValues  BY DEF RegValues
  <2>4. /\ regs' \in [Handling!Registers -> RegValues] /\ regs'["rdi"] = <<"irq", n>>
        /\ \A s \in Handling!CalleeSaved : regs'[s] = regs[s]
    BY <1>1, <1>9, <2>1, <2>3, LoadedRegs
  <2>5. Moved(n, k, base, u)  BY <1>4, <1>6, <2>1, <2>2, <2>4 DEF Moved
  <2> QED  BY <1>10, <2>1, <2>2, <2>5
<1>13. CASE i = Handling!pop("rdi") /\ (k = 4 \/ k = 8 + w)
  <2>1. /\ stack' = Tail(stack) /\ pc' = [code |-> c, at |-> k + 1]
        /\ regs' = [regs EXCEPT !["rdi"] = IF Head(stack)[1] = "saved" THEN Head(stack)[2]
                                           ELSE Handling!Other]
        /\ UNCHANGED <<iflag, pic1, pic2, fault>>
    BY <1>5, <1>6, <1>13, Steps
  <2>2. OnStack(n, k) /\ ~ OnStack(n, k + 1) /\ k <= 8 + w /\ k + 1 # 3 /\ k + 1 # 7 + w
        /\ (k + 1 <= 7 + w <=> k = 4) /\ (k = 8 + w => ~ (k <= 7 + w))
    BY <1>6, <1>7, <1>13
  <2>3. stack = <<Pushed(u)>> \o base  BY <1>6, <2>2
  <2>4. Tail(stack) = base /\ Head(stack) = Pushed(u)  BY <1>8, <2>3, OnTop
  <2>5. Head(stack)[1] = "saved" /\ Head(stack)[2] = u  BY <2>4 DEF Pushed
  <2>6. regs' = [regs EXCEPT !["rdi"] = u]  BY <2>1, <2>5
  <2>7. /\ regs' \in [Handling!Registers -> RegValues] /\ regs'["rdi"] = u
        /\ \A s \in Handling!CalleeSaved : regs'[s] = regs[s]
    BY <1>1, <1>9, <2>6, LoadedRegs
  <2>8. Moved(n, k, base, u)
    BY <1>3, <1>4, <1>6, <2>1, <2>2, <2>4, <2>7 DEF Moved
  <2>9. k = 8 + w => Idle'
    <3>1. k = 8 + w => Idle  BY <1>6, <2>2
    <3> QED  BY <2>1, <3>1 DEF Idle
  <2> QED  BY <1>10, <1>13, <2>1, <2>2, <2>8, <2>9
<1>14. CASE i = <<"call", "IC_SOI">> /\ k = 3
  <2>1. Handling!CallSOI(regs["rdi"][2]) /\ UNCHANGED <<stack, iflag>>
    BY <1>5, <1>6, <1>14, Steps
  <2>2. Handling!CallSOI(n)
    <3>1. regs["rdi"][2] = n  BY <1>6, <1>14
    <3> QED  BY <2>1, <3>1
  <2>3. CASE Handling!PIC_SOI(n)
    <3>1. fault' = IRQ_start + n /\ UNCHANGED regs  BY <2>2, <2>3 DEF Handling!CallSOI
    <3>2. n = 7 \/ n = 15  BY <2>3 DEF Handling!PIC_SOI
    <3>3. fault' \in Handling!NotReturning \ {-1}
      BY <3>1, <3>2 DEF Handling!NotReturning
    <3> QED  BY <1>1, <1>2, <2>1, <3>1, <3>3, Onwards
  <2>4. CASE ~ Handling!PIC_SOI(n)
    <3>1. /\ regs' = Handling!Clobbered /\ pc' = Handling!Next1 /\ UNCHANGED <<pic1, pic2, fault>>
      BY <2>2, <2>4 DEF Handling!CallSOI
    <3>2. pc' = [code |-> c, at |-> k + 1]  BY <1>6, <3>1 DEF Handling!Next1
    <3>3. OnStack(n, k) /\ OnStack(n, k + 1) /\ k <= 8 + w /\ k + 1 <= 7 + w
          /\ k + 1 # 3 /\ k + 1 # 7 + w
      BY <1>6, <1>7, <1>14
    <3>4. /\ regs' \in [Handling!Registers -> RegValues]
          /\ \A s \in Handling!CalleeSaved : regs'[s] = regs[s]
      BY <1>1, <3>1, ClobberedRegs
    <3>5. Moved(n, k, base, u)
      BY <1>3, <1>4, <1>6, <2>1, <3>1, <3>2, <3>3, <3>4 DEF Moved
    <3> QED  BY <1>10, <3>1, <3>3, <3>5
  <2> QED  BY <2>3, <2>4
<1>15. CASE i = <<"call", "IC_EOI">> /\ k = 7 + w
  <2>1. Handling!CallEOI(regs["rdi"][2]) /\ UNCHANGED <<stack, iflag>>
    BY <1>5, <1>6, <1>15, Steps
  <2>2. Handling!CallEOI(n)
    <3>1. regs["rdi"][2] = n  BY <1>6, <1>15
    <3> QED  BY <2>1, <3>1
  <2>3. /\ regs' = Handling!Clobbered /\ pc' = Handling!Next1 /\ UNCHANGED fault
        /\ pic2' = IF n >= 8 THEN pic2 \ Handling!First(pic2) ELSE pic2
        /\ pic1' = pic1 \ Handling!First(pic1)
    BY <2>2 DEF Handling!CallEOI, Handling!PIC_EOI
  <2>4. pc' = [code |-> c, at |-> k + 1]  BY <1>6, <2>3 DEF Handling!Next1
  <2>5. OnStack(n, k) /\ OnStack(n, k + 1) /\ k <= 8 + w /\ ~ (k + 1 <= 7 + w)
        /\ k + 1 # 3 /\ k + 1 # 7 + w
    BY <1>6, <1>7, <1>15
  <2>6. /\ regs' \in [Handling!Registers -> RegValues]
        /\ \A s \in Handling!CalleeSaved : regs'[s] = regs[s]
    BY <1>1, <2>3, ClobberedRegs
  <2>7. Moved(n, k, base, u)
    BY <1>3, <1>4, <1>6, <2>1, <2>3, <2>4, <2>5, <2>6 DEF Moved
  <2>8. Idle'
    <3>1. InService(n)  BY <1>6, <1>15
    <3>2. CASE n < 8
      <4>1. pic2 = {} /\ (pic1 = {n} \/ pic1 = {}) /\ ~ (n >= 8)  BY <3>1, <3>2 DEF InService
      <4>2. pic2' = {}  BY <2>3, <4>1
      <4>3. Handling!First(pic1) = pic1  BY <4>1, FirstOf
      <4> QED  BY <2>3, <4>2, <4>3 DEF Idle
    <3>3. CASE ~ (n < 8)
      <4>1. pic1 = {2} /\ (pic2 = {n} \/ pic2 = {}) /\ n >= 8  BY <3>1, <3>3 DEF InService
      <4>2. Handling!First(pic1) = pic1 /\ Handling!First(pic2) = pic2  BY <4>1, FirstOf
      <4> QED  BY <2>3, <4>1, <4>2 DEF Idle
    <3> QED  BY <3>2, <3>3
  <2> QED  BY <1>10, <2>5, <2>7, <2>8
<1>16. CASE k = 5 /\ ((n = 4 /\ i = <<"call", "read_serial">>)
                      \/ (n = 8 /\ i = <<"mov", "rax", Handling!Other>>))
  <2>1. ~ OnStack(n, k) /\ ~ OnStack(n, k + 1) /\ k <= 8 + w /\ k + 1 <= 7 + w
        /\ k + 1 # 3 /\ k + 1 # 7 + w /\ "work" \in arrived
    BY <1>3, <1>6, <1>7, <1>16 DEF WorkLength
  <2>2. CASE n = 4 /\ i = <<"call", "read_serial">>
    <3>1. /\ pc' = [code |-> c, at |-> k + 1] /\ UNCHANGED <<stack, iflag, pic1, pic2, fault>>
          /\ regs' = Handling!Clobbered
      <4>1. i = <<"call", "read_serial">> /\ pc = [code |-> c, at |-> k]  BY <1>6, <2>2
      <4> QED  BY <1>5, <4>1, WorkCalled
    <3>2. /\ regs' \in [Handling!Registers -> RegValues]
          /\ \A s \in Handling!CalleeSaved : regs'[s] = regs[s]
      BY <1>1, <3>1, ClobberedRegs
    <3>3. Moved(n, k, base, u)
      BY <1>3, <1>4, <1>6, <2>1, <3>1, <3>2 DEF Moved
    <3> QED  BY <1>10, <2>1, <3>1, <3>3
  <2>3. CASE n = 8 /\ i = <<"mov", "rax", Handling!Other>>
    <3>1. /\ pc' = [code |-> c, at |-> k + 1] /\ UNCHANGED <<stack, iflag, pic1, pic2, fault>>
          /\ regs' = [regs EXCEPT !["rax"] = Handling!Other]
      <4>1. PICK v : v = Handling!Other  OBVIOUS
      <4>2. i = <<"mov", "rax", v>> /\ pc = [code |-> c, at |-> k]  BY <1>6, <2>3, <4>1
      <4>3. \A r, x : i = <<"mov", r, x>> =>
                /\ regs' = [regs EXCEPT ![r] = x] /\ pc' = [code |-> c, at |-> k + 1]
                /\ UNCHANGED <<stack, iflag, pic1, pic2, fault>>
        BY <1>5, <4>2, Steps
      <4>4. /\ pc' = [code |-> c, at |-> k + 1]
            /\ UNCHANGED <<stack, iflag, pic1, pic2, fault>>
            /\ regs' = [regs EXCEPT !["rax"] = v]
        BY <4>2, <4>3
      <4> QED  BY <4>1, <4>4
    <3>2. Handling!Other \in RegValues  BY DEF RegValues
    <3>3. /\ regs' \in [Handling!Registers -> RegValues]
          /\ \A s \in Handling!CalleeSaved : regs'[s] = regs[s]
      BY <1>1, <1>9, <3>1, <3>2, LoadedRegs
    <3>4. Moved(n, k, base, u)
      BY <1>3, <1>4, <1>6, <2>1, <3>1, <3>3 DEF Moved
    <3> QED  BY <1>10, <2>1, <3>1, <3>4
  <2> QED  BY <1>16, <2>2, <2>3
<1>17. CASE k = 6 /\ n = 8 /\ i = <<"call", "ms_update">>
  <2>1. ~ OnStack(n, k) /\ ~ OnStack(n, k + 1) /\ k <= 8 + w /\ k + 1 <= 7 + w
        /\ k + 1 # 3 /\ k + 1 # 7 + w /\ "work" \in arrived
    BY <1>3, <1>6, <1>7, <1>17 DEF WorkLength
  <2>2. /\ pc' = [code |-> c, at |-> k + 1] /\ UNCHANGED <<stack, iflag, pic1, pic2, fault>>
        /\ regs' = Handling!Clobbered
    <3>1. i = <<"call", "ms_update">> /\ pc = [code |-> c, at |-> k]  BY <1>6, <1>17
    <3> QED  BY <1>5, <3>1, WorkCalled
  <2>3. /\ regs' \in [Handling!Registers -> RegValues]
        /\ \A s \in Handling!CalleeSaved : regs'[s] = regs[s]
    BY <1>1, <2>2, ClobberedRegs
  <2>4. Moved(n, k, base, u)
    BY <1>3, <1>4, <1>6, <2>1, <2>2, <2>3 DEF Moved
  <2> QED  BY <1>10, <2>1, <2>2, <2>4
<1>18. CASE k = 9 + w /\ i = Handling!iretq
  <2>1. Handling!Return  BY <1>5, <1>6, <1>18, Steps
  <2>2. ~ OnStack(n, k) /\ ~ (k <= 7 + w)  BY <1>6, <1>7, <1>18
  <2>3. stack = base /\ Idle  BY <1>6, <2>2
  <2>4. OwnRegs
    <3>1. /\ Handling!Kept \subseteq Handling!CalleeSaved \cup {"rdi"}
          /\ "rdi" \in Handling!Kept => "work" \notin arrived
      BY <1>6 DEF Handling!Kept, Handling!CalleeSaved
    <3> QED  BY <1>6, <2>2, <3>1 DEF OwnRegs
  <2>5. CASE base = MainBase
    <3>1. AtMain' /\ iflag' \in BOOLEAN /\ UNCHANGED <<regs, fault>>
      BY <1>1, <1>2, <2>1, <2>3, <2>4, <2>5, BackAtMain
    <3> QED  BY <1>1, <1>2, <3>1, Onwards
  <2>6. ASSUME enabled, NEW t \in Handling!Traps, base = TrapBase(t)
        PROVE  HandlingInv'
    <3>1. /\ Head(stack) = Frame(ExceptionPc(t), TRUE) /\ Tail(stack) = MainBase
          /\ stack # <<>>
      BY <1>1, <2>3, <2>6, BasesAre
    <3>2. /\ pc' = ExceptionPc(t) /\ iflag' = TRUE /\ stack' = MainBase
          /\ UNCHANGED <<regs, pic1, pic2, fault>>
      BY <2>1, <3>1, Returns
    <3>3. t \in Handling!Exceptions /\ t \notin Handling!ErrorCodes /\ t # 13
      BY DEF Handling!Traps, Handling!Exceptions, Handling!ErrorCodes
    <3>4. Idle' /\ OwnRegs'  BY <1>2, <2>3, <2>4, <3>2 DEF Idle, OwnRegs, Handling!Kept
    <3>5. stack' = MainBase' /\ (iflag' <=> (enabled' /\ t \in Handling!Traps))
      <4>1. MainBase' = MainBase  BY <1>2 DEF MainBase
      <4>2. enabled'  BY <1>2, <2>6
      <4> QED  BY <3>2, <4>1, <4>2
    <3>6. AtException(t)'  BY <3>2, <3>3, <3>4, <3>5 DEF AtException
    <3>7. iflag' \in BOOLEAN /\ regs' \in [Handling!Registers -> RegValues]  BY <1>1, <3>2
    <3> QED  BY <1>2, <3>2, <3>3, <3>6, <3>7, Onwards
  <2> QED  BY <1>6, <2>5, <2>6 DEF Underneath
<1>19. /\ k = 1 => i = Handling!push("rdi")
       /\ k = 2 => i = <<"mov", "rdi", <<"irq", n>>>>
       /\ k = 3 => i = <<"call", "IC_SOI">>
       /\ k = 4 => i = Handling!pop("rdi")
       /\ k = 5 + w => i = Handling!push("rdi")
       /\ k = 6 + w => i = <<"mov", "rdi", <<"irq", n>>>>
       /\ k = 7 + w => i = <<"call", "IC_EOI">>
       /\ k = 8 + w => i = Handling!pop("rdi")
       /\ k = 9 + w => i = Handling!iretq
       /\ n = 4 /\ k = 5 => i = <<"call", "read_serial">>
       /\ n = 8 /\ k = 5 => i = <<"mov", "rax", Handling!Other>>
       /\ n = 8 /\ k = 6 => i = <<"call", "ms_update">>
  <2>1. PICK d : d = Handling!Code(Handling!irq(n))  OBVIOUS
  <2>2. i = d[k]  BY <1>4, <1>5, <2>1
  <2>3. LineCodeIs(d, n, w)  BY <1>3, <2>1, LineCode
  <2> QED  BY <2>2, <2>3 DEF LineCodeIs
<1>20. \/ k = 1 \/ k = 2 \/ k = 3 \/ k = 4
       \/ k = 5 + w \/ k = 6 + w \/ k = 7 + w \/ k = 8 + w \/ k = 9 + w
       \/ (n = 4 /\ k = 5) \/ (n = 8 /\ k = 5) \/ (n = 8 /\ k = 6)
  BY <1>3, <1>6 DEF WorkLength
<1> QED
  BY <1>11, <1>12, <1>13, <1>14, <1>15, <1>16, <1>17, <1>18, <1>19, <1>20

-----------------------------------------------------------------------------
LEMMA HandlingStep ==
    ASSUME HandlingInv, Handling!Next
    PROVE  HandlingInv'
<1>1. CASE Handling!interrupt_init
  <2>1. /\ phase' = "loaded" => IDT' = Handling!idt_map /\ ~ Handling!Conflict
        /\ phase = "off"
        /\ UNCHANGED <<syscall_isr, enabled, regs, stack, iflag, pc, pic1, pic2, arrived, fault>>
    BY <1>1 DEF Handling!interrupt_init
  <2>2. fault = -1 => AtMain  BY <2>1 DEF HandlingInv
  <2> QED
    BY <2>1, <2>2 DEF HandlingInv, Handling!Conflict, Handling!idt_map,
       AtMain, Idle, OwnRegs, Handling!Kept
<1>2. ASSUME NEW on \in BOOLEAN, Handling!Setting(on)
      PROVE  HandlingInv'
  <2>1. /\ pc.code = Handling!Main /\ enabled' = on /\ iflag' = on
        /\ UNCHANGED <<syscall_isr, IDT, phase, regs, stack, pc, pic1, pic2, arrived, fault>>
    BY <1>2 DEF Handling!Setting
  <2>2. fault = -1 => AtMain  BY <2>1, WhichCode
  <2>3. fault = -1 => AtMain'  BY <2>1, <2>2 DEF AtMain, Idle, OwnRegs, Handling!Kept
  <2> QED  BY <2>1, <2>3 DEF HandlingInv, Handling!Conflict, Handling!idt_map
<1>3. CASE Handling!Step
  <2>1. fault = -1 /\ pc.code # Handling!Main  BY <1>3 DEF Handling!Step
  <2>2. ~ AtMain  BY <2>1 DEF AtMain, MainPc
  <2>3. \/ phase = "loaded" /\ \E n \in Handling!Exceptions : AtException(n)
        \/ phase = "loaded" /\ \E k \in 1 .. 13 : AtSystemCall(k)
        \/ phase = "loaded" /\ \E n \in 0 .. 15, k \in 1 .. 11, base \in Bases, v \in RegValues :
              AtInterrupt(n, k, base, v)
    BY <2>1, <2>2 DEF HandlingInv
  <2> QED  BY <1>3, <2>3, ExceptionStep, SystemCallStep, LineStep
<1> QED
  BY <1>1, <1>2, <1>3, RaiseKeeps, SystemCallKeeps, InterruptKeeps
  DEF Handling!Next, Handling!interrupt_enable, Handling!interrupt_disable

LEMMA HandlingRests ==
    ASSUME UNCHANGED handlingVars, HandlingInv
    PROVE  HandlingInv'
<1>1. UNCHANGED <<syscall_isr, IDT, phase, enabled, regs, stack, iflag, pc, pic1, pic2,
                  arrived, fault>>
  BY DEF handlingVars
<1>2. /\ AtMain => AtMain'
      /\ \A n : AtException(n) => AtException(n)'
      /\ \A k : AtSystemCall(k) => AtSystemCall(k)'
      /\ \A n, k, base, v : AtInterrupt(n, k, base, v) => AtInterrupt(n, k, base, v)'
      /\ Bases' = Bases /\ (Handling!Conflict' <=> Handling!Conflict)
      /\ Handling!idt_map' = Handling!idt_map
  <2>1. AtMain => AtMain'  BY <1>1 DEF AtMain, Idle, OwnRegs, Handling!Kept
  <2>2. \A n : AtException(n) => AtException(n)'
    BY <1>1 DEF AtException, Idle, OwnRegs, Handling!Kept, MainBase
  <2>3. \A k : AtSystemCall(k) => AtSystemCall(k)'
    BY <1>1 DEF AtSystemCall, Idle, OwnRegs, Handling!Kept, MainBase, Pile, Onto
  <2>4. \A n, k, base, v : AtInterrupt(n, k, base, v) => AtInterrupt(n, k, base, v)'
    <3>1. \A base : Underneath(base) => Underneath(base)'
      BY <1>1 DEF Underneath, MainBase, TrapBase
    <3>2. \A n : InService(n) => InService(n)'  BY <1>1 DEF InService
    <3>3. Idle => Idle'  BY <1>1 DEF Idle
    <3> QED  BY <1>1, <3>1, <3>2, <3>3 DEF AtInterrupt
  <2>5. Bases' = Bases  BY <1>1 DEF Bases, MainBase, TrapBase
  <2>6. (Handling!Conflict' <=> Handling!Conflict) /\ Handling!idt_map' = Handling!idt_map
    BY <1>1 DEF Handling!Conflict, Handling!idt_map
  <2> QED  BY <2>1, <2>2, <2>3, <2>4, <2>5, <2>6
<1> QED  BY <1>1, <1>2, SMTT(60) DEF HandlingInv

LEMMA HandlingStart ==
    ASSUME Handling!Init
    PROVE  HandlingInv
<1>1. /\ syscall_isr \in Nat /\ enabled = FALSE /\ iflag = FALSE /\ phase = "off"
      /\ regs = [r \in Handling!Registers |-> Handling!Own(r)] /\ stack = <<>>
      /\ pc = MainPc /\ pic1 = {} /\ pic2 = {} /\ fault = -1
  BY DEF Handling!Init, MainPc
<1>2. Handling!Kept \subseteq Handling!Registers
  BY DEF Handling!Kept, Handling!Registers, Handling!CalleeSaved, Handling!CallerSaved
<1>3. AtMain  BY <1>1, <1>2 DEF AtMain, Idle, OwnRegs
<1>4. regs \in [Handling!Registers -> RegValues]  BY <1>1 DEF RegValues
<1> QED  BY <1>1, <1>3, <1>4 DEF HandlingInv

LEMMA HandlingHolds ==
    HandlingInv => Handling!LeavesNoTrace
<1> SUFFICES ASSUME HandlingInv  PROVE Handling!LeavesNoTrace  OBVIOUS
<1>1. pc.code = Handling!Main /\ fault = -1 => AtMain  BY WhichCode
<1>2. AtMain => /\ stack = <<>> /\ pic1 = {} /\ pic2 = {} /\ iflag = enabled
                /\ \A r \in Handling!Kept : regs[r] = Handling!Own(r)
  BY DEF AtMain, Idle, OwnRegs
<1> QED  BY <1>1, <1>2 DEF HandlingInv, Handling!LeavesNoTrace

HIDE Vectors

-----------------------------------------------------------------------------
(***************************************************************************)
(* The stack trace.  The search for a name goes through the table by a     *)
(* function, best, of which the value at i is the symbol it has after the  *)
(* one at i + 1: 1, the null symbol, as long as no function or label at or *)
(* below the address had a value above 0, and else the nearest of those.   *)
(***************************************************************************)
TraceInv ==
    /\ elf_sym \in Tables
    /\ frames \in Seq([rip : Addresses, rbp : Nat])
    /\ \A i \in 1 .. Len(frames) : frames[i].rbp = i - 1
    /\ stk \in 0 .. Len(frames)
    /\ shown \in Seq([rip : Addresses, name : Nat])
    /\ Len(shown) + stk = Len(frames)
    /\ \A k \in DOMAIN shown :
          /\ shown[k].rip = frames[Len(frames) + 1 - k].rip
          /\ Traces!Nearest(shown[k].rip, shown[k].name)

LEMMA TablesAre ==
    ASSUME elf_sym \in Tables
    PROVE  /\ WORD \in Nat \ {0} /\ Addresses \subseteq 0 .. WORD - 1
           /\ Len(elf_sym) \in Nat
           /\ \A i \in 1 .. Len(elf_sym) : elf_sym[i].value \in 0 .. WORD - 1
           /\ elf_sym # <<>> => Len(elf_sym) > 0 /\ elf_sym[1].value = 0
<1>1. /\ WORD \in Nat \ {0} /\ Addresses \subseteq 0 .. WORD - 1
      /\ elf_sym \in Seq([value : 0 .. WORD - 1, type : STRING])
      /\ elf_sym # <<>> => elf_sym[1].value = 0
  BY PartsAssumption DEF Traces!TraceAssumption
<1>2. Len(elf_sym) \in Nat /\ (elf_sym # <<>> => Len(elf_sym) > 0)  BY <1>1
<1>3. ASSUME NEW i \in 1 .. Len(elf_sym)  PROVE elf_sym[i].value \in 0 .. WORD - 1
  <2>1. elf_sym[i] \in [value : 0 .. WORD - 1, type : STRING]
    BY <1>1, <1>3, ElementOfSeq
  <2> QED  BY <2>1
<1> QED  BY <1>1, <1>2, <1>3

Searches(best, n, address) ==
    best = [i \in 0 .. n |->
              IF i = 0 THEN 1
              ELSE IF Traces!Closer(best[i - 1], i + 1, address) THEN i + 1 ELSE best[i - 1]]

(* There is such a function, so that the recursive one is one. *)
LEMMA SearchFound ==
    ASSUME NEW n \in Nat, NEW address
    PROVE  \E best : Searches(best, n, address)
<1> DEFINE S == {k \in 0 .. n : \E f : Searches(f, k, address)}
<1>1. 0 \in S
  <2> DEFINE f == [i \in 0 .. 0 |-> 1]
  <2>1. \A i \in 0 .. 0 : i = 0  OBVIOUS
  <2>2. Searches(f, 0, address)  BY <2>1 DEF Searches
  <2> QED  BY <2>2
<1>2. ASSUME NEW k \in 1 .. n, k - 1 \in S  PROVE k \in S
  <2>1. PICK f : Searches(f, k - 1, address)  BY <1>2
  <2>2. PICK b : b = IF Traces!Closer(f[k - 1], k + 1, address) THEN k + 1 ELSE f[k - 1]
    OBVIOUS
  <2> DEFINE g == [i \in 0 .. k |-> IF i = k THEN b ELSE f[i]]
             h == [i \in 0 .. k |->
                    IF i = 0 THEN 1
                    ELSE IF Traces!Closer(g[i - 1], i + 1, address) THEN i + 1 ELSE g[i - 1]]
  <2>3. ASSUME NEW i \in 0 .. k  PROVE g[i] = h[i]
    <3>1. CASE i = k
      <4>1. i - 1 \in 0 .. k /\ i - 1 # k /\ i # 0  BY <3>1
      <4>2. g[i - 1] = f[k - 1]  BY <3>1, <4>1
      <4> QED  BY <2>2, <3>1, <4>1, <4>2
    <3>2. CASE i # k
      <4>1. i \in 0 .. k - 1 /\ (i # 0 => i - 1 \in 0 .. k /\ i - 1 # k)  BY <3>2
      <4>2. g[i] = f[i] /\ (i # 0 => g[i - 1] = f[i - 1])  BY <3>2, <4>1
      <4>3. f[i] = IF i = 0 THEN 1
                   ELSE IF Traces!Closer(f[i - 1], i + 1, address) THEN i + 1 ELSE f[i - 1]
        BY <2>1, <4>1 DEF Searches
      <4> QED  BY <4>2, <4>3
    <3> QED  BY <3>1, <3>2
  <2>4. g = h  BY <2>3
  <2>5. Searches(g, k, address)  BY <2>4 DEF Searches
  <2> QED  BY <2>5
<1>3. 0 .. n \subseteq S
  <2> HIDE DEF S
  <2> QED  BY <1>1, <1>2, Upwards
<1>4. n \in S  BY <1>3
<1> QED  BY <1>4

Candidates(m, address) ==
    {i \in 2 .. m : elf_sym[i].value <= address /\ Traces!Named(elf_sym[i].type)}

NearestOf(m, address, b) ==
    \/ b = 1 /\ \A i \in Candidates(m, address) : elf_sym[i].value = 0
    \/ /\ b \in Candidates(m, address) /\ elf_sym[b].value > 0
       /\ \A i \in Candidates(m, address) : elf_sym[i].value <= elf_sym[b].value

(* The nearest of the first m + 1 symbols, from that of the first m. *)
LEMMA NextSymbol ==
    ASSUME elf_sym \in Tables, NEW address \in Addresses,
           NEW m \in 1 .. Len(elf_sym) - 1, NEW b, NearestOf(m, address, b)
    PROVE  NearestOf(m + 1, address,
                     IF Traces!Closer(b, m + 1, address) THEN m + 1 ELSE b)
<1>1. /\ WORD \in Nat \ {0} /\ address \in 0 .. WORD - 1
      /\ \A i \in 1 .. Len(elf_sym) : elf_sym[i].value \in 0 .. WORD - 1
      /\ Len(elf_sym) \in Nat /\ elf_sym[1].value = 0
  <2>1. elf_sym # <<>>  OBVIOUS
  <2> QED  BY <2>1, TablesAre
<1>2. b \in 1 .. m /\ elf_sym[b].value <= address
  BY <1>1 DEF NearestOf, Candidates
<1>3. PICK v \in 0 .. WORD - 1, w \in 0 .. WORD - 1 :
          v = elf_sym[b].value /\ w = elf_sym[m + 1].value
  BY <1>1, <1>2
<1>4. ASSUME NEW i \in 1 .. Len(elf_sym), elf_sym[i].value <= address
      PROVE  Traces!Diff(address, i) = address - elf_sym[i].value
  <2>1. PICK d \in Nat : d = address - elf_sym[i].value /\ d < WORD  BY <1>1, <1>4
  <2>2. PICK W \in Nat \ {0} : W = WORD  BY <1>1
  <2>3. d % W = d
    <3>1. 0 <= d /\ d < W  BY <2>1, <2>2
    <3> QED  BY <3>1
  <2> QED  BY <2>1, <2>2, <2>3 DEF Traces!Diff
<1>5. Traces!Diff(address, b) = address - v  BY <1>2, <1>3, <1>4
<1>6. w <= address => Traces!Diff(address, m + 1) = address - w  BY <1>3, <1>4
<1>7. Traces!Closer(b, m + 1, address)
        <=> w <= address /\ Traces!Named(elf_sym[m + 1].type) /\ w > v
  <2>1. Traces!Closer(b, m + 1, address)
          <=> /\ w <= address /\ Traces!Named(elf_sym[m + 1].type)
              /\ Traces!Diff(address, m + 1) < Traces!Diff(address, b)
    BY <1>3 DEF Traces!Closer
  <2>2. w <= address =>
          (Traces!Diff(address, m + 1) < Traces!Diff(address, b) <=> w > v)
    <3>1. address \in Int /\ v \in Int /\ w \in Int  BY <1>1
    <3>2. address - w < address - v <=> w > v  BY <3>1
    <3> QED  BY <1>5, <1>6, <3>2
  <2> QED  BY <2>1, <2>2
<1>8. Candidates(m + 1, address) =
        Candidates(m, address)
          \cup {i \in {m + 1} : w <= address /\ Traces!Named(elf_sym[m + 1].type)}
  BY <1>3 DEF Candidates
<1>9. \A i \in Candidates(m, address) : elf_sym[i].value \in 0 .. WORD - 1
  BY <1>1 DEF Candidates
<1>10. CASE Traces!Closer(b, m + 1, address)
  <2>1. m + 1 \in Candidates(m + 1, address) /\ w > 0  BY <1>3, <1>7, <1>8, <1>10
  <2>2. \A i \in Candidates(m, address) : elf_sym[i].value <= w
    BY <1>1, <1>3, <1>7, <1>9, <1>10 DEF NearestOf
  <2> QED  BY <1>3, <1>8, <1>10, <2>1, <2>2 DEF NearestOf
<1>11. CASE ~ Traces!Closer(b, m + 1, address)
  <2>1. \A i \in Candidates(m + 1, address) \ Candidates(m, address) :
            i = m + 1 /\ elf_sym[i].value <= v
    BY <1>3, <1>7, <1>8, <1>11
  <2>2. CASE b = 1 /\ \A i \in Candidates(m, address) : elf_sym[i].value = 0
    <3>1. v = 0  BY <1>1, <1>3, <2>2
    <3>2. \A i \in Candidates(m + 1, address) : elf_sym[i].value = 0
      BY <1>3, <2>1, <2>2, <3>1
    <3> QED  BY <1>11, <2>2, <3>2 DEF NearestOf
  <2>3. CASE /\ b \in Candidates(m, address) /\ elf_sym[b].value > 0
             /\ \A i \in Candidates(m, address) : elf_sym[i].value <= elf_sym[b].value
    <3>1. \A i \in Candidates(m + 1, address) : elf_sym[i].value <= elf_sym[b].value
      BY <1>3, <2>1, <2>3
    <3>2. b \in Candidates(m + 1, address)  BY <1>8, <2>3
    <3> QED  BY <1>11, <2>3, <3>1, <3>2 DEF NearestOf
  <2> QED  BY <2>2, <2>3 DEF NearestOf
<1> QED  BY <1>10, <1>11

LEMMA NameIsNearest ==
    ASSUME elf_sym \in Tables, NEW address \in Addresses
    PROVE  Traces!TraceName(address) \in Nat
           /\ Traces!Nearest(address, Traces!TraceName(address))
<1>1. CASE elf_sym = <<>>  BY <1>1 DEF Traces!TraceName, Traces!Nearest
<1>2. CASE elf_sym # <<>>
  <2>1. PICK n \in Nat : n = Len(elf_sym) - 1  BY <1>2, TablesAre
  <2> DEFINE best == CHOOSE f : Searches(f, n, address)
  <2>2. Searches(best, n, address)  BY SearchFound
  <2>3. Traces!TraceName(address) = best[n]
    BY <1>2, <2>1 DEF Traces!TraceName, Searches
  <2> HIDE DEF best
  <2> DEFINE S == {k \in 0 .. n : NearestOf(k + 1, address, best[k])}
  <2>4. 0 \in S
    <3>1. best[0] = 1  BY <2>2 DEF Searches
    <3>2. Candidates(1, address) = {}  BY DEF Candidates
    <3> QED  BY <3>1, <3>2 DEF NearestOf
  <2>5. ASSUME NEW k \in 1 .. n, k - 1 \in S  PROVE k \in S
    <3>1. k \in 1 .. Len(elf_sym) - 1 /\ (k - 1) + 1 = k  BY <2>1
    <3>2. NearestOf(k, address, best[k - 1])  BY <2>5, <3>1
    <3>3. best[k] = IF Traces!Closer(best[k - 1], k + 1, address) THEN k + 1 ELSE best[k - 1]
      BY <2>2 DEF Searches
    <3>4. NearestOf(k + 1, address, best[k])  BY <3>1, <3>2, <3>3, NextSymbol
    <3> QED  BY <3>4
  <2>6. NearestOf(n + 1, address, best[n])
    <3> HIDE DEF S
    <3>1. 0 .. n \subseteq S  BY <2>4, <2>5, Upwards
    <3>2. n \in S  BY <3>1
    <3> QED  BY <3>2 DEF S
  <2>7. n + 1 = Len(elf_sym)  BY <2>1, TablesAre
  <2>8. NearestOf(Len(elf_sym), address, best[n])  BY <2>6, <2>7
  <2>9. best[n] \in Nat /\ Traces!Nearest(address, best[n])
    <3>1. \A i \in Candidates(Len(elf_sym), address) : i \in Nat  BY DEF Candidates
    <3>2. best[n] \in Nat  BY <2>8, <3>1 DEF NearestOf
    <3>3. CASE \A i \in Candidates(Len(elf_sym), address) : elf_sym[i].value = 0
      <4>1. best[n] = 1  BY <2>8, <3>3 DEF NearestOf
      <4> QED  BY <1>2, <3>2, <3>3, <4>1 DEF Traces!Nearest, Candidates
    <3>4. CASE ~ \A i \in Candidates(Len(elf_sym), address) : elf_sym[i].value = 0
      <4>1. /\ best[n] \in Candidates(Len(elf_sym), address)
            /\ \A i \in Candidates(Len(elf_sym), address) : elf_sym[i].value <= elf_sym[best[n]].value
        BY <2>8, <3>4 DEF NearestOf
      <4> QED  BY <1>2, <3>2, <3>4, <4>1 DEF Traces!Nearest, Candidates
    <3> QED  BY <3>3, <3>4
  <2> QED  BY <2>3, <2>9
<1> QED  BY <1>1, <1>2

LEMMA TraceStep ==
    ASSUME TraceInv, Traces!Next
    PROVE  TraceInv'
<1>1. PICK n \in Nat, k \in Nat : n = Len(frames) /\ k = Len(shown) /\ k + stk = n
  BY DEF TraceInv
<1>2. stk \in 1 .. n  BY <1>1 DEF TraceInv, Traces!Next, Traces!PrintFrame
<1>3. PICK e : e = [rip |-> frames[stk].rip, name |-> Traces!TraceName(frames[stk].rip)]
  OBVIOUS
<1>4. frames[stk].rip \in Addresses /\ frames[stk].rbp = stk - 1
  <2>1. frames \in Seq([rip : Addresses, rbp : Nat])  BY DEF TraceInv
  <2>2. stk \in 1 .. Len(frames)  BY <1>1, <1>2
  <2>3. frames[stk] \in [rip : Addresses, rbp : Nat]  BY <2>1, <2>2, ElementOfSeq
  <2> QED  BY <2>2, <2>3 DEF TraceInv
<1>5. e \in [rip : Addresses, name : Nat] /\ Traces!Nearest(e.rip, e.name)
  BY <1>3, <1>4, NameIsNearest DEF TraceInv
<1>6. /\ shown' = Append(shown, e) /\ stk' = stk - 1
      /\ elf_sym' = elf_sym /\ frames' = frames
  BY <1>3, <1>4 DEF Traces!Next, Traces!PrintFrame
<1>7. /\ shown \in Seq([rip : Addresses, name : Nat])
      /\ shown' \in Seq([rip : Addresses, name : Nat]) /\ Len(shown') = k + 1
      /\ shown'[k + 1] = e /\ \A i \in 1 .. k : shown'[i] = shown[i]
  BY <1>1, <1>5, <1>6 DEF TraceInv
<1>8. ASSUME NEW i \in DOMAIN shown'
      PROVE  shown'[i].rip = frames[n + 1 - i].rip
             /\ Traces!Nearest(shown'[i].rip, shown'[i].name)
  <2>1. i \in 1 .. k + 1  BY <1>7
  <2>2. CASE i = k + 1
    <3>1. n + 1 - i = stk  BY <1>1, <1>2, <2>2
    <3> QED  BY <1>3, <1>5, <1>7, <2>2, <3>1
  <2>3. CASE i # k + 1
    <3>1. i \in 1 .. k /\ i \in DOMAIN shown  BY <1>1, <1>7, <2>1, <2>3
    <3> QED  BY <1>1, <1>7, <3>1 DEF TraceInv
  <2> QED  BY <2>2, <2>3
<1>9. (\A i \in DOMAIN shown :
          /\ shown[i].rip = frames[Len(frames) + 1 - i].rip
          /\ Traces!Nearest(shown[i].rip, shown[i].name))'
  <2>1. \A a, b : Traces!Nearest(a, b) =>
            LET t == elf_sym'
                candidates == {i \in 2 .. Len(t) : t[i].value <= a /\ Traces!Named(t[i].type)}
            IN  IF t = <<>> THEN b = 0
                ELSE IF \A i \in candidates : t[i].value = 0 THEN b = 1
                ELSE b \in candidates /\ \A i \in candidates : t[i].value <= t[b].value
    BY <1>6 DEF Traces!Nearest
  <2>2. \A i \in DOMAIN shown' : shown'[i].rip = frames'[Len(frames') + 1 - i].rip
    BY <1>1, <1>6, <1>8
  <2> QED  BY <1>8, <2>1, <2>2 DEF Traces!Nearest
<1>10. stk' \in 0 .. Len(frames') /\ Len(shown') + stk' = Len(frames')
  <2>1. PICK m \in 1 .. n : m = stk  BY <1>2
  <2>2. stk' = m - 1 /\ k + m = n /\ Len(frames') = n /\ Len(shown') = k + 1
    BY <1>1, <1>6, <1>7, <2>1
  <2> QED  BY <2>1, <2>2
<1>11. /\ elf_sym' \in Tables /\ frames' \in Seq([rip : Addresses, rbp : Nat])
       /\ \A i \in 1 .. Len(frames') : frames'[i].rbp = i - 1
  BY <1>6 DEF TraceInv
<1> QED  BY <1>7, <1>9, <1>10, <1>11 DEF TraceInv

LEMMA TraceStart ==
    Init /\ part = "trace" => TraceInv
<1> SUFFICES ASSUME Init, part = "trace"  PROVE TraceInv  OBVIOUS
<1>1. Traces!Init  BY DEF Init
<1>2. PICK n \in 1 .. MaxFrames : \E rips \in [1 .. n -> Addresses] :
            frames = Traces!Chain(rips) /\ stk = n
  BY <1>1 DEF Traces!Init
<1>3. PICK rips \in [1 .. n -> Addresses] : frames = Traces!Chain(rips) /\ stk = n  BY <1>2
<1>4. n \in Nat  BY PartsAssumption DEF Traces!TraceAssumption
<1>5. rips \in Seq(Addresses) /\ Len(rips) = n  BY <1>3, <1>4
<1>6. frames = [i \in 1 .. n |-> [rip |-> rips[i], rbp |-> IF i = 1 THEN 0 ELSE i - 1]]
  BY <1>3, <1>5 DEF Traces!Chain
<1>7. \A i \in 1 .. n : frames[i] = [rip |-> rips[i], rbp |-> i - 1]  BY <1>4, <1>6
<1>8. frames \in [1 .. n -> [rip : Addresses, rbp : Nat]]  BY <1>3, <1>4, <1>6
<1>9. frames \in Seq([rip : Addresses, rbp : Nat]) /\ Len(frames) = n
  <2>1. PICK R : R = [rip : Addresses, rbp : Nat]  OBVIOUS
  <2>2. frames \in [1 .. n -> R]  BY <1>8, <2>1
  <2>3. frames \in Seq(R) /\ Len(frames) = n  BY <1>4, <2>2
  <2> QED  BY <2>1, <2>3
<1>10. shown = <<>> /\ elf_sym \in Tables  BY <1>1 DEF Traces!Init
<1> QED  BY <1>3, <1>4, <1>7, <1>9, <1>10 DEF TraceInv

LEMMA TraceHolds ==
    TraceInv => Traces!NearestSymbol
<1> SUFFICES ASSUME TraceInv  PROVE Traces!NearestSymbol  OBVIOUS
<1>1. stk = 0 => Len(shown) = Len(frames)  BY DEF TraceInv
<1> QED  BY <1>1 DEF TraceInv, Traces!NearestSymbol

-----------------------------------------------------------------------------
(***************************************************************************)
(* The time of day.  Without an update during the reads, the chip stands   *)
(* still, and each register is read as it is shown; since the start less   *)
(* than the shortest month has gone by, so that no month comes back.  With *)
(* updates, the time that would be put together if the registers to come   *)
(* were read now is not behind the one at the end of the wait: a read      *)
(* leaves it alone, and a second that goes by carries upwards only, so     *)
(* that the fields from any one on do not go back.                         *)
(***************************************************************************)
(* The fields of the second n after t. *)
Follows(t, n) ==
    \/ /\ n.seconds = t.seconds + 1 /\ n.minutes = t.minutes /\ n.hours = t.hours
       /\ n.day = t.day /\ n.month = t.month /\ n.year = t.year
    \/ /\ t.seconds = 59 /\ n.seconds = 0 /\ n.minutes = t.minutes + 1 /\ n.hours = t.hours
       /\ n.day = t.day /\ n.month = t.month /\ n.year = t.year
    \/ /\ t.seconds = 59 /\ t.minutes = 59 /\ n.seconds = 0 /\ n.minutes = 0
       /\ n.hours = t.hours + 1
       /\ n.day = t.day /\ n.month = t.month /\ n.year = t.year
    \/ /\ t.seconds = 59 /\ t.minutes = 59 /\ t.hours = 23
       /\ n.seconds = 0 /\ n.minutes = 0 /\ n.hours = 0
       /\ \/ n.day = t.day + 1 /\ n.month = t.month /\ n.year = t.year
          \/ /\ t.day >= 28 /\ n.day = 1
             /\ \/ n.month = t.month + 1 /\ n.year = t.year
                \/ t.month = 12 /\ n.month = 1 /\ n.year = t.year + 1

(* A number for each instant, larger for a later one. *)
Number(t) ==
    t.seconds + 60 * (t.minutes + 60 * (t.hours + 24 * (t.day + 32 * (t.month + 13 * t.year))))

(* What is put together if the registers from number p on are read now. *)
Together(p, c, t) ==
    [seconds |-> IF p > 1 THEN c["seconds"] ELSE t.seconds,
     minutes |-> IF p > 2 THEN c["minutes"] ELSE t.minutes,
     hours   |-> IF p > 3 THEN c["hours"] ELSE t.hours,
     day     |-> IF p > 4 THEN c["day"] ELSE t.day,
     month   |-> IF p > 5 THEN c["month"] ELSE t.month,
     year    |-> IF p > 6 THEN c["year"] ELSE t.year]

InMonth(t) == t.seconds + 60 * (t.minutes + 60 * (t.hours + 24 * (t.day - 1)))

(* The seconds k from time u to time t, less than a month. *)
Elapsed(t, u, k) ==
    \/ t.month = u.month /\ t.year = u.year /\ InMonth(t) - InMonth(u) = k
    \/ t.month # u.month /\ InMonth(t) <= k

FieldNames == {"seconds", "minutes", "hours", "day", "month", "year"}

TimeTypes ==
    /\ chip \in [time : Calendars!Times, binary : BOOLEAN, h24 : BOOLEAN]
    /\ start \in Calendars!Times /\ waited \in Calendars!Times
    /\ updating \in BOOLEAN /\ begun \in BOOLEAN /\ garbled \in BOOLEAN
    /\ next \in 0 .. 7 /\ ctime \in [FieldNames -> Int]
    /\ since \in Nat /\ since <= MaxTicks /\ (updating => since < MaxTicks)

(* Without an update since the wait, the chip stands still. *)
StandsStill ==
    next # 0 /\ ~ begun =>
        /\ ~ updating /\ chip.time = waited
        /\ \A i \in 1 .. 6 : i < next /\ Calendars!Agrees(Calendars!Fields[i]) =>
              ctime[Calendars!Fields[i]] = Calendars!FullYear(waited)[Calendars!Fields[i]]

GoesOn ==
    next # 0 /\ ~ garbled /\ chip.binary /\ chip.h24 =>
        LET t == Together(next, ctime, Calendars!FullYear(chip.time))
        IN  t \in Calendars!Times /\ Number(t) >= Number(Calendars!FullYear(waited))

TimeInv == TimeTypes /\ Elapsed(chip.time, start, since) /\ StandsStill /\ GoesOn

LEMMA CalendarIs ==
    /\ Starts \subseteq Calendars!Times
    /\ Garbage \subseteq Nat /\ YEAR_OFFSET \in Nat
    /\ MaxTicks \in Nat /\ MaxTicks > 0 /\ MaxTicks < 28 * 86400
<1>1. Calendars!CalendarAssumption  BY PartsAssumption
<1>2. /\ Starts \subseteq Calendars!Times
      /\ Garbage \subseteq Nat /\ YEAR_OFFSET \in Nat
      /\ MaxTicks \in Nat \ {0} /\ MaxTicks < 28 * 86400
  BY <1>1 DEF Calendars!CalendarAssumption
<1> QED  BY <1>2

(* The fields of a time within their bounds. *)
Within(s, m, h, d, mo, y) ==
    /\ s \in Nat /\ s <= 59 /\ m \in Nat /\ m <= 59 /\ h \in Nat /\ h <= 23
    /\ d \in Nat /\ 1 <= d /\ d <= 31 /\ mo \in Nat /\ 1 <= mo /\ mo <= 12 /\ y \in Nat

LEMMA TimeIs ==
    ASSUME NEW t \in Calendars!Times
    PROVE  /\ Within(t.seconds, t.minutes, t.hours, t.day, t.month, t.year)
           /\ t = [year |-> t.year, month |-> t.month, day |-> t.day,
                   hours |-> t.hours, minutes |-> t.minutes, seconds |-> t.seconds]
BY DEF Calendars!Times, Within

LEMMA ATime ==
    ASSUME NEW s, NEW m, NEW h, NEW d, NEW mo, NEW y, Within(s, m, h, d, mo, y)
    PROVE  [year |-> y, month |-> mo, day |-> d, hours |-> h, minutes |-> m, seconds |-> s]
                \in Calendars!Times
<1>1. /\ s \in 0 .. 59 /\ m \in 0 .. 59 /\ h \in 0 .. 23
      /\ d \in 1 .. 31 /\ mo \in 1 .. 12 /\ y \in Nat
  BY DEF Within
<1> QED  BY <1>1 DEF Calendars!Times

LEMMA NextIs ==
    ASSUME NEW t \in Calendars!Times
    PROVE  /\ Calendars!NextSecond(t) \in Calendars!Times
           /\ Follows(t, Calendars!NextSecond(t))
<1>1. PICK n : n = Calendars!NextSecond(t)  OBVIOUS
<1>2. PICK d \in Nat : d = Calendars!MonthDays(t) /\ 28 <= d /\ d <= 31
  BY DEF Calendars!MonthDays
<1>3. /\ Within(t.seconds, t.minutes, t.hours, t.day, t.month, t.year)
      /\ t = [year |-> t.year, month |-> t.month, day |-> t.day,
              hours |-> t.hours, minutes |-> t.minutes, seconds |-> t.seconds]
  BY TimeIs
<1>4. CASE t.seconds < 59
  <2>1. n = [t EXCEPT !.seconds = @ + 1]
    BY <1>1, <1>2, <1>3, <1>4 DEF Calendars!NextSecond, Calendars!Midnight, Within
  <2>2. n = [year |-> t.year, month |-> t.month, day |-> t.day,
             hours |-> t.hours, minutes |-> t.minutes, seconds |-> t.seconds + 1]
    BY <1>3, <2>1
  <2>3. Within(t.seconds + 1, t.minutes, t.hours, t.day, t.month, t.year)
    BY <1>2, <1>3, <1>4 DEF Within
  <2>4. n \in Calendars!Times  BY <2>2, <2>3, ATime
  <2>5. Follows(t, n)  BY <1>2, <1>3, <1>4, <2>2 DEF Follows, Within
  <2> QED  BY <1>1, <2>4, <2>5
<1>5. CASE t.seconds = 59 /\ t.minutes < 59
  <2>1. n = [t EXCEPT !.seconds = 0, !.minutes = @ + 1]
    BY <1>1, <1>2, <1>3, <1>5 DEF Calendars!NextSecond, Calendars!Midnight, Within
  <2>2. n = [year |-> t.year, month |-> t.month, day |-> t.day,
             hours |-> t.hours, minutes |-> t.minutes + 1, seconds |-> 0]
    BY <1>3, <2>1
  <2>3. Within(0, t.minutes + 1, t.hours, t.day, t.month, t.year)
    BY <1>2, <1>3, <1>5 DEF Within
  <2>4. n \in Calendars!Times  BY <2>2, <2>3, ATime
  <2>5. Follows(t, n)  BY <1>2, <1>3, <1>5, <2>2 DEF Follows, Within
  <2> QED  BY <1>1, <2>4, <2>5
<1>6. CASE t.seconds = 59 /\ t.minutes = 59 /\ t.hours < 23
  <2>1. n = [t EXCEPT !.seconds = 0, !.minutes = 0, !.hours = @ + 1]
    BY <1>1, <1>2, <1>3, <1>6 DEF Calendars!NextSecond, Calendars!Midnight, Within
  <2>2. n = [year |-> t.year, month |-> t.month, day |-> t.day,
             hours |-> t.hours + 1, minutes |-> 0, seconds |-> 0]
    BY <1>3, <2>1
  <2>3. Within(0, 0, t.hours + 1, t.day, t.month, t.year)
    BY <1>2, <1>3, <1>6 DEF Within
  <2>4. n \in Calendars!Times  BY <2>2, <2>3, ATime
  <2>5. Follows(t, n)  BY <1>2, <1>3, <1>6, <2>2 DEF Follows, Within
  <2> QED  BY <1>1, <2>4, <2>5
<1>7. CASE t.seconds = 59 /\ t.minutes = 59 /\ t.hours = 23 /\ t.day < d
  <2>1. n = [[t EXCEPT !.seconds = 0, !.minutes = 0, !.hours = 0] EXCEPT !.day = @ + 1]
    BY <1>1, <1>2, <1>3, <1>7 DEF Calendars!NextSecond, Calendars!Midnight, Within
  <2>2. n = [year |-> t.year, month |-> t.month, day |-> t.day + 1,
             hours |-> 0, minutes |-> 0, seconds |-> 0]
    BY <1>3, <2>1
  <2>3. Within(0, 0, 0, t.day + 1, t.month, t.year)
    BY <1>2, <1>3, <1>7 DEF Within
  <2>4. n \in Calendars!Times  BY <2>2, <2>3, ATime
  <2>5. Follows(t, n)  BY <1>2, <1>3, <1>7, <2>2 DEF Follows, Within
  <2> QED  BY <1>1, <2>4, <2>5
<1>8. CASE t.seconds = 59 /\ t.minutes = 59 /\ t.hours = 23 /\ ~ t.day < d /\ t.month < 12
  <2>1. n = [[t EXCEPT !.seconds = 0, !.minutes = 0, !.hours = 0]
             EXCEPT !.day = 1, !.month = @ + 1]
    BY <1>1, <1>2, <1>3, <1>8 DEF Calendars!NextSecond, Calendars!Midnight, Within
  <2>2. n = [year |-> t.year, month |-> t.month + 1, day |-> 1,
             hours |-> 0, minutes |-> 0, seconds |-> 0]
    BY <1>3, <2>1
  <2>3. Within(0, 0, 0, 1, t.month + 1, t.year)
    BY <1>2, <1>3, <1>8 DEF Within
  <2>4. n \in Calendars!Times  BY <2>2, <2>3, ATime
  <2>5. Follows(t, n)  BY <1>2, <1>3, <1>8, <2>2 DEF Follows, Within
  <2> QED  BY <1>1, <2>4, <2>5
<1>9. CASE t.seconds = 59 /\ t.minutes = 59 /\ t.hours = 23 /\ ~ t.day < d /\ ~ t.month < 12
  <2>1. n = [[t EXCEPT !.seconds = 0, !.minutes = 0, !.hours = 0]
             EXCEPT !.day = 1, !.month = 1, !.year = @ + 1]
    BY <1>1, <1>2, <1>3, <1>9 DEF Calendars!NextSecond, Calendars!Midnight, Within
  <2>2. n = [year |-> t.year + 1, month |-> 1, day |-> 1,
             hours |-> 0, minutes |-> 0, seconds |-> 0]
    BY <1>3, <2>1
  <2>3. Within(0, 0, 0, 1, 1, t.year + 1)
    BY <1>2, <1>3, <1>9 DEF Within
  <2>4. n \in Calendars!Times  BY <2>2, <2>3, ATime
  <2>5. Follows(t, n)  BY <1>2, <1>3, <1>9, <2>2 DEF Follows, Within
  <2> QED  BY <1>1, <2>4, <2>5
<1> QED  BY <1>2, <1>3, <1>4, <1>5, <1>6, <1>7, <1>8, <1>9 DEF Within

LEMMA FullIs ==
    ASSUME NEW t \in Calendars!Times
    PROVE  /\ Calendars!FullYear(t) \in Calendars!Times
           /\ Calendars!FullYear(t) =
                [year |-> t.year + YEAR_OFFSET, month |-> t.month, day |-> t.day,
                 hours |-> t.hours, minutes |-> t.minutes, seconds |-> t.seconds]
<1>1. Calendars!FullYear(t) =
        [year |-> t.year + YEAR_OFFSET, month |-> t.month, day |-> t.day,
         hours |-> t.hours, minutes |-> t.minutes, seconds |-> t.seconds]
  BY TimeIs DEF Calendars!FullYear
<1>2. PICK y \in Nat : y = t.year + YEAR_OFFSET
  <2>1. t.year \in Nat  BY TimeIs DEF Within
  <2> QED  BY <2>1, CalendarIs
<1>3. Within(t.seconds, t.minutes, t.hours, t.day, t.month, y)  BY TimeIs DEF Within
<1> QED  BY <1>1, <1>2, <1>3, ATime

LEMMA FollowsFull ==
    ASSUME NEW t \in Calendars!Times, NEW n \in Calendars!Times, Follows(t, n)
    PROVE  Follows(Calendars!FullYear(t), Calendars!FullYear(n))
<1>1. t.year \in Nat /\ n.year \in Nat /\ YEAR_OFFSET \in Nat  BY TimeIs, CalendarIs DEF Within
<1>2. PICK u, v : u = Calendars!FullYear(t) /\ v = Calendars!FullYear(n)  OBVIOUS
<1>3. /\ u.seconds = t.seconds /\ u.minutes = t.minutes /\ u.hours = t.hours
      /\ u.day = t.day /\ u.month = t.month /\ u.year = t.year + YEAR_OFFSET
  BY <1>2, FullIs
<1>4. /\ v.seconds = n.seconds /\ v.minutes = n.minutes /\ v.hours = n.hours
      /\ v.day = n.day /\ v.month = n.month /\ v.year = n.year + YEAR_OFFSET
  BY <1>2, FullIs
<1> QED  BY <1>1, <1>2, <1>3, <1>4 DEF Follows

(* A second that goes by does not put the time back. *)
LEMMA Onward ==
    ASSUME NEW t \in Calendars!Times, NEW n \in Calendars!Times, Follows(t, n),
           NEW p \in 1 .. 7, NEW c, Together(p, c, t) \in Calendars!Times
    PROVE  /\ Together(p, c, n) \in Calendars!Times
           /\ Number(Together(p, c, n)) >= Number(Together(p, c, t))
<1>1. PICK u, v : u = Together(p, c, t) /\ v = Together(p, c, n)  OBVIOUS
<1>2. Within(u.seconds, u.minutes, u.hours, u.day, u.month, u.year)
  BY <1>1, TimeIs
<1>3. Within(n.seconds, n.minutes, n.hours, n.day, n.month, n.year)
  BY TimeIs
<1>4. Within(t.seconds, t.minutes, t.hours, t.day, t.month, t.year)
  BY TimeIs
<1>5. /\ v.seconds = IF p > 1 THEN u.seconds ELSE n.seconds
      /\ v.minutes = IF p > 2 THEN u.minutes ELSE n.minutes
      /\ v.hours = IF p > 3 THEN u.hours ELSE n.hours
      /\ v.day = IF p > 4 THEN u.day ELSE n.day
      /\ v.month = IF p > 5 THEN u.month ELSE n.month
      /\ v.year = IF p > 6 THEN u.year ELSE n.year
  BY <1>1 DEF Together
<1>6. /\ p <= 1 => u.seconds = t.seconds
      /\ p <= 2 => u.minutes = t.minutes
      /\ p <= 3 => u.hours = t.hours
      /\ p <= 4 => u.day = t.day
      /\ p <= 5 => u.month = t.month
      /\ p <= 6 => u.year = t.year
  BY <1>1 DEF Together
<1>7. v \in Calendars!Times
  <2>1. v = [seconds |-> v.seconds, minutes |-> v.minutes, hours |-> v.hours,
             day |-> v.day, month |-> v.month, year |-> v.year]
    BY <1>1 DEF Together
  <2>2. Within(v.seconds, v.minutes, v.hours, v.day, v.month, v.year)
    BY <1>2, <1>3, <1>5 DEF Within
  <2>3. [year |-> v.year, month |-> v.month, day |-> v.day,
         hours |-> v.hours, minutes |-> v.minutes, seconds |-> v.seconds] \in Calendars!Times
    BY <2>2, ATime
  <2> QED  BY <2>1, <2>3
<1>8. Number(v) >= Number(u)
  <2>1. CASE /\ n.seconds = t.seconds + 1 /\ n.minutes = t.minutes /\ n.hours = t.hours
             /\ n.day = t.day /\ n.month = t.month /\ n.year = t.year
    BY <1>2, <1>4, <1>5, <1>6, <2>1 DEF Number, Within
  <2>2. CASE /\ t.seconds = 59 /\ n.seconds = 0 /\ n.minutes = t.minutes + 1
             /\ n.hours = t.hours /\ n.day = t.day /\ n.month = t.month /\ n.year = t.year
    BY <1>2, <1>4, <1>5, <1>6, <2>2 DEF Number, Within
  <2>3. CASE /\ t.seconds = 59 /\ t.minutes = 59 /\ n.seconds = 0 /\ n.minutes = 0
             /\ n.hours = t.hours + 1
             /\ n.day = t.day /\ n.month = t.month /\ n.year = t.year
    BY <1>2, <1>4, <1>5, <1>6, <2>3 DEF Number, Within
  <2>4. CASE /\ t.seconds = 59 /\ t.minutes = 59 /\ t.hours = 23
             /\ n.seconds = 0 /\ n.minutes = 0 /\ n.hours = 0
             /\ n.day = t.day + 1 /\ n.month = t.month /\ n.year = t.year
    BY <1>2, <1>4, <1>5, <1>6, <2>4 DEF Number, Within
  <2>5. CASE /\ t.seconds = 59 /\ t.minutes = 59 /\ t.hours = 23
             /\ n.seconds = 0 /\ n.minutes = 0 /\ n.hours = 0
             /\ n.day = 1 /\ n.month = t.month + 1 /\ n.year = t.year
    BY <1>2, <1>4, <1>5, <1>6, <2>5 DEF Number, Within
  <2>6. CASE /\ t.seconds = 59 /\ t.minutes = 59 /\ t.hours = 23
             /\ n.seconds = 0 /\ n.minutes = 0 /\ n.hours = 0
             /\ n.day = 1 /\ t.month = 12 /\ n.month = 1 /\ n.year = t.year + 1
    BY <1>2, <1>4, <1>5, <1>6, <2>6 DEF Number, Within
  <2> QED  BY <2>1, <2>2, <2>3, <2>4, <2>5, <2>6 DEF Follows
<1> QED  BY <1>1, <1>7, <1>8

(* A time that is before another one has a smaller number. *)
LEMMA Behind ==
    ASSUME NEW u \in Calendars!Times, NEW w \in Calendars!Times, NEW t,
           \A i \in 1 .. 6 : t[Calendars!Fields[i]] = u[Calendars!Fields[i]],
           Calendars!Before(t, w)
    PROVE  Number(u) < Number(w)
<1>1. /\ Within(u.seconds, u.minutes, u.hours, u.day, u.month, u.year)
      /\ Within(w.seconds, w.minutes, w.hours, w.day, w.month, w.year)
  BY TimeIs
<1>2. PICK f : f = Calendars!Fields  OBVIOUS
<1>3. /\ f[1] = "seconds" /\ f[2] = "minutes" /\ f[3] = "hours"
      /\ f[4] = "day" /\ f[5] = "month" /\ f[6] = "year" /\ DOMAIN f = 1 .. 6 /\ Len(f) = 6
  BY <1>2 DEF Calendars!Fields
<1>4. PICK i \in 1 .. 6 : u[f[i]] < w[f[i]] /\ \A j \in i + 1 .. 6 : u[f[j]] = w[f[j]]
  <2>1. PICK i \in 1 .. 6 : t[f[i]] < w[f[i]] /\ \A j \in i + 1 .. 6 : t[f[j]] = w[f[j]]
    BY <1>2, <1>3 DEF Calendars!Before
  <2>2. \A j \in i + 1 .. 6 : j \in 1 .. 6  OBVIOUS
  <2> QED  BY <1>2, <2>1, <2>2
<1>5. /\ i <= 5 => u.year = w.year
      /\ i <= 4 => u.month = w.month
      /\ i <= 3 => u.day = w.day
      /\ i <= 2 => u.hours = w.hours
      /\ i <= 1 => u.minutes = w.minutes
  BY <1>3, <1>4
<1>6. /\ i = 1 => u.seconds < w.seconds
      /\ i = 2 => u.minutes < w.minutes
      /\ i = 3 => u.hours < w.hours
      /\ i = 4 => u.day < w.day
      /\ i = 5 => u.month < w.month
      /\ i = 6 => u.year < w.year
  BY <1>3, <1>4
<1>7. CASE i = 1  BY <1>1, <1>5, <1>6, <1>7 DEF Number, Within
<1>8. CASE i = 2  BY <1>1, <1>5, <1>6, <1>8 DEF Number, Within
<1>9. CASE i = 3  BY <1>1, <1>5, <1>6, <1>9 DEF Number, Within
<1>10. CASE i = 4  BY <1>1, <1>5, <1>6, <1>10 DEF Number, Within
<1>11. CASE i = 5  BY <1>1, <1>5, <1>6, <1>11 DEF Number, Within
<1>12. CASE i = 6  BY <1>1, <1>5, <1>6, <1>12 DEF Number, Within
<1> QED  BY <1>7, <1>8, <1>9, <1>10, <1>11, <1>12

LEMMA NumberIs ==
    ASSUME NEW t \in Calendars!Times
    PROVE  Number(t) \in Int
BY TimeIs DEF Number, Within

LEMMA ElapsedIs ==
    ASSUME NEW t \in Calendars!Times, NEW n \in Calendars!Times, Follows(t, n),
           NEW u \in Calendars!Times, NEW k \in Nat, k + 1 < 28 * 86400, Elapsed(t, u, k)
    PROVE  Elapsed(n, u, k + 1)
<1>1. /\ Within(t.seconds, t.minutes, t.hours, t.day, t.month, t.year)
      /\ Within(n.seconds, n.minutes, n.hours, n.day, n.month, n.year)
      /\ Within(u.seconds, u.minutes, u.hours, u.day, u.month, u.year)
  BY TimeIs
<1>2. InMonth(t) \in Int /\ InMonth(n) \in Int /\ InMonth(u) \in Int
  BY <1>1 DEF InMonth, Within
<1>3. \/ n.month = t.month /\ n.year = t.year /\ InMonth(n) = InMonth(t) + 1
      \/ n.month # t.month /\ InMonth(n) = 0 /\ InMonth(t) + 1 >= 28 * 86400
  <2>1. CASE n.day = t.day /\ n.month = t.month /\ n.year = t.year
    BY <1>1, <2>1 DEF Follows, InMonth, Within
  <2>2. CASE ~ (n.day = t.day /\ n.month = t.month /\ n.year = t.year)
    <3>1. /\ t.seconds = 59 /\ t.minutes = 59 /\ t.hours = 23
          /\ n.seconds = 0 /\ n.minutes = 0 /\ n.hours = 0
      BY <2>2 DEF Follows
    <3>2. InMonth(t) = 86399 + 86400 * (t.day - 1) /\ InMonth(n) = 86400 * (n.day - 1)
      BY <1>1, <3>1 DEF InMonth, Within
    <3>3. \/ n.day = t.day + 1 /\ n.month = t.month /\ n.year = t.year
          \/ t.day >= 28 /\ n.day = 1 /\ n.month # t.month
      BY <1>1, <2>2 DEF Follows, Within
    <3> QED  BY <1>1, <3>2, <3>3 DEF Within
  <2> QED  BY <2>1, <2>2
<1> QED  BY <1>2, <1>3 DEF Elapsed

(* Field number i of a time, and the number it has among the fields. *)
LEMMA FieldsAre ==
    /\ DOMAIN Calendars!Fields = 1 .. 6 /\ Len(Calendars!Fields) = 6
    /\ Calendars!Fields[1] = "seconds" /\ Calendars!Fields[2] = "minutes"
    /\ Calendars!Fields[3] = "hours" /\ Calendars!Fields[4] = "day"
    /\ Calendars!Fields[5] = "month" /\ Calendars!Fields[6] = "year"
BY DEF Calendars!Fields

(* What a register gives while the chip stands still. *)
LEMMA RegisterIs ==
    ASSUME chip \in [time : Calendars!Times, binary : BOOLEAN, h24 : BOOLEAN],
           NEW i \in 1 .. 6, NEW f, f = Calendars!Fields[i]
    PROVE  /\ Calendars!Read(f, Calendars!Register(f)) \in Int
           /\ chip.time = waited /\ Calendars!Agrees(f) =>
                Calendars!Read(f, Calendars!Register(f)) = Calendars!FullYear(chip.time)[f]
           /\ chip.binary /\ chip.h24 =>
                Calendars!Read(f, Calendars!Register(f)) = Calendars!FullYear(chip.time)[f]
<1>1. PICK t \in Calendars!Times : t = chip.time  OBVIOUS
<1>2. Within(t.seconds, t.minutes, t.hours, t.day, t.month, t.year)  BY TimeIs
<1>3. YEAR_OFFSET \in Nat  BY CalendarIs
<1>4. \A n \in Nat : /\ Calendars!Digits(n) \in Nat
                     /\ chip.binary \/ n < 10 => Calendars!Digits(n) = n
  <2> TAKE n \in Nat
  <2>1. PICK q \in Nat, m \in Nat : q = n \div 10 /\ m = n % 10  OBVIOUS
  <2>2. n < 10 => q = 0 /\ m = n  BY <2>1
  <2>3. Calendars!Digits(n) = IF chip.binary THEN n ELSE 16 * q + m
    BY <2>1 DEF Calendars!Digits
  <2> QED  BY <2>2, <2>3
<1>5. CASE f = "hours"
  <2>1. PICK h \in Nat : h = t.hours /\ h <= 23  BY <1>2 DEF Within
  <2>2. PICK g \in Nat : g = Calendars!Hour12(h) /\ (h % 12 # 0 => g = h % 12)
    BY DEF Calendars!Hour12
  <2>3. h < 12 => h % 12 = h  BY <2>1
  <2>4. h >= 12 => h % 12 = h - 12  BY <2>1
  <2>5. Calendars!Register(f) =
          IF chip.h24 THEN Calendars!Digits(h)
          ELSE Calendars!Digits(g) + (IF h >= 12 THEN 128 ELSE 0)
    BY <1>1, <1>5, <2>1, <2>2 DEF Calendars!Register
  <2>6. Calendars!Register(f) \in Nat  BY <1>4, <2>5
  <2>7. Calendars!FullYear(chip.time)[f] = h  BY <1>1, <1>5, <2>1, FullIs
  <2>8. Calendars!Read(f, Calendars!Register(f)) = Calendars!Hours(Calendars!Register(f))
    BY <1>5 DEF Calendars!Read
  <2>9. Calendars!Hours(Calendars!Register(f)) \in Int  BY <2>6 DEF Calendars!Hours
  <2>10. ASSUME Calendars!Register(f) = h  PROVE Calendars!Hours(Calendars!Register(f)) = h
    BY <2>1, <2>10 DEF Calendars!Hours
  <2>11. chip.binary /\ chip.h24 => Calendars!Register(f) = h  BY <1>4, <2>5
  <2>12. ASSUME chip.time = waited, Calendars!Agrees(f)
         PROVE  Calendars!Hours(Calendars!Register(f)) = h
    <3>1. /\ chip.binary \/ h < 10
          /\ chip.h24 \/ h % 12 # 0
      BY <1>1, <1>5, <2>1, <2>12 DEF Calendars!Agrees
    <3>2. CASE chip.h24  BY <1>4, <2>5, <2>10, <3>1, <3>2
    <3>3. CASE ~ chip.h24 /\ h < 12
      <4>1. g = h  BY <2>2, <2>3, <3>1, <3>3
      <4> QED  BY <1>4, <2>5, <2>10, <3>1, <3>3, <4>1
    <3>4. CASE ~ chip.h24 /\ h >= 12
      <4>1. g = h - 12 /\ chip.binary  BY <2>2, <2>4, <3>1, <3>4
      <4>2. Calendars!Register(f) = h - 12 + 128  BY <1>4, <2>5, <3>4, <4>1
      <4>3. PICK m \in Nat : m = Calendars!Register(f)  BY <2>6
      <4>4. m >= 128 /\ m - 128 + 12 = h  BY <3>4, <4>2, <4>3
      <4> QED  BY <4>3, <4>4 DEF Calendars!Hours
    <3> QED  BY <3>2, <3>3, <3>4
  <2> QED  BY <2>7, <2>8, <2>9, <2>10, <2>11, <2>12
<1>6. CASE f # "hours"
  <2>1. PICK n \in Nat : n = t[f]
    <3>1. f \in {"seconds", "minutes", "day", "month", "year"}  BY <1>6, FieldsAre
    <3> QED  BY <1>2, <3>1 DEF Within
  <2>2. Calendars!Register(f) = Calendars!Digits(n)
    BY <1>1, <1>6, <2>1 DEF Calendars!Register
  <2>3. PICK m \in Nat : m = Calendars!Register(f) /\ (chip.binary \/ n < 10 => m = n)
    BY <1>4, <2>2
  <2>4. Calendars!Read(f, m) = IF f = "year" THEN m + YEAR_OFFSET ELSE m
    BY <1>6 DEF Calendars!Read
  <2>5. Calendars!FullYear(chip.time)[f] = IF f = "year" THEN n + YEAR_OFFSET ELSE n
    <3>1. f \in {"seconds", "minutes", "day", "month", "year"}  BY <1>6, FieldsAre
    <3> QED  BY <1>1, <2>1, <3>1, FullIs
  <2>6. chip.time = waited /\ Calendars!Agrees(f) => chip.binary \/ n < 10
    BY <1>1, <2>1 DEF Calendars!Agrees
  <2> QED  BY <1>3, <2>3, <2>4, <2>5, <2>6
<1> QED  BY <1>5, <1>6

LEMMA TimeStart ==
    Init /\ part = "calendar" => TimeInv
<1> SUFFICES ASSUME Init, part = "calendar"  PROVE TimeInv  OBVIOUS
<1>1. Calendars!Init  BY DEF Init
<1>2. /\ chip \in [time : Calendars!Times, binary : BOOLEAN, h24 : BOOLEAN]
      /\ start = chip.time /\ waited = chip.time
      /\ updating \in BOOLEAN /\ since = 0 /\ next = 0 /\ begun = FALSE /\ garbled = FALSE
      /\ ctime = [f \in {Calendars!Fields[i] : i \in DOMAIN Calendars!Fields} |-> 0]
  BY <1>1, CalendarIs DEF Calendars!Init, Calendars!Instant, Calendars!Waiting
<1>3. {Calendars!Fields[i] : i \in DOMAIN Calendars!Fields} = FieldNames
  <2>1. \A i \in 1 .. 6 : i = 1 \/ i = 2 \/ i = 3 \/ i = 4 \/ i = 5 \/ i = 6  OBVIOUS
  <2>2. \A f \in FieldNames : \E i \in 1 .. 6 : f = Calendars!Fields[i]
    BY FieldsAre DEF FieldNames
  <2>3. \A i \in 1 .. 6 : Calendars!Fields[i] \in FieldNames
    BY <2>1, FieldsAre DEF FieldNames
  <2> QED  BY <2>2, <2>3, FieldsAre
<1>4. TimeTypes
  <2>1. ctime \in [FieldNames -> Int]  BY <1>2, <1>3
  <2>2. since \in Nat /\ since < MaxTicks /\ since <= MaxTicks  BY <1>2, CalendarIs
  <2>3. start \in Calendars!Times /\ waited \in Calendars!Times  BY <1>2
  <2>4. begun \in BOOLEAN /\ garbled \in BOOLEAN  BY <1>2
  <2>5. next \in 0 .. 7  BY <1>2
  <2>6. updating \in BOOLEAN /\ chip \in [time : Calendars!Times, binary : BOOLEAN, h24 : BOOLEAN]
    BY <1>2
  <2> QED  BY <2>1, <2>2, <2>3, <2>4, <2>5, <2>6 DEF TimeTypes
<1>5. Elapsed(chip.time, start, since)
  <2>1. Within(start.seconds, start.minutes, start.hours, start.day, start.month, start.year)
    BY <1>4, TimeIs DEF TimeTypes
  <2>2. PICK s \in Int, m \in Int, h \in Int, d \in Int :
            s = start.seconds /\ m = start.minutes /\ h = start.hours /\ d = start.day
    BY <2>1 DEF Within
  <2>3. InMonth(start) \in Int  BY <2>2 DEF InMonth
  <2> QED  BY <1>2, <2>3 DEF Elapsed
<1> QED  BY <1>2, <1>4, <1>5 DEF TimeInv, StandsStill, GoesOn

LEMMA BeginTime ==
    ASSUME TimeInv, Calendars!BeginUpdate
    PROVE  TimeInv'
<1>1. /\ since < MaxTicks /\ updating' = TRUE /\ begun' = (begun \/ next # 0)
      /\ UNCHANGED <<chip, since, start, next, ctime, waited, garbled>>
  BY DEF Calendars!BeginUpdate, Calendars!Waiting
<1>2. TimeTypes'
  <2>1. begun' \in BOOLEAN /\ updating' \in BOOLEAN  BY <1>1
  <2>2. since' \in Nat /\ since' <= MaxTicks /\ since' < MaxTicks
    BY <1>1 DEF TimeInv, TimeTypes
  <2>3. /\ chip' \in [time : Calendars!Times, binary : BOOLEAN, h24 : BOOLEAN]
        /\ start' \in Calendars!Times /\ waited' \in Calendars!Times
        /\ garbled' \in BOOLEAN /\ next' \in 0 .. 7 /\ ctime' \in [FieldNames -> Int]
    BY <1>1 DEF TimeInv, TimeTypes
  <2> QED  BY <2>1, <2>2, <2>3 DEF TimeTypes
<1>3. StandsStill'  BY <1>1 DEF StandsStill
<1>4. GoesOn'  BY <1>1 DEF TimeInv, GoesOn, Together, Number, Calendars!FullYear
<1> QED  BY <1>1, <1>2, <1>3, <1>4 DEF TimeInv

LEMMA TickTime ==
    ASSUME TimeInv, Calendars!Tick
    PROVE  TimeInv'
<1>1. /\ updating /\ updating' = FALSE /\ since' = since + 1
      /\ chip' = [chip EXCEPT !.time = Calendars!NextSecond(chip.time)]
      /\ UNCHANGED <<start, next, ctime, waited, begun, garbled>>
  BY DEF Calendars!Tick
<1>2. PICK t \in Calendars!Times, n \in Calendars!Times :
          t = chip.time /\ n = Calendars!NextSecond(t) /\ Follows(t, n)
  BY NextIs DEF TimeInv, TimeTypes
<1>3. /\ chip'.time = n /\ chip'.binary = chip.binary /\ chip'.h24 = chip.h24
      /\ chip' \in [time : Calendars!Times, binary : BOOLEAN, h24 : BOOLEAN]
  BY <1>1, <1>2 DEF TimeInv, TimeTypes
<1>4. since \in Nat /\ since < MaxTicks /\ MaxTicks \in Nat /\ MaxTicks < 28 * 86400
  BY <1>1, CalendarIs DEF TimeInv, TimeTypes
<1>5. TimeTypes'
  <2>1. since' \in Nat /\ since' <= MaxTicks  BY <1>1, <1>4
  <2> QED  BY <1>1, <1>3, <2>1 DEF TimeInv, TimeTypes
<1>6. Elapsed(n, start, since + 1)
  <2>1. since + 1 < 28 * 86400  BY <1>4
  <2> QED  BY <1>2, <1>4, <2>1, ElapsedIs DEF TimeInv, TimeTypes
<1>7. StandsStill'  BY <1>1 DEF TimeInv, StandsStill
<1>8. ASSUME next # 0, ~ garbled, chip.binary, chip.h24
      PROVE  LET v == Together(next, ctime, Calendars!FullYear(n))
             IN  v \in Calendars!Times /\ Number(v) >= Number(Calendars!FullYear(waited))
  <2>1. PICK u, v : /\ u = Together(next, ctime, Calendars!FullYear(t))
                    /\ v = Together(next, ctime, Calendars!FullYear(n))
    OBVIOUS
  <2>2. u \in Calendars!Times /\ Number(u) >= Number(Calendars!FullYear(waited))
    BY <1>2, <1>8, <2>1 DEF TimeInv, GoesOn
  <2>3. next \in 1 .. 7  BY <1>8 DEF TimeInv, TimeTypes
  <2>4. v \in Calendars!Times /\ Number(v) >= Number(u)
    BY <1>2, <2>1, <2>2, <2>3, FollowsFull, FullIs, Onward
  <2>5. Calendars!FullYear(waited) \in Calendars!Times  BY FullIs DEF TimeInv, TimeTypes
  <2> QED  BY <2>1, <2>2, <2>4, <2>5, NumberIs
<1>9. GoesOn'
  BY <1>1, <1>3, <1>8 DEF GoesOn, Together, Number, Calendars!FullYear
<1> QED  BY <1>1, <1>3, <1>5, <1>6, <1>7, <1>9 DEF TimeInv, Elapsed, InMonth

LEMMA WaitTime ==
    ASSUME TimeInv, Calendars!Wait
    PROVE  TimeInv'
<1>1. /\ next = 0 /\ ~ updating /\ next' = 1 /\ waited' = chip.time
      /\ UNCHANGED <<chip, updating, since, start, ctime, begun, garbled>>
  BY DEF Calendars!Wait, Calendars!Waiting, Calendars!MayRead
<1>2. TimeTypes'  BY <1>1 DEF TimeInv, TimeTypes
<1>3. StandsStill'  BY <1>1 DEF StandsStill
<1>4. GoesOn'
  <2>1. PICK t : t = Calendars!FullYear(chip.time)  OBVIOUS
  <2>2. t \in Calendars!Times  BY <2>1, FullIs DEF TimeInv, TimeTypes
  <2>3. Together(1, ctime, t) = t  BY <2>2, TimeIs DEF Together
  <2>4. Number(t) >= Number(t)  BY <2>2, NumberIs
  <2>5. Calendars!FullYear(chip.time)' = t /\ Calendars!FullYear(waited)' = t
    BY <1>1, <2>1 DEF Calendars!FullYear
  <2>6. Together(next, ctime, Calendars!FullYear(chip.time))' = t
    <3>1. Together(next, ctime, Calendars!FullYear(chip.time))'
            = Together(1, ctime, Calendars!FullYear(chip.time))
      BY <1>1 DEF Together, Calendars!FullYear
    <3> QED  BY <2>1, <2>3, <3>1
  <2> QED  BY <2>2, <2>4, <2>5, <2>6 DEF GoesOn, Number
<1> QED  BY <1>1, <1>2, <1>3, <1>4 DEF TimeInv, Elapsed, InMonth

LEMMA ReadTime ==
    ASSUME TimeInv, Calendars!ReadRegister
    PROVE  TimeInv'
<1>1. /\ next \in 1 .. 6 /\ next' = next + 1 /\ garbled' = (garbled \/ updating)
      /\ UNCHANGED <<chip, updating, since, start, waited, begun>>
  BY FieldsAre DEF Calendars!ReadRegister, Calendars!Order
<1>2. PICK f : f = Calendars!Fields[next]  OBVIOUS
<1>3. PICK reg \in IF updating THEN Garbage ELSE {Calendars!Register(f)} :
          ctime' = [ctime EXCEPT ![f] = Calendars!Read(f, reg)]
  BY <1>2 DEF Calendars!ReadRegister, Calendars!Order
<1>4. PICK r : r = Calendars!Read(f, reg)  OBVIOUS
<1>5. /\ chip \in [time : Calendars!Times, binary : BOOLEAN, h24 : BOOLEAN]
      /\ waited \in Calendars!Times /\ ctime \in [FieldNames -> Int]
  BY DEF TimeInv, TimeTypes
<1>6. f \in FieldNames  BY <1>1, <1>2, FieldsAre DEF FieldNames
<1>7. r \in Int
  <2>1. CASE updating
    <3>1. reg \in Nat /\ YEAR_OFFSET \in Nat  BY <1>3, <2>1, CalendarIs
    <3> QED  BY <1>4, <3>1 DEF Calendars!Read, Calendars!Hours
  <2>2. CASE ~ updating
    BY <1>1, <1>2, <1>3, <1>4, <1>5, <2>2, RegisterIs
  <2> QED  BY <2>1, <2>2
<1>8. /\ ctime' \in [FieldNames -> Int] /\ ctime'[f] = r
      /\ \A g \in FieldNames : g # f => ctime'[g] = ctime[g]
  BY <1>3, <1>4, <1>5, <1>6, <1>7
<1>9. TimeTypes'  BY <1>1, <1>8 DEF TimeInv, TimeTypes
<1>10. ~ updating =>
         /\ chip.time = waited /\ Calendars!Agrees(f) => r = Calendars!FullYear(chip.time)[f]
         /\ chip.binary /\ chip.h24 => r = Calendars!FullYear(chip.time)[f]
  BY <1>1, <1>2, <1>3, <1>4, <1>5, RegisterIs
<1>11. StandsStill'
  <2> SUFFICES ASSUME ~ begun
               PROVE  /\ ~ updating /\ chip.time = waited
                      /\ \A i \in 1 .. 6 : i < next + 1 /\ Calendars!Agrees(Calendars!Fields[i]) =>
                            ctime'[Calendars!Fields[i]]
                                = Calendars!FullYear(waited)[Calendars!Fields[i]]
    BY <1>1 DEF StandsStill, Calendars!Agrees, Calendars!FullYear
  <2>1. /\ ~ updating /\ chip.time = waited
        /\ \A i \in 1 .. 6 : i < next /\ Calendars!Agrees(Calendars!Fields[i]) =>
              ctime[Calendars!Fields[i]] = Calendars!FullYear(waited)[Calendars!Fields[i]]
    BY <1>1 DEF TimeInv, StandsStill
  <2>2. ASSUME NEW i \in 1 .. 6, i < next + 1, Calendars!Agrees(Calendars!Fields[i])
        PROVE  ctime'[Calendars!Fields[i]] = Calendars!FullYear(waited)[Calendars!Fields[i]]
    <3>1. CASE i = next  BY <1>2, <1>8, <1>10, <2>1, <2>2, <3>1
    <3>2. CASE i # next
      <4>1. i < next  BY <1>1, <2>2, <3>2
      <4>2. Calendars!Fields[i] # f /\ Calendars!Fields[i] \in FieldNames
        BY <1>1, <1>2, <3>2, FieldsAre DEF FieldNames
      <4> QED  BY <1>8, <2>1, <2>2, <4>1, <4>2
    <3> QED  BY <3>1, <3>2
  <2> QED  BY <2>1, <2>2
<1>12. GoesOn'
  <2>1. PICK t, w : t = Calendars!FullYear(chip.time) /\ w = Calendars!FullYear(waited)
    OBVIOUS
  <2> SUFFICES ASSUME ~ garbled, ~ updating, chip.binary, chip.h24
               PROVE  LET v == Together(next + 1, ctime', t)
                      IN  v \in Calendars!Times /\ Number(v) >= Number(w)
    <3>1. Calendars!FullYear(chip.time)' = t /\ Calendars!FullYear(waited)' = w
      BY <1>1, <2>1 DEF Calendars!FullYear
    <3>2. /\ Together(next, ctime, Calendars!FullYear(chip.time))' = Together(next + 1, ctime', t)
          /\ Number(Calendars!FullYear(waited))' = Number(w)
      BY <1>1, <3>1 DEF Together, Number
    <3>3. Number(Together(next, ctime, Calendars!FullYear(chip.time)))'
            = Number(Together(next + 1, ctime', t))
      BY <3>2 DEF Number
    <3> QED  BY <1>1, <3>2, <3>3 DEF GoesOn
  <2>2. /\ Together(next, ctime, t) \in Calendars!Times
        /\ Number(Together(next, ctime, t)) >= Number(w)
    BY <1>1, <2>1 DEF TimeInv, GoesOn
  <2>3. r = t[f]  BY <1>10, <2>1
  <2>4. Together(next + 1, ctime', t) = Together(next, ctime, t)
    <3>1. PICK k \in 1 .. 6 : k = next  BY <1>1
    <3>2. \A g \in FieldNames : ctime'[g] = IF g = f THEN t[g] ELSE ctime[g]
      BY <1>8, <2>3
    <3>3. /\ f = "seconds" <=> k = 1
          /\ f = "minutes" <=> k = 2
          /\ f = "hours" <=> k = 3
          /\ f = "day" <=> k = 4
          /\ f = "month" <=> k = 5
          /\ f = "year" <=> k = 6
      BY <1>2, <3>1, FieldsAre
    <3>4. /\ ctime'["seconds"] = IF k = 1 THEN t.seconds ELSE ctime["seconds"]
          /\ ctime'["minutes"] = IF k = 2 THEN t.minutes ELSE ctime["minutes"]
          /\ ctime'["hours"] = IF k = 3 THEN t.hours ELSE ctime["hours"]
          /\ ctime'["day"] = IF k = 4 THEN t.day ELSE ctime["day"]
          /\ ctime'["month"] = IF k = 5 THEN t.month ELSE ctime["month"]
          /\ ctime'["year"] = IF k = 6 THEN t.year ELSE ctime["year"]
      BY <3>2, <3>3 DEF FieldNames
    <3> QED  BY <3>1, <3>4 DEF Together
  <2> QED  BY <2>2, <2>4
<1> QED  BY <1>1, <1>9, <1>11, <1>12 DEF TimeInv, Elapsed, InMonth

LEMMA TimeStep ==
    ASSUME TimeInv, Calendars!Next
    PROVE  TimeInv'
BY BeginTime, TickTime, WaitTime, ReadTime DEF Calendars!Next

LEMMA TimeRests ==
    ASSUME TimeInv, UNCHANGED calendarVars
    PROVE  TimeInv'
<1>1. UNCHANGED <<chip, updating, since, start, next, ctime, waited, begun, garbled>>
  BY DEF calendarVars
<1>2. TimeTypes'  BY <1>1 DEF TimeInv, TimeTypes
<1>3. StandsStill'
  BY <1>1 DEF TimeInv, StandsStill, Calendars!Agrees, Calendars!FullYear
<1>4. GoesOn'  BY <1>1 DEF TimeInv, GoesOn, Together, Number, Calendars!FullYear
<1> QED  BY <1>1, <1>2, <1>3, <1>4 DEF TimeInv, Elapsed, InMonth

LEMMA TimeHolds ==
    TimeInv => Calendars!TimeRead
<1> SUFFICES ASSUME TimeInv  PROVE Calendars!TimeRead  OBVIOUS
<1>1. PICK w : w = Calendars!FullYear(waited)  OBVIOUS
<1>2. /\ waited \in Calendars!Times /\ start \in Calendars!Times /\ w \in Calendars!Times
      /\ ctime \in [FieldNames -> Int] /\ since \in Nat
      /\ Calendars!FullYear(start) \in Calendars!Times
  BY <1>1, FullIs DEF TimeInv, TimeTypes
<1>3. ASSUME next = 7, ~ begun  PROVE chip.time = waited /\ \A i \in 1 .. 6 :
            Calendars!Agrees(Calendars!Fields[i]) =>
                ctime[Calendars!Fields[i]] = w[Calendars!Fields[i]]
  BY <1>1, <1>3 DEF TimeInv, StandsStill
<1>4. ASSUME next = 7, ~ begun, chip.binary, chip.h24, waited.month = start.month
      PROVE  Calendars!UnixTime(ctime) - Calendars!UnixTime(Calendars!FullYear(start)) = since
  <2>1. \A i \in 1 .. 6 : ctime[Calendars!Fields[i]] = w[Calendars!Fields[i]]
    BY <1>3, <1>4 DEF Calendars!Agrees
  <2>2. /\ ctime.seconds = waited.seconds /\ ctime.minutes = waited.minutes
        /\ ctime.hours = waited.hours /\ ctime.day = waited.day /\ ctime.month = waited.month
        /\ ctime.year = waited.year + YEAR_OFFSET
    BY <1>1, <1>2, <2>1, FieldsAre, FullIs
  <2>3. waited.year = start.year /\ InMonth(waited) - InMonth(start) = since
    BY <1>3, <1>4 DEF TimeInv, Elapsed
  <2>4. PICK v : v = Calendars!FullYear(start)  OBVIOUS
  <2>5. /\ v.seconds = start.seconds /\ v.minutes = start.minutes /\ v.hours = start.hours
        /\ v.day = start.day /\ v.month = start.month /\ v.year = start.year + YEAR_OFFSET
    BY <1>2, <2>4, FullIs
  <2>6. PICK c \in Int : c = start.month * 2629800 + (start.year + YEAR_OFFSET - 1971) * 31557600
    <3>1. start.month \in Int /\ start.year \in Int /\ YEAR_OFFSET \in Int
      BY <1>2, TimeIs, CalendarIs DEF Within
    <3> QED  BY <3>1
  <2>7. /\ Within(waited.seconds, waited.minutes, waited.hours, waited.day, waited.month, waited.year)
        /\ Within(start.seconds, start.minutes, start.hours, start.day, start.month, start.year)
    BY <1>2, TimeIs
  <2>8. /\ Calendars!UnixTime(ctime) = InMonth(waited) + 86400 + c
        /\ Calendars!UnixTime(v) = InMonth(start) + 86400 + c
    BY <1>4, <2>2, <2>3, <2>5, <2>6, <2>7, CalendarIs DEF Calendars!UnixTime, InMonth, Within
  <2>9. InMonth(waited) \in Int /\ InMonth(start) \in Int  BY <2>7 DEF InMonth, Within
  <2> QED  BY <2>3, <2>4, <2>6, <2>8, <2>9
<1>5. ASSUME next = 7, ~ garbled, chip.binary, chip.h24  PROVE ~ Calendars!Before(ctime, w)
  <2>1. PICK u : u = Together(7, ctime, Calendars!FullYear(chip.time))  OBVIOUS
  <2>2. u \in Calendars!Times /\ Number(u) >= Number(w)
    BY <1>1, <1>5, <2>1 DEF TimeInv, GoesOn
  <2>3. \A i \in 1 .. 6 : ctime[Calendars!Fields[i]] = u[Calendars!Fields[i]]
    <3>1. \A i \in 1 .. 6 : i = 1 \/ i = 2 \/ i = 3 \/ i = 4 \/ i = 5 \/ i = 6  OBVIOUS
    <3> QED  BY <2>1, <3>1, FieldsAre DEF Together
  <2>4. ~ Number(u) < Number(w)  BY <1>2, <2>2, NumberIs
  <2> QED  BY <1>2, <2>2, <2>3, <2>4, Behind
<1>6. Calendars!ReadExactly
  BY <1>1, <1>3, <1>4, FieldsAre DEF Calendars!ReadExactly, Calendars!Done
<1>7. Calendars!NotBehind
  BY <1>1, <1>5 DEF Calendars!NotBehind, Calendars!Done
<1> QED  BY <1>6, <1>7 DEF Calendars!TimeRead

-----------------------------------------------------------------------------
(***************************************************************************)
(* The tables of an ELF file.  The places of the fields, which Places adds *)
(* up from their widths, are written down in HeaderPlaces and the like,    *)
(* and each field was read from its place; with the room that structures   *)
(* of 64 bits have for it, which is its width if it is read right.         *)
(***************************************************************************)
HeaderPlaces ==
    IF Elfs!Class64 THEN <<16, 18, 20, 24, 32, 40, 48, 52, 54, 56, 58, 60, 62>>
    ELSE <<16, 18, 20, 24, 28, 32, 36, 40, 42, 44, 46, 48, 50>>

ProgramPlaces ==
    IF Elfs!Class64 THEN <<0, 4, 8, 16, 24, 32, 40, 48>> ELSE <<0, 4, 8, 12, 16, 20, 24, 28>>

(* In the class of 32 bits only the first two are read right. *)
SectionPlaces ==
    IF Elfs!Class64 THEN <<0, 4, 8, 16, 24, 32, 40, 44, 48, 56>>
    ELSE <<0, 4, 8, 12, 16, 20, 24, 28, 32, 36>>

Programs == [i \in 1 .. file.phnum |-> Elfs!ProgramHeader(header.e_phoff, i - 1)]

Sections == [i \in 1 .. file.shnum |-> Elfs!SectionHeader(header.e_shoff, i - 1)]

ElfInv ==
    /\ file \in Elfs!Files
    /\ header = NULL \/ header = Elfs!ParseELF_HEADER
    /\ program_headers = NULL \/ program_headers = Programs
    /\ section_headers = NULL \/ section_headers = Sections
    /\ header = NULL => program_headers = NULL
    /\ program_headers = NULL => section_headers = NULL

(* There is one way only to add up the widths. *)
AddUp(p, fields, n, start0) ==
    \A i \in 1 .. n : p[i] = IF i = 1 THEN start0 ELSE p[i - 1] + Elfs!Width(fields[i - 1])

LEMMA PlacesAre ==
    ASSUME NEW n \in Nat, NEW fields, DOMAIN fields = 1 .. n, NEW start0, NEW p,
           AddUp(p, fields, n, start0)
    PROVE  \A i \in 1 .. n : Elfs!Places(fields, start0)[i] = p[i]
<1> DEFINE Adds(f) == f = [i \in 1 .. n |-> IF i = 1 THEN start0
                                          ELSE f[i - 1] + Elfs!Width(fields[i - 1])]
           q == [i \in 1 .. n |-> p[i]]
           v == [i \in 1 .. n |-> IF i = 1 THEN start0 ELSE q[i - 1] + Elfs!Width(fields[i - 1])]
           place == CHOOSE f : Adds(f)
<1> USE DEF AddUp
<1>1. Adds(q)
  <2>1. \A i \in 1 .. n : q[i] = v[i]
    <3> TAKE i \in 1 .. n
    <3>1. CASE i = 1  BY <3>1
    <3>2. CASE i # 1
      <4>1. i - 1 \in 1 .. n  BY <3>2
      <4> QED  BY <3>2, <4>1
    <3> QED  BY <3>1, <3>2
  <2>2. q = v  BY <2>1
  <2> QED  BY <2>2
<1>2. Adds(place)  BY <1>1
<1>3. Elfs!Places(fields, start0) = place  BY DEF Elfs!Places
<1> DEFINE S == {k \in 0 .. n : \A i \in 1 .. k : place[i] = p[i]}
<1>4. 0 .. n \subseteq S
  <2> HIDE DEF place
  <2>1. 0 \in S  OBVIOUS
  <2>2. ASSUME NEW k \in 1 .. n, k - 1 \in S  PROVE k \in S
    <3>1. k # 1 => k - 1 \in 1 .. k - 1 /\ place[k - 1] = p[k - 1]  BY <2>2
    <3>2. place[k] = IF k = 1 THEN start0 ELSE place[k - 1] + Elfs!Width(fields[k - 1])
      BY <1>2
    <3>3. place[k] = p[k]  BY <3>1, <3>2
    <3>4. \A i \in 1 .. k : i = k \/ i \in 1 .. k - 1  OBVIOUS
    <3> QED  BY <2>2, <3>3, <3>4
  <2> HIDE DEF S
  <2> QED  BY <2>1, <2>2, Upwards
<1> HIDE DEF place
<1>5. n \in S
  <2> HIDE DEF S
  <2> QED  BY <1>4
<1> QED  BY <1>3, <1>5

Room(f) == IF f \in Elfs!Pointers THEN 8 ELSE Elfs!Width(f)

Ordered(v) == IF Elfs!Mismatch THEN Elfs!Swap(v) ELSE v

(* A field that is read right has the width it is read with. *)
LEMMA RoomIs ==
    ASSUME NEW f, f \notin Elfs!Misread
    PROVE  Elfs!Width(f) = Room(f)
BY DEF Room, Elfs!Width, Elfs!Misread

(* What is to be shown of a table of n fields. *)
LEMMA Agrees ==
    ASSUME NEW n \in Nat, NEW fields, DOMAIN fields = 1 .. n, NEW start0, NEW p,
           AddUp(p, fields, n, start0),
           NEW h, NEW base,
           \A i \in 1 .. n : fields[i] \notin Elfs!Misread =>
                h[fields[i]] = Ordered(Elfs!At(base, p[i], Room(fields[i])))
    PROVE  Elfs!Agree(h, fields, base, start0)
<1>1. \A i \in 1 .. n : Elfs!Places(fields, start0)[i] = p[i]  BY PlacesAre
<1>2. \A f, o : f \notin Elfs!Misread =>
            Ordered(Elfs!At(base, o, Room(f))) = Elfs!Stored(base, o, Elfs!Width(f))
  BY RoomIs DEF Ordered, Elfs!Stored, Elfs!Swap
<1> QED  BY <1>1, <1>2 DEF Elfs!Agree

LEMMA SwappedIs ==
    ASSUME NEW h, NEW except, NEW f \in DOMAIN h, f \notin DOMAIN except \/ ~ Elfs!Mismatch
    PROVE  Elfs!Swapped(h, except)[f] = Ordered(h[f])
BY DEF Elfs!Swapped, Ordered

Pointer == IF Elfs!Class64 THEN 8 ELSE 4

Taken(h, except, p, fields, n, base) ==
    \A i \in 1 .. n : fields[i] \notin Elfs!Misread =>
        /\ fields[i] \in DOMAIN h
        /\ fields[i] \notin DOMAIN except \/ ~ Elfs!Mismatch
        /\ h[fields[i]] = Elfs!At(base, p[i], Room(fields[i]))

(* A table is read right when each of its fields was taken from its place. *)
LEMMA TableRead ==
    ASSUME NEW n \in Nat, NEW fields, DOMAIN fields = 1 .. n, NEW start0, NEW p,
           AddUp(p, fields, n, start0),
           NEW h, NEW except, NEW base,
           Taken(h, except, p, fields, n, base)
    PROVE  Elfs!Agree(Elfs!Swapped(h, except), fields, base, start0)
<1>1. \A i \in 1 .. n : fields[i] \notin Elfs!Misread =>
            Elfs!Swapped(h, except)[fields[i]]
              = Ordered(Elfs!At(base, p[i], Room(fields[i])))
  BY SwappedIs DEF Taken
<1> QED  BY <1>1, Agrees

LEMMA HeaderIs ==
    ASSUME NEW base, base = "file"
    PROVE  Elfs!Agree(Elfs!ParseELF_HEADER, Elfs!HeaderFields, base, 16)
<1> DEFINE F == Elfs!HeaderFields
           p == HeaderPlaces
           at(offset, m) == Elfs!At(base, offset, m)
           flags == IF Elfs!Class64 THEN 48 ELSE 36
           h == [e_type |-> at(16, 2), e_machine |-> at(18, 2), e_version |-> at(20, 4),
                 e_entry |-> at(24, 8),
                 e_phoff |-> at(IF Elfs!Class64 THEN 32 ELSE 28, 8),
                 e_shoff |-> at(IF Elfs!Class64 THEN 40 ELSE 32, 8),
                 e_flags |-> at(flags, 4), e_ehsize |-> at(flags + 4, 2),
                 e_phentsize |-> at(flags + 6, 2), e_phnum |-> at(flags + 8, 2),
                 e_shentsize |-> at(flags + 10, 2), e_shnum |-> at(flags + 12, 2),
                 e_shstrndx |-> at(flags + 14, 2)]
           except == [e_machine |-> Elfs!Swap(Elfs!Swap(h.e_machine)),
                      e_shoff |-> Elfs!Swap(Elfs!Swap(h.e_phoff))]
           room == <<2, 2, 4, 8, 8, 8, 4, 2, 2, 2, 2, 2, 2>>
           width == <<2, 2, 4, Pointer, Pointer, Pointer, 4, 2, 2, 2, 2, 2, 2>>
<1>1. Elfs!ParseELF_HEADER = Elfs!Swapped(h, except)  BY DEF Elfs!ParseELF_HEADER, Elfs!PTR
<1>2. \A i \in 1 .. 13 : Elfs!Width(F[i]) = width[i] /\ Room(F[i]) = room[i]
  BY DEF Elfs!HeaderFields, Elfs!Width, Room, Pointer, Elfs!Pointers, Elfs!Words
<1>3. AddUp(p, F, 13, 16)
  <2>1. \A i \in 1 .. 13 : p[i] = IF i = 1 THEN 16 ELSE p[i - 1] + width[i - 1]
    BY DEF HeaderPlaces, Pointer
  <2>2. \A i \in 1 .. 13 : i = 1 \/ i - 1 \in 1 .. 13  OBVIOUS
  <2> HIDE DEF F, p, width
  <2> QED  BY <1>2, <2>1, <2>2 DEF AddUp
<1>4. \A i \in 1 .. 13 : F[i] \in DOMAIN h  BY DEF Elfs!HeaderFields
<1>5. \A i \in 1 .. 13 : h[F[i]] = at(p[i], room[i])
  <2> HIDE DEF at
  <2> QED  BY DEF Elfs!HeaderFields, HeaderPlaces
<1>6. DOMAIN except = {"e_machine", "e_shoff"}  OBVIOUS
<1>7. Elfs!Mismatch => {"e_machine", "e_shoff"} \subseteq Elfs!Misread  BY DEF Elfs!Misread
<1>8. DOMAIN F = 1 .. 13  BY DEF Elfs!HeaderFields
<1> HIDE DEF F, p, h, except, room
<1>9. Taken(h, except, p, F, 13, base)
  BY <1>2, <1>4, <1>5, <1>6, <1>7 DEF Taken
<1>10. Elfs!Agree(Elfs!Swapped(h, except), F, base, 16)  BY <1>3, <1>8, <1>9, TableRead
<1> QED  BY <1>1, <1>10 DEF F

(* The widths of the fields of a program and of a section, added up from    *)
(* any start.                                                               *)
Behind0(places, start0, n) == [i \in 1 .. n |-> start0 + places[i]]

LEMMA ProgramSum ==
    ASSUME NEW start0 \in Int
    PROVE  AddUp(Behind0(ProgramPlaces, start0, 8), Elfs!ProgramFields, 8, start0)
<1> DEFINE F == Elfs!ProgramFields
           q == ProgramPlaces
           p == Behind0(ProgramPlaces, start0, 8)
           width == IF Elfs!Class64 THEN <<4, 4, 8, 8, 8, 8, 8, 8>>
                    ELSE <<4, 4, 4, 4, 4, 4, 4, 4>>
<1>1. \A i \in 1 .. 8 : Elfs!Width(F[i]) = width[i]
  BY DEF Elfs!ProgramFields, Elfs!Width, Elfs!Pointers, Elfs!Words
<1>2. \A i \in 1 .. 8 : q[i] \in Int /\ width[i] \in Int
                        /\ q[i] = IF i = 1 THEN 0 ELSE q[i - 1] + width[i - 1]
  BY DEF ProgramPlaces
<1>3. \A i \in 1 .. 8 : p[i] = start0 + q[i]  BY DEF Behind0
<1>4. \A i \in 1 .. 8 : i = 1 \/ i - 1 \in 1 .. 8  OBVIOUS
<1> HIDE DEF F, q, p, width
<1>5. \A i \in 1 .. 8 : p[i] = IF i = 1 THEN start0 ELSE p[i - 1] + width[i - 1]
  BY <1>2, <1>3, <1>4
<1> QED  BY <1>1, <1>4, <1>5 DEF AddUp, F, p

LEMMA SectionSum ==
    ASSUME NEW start0 \in Int
    PROVE  AddUp(Behind0(SectionPlaces, start0, 10), Elfs!SectionFields, 10, start0)
<1> DEFINE F == Elfs!SectionFields
           q == SectionPlaces
           p == Behind0(SectionPlaces, start0, 10)
           width == <<4, 4, Pointer, Pointer, Pointer, Pointer, 4, 4, Pointer, Pointer>>
<1>1. \A i \in 1 .. 10 : Elfs!Width(F[i]) = width[i]
  BY DEF Elfs!SectionFields, Elfs!Width, Elfs!Pointers, Elfs!Words, Pointer
<1>2. \A i \in 1 .. 10 : q[i] \in Int /\ width[i] \in Int
                        /\ q[i] = IF i = 1 THEN 0 ELSE q[i - 1] + width[i - 1]
  BY DEF SectionPlaces, Pointer
<1>3. \A i \in 1 .. 10 : p[i] = start0 + q[i]  BY DEF Behind0
<1>4. \A i \in 1 .. 10 : i = 1 \/ i - 1 \in 1 .. 10  OBVIOUS
<1> HIDE DEF F, q, p, width
<1>5. \A i \in 1 .. 10 : p[i] = IF i = 1 THEN start0 ELSE p[i - 1] + width[i - 1]
  BY <1>2, <1>3, <1>4
<1> QED  BY <1>1, <1>4, <1>5 DEF AddUp, F, p

(* The strides of the readers are the sums of the widths. *)
ProgramStride == IF Elfs!Class64 THEN 56 ELSE 32

SectionStride == IF Elfs!Class64 THEN 64 ELSE 40

LEMMA StrideIs ==
    ASSUME NEW n \in Nat, n > 0, NEW fields, DOMAIN fields = 1 .. n, Len(fields) = n,
           NEW p, AddUp(p, fields, n, 0)
    PROVE  Elfs!Stride(fields) = p[n] + Elfs!Width(fields[n])
<1>1. \A i \in 1 .. n : Elfs!Places(fields, 0)[i] = p[i]  BY PlacesAre
<1>2. n \in 1 .. n  OBVIOUS
<1> QED  BY <1>1, <1>2 DEF Elfs!Stride

LEMMA Strides ==
    /\ Elfs!Stride(Elfs!ProgramFields) = ProgramStride
    /\ Elfs!Stride(Elfs!SectionFields) = SectionStride
<1>1. Elfs!Stride(Elfs!ProgramFields) = ProgramStride
  <2> DEFINE F == Elfs!ProgramFields
             p == Behind0(ProgramPlaces, 0, 8)
  <2>1. DOMAIN F = 1 .. 8 /\ Len(F) = 8  BY DEF Elfs!ProgramFields
  <2>2. AddUp(p, F, 8, 0)  BY ProgramSum
  <2>3. p[8] + Elfs!Width(F[8]) = ProgramStride
    <3>1. p[8] = 0 + ProgramPlaces[8]  BY DEF Behind0
    <3>2. Elfs!Width(F[8]) = Pointer
      BY DEF Elfs!ProgramFields, Elfs!Width, Elfs!Pointers, Pointer
    <3>3. 0 + ProgramPlaces[8] + Pointer = ProgramStride
      BY DEF ProgramPlaces, Pointer, ProgramStride
    <3> QED  BY <3>1, <3>2, <3>3
  <2> HIDE DEF F, p
  <2>4. 8 \in Nat /\ 8 > 0  OBVIOUS
  <2>5. Elfs!Stride(F) = p[8] + Elfs!Width(F[8])  BY <2>1, <2>2, <2>4, StrideIs, Zenon
  <2> QED  BY <2>3, <2>5 DEF F
<1>2. Elfs!Stride(Elfs!SectionFields) = SectionStride
  <2> DEFINE F == Elfs!SectionFields
             p == Behind0(SectionPlaces, 0, 10)
  <2>1. DOMAIN F = 1 .. 10 /\ Len(F) = 10  BY DEF Elfs!SectionFields
  <2>2. AddUp(p, F, 10, 0)  BY SectionSum
  <2>3. p[10] + Elfs!Width(F[10]) = SectionStride
    <3>1. p[10] = 0 + SectionPlaces[10]  BY DEF Behind0
    <3>2. Elfs!Width(F[10]) = Pointer
      BY DEF Elfs!SectionFields, Elfs!Width, Elfs!Pointers, Pointer
    <3>3. 0 + SectionPlaces[10] + Pointer = SectionStride
      BY DEF SectionPlaces, Pointer, SectionStride
    <3> QED  BY <3>1, <3>2, <3>3
  <2> HIDE DEF F, p
  <2>4. 10 \in Nat /\ 10 > 0  OBVIOUS
  <2>5. Elfs!Stride(F) = p[10] + Elfs!Width(F[10])  BY <2>1, <2>2, <2>4, StrideIs, Zenon
  <2> QED  BY <2>3, <2>5 DEF F
<1> QED  BY <1>1, <1>2

LEMMA ProgramIs ==
    ASSUME NEW base, NEW e \in Int
    PROVE  Elfs!Agree(Elfs!ProgramHeader(base, e), Elfs!ProgramFields, base, e * ProgramStride)
<1> DEFINE F == Elfs!ProgramFields
           q == ProgramPlaces
           start0 == e * ProgramStride
           p == Behind0(ProgramPlaces, start0, 8)
           at(offset, m) == Elfs!At(base, start0 + offset, m)
           h == [p_type |-> at(0, 4), p_flags |-> at(IF Elfs!Class64 THEN 4 ELSE 24, 4),
                 p_offset |-> at(IF Elfs!Class64 THEN 8 ELSE 4, 8),
                 p_vaddr  |-> at(IF Elfs!Class64 THEN 16 ELSE 8, 8),
                 p_paddr  |-> at(IF Elfs!Class64 THEN 24 ELSE 12, 8),
                 p_filesz |-> at(IF Elfs!Class64 THEN 32 ELSE 16, 8),
                 p_memsz  |-> at(IF Elfs!Class64 THEN 40 ELSE 20, 8),
                 p_align  |-> at(IF Elfs!Class64 THEN 48 ELSE 28, 8)]
           room == IF Elfs!Class64 THEN <<4, 4, 8, 8, 8, 8, 8, 8>>
                   ELSE <<4, 8, 8, 8, 8, 8, 4, 8>>
<1>1. Elfs!ProgramHeader(base, e) = Elfs!Swapped(h, <<>>)
  BY DEF Elfs!ProgramHeader, Elfs!PTR, ProgramStride
<1>2. \A i \in 1 .. 8 : Room(F[i]) = room[i]
  BY DEF Elfs!ProgramFields, Elfs!Width, Room, Elfs!Pointers, Elfs!Words
<1>3. start0 \in Int  BY DEF ProgramStride
<1>4. \A i \in 1 .. 8 : F[i] \in DOMAIN h  BY DEF Elfs!ProgramFields
<1>5. \A i \in 1 .. 8 : h[F[i]] = at(q[i], room[i])
  <2> HIDE DEF at
  <2> QED  BY DEF Elfs!ProgramFields, ProgramPlaces
<1>6. DOMAIN F = 1 .. 8  BY DEF Elfs!ProgramFields
<1>7. \A i \in 1 .. 8 : F[i] \notin DOMAIN <<>>  BY DEF Elfs!ProgramFields
<1>8. \A i \in 1 .. 8 : h[F[i]] = Elfs!At(base, p[i], room[i])
  <2> HIDE DEF h, F, q, start0, room
  <2> QED  BY <1>5 DEF Behind0, q
<1> HIDE DEF start0
<1>9. AddUp(p, F, 8, start0)  BY <1>3, ProgramSum
<1> HIDE DEF F, p, h, room
<1>10. Taken(h, <<>>, p, F, 8, base)
  BY <1>2, <1>4, <1>7, <1>8 DEF Taken
<1>11. Elfs!Agree(Elfs!Swapped(h, <<>>), F, base, start0)  BY <1>6, <1>9, <1>10, TableRead
<1> QED  BY <1>1, <1>11 DEF F, start0

(* In the class of 32 bits only the first two fields are read right. *)
LEMMA SectionIs ==
    ASSUME NEW base, NEW e \in Int
    PROVE  Elfs!Agree(Elfs!SectionHeader(base, e), Elfs!SectionFields, base, e * SectionStride)
<1> DEFINE F == Elfs!SectionFields
           q == SectionPlaces
           start0 == e * SectionStride
           p == Behind0(SectionPlaces, start0, 10)
           at(offset, m) == Elfs!At(base, start0 + offset, m)
           h == [sh_name |-> at(0, 4), sh_type |-> at(4, 4),
                 sh_flags |-> at(8, 8), sh_addr |-> at(16, 8),
                 sh_offset |-> at(24, 8), sh_size |-> at(32, 8),
                 sh_link |-> at(40, 4), sh_info |-> at(44, 4),
                 sh_addralign |-> at(48, 8), sh_entsize |-> at(56, 8)]
           except == [sh_offset |-> Elfs!Swap(Elfs!Swap(h.sh_flags))]
           room == <<4, 4, 8, 8, 8, 8, 4, 4, 8, 8>>
<1>1. Elfs!SectionHeader(base, e) = Elfs!Swapped(h, except)
  BY DEF Elfs!SectionHeader, Elfs!PTR, SectionStride
<1>2. \A i \in 1 .. 10 : Room(F[i]) = room[i]
  BY DEF Elfs!SectionFields, Elfs!Width, Room, Elfs!Pointers, Elfs!Words
<1>3. start0 \in Int  BY DEF SectionStride
<1>4. \A i \in 1 .. 10 : F[i] \in DOMAIN h  BY DEF Elfs!SectionFields
<1>5. \A i \in 1 .. 10 : h[F[i]] = at(q[i], room[i]) \/ (~ Elfs!Class64 /\ i > 2)
  <2> HIDE DEF at
  <2> QED  BY DEF Elfs!SectionFields, SectionPlaces
<1>6. ~ Elfs!Class64 => \A i \in 3 .. 10 : F[i] \in Elfs!Misread
  BY DEF Elfs!SectionFields, Elfs!Misread, Elfs!Pointers
<1>7. DOMAIN except = {"sh_offset"} /\ (Elfs!Mismatch => "sh_offset" \in Elfs!Misread)
  BY DEF Elfs!Misread
<1>8. DOMAIN F = 1 .. 10  BY DEF Elfs!SectionFields
<1>9. \A i \in 1 .. 10 : h[F[i]] = Elfs!At(base, p[i], room[i]) \/ (~ Elfs!Class64 /\ i > 2)
  <2> HIDE DEF h, F, q, start0, room
  <2> QED  BY <1>5 DEF Behind0, q
<1> HIDE DEF start0
<1>10. AddUp(p, F, 10, start0)  BY <1>3, SectionSum
<1> HIDE DEF F, p, h, except, room
<1>11. Taken(h, except, p, F, 10, base)
  <2> SUFFICES ASSUME NEW i \in 1 .. 10, F[i] \notin Elfs!Misread
               PROVE  h[F[i]] = Elfs!At(base, p[i], Room(F[i]))
    BY <1>4, <1>7 DEF Taken
  <2>1. Elfs!Class64 \/ i <= 2  BY <1>6
  <2> QED  BY <1>2, <1>9, <2>1
<1>12. Elfs!Agree(Elfs!Swapped(h, except), F, base, start0)  BY <1>8, <1>10, <1>11, TableRead
<1> QED  BY <1>1, <1>12 DEF F, start0

LEMMA ElfStarts == ASSUME Elfs!Init  PROVE ElfInv
BY DEF Elfs!Init, ElfInv

(* The class, the byte order and the number of entries stay as they are. *)
LEMMA TablesStay ==
    ASSUME UNCHANGED file
    PROVE  /\ Elfs!ParseELF_HEADER' = Elfs!ParseELF_HEADER
           /\ UNCHANGED header => Programs' = Programs /\ Sections' = Sections
<1>1. UNCHANGED <<Elfs!Class64, Elfs!Mismatch>>  BY DEF Elfs!Class64, Elfs!Mismatch
<1>2. Elfs!ParseELF_HEADER' = Elfs!ParseELF_HEADER
  BY <1>1 DEF Elfs!ParseELF_HEADER, Elfs!Swapped
<1>3. UNCHANGED header => Programs' = Programs
  BY <1>1 DEF Programs, Elfs!ProgramHeader, Elfs!Swapped
<1>4. UNCHANGED header => Sections' = Sections
  BY <1>1 DEF Sections, Elfs!SectionHeader, Elfs!Swapped
<1> QED  BY <1>2, <1>3, <1>4

LEMMA ElfRests == ASSUME ElfInv, UNCHANGED elfVars  PROVE ElfInv'
BY TablesStay DEF elfVars, ElfInv

LEMMA ElfStep == ASSUME ElfInv, Elfs!Next  PROVE ElfInv'
<1>1. CASE Elfs!Header
  BY <1>1, TablesStay DEF Elfs!Header, ElfInv
<1>2. CASE Elfs!ParseELF_PRG_HEADER
  <2>1. program_headers' = Programs  BY <1>2 DEF Elfs!ParseELF_PRG_HEADER, Programs
  <2> QED  BY <1>2, <2>1, TablesStay DEF Elfs!ParseELF_PRG_HEADER, ElfInv
<1>3. CASE Elfs!ParseELF_SCT_HEADER
  <2>1. section_headers' = Sections  BY <1>3 DEF Elfs!ParseELF_SCT_HEADER, Sections
  <2> QED  BY <1>3, <2>1, TablesStay DEF Elfs!ParseELF_SCT_HEADER, ElfInv
<1> QED  BY <1>1, <1>2, <1>3 DEF Elfs!Next

(* A table starts where the header, which is read right, says. *)
LEMMA TablesBegin ==
    ASSUME header # NULL, Elfs!Agree(header, Elfs!HeaderFields, "file", 16)
    PROVE  Elfs!Base(5) = header.e_phoff /\ Elfs!Base(6) = header.e_shoff
<1>1. /\ Elfs!HeaderFields[5] = "e_phoff" /\ Elfs!HeaderFields[6] = "e_shoff"
      /\ 5 \in DOMAIN Elfs!HeaderFields /\ 6 \in DOMAIN Elfs!HeaderFields
  BY DEF Elfs!HeaderFields
<1> QED  BY <1>1 DEF Elfs!Base, Elfs!Agree

LEMMA ElfHolds == ASSUME ElfInv  PROVE Elfs!ElfReads
<1>1. header # NULL => Elfs!Agree(header, Elfs!HeaderFields, "file", 16)
  BY HeaderIs DEF ElfInv
<1>2. program_headers # NULL =>
        \A i \in DOMAIN program_headers :
            Elfs!Agree(program_headers[i], Elfs!ProgramFields, Elfs!Base(5),
                       (i - 1) * Elfs!Stride(Elfs!ProgramFields))
  <2> SUFFICES ASSUME program_headers # NULL, NEW i \in DOMAIN program_headers
               PROVE  Elfs!Agree(program_headers[i], Elfs!ProgramFields, Elfs!Base(5),
                                 (i - 1) * Elfs!Stride(Elfs!ProgramFields))
    OBVIOUS
  <2>1. program_headers = Programs /\ header # NULL  BY DEF ElfInv
  <2>2. file.phnum \in Int  BY DEF ElfInv, Elfs!Files
  <2>3. /\ program_headers[i] = Elfs!ProgramHeader(header.e_phoff, i - 1)
        /\ i - 1 \in Int
    BY <2>1, <2>2 DEF Programs
  <2> QED  BY <1>1, <2>1, <2>3, TablesBegin, Strides, ProgramIs
<1>3. section_headers # NULL =>
        \A i \in DOMAIN section_headers :
            Elfs!Agree(section_headers[i], Elfs!SectionFields, Elfs!Base(6),
                       (i - 1) * Elfs!Stride(Elfs!SectionFields))
  <2> SUFFICES ASSUME section_headers # NULL, NEW i \in DOMAIN section_headers
               PROVE  Elfs!Agree(section_headers[i], Elfs!SectionFields, Elfs!Base(6),
                                 (i - 1) * Elfs!Stride(Elfs!SectionFields))
    OBVIOUS
  <2>1. section_headers = Sections /\ header # NULL  BY DEF ElfInv
  <2>2. file.shnum \in Int  BY DEF ElfInv, Elfs!Files
  <2>3. /\ section_headers[i] = Elfs!SectionHeader(header.e_shoff, i - 1)
        /\ i - 1 \in Int
    BY <2>1, <2>2 DEF Sections
  <2> QED  BY <1>1, <2>1, <2>3, TablesBegin, Strides, SectionIs
<1> QED  BY <1>1, <1>2, <1>3 DEF Elfs!ElfReads

-----------------------------------------------------------------------------
(***************************************************************************)
(* What a behaviour shows.                                                 *)
(***************************************************************************)
PartsInv ==
    /\ part = "array" => ArrayInv
    /\ part = "syscalls" => SyscallsInv
    /\ part = "trace" => TraceInv
    /\ part = "calendar" => TimeInv
    /\ part = "elf" => ElfInv
    /\ part = "interrupts" => HandlingInv

LEMMA PartsInvAlways == Spec => []PartsInv
<1>1. Init => PartsInv
  BY ArrayStarts, SyscallsStart, TraceStart, TimeStart, ElfStarts, HandlingStart DEF Init, PartsInv
<1>2. PartsInv /\ [Next]_vars => PartsInv'
  <2> SUFFICES ASSUME PartsInv, [Next]_vars  PROVE PartsInv'  OBVIOUS
  <2>1. CASE part = "array" /\ Arrays!Next /\ UNCHANGED part
    BY <2>1, ArrayStep DEF PartsInv
  <2>2. CASE part = "syscalls" /\ Syscalls!Next /\ UNCHANGED part
    BY <2>2, SyscallsStep DEF PartsInv
  <2>3. CASE part = "interrupts" /\ Handling!Next /\ UNCHANGED part
    BY <2>3, HandlingStep DEF PartsInv
  <2>4. CASE part = "trace" /\ Traces!Next /\ UNCHANGED part
    BY <2>4, TraceStep DEF PartsInv
  <2>5. CASE part = "calendar" /\ Calendars!Next /\ UNCHANGED part
    BY <2>5, TimeStep DEF PartsInv
  <2>6. CASE part = "elf" /\ Elfs!Next /\ UNCHANGED part
    BY <2>6, ElfStep DEF PartsInv
  <2>7. CASE UNCHANGED vars
    <3>1. UNCHANGED <<part, arrayVars, syscallVars, calendarVars, elfVars, traceVars, handlingVars>>
      BY <2>7 DEF vars
    <3>2. ArrayInv => ArrayInv'  BY <3>1 DEF arrayVars, ArrayInv, Arrays!Shortened
    <3>3. SyscallsInv => SyscallsInv'  BY <3>1 DEF syscallVars, SyscallsInv
    <3>4. HandlingInv => HandlingInv'  BY <3>1, HandlingRests
    <3>5. TraceInv => TraceInv'  BY <3>1 DEF traceVars, TraceInv, Traces!Nearest
    <3>6. TimeInv => TimeInv'  BY <3>1, TimeRests
    <3>7. ElfInv => ElfInv'  BY <3>1, ElfRests
    <3> QED  BY <3>1, <3>2, <3>3, <3>4, <3>5, <3>6, <3>7 DEF PartsInv
  <2> QED  BY <2>1, <2>2, <2>3, <2>4, <2>5, <2>6, <2>7 DEF Next
<1> QED  BY <1>1, <1>2, PTL DEF Spec

(* Tables that grow by being copied keep what was put in, for every length  *)
(* of blocks, every number of entries and every calls of array_push,        *)
(* array_insert, array_pop, array_pull (mutils/impl/array.c) and            *)
(* syscall_set (kernel/syscall.c): the block holds its entries with room    *)
(* for one more, and a system call is found as it was set last.             *)
THEOREM TablesRightAlways == Spec => []TablesRight
<1>1. PartsInv => TablesRight
  BY ArrayHolds, SyscallsHold DEF PartsInv, TablesRight
<1> QED  BY <1>1, PartsInvAlways, PTL

(* Wherever the vectors of the lines begin, behind the exceptions, and       *)
(* whichever vector system calls have, in any order of interrupts,          *)
(* exceptions and system calls: when the interrupted code goes on, its      *)
(* stack, the registers that functions keep, its interrupt flag and the     *)
(* controllers are as it left them, and only the handlers named do not      *)
(* return (arch/X86_64/interrupts/isr.asm, interrupts.c, pic.c).            *)
THEOREM LeavesNoTraceAlways == Spec => []LeavesNoTrace
<1>1. PartsInv => LeavesNoTrace
  BY HandlingHolds DEF PartsInv, LeavesNoTrace
<1> QED  BY <1>1, PartsInvAlways, PTL

(* For every table of symbols that begins with the null symbol and every     *)
(* depth of the stack, a stack trace shows each return address once, the    *)
(* innermost first, with the name of the nearest function or label at or    *)
(* below it, or that of the null symbol when there is none                  *)
(* (arch/X86_64/stack.c:15-62).                                             *)
THEOREM NearestSymbolAlways == Spec => []NearestSymbol
<1>1. PartsInv => NearestSymbol
  BY TraceHolds DEF PartsInv, NearestSymbol
<1> QED  BY <1>1, PartsInvAlways, PTL

(* For every instant from which the chip is looked at, every way in which    *)
(* the chip shows the time, and updates that come at any moment: without an *)
(* update the fields are read as they are, and seconds are counted right    *)
(* within a month, and with updates between the reads the time that is put  *)
(* together is never before the one at the end of the wait, provided that   *)
(* no register is read during an update (arch/X86_64/cmos.c:78-101).        *)
THEOREM TimeReadAlways == Spec => []TimeRead
<1>1. PartsInv => TimeRead
  BY TimeHolds DEF PartsInv, TimeRead
<1> QED  BY <1>1, PartsInvAlways, PTL

(* Of every file, of either class and byte order and with any number of     *)
(* entries in its tables, every field but those that Misread names has      *)
(* exactly its own bytes, in their order; the tables begin where the file   *)
(* says, and their entries follow without a gap                             *)
(* (mutils/elf/header.c:31-204).                                            *)
THEOREM ElfReadsAlways == Spec => []ElfReads
<1>1. PartsInv => ElfReads
  BY ElfHolds DEF PartsInv, ElfReads
<1> QED  BY <1>1, PartsInvAlways, PTL
================================================================================
