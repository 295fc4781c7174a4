-------------------------------- MODULE Array --------------------------------
(***************************************************************************)
(* The growing array of mutils/impl/array.c, in which printk keeps its     *)
(* messages: a block from kmalloc that array_resize replaces by a longer   *)
(* or a shorter one after every change.  Next to it is the sequence that   *)
(* the array stands for, with what the last call should return.            *)
(***************************************************************************)
EXTENDS Integers, Sequences, SequencesExt

CONSTANTS
    ARRAY_ALLOC_LENGTH,
    Values,
    Junk,           \* what a new block holds, or the memory behind one
    MaxEntries      \* the longest array that is looked at

ArrayAssumption ==
    /\ ARRAY_ALLOC_LENGTH \in Nat \ {0} /\ MaxEntries \in Nat
    /\ Junk \notin Values /\ 0 \notin Values

VARIABLES
    arr,            \* the block, from index 0
    length, alloc_length,
    entries,        \* what the array stands for
    answer, wanted  \* what the last call returned, and should have

vars == <<arr, length, alloc_length, entries, answer, wanted>>

Block(n) == [i \in 0 .. n - 1 |-> Junk]

(* memcpy of the first n entries; of an array that is read past its end. *)
Entry(a, i) == IF i \in DOMAIN a THEN a[i] ELSE Junk
memcpy(to, from, n) == [i \in DOMAIN to |-> IF i < n THEN Entry(from, i) ELSE to[i]]

(* Mutant of NewLength: the block is shortened an entry too early. *)
NewLengthEarly(len, alloc) ==
    IF len >= alloc THEN alloc + ARRAY_ALLOC_LENGTH
    ELSE IF len <= alloc - ARRAY_ALLOC_LENGTH THEN alloc - ARRAY_ALLOC_LENGTH
    ELSE alloc

NewLength(len, alloc) ==
    IF len >= alloc THEN alloc + ARRAY_ALLOC_LENGTH
    ELSE IF len < alloc - ARRAY_ALLOC_LENGTH THEN alloc - ARRAY_ALLOC_LENGTH
    ELSE alloc

(* Mutant of Resized: entries are left behind when the block grows. *)
ResizedShort(a, len) ==
    LET new == NewLength(len, alloc_length)
    IN  IF new = alloc_length THEN a ELSE memcpy(Block(new), a, len - 1)

(* The block after array_resize, for len entries in the block a. *)
Resized(a, len) ==
    LET new == NewLength(len, alloc_length)
    IN  IF new = alloc_length THEN a ELSE memcpy(Block(new), a, len)

array_resize(a, len) ==
    /\ length' = len /\ alloc_length' = NewLength(len, alloc_length)
    /\ arr' = Resized(a, len)

Store(a, i, value) == [a EXCEPT ![i] = value]

Returns(got, want) == answer' = got /\ wanted' = want
ReturnsNothing == Returns(0, 0)

array_push(value) ==
    /\ length < MaxEntries
    /\ array_resize(Store(arr, length, value), length + 1)
    /\ entries' = Append(entries, value) /\ ReturnsNothing

(* Mutant of Opened: the entries are moved from the front, over each other. *)
OpenedFromFront(a, index, value) ==
    [i \in DOMAIN a |-> IF i = index THEN value
                        ELSE IF i \in index + 1 .. length THEN a[index] ELSE a[i]]

(* The loop of array_insert moves the entries from the last one on. *)
Opened(a, index, value) ==
    [i \in DOMAIN a |-> IF i = index THEN value
                        ELSE IF i \in index + 1 .. length THEN a[i - 1] ELSE a[i]]

(* An insertion behind the last entry is ignored. *)
array_insert(index, value) ==
    /\ length < MaxEntries
    /\ IF index >= length THEN UNCHANGED <<arr, length, alloc_length, entries>>
       ELSE /\ array_resize(Opened(arr, index, value), length + 1)
            /\ entries' = InsertAt(entries, index + 1, value)
    /\ ReturnsNothing

(* The entry is read after the block may have been replaced.  Of an empty  *)
(* array, length would wrap around: no caller may do that.                 *)
array_pop ==
    /\ length > 0
    /\ array_resize(arr, length - 1)
    /\ entries' = Front(entries)
    /\ Returns(Entry(arr', length'), Last(entries))

Closed(a, index) ==
    [i \in DOMAIN a |-> IF i \in index .. length - 2 THEN a[i + 1] ELSE a[i]]

array_pull(index) ==
    IF index >= length
    THEN UNCHANGED <<arr, length, alloc_length, entries>> /\ ReturnsNothing
    ELSE /\ array_resize(Closed(arr, index), length - 1)
         /\ entries' = RemoveAt(entries, index + 1)
         /\ Returns(arr[index], entries[index + 1])

newArray ==
    /\ arr = Block(ARRAY_ALLOC_LENGTH) /\ alloc_length = ARRAY_ALLOC_LENGTH
    /\ length = 0

Init == newArray /\ entries = <<>> /\ answer = 0 /\ wanted = 0

Next ==
    \/ \E value \in Values : array_push(value)
    \/ \E value \in Values, index \in 0 .. MaxEntries : array_insert(index, value)
    \/ array_pop
    \/ \E index \in 0 .. MaxEntries : array_pull(index)

Spec == Init /\ [][Next]_vars

-----------------------------------------------------------------------------
(***************************************************************************)
(* Whatever calls are made, the block holds the entries in their order     *)
(* with room for one more, which array_push stores before it looks         *)
(* (mutils/impl/array.c:29), and a call returns the entry that it removes  *)
(* -- except that array_pop reads it from the new block when the block has *)
(* become shorter: that is not one of the entries that were copied.        *)
(***************************************************************************)
Shortened == length = alloc_length - 1

ArrayRight ==
    /\ length = Len(entries) /\ length < alloc_length
    /\ \A i \in 0 .. length - 1 : arr[i] = entries[i + 1]
    /\ alloc_length - length <= ARRAY_ALLOC_LENGTH
    /\ answer # wanted => answer = Junk /\ Shortened
===============================================================================
