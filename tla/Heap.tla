-------------------------------- MODULE Heap --------------------------------
(***************************************************************************)
(* The kernel heap of kernel/mm.c: kmalloc and kfree over a list of        *)
(* headers, each with a list of pointers that divide its pages, and        *)
(* memstck_malloc, the stack of blocks that stands in for it before        *)
(* mm_init.  No lock guards the lists, and an interrupt handler that logs  *)
(* calls kmalloc too, so the calls are taken in steps; with Nested the     *)
(* handler may run between two steps of the interrupted call.  In the code *)
(* it may come within a step too (in the loops, and while a header or a    *)
(* pointer is being written): with Nested the model has some of the        *)
(* interleavings, enough for a counterexample; what is to hold is checked  *)
(* and proved without.                                                     *)
(* Addresses count units of which the sizes below are small multiples.     *)
(***************************************************************************)
EXTENDS FreeArea, SequencesExt

CONSTANTS
    HDR, PTR,               \* sizeof(mheader_t), sizeof(mpointer_t)
    PAGE,                   \* virt_page_size
    WORD,                   \* one more than the largest size_t
    StackStart, StackEnd,   \* _MemEnd + 64 and 0x200000
    HeapStart,              \* the address that __get_free_page maps first
    HeapEnd,                \* bound of the model: no pages behind it
    Requests,               \* what callers ask kmalloc for
    Nested                  \* whether an interrupt handler calls kmalloc

ASSUME HeapAssumption ==
    /\ {HDR, PTR, PAGE, WORD, StackStart, StackEnd, HeapStart, HeapEnd} \subseteq Nat \ {0}
    /\ HDR + PTR < PAGE
    /\ StackStart < StackEnd /\ StackEnd <= HeapStart /\ HeapStart + PAGE <= HeapEnd
    /\ HeapEnd < WORD
    /\ Requests \subseteq Nat \ {0}
    \* log_order is right up to this size, and beyond
    /\ \A b \in Requests : b + HDR + PTR <= PAGE * ORDER(MAX_ORDER)
    /\ Nested \in BOOLEAN

Contexts == IF Nested THEN {"main", "irq"} ELSE {"main"}

VARIABLES
    MMU_enabled,
    MemStack, MemStack_enable,
    headers,    \* the list from header_start: [start, size, size_max, pointers]
    brk,        \* next_free_vpage
    held,       \* <<address, bytes>> of the blocks that callers have
    pc, bytes,  \* where each context is in kmalloc, and its argument
    h, p,       \* its locals: the number of a header, the address of a pointer,
    max         \* and what findSize_max has returned

vars == <<MMU_enabled, MemStack, MemStack_enable, headers, brk, held, pc, bytes, h, p, max>>

stack  == <<MemStack, MemStack_enable>>
system == <<MMU_enabled, MemStack, MemStack_enable>>

Pointer(at, size) == [at |-> at, size |-> size]    \* size 0: allocated

Header(start, size, room) ==
    [start    |-> start, size |-> size, size_max |-> size - HDR - PTR,
     pointers |-> <<Pointer(start + HDR, room)>>]

HeaderEnd(hd) == hd.start + hd.size

(* Checks all pointers for the one with the greatest size. *)
findSize_max(ptrs) == Max({0} \cup {ptrs[i].size : i \in DOMAIN ptrs})

log_order(n) == CHOOSE o \in 0 .. n : n <= ORDER(o) /\ \A l \in 0 .. o - 1 : ORDER(l) < n

Init ==
    /\ MMU_enabled = FALSE
    /\ MemStack = StackStart
    /\ MemStack_enable = TRUE
    /\ headers = <<>>
    /\ brk = HeapStart
    /\ held = {}
    /\ pc = [c \in Contexts |-> "idle"]
    /\ bytes = [c \in Contexts |-> 0]
    /\ h = [c \in Contexts |-> 0]
    /\ p = [c \in Contexts |-> 0]
    /\ max = [c \in Contexts |-> 0]

(* mm_init, after vpage_init and ppage_init. *)
mm_init ==
    /\ ~ MMU_enabled /\ pc["main"] = "idle"
    /\ headers' = <<Header(HeapStart, PAGE, PAGE - HDR - PTR)>>
    /\ brk' = HeapStart + PAGE
    /\ MMU_enabled' = TRUE
    /\ MemStack_enable' = FALSE
    /\ UNCHANGED <<MemStack, held, pc, bytes, h, p, max>>

-----------------------------------------------------------------------------
(* The handler interrupts the kernel, and runs until it is through. *)
Runs(c) == c = "main" /\ Nested => pc["irq"] = "idle"

Goto(c, l) == pc' = [pc EXCEPT ![c] = l]

Fault(c) == Goto(c, "fault") /\ UNCHANGED <<bytes, h, p, max>>

Return(c) ==
    /\ Goto(c, "idle")
    /\ bytes' = [bytes EXCEPT ![c] = 0]
    /\ h' = [h EXCEPT ![c] = 0]
    /\ p' = [p EXCEPT ![c] = 0]
    /\ max' = [max EXCEPT ![c] = 0]

(* kmalloc(0) returns at once; interrupts come after mm_init. *)
Call(c) ==
    /\ pc[c] = "idle"
    /\ c = "irq" => MMU_enabled /\ pc["main"] # "fault"
    /\ \E b \in Requests : bytes' = [bytes EXCEPT ![c] = b]
    /\ Goto(c, "header")
    /\ UNCHANGED <<system, headers, brk, held, h, p, max>>

(* Mutant of memstck_malloc: the end of the block is not compared with 2 MB. *)
MemstckUnchecked(c) ==
    /\ pc[c] = "header" /\ ~ MMU_enabled
    /\ IF MemStack_enable /\ MemStack < StackEnd
         THEN /\ held' = held \cup {<<MemStack, bytes[c]>>}
              /\ MemStack' = MemStack + bytes[c] + 1
         ELSE UNCHANGED <<held, MemStack>>
    /\ MemStack_enable' = (MemStack_enable /\ MemStack < StackEnd)
    /\ Return(c)
    /\ UNCHANGED <<MMU_enabled, headers, brk>>

(* The byte behind a block is written, and part of no block. *)
memstck_malloc(c) ==
    /\ pc[c] = "header" /\ ~ MMU_enabled
    /\ IF MemStack_enable /\ MemStack < StackEnd /\ MemStack + bytes[c] < StackEnd
         THEN /\ held' = held \cup {<<MemStack, bytes[c]>>}
              /\ MemStack' = MemStack + bytes[c] + 1
         ELSE UNCHANGED <<held, MemStack>>
    /\ MemStack_enable' = (MemStack_enable /\ MemStack < StackEnd)
    /\ Return(c)
    /\ UNCHANGED <<MMU_enabled, headers, brk>>

(* The first header with room; hl, the last one, when there is none. *)
FindHeader(c) ==
    /\ pc[c] = "header" /\ MMU_enabled
    /\ LET fit == {i \in DOMAIN headers : headers[i].size_max >= bytes[c]}
       IN  IF fit = {} THEN Goto(c, "grow") /\ h' = [h EXCEPT ![c] = Len(headers)]
                       ELSE Goto(c, "pointer") /\ h' = [h EXCEPT ![c] = Min(fit)]
    /\ UNCHANGED <<system, headers, brk, held, bytes, p, max>>

(* Pages for a new header: a power of two that holds header, pointer, bytes. *)
PagesFor(b) == (b + HDR + PTR + PAGE - 1) \div PAGE
GrowBy(b) == PAGE * ORDER(log_order(PagesFor(b)))

(***************************************************************************)
(* hl->next becomes the new header, whatever it was.  The header's pointer *)
(* has all of h->size as its room, the header and itself included.  No     *)
(* region gives out blocks of the order MAX_ORDER.                         *)
(***************************************************************************)
Grow(c) ==
    /\ pc[c] = "grow"
    /\ PagesFor(bytes[c]) <= ORDER(MAX_ORDER - 1)
    /\ brk + GrowBy(bytes[c]) <= HeapEnd
    /\ headers' = Append(SubSeq(headers, 1, h[c]),
                         Header(brk, GrowBy(bytes[c]), GrowBy(bytes[c])))
    /\ brk' = brk + GrowBy(bytes[c])
    /\ h' = [h EXCEPT ![c] = @ + 1]
    /\ Goto(c, "pointer")
    /\ UNCHANGED <<system, held, bytes, p, max>>

(* __get_free_pages returns NULL, which hl->next becomes, and kmalloc too. *)
GrowFails(c) ==
    /\ pc[c] = "grow"
    /\ headers' = SubSeq(headers, 1, h[c])
    /\ Return(c)
    /\ UNCHANGED <<system, brk, held>>

(* The first pointer of the header with room; there must be one. *)
FindPointer(c) ==
    /\ pc[c] = "pointer"
    /\ LET ptrs == headers[h[c]].pointers
           fit  == {i \in DOMAIN ptrs : ptrs[i].size >= bytes[c]}
       IN  IF fit = {} THEN Fault(c)
           ELSE /\ p' = [p EXCEPT ![c] = ptrs[Min(fit)].at]
                /\ Goto(c, "split")
                /\ UNCHANGED <<bytes, h, max>>
    /\ UNCHANGED <<system, headers, brk, held>>

(* Where a pointer is in the list of a header. *)
IndexOf(hd, at) == CHOOSE i \in DOMAIN hd.pointers : hd.pointers[i].at = at

(* Mutant of Divide: the room of the new pointer includes itself. *)
DivideNoPtr(hd, at, b) ==
    LET i    == IndexOf(hd, at)
        left == (hd.pointers[i].size - b) % WORD
    IN  IF left <= PTR THEN hd.pointers
        ELSE InsertAt(hd.pointers, i + 1, Pointer(at + PTR + b, left))

(* Mutant of Divide: the new pointer is counted from the pointer, not the block. *)
DivideEarly(hd, at, b) ==
    LET i    == IndexOf(hd, at)
        left == (hd.pointers[i].size - b) % WORD
    IN  IF left <= PTR THEN hd.pointers
        ELSE InsertAt(hd.pointers, i + 1, Pointer(at + b, left))

(* A new pointer behind the bytes, when the remainder can hold one. *)
Divide(hd, at, b) ==
    LET i    == IndexOf(hd, at)
        left == (hd.pointers[i].size - b) % WORD
    IN  IF left <= PTR THEN hd.pointers
        ELSE InsertAt(hd.pointers, i + 1, Pointer(at + PTR + b, left - PTR))

(* p->size = 0: the pointer is allocated. *)
Allocated(hd, ptrs, at) ==
    [i \in DOMAIN ptrs |-> IF ptrs[i].at = at THEN Pointer(at, 0) ELSE ptrs[i]]

PointersInside(hd, ptrs) == \A i \in DOMAIN ptrs : ptrs[i].at + PTR <= HeaderEnd(hd)

(* A pointer that is written behind its header's pages is a fault. *)
Split(c) ==
    /\ pc[c] = "split"
    /\ LET hd   == headers[h[c]]
           ptrs == Allocated(hd, Divide(hd, p[c], bytes[c]), p[c])
       IN  IF PointersInside(hd, ptrs)
             THEN /\ headers' = [headers EXCEPT ![h[c]].pointers = ptrs]
                  /\ Goto(c, "max") /\ UNCHANGED <<bytes, h, p, max>>
             ELSE Fault(c) /\ UNCHANGED headers
    /\ UNCHANGED <<system, brk, held>>

(* findSize_max looks at the pointers, and what it returns is stored next. *)
FindMax(c) ==
    /\ pc[c] = "max" /\ Goto(c, "store")
    /\ max' = [max EXCEPT ![c] = findSize_max(headers[h[c]].pointers)]
    /\ UNCHANGED <<system, headers, brk, held, bytes, h, p>>

(* Mutant of Finish: the header keeps its size_max. *)
FinishStale(c) ==
    /\ pc[c] = "store"
    /\ held' = held \cup {<<p[c] + PTR, bytes[c]>>}
    /\ Return(c)
    /\ UNCHANGED <<system, headers, brk>>

Finish(c) ==
    /\ pc[c] = "store"
    /\ headers' = [headers EXCEPT ![h[c]].size_max = max[c]]
    /\ held' = held \cup {<<p[c] + PTR, bytes[c]>>}
    /\ Return(c)
    /\ UNCHANGED <<system, brk>>

-----------------------------------------------------------------------------
(***************************************************************************)
(* kfree.  p + sizeof(mpointer_t) counts pointers, not bytes, so the block *)
(* is never found by its own pointer.  A pointer that lies PTR * PTR in    *)
(* front of it is taken for it; p->next - address is negative then, and    *)
(* memset runs through all of memory.  Otherwise kfree changes nothing.    *)
(***************************************************************************)
Mistaken(a) ==
    \E i \in DOMAIN headers :
        /\ headers[i].start < a /\ a < HeaderEnd(headers[i])
        /\ \E j \in DOMAIN headers[i].pointers : headers[i].pointers[j].at + PTR * PTR = a

kfree(c) ==
    /\ pc[c] = "idle" /\ (c = "irq" => MMU_enabled)
    /\ \E b \in held :
         /\ held' = held \ {b}
         /\ IF MMU_enabled /\ Mistaken(b[1]) THEN Goto(c, "fault") ELSE UNCHANGED pc
    /\ UNCHANGED <<system, headers, brk, bytes, h, p, max>>

kmalloc(c) ==
    \/ memstck_malloc(c) \/ FindHeader(c) \/ Grow(c) \/ GrowFails(c)
    \/ FindPointer(c) \/ Split(c) \/ FindMax(c) \/ Finish(c)

Next ==
    \/ mm_init
    \/ \E c \in Contexts : Runs(c) /\ (Call(c) \/ kmalloc(c) \/ kfree(c))

Spec == Init /\ [][Next]_vars

-----------------------------------------------------------------------------
Cells(a, n) == a .. a + n - 1

(* The cells of a header and its pointers. *)
Bookkeeping(hd) ==
    Cells(hd.start, HDR)
    \cup UNION {Cells(hd.pointers[j].at, PTR) : j \in DOMAIN hd.pointers}

(* A block of the early stack, or one that lies in the pages of a header. *)
Inside(b) ==
    \/ b[1] < HeapStart
    \/ \E i \in DOMAIN headers :
          headers[i].start < b[1] /\ b[1] + b[2] <= HeaderEnd(headers[i])

(***************************************************************************)
(* Two blocks that lie in their headers never share a cell, and they cover *)
(* no pointer and no header: who writes to what kmalloc gave him changes   *)
(* nothing else.  (Others lie behind their pages, see RoomToTheEnd.)       *)
(***************************************************************************)
BlocksApart ==
    \A b \in held : Inside(b) =>
        /\ \A c \in held : Inside(c) /\ b # c =>
              Cells(b[1], b[2]) \cap Cells(c[1], c[2]) = {}
        /\ \A i \in DOMAIN headers : Cells(b[1], b[2]) \cap Bookkeeping(headers[i]) = {}

(***************************************************************************)
(* Splitting neither loses room nor invents it: while the last pointer of  *)
(* the first header is free, its room ends where the header's pages end    *)
(* (mm.c:34, 117-122).  In the headers that kmalloc adds it ends behind    *)
(* their pages, always by the same amount: kmalloc gives it the whole size. *)
(***************************************************************************)
RoomToTheEnd ==
    \A i \in DOMAIN headers :
        LET last == Last(headers[i].pointers)
            over == IF i = 1 THEN 0 ELSE HDR + PTR
        IN  last.size > 0 => last.at + PTR + last.size = HeaderEnd(headers[i]) + over

(***************************************************************************)
(* size_max of a header nobody is working on is the largest room in it:    *)
(* kmalloc picks the header by it and then counts on a pointer (mm.c:110). *)
(***************************************************************************)
SizeMaxExact ==
    \A i \in DOMAIN headers :
        (\A c \in Contexts : h[c] # i) =>
            headers[i].size_max = findSize_max(headers[i].pointers)

(***************************************************************************)
(* Blocks of the early stack stay below 2 MB, the part that mem_p_protect  *)
(* keeps out of the page allocator, and never reach into the heap.         *)
(***************************************************************************)
EarlyBelowEnd ==
    \A b \in held : b[1] < HeapStart => StackStart <= b[1] /\ b[1] + b[2] < StackEnd

-----------------------------------------------------------------------------
Labels == {"idle", "header", "grow", "pointer", "split", "max", "store", "fault"}

PointerType == [at : Nat, size : 0 .. WORD - 1]
HeaderType == [start : Nat, size : Nat, size_max : Nat, pointers : Seq(PointerType)]

HeapTypes ==
    /\ MMU_enabled \in BOOLEAN /\ MemStack \in Nat /\ MemStack_enable \in BOOLEAN
    /\ headers \in Seq(HeaderType) /\ brk \in Nat
    /\ held \subseteq Nat \X (Nat \ {0})
    /\ pc \in [Contexts -> Labels]
    /\ bytes \in [Contexts -> Nat] /\ h \in [Contexts -> Nat] /\ p \in [Contexts -> Nat]
    /\ max \in [Contexts -> Nat]

(* Where a call is, it has a request, a header and a pointer of that header. *)
InPlace(c) ==
    /\ ~ MMU_enabled => pc[c] \in {"idle", "header"}
    /\ pc[c] \notin {"idle", "fault"} => bytes[c] \in Requests
    /\ pc[c] \in {"idle", "header"} => h[c] = 0
    /\ pc[c] = "grow" => h[c] = Len(headers)
    /\ pc[c] \in {"pointer", "split", "max", "store"} => h[c] \in DOMAIN headers
    /\ pc[c] \in {"split", "max", "store"} =>
          \E j \in DOMAIN headers[h[c]].pointers : headers[h[c]].pointers[j].at = p[c]
    /\ pc[c] = "store" => max[c] = findSize_max(headers[h[c]].pointers)

(* The heap lies above the early stack. *)
Above ==
    /\ HeapStart <= brk /\ brk <= HeapEnd /\ StackStart <= MemStack
    /\ \A i \in DOMAIN headers : \A j \in DOMAIN headers[i].pointers :
            HeapStart <= headers[i].pointers[j].at
    /\ \A b \in held : HeapStart <= b[1] \/ (StackStart <= b[1] /\ b[1] + b[2] < StackEnd)

(* A call that found no header has changed nothing in the one it will go on with. *)
SizeMaxKept ==
    \A i \in DOMAIN headers :
        (\A c \in Contexts : h[c] = i => pc[c] = "grow") =>
            headers[i].size_max = findSize_max(headers[i].pointers)

(***************************************************************************)
(* What holds of the heap as long as no handler calls kmalloc: types, each *)
(* call with a header and a pointer that exist (mm.c:83-112), the early    *)
(* stack apart from the heap, and size_max right where no call is at work. *)
(***************************************************************************)
HeapInv == HeapTypes /\ (\A c \in Contexts : InPlace(c)) /\ Above /\ SizeMaxKept

(* By how much the room of a header's pointers runs over its end. *)
Over(i) == IF i = 1 THEN 0 ELSE HDR + PTR

(* Pointers divide the room behind the header. *)
Divided(ptrs, first, end, over) ==
    /\ ptrs # <<>> /\ ptrs[1].at = first
    /\ \A j \in DOMAIN ptrs : ptrs[j].at + PTR <= end
    /\ \A j, k \in DOMAIN ptrs : j < k => ptrs[j].at + PTR + ptrs[j].size <= ptrs[k].at
    /\ \A j \in DOMAIN ptrs : ptrs[j].size > 0 =>
          ptrs[j].at + PTR + ptrs[j].size =
              IF j = Len(ptrs) THEN end + over ELSE ptrs[j + 1].at

HeadersInOrder ==
    /\ \A i \in DOMAIN headers :
          /\ HeapStart <= headers[i].start /\ HeaderEnd(headers[i]) <= brk
          /\ Divided(headers[i].pointers, headers[i].start + HDR, HeaderEnd(headers[i]), Over(i))
    /\ \A i, k \in DOMAIN headers : i < k => HeaderEnd(headers[i]) <= headers[k].start

(* Pointer j has the block, which ends before the next pointer. *)
Owns(ptrs, j, b) ==
    /\ ptrs[j].size = 0 /\ b[1] = ptrs[j].at + PTR
    /\ \A k \in DOMAIN ptrs : j < k => b[1] + b[2] <= ptrs[k].at

Early(b) == StackStart <= b[1] /\ b[1] + b[2] < StackEnd /\ b[1] + b[2] < MemStack

HeldOwned ==
    /\ \A b \in held : Early(b) \/ \E i \in DOMAIN headers :
            \E j \in DOMAIN headers[i].pointers : Owns(headers[i].pointers, j, b)
    /\ \A b, c \in held : Early(b) /\ Early(c) /\ b # c =>
            b[1] + b[2] < c[1] \/ c[1] + c[2] < b[1]
    /\ \A b, c \in held : b[1] = c[1] => b = c

(* The call at work, of the only context there is. *)
InHand ==
    /\ pc["main"] = "grow" => h["main"] = Len(headers) /\ headers # <<>>
    /\ pc["main"] \in {"split", "max", "store"} =>
          \E j \in DOMAIN headers[h["main"]].pointers :
             LET ptrs == headers[h["main"]].pointers
             IN  /\ ptrs[j].at = p["main"]
                 /\ pc["main"] = "split" => ptrs[j].size >= bytes["main"]
                 /\ pc["main"] \in {"max", "store"} =>
                       /\ Owns(ptrs, j, <<p["main"] + PTR, bytes["main"]>>)
                       /\ \A b \in held : b[1] # p["main"] + PTR

(***************************************************************************)
(* And the shape of the heap, under the same condition: the pointers of    *)
(* each header divide its room (mm.c:117-124), headers lie one behind the  *)
(* other, and each block has an allocated pointer of its own.              *)
(***************************************************************************)
BlocksInv == MMU_enabled = (headers # <<>>) /\ HeadersInOrder /\ HeldOwned /\ InHand

=============================================================================
