-------------------------------- MODULE MCBoot --------------------------------
(* Memory as boot loaders describe it. *)
EXTENDS Boot

Piece(size, type) == [size |-> size, type |-> type]

(* A map of pieces that lie one behind the other. *)
Map(from, pieces) ==
    LET below(i) == FoldLeft(LAMBDA sum, p : sum + p.size, from, SubSeq(pieces, 1, i - 1))
    IN  [i \in DOMAIN pieces |->
            [addr |-> below(i), len |-> pieces[i].size, type |-> pieces[i].type]]

Section(type, size) == [type |-> type, size |-> size]

(* The tables of names are small, fill the early memory, or exceed it. *)
Sections ==
    {<<>>} \cup
    {<<Section("null", 0), Section("strtab", m), Section("symtab", n), Section("strtab", 10)>> :
        m \in {100, 800}, n \in {0, 200, 500, 800}}

Load(map, mbp, sections) ==
    [mmap |-> map, mbp |-> mbp, sections |-> sections, display |-> "EGA_TEXT"]

Page(n) == n * page_size

(* The information is in low memory, in a map without it. *)
Low == Page(9)

(* A region of every size up to MaxPages pages and 3 bytes, behind a small one. *)
Sized ==
    {Load(Map(MemLimit, <<Piece(Page(31), "available"), Piece(Page(n) + 3, "reserved")>>), Low, <<>>) :
        n \in 0 .. MaxPages}

(* Low memory of several sizes, and memory behind it. *)
LowMemory ==
    {Load(Map(0, <<Piece(low, "available"), Piece(MemLimit - low, type),
                   Piece(Page(5), "available")>>), Page(2), <<>>) :
        low \in {Page(10) + 9, LM_SIZE, MemLimit - 9},
        type \in {"available", "reserved"}}
    \cup {Load(Map(0, <<Piece(MemLimit + Page(2), "available"), Piece(Page(5), "available")>>),
               Page(info), <<>>) : info \in {2, 33}}

(* A large region behind the one that has room for its table. *)
Tables ==
    {Load(Map(MemLimit, <<Piece(size, "available"), Piece(Page(300), first), Piece(Page(5), second)>>),
          MemLimit + Page(info) + 8, <<>>) :
        size \in {Page(1), Page(6) + 10},
        first \in {"available", "badram"}, second \in {"available", "acpi", "nvs", "other"},
        info \in {0, 2, 7}}

(* Large memory, the information anywhere in it, and what the others need. *)
Large ==
    {Load(Map(MemLimit, <<Piece(Page(n), "available"), Piece(Page(40), "available")>>),
          MemLimit + Page(info), <<>>) :
        n \in {31, 63, 127, 300, 1023, 2048}, info \in {0, 1, 2, 30, 62, 126, 1022, 1100}}

(* As on a PC, where a region begins at LM_SIZE; and nothing at all. *)
Computers ==
    {Load(Map(0, <<Piece(9, "available"), Piece(LM_SIZE - 9, "reserved"),
                   Piece(Page(n), "available")>>), Low, <<>>) : n \in {4, 17}}
    \cup {[Load(Map(MemLimit, <<Piece(Page(2), "available")>>), Low, <<>>) EXCEPT !.display = d] :
            d \in {"DIRECT_RGB", "none"}}
    \cup {Load(<<>>, Low, <<>>)}

(* Names and entries that use the early memory up. *)
Full ==
    {Load(Map(MemLimit, [i \in 1 .. n |-> Piece(Page(IF i = 1 THEN 63 ELSE 3 + 4 * (i % 2)),
                                                  IF i = n THEN last ELSE "available")]),
          Low, sections) :
        n \in {1, 2, 5, 17, 18, 19, 20}, last \in {"available", "reserved", "other"}, sections \in Sections}

AllLoads == Sized \cup LowMemory \cup Tables \cup Large \cup Computers \cup Full

SomeRemains == {{}, {"AVAILABLE", "READ", "WRITE", "MAPPED"}, {"READ", "BAD"}}
===============================================================================
