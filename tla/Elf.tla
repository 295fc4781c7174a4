--------------------------------- MODULE Elf ---------------------------------
(***************************************************************************)
(* The tables of an ELF file as mutils/elf reads them.  A byte of the file *)
(* is known by the place it was read from: a base (the file, or the value  *)
(* of the field with a table's offset) and the offset from it; a value is  *)
(* the sequence of its bytes, the least significant one first, as the      *)
(* processor takes them from memory.                                       *)
(***************************************************************************)
EXTENDS Integers, Sequences, SequencesExt

CONSTANTS
    MaxHeaders,     \* the most entries of a table
    NULL

PTR == 8            \* sizeof(uintptr_t)

VARIABLES
    file,           \* [elf, class, data, phnum, shnum]
    header, program_headers, section_headers

vars == <<file, header, program_headers, section_headers>>

At(base, offset, n) == [k \in 1 .. n |-> <<base, offset + k - 1>>]

Class64 == file.class = 2

(* The processor has the least significant byte first. *)
Mismatch == file.data = 2

(* Mutant of Swap: the bytes of each half are exchanged only. *)
SwapHalves(v) ==
    LET half == Len(v) \div 2
    IN  Reverse(SubSeq(v, 1, half)) \o Reverse(SubSeq(v, half + 1, Len(v)))

Swap(v) == Reverse(v)

(* For the other byte order, but for the fields named the value is swapped. *)
Swapped(h, except) ==
    IF Mismatch THEN [f \in DOMAIN h |-> IF f \in DOMAIN except THEN except[f] ELSE Swap(h[f])]
    ELSE h

-----------------------------------------------------------------------------
(* e_machine is swapped twice, and e_shoff gets the bytes of e_phoff, which *)
(* has been swapped before.                                                 *)
ParseELF_HEADER ==
    LET at(offset, n) == At("file", offset, n)
        flags == IF Class64 THEN 48 ELSE 36
        h == [e_type |-> at(16, 2), e_machine |-> at(18, 2), e_version |-> at(20, 4),
              e_entry |-> at(24, PTR),
              e_phoff |-> at(IF Class64 THEN 32 ELSE 28, PTR),
              e_shoff |-> at(IF Class64 THEN 40 ELSE 32, PTR),
              e_flags |-> at(flags, 4), e_ehsize |-> at(flags + 4, 2),
              e_phentsize |-> at(flags + 6, 2), e_phnum |-> at(flags + 8, 2),
              e_shentsize |-> at(flags + 10, 2), e_shnum |-> at(flags + 12, 2),
              e_shstrndx |-> at(flags + 14, 2)]
    IN  Swapped(h, [e_machine |-> Swap(Swap(h.e_machine)), e_shoff |-> Swap(Swap(h.e_phoff))])

(* Mutant of ProgramHeader: the two fields that follow the offset change places. *)
ProgramHeaderExchanged(base, i) ==
    LET entry == i * (IF Class64 THEN 56 ELSE 32)
        at(offset, n) == At(base, entry + offset, n)
    IN  Swapped([p_type |-> at(0, 4), p_flags |-> at(IF Class64 THEN 4 ELSE 24, 4),
                 p_offset |-> at(IF Class64 THEN 8 ELSE 4, PTR),
                 p_vaddr  |-> at(IF Class64 THEN 24 ELSE 12, PTR),
                 p_paddr  |-> at(IF Class64 THEN 16 ELSE 8, PTR),
                 p_filesz |-> at(IF Class64 THEN 32 ELSE 16, PTR),
                 p_memsz  |-> at(IF Class64 THEN 40 ELSE 20, PTR),
                 p_align  |-> at(IF Class64 THEN 48 ELSE 28, PTR)], <<>>)

ProgramHeader(base, i) ==
    LET entry == i * (IF Class64 THEN 56 ELSE 32)
        at(offset, n) == At(base, entry + offset, n)
    IN  Swapped([p_type |-> at(0, 4), p_flags |-> at(IF Class64 THEN 4 ELSE 24, 4),
                 p_offset |-> at(IF Class64 THEN 8 ELSE 4, PTR),
                 p_vaddr  |-> at(IF Class64 THEN 16 ELSE 8, PTR),
                 p_paddr  |-> at(IF Class64 THEN 24 ELSE 12, PTR),
                 p_filesz |-> at(IF Class64 THEN 32 ELSE 16, PTR),
                 p_memsz  |-> at(IF Class64 THEN 40 ELSE 20, PTR),
                 p_align  |-> at(IF Class64 THEN 48 ELSE 28, PTR)], <<>>)

(* Mutant of SectionHeader: the stride of the other table. *)
SectionHeaderStride(base, i) ==
    LET entry == i * (IF Class64 THEN 56 ELSE 32)
        at(offset, n) == At(base, entry + offset, n)
        link == 8 + 4 * PTR
        h == [sh_name |-> at(0, 4), sh_type |-> at(4, 4),
              sh_flags |-> at(8, PTR), sh_addr |-> at(8 + PTR, PTR),
              sh_offset |-> at(8 + 2 * PTR, PTR), sh_size |-> at(8 + 3 * PTR, PTR),
              sh_link |-> at(link, 4), sh_info |-> at(link + 4, 4),
              sh_addralign |-> at(link + 8, PTR), sh_entsize |-> at(link + 8 + PTR, PTR)]
    IN  Swapped(h, [sh_offset |-> Swap(Swap(h.sh_flags))])

(* The same places for both classes; sh_offset gets the bytes of sh_flags. *)
SectionHeader(base, i) ==
    LET entry == i * (IF Class64 THEN 64 ELSE 40)
        at(offset, n) == At(base, entry + offset, n)
        link == 8 + 4 * PTR
        h == [sh_name |-> at(0, 4), sh_type |-> at(4, 4),
              sh_flags |-> at(8, PTR), sh_addr |-> at(8 + PTR, PTR),
              sh_offset |-> at(8 + 2 * PTR, PTR), sh_size |-> at(8 + 3 * PTR, PTR),
              sh_link |-> at(link, 4), sh_info |-> at(link + 4, 4),
              sh_addralign |-> at(link + 8, PTR), sh_entsize |-> at(link + 8 + PTR, PTR)]
    IN  Swapped(h, [sh_offset |-> Swap(Swap(h.sh_flags))])

Header ==
    /\ header = NULL /\ file.elf
    /\ header' = ParseELF_HEADER
    /\ UNCHANGED <<file, program_headers, section_headers>>

(* The tables begin where the fields of the header say, and have as many   *)
(* entries as e_phnum and e_shnum, which are read right (ElfReads).        *)
ParseELF_PRG_HEADER ==
    /\ header # NULL /\ program_headers = NULL
    /\ program_headers' = [i \in 1 .. file.phnum |-> ProgramHeader(header.e_phoff, i - 1)]
    /\ UNCHANGED <<file, header, section_headers>>

ParseELF_SCT_HEADER ==
    /\ program_headers # NULL /\ section_headers = NULL
    /\ section_headers' = [i \in 1 .. file.shnum |-> SectionHeader(header.e_shoff, i - 1)]
    /\ UNCHANGED <<file, header, program_headers>>

Files == [elf : BOOLEAN, class : {1, 2}, data : {1, 2},
          phnum : 0 .. MaxHeaders, shnum : 0 .. MaxHeaders]

Init ==
    /\ file \in Files
    /\ header = NULL /\ program_headers = NULL /\ section_headers = NULL

(* ParseELF; of a file with other first bytes, it returns at once. *)
Next == Header \/ ParseELF_PRG_HEADER \/ ParseELF_SCT_HEADER

Spec == Init /\ [][Next]_vars

-----------------------------------------------------------------------------
(***************************************************************************)
(* The fields follow each other in the file as they do in the structures   *)
(* of elf.h (lines 29-90), pointers with the width of the class; in the    *)
(* 32-bit class the flags of a program are the last field but one.         *)
(***************************************************************************)
HeaderFields == <<"e_type", "e_machine", "e_version", "e_entry", "e_phoff", "e_shoff", "e_flags",
    "e_ehsize", "e_phentsize", "e_phnum", "e_shentsize", "e_shnum", "e_shstrndx">>
ProgramFields ==
    IF Class64 THEN <<"p_type", "p_flags", "p_offset", "p_vaddr", "p_paddr", "p_filesz", "p_memsz",
                      "p_align">>
    ELSE <<"p_type", "p_offset", "p_vaddr", "p_paddr", "p_filesz", "p_memsz", "p_flags", "p_align">>
SectionFields == <<"sh_name", "sh_type", "sh_flags", "sh_addr", "sh_offset", "sh_size", "sh_link",
    "sh_info", "sh_addralign", "sh_entsize">>

Words == {"e_version", "e_flags", "p_type", "p_flags", "sh_name", "sh_type", "sh_link", "sh_info"}
Pointers == {"e_entry", "e_phoff", "e_shoff", "p_offset", "p_vaddr", "p_paddr", "p_filesz",
    "p_memsz", "p_align", "sh_flags", "sh_addr", "sh_offset", "sh_size", "sh_addralign", "sh_entsize"}

Width(f) == IF f \in Pointers THEN IF Class64 THEN 8 ELSE 4 ELSE IF f \in Words THEN 4 ELSE 2

(* What is not read right: three fields of the other byte order; the        *)
(* pointers of the 32-bit class, which bring four bytes of what follows     *)
(* them; and of its sections what lies behind the pointers.                 *)
Misread ==
    (IF Mismatch THEN {"e_machine", "e_shoff", "sh_offset"} ELSE {})
    \cup (IF Class64 THEN {} ELSE Pointers \cup {"sh_link", "sh_info"})

(* Where each field is: behind the ones in front of it. *)
Places(fields, start) ==
    LET place[i \in DOMAIN fields] ==
            IF i = 1 THEN start ELSE place[i - 1] + Width(fields[i - 1])
    IN  place

(* The value of the bytes of a place, in the byte order of the file. *)
Stored(base, offset, n) ==
    LET bytes == At(base, offset, n) IN  IF Mismatch THEN Reverse(bytes) ELSE bytes

(* Each field has its own bytes: all of them, and no others. *)
Agree(h, fields, base, start) ==
    \A i \in DOMAIN fields :
        LET f == fields[i]
        IN  f \in Misread \/ h[f] = Stored(base, Places(fields, start)[i], Width(f))

(* The entries of a table follow each other without a gap. *)
Stride(fields) == LET n == Len(fields) IN  Places(fields, 0)[n] + Width(fields[n])

(* A table begins where the file says, in field i of its header; if that is *)
(* misread, wherever the value read leads.                                  *)
Base(i) ==
    LET f == HeaderFields[i]
    IN  IF f \in Misread THEN header[f] ELSE Stored("file", Places(HeaderFields, 16)[i], Width(f))

(***************************************************************************)
(* Of a file of either class and byte order, every field of the header and *)
(* of each entry of the two tables but those named in Misread has exactly  *)
(* its own bytes, from its place in the file and in their order: no byte   *)
(* of a neighbour, none missing, and no entry read with the stride of      *)
(* another (mutils/elf/header.c:31-204).                                   *)
(***************************************************************************)
ElfReads ==
    /\ header # NULL => Agree(header, HeaderFields, "file", 16)
    /\ program_headers # NULL =>
            \A i \in DOMAIN program_headers :
                Agree(program_headers[i], ProgramFields, Base(5), (i - 1) * Stride(ProgramFields))
    /\ section_headers # NULL =>
            \A i \in DOMAIN section_headers :
                Agree(section_headers[i], SectionFields, Base(6), (i - 1) * Stride(SectionFields))
===============================================================================
