-------------------------------- MODULE Trace --------------------------------
(***************************************************************************)
(* The stack trace of a panic, arch/X86_64/stack.c: the frames from the    *)
(* innermost one on, linked by their saved frame pointers, and for each    *)
(* return address the name TraceName finds in the table of symbols.        *)
(***************************************************************************)
EXTENDS Integers, Sequences

CONSTANTS
    Tables,         \* tables of symbols: sequences of [value, type]
    Addresses,
    MaxFrames,
    WORD,           \* one more than the largest address
    NULL

(* Tables begin with the null symbol, as every table of an ELF file does. *)
TraceAssumption ==
    /\ WORD \in Nat \ {0} /\ Addresses \subseteq 0 .. WORD - 1 /\ MaxFrames \in Nat
    /\ \A t \in Tables : t \in Seq([value : 0 .. WORD - 1, type : STRING])
    /\ \A t \in Tables : t # <<>> => t[1].value = 0

VARIABLES
    elf_sym,
    frames,         \* [rbp, rip] by address; NULL ends the chain
    stk,            \* the frame that is shown next
    shown           \* what was printed: [rip, name]

vars == <<elf_sym, frames, stk, shown>>

Named(type) == type \in {"FUNC", "NOTYPE"}

Diff(address, i) == (address - elf_sym[i].value) % WORD

(* Mutant of Closer: the names of variables are taken, too. *)
CloserAnyType(best, i, address) ==
    elf_sym[i].value <= address /\ Diff(address, i) < Diff(address, best)

Closer(best, i, address) ==
    /\ elf_sym[i].value <= address /\ Named(elf_sym[i].type)
    /\ Diff(address, i) < Diff(address, best)

(* The position of the name, 0 for func_noname.  The first symbol is the   *)
(* one to begin with, whatever it is; the loop's break at a difference of  *)
(* 0 changes nothing, as no difference is smaller.                         *)
TraceName(address) ==
    LET best[i \in 0 .. Len(elf_sym) - 1] ==
            IF i = 0 THEN 1
            ELSE IF Closer(best[i - 1], i + 1, address) THEN i + 1 ELSE best[i - 1]
    IN  IF elf_sym = <<>> THEN 0 ELSE best[Len(elf_sym) - 1]

(* The loop of PrintStackTrace. *)
PrintFrame ==
    /\ stk # NULL
    /\ shown' = Append(shown, [rip |-> frames[stk].rip, name |-> TraceName(frames[stk].rip)])
    /\ stk' = frames[stk].rbp
    /\ UNCHANGED <<elf_sym, frames>>

(* The code that starts the kernel clears rbp, so that the first function  *)
(* saves NULL; a later frame links to the one that was there before.       *)
Chain(rips) ==
    [i \in 1 .. Len(rips) |-> [rip |-> rips[i], rbp |-> IF i = 1 THEN NULL ELSE i - 1]]

Init ==
    /\ elf_sym \in Tables
    /\ \E n \in 1 .. MaxFrames : \E rips \in [1 .. n -> Addresses] :
            frames = Chain(rips) /\ stk = n
    /\ shown = <<>>

Next == PrintFrame

Spec == Init /\ [][Next]_vars

-----------------------------------------------------------------------------
(***************************************************************************)
(* Every return address is shown, the innermost first, with the name of    *)
(* the nearest function or label at or below it, if the table begins with  *)
(* the null symbol (arch/X86_64/stack.c:20-42); without such a symbol, the *)
(* name is that of the first one of the table.                             *)
(***************************************************************************)
Nearest(address, name) ==
    LET candidates == {i \in 2 .. Len(elf_sym) :
                        elf_sym[i].value <= address /\ Named(elf_sym[i].type)}
    IN  IF elf_sym = <<>> THEN name = 0
        ELSE IF \A i \in candidates : elf_sym[i].value = 0 THEN name = 1
        ELSE /\ name \in candidates
             /\ \A i \in candidates : elf_sym[i].value <= elf_sym[name].value

NearestSymbol ==
    /\ \A k \in DOMAIN shown :
        /\ shown[k].rip = frames[Len(frames) + 1 - k].rip
        /\ Nearest(shown[k].rip, shown[k].name)
    /\ stk = NULL => Len(shown) = Len(frames)
===============================================================================
