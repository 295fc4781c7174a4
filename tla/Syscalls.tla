------------------------------- MODULE Syscalls -------------------------------
(***************************************************************************)
(* The table of system calls, kernel/syscall.c: a block of pointers to     *)
(* entries, which syscall_set replaces by a longer one for a new number.   *)
(***************************************************************************)
EXTENDS Integers, Sequences, SequencesExt

CONSTANTS
    Ids, Functions,
    SYSCALL_SYC, sc_fnc,
    NULL

SyscallsAssumption ==
    SYSCALL_SYC \in Ids /\ sc_fnc \in Functions /\ NULL \notin Functions

VARIABLES
    syscall_VT,         \* the entries, in the order of the pointers to them
    syscall_VT_length,
    last                \* the function that was set last for each number

vars == <<syscall_VT, syscall_VT_length, last>>

(* Mutant of syscall_find_index: the first entry is not looked at. *)
FindIndexFromOne(id) ==
    SelectInSeq(SubSeq(syscall_VT, 2, syscall_VT_length), LAMBDA e : e.id = id)

(* The position of the entry, 0 if there is none. *)
syscall_find_index(id) ==
    SelectInSeq(SubSeq(syscall_VT, 1, syscall_VT_length), LAMBDA e : e.id = id)

syscall_set(id, function) ==
    LET index == syscall_find_index(id)
    IN  /\ IF index = 0
           THEN /\ syscall_VT' = Append(SubSeq(syscall_VT, 1, syscall_VT_length),
                                        [id |-> id, function |-> function])
                /\ syscall_VT_length' = syscall_VT_length + 1
           ELSE /\ syscall_VT' = [syscall_VT EXCEPT ![index].function = function]
                /\ UNCHANGED syscall_VT_length
        /\ last' = [last EXCEPT ![id] = function]

Init ==
    /\ syscall_VT = <<>> /\ syscall_VT_length = 0
    /\ last = [id \in Ids |-> NULL]

syscall_init == syscall_VT_length = 0 /\ syscall_set(SYSCALL_SYC, sc_fnc)

Later == syscall_VT_length > 0 /\ \E id \in Ids, f \in Functions : syscall_set(id, f)

Next == syscall_init \/ Later

Spec == Init /\ [][Next]_vars

-----------------------------------------------------------------------------
(***************************************************************************)
(* However often functions are set and replaced, the table has one entry   *)
(* for each number that was set, with the function that was set last:      *)
(* the copying of the table (kernel/syscall.c:43-53) loses none.           *)
(***************************************************************************)
SyscallsResolve ==
    /\ syscall_VT_length = Len(syscall_VT)
    /\ \A i, j \in 1 .. syscall_VT_length :
            syscall_VT[i].id = syscall_VT[j].id => i = j
    /\ \A id \in Ids :
        LET index == syscall_find_index(id)
        IN  last[id] = IF index = 0 THEN NULL ELSE syscall_VT[index].function
===============================================================================
