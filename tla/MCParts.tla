------------------------------- MODULE MCParts -------------------------------
(* Small instances of the parts. *)
EXTENDS Parts, Integers, Sequences

AllParts == {"array", "syscalls", "calendar", "elf", "trace", "interrupts"}

At(month, day, hours, minutes, seconds) ==
    [year |-> 22, month |-> month, day |-> day, hours |-> hours, minutes |-> minutes,
     seconds |-> seconds]

(* Instants before numbers carry over, up to all of them. *)
SomeStarts == {At(7, 1, 3, 5, 8), At(7, 9, 11, 6, 58), At(5, 8, 8, 59, 58), At(9, 9, 23, 59, 58),
               At(2, 28, 23, 59, 58), At(12, 31, 23, 59, 57)}

(* The null symbol comes first, and for some tables another symbol. *)
SomeTables ==
    LET null == [value |-> 0, type |-> "NOTYPE"]
        Symbols == [value : 0 .. 3, type : {"NOTYPE", "FUNC", "OBJECT"}]
    IN  {<<>>, <<null>>}
        \cup {<<null, s>> : s \in Symbols}
        \cup {<<null, s, t>> : s \in Symbols, t \in Symbols}
===============================================================================
