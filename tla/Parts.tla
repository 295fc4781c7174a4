-------------------------------- MODULE Parts --------------------------------
(***************************************************************************)
(* Parts of the kernel that do not need each other, of which a behaviour   *)
(* shows one: a container, the table of system calls, the reading of the   *)
(* time of day, the reading of ELF files, the stack trace, and the         *)
(* handlers of interrupts.                                                 *)
(***************************************************************************)
CONSTANTS
    Shown,              \* the parts to show
    NULL,
    ARRAY_ALLOC_LENGTH, Values, Junk, MaxEntries,
    Ids, Functions, SYSCALL_SYC, sc_fnc,
    Starts, MaxTicks, Garbage, YEAR_OFFSET,
    MaxHeaders,
    Tables, Addresses, MaxFrames, WORD,
    IRQ_start, SyscallInts

VARIABLES
    part,
    arr, length, alloc_length, entries, answer, wanted,
    syscall_VT, syscall_VT_length, last,
    chip, updating, since, start, next, ctime, waited, begun, garbled,
    file, header, program_headers, section_headers,
    elf_sym, frames, stk, shown,
    syscall_isr, IDT, phase, enabled, regs, stack, iflag, pc, pic1, pic2, arrived, fault

Arrays == INSTANCE Array
Syscalls == INSTANCE Syscalls
Calendars == INSTANCE Calendar WITH pc <- next
Elfs == INSTANCE Elf
Traces == INSTANCE Trace WITH NULL <- 0
Handling == INSTANCE Interrupts

ASSUME PartsAssumption ==
    Arrays!ArrayAssumption /\ Syscalls!SyscallsAssumption /\ Handling!InterruptsAssumption
    /\ Traces!TraceAssumption /\ Calendars!CalendarAssumption

arrayVars == <<arr, length, alloc_length, entries, answer, wanted>>
syscallVars == <<syscall_VT, syscall_VT_length, last>>
calendarVars == <<chip, updating, since, start, next, ctime, waited, begun, garbled>>
elfVars == <<file, header, program_headers, section_headers>>
traceVars == <<elf_sym, frames, stk, shown>>
handlingVars == <<syscall_isr, IDT, phase, enabled, regs, stack, iflag, pc, pic1, pic2, arrived, fault>>

ArrayOff == arr = NULL /\ length = NULL /\ alloc_length = NULL /\ entries = NULL
            /\ answer = NULL /\ wanted = NULL
SyscallsOff == syscall_VT = NULL /\ syscall_VT_length = NULL /\ last = NULL
CalendarOff == chip = NULL /\ updating = NULL /\ since = NULL /\ start = NULL /\ next = NULL
               /\ ctime = NULL /\ waited = NULL /\ begun = NULL /\ garbled = NULL
ElfOff == file = NULL /\ header = NULL /\ program_headers = NULL /\ section_headers = NULL
TraceOff == elf_sym = NULL /\ frames = NULL /\ stk = NULL /\ shown = NULL
HandlingOff == syscall_isr = NULL /\ IDT = NULL /\ phase = NULL /\ enabled = NULL /\ regs = NULL
               /\ stack = NULL /\ iflag = NULL /\ pc = NULL /\ pic1 = NULL /\ pic2 = NULL
               /\ arrived = NULL /\ fault = NULL

vars == <<part, arrayVars, syscallVars, calendarVars, elfVars, traceVars, handlingVars>>

Init ==
    /\ part \in Shown
    /\ IF part = "array" THEN Arrays!Init ELSE ArrayOff
    /\ IF part = "syscalls" THEN Syscalls!Init ELSE SyscallsOff
    /\ IF part = "calendar" THEN Calendars!Init ELSE CalendarOff
    /\ IF part = "elf" THEN Elfs!Init ELSE ElfOff
    /\ IF part = "trace" THEN Traces!Init ELSE TraceOff
    /\ IF part = "interrupts" THEN Handling!Init ELSE HandlingOff

Next ==
    \/ /\ part = "array" /\ Arrays!Next
       /\ UNCHANGED <<part, syscallVars, calendarVars, elfVars, traceVars, handlingVars>>
    \/ /\ part = "syscalls" /\ Syscalls!Next
       /\ UNCHANGED <<part, arrayVars, calendarVars, elfVars, traceVars, handlingVars>>
    \/ /\ part = "calendar" /\ Calendars!Next
       /\ UNCHANGED <<part, arrayVars, syscallVars, elfVars, traceVars, handlingVars>>
    \/ /\ part = "elf" /\ Elfs!Next
       /\ UNCHANGED <<part, arrayVars, syscallVars, calendarVars, traceVars, handlingVars>>
    \/ /\ part = "trace" /\ Traces!Next
       /\ UNCHANGED <<part, arrayVars, syscallVars, calendarVars, elfVars, handlingVars>>
    \/ /\ part = "interrupts" /\ Handling!Next
       /\ UNCHANGED <<part, arrayVars, syscallVars, calendarVars, elfVars, traceVars>>

Spec == Init /\ [][Next]_vars

-----------------------------------------------------------------------------
(* Tables that grow by being copied keep what was put in: the array holds its *)
(* entries (mutils/impl/array.c), system calls are found as they were set     *)
(* (kernel/syscall.c).  See Array and Syscalls.                               *)
TablesRight ==
    /\ part = "array" => Arrays!ArrayRight
    /\ part = "syscalls" => Syscalls!SyscallsResolve

(* The time of day is read right, and never behind (arch/X86_64/cmos.c:78-101): *)
(* see Calendar.                                                                *)
TimeRead == part = "calendar" => Calendars!TimeRead

(* The fields of ELF files come from their places (mutils/elf): see Elf. *)
ElfReads == part = "elf" => Elfs!ElfReads

(* A stack trace names the nearest symbols (arch/X86_64/stack.c): see Trace. *)
NearestSymbol == part = "trace" => Traces!NearestSymbol

(* Handlers leave no trace in what they interrupt (interrupts/isr.asm): see  *)
(* Interrupts.                                                               *)
LeavesNoTrace == part = "interrupts" => Handling!LeavesNoTrace
===============================================================================
