------------------------------ MODULE Interrupts ------------------------------
(***************************************************************************)
(* The interrupt table and the handlers of interrupts/isr.asm, one step    *)
(* per instruction: what they do to the stack and to the registers of the  *)
(* code they interrupt, and what they tell the two controllers.  A call of *)
(* a C function is one step, after which the registers that C functions    *)
(* need not keep may hold anything.  The processor (how it enters a        *)
(* handler, and what iretq does) and the controllers (priorities, what an  *)
(* end of interrupt ends) are as the code uses them; IRQ n arrives at the  *)
(* vector the kernel asks for, IRQ_start + n.  Exceptions come from the    *)
(* code of the kernel, not from its handlers.                              *)
(***************************************************************************)
EXTENDS Integers, Sequences, FiniteSets, FiniteSetsExt

CONSTANTS
    IRQ_start,
    SyscallInts     \* values of SYSCALL_INT that kernels are built with

(* No line takes the gate of an exception, and vectors are bytes. *)
InterruptsAssumption == IRQ_start \in 31 .. 240 /\ SyscallInts \subseteq Nat

VARIABLES
    syscall_isr,
    IDT,            \* the gates that are set, by vector
    phase,          \* "off", "loaded", or "panic"
    enabled,        \* whether the code that is interrupted has interrupts on
    regs, stack, iflag,
    pc,             \* [code, at]: a handler and its next instruction
    pic1, pic2,     \* the lines in service, from 0 and from 8
    arrived,        \* which of "irq", "work" and "gpf" have come: see Kept
    fault           \* the vector whose handler returned to nowhere, or -1

vars == <<syscall_isr, IDT, phase, enabled, regs, stack, iflag, pc, pic1, pic2, arrived, fault>>

CalleeSaved == {"rbx", "rbp", "r12", "r13", "r14", "r15"}
CallerSaved == {"rax", "rdi", "rsi"}    \* rsi stands for the others
Registers == CalleeSaved \cup CallerSaved

Own(r) == <<"own", r>>
Other == <<"other", 0>>

Main == <<"main", 0>>
exc(n) == <<"exc", n>>
irq(n) == <<"irq", n>>
syscall_fn == <<"syscall", 0>>

-----------------------------------------------------------------------------
(* Handlers, as sequences of instructions. *)
push(r) == <<"push", r>>
pop(r) == <<"pop", r>>
iretq == <<"iretq">>

SOI(n) == <<push("rdi"), <<"mov", "rdi", <<"irq", n>>>>, <<"call", "IC_SOI">>, pop("rdi")>>

(* Mutant of EOI: the register is not taken back from the stack. *)
EOIUnbalanced(n) == <<push("rdi"), <<"mov", "rdi", <<"irq", n>>>>, <<"call", "IC_EOI">>>>

EOI(n) == <<push("rdi"), <<"mov", "rdi", <<"irq", n>>>>, <<"call", "IC_EOI">>, pop("rdi")>>

(* Between the two, irq_4 and irq_8 do the work (the count is in Clock). *)
Work(n) ==
    CASE n = 4 -> <<<<"call", "read_serial">>>>
      [] n = 8 -> <<<<"mov", "rax", Other>>, <<"call", "ms_update">>>>
      [] OTHER -> <<>>

(* Mutant of Popped: the registers are popped in the order they were pushed. *)
PoppedInOrder == <<pop("rbx"), pop("rbp"), pop("r12"), pop("r13"), pop("r14"), pop("r15")>>

Popped == <<pop("r15"), pop("r14"), pop("r13"), pop("r12"), pop("rbp"), pop("rbx")>>

(* Mutant of Exception: the error code of exception 13 stays on the stack. *)
ExceptionAlike(n) == <<iretq>>

Exception(n) == IF n = 13 THEN <<pop("rax"), iretq>> ELSE <<iretq>>

Code(h) ==
    CASE h[1] = "exc" -> Exception(h[2])
      [] h[1] = "irq" -> SOI(h[2]) \o Work(h[2]) \o EOI(h[2]) \o <<iretq>>
      [] OTHER        ->
            <<push("rbx"), push("rbp"), push("r12"), push("r13"), push("r14"), push("r15")>>
            \o Popped \o <<iretq>>

-----------------------------------------------------------------------------
(* The table.  An address is in three words, of which none is shared. *)
Word(h, k) == <<h, k>>

Gate(h, trap) ==
    [offset_1 |-> Word(h, 1), offset_2 |-> Word(h, 2), offset_3 |-> Word(h, 3), trap |-> trap]

Exceptions == (0 .. 14) \cup (16 .. 20) \cup {30}
Traps == {1, 3}
Lines == IRQ_start .. IRQ_start + 15

(* What the calls of idt_set leave: a later one replaces the gate of another. *)
idt_map ==
    [v \in Exceptions \cup Lines \cup {syscall_isr} |->
        IF v = syscall_isr THEN Gate(syscall_fn, FALSE)
        ELSE IF v \in Lines THEN Gate(irq(v - IRQ_start), FALSE)
        ELSE Gate(exc(v), v \in Traps)]

(* Mutant of Conflict: the vectors of the second controller are forgotten. *)
ConflictFirst == syscall_isr \in IRQ_start .. IRQ_start + 7 \/ syscall_isr <= 31

Conflict == syscall_isr \in Lines \/ syscall_isr <= 31

interrupt_init ==
    /\ phase = "off"
    /\ IF Conflict THEN phase' = "panic" /\ UNCHANGED IDT
       ELSE phase' = "loaded" /\ IDT' = idt_map
    /\ UNCHANGED <<syscall_isr, enabled, regs, stack, iflag, pc, pic1, pic2, arrived, fault>>

Setting(on) ==
    /\ phase = "loaded" /\ pc.code = Main
    /\ enabled' = on /\ iflag' = on
    /\ UNCHANGED <<syscall_isr, IDT, phase, regs, stack, pc, pic1, pic2, arrived, fault>>

interrupt_enable == Setting(TRUE)
interrupt_disable == Setting(FALSE)

-----------------------------------------------------------------------------
(* The processor enters the handler whose address the gate has. *)
ErrorCodes == {8, 10, 11, 12, 13, 14, 17, 30}

Handlers == {exc(n) : n \in Exceptions} \cup {irq(n) : n \in 0 .. 15} \cup {syscall_fn}

Entered(gate) ==
    {h \in Handlers : /\ gate.offset_1 = Word(h, 1)
                      /\ gate.offset_2 = Word(h, 2)
                      /\ gate.offset_3 = Word(h, 3)}

Enter(vector, error) ==
    /\ phase = "loaded" /\ fault = -1
    /\ LET frame == <<"frame", pc, iflag>>
       IN  stack' = (IF error THEN <<<<"error">>>> ELSE <<>>) \o <<frame>> \o stack
    /\ IF Entered(IDT[vector]) = {}
       THEN fault' = vector /\ UNCHANGED pc
       ELSE pc' = [code |-> CHOOSE h \in Entered(IDT[vector]) : TRUE, at |-> 1] /\ UNCHANGED fault
    /\ iflag' = (iflag /\ IDT[vector].trap)
    /\ UNCHANGED <<syscall_isr, IDT, phase, enabled, regs>>

Raise(n) ==
    /\ pc.code = Main
    /\ Enter(n, n \in ErrorCodes)
    /\ arrived' = IF n = 13 THEN arrived \cup {"gpf"} ELSE arrived
    /\ UNCHANGED <<pic1, pic2>>

SystemCall == pc.code = Main /\ Enter(syscall_isr, FALSE) /\ UNCHANGED <<pic1, pic2, arrived>>

(* A line with none of its priority or above in service; the lines 7 and   *)
(* 15 also come without being in service, when a request has gone.         *)
Interrupt(n, spurious) ==
    LET line == IF n < 8 THEN n ELSE 2
    IN  /\ iflag /\ \A k \in pic1 : k > line
        /\ n >= 8 => \A k \in pic2 : k > n
        /\ spurious => n \in {7, 15}
        /\ Enter(IRQ_start + n, FALSE)
        /\ pic1' = IF n = 7 /\ spurious THEN pic1 ELSE pic1 \cup {line}
        /\ pic2' = IF n < 8 \/ spurious THEN pic2 ELSE pic2 \cup {n}
        /\ arrived' = arrived \cup {"irq"} \cup (IF Work(n) = <<>> THEN {} ELSE {"work"})

-----------------------------------------------------------------------------
(* The controllers' part of the handlers. *)
First(lines) == IF lines = {} THEN {} ELSE {Min(lines)}

(* Mutant of PIC_EOI: the first line of the second controller is the first's. *)
PIC_EOIFrom9(n) ==
    /\ pic2' = IF n > 8 THEN pic2 \ First(pic2) ELSE pic2
    /\ pic1' = pic1 \ First(pic1)

PIC_EOI(n) ==
    /\ pic2' = IF n >= 8 THEN pic2 \ First(pic2) ELSE pic2
    /\ pic1' = pic1 \ First(pic1)

Bits(lines) == MapThenSumSet(LAMBDA k : 2^k, lines)

(* Whether PIC_SOI takes the interrupt for a spurious one.  The registers   *)
(* have a bit for each line, and are compared with the lines' numbers.      *)
PIC_SOI(n) == \/ n = 7 /\ Bits(pic1) # 7
              \/ n = 15 /\ Bits(pic2) # 15

Next1 == [pc EXCEPT !.at = @ + 1]

Clobbered == [r \in Registers |-> IF r \in CallerSaved THEN Other ELSE regs[r]]

(* In IC_SOI, iretq finds the return address and what lies below it. *)
CallSOI(n) ==
    IF PIC_SOI(n)
    THEN /\ fault' = IRQ_start + n /\ UNCHANGED <<regs, pc, pic2>>
         /\ pic1' = IF n = 15 THEN pic1 \ First(pic1) ELSE pic1
    ELSE regs' = Clobbered /\ pc' = Next1 /\ UNCHANGED <<pic1, pic2, fault>>

CallEOI(n) == PIC_EOI(n) /\ regs' = Clobbered /\ pc' = Next1 /\ UNCHANGED fault

Return ==
    /\ UNCHANGED <<regs, pic1, pic2>>
    /\ IF stack # <<>> /\ Head(stack)[1] = "frame"
       THEN /\ pc' = Head(stack)[2] /\ iflag' = Head(stack)[3] /\ stack' = Tail(stack)
            /\ UNCHANGED fault
       ELSE /\ fault' = CHOOSE v \in DOMAIN IDT : pc.code \in Entered(IDT[v])
            /\ UNCHANGED <<pc, iflag, stack>>

Step ==
    LET i == Code(pc.code)[pc.at]
        load(r, v) == regs' = [regs EXCEPT ![r] = v] /\ pc' = Next1 /\ UNCHANGED <<pic1, pic2, fault>>
    IN  /\ pc.code # Main /\ fault = -1
        /\ \/ i[1] = "push" /\ stack' = <<<<"saved", regs[i[2]]>>>> \o stack /\ pc' = Next1
              /\ UNCHANGED <<regs, iflag, pic1, pic2, fault>>
           \/ /\ i[1] = "pop" /\ UNCHANGED iflag /\ stack' = Tail(stack)
              /\ load(i[2], IF Head(stack)[1] = "saved" THEN Head(stack)[2] ELSE Other)
           \/ i[1] = "mov" /\ load(i[2], i[3]) /\ UNCHANGED <<stack, iflag>>
           \/ /\ i[1] = "call" /\ UNCHANGED <<stack, iflag>>
              /\ CASE i[2] = "IC_SOI" -> CallSOI(regs["rdi"][2])
                   [] i[2] = "IC_EOI" -> CallEOI(regs["rdi"][2])
                   [] OTHER -> regs' = Clobbered /\ pc' = Next1 /\ UNCHANGED <<pic1, pic2, fault>>
           \/ i[1] = "iretq" /\ Return
        /\ UNCHANGED <<syscall_isr, IDT, phase, enabled, arrived>>

Init ==
    /\ syscall_isr \in SyscallInts
    /\ IDT = <<>> /\ phase = "off" /\ enabled = FALSE
    /\ regs = [r \in Registers |-> Own(r)] /\ stack = <<>> /\ iflag = FALSE
    /\ pc = [code |-> Main, at |-> 1] /\ pic1 = {} /\ pic2 = {}
    /\ arrived = {} /\ fault = -1

Next ==
    \/ interrupt_init \/ interrupt_enable \/ interrupt_disable
    \/ \E n \in Exceptions : Raise(n)
    \/ SystemCall
    \/ \E n \in 0 .. 15, spurious \in BOOLEAN : Interrupt(n, spurious)
    \/ Step

Spec == Init /\ [][Next]_vars

-----------------------------------------------------------------------------
(***************************************************************************)
(* Whenever the interrupted code goes on, its stack is as it was, so are   *)
(* the registers that functions keep, interrupts are on or off as it had   *)
(* them, and nothing is left in service at the controllers, so that the    *)
(* next interrupt can come.  rdi is kept, too, but by the handlers that    *)
(* call more than SOI and EOI do; exceptions and system calls keep all     *)
(* registers, but for rax after exception 13.  Handlers do return, but for *)
(* those of the lines 7 and 15, and of the exceptions with an error code   *)
(* that they leave on the stack (arch/X86_64/interrupts/isr.asm:7-220).    *)
(***************************************************************************)
Kept ==
    CalleeSaved
    \cup (IF "work" \in arrived THEN {} ELSE {"rdi"})
    \cup (IF "irq" \in arrived THEN {} ELSE {"rsi"} \cup (IF "gpf" \in arrived THEN {} ELSE {"rax"}))

NotReturning == {IRQ_start + 7, IRQ_start + 15} \cup (ErrorCodes \ {13})

LeavesNoTrace ==
    /\ pc.code = Main /\ fault = -1 =>
            /\ stack = <<>> /\ pic1 = {} /\ pic2 = {} /\ iflag = enabled
            /\ \A r \in Kept : regs[r] = Own(r)
    /\ fault \in NotReturning \cup {-1}
===============================================================================
