-------------------------------- MODULE Clock --------------------------------
(***************************************************************************)
(* The clock: the main line of the kernel while it starts the real-time    *)
(* clock (arch_time_init and rtc_irq_init of arch/X86_64/cmos.c), the      *)
(* handlers of its interrupt and of the one that needs nothing             *)
(* (interrupts/isr.asm), ms_update, and PIC_SOI and PIC_EOI.               *)
(* The chip with the clock and the two interrupt controllers are modelled  *)
(* as the code uses them.  Both contexts reach the clock's registers by    *)
(* writing a number to one port and using another one, which are two steps.*)
(* Left out: the flag for NMIs in the number, and the time that is read.   *)
(***************************************************************************)
EXTENDS Integers, Sequences, FiniteSetsExt

CONSTANTS
    TICK, CORRECTION,   \* 122 microseconds, and 72 more ...
    EVERY,              \* ... every 1024 ticks
    MILLI, SECOND,      \* 1000 and 1000000 microseconds
    TimeRegs,           \* the registers with the time: six
    UNIX                \* one more than the largest unix_t

(* The chip's rate makes a second of a whole number of corrections, and a   *)
(* tick is shorter than a millisecond.                                     *)
ASSUME ClockAssumption ==
    /\ {TICK, CORRECTION, EVERY, MILLI, SECOND, UNIX} \subseteq Nat \ {0}
    /\ TICK + CORRECTION <= MILLI
    /\ SECOND % MILLI = 0
    /\ SECOND % (TICK * EVERY + CORRECTION) = 0
    /\ TimeRegs \in Seq({"seconds", "minutes", "hours", "day", "month", "year"})

VARIABLES
    interrupts,     \* the processor's flag
    main,           \* the access it is at, and the step of it
    inEn,           \* local variable of rtc_irq_init
    handler,        \* the step of the handler that interrupts it
    index,          \* the clock's register that is selected
    periodic, flag, \* whether ticks are requested, and one is pending
    requests,       \* the interrupts latched in the controllers
    in_service,     \* the interrupts not yet acknowledged
    time            \* irqCount, and ctime as far as it changes

vars == <<interrupts, main, inEn, handler, index, periodic, flag, requests,
          in_service, time>>

chip == <<periodic, flag>>
pics == <<requests, in_service>>

Time(n, us, ms, s) == [irqCount |-> n, microseconds |-> us, milliseconds |-> ms, unix_t |-> s]

Access(reg, does) == [reg |-> reg, does |-> does]

(* The accesses to registers of arch_time_init, and from First on those of  *)
(* rtc_irq_init, the first four of them with interrupts disabled.          *)
First   == Len(TimeRegs) + 2
Last    == First + 4
Guarded == First .. Last - 1

Setup == <<Access("B", "read"), Access("B", "write"),
           Access("A", "read"), Access("A", "write"), Access("C", "read")>>

AccessAt(i) ==
    IF i = 1 THEN Access("A", "poll")
    ELSE IF i < First THEN Access(TimeRegs[i - 1], "read")
    ELSE Setup[i - First + 1]

At(i, step) == [at |-> i, step |-> step]

(* Behind the i-th access. *)
After(i) ==
    IF i = Last THEN At(i, "run")
    ELSE IF i + 1 = First THEN At(i + 1, "disable")
    ELSE IF i + 1 = Last THEN At(i + 1, "enable")
    ELSE At(i + 1, "index")

Init ==    \* the start of startup's last part, with interrupts disabled
    /\ interrupts = FALSE
    /\ main = At(1, "start")
    /\ inEn = FALSE
    /\ handler = "none"
    /\ index = "A"
    /\ periodic = FALSE
    /\ flag \in BOOLEAN
    /\ requests = {}
    /\ in_service = {}
    /\ time = Time(0, 0, 0, 0)

-----------------------------------------------------------------------------
(* The clock's registers: what the second port does to the one selected. *)

(***************************************************************************)
(* Reading C takes the request back.  One that the controller has latched  *)
(* is gone, or, when the processor has been told, comes as interrupt 15.   *)
(***************************************************************************)
Read ==
    /\ flag' = (flag /\ index # "C")
    /\ \/ UNCHANGED requests
       \/ index = "C" /\ requests' = requests \ {8}
    /\ UNCHANGED <<periodic, in_service>>

(* Writing B requests ticks; a flag that is set already is one at once. *)
Write ==
    /\ periodic' = (periodic \/ index = "B")
    /\ requests' = IF flag /\ index = "B" /\ ~ periodic THEN requests \cup {8} ELSE requests
    /\ UNCHANGED <<flag, in_service>>

-----------------------------------------------------------------------------
(* The main line *)

Running == handler = "none"

(* interrupt_enable in startup *)
Start ==
    /\ Running /\ main.step = "start"
    /\ interrupts' = TRUE
    /\ main' = At(1, "index")
    /\ UNCHANGED <<inEn, handler, index, chip, pics, time>>

Select ==
    /\ Running /\ main.step = "index"
    /\ index' = AccessAt(main.at).reg
    /\ main' = At(main.at, "data")
    /\ UNCHANGED <<interrupts, inEn, handler, chip, pics, time>>

(* The poll of A is repeated while the chip updates the time. *)
Use ==
    /\ Running /\ main.step = "data"
    /\ IF AccessAt(main.at).does = "write" THEN Write ELSE Read
    /\ \/ main' = After(main.at)
       \/ AccessAt(main.at).does = "poll" /\ main' = At(main.at, "index")
    /\ UNCHANGED <<interrupts, inEn, handler, index, time>>

(* Mutant of Disable: interrupts stay as they are. *)
DisableNot ==
    /\ Running /\ main.step = "disable"
    /\ inEn' = interrupts
    /\ main' = At(main.at, "index")
    /\ UNCHANGED <<interrupts, handler, index, chip, pics, time>>

Disable ==
    /\ Running /\ main.step = "disable"
    /\ inEn' = interrupts
    /\ interrupts' = FALSE
    /\ main' = At(main.at, "index")
    /\ UNCHANGED <<handler, index, chip, pics, time>>

(* irqCount = 0, and interrupts as they were. *)
Enable ==
    /\ Running /\ main.step = "enable"
    /\ time' = Time(0, time.microseconds, time.milliseconds, time.unix_t)
    /\ interrupts' = (interrupts \/ inEn)
    /\ main' = At(main.at, "index")
    /\ UNCHANGED <<inEn, handler, index, chip, pics>>

Main == Start \/ Select \/ Use \/ Disable \/ Enable

-----------------------------------------------------------------------------
(* The chip and the controllers *)

(* A period is over; while the flag is set, further ticks are lost. *)
Period ==
    /\ ~ flag
    /\ flag' = TRUE
    /\ requests' = IF periodic THEN requests \cup {8} ELSE requests
    /\ UNCHANGED <<interrupts, main, inEn, handler, index, periodic, in_service, time>>

(* The interval timer, as firmware leaves it: interrupt 0, long after the   *)
(* handler of the last one.                                                *)
Interval ==
    /\ 0 \notin requests \cup in_service
    /\ requests' = requests \cup {0}
    /\ UNCHANGED <<interrupts, main, inEn, handler, index, chip, in_service, time>>

Deliverable(n) ==
    /\ interrupts /\ Running
    /\ n \in requests
    /\ \A m \in requests \cup in_service : m >= n    \* 0 before 2 before 8
    /\ n \notin in_service

Interrupt(n, step, serviced) ==
    /\ requests' = requests \ {n}
    /\ in_service' = in_service \cup serviced
    /\ interrupts' = FALSE    \* an interrupt gate
    /\ handler' = step
    /\ UNCHANGED <<main, inEn, index, chip, time>>

DeliverInterval == Deliverable(0) /\ Interrupt(0, "eoi0", {0})

(* By way of input 2 of the first controller. *)
DeliverTick ==
    /\ Deliverable(8) /\ 2 \notin in_service
    /\ IF periodic /\ flag THEN Interrupt(8, "tick", {2, 8})
                           ELSE Interrupt(8, "spurious", {2})

-----------------------------------------------------------------------------
(* The handlers *)

(* Mutant of ms_update: the correction comes a tick late. *)
MsUpdateLate(t) ==
    LET full  == t.irqCount > EVERY
        us    == t.microseconds + (IF full THEN CORRECTION ELSE 0) + TICK
        ms    == t.milliseconds + (IF us - t.milliseconds * MILLI >= MILLI THEN 1 ELSE 0)
        carry == ms >= SECOND \div MILLI
    IN  Time(IF full THEN 0 ELSE t.irqCount,
             IF carry THEN us - SECOND ELSE us,
             IF carry THEN ms - SECOND \div MILLI ELSE ms,
             IF carry THEN (t.unix_t + 1) % UNIX ELSE t.unix_t)

(* Mutant of ms_update: the second that is over is not counted. *)
MsUpdateNoSecond(t) ==
    LET full  == t.irqCount >= EVERY
        us    == t.microseconds + (IF full THEN CORRECTION ELSE 0) + TICK
        ms    == t.milliseconds + (IF us - t.milliseconds * MILLI >= MILLI THEN 1 ELSE 0)
        carry == ms >= SECOND \div MILLI
    IN  Time(IF full THEN 0 ELSE t.irqCount,
             IF carry THEN us - SECOND ELSE us,
             IF carry THEN ms - SECOND \div MILLI ELSE ms,
             t.unix_t)

(* ms_update, of the values of irqCount and ctime. *)
ms_update(t) ==
    LET full  == t.irqCount >= EVERY
        us    == t.microseconds + (IF full THEN CORRECTION ELSE 0) + TICK
        ms    == t.milliseconds + (IF us - t.milliseconds * MILLI >= MILLI THEN 1 ELSE 0)
        carry == ms >= SECOND \div MILLI
    IN  Time(IF full THEN 0 ELSE t.irqCount,
             IF carry THEN us - SECOND ELSE us,
             IF carry THEN ms - SECOND \div MILLI ELSE ms,
             IF carry THEN (t.unix_t + 1) % UNIX ELSE t.unix_t)

(* irq_8, up to the end of the arithmetic. *)
Tick ==
    /\ handler = "tick"
    /\ time' = ms_update(Time(time.irqCount + 1, time.microseconds,
                              time.milliseconds, time.unix_t))
    /\ handler' = "index"
    /\ UNCHANGED <<interrupts, main, inEn, index, chip, pics>>

(* printk in ms_update finds no memory (kfree gives none back). *)
TickNoMemory ==
    /\ handler = "tick"
    /\ handler' = "fault"
    /\ UNCHANGED <<interrupts, main, inEn, index, chip, pics, time>>

(* Mutant of SelectC: the register is not selected. *)
SelectNot ==
    /\ handler = "index"
    /\ handler' = "data"
    /\ UNCHANGED <<interrupts, main, inEn, index, chip, pics, time>>

(* The end of ms_update: register C, to be told of further ticks. *)
SelectC ==
    /\ handler = "index"
    /\ index' = "C"
    /\ handler' = "data"
    /\ UNCHANGED <<interrupts, main, inEn, chip, pics, time>>

ReadC ==
    /\ handler = "data"
    /\ Read
    /\ handler' = "eoi8"
    /\ UNCHANGED <<interrupts, main, inEn, index, time>>

(* A controller's command: its interrupt of the highest priority is over. *)
EndHighest(S) == IF S = {} THEN {} ELSE S \ {Min(S)}

Controller(n) == IF n = 1 THEN in_service \cap {0, 2} ELSE in_service \cap {8}

(* Mutant of PIC_EOI: the second controller alone is told of its interrupt. *)
EoiOne(irq) ==
    in_service' = IF irq >= 8 THEN EndHighest(Controller(2)) \cup Controller(1)
                              ELSE EndHighest(Controller(1)) \cup Controller(2)

PIC_EOI(irq) ==
    in_service' = EndHighest(Controller(1))
                    \cup (IF irq >= 8 THEN EndHighest(Controller(2)) ELSE Controller(2))

(* EOI and iretq *)
End(irq, step) ==
    /\ handler = step
    /\ PIC_EOI(irq)
    /\ interrupts' = TRUE
    /\ handler' = "none"
    /\ UNCHANGED <<main, inEn, index, chip, requests, time>>

EndInterval == End(0, "eoi0")
EndTick     == End(8, "eoi8")

(* PIC_SOI(15) executes iretq with its own frame on the stack. *)
Spurious ==
    /\ handler = "spurious"
    /\ in_service' = EndHighest(Controller(1)) \cup Controller(2)
    /\ handler' = "fault"
    /\ UNCHANGED <<interrupts, main, inEn, index, chip, requests, time>>

Handler == Tick \/ TickNoMemory \/ SelectC \/ ReadC \/ EndInterval \/ EndTick \/ Spurious

Next == Main \/ Handler \/ Period \/ Interval \/ DeliverInterval \/ DeliverTick

Spec == Init /\ [][Next]_vars

(***************************************************************************)
(* The processor goes on, though interrupts may keep the main line from it *)
(* for ever; periods end; and interrupt 8, which interrupt 0 can keep back *)
(* again and again, is delivered in between.                               *)
(***************************************************************************)
FairSpec ==
    /\ Spec
    /\ WF_vars(Main) /\ WF_vars(Handler)
    /\ WF_vars(Period) /\ WF_vars(DeliverInterval) /\ SF_vars(DeliverTick)

-----------------------------------------------------------------------------
TypeOK ==
    /\ interrupts \in BOOLEAN /\ inEn \in BOOLEAN /\ periodic \in BOOLEAN /\ flag \in BOOLEAN
    /\ main \in [at : 1 .. Last,
                 step : {"start", "disable", "enable", "index", "data", "run"}]
    /\ handler \in {"none", "tick", "index", "data", "eoi0", "eoi8", "spurious", "fault"}
    /\ requests \subseteq {0, 8} /\ in_service \subseteq {0, 2, 8}

(***************************************************************************)
(* Who uses the second port has selected the register it means: the        *)
(* handler never comes between the two steps of an access of the main line *)
(* to another register than its own (cmos.c:42-66).                        *)
(***************************************************************************)
RightRegister ==
    /\ Running /\ main.step = "data" => index = AccessAt(main.at).reg
    /\ handler = "data" => index = "C"

(***************************************************************************)
(* When no handler runs, both controllers know that every interrupt is     *)
(* over: none is blocked by one that was forgotten (pic.c:104-109).        *)
(***************************************************************************)
Acknowledged == Running => in_service = {}

(***************************************************************************)
(* The clock does not drift: with each correction a fixed part of a second *)
(* is over, to the microsecond; the milliseconds, of which a tick adds at  *)
(* most one, are the microseconds rounded down; and a second is carried    *)
(* over when it is over ("Rolls back to 0 after one second", time.h:8).    *)
(***************************************************************************)
ClockExact ==
    /\ \E k \in 0 .. SECOND \div (TICK * EVERY + CORRECTION) - 1 :
          time.microseconds = k * (TICK * EVERY + CORRECTION) + TICK * time.irqCount
    /\ time.irqCount \in 0 .. EVERY - 1
    /\ time.milliseconds = time.microseconds \div MILLI
    /\ time.microseconds < SECOND

Elapsed == time.unix_t * SECOND + time.microseconds

(***************************************************************************)
(* The time never goes back and never jumps: each step adds nothing, a     *)
(* tick, or a tick and the correction (cmos.c:113-130).                    *)
(***************************************************************************)
NeverBack ==
    [][(Elapsed' - Elapsed) % (UNIX * SECOND) \in {0, TICK, TICK + CORRECTION}]_vars

(***************************************************************************)
(* Once ticks are requested they go on for ever, whatever was pending when *)
(* they were requested and whichever context reads register C first:       *)
(* unless the kernel has faulted.                                          *)
(***************************************************************************)
TicksGoOn == periodic ~> handler \in {"tick", "fault"}
=============================================================================
