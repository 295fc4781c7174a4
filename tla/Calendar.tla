------------------------------- MODULE Calendar -------------------------------
(***************************************************************************)
(* The time of day that arch_time_init reads from the clock chip, one      *)
(* register after the other, while interrupts are enabled and the chip     *)
(* goes on.  The chip shows the numbers in binary or in decimal digits,    *)
(* and the hours of a day from 0 to 23 or twice from 1 to 12, as it was    *)
(* set up before; the kernel does not ask (register B) and sets neither.   *)
(* Years are read below 2040: from then on the product with the seconds    *)
(* of a year exceeds an int.                                               *)
(***************************************************************************)
EXTENDS Integers, Sequences

CONSTANTS
    Starts,             \* instants from which the chip is looked at
    MaxTicks,           \* for how many seconds
    Garbage,            \* what a register may show during an update
    YEAR_OFFSET         \* CMOS_TIME_YEAR_OFFSET

Times == [year : Nat, month : 1 .. 12, day : 1 .. 31,
          hours : 0 .. 23, minutes : 0 .. 59, seconds : 0 .. 59]

(* The chip is looked at for less than four weeks, the shortest month. *)
CalendarAssumption ==
    /\ Starts \subseteq Times
    /\ Garbage \subseteq Nat /\ YEAR_OFFSET \in Nat
    /\ MaxTicks \in Nat \ {0} /\ MaxTicks < 28 * 86400

VARIABLES
    chip,       \* the time the chip holds, and how it shows it
    updating,   \* bit 7 of the status register A
    since,      \* seconds since the start
    start,
    pc,         \* the register that is read next, or Waiting or Done
    ctime,
    waited,     \* the time when the wait was over
    begun,      \* whether an update has begun since then
    garbled     \* whether a register was read during an update

vars == <<chip, updating, since, start, pc, ctime, waited, begun, garbled>>

Waiting == 0
Done == 7
Fields == <<"seconds", "minutes", "hours", "day", "month", "year">>

Midnight(t) == [t EXCEPT !.seconds = 0, !.minutes = 0, !.hours = 0]
MonthDays(t) ==
    IF t.month = 2 THEN IF t.year % 4 = 0 THEN 29 ELSE 28
    ELSE IF t.month \in {4, 6, 9, 11} THEN 30 ELSE 31

(* The next second. *)
NextSecond(t) ==
    CASE t.seconds < 59 -> [t EXCEPT !.seconds = @ + 1]
      [] t.seconds = 59 /\ t.minutes < 59 -> [t EXCEPT !.seconds = 0, !.minutes = @ + 1]
      [] t.seconds = 59 /\ t.minutes = 59 /\ t.hours < 23 ->
            [t EXCEPT !.seconds = 0, !.minutes = 0, !.hours = @ + 1]
      [] OTHER ->
            IF t.day < MonthDays(t) THEN [Midnight(t) EXCEPT !.day = @ + 1]
            ELSE IF t.month < 12 THEN [Midnight(t) EXCEPT !.day = 1, !.month = @ + 1]
            ELSE [Midnight(t) EXCEPT !.day = 1, !.month = 1, !.year = @ + 1]

Digits(n) == IF chip.binary THEN n ELSE 16 * (n \div 10) + (n % 10)

Hour12(h) == IF h % 12 = 0 THEN 12 ELSE h % 12

Register(f) ==
    IF f = "hours" /\ ~ chip.h24
    THEN Digits(Hour12(chip.time.hours)) + (IF chip.time.hours >= 12 THEN 128 ELSE 0)
    ELSE Digits(chip.time[f])

(* The bit for the afternoon is read as twelve hours. *)
Hours(reg) == IF reg >= 128 THEN reg - 128 + 12 ELSE reg

Read(f, reg) ==
    CASE f = "hours" -> Hours(reg)
      [] f = "year"  -> reg + YEAR_OFFSET
      [] OTHER       -> reg

(* Mutant of UnixTime: the minutes are not counted in seconds. *)
UnixTimeMinutes(t) ==
    t.seconds + t.minutes + t.hours * 3600 + t.day * 86400
    + t.month * 2629800 + (t.year - 1971) * 31557600

UnixTime(t) ==
    t.seconds + t.minutes * 60 + t.hours * 3600 + t.day * 86400
    + t.month * 2629800 + (t.year - 1971) * 31557600

-----------------------------------------------------------------------------
(* The chip. *)
BeginUpdate ==
    /\ since < MaxTicks /\ ~ updating
    /\ updating' = TRUE /\ begun' = (begun \/ pc # Waiting)
    /\ UNCHANGED <<chip, since, start, pc, ctime, waited, garbled>>

Tick ==
    /\ updating
    /\ updating' = FALSE /\ since' = since + 1
    /\ chip' = [chip EXCEPT !.time = NextSecond(chip.time)]
    /\ UNCHANGED <<start, pc, ctime, waited, begun, garbled>>

(* The kernel. *)
(* Mutant of Order: the seconds are read last. *)
OrderBack == <<"year", "month", "day", "hours", "minutes", "seconds">>

Order == Fields

(* Mutant of MayRead: the status register is not looked at. *)
MayReadAlways == TRUE

MayRead == ~ updating

(* The loop on the status register leaves when no update is going on. *)
Wait ==
    /\ pc = Waiting /\ MayRead
    /\ pc' = 1 /\ waited' = chip.time
    /\ UNCHANGED <<chip, updating, since, start, ctime, begun, garbled>>

ReadRegister ==
    /\ pc \in 1 .. Len(Order)
    /\ LET f == Order[pc]
       IN  \E reg \in IF updating THEN Garbage ELSE {Register(f)} :
            ctime' = [ctime EXCEPT ![f] = Read(f, reg)]
    /\ garbled' = (garbled \/ updating)
    /\ pc' = pc + 1
    /\ UNCHANGED <<chip, updating, since, start, waited, begun>>

Instant == [time : Starts, binary : BOOLEAN, h24 : BOOLEAN]

Init ==
    /\ chip \in Instant /\ start = chip.time /\ waited = chip.time
    /\ updating \in BOOLEAN /\ since = 0 /\ pc = Waiting
    /\ ctime = [f \in {Fields[i] : i \in DOMAIN Fields} |-> 0]
    /\ begun = FALSE /\ garbled = FALSE

Next == BeginUpdate \/ Tick \/ Wait \/ ReadRegister

Spec == Init /\ [][Next]_vars

-----------------------------------------------------------------------------
(***************************************************************************)
(* If no update begins while the registers are read (the wait leaves 244   *)
(* microseconds for that), a chip that counts in binary and through the    *)
(* day is read right, and so are twelve hours but for the hour 12; and     *)
(* within a month, the time in seconds moves as the chip does              *)
(* (arch/X86_64/cmos.c:78-101).  Decimal digits agree below ten.           *)
(***************************************************************************)
FullYear(t) == [t EXCEPT !.year = @ + YEAR_OFFSET]

Agrees(f) == /\ chip.binary \/ waited[f] < 10
             /\ f = "hours" => chip.h24 \/ waited.hours % 12 # 0

ReadExactly ==
    pc = Done /\ ~ begun =>
        /\ \A i \in DOMAIN Fields : Agrees(Fields[i]) =>
                ctime[Fields[i]] = FullYear(waited)[Fields[i]]
        /\ (chip.binary /\ chip.h24 /\ waited.month = start.month) =>
                UnixTime(ctime) - UnixTime(FullYear(start)) = since

(***************************************************************************)
(* When an update comes between two of the reads, the time that is put     *)
(* together may be ahead of the chip but is never before the time at the   *)
(* end of the wait: the seconds are read first and the year last           *)
(* (arch/X86_64/cmos.c:79-86).                                             *)
(***************************************************************************)
Before(t, u) ==
    \E i \in DOMAIN Fields :
        /\ t[Fields[i]] < u[Fields[i]]
        /\ \A j \in i + 1 .. Len(Fields) : t[Fields[j]] = u[Fields[j]]

NotBehind ==
    pc = Done /\ ~ garbled /\ chip.binary /\ chip.h24 =>
        ~ Before(ctime, FullYear(waited))

TimeRead == ReadExactly /\ NotBehind
===============================================================================
