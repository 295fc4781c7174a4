---------------------------------- MODULE Log ----------------------------------
(***************************************************************************)
(* The kernel's log: printk of kernel/printk.c, which puts a message       *)
(* together, prints it on the text screen and pushes an entry to the array *)
(* logs (mutils/impl/array.c).  The main line calls it, and so does the    *)
(* handler of the clock in the middle of the main line's call              *)
(* (arch/X86_64/cmos.c:115), with interrupts disabled.  The steps of the   *)
(* main line are its accesses to the screen; the handler is one step.      *)
(* Blocks of the heap are those of module Heap and not modelled here, nor  *)
(* the entries' fields: an entry is whose variable log its address is.     *)
(***************************************************************************)
EXTENDS Text, Screen

CONSTANTS
    LOGLEVEL,
    ARRAY_ALLOC_LENGTH,
    Stamp,              \* the text in front of each message
    Messages,           \* [level, str, args] of the main line's calls
    TickMessage,        \* the one of ms_update
    MaxCalls, MaxTicks, \* bounds of the model
    TickInPush          \* whether ticks come inside array_push

ASSUME LogAssumption ==
    /\ {LOGLEVEL, MaxCalls, MaxTicks} \subseteq Nat
    /\ ARRAY_ALLOC_LENGTH \in Nat \ {0}
    /\ TickInPush \in BOOLEAN

(* No text that the kernel prints has a vertical tab. *)
ASSUME MessagesAssumption ==
    {Stamp} \cup {Formatted(m.str, m.args).text : m \in Messages \cup {TickMessage}}
        \subseteq Seq(STRING \ {"VT"})

(* The main line's texts move the cursor with tabs and new lines only. *)
ASSUME PrintoutAssumption ==
    {Stamp} \cup {Formatted(m.str, m.args).text : m \in Messages}
        \subseteq Seq(STRING \ {"VT", "BS", "\r", Blank})

VARIABLES
    interrupts,     \* the processor's flag
    main,           \* the main line: its step and its local variables
    screen,
    logs,
    printed,        \* what the main line has printed while it is alone, on paper
    order,          \* who pushed to logs, in order
    calls, ticks

vars == <<interrupts, main, screen, logs, printed, order, calls, ticks>>

-----------------------------------------------------------------------------
(* The array.  stray: a value was stored behind the block arr points to.    *)

newArray == [length |-> 0, alloc_length |-> ARRAY_ALLOC_LENGTH,
             arr |-> [i \in 0 .. ARRAY_ALLOC_LENGTH - 1 |-> "unset"], stray |-> FALSE]

array_store(a, value) ==
    [a EXCEPT !.arr = IF a.length \in DOMAIN @ THEN [@ EXCEPT ![a.length] = value] ELSE @,
              !.stray = @ \/ a.length \notin DOMAIN a.arr,
              !.length = @ + 1]

(* Mutant of Capacity: the array grows one push too late. *)
CapacityLate(a) ==
    IF a.length > a.alloc_length THEN a.alloc_length + ARRAY_ALLOC_LENGTH
    ELSE IF a.length < a.alloc_length - ARRAY_ALLOC_LENGTH
         THEN a.alloc_length - ARRAY_ALLOC_LENGTH ELSE a.alloc_length

(* What array_resize makes alloc_length. *)
Capacity(a) ==
    IF a.length >= a.alloc_length THEN a.alloc_length + ARRAY_ALLOC_LENGTH
    ELSE IF a.length < a.alloc_length - ARRAY_ALLOC_LENGTH
         THEN a.alloc_length - ARRAY_ALLOC_LENGTH ELSE a.alloc_length

(* The new block of array_resize, with the values of the old one. *)
Replaced(a) ==
    [a EXCEPT !.arr = [i \in 0 .. a.alloc_length - 1 |->
                        IF i < a.length /\ i \in DOMAIN @ THEN @[i] ELSE "unset"]]

array_resize(a) ==
    IF Capacity(a) = a.alloc_length THEN a
    ELSE Replaced([a EXCEPT !.alloc_length = Capacity(a)])

array_push(a, value) == array_resize(array_store(a, value))

-----------------------------------------------------------------------------
(* Paper of any length: the position behind what was printed on it, and the *)
(* characters with their positions.                                         *)

Unused == [pos |-> 0, ink |-> {}]

OnPaper(p, c) ==
    CASE c = "\n" -> [p EXCEPT !.pos = @ + width - (@ % width)]
      [] c = "\t" -> [p EXCEPT !.pos = @ + TAB_SIZE]
      [] OTHER    -> [pos |-> p.pos + 1, ink |-> p.ink \cup {<<p.pos, c>>}]

-----------------------------------------------------------------------------
(* The main line's call of printk *)

At(pc) == main' = [main EXCEPT !.pc = pc]

Init ==
    /\ interrupts = FALSE
    /\ main = [pc |-> "start", call |-> TickMessage, lstr |-> newString, rest |-> <<>>,
               pos |-> 0, n |-> 0, for |-> "none"]
    /\ screen = [cells |-> [i \in 0 .. MAPPED - 1 |-> "?"], cursor |-> 0,
                 index |-> "low", low |-> 0, high |-> 0, reach |-> 0]
    /\ logs = newArray
    /\ printed = Unused /\ order = <<>>
    /\ calls = 0 /\ ticks = 0

(* The kernel panics, and printk is not enabled, if this is not text mode. *)
printk_init ==
    /\ main.pc = "start"
    /\ \/ screen' = clear_screen(screen) /\ At("idle")
       \/ UNCHANGED screen /\ At("halted")
    /\ UNCHANGED <<interrupts, logs, printed, order, calls, ticks>>

interrupt_enable ==
    /\ main.pc = "idle" /\ ~ interrupts
    /\ interrupts' = TRUE
    /\ UNCHANGED <<main, screen, logs, printed, order, calls, ticks>>

(* The top of arch_print's loop, for the first of the texts left. *)
Loop(rest) == IF Head(rest) = <<>> THEN "first" ELSE "load"

printk(m) ==
    /\ main.pc = "idle" /\ calls < MaxCalls
    /\ LET lstr == Formatted(m.str, m.args)
           rest == <<Stamp, lstr.text, <<"\n">>>>
       IN  main' = [main EXCEPT !.call = m, !.lstr = lstr, !.for = "sync",
                                !.rest = IF m.level <= LOGLEVEL THEN rest ELSE <<>>,
                                !.pc = IF m.level <= LOGLEVEL THEN Loop(rest) ELSE "push"]
    /\ calls' = calls + 1
    /\ UNCHANGED <<interrupts, screen, logs, printed, order, ticks>>

Char == Head(Head(main.rest))

(* cursor_pos is read ... *)
LoadCursor ==
    /\ main.pc = "load"
    /\ main' = [main EXCEPT !.pos = screen.cursor, !.pc = "move"]
    /\ UNCHANGED <<interrupts, screen, logs, printed, order, calls, ticks>>

(* ... and written, ... *)
MoveCursor ==
    /\ main.pc = "move"
    /\ screen' = Moved(screen, Target(Char, main.pos))
    /\ main' = [main EXCEPT !.pc = IF SetsCursor(Char) THEN "out"
                                   ELSE IF Printable(Char) THEN "put" ELSE "check",
                            !.n = 1,
                            !.for = IF SetsCursor(Char) THEN "char" ELSE @]
    /\ UNCHANGED <<interrupts, logs, printed, order, calls, ticks>>

(* ... before the cell is. *)
PutChar ==
    /\ main.pc = "put"
    /\ screen' = Put(screen, main.pos, Char)
    /\ At("check")
    /\ UNCHANGED <<interrupts, logs, printed, order, calls, ticks>>

(* Mutant of Behind: the position behind the last one is on the screen. *)
BehindOne(pos) == pos > Size

Behind(pos) == pos >= Size

(* scrollRep *)
CheckCursor ==
    /\ main.pc = "check"
    /\ IF Behind(screen.cursor)
       THEN /\ main' = [main EXCEPT !.pc = "copy", !.n = 0]
            /\ UNCHANGED printed
       ELSE LET rest == <<Tail(Head(main.rest))>> \o Tail(main.rest)
            IN  /\ main' = [main EXCEPT !.rest = rest, !.pc = Loop(rest), !.for = "sync"]
                /\ printed' = IF ticks = 0 THEN OnPaper(printed, Char) ELSE printed
    /\ UNCHANGED <<interrupts, screen, logs, order, calls, ticks>>

(* A row of scroll's loops. *)
ScrollRow ==
    /\ main.pc = "copy"
    /\ IF main.n < height - 1
       THEN /\ screen' = CopyRow(screen, main.n)
            /\ main' = [main EXCEPT !.n = @ + 1]
       ELSE /\ screen' = BlankRow(screen)
            /\ main' = [main EXCEPT !.pc = "first", !.for = "scroll"]
    /\ UNCHANGED <<interrupts, logs, printed, order, calls, ticks>>

(* The arguments of setCursorPos are two reads of cursor_pos, in any order. *)
FirstRead ==
    /\ main.pc = "first"
    /\ main' = [main EXCEPT !.pos = screen.cursor, !.pc = "second"]
    /\ UNCHANGED <<interrupts, screen, logs, printed, order, calls, ticks>>

(* Mutant of RowsUp: scroll leaves the cursor in its row. *)
RowsUpNone(for) == 0

RowsUp(for) == IF for = "scroll" THEN 1 ELSE 0

SecondRead ==
    /\ main.pc = "second"
    /\ \E forX, forY \in {main.pos, screen.cursor} :
        /\ main.pos \in {forX, forY} /\ screen.cursor \in {forX, forY}
        /\ screen' = Moved(screen, Position(getCursorPosX(forX),
                                            getCursorPosY(forY) - RowsUp(main.for)))
    /\ main' = [main EXCEPT !.pc = "out", !.n = 1]
    /\ UNCHANGED <<interrupts, logs, printed, order, calls, ticks>>

(* A port of setCursorPos, and where it returns to. *)
OutCursor ==
    /\ main.pc = "out"
    /\ screen' = Out(screen, main.n)
    /\ IF main.n < 4 THEN main' = [main EXCEPT !.n = @ + 1]
       ELSE IF main.for # "sync" THEN At("check")
       ELSE LET rest == Tail(main.rest)
            IN  main' = [main EXCEPT !.rest = rest,
                                     !.pc = IF rest = <<>> THEN "push" ELSE Loop(rest)]
    /\ UNCHANGED <<interrupts, logs, printed, order, calls, ticks>>

(* array_push stores; what is stored is the address of the variable log. *)
PushEntry ==
    /\ main.pc = "push"
    /\ logs' = array_store(logs, "main")
    /\ order' = Append(order, "main")
    /\ At("resize")
    /\ UNCHANGED <<interrupts, screen, printed, calls, ticks>>

ResizeLogs ==
    /\ main.pc = "resize"
    /\ logs' = [logs EXCEPT !.alloc_length = Capacity(logs)]
    /\ At(IF Capacity(logs) = logs.alloc_length THEN "idle" ELSE "replace")
    /\ UNCHANGED <<interrupts, screen, printed, order, calls, ticks>>

ReplaceLogs ==
    /\ main.pc = "replace"
    /\ logs' = Replaced(logs)
    /\ At("idle")
    /\ UNCHANGED <<interrupts, screen, printed, order, calls, ticks>>

Main ==
    \/ LoadCursor \/ MoveCursor \/ PutChar \/ CheckCursor \/ ScrollRow
    \/ FirstRead \/ SecondRead \/ OutCursor
    \/ PushEntry \/ ResizeLogs \/ ReplaceLogs

-----------------------------------------------------------------------------
(* The handler's call, with interrupts disabled, and as a whole. *)

InPush == main.pc \in {"resize", "replace"}

Tick ==
    /\ interrupts /\ ticks < MaxTicks
    /\ TickInPush \/ ~ InPush
    /\ LET lstr == Formatted(TickMessage.str, TickMessage.args)
       IN  screen' = IF TickMessage.level <= LOGLEVEL
                     THEN arch_print(arch_print(arch_print(screen, Stamp), lstr.text), <<"\n">>)
                     ELSE screen
    /\ logs' = array_push(logs, "irq")
    /\ order' = Append(order, "irq")
    /\ ticks' = ticks + 1
    /\ UNCHANGED <<interrupts, main, printed, calls>>

Next ==
    \/ printk_init \/ interrupt_enable \/ Main \/ Tick
    \/ \E m \in Messages : printk(m)

Spec == Init /\ [][Next]_vars

(* The main line goes on: each tick takes it a while, but ends. *)
FairSpec == Spec /\ WF_vars(Main)

-----------------------------------------------------------------------------
(* No call of arch_print is under way. *)
Resting == main.pc \in {"idle", "push", "resize", "replace"}

(***************************************************************************)
(* Wherever ticks come, a cell is stored to that is on the screen or so    *)
(* little behind it that the pages mapped for it have it                   *)
(* (arch/X86_64/printk.c:92, 135): the row that a character or a tab goes  *)
(* beyond before the check.                                                *)
(***************************************************************************)
StoresNearScreen == screen.reach <= Size + TAB_SIZE

(***************************************************************************)
(* Between calls of arch_print the cursor is on the screen, and the        *)
(* display shows it there: a tick between two writes to the ports turns    *)
(* neither byte into one of an older position (arch/X86_64/printk.c:58-66).*)
(***************************************************************************)
CursorShown ==
    Resting => /\ screen.cursor < Size
               /\ screen.high * BYTE + screen.low = screen.cursor

(***************************************************************************)
(* As long as the main line prints alone, the screen has the last rows of  *)
(* all it printed, as it would stand on paper of any length: no row is     *)
(* lost, doubled or moved by scroll (arch/X86_64/printk.c:67-75).          *)
(***************************************************************************)
ScreenShowsTail ==
    Resting /\ ticks = 0 =>
        LET top == Max({0, printed.pos \div width - (height - 1)}) * width
        IN  /\ screen.cursor = printed.pos - top
            /\ \A i \in 0 .. Size - 1 :
                LET ink == {q[2] : q \in {r \in printed.ink : r[1] = top + i}}
                IN  IF ink = {} THEN screen.cells[i] = Blank ELSE ink = {screen.cells[i]}

(***************************************************************************)
(* A message is its format with each conversion replaced by the argument   *)
(* that belongs to it, numbers as numerals without leading zeros, and it   *)
(* was put together within the room of its string (kernel/printk.c:41-90,  *)
(* mutils/impl/string.c:8).                                                *)
(***************************************************************************)
Numeral(n, base, digits) ==
    LET last == CHOOSE k \in 0 .. n : base ^ (k + 1) > n /\ (k = 0 \/ base ^ k <= n)
    IN  [i \in 1 .. last + 1 |-> digits[((n \div base ^ (last + 1 - i)) % base) + 1]]

(* The parts of a format, the arguments of the conversions, and the text. *)
Conversions(str) ==    \* where a % begins a conversion
    {i \in 1 .. Len(str) - 1 :
        /\ str[i] = "%"
        /\ Cardinality({j \in 1 .. i : \A k \in j .. i : str[k] = "%"}) % 2 = 1}

Meant(m) ==
    LET str == m.str
        starts == Conversions(str)
        taking == {i \in starts : str[i + 1] \in TakesArgument}
        arg(i) == m.args[Cardinality({j \in taking : j <= i})]
        meant(i) ==
            IF i \in starts
            THEN CASE str[i + 1] \in {"d", "i", "u"} -> Numeral(arg(i) % UINT, 10, Letters)
                   [] str[i + 1] = "x" -> Numeral(arg(i) % UINT, 16, letters)
                   [] str[i + 1] = "X" -> Numeral(arg(i) % UINT, 16, Letters)
                   [] str[i + 1] = "s" -> arg(i)
                   [] str[i + 1] = "o" -> <<>>
                   [] OTHER -> <<str[i + 1]>>
            ELSE IF i - 1 \in starts \/ (i = Len(str) /\ str[i] = "%") THEN <<>>
            ELSE <<str[i]>>
    IN  FlattenSeq([i \in 1 .. Len(str) |-> meant(i)])

MessageRight ==
    main.pc \notin {"start", "halted", "idle"} =>
        /\ main.lstr.text = Meant(main.call)
        /\ main.lstr.fits

(***************************************************************************)
(* The log has an entry for every call that pushed one, in their order,    *)
(* and none was stored behind the array's block, wherever ticks come but   *)
(* inside array_push (mutils/impl/array.c:27).                             *)
(***************************************************************************)
LogKept ==
    /\ ~ logs.stray
    /\ logs.length = Len(order)
    /\ ~ InPush => /\ logs.length < logs.alloc_length
                   /\ DOMAIN logs.arr = 0 .. logs.alloc_length - 1
                   /\ \A i \in 1 .. Len(order) : logs.arr[i - 1] = order[i]

(* A call of printk ends, whatever ticks do to the cursor: scrollRep is not *)
(* repeated for ever (arch/X86_64/printk.c:119-123).                        *)
PrintkReturns == (main.pc = "load") ~> (main.pc = "idle")
===============================================================================
