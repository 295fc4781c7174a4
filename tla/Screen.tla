-------------------------------- MODULE Screen --------------------------------
(***************************************************************************)
(* The text screen of arch/X86_64/printk.c: the display buffer, the        *)
(* position of the cursor in a variable of 16 bits, and the registers of   *)
(* the display that show it, reached by an index port and a data port.     *)
(* A screen is a record; the operators are the parts of arch_print that    *)
(* an interrupt cannot divide, and arch_print itself, for a context that   *)
(* is not interrupted.  Colours are left out, and the characters 0 and \f,  *)
(* which no text of the kernel has.                                        *)
(***************************************************************************)
EXTENDS Integers, Sequences, FiniteSetsExt, SequencesExt

CONSTANTS
    width, height,
    TAB_SIZE,
    MAPPED,     \* the characters in the four pages that arch_printk_init maps
    WORD16,     \* one more than the largest uint16_t
    BYTE        \* one more than the largest uint8_t

ASSUME ScreenAssumption ==
    /\ {width, height, TAB_SIZE, MAPPED, WORD16, BYTE} \subseteq Nat \ {0}
    /\ height > 1
    /\ width * height + TAB_SIZE <= MAPPED /\ MAPPED <= WORD16
    /\ width * height + width + TAB_SIZE <= WORD16
    /\ WORD16 = BYTE * BYTE

Size == width * height

Blank == "nul"    \* CharEntry(0)

(* reach: one more than the largest index of a cell that was stored to. *)
Put(s, i, c) ==
    [s EXCEPT !.cells = IF i < MAPPED THEN [@ EXCEPT ![i] = c] ELSE @,
              !.reach = Max({@, i + 1})]

getCursorPosX(pos) == pos % width
getCursorPosY(pos) == pos \div width

(* The 16 bits of y * width + x, where y may be -1. *)
Position(x, y) == (y * width + x) % WORD16

Moved(s, pos) == [s EXCEPT !.cursor = pos % WORD16]

(* Mutant of Out: the register of the high byte is not selected. *)
OutNoHigh(s, n) ==
    CASE n = 1 -> [s EXCEPT !.index = "low"]
      [] n = 3 -> s
      [] OTHER -> [s EXCEPT ![s.index] = s.cursor % BYTE]

(* The four writes to ports of setCursorPos; each reads cursor_pos anew. *)
Out(s, n) ==
    CASE n = 1 -> [s EXCEPT !.index = "low"]
      [] n = 2 -> [s EXCEPT ![s.index] = s.cursor % BYTE]
      [] n = 3 -> [s EXCEPT !.index = "high"]
      [] n = 4 -> [s EXCEPT ![s.index] = s.cursor \div BYTE]

Shown(s) == Out(Out(Out(Out(s, 1), 2), 3), 4)

setCursorPos(s, x, y) == Shown(Moved(s, Position(x, y)))

(* Mutant of CopyRow: the next row is copied a character short. *)
CopyRowShort(s, i) ==
    [s EXCEPT !.cells = [c \in DOMAIN @ |->
        IF c \div width = i /\ c % width < width - 1 THEN @[c + width] ELSE @[c]]]

(* A row of scroll's first loop, and its second loop. *)
CopyRow(s, i) ==
    [s EXCEPT !.cells = [c \in DOMAIN @ |->
        IF c \div width = i THEN @[c + width] ELSE @[c]]]

BlankRow(s) ==
    [s EXCEPT !.cells = [c \in DOMAIN @ |->
        IF c \div width = height - 1 THEN Blank ELSE @[c]]]

RowsCopied(s) ==
    LET copied[n \in 0 .. height - 1] ==
            IF n = 0 THEN s ELSE LET t == copied[n - 1] IN CopyRow(t, n - 1)
    IN  copied[height - 1]

scroll(s) ==
    setCursorPos(BlankRow(RowsCopied(s)),
                 getCursorPosX(s.cursor), getCursorPosY(s.cursor) - 1)

clear_screen(s) ==
    setCursorPos([s EXCEPT !.cells = [c \in DOMAIN @ |-> IF c < Size THEN Blank ELSE @[c]]],
                 0, 0)

SetsCursor(c) == c \in {"\n", "\r", "VT"}

Printable(c) == ~ SetsCursor(c) /\ c \notin {"\t", "BS", Blank}

(* Where a character read at pos takes the cursor. *)
Target(c, pos) ==
    CASE Printable(c) -> pos + 1
      [] c = "\t"     -> pos + TAB_SIZE
      [] c = "BS"     -> Max({pos - 1, 0})
      [] c = "VT"     -> Position(getCursorPosX(pos), getCursorPosY(pos) + 1)
      [] c = "\n"     -> Position(0, getCursorPosY(pos) + 1)
      [] c = "\r"     -> Position(0, getCursorPosY(pos))
      [] OTHER        -> pos

(* The switch of arch_print. *)
Typed(s, c) ==
    LET put == IF Printable(c) THEN Put(s, s.cursor, c) ELSE s
        new == Moved(put, Target(c, s.cursor))
    IN  IF SetsCursor(c) THEN Shown(new) ELSE new

(* As long as the cursor is behind the screen, at most once for each row. *)
scrollRep(s) == IF s.cursor >= Size THEN scroll(s) ELSE s

Scrolled(s) ==
    LET after[n \in 0 .. (s.cursor \div width) + 1] ==
            IF n = 0 THEN s ELSE LET t == after[n - 1] IN scrollRep(t)
    IN  after[(s.cursor \div width) + 1]

(* The screen after each character of a text. *)
Printed(s, text) ==
    LET after[n \in 0 .. Len(text)] ==
            IF n = 0 THEN s ELSE LET t == after[n - 1] IN Scrolled(Typed(t, text[n]))
    IN  after[Len(text)]

arch_print(s, text) ==
    LET end == Printed(s, text)
    IN  setCursorPos(end, getCursorPosX(end.cursor), getCursorPosY(end.cursor))
===============================================================================
