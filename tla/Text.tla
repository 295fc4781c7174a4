--------------------------------- MODULE Text ---------------------------------
(***************************************************************************)
(* The growing string of mutils/impl/string.c, the conversions of numbers  *)
(* in mutils/string, and the loop of printk (kernel/printk.c:38-90) that   *)
(* puts a message together from a format and its arguments.                *)
(* A text is a sequence of characters, a character a string of length 1.   *)
(* Text in memory ends before a character 0, which is left out, but for    *)
(* whether a string has one.                                               *)
(***************************************************************************)
EXTENDS Integers, Sequences, SequencesExt

CONSTANTS
    STRING_ALLOC_LENGTH,    \* a string's first room, and what it grows by
    UINT,                   \* one more than the largest unsigned int
    Uninitialized           \* the text in a fresh block of the heap

ASSUME TextAssumption ==
    /\ STRING_ALLOC_LENGTH \in Nat \ {0, 1}
    /\ UINT \in Nat \ {0}
    /\ Uninitialized \in Seq(STRING)

(* fits: no character was stored behind the room there was for it. *)
newString == [text |-> <<>>, alloc_length |-> STRING_ALLOC_LENGTH,
              ended |-> FALSE, fits |-> TRUE]

(* Mutant of string_append: no room for the character 0. *)
StringAppendShort(s, piece) ==
    LET grown == IF s.alloc_length - Len(s.text) < Len(piece)
                 THEN s.alloc_length + STRING_ALLOC_LENGTH ELSE s.alloc_length
    IN  [text |-> s.text \o piece, alloc_length |-> grown, ended |-> TRUE,
         fits |-> s.fits /\ Len(s.text) + Len(piece) + 1 <= grown]

string_append(s, piece) ==
    LET grown == IF s.alloc_length - Len(s.text) < Len(piece) + 1
                 THEN s.alloc_length + STRING_ALLOC_LENGTH ELSE s.alloc_length
    IN  [text |-> s.text \o piece, alloc_length |-> grown, ended |-> TRUE,
         fits |-> s.fits /\ Len(s.text) + Len(piece) + 1 <= grown]

Letters == <<"0", "1", "2", "3", "4", "5", "6", "7", "8", "9",
             "A", "B", "C", "D", "E", "F">>
letters == <<"0", "1", "2", "3", "4", "5", "6", "7", "8", "9",
             "a", "b", "c", "d", "e", "f">>

(* What strlen and those after it find at the start of a string. *)
Ending(s) == IF s.ended THEN s.text ELSE Uninitialized

(* The exchange of each character of the first half with its counterpart. *)
reverse(text) ==
    LET exchange(t, i) == [t EXCEPT ![i] = t[Len(t) + 1 - i],
                                    ![Len(t) + 1 - i] = t[i]]
    IN  FoldLeft(exchange, text, [i \in 1 .. Len(text) \div 2 |-> i])

(* The string with the digits of a number, the last one first. *)
Digits(base) ==
    LET digits[n \in Nat] ==    \* of the digits in front of the last ones
            IF n = 0 THEN <<>> ELSE <<Letters[(n % base) + 1]>> \o digits[n \div base]
    IN  digits

(* The appends of one character each. *)
Spelled(text) ==
    LET put(s, c) == string_append(s, <<c>>)
    IN  FoldLeft(put, newString, text)

(* Of the number 0 the loop appends nothing, so that the string has no end. *)
c_str(n) == reverse(Ending(Spelled(Digits(10)[n])))

hex_str(n) == reverse(Ending(Spelled(IF n = 0 THEN <<"0">> ELSE Digits(16)[n])))

toLower(text) ==
    [i \in DOMAIN text |->
        IF \E d \in 11 .. 16 : Letters[d] = text[i]    \* of the capitals, those in numbers
        THEN letters[CHOOSE d \in 11 .. 16 : Letters[d] = text[i]] ELSE text[i]]

(***************************************************************************)
(* printk's loop at str[i]: f has lstr, lstart, lcpy, the arguments not    *)
(* used yet, and whether the pass before took str[i] as well.              *)
(***************************************************************************)
TakesArgument == {"d", "i", "u", "o", "x", "X", "s"}

Literal(str, f) == SubSeq(str, f.lstart, f.lstart + f.lcpy - 1)

(* What is appended for a % with c behind it. *)
Converted(c, args) ==
    CASE c \in {"d", "i", "u"} -> c_str(Head(args) % UINT)
      [] c = "x" -> toLower(hex_str(Head(args) % UINT))
      [] c = "X" -> hex_str(Head(args) % UINT)
      [] c = "s" -> Head(args)
      [] c = "o" -> <<>>
      [] OTHER   -> <<c>>

Conversion(str, f, i) ==
    LET c == str[i + 1]
    IN  [lstr   |-> string_append(string_append(f.lstr, Literal(str, f)),
                                  Converted(c, f.args)),
         lstart |-> i + 2, lcpy |-> 0, taken |-> TRUE,
         args   |-> IF c \in TakesArgument THEN Tail(f.args) ELSE f.args]

(* Mutant of Pass: the literal behind a conversion begins at the letter. *)
PassEarly(str, f, i) ==
    IF f.taken THEN [f EXCEPT !.taken = FALSE]
    ELSE IF str[i] # "%" THEN [f EXCEPT !.lcpy = @ + 1]
    ELSE IF i = Len(str) THEN f
    ELSE [Conversion(str, f, i) EXCEPT !.lstart = i + 1]

Pass(str, f, i) ==
    IF f.taken THEN [f EXCEPT !.taken = FALSE]
    ELSE IF str[i] # "%" THEN [f EXCEPT !.lcpy = @ + 1]
    ELSE IF i = Len(str) THEN f    \* a % at the end
    ELSE Conversion(str, f, i)

(* lstr behind the loop. *)
Formatted(str, args) ==
    LET pass(f, i) == Pass(str, f, i)
        start == [lstr |-> newString, lstart |-> 1, lcpy |-> 0, taken |-> FALSE, args |-> args]
        end   == FoldLeft(pass, start, [i \in DOMAIN str |-> i])
    IN  IF end.lcpy > 0 THEN string_append(end.lstr, Literal(str, end)) ELSE end.lstr
===============================================================================
