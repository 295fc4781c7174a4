--------------------------------- MODULE MCLog ---------------------------------
(* Constants for the log: a small screen, and formats with every case of a  *)
(* conversion: in the middle, at the end, doubled, unknown.                 *)
EXTENDS Log

MCStamp == <<"[">>

Tick1 == [level |-> 5, str |-> <<"T">>, args |-> <<>>]

MCMessages ==
    { [level |-> 4, str |-> <<"\t", "a", "%", "X", "%", "%">>, args |-> <<427>>],
      [level |-> 0, str |-> <<"%", "s", "b", "c", "%">>, args |-> <<<<"d", "e">>>>],
      [level |-> 6, str |-> <<"%", "u", "%", "o", "%", "x", "%", "q">>, args |-> <<120, 7, 30>>] }

MCUninitialized == <<"?">>
===============================================================================
