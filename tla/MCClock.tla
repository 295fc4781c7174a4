------------------------------ MODULE MCClock ------------------------------
(* Constants for the clock: two of the registers that hold the time. *)
EXTENDS Clock

SomeRegs == <<"seconds", "year">>
=============================================================================
