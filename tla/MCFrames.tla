------------------------------ MODULE MCFrames ------------------------------
(* Constants for the frame allocator: the lists of regions. *)
EXTENDS Frames

FourRegions == <<2, 0, 2, 1>>
TwoRegions == <<1, 1>>
=============================================================================
