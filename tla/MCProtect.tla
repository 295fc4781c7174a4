------------------------------ MODULE MCProtect ------------------------------
(* Constants for the protection of the kernel's memory, with its clients. *)
EXTENDS Protect

NoBlocks == {}

(* A page behind the region. *)
PageBehind == {<<0, NPages + 1>>}

(* A region at address 0, and one above the limit with the information. *)
RightPlaces == {[start |-> 0, info |-> {}], [start |-> 3, info |-> {0}]}

(* A region between address 0 and the limit, as the one at 1 MB. *)
BetweenPlaces == {[start |-> 2, info |-> {}]}

(* The use that is checked is the one that the proofs are about. *)
ASSUME RightlyUsed == Places = RightPlaces => RightUse
=============================================================================
