------------------------------ MODULE MCBuddy ------------------------------
(* Constants for model checking the page allocator of a region. *)
EXTENDS BuddyProps

NoBlocks == {}

(* The bits of the free areas, and one behind, that region_map leaves as    *)
(* they were: for a small region the table is too short for its areas.      *)
UnsetBits ==
    {b \in Orders \X (0 .. NPages) :
        /\ b[2] <= free_area_length(NPages, b[1])
        /\ ~ InTable(NPages, b[1], b[2])}
=============================================================================
