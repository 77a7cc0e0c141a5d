--------------------------- MODULE MCGrowingStacks ---------------------------
(* Arrays of one and three entries, so that they grow at different times. *)
EXTENDS GrowingStacks
MCExtendSize == [calls |-> 1, blocks |-> 3]
=============================================================================
