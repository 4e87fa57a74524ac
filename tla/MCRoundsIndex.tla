--------------------------- MODULE MCRoundsIndex ---------------------------
(* Model values and bounds of the run of RoundsIndex.                        *)
EXTENDS RoundsIndex, TLC

CONSTANTS u1, u2

OnePrice  == {[num |-> 3, den |-> 2]}
UsersSym  == Permutations(Users)
=============================================================================
