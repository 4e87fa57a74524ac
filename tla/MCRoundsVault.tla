--------------------------- MODULE MCRoundsVault ---------------------------
(* Model values and bounds of the runs of RoundsVault.                       *)
EXTENDS RoundsVault, TLC

CONSTANTS u1, u2

UsersSym == Permutations(Users)

OnePrice    == {[num |-> 1, den |-> 1]}
TwoPrices   == {[num |-> 1, den |-> 1], [num |-> 3, den |-> 2]}
ThreePrices == {[num |-> 1, den |-> 1], [num |-> 3, den |-> 2], [num |-> 1, den |-> 2]}
OneTwo      == {1, 2}
JustOne     == {1}
=============================================================================
