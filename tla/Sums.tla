-------------------------------- MODULE Sums --------------------------------
(* Sums over finite sets: the totals that the contracts keep beside their    *)
(* ledgers, or compute over their lists.                                     *)
EXTENDS Integers, FiniteSetsExt

\* The sum of f over a finite set of its arguments.
SumOver(f, S) == MapThenSumSet(LAMBDA x : f[x], S)
=============================================================================
