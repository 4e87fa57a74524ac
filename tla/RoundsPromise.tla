--------------------------- MODULE RoundsPromise ---------------------------
(***************************************************************************)
(* What a rounds vault promises about each round, whatever happens to the  *)
(* others: a round collects, may be locked and reopened, is finalised once *)
(* with the pot its own trade brought in, and from then on pays its        *)
(* contributors pro rata out of that pot and no other.                     *)
(***************************************************************************)
EXTENDS Integers

CONSTANT Rounds

VARIABLES
    phase,    \* "future", "open", "locked" or "final"
    pooled,   \* what the contributors still have in the round
    pot,      \* what the round's trade brought in and has not been paid
    terms     \* [out |-> , for |-> ]: `out` was obtained for `for`

promiseVars == <<phase, pooled, pot, terms>>

\* The newest round that has begun: the only one that takes contributions.
Collecting(r) ==
    phase[r] = "open" /\ \A s \in Rounds : s > r => phase[s] = "future"

\* Round r, seen on its own, in one step: alternatives below.
Keeps(r) == /\ phase'[r] = phase[r] /\ pooled'[r] = pooled[r]
            /\ pot'[r] = pot[r] /\ terms'[r] = terms[r]

Begin(r) == /\ phase[r] = "future" /\ phase'[r] = "open"
            /\ r > 0 => phase[r - 1] = "open" /\ phase'[r - 1] = "locked"
            /\ pooled'[r] = pooled[r] /\ pooled[r] = 0
            /\ pot'[r] = pot[r] /\ terms'[r] = terms[r]

Contribute(r) == /\ Collecting(r) /\ pooled'[r] > pooled[r]
                 /\ phase'[r] = phase[r] /\ pot'[r] = pot[r] /\ terms'[r] = terms[r]

TakeBack(r) == /\ phase[r] = "open" /\ pooled'[r] \in 0..pooled[r]
               /\ phase'[r] = phase[r] /\ pot'[r] = pot[r] /\ terms'[r] = terms[r]

Lock(r) == /\ phase[r] = "open" /\ phase'[r] = "locked"
           /\ pooled'[r] = pooled[r] /\ pot'[r] = pot[r] /\ terms'[r] = terms[r]

Reopen(r) == /\ phase[r] = "locked" /\ phase'[r] = "open"
             /\ pooled'[r] = pooled[r] /\ pot'[r] = pot[r] /\ terms'[r] = terms[r]

Finalise(r) == /\ phase[r] = "locked" /\ phase'[r] = "final"
               /\ pooled'[r] = pooled[r]
               /\ pooled[r] > 0 => terms'[r].for = pooled[r]
               /\ terms'[r].for > 0
               /\ pot'[r] = terms'[r].out

\* A claim is paid in full out of the round's own pot, and never more than
\* pro rata.
Claim(r) == /\ phase[r] = "final" /\ phase'[r] = "final"
            /\ terms'[r] = terms[r]
            /\ pooled'[r] \in 0..pooled[r] /\ pot'[r] \in 0..pot[r]
            /\ (pot[r] - pot'[r]) * terms[r].for
                  <= (pooled[r] - pooled'[r]) * terms[r].out

RoundStep(r) == Keeps(r) \/ Begin(r) \/ Contribute(r) \/ TakeBack(r) \/ Lock(r)
                   \/ Reopen(r) \/ Finalise(r) \/ Claim(r)

Init == /\ phase = [r \in Rounds |-> IF r = 0 THEN "open" ELSE "future"]
        /\ pooled = [r \in Rounds |-> 0]
        /\ pot = [r \in Rounds |-> 0]
        /\ terms = [r \in Rounds |-> [out |-> 0, for |-> 0]]

Next == \A r \in Rounds : RoundStep(r)

Spec == Init /\ [][Next]_promiseVars
=============================================================================
