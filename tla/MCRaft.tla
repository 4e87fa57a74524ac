------------------------------- MODULE MCRaft -------------------------------
(* Model values and bounds of the run of Raft.                               *)
EXTENDS Raft, TLC

CONSTANTS a1, a2, buffer, rwd, usd

Assets  == [a \in Arks |-> usd]
Buffers == [a \in Arks |-> buffer]
SomeYielding == {<<a1, rwd>>, <<a2, usd>>}
SomeListed == {<<a1, rwd>>}
BothConfigured == {<<a1, rwd>>, <<a2, usd>>}
FewParams == {[duration |-> 2, startPrice |-> 4, endPrice |-> 1, kickerRewardPercentage |-> 1,
               decayType |-> "Linear"],
              [duration |-> 2, startPrice |-> 5, endPrice |-> 1, kickerRewardPercentage |-> 0,
               decayType |-> "Quadratic"]}
=============================================================================
