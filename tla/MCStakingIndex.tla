--------------------------- MODULE MCStakingIndex ---------------------------
(* Model values and bounds of the run of StakingIndex.                       *)
EXTENDS StakingIndex, TLC

CONSTANTS ann, bob, prod, staging

\* Ann's lockups pile up in production, Bob stakes in both deployments.
ManyStakes ==
    [stakers |-> prod :> {ann, bob} @@ staging :> {bob}, wallets |-> ann :> 4 @@ bob :> 1,
     amounts |-> {1, 2}, periods |-> {0, 1}, delegations |-> {}, burners |-> {}, rewarded |-> {},
     governed |-> {}, time |-> 0, governance |-> 0]

\* Stakes made for another account, votes burned, settings that change, and
\* lockups that run out.
ManySettings ==
    [stakers |-> prod :> {ann, bob} @@ staging :> {}, wallets |-> ann :> 2 @@ bob :> 1,
     amounts |-> {1}, periods |-> {1, 2}, delegations |-> {<<prod, ann, bob>>},
     burners |-> {bob}, rewarded |-> {}, governed |-> {prod}, time |-> 1, governance |-> 1]

\* Ann and Bob share rewards that are announced, claimed, announced again,
\* removed, listed once more and swept.
ManyRewards ==
    [stakers |-> prod :> {ann, bob} @@ staging :> {}, wallets |-> ann :> 1 @@ bob :> 1,
     amounts |-> {1}, periods |-> {0}, delegations |-> {}, burners |-> {}, rewarded |-> {prod},
     governed |-> {}, time |-> 3, governance |-> 3]

ScopesHere  == {ManyStakes, ManySettings, ManyRewards}
BucketsHere == <<0, 1, 2>>
OneCap      == {2}
ThreeOnly   == {3}
TwoOnly     == {2}
=============================================================================
