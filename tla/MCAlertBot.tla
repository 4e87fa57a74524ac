----------------------------- MODULE MCAlertBot -----------------------------
(* Model values and bounds of the run of AlertBot. *)
EXTENDS AlertBot, TLC

CONSTANTS mainnet, base

BothNetworks == <<mainnet, base>>

\* One cycle at a time, every kind of fault: over two networks, or over the
\* logs of governor and timelock of one.
TwoNetworks ==
    [jobs |-> {1}, kinds |-> {"call"}, blocks |-> mainnet :> 3 @@ base :> 2,
     faults |-> Faults, most |-> 2]

TwoSources ==
    [jobs |-> {1}, kinds |-> {"proposal", "call"}, blocks |-> mainnet :> 3 @@ base :> 1,
     faults |-> Faults, most |-> 2]

\* Two cycles, or a cycle and a check.
TwoCycles ==
    [jobs |-> {1, 2}, kinds |-> {"proposal"}, blocks |-> mainnet :> 3 @@ base :> 1,
     faults |-> {"rpc", "crash", "check"}, most |-> 1]

ScopesHere == {TwoNetworks, TwoSources, TwoCycles}
=============================================================================
