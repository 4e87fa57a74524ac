-------------------------- MODULE MCFleetCommander --------------------------
(* Model values and bounds of the runs of FleetCommander.                    *)
EXTENDS FleetCommander, TLC

CONSTANTS u1, u2, a1, a2

UsersSym == Permutations(Users)

ArkOpen   == [depositCap |-> 9, maxPercentage |-> Hundred, maxInflow |-> 9, maxOutflow |-> 9]
ArkTight  == [depositCap |-> 4, maxPercentage |-> Hundred - 1, maxInflow |-> 2, maxOutflow |-> 2]
FleetOpen == [depositCap |-> 9, minimumBufferBalance |-> 0, maxRebalanceOperations |-> 3]
FleetUncapped ==
    [depositCap |-> Unlimited, minimumBufferBalance |-> 0, maxRebalanceOperations |-> 3]
FleetBuffered == [depositCap |-> 9, minimumBufferBalance |-> 2, maxRebalanceOperations |-> 3]
FleetCapped5 == [depositCap |-> 6, minimumBufferBalance |-> 1, maxRebalanceOperations |-> 3]
FleetCapped  == [depositCap |-> 4, minimumBufferBalance |-> 1, maxRebalanceOperations |-> 3]

Leg(from, to, amount) == [from |-> from, to |-> to, amount |-> amount]
\* Legs between the buffer and both arks, chained, reversed, within one ark.
RebalanceLegs == {Leg(Buffer, a1, 2), Leg(Buffer, a2, 1), Leg(a1, Buffer, MaxUint),
                  Leg(a1, a2, 1), Leg(a2, a1, 2), Leg(a1, a1, 1)}
BufferLegs == {Leg(Buffer, a1, 2), Leg(Buffer, a2, 4), Leg(a1, Buffer, 1),
               Leg(a1, Buffer, MaxUint)}
UserLegs == {Leg(Buffer, a1, 2), Leg(a1, Buffer, MaxUint)}
=============================================================================
