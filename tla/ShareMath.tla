----------------------------- MODULE ShareMath -----------------------------
(***************************************************************************)
(* The share arithmetic the vaults inherit from the ERC-4626 base contract *)
(* with one virtual share and one virtual asset, and the percentage        *)
(* arithmetic of PercentageUtils.  `assets` and `supply` are what the      *)
(* vault's totalAssets() and totalSupply() return at the moment of the     *)
(* call.                                                                   *)
(***************************************************************************)
EXTENDS Sums

Smaller(a, b) == IF a <= b THEN a ELSE b

\* Ceiling of a / b.
CeilDiv(a, b) == (a + b - 1) \div b

SharesDown(amount, assets, supply) == (amount * (supply + 1)) \div (assets + 1)
SharesUp(amount, assets, supply)   == CeilDiv(amount * (supply + 1), assets + 1)
AssetsDown(amount, assets, supply) == (amount * (assets + 1)) \div (supply + 1)
AssetsUp(amount, assets, supply)   == CeilDiv(amount * (assets + 1), supply + 1)

\* applyPercentage: `hundred` is the representation of 100%.
ApplyPercentage(amount, percentage, hundred) == (amount * percentage) \div hundred
=============================================================================
