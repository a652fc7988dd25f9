--------------------------- MODULE MCPoolAllocation ---------------------------
(* A small catalog for PoolAllocation: three multi-node models, one of them  *)
(* with a ceiling of zero, which the floor of one pipeline overrides.        *)
EXTENDS PoolAllocation, TLC

CONSTANTS A, B, C, l1, l2

ThreeModels == <<A, B, C>>
TwoLaunchers == <<l1, l2>>
TwoOneNone == A :> 2 @@ B :> 1 @@ C :> 0
AllSharded == A :> 2 @@ B :> 2 @@ C :> 3
=============================================================================
