-------------------------- MODULE MCCommanderLedger --------------------------
(***************************************************************************)
(* Model checking of CommanderLedger: the commander has gold and no oil.   *)
(***************************************************************************)
EXTENDS CommanderLedger, TLC

CONSTANTS gold, oil

SomeGold == gold :> 2
SessionSymmetry == Permutations(Sessions)
=============================================================================
