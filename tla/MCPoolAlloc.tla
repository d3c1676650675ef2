---------------------------- MODULE MCPoolAlloc -----------------------------
(***************************************************************************)
(* TLC instance of PoolAlloc: three slots, pools of three blocks, two      *)
(* block sizes, and as many regions as slots.                              *)
(***************************************************************************)
EXTENDS PoolAlloc, TLC

RegionSymmetry == Permutations(Regions)
=============================================================================
