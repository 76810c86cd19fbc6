------------------------------ MODULE MCArena ------------------------------
(***************************************************************************)
(* TLC instances of Arena.  Three bytes at an odd base address make every  *)
(* aligned request pad; with two epochs a handle outlives a reset and the  *)
(* next reset saturates.                                                   *)
(***************************************************************************)
EXTENDS Arena, TLC

MCSizes == {1, 2}
MCAligns == {1, 2}
ClientSymmetry == Permutations(Ids)
=============================================================================
