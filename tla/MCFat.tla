-------------------------------- MODULE MCFat -------------------------------
(***************************************************************************)
(* Module Fat for TLC: two short names, and a long one that is cut to the  *)
(* first of them.                                                          *)
(***************************************************************************)
EXTENDS Fat

CONSTANTS short, other, long

MCCut == [nm \in {short, other, long} |-> IF nm = long THEN short ELSE nm]

(* Contents are only compared with each other.                             *)
ValSymmetry == Permutations(Val)
=============================================================================
