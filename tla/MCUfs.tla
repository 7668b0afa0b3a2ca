-------------------------------- MODULE MCUfs -------------------------------
(***************************************************************************)
(* Module Ufs for TLC: two short names, and a long one that the kernel     *)
(* cuts to the first of them and the drivers to the second.                *)
(***************************************************************************)
EXTENDS Ufs

CONSTANTS short, other, long

MCCut == [nm \in {short, other, long} |-> IF nm = long THEN short ELSE nm]
MCUCut == [nm \in {short, other, long} |-> IF nm = long THEN other ELSE nm]

DriverSymmetry == Permutations(Driver)
=============================================================================
