-------------------------- MODULE MCProductFilter ---------------------------
(***************************************************************************)
(* TLC instances of ProductFilter: p2 is on and off the blacklist, p1      *)
(* never, and both share the partition and its offsets.                    *)
(***************************************************************************)
EXTENDS ProductFilter

CONSTANTS p1, p2
=============================================================================
