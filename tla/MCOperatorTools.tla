--------------------------- MODULE MCOperatorTools ---------------------------
(***************************************************************************)
(* TLC instance of OperatorTools: three products on two partitions, files  *)
(* that name a product twice or hold a bad line.                           *)
(***************************************************************************)
EXTENDS OperatorTools

CONSTANTS k1, k2, k3

MCPartitionOf == [k \in Keys |-> IF k = k3 THEN 2 ELSE 1]

Good(k) == [key |-> k, good |-> TRUE]
Bad(k) == [key |-> k, good |-> FALSE]

MCMaxRuns == [t \in {"blacklist", "shop"} |-> IF t = "shop" THEN 2 ELSE 1]

MCFiles ==
  [t \in {"blacklist", "shop"} |->
     {<<Good(k1), Good(k3)>>, <<Good(k1), Bad(k2)>>}
     \cup (IF t = "shop" THEN {<<Good(k2), Good(k1), Good(k2)>>} ELSE {})]
=============================================================================
