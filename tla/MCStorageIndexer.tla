-------------------------- MODULE MCStorageIndexer --------------------------
(***************************************************************************)
(* TLC instances of StorageIndexer: two partitions of products.filtered    *)
(* and one of recommendations, or one of each.                             *)
(***************************************************************************)
EXTENDS StorageIndexer

CONSTANTS prod1, prod2, reco, products, recommendations, k1

(* The group of a partition, for the partitions an instance has.           *)
MCGroupOf == [c \in Claims |-> IF c = reco THEN recommendations ELSE products]

(* The first partition of the products may hold records the table refuses. *)
Prod1MayRefuse == [c \in Claims |-> IF c = prod1 THEN BOOLEAN ELSE {TRUE}]
=============================================================================
