--------------------------- MODULE MCBatchConsumer ---------------------------
(***************************************************************************)
(* TLC instances of BatchConsumer: two instances of the application and    *)
(* two partitions, or one of each.                                         *)
(***************************************************************************)
EXTENDS BatchConsumer

CONSTANTS m1, m2, q1, q2
=============================================================================
