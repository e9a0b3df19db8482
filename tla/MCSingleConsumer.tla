-------------------------- MODULE MCSingleConsumer ---------------------------
(***************************************************************************)
(* TLC instances of SingleConsumer.                                        *)
(***************************************************************************)
EXTENDS SingleConsumer

CONSTANTS m1, m2, q1, q2
=============================================================================
