----------------------------- MODULE MCOrdersApp -----------------------------
(***************************************************************************)
(* TLC instances of OrdersApp.                                             *)
(***************************************************************************)
EXTENDS OrdersApp

CONSTANTS single, batch, producer
=============================================================================
