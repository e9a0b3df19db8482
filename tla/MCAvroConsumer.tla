--------------------------- MODULE MCAvroConsumer ---------------------------
(***************************************************************************)
(* TLC instance of AvroConsumer: two ids that are each other's mirror      *)
(* image byte by byte, a JSON document and a framed body no schema wrote.  *)
(***************************************************************************)
EXTENDS AvroConsumer

CONSTANTS q1, q2

MCIds == {1, 16777216}

MCForeign == {<<123, 34, 105, 100, 34, 58, 49, 125>>, Encode(1, <<0, 0>>)}
=============================================================================
