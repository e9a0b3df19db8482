----------------------------- MODULE MCAnalytics -----------------------------
(***************************************************************************)
(* TLC instance of Analytics: the lake holds a version of a product and a  *)
(* search of u1; an older version or another product, and a request of u2, *)
(* arrive later.                                                           *)
(***************************************************************************)
EXTENDS Analytics

CONSTANTS u1, u2, pen

Product(id, updated, name, available) ==
  [product |-> id, updated |-> updated, name |-> name, available |-> available]

MCLoaded ==
  [c \in {"products", "events"} |->
     IF c = "products" THEN <<Product(1, 2, "cup", 3)>> ELSE <<[user |-> u1, query |-> pen]>>]

MCRecords ==
  [c \in {"products", "events"} |->
     IF c = "products"
     THEN {Product(1, 1, "cup", 5), Product(2, 1, "pen", 1)}
     ELSE {[user |-> u2, query |-> NoQuery]}]

MCMaxLog == [c \in {"products", "events"} |-> 2]

MCMatches == {<<pen, "pen">>}
=============================================================================
