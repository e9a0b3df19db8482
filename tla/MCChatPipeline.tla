--------------------------- MODULE MCChatPipeline ---------------------------
(***************************************************************************)
(* TLC instance of ChatPipeline: Bob blocks and unblocks Alice, two words  *)
(* are banned and released, Alice writes to Bob, under her name as it is   *)
(* or padded, and Bob, whom nobody blocks, to Alice.                       *)
(***************************************************************************)
EXTENDS ChatPipeline

CONSTANTS alice, bob, spam, scam

Id(name, padded) == [name |-> name, padded |-> padded]

MCBlockEvents ==
  {[key |-> bob, user |-> Id(bob, FALSE), target |-> Id(alice, TRUE), action |-> a] :
     a \in {"block", "unblock"}}

MCWordUpdates ==
  {[global |-> TRUE, words |-> {Id(spam, TRUE)}, action |-> "replace"],
   [global |-> TRUE, words |-> {Id(scam, FALSE)}, action |-> "add"],
   [global |-> TRUE, words |-> {Id(scam, FALSE)}, action |-> "remove"]}

MCMessages ==
  {[from |-> Id(alice, FALSE), to |-> bob, text |-> <<Id(scam, TRUE), Id(spam, FALSE)>>],
   [from |-> Id(alice, TRUE), to |-> bob, text |-> <<>>],
   [from |-> Id(bob, FALSE), to |-> alice, text |-> <<>>],
   [from |-> Id(NoUser, FALSE), to |-> bob, text |-> <<>>]}
=============================================================================
