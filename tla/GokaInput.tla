----------------------------- MODULE GokaInput ------------------------------
(***************************************************************************)
(* One input of a Goka processor within a session: a partition of a topic, *)
(* whose messages are handed to a callback one after another.  The emits   *)
(* and the table updates of a callback are asynchronous, and a message is  *)
(* marked for commit by itself, as soon as its own have been acknowledged: *)
(* at once, when it has none.  Commits are of the highest mark, so they    *)
(* may cover messages before it whose emits are still in flight.           *)
(*                                                                         *)
(* Goka, Sarama and the brokers are libraries of the program; what is said *)
(* of them here is what its callbacks rely on.  Acknowledgements come in   *)
(* the order of the emits: in the final project because the producer is    *)
(* idempotent and has one open request, in practical_work_3, which keeps   *)
(* Goka's defaults, as long as no request is overtaken while it is retried. *)
(* The session is [next, marked, flight]: messages handled, the highest    *)
(* one marked, those whose output is in flight.                            *)
(***************************************************************************)
EXTENDS Naturals

Sessions == [next : Nat, marked : Nat, flight : SUBSET Nat]

(* A session that begins at committed offset c.                            *)
From(c) == [next |-> c, marked |-> c, flight |-> {}]

(* The callback of the next message returns without an output.             *)
Pass(s) == [s EXCEPT !.next = @ + 1, !.marked = s.next + 1]

(* The callback of the next message emits or updates the table.            *)
Send(s) == [s EXCEPT !.next = @ + 1, !.flight = @ \cup {s.next + 1}]

(* The output of message i is the one to be acknowledged next.             *)
IsOldest(s, i) == i \in s.flight /\ \A j \in s.flight : i <= j

(* It is acknowledged, and the message marked.                             *)
Acknowledge(s, i) ==
  [s EXCEPT !.flight = @ \ {i}, !.marked = IF @ < i THEN i ELSE @]

(* The messages before offset c that a message without an output, up to c, *)
(* may have overtaken; Idle are the messages that may have no output.      *)
Overtaken(Idle, c) == {i \in 1..c : \E j \in Idle : i < j /\ j <= c}

(* What holds of a session over a topic of n messages with offset c        *)
(* committed: a message that is in flight behind a mark was overtaken, and  *)
(* the messages in flight are the last ones that have an output.           *)
SessionOK(s, n, c, Idle) ==
  /\ c <= s.marked /\ s.marked <= s.next /\ s.next <= n
  /\ s.flight \subseteq 1..s.next
  /\ \A i \in s.flight : \A j \in i..s.next : j \notin Idle => j \in s.flight
  /\ \A m \in {c, s.marked} : \A i \in s.flight : i <= m => i \in Overtaken(Idle, m)
=============================================================================
