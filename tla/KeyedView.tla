------------------------------ MODULE KeyedView -----------------------------
(***************************************************************************)
(* What a consumer that keeps a keyed view of a log promises, whatever its *)
(* crashes and retries: the offset it has committed never moves back, and  *)
(* for every key the view shows what the log said at some point that is    *)
(* not before that offset.  It may show a later point (work done, offset   *)
(* not committed yet) and, while a suffix is replayed, it may go back from *)
(* one such point to an earlier one; it never shows a value no point       *)
(* explains and never loses an update the offset covers, unless a record   *)
(* that the consumer passes over at once overtook that update.             *)
(***************************************************************************)
EXTENDS KeyedLog

CONSTANTS
  Keys,      \* the keys of the view
  NoKey,     \* the key of a record that writes to no key of the view
  Passed     \* keys of the records that are marked past updates in flight

VARIABLES
  log,       \* the records of the partition, in offset order
  settled,   \* how many of them the consumer has committed
  view       \* what the consumer shows for every key

vars == <<log, settled, view>>

Init ==
  /\ log = <<>>
  /\ settled = 0
  /\ view = [k \in Keys |-> None]

(* A producer appends a put, whose value is its own offset, or a deletion. *)
AppendRecord ==
  /\ \E k \in Keys \cup {NoKey}, v \in {None, Len(log) + 1} :
       log' = Append(log, [key |-> k, val |-> v])
  /\ UNCHANGED <<settled, view>>

(* The records among the first n that one of them, passed over, overtook.  *)
Excused(n) == {i \in 1..n : \E j \in (i + 1)..n : log[j].key \in Passed}

(* The consumer works, replays or commits.                                 *)
Consume ==
  /\ settled' \in settled..Len(log)
  /\ DOMAIN view' = Keys
  /\ ViewNotBehindBut(log, view', settled', Excused(settled'))
  /\ UNCHANGED log

Next == AppendRecord \/ Consume

Spec == Init /\ [][Next]_vars
=============================================================================
