------------------------------ MODULE KeyedLog ------------------------------
(***************************************************************************)
(* One partition of a topic whose records are keyed writes, read by        *)
(* offset.  A record is [key |-> k, val |-> v]: it gives k the value v, and *)
(* the value None means that k is absent (a tombstone, a deletion).        *)
(* Offsets count from 1.  The blacklist commands that feed the Goka table, *)
(* the products that feed the table products and the recommendations that  *)
(* feed the table recommendations are all logs of this kind; a consumer    *)
(* that crashes re-reads a suffix of them, so what it shows for a key is   *)
(* described by the set of prefixes that could explain it.                 *)
(***************************************************************************)
EXTENDS Naturals, Sequences

None == 0

(* v is the value of k once exactly the first n records have been applied. *)
ValueAfter(log, k, n, v) ==
  \/ /\ v = None
     /\ \A i \in 1..n : log[i].key # k
  \/ \E i \in 1..n :
       /\ log[i].key = k
       /\ log[i].val = v
       /\ \A j \in (i + 1)..n : log[j].key # k

(* v is the value of k after some prefix that holds at least the first n   *)
(* records: it may be ahead of n, it is never behind it.                   *)
NotBehind(log, k, n, v) ==
  \E m \in n..Len(log) : ValueAfter(log, k, m, v)

(* The same, but for records of Excused, which v may have missed.           *)
NotBehindBut(log, k, n, v, Excused) ==
  \E m \in 0..Len(log) :
    /\ ValueAfter(log, k, m, v)
    /\ \A i \in (m + 1)..n : log[i].key = k => i \in Excused

(* The whole view is, key by key, not behind the first n records.          *)
ViewNotBehind(log, view, n) ==
  \A k \in DOMAIN view : NotBehind(log, k, n, view[k])

ViewNotBehindBut(log, view, n, Excused) ==
  \A k \in DOMAIN view : NotBehindBut(log, k, n, view[k], Excused)

(* The view is exactly what the whole log says.                            *)
ViewIsCurrent(log, view) ==
  \A k \in DOMAIN view : ValueAfter(log, k, Len(log), view[k])

(* The view once record i has been applied to it.                          *)
Apply(view, log, i) ==
  [k \in DOMAIN view |-> IF log[i].key = k THEN log[i].val ELSE view[k]]
=============================================================================
