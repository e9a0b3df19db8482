------------------------- MODULE OperatorToolsProofs -------------------------
(***************************************************************************)
(* Proofs about OperatorTools, for any products, partitions, files and     *)
(* number of commands, runs, lists and failures.                           *)
(*                                                                         *)
(* 1. The topic: what a record that is written changes, and what the       *)
(*    commands up to an offset say of a product.                           *)
(* 2. blacklist list: between two records of a partition the list either   *)
(*    knows what the commands so far say of a product, or a newer command  *)
(*    of the product is ahead of it which the cleaner cannot remove.       *)
(* 3. A run: its records are the lines up to the one it is at.             *)
(***************************************************************************)
EXTENDS OperatorTools, FiniteSetTheorems, SequenceTheorems, WellFoundedInduction, TLAPS

Record == [key : Keys, blocks : BOOLEAN, run : Nat, line : Nat]
FileLine == [key : Keys, good : BOOLEAN]

(* The parts of IInv that are inductive together: the rest follows from     *)
(* them.  Written has a number of records, which the next command takes     *)
(* its own from.                                                           *)
RunInv == RunsLeaveAPrefix /\ RunIsWhereItIs /\ SettledSoFar
Inv == TypeOK /\ RunInv /\ InTheirPartition /\ ListIsOnItsWay /\ IsFiniteSet(Written)

-----------------------------------------------------------------------------
(* 1. The topic *)

(* A set of offsets has a last one.                                        *)
LEMMA LastExists ==
  ASSUME NEW n \in Nat, NEW T \in SUBSET (1..n), T # {}
  PROVE  \E x \in T : \A y \in T : y <= x
<1> DEFINE D == {m \in Nat : \E y \in T : m = n - y}
<1>1. D \subseteq Nat
  OBVIOUS
<1>2. D # {}
  <2>1. PICK y \in T : TRUE
    OBVIOUS
  <2>2. n - y \in D
    BY <2>1
  <2> QED
    BY <2>2
<1>3. \E d \in D : \A e \in D : ~(<<e, d>> \in OpToRel(<, Nat))
  <2> HIDE DEF D
  <2> QED
    BY <1>1, <1>2, NatLessThanWellFounded, WFMin
<1>4. PICK d \in D : \A e \in D : ~(<<e, d>> \in OpToRel(<, Nat))
  BY <1>3
<1>5. \A e \in D : ~(e < d)
  BY <1>1, <1>4 DEF OpToRel
<1>6. PICK x \in T : d = n - x
  BY <1>4
<1>7. \A y \in T : y <= x
  <2> TAKE y \in T
  <2>1. n - y \in D
    OBVIOUS
  <2> QED
    BY <1>5, <1>6, <2>1
<1> QED
  BY <1>7

(* Records are written at the end of a partition and stay where they are.  *)
Grows ==
  \A q \in 1..Partitions :
    /\ Len(topic[q]) <= Len(topic'[q])
    /\ \A i \in 1..Len(topic[q]) : topic'[q][i] = topic[q][i]

LEMMA TopicFacts ==
  ASSUME TypeOK
  PROVE  /\ \A q \in 1..Partitions : topic[q] \in Seq(Record) /\ Len(topic[q]) \in Nat
         /\ \A q \in 1..Partitions : \A i \in 1..Len(topic[q]) : topic[q][i] \in Record
         /\ \A q \in 1..Partitions : clean[q] \in Nat
         /\ \A k \in Keys : PartitionOf[k] \in 1..Partitions
         /\ Partitions \in Nat
<1>1. \A q \in 1..Partitions : topic[q] \in Seq(Record) /\ clean[q] \in Nat
  BY DEF TypeOK, Record
<1>2. \A q \in 1..Partitions : Len(topic[q]) \in Nat
  BY <1>1, LenProperties
<1>3. \A q \in 1..Partitions : \A i \in 1..Len(topic[q]) : topic[q][i] \in Record
  BY <1>1, ElementOfSeq
<1> QED
  BY <1>1, <1>2, <1>3, OperatorToolsAssumption

(* What is in a partition is written.                                      *)
LEMMA InWritten ==
  ASSUME NEW q \in 1..Partitions, NEW i \in 1..Len(topic[q])
  PROVE  topic[q][i] \in Written
BY DEF Written, Offsets

LEMMA WrittenRecords ==
  ASSUME TypeOK, NEW w \in Written
  PROVE  w \in Record
<1>1. PICK q \in 1..Partitions : \E i \in 1..Len(topic[q]) : w = topic[q][i]
  BY DEF Written, Offsets
<1> QED
  BY <1>1, TopicFacts

LEMMA InWrittenNow ==
  ASSUME NEW q \in 1..Partitions, NEW i \in 1..Len(topic'[q])
  PROVE  topic'[q][i] \in Written'
<1>1. Written' = UNION {{topic'[p][j] : j \in 1..Len(topic'[p])} : p \in 1..Partitions}
  BY DEF Written, Offsets
<1> QED
  BY <1>1

(* One more record, r, in partition p.                                     *)
HasGot(p, r) ==
  /\ topic' \in [1..Partitions -> Seq(Record)]
  /\ \A q \in 1..Partitions : q # p => topic'[q] = topic[q]
  /\ Len(topic'[p]) = Len(topic[p]) + 1
  /\ \A i \in 1..Len(topic[p]) : topic'[p][i] = topic[p][i]
  /\ topic'[p][Len(topic[p]) + 1] = r
  /\ Grows
  /\ Written' = Written \cup {r}

LEMMA SentFacts ==
  ASSUME TypeOK, NEW k \in Keys, NEW b \in BOOLEAN, NEW n \in Nat, NEW l \in Nat,
         topic' = Sent(k, b, n, l)
  PROVE  HasGot(PartitionOf[k], [key |-> k, blocks |-> b, run |-> n, line |-> l])
<1> DEFINE p == PartitionOf[k]
           r == [key |-> k, blocks |-> b, run |-> n, line |-> l]
<1>1. p \in 1..Partitions /\ topic[p] \in Seq(Record) /\ Len(topic[p]) \in Nat
  BY TopicFacts
<1>2. r \in Record
  BY DEF Record
<1>3. topic \in [1..Partitions -> Seq(Record)]
  BY DEF TypeOK, Record
<1>4. topic' = [topic EXCEPT ![p] = Append(topic[p], r)]
  BY DEF Sent
<1> HIDE DEF p, r
<1>5. /\ Append(topic[p], r) \in Seq(Record)
      /\ Len(Append(topic[p], r)) = Len(topic[p]) + 1
      /\ \A i \in 1..Len(topic[p]) : Append(topic[p], r)[i] = topic[p][i]
      /\ Append(topic[p], r)[Len(topic[p]) + 1] = r
  BY <1>1, <1>2, AppendProperties
<1>6. topic' \in [1..Partitions -> Seq(Record)]
  BY <1>1, <1>3, <1>4, <1>5
<1>7. \A q \in 1..Partitions : q # p => topic'[q] = topic[q]
  BY <1>3, <1>4
<1>8. topic'[p] = Append(topic[p], r)
  BY <1>1, <1>3, <1>4
<1>9. Grows
  <2> SUFFICES ASSUME NEW q \in 1..Partitions
               PROVE  /\ Len(topic[q]) <= Len(topic'[q])
                      /\ \A i \in 1..Len(topic[q]) : topic'[q][i] = topic[q][i]
    BY DEF Grows
  <2>1. CASE q = p
    BY <1>1, <1>5, <1>8, <2>1
  <2>2. CASE q # p
    <3>1. Len(topic[q]) \in Nat
      BY TopicFacts
    <3> QED
      BY <1>7, <2>2, <3>1
  <2> QED
    BY <2>1, <2>2
<1>10. Written' = Written \cup {r}
  <2>1. ASSUME NEW x \in Written' PROVE x \in Written \cup {r}
    <3>1. PICK q \in 1..Partitions : \E i \in 1..Len(topic'[q]) : x = topic'[q][i]
      <4>1. Written' = UNION {{topic'[q][i] : i \in 1..Len(topic'[q])} : q \in 1..Partitions}
        BY DEF Written, Offsets
      <4> QED
        BY <2>1, <4>1
    <3>2. PICK i \in 1..Len(topic'[q]) : x = topic'[q][i]
      BY <3>1
    <3>3. CASE q # p
      BY <1>7, <3>2, <3>3 DEF Written, Offsets
    <3>4. CASE q = p /\ i = Len(topic[p]) + 1
      BY <1>5, <1>8, <3>2, <3>4
    <3>5. CASE q = p /\ i # Len(topic[p]) + 1
      <4>1. i \in 1..Len(topic[p])
        BY <1>1, <1>5, <1>8, <3>5
      <4> QED
        BY <1>5, <1>8, <3>2, <3>5, <4>1, InWritten
    <3> QED
      BY <3>3, <3>4, <3>5
  <2>2. ASSUME NEW x \in Written PROVE x \in Written'
    <3>1. PICK q \in 1..Partitions : \E i \in 1..Len(topic[q]) : x = topic[q][i]
      BY DEF Written, Offsets
    <3>2. PICK i \in 1..Len(topic[q]) : x = topic[q][i]
      BY <3>1
    <3>3. Len(topic[q]) \in Nat /\ Len(topic'[q]) \in Nat
      BY <1>6, TopicFacts, LenProperties
    <3>4. i \in 1..Len(topic'[q]) /\ x = topic'[q][i]
      BY <1>9, <3>2, <3>3 DEF Grows
    <3> QED
      BY <3>4, InWrittenNow
  <2>3. r \in Written'
    <3>1. Len(topic[p]) + 1 \in 1..Len(topic'[p])
      BY <1>1, <1>5, <1>8
    <3> QED
      BY <1>1, <1>5, <1>8, <3>1, InWrittenNow
  <2> QED
    BY <2>1, <2>2, <2>3
<1> QED
  BY <1>5, <1>6, <1>7, <1>8, <1>9, <1>10 DEF p, r, HasGot

(* The topic may stay as it is, too.                                       *)
LEMMA NothingSent ==
  ASSUME TypeOK, topic' = topic
  PROVE  Grows /\ Written' = Written /\ topic' \in [1..Partitions -> Seq(Record)]
<1>1. \A q \in 1..Partitions : Len(topic[q]) \in Nat
  BY TopicFacts
<1>2. Grows
  BY <1>1 DEF Grows
<1>3. Written' = Written
  BY DEF Written, Offsets
<1>4. topic' \in [1..Partitions -> Seq(Record)]
  BY DEF TypeOK, Record
<1> QED
  BY <1>2, <1>3, <1>4

(* A product is blocked only after a command.                              *)
LEMMA BlockedHasCommand ==
  ASSUME NEW s, NEW k, NEW n \in Nat, Blocked(s, k, n)
  PROVE  n >= 1
BY DEF Blocked

(* What is written later does not change what the first commands say.      *)
LEMMA BlockedStays ==
  ASSUME NEW s, NEW t, NEW k, NEW n \in Nat, \A i \in 1..n : t[i] = s[i]
  PROVE  Blocked(t, k, n) <=> Blocked(s, k, n)
<1>1. \A i \in 1..n : \A j \in (i + 1)..n : j \in 1..n
  OBVIOUS
<1> QED
  BY <1>1 DEF Blocked

(* Nor do commands about other products.                                   *)
LEMMA BlockedUntouched ==
  ASSUME NEW s, NEW k, NEW n \in Nat, NEW m \in Nat, n <= m,
         \A i \in (n + 1)..m : s[i].key # k
  PROVE  Blocked(s, k, m) <=> Blocked(s, k, n)
<1>1. ASSUME NEW i \in 1..m, s[i].key = k, s[i].blocks, \A j \in (i + 1)..m : s[j].key # k
      PROVE  i \in 1..n /\ \A j \in (i + 1)..n : s[j].key # k
  BY <1>1
<1>2. ASSUME NEW i \in 1..n, s[i].key = k, s[i].blocks, \A j \in (i + 1)..n : s[j].key # k
      PROVE  i \in 1..m /\ \A j \in (i + 1)..m : s[j].key # k
  BY <1>2
<1> QED
  BY <1>1, <1>2 DEF Blocked

(* The command read last says it all.                                      *)
LEMMA BlockedByLast ==
  ASSUME NEW s, NEW k, NEW n \in Nat, n >= 1, s[n].key = k
  PROVE  Blocked(s, k, n) <=> s[n].blocks
<1>1. ASSUME NEW i \in 1..n, s[i].blocks, \A j \in (i + 1)..n : s[j].key # k
      PROVE  s[n].blocks
  BY <1>1
<1>2. ASSUME s[n].blocks
      PROVE  n \in 1..n /\ s[n].key = k /\ s[n].blocks /\ \A j \in (n + 1)..n : s[j].key # k
  BY <1>2
<1> QED
  BY <1>1, <1>2 DEF Blocked

-----------------------------------------------------------------------------
(* 2. blacklist list *)

(* What may happen to the topic: records are written, the cleaner goes on.  *)
GoesOn ==
  /\ Grows
  /\ \A q \in 1..Partitions :
       /\ clean'[q] \in Nat /\ clean[q] <= clean'[q] /\ clean'[q] <= Len(topic'[q])
       /\ Len(topic'[q]) \in Nat

(* Two offsets of a partition, its commands and where the cleaner is, now   *)
(* and before: what JudgedRight and KnownOrAhead say of one product.       *)
Judged(c, records, cleaned, k, s) ==
  LET untouched == \A i \in (s + 1)..Len(records) : records[i].key # k
      from == IF cleaned <= s THEN s ELSE 1 IN
  IF untouched THEN c <=> Blocked(records, k, s)
  ELSE c => \E m \in from..Len(records) : Blocked(records, k, m)

Known(c, records, cleaned, k, o) ==
  \/ c <=> Blocked(records, k, o)
  \/ /\ \E j \in (o + 1)..cleaned : records[j].key = k
     /\ c => \E m \in 1..o : Blocked(records, k, m)

LEMMA JudgementStays ==
  ASSUME NEW c \in BOOLEAN, NEW k, NEW s \in Nat,
         NEW records, NEW cleaned \in Nat, NEW longer, NEW further \in Nat,
         Len(records) \in Nat, Len(longer) \in Nat, Len(records) <= Len(longer),
         \A i \in 1..Len(records) : longer[i] = records[i],
         s <= Len(records), cleaned <= further,
         Judged(c, records, cleaned, k, s)
  PROVE  Judged(c, longer, further, k, s)
<1> DEFINE from == IF cleaned <= s THEN s ELSE 1
           fromNow == IF further <= s THEN s ELSE 1
           untouched == \A i \in (s + 1)..Len(records) : records[i].key # k
           untouchedNow == \A i \in (s + 1)..Len(longer) : longer[i].key # k
<1>1. ASSUME NEW m \in Nat, m <= Len(records)
      PROVE  Blocked(longer, k, m) <=> Blocked(records, k, m)
  <2>1. \A i \in 1..m : longer[i] = records[i]
    BY <1>1
  <2> QED
    BY <2>1, BlockedStays
<1>2. IF untouched THEN c <=> Blocked(records, k, s)
      ELSE c => \E m \in from..Len(records) : Blocked(records, k, m)
  BY DEF Judged
<1>3. untouchedNow => untouched
  OBVIOUS
<1> SUFFICES IF untouchedNow THEN c <=> Blocked(longer, k, s)
             ELSE c => \E m \in fromNow..Len(longer) : Blocked(longer, k, m)
  BY DEF Judged
<1>4. Blocked(longer, k, s) <=> Blocked(records, k, s)
  BY <1>1
<1> HIDE DEF untouched, untouchedNow
<1>5. CASE untouchedNow
  BY <1>2, <1>3, <1>4, <1>5
<1>6. CASE ~untouchedNow
  <2> SUFFICES ASSUME c PROVE \E m \in fromNow..Len(longer) : Blocked(longer, k, m)
    BY <1>6
  <2>1. CASE untouched
    <3>1. Blocked(records, k, s)
      BY <1>2, <2>1
    <3>2. s >= 1
      BY <3>1, BlockedHasCommand
    <3>3. s \in fromNow..Len(longer)
      BY <3>2
    <3> QED
      BY <1>4, <3>1, <3>3
  <2>2. CASE ~untouched
    <3>1. PICK m \in from..Len(records) : Blocked(records, k, m)
      BY <1>2, <2>2
    <3>2. m \in Nat /\ m <= Len(records)
      BY <3>1
    <3>3. m >= 1
      BY <3>1, <3>2, BlockedHasCommand
    <3>4. m \in fromNow..Len(longer)
      BY <3>1, <3>3
    <3>5. Blocked(longer, k, m)
      BY <1>1, <3>1, <3>2
    <3> QED
      BY <3>4, <3>5
  <2> QED
    BY <2>1, <2>2
<1> QED
  BY <1>5, <1>6

LEMMA KnowledgeStays ==
  ASSUME NEW c \in BOOLEAN, NEW k, NEW o \in Nat,
         NEW records, NEW cleaned \in Nat, NEW longer, NEW further \in Nat,
         Len(records) \in Nat, cleaned <= Len(records), o <= Len(records), cleaned <= further,
         \A i \in 1..Len(records) : longer[i] = records[i],
         Known(c, records, cleaned, k, o)
  PROVE  Known(c, longer, further, k, o)
<1>1. ASSUME NEW m \in Nat, m <= o
      PROVE  Blocked(longer, k, m) <=> Blocked(records, k, m)
  <2>1. \A i \in 1..m : longer[i] = records[i]
    BY <1>1
  <2> QED
    BY <2>1, BlockedStays
<1>2. CASE c <=> Blocked(records, k, o)
  <2>1. Blocked(longer, k, o) <=> Blocked(records, k, o)
    BY <1>1
  <2> QED
    BY <1>2, <2>1 DEF Known
<1>3. CASE /\ \E j \in (o + 1)..cleaned : records[j].key = k
           /\ c => \E m \in 1..o : Blocked(records, k, m)
  <2>1. \E j \in (o + 1)..further : longer[j].key = k
    <3>1. PICK j \in (o + 1)..cleaned : records[j].key = k
      BY <1>3
    <3>2. j \in (o + 1)..further /\ j \in 1..Len(records)
      BY <3>1
    <3> QED
      BY <3>1, <3>2
  <2>2. c => \E m \in 1..o : Blocked(longer, k, m)
    BY <1>1, <1>3
  <2> QED
    BY <2>1, <2>2 DEF Known
<1> QED
  BY <1>2, <1>3 DEF Known

(* The list receives the next record that is there, i: of a product that    *)
(* it is not about, what it knew at offset o still holds.                  *)
LEMMA KnowledgeOfOthers ==
  ASSUME NEW c \in BOOLEAN, NEW k, NEW o \in Nat, NEW i \in Nat, o < i,
         NEW records, NEW cleaned \in Nat,
         \A j \in (o + 1)..(i - 1) :
           \E l \in (j + 1)..cleaned : records[l].key = records[j].key,
         records[i].key # k,
         Known(c, records, cleaned, k, o)
  PROVE  Known(c, records, cleaned, k, i)
<1>1. CASE \A j \in (o + 1)..cleaned : records[j].key # k
  <2>1. c <=> Blocked(records, k, o)
    BY <1>1 DEF Known
  <2>2. \A j \in (o + 1)..i : records[j].key # k
    <3> SUFFICES ASSUME NEW j \in (o + 1)..i, records[j].key = k PROVE FALSE
      OBVIOUS
    <3>1. j \in (o + 1)..(i - 1)
      OBVIOUS
    <3>2. PICK l \in (j + 1)..cleaned : records[l].key = k
      BY <3>1
    <3>3. l \in (o + 1)..cleaned
      BY <3>2
    <3> QED
      BY <1>1, <3>2, <3>3
  <2>3. Blocked(records, k, i) <=> Blocked(records, k, o)
    BY <2>2, BlockedUntouched
  <2> QED
    BY <2>1, <2>3 DEF Known
<1>2. CASE \E j \in (o + 1)..cleaned : records[j].key = k
  <2> DEFINE T == {j \in 1..cleaned : records[j].key = k /\ j > o}
  <2>1. T \in SUBSET (1..cleaned) /\ T # {}
    BY <1>2
  <2> HIDE DEF T
  <2>2. PICK x \in T : \A y \in T : y <= x
    BY <2>1, LastExists
  <2>3. x \in Nat /\ x > o /\ x <= cleaned /\ records[x].key = k
    BY <2>2 DEF T
  <2>4. x \notin (o + 1)..(i - 1)
    <3> SUFFICES ASSUME x \in (o + 1)..(i - 1) PROVE FALSE
      OBVIOUS
    <3>1. PICK l \in (x + 1)..cleaned : records[l].key = k
      BY <2>3
    <3>2. l \in T
      BY <2>3, <3>1 DEF T
    <3> QED
      BY <2>2, <2>3, <3>1, <3>2
  <2>5. x # i
    BY <2>3
  <2>6. x \in (i + 1)..cleaned
    BY <2>3, <2>4, <2>5
  <2>7. c => \E m \in 1..i : Blocked(records, k, m)
    <3> SUFFICES ASSUME c PROVE \E m \in 1..i : Blocked(records, k, m)
      OBVIOUS
    <3>1. PICK m \in 0..o : Blocked(records, k, m)
      BY DEF Known
    <3>2. m >= 1
      BY <3>1, BlockedHasCommand
    <3> QED
      BY <3>1, <3>2
  <2> QED
    BY <2>3, <2>6, <2>7 DEF Known
<1> QED
  BY <1>1, <1>2

(* At the watermark or behind it, what the list knows of a product is       *)
(* right.                                                                  *)
LEMMA KnowledgeIsRight ==
  ASSUME NEW c \in BOOLEAN, NEW k, NEW s \in Nat, NEW i \in Nat, s <= i,
         NEW records, NEW cleaned \in Nat,
         Len(records) \in Nat, i <= Len(records), cleaned <= Len(records),
         Known(c, records, cleaned, k, i)
  PROVE  Judged(c, records, cleaned, k, s)
<1> DEFINE from == IF cleaned <= s THEN s ELSE 1
           untouched == \A j \in (s + 1)..Len(records) : records[j].key # k
<1>1. CASE c <=> Blocked(records, k, i)
  <2>1. ASSUME untouched PROVE c <=> Blocked(records, k, s)
    <3>1. \A j \in (s + 1)..i : records[j].key # k
      BY <2>1
    <3> QED
      BY <1>1, <3>1, BlockedUntouched
  <2>2. ASSUME c PROVE \E m \in from..Len(records) : Blocked(records, k, m)
    <3>1. Blocked(records, k, i)
      BY <1>1, <2>2
    <3>2. i >= 1
      BY <3>1, BlockedHasCommand
    <3>3. i \in from..Len(records)
      BY <3>2
    <3> QED
      BY <3>1, <3>3
  <2> QED
    BY <2>1, <2>2 DEF Judged
<1>2. CASE /\ \E j \in (i + 1)..cleaned : records[j].key = k
           /\ c => \E m \in 1..i : Blocked(records, k, m)
  <2>1. PICK j \in (i + 1)..cleaned : records[j].key = k
    BY <1>2
  <2>2. j \in (s + 1)..Len(records) /\ ~(cleaned <= s)
    BY <2>1
  <2>3. ~untouched
    BY <2>1, <2>2
  <2>4. c => \E m \in from..Len(records) : Blocked(records, k, m)
    BY <1>2, <2>2
  <2> QED
    BY <2>3, <2>4 DEF Judged
<1> QED
  BY <1>1, <1>2 DEF Known

LEMMA JudgedForm ==
  ASSUME NEW k
  PROVE  LET p == PartitionOf[k] IN
         JudgedRight(k) <=> Judged(k \in list.current, topic[p], clean[p], k, list.since[p])
BY DEF JudgedRight, Judged

LEMMA JudgedFormNow ==
  ASSUME NEW k
  PROVE  LET p == PartitionOf[k] IN
         JudgedRight(k)' <=> Judged(k \in list'.current, topic'[p], clean'[p], k, list'.since[p])
BY DEF JudgedRight, Judged

LEMMA KnownForm ==
  ASSUME NEW k
  PROVE  LET p == PartitionOf[k] IN
         KnownOrAhead(k) <=> Known(k \in list.current, topic[p], clean[p], k, list.offset)
BY DEF KnownOrAhead, Known

LEMMA KnownFormNow ==
  ASSUME NEW k
  PROVE  LET p == PartitionOf[k] IN
         KnownOrAhead(k)' <=> Known(k \in list'.current, topic'[p], clean'[p], k, list'.offset)
BY DEF KnownOrAhead, Known

ListType ==
  [number : Nat, state : {"none", "opening", "reading", "printed", "failed"},
   part : 1..(Partitions + 1), hw : Nat, offset : Nat, current : SUBSET Keys,
   since : [1..Partitions -> Nat]]

LEMMA ListFacts ==
  ASSUME TypeOK
  PROVE  /\ list \in ListType
         /\ list.number \in Nat /\ list.part \in 1..(Partitions + 1)
         /\ list.hw \in Nat /\ list.offset \in Nat
         /\ list.current \subseteq Keys /\ list.since \in [1..Partitions -> Nat]
         /\ \A q \in 1..Partitions : list.since[q] \in Nat
BY DEF TypeOK, ListType

(* A product of a partition the list has read.                             *)
LEMMA ReadStaysRight ==
  ASSUME TypeOK, ListIsOnItsWay, GoesOn, NEW k \in Keys, JudgedRight(k),
         list'.since = list.since, k \in list'.current <=> k \in list.current
  PROVE  JudgedRight(k)'
<1> DEFINE p == PartitionOf[k]
           c == k \in list.current
<1>1. /\ p \in 1..Partitions /\ Len(topic[p]) \in Nat /\ clean[p] \in Nat
      /\ list.since[p] \in Nat
  BY TopicFacts, ListFacts
<1>2. list.since[p] <= Len(topic[p])
  BY <1>1 DEF ListIsOnItsWay
<1>3. /\ clean'[p] \in Nat /\ clean[p] <= clean'[p] /\ Len(topic'[p]) \in Nat
      /\ Len(topic[p]) <= Len(topic'[p])
      /\ \A i \in 1..Len(topic[p]) : topic'[p][i] = topic[p][i]
  BY <1>1 DEF GoesOn, Grows
<1>4. Judged(c, topic[p], clean[p], k, list.since[p])
  BY JudgedForm
<1>5. c \in BOOLEAN
  OBVIOUS
<1> HIDE DEF c
<1>6. Judged(c, topic'[p], clean'[p], k, list.since[p])
  BY <1>1, <1>2, <1>3, <1>4, <1>5, JudgementStays
<1>7. Judged(k \in list'.current, topic'[p], clean'[p], k, list'.since[p])
  <2>1. (k \in list'.current) = c
    BY DEF c
  <2> QED
    BY <1>6, <2>1
<1> QED
  BY <1>7, JudgedFormNow

(* Commands are written and removed while the list stays where it is.      *)
LEMMA ListStays ==
  ASSUME TypeOK, ListIsOnItsWay, GoesOn, list' = list
  PROVE  ListIsOnItsWay'
<1>1. \A q \in 1..Partitions :
        /\ Len(topic[q]) \in Nat /\ Len(topic'[q]) \in Nat /\ Len(topic[q]) <= Len(topic'[q])
        /\ clean'[q] <= Len(topic'[q]) /\ list.since[q] \in Nat
        /\ clean[q] <= Len(topic[q]) /\ list.since[q] <= Len(topic[q])
  BY TopicFacts, ListFacts DEF GoesOn, Grows, ListIsOnItsWay
<1>2. \A q \in 1..Partitions : clean'[q] <= Len(topic'[q]) /\ list'.since[q] <= Len(topic'[q])
  BY <1>1
<1>3. ASSUME list.state = "reading"
      PROVE  /\ list.part \in 1..Partitions /\ list.offset < list.hw
             /\ list.since[list.part] <= list.hw /\ list.hw <= Len(topic[list.part])
             /\ list.offset <= Len(topic[list.part])
             /\ list.hw <= Len(topic'[list.part])
  <2>1. list.part \in 1..Partitions
    BY <1>3, ListFacts, TopicFacts DEF ListIsOnItsWay
  <2>2. /\ list.offset < list.hw
        /\ list.since[list.part] <= list.hw /\ list.hw <= Len(topic[list.part])
    BY <1>3 DEF ListIsOnItsWay
  <2>3. list.offset \in Nat /\ list.hw \in Nat
    BY ListFacts
  <2> QED
    BY <1>1, <2>1, <2>2, <2>3
<1>4. list'.state = "reading" =>
        /\ list'.part <= Partitions
        /\ list'.offset < list'.hw
        /\ list'.since[list'.part] <= list'.hw /\ list'.hw <= Len(topic'[list'.part])
  BY <1>3
<1>5. ASSUME NEW k \in Keys, KnownOrAhead(k), PartitionOf[k] = list.part, list.state = "reading"
      PROVE  KnownOrAhead(k)'
  <2> DEFINE p == PartitionOf[k]
             c == k \in list.current
  <2>1. /\ p \in 1..Partitions /\ Len(topic[p]) \in Nat /\ clean[p] \in Nat
        /\ list.offset \in Nat /\ list.offset <= Len(topic[p]) /\ clean[p] <= Len(topic[p])
    BY <1>1, <1>3, <1>5, TopicFacts, ListFacts
  <2>2. /\ clean'[p] \in Nat /\ clean[p] <= clean'[p]
        /\ \A i \in 1..Len(topic[p]) : topic'[p][i] = topic[p][i]
    BY <2>1 DEF GoesOn, Grows
  <2>3. Known(c, topic[p], clean[p], k, list.offset)
    BY <1>5, KnownForm
  <2>4. c \in BOOLEAN
    OBVIOUS
  <2> HIDE DEF c
  <2>5. Known(c, topic'[p], clean'[p], k, list.offset)
    BY <2>1, <2>2, <2>3, <2>4, KnowledgeStays
  <2>6. Known(k \in list'.current, topic'[p], clean'[p], k, list'.offset)
    BY <2>5 DEF c
  <2> QED
    BY <2>6, KnownFormNow
<1>6. ASSUME NEW k \in Keys, list.state \in {"opening", "reading", "printed"}
      PROVE  /\ PartitionOf[k] < list.part => JudgedRight(k)'
             /\ PartitionOf[k] = list.part =>
                  IF list.state = "reading" THEN KnownOrAhead(k)' ELSE k \notin list.current
             /\ PartitionOf[k] > list.part => k \notin list.current
  <2>1. /\ PartitionOf[k] < list.part => JudgedRight(k)
        /\ PartitionOf[k] = list.part =>
             IF list.state = "reading" THEN KnownOrAhead(k) ELSE k \notin list.current
        /\ PartitionOf[k] > list.part => k \notin list.current
    BY <1>6 DEF ListIsOnItsWay
  <2>2. PartitionOf[k] < list.part => JudgedRight(k)'
    BY <2>1, ReadStaysRight
  <2>3. PartitionOf[k] = list.part /\ list.state = "reading" => KnownOrAhead(k)'
    BY <1>5, <2>1
  <2> QED
    BY <2>1, <2>2, <2>3
<1>7. list'.state \in {"opening", "reading", "printed"} =>
       \A k \in Keys :
         /\ PartitionOf[k] < list'.part => JudgedRight(k)'
         /\ PartitionOf[k] = list'.part =>
              IF list'.state = "reading" THEN KnownOrAhead(k)' ELSE k \notin list'.current
         /\ PartitionOf[k] > list'.part => k \notin list'.current
  BY <1>6
<1>8. list'.state = "printed" => list'.part = Partitions + 1
  BY DEF ListIsOnItsWay
<1> QED
  BY <1>2, <1>4, <1>7, <1>8 DEF ListIsOnItsWay

LEMMA TopicStands ==
  ASSUME TypeOK, ListIsOnItsWay, topic' = topic, clean' = clean
  PROVE  GoesOn
<1>1. \A q \in 1..Partitions :
        Len(topic[q]) \in Nat /\ clean[q] \in Nat /\ clean[q] <= Len(topic[q])
  BY TopicFacts DEF ListIsOnItsWay
<1>2. Grows
  BY NothingSent
<1> QED
  BY <1>1, <1>2 DEF GoesOn

(* A list begins.                                                          *)
LEMMA StartListKeeps ==
  ASSUME TypeOK, ListIsOnItsWay, StartList
  PROVE  list' \in ListType /\ ListIsOnItsWay'
<1>1. /\ list' = [number |-> list.number + 1, state |-> "opening", part |-> 1, hw |-> 0,
                  offset |-> 0, current |-> {},
                  since |-> [p \in 1..Partitions |-> Len(topic[p])]]
      /\ topic' = topic /\ clean' = clean
  BY DEF StartList
<1>2. \A q \in 1..Partitions :
        Len(topic[q]) \in Nat /\ clean[q] <= Len(topic[q])
  BY TopicFacts DEF ListIsOnItsWay
<1>3. list.number \in Nat /\ Partitions \in Nat
  BY ListFacts, TopicFacts
<1>4. /\ list'.state = "opening" /\ list'.part = 1 /\ list'.current = {}
      /\ list'.since = [p \in 1..Partitions |-> Len(topic[p])]
  BY <1>1
<1>5. list' \in ListType
  <2>1. [p \in 1..Partitions |-> Len(topic[p])] \in [1..Partitions -> Nat]
    BY <1>2
  <2>2. 1 \in 1..(Partitions + 1) /\ list.number + 1 \in Nat
    BY <1>3
  <2> QED
    BY <1>1, <2>1, <2>2 DEF ListType
<1>6. \A q \in 1..Partitions : clean'[q] <= Len(topic'[q]) /\ list'.since[q] <= Len(topic'[q])
  BY <1>1, <1>2, <1>4
<1>7. \A k \in Keys : ~(PartitionOf[k] < list'.part) /\ k \notin list'.current
  BY <1>4, TopicFacts
<1> QED
  BY <1>4, <1>5, <1>6, <1>7 DEF ListIsOnItsWay

(* A partition is opened, or passed over because nothing was ever written   *)
(* to it.                                                                  *)
LEMMA OpenPartitionKeeps ==
  ASSUME TypeOK, ListIsOnItsWay, OpenPartition
  PROVE  list' \in ListType /\ ListIsOnItsWay'
<1> DEFINE hw == Len(topic[list.part])
<1>1. /\ list.state = "opening" /\ list.part \in 1..Partitions
      /\ list' = IF hw > 0 THEN [list EXCEPT !.state = "reading", !.hw = hw, !.offset = 0]
                          ELSE [list EXCEPT !.part = @ + 1]
      /\ topic' = topic /\ clean' = clean
  BY ListFacts, TopicFacts DEF OpenPartition
<1>2. /\ \A q \in 1..Partitions :
           /\ Len(topic[q]) \in Nat /\ clean[q] \in Nat /\ list.since[q] \in Nat
           /\ clean[q] <= Len(topic[q]) /\ list.since[q] <= Len(topic[q])
      /\ \A k \in Keys :
           /\ PartitionOf[k] \in 1..Partitions
           /\ PartitionOf[k] < list.part => JudgedRight(k)
           /\ PartitionOf[k] = list.part => k \notin list.current
           /\ PartitionOf[k] > list.part => k \notin list.current
  BY <1>1, TopicFacts, ListFacts DEF ListIsOnItsWay
<1>3. hw \in Nat
  BY <1>1, <1>2
<1>4. list \in ListType /\ Partitions \in Nat
  BY ListFacts, TopicFacts
<1>5. ASSUME NEW k \in Keys, JudgedRight(k), list'.since = list.since,
             list'.current = list.current
      PROVE  JudgedRight(k)'
  BY <1>1, <1>5, TopicStands, ReadStaysRight
<1> HIDE DEF hw
<1>6. CASE hw > 0
  <2>1. list' = [list EXCEPT !.state = "reading", !.hw = hw, !.offset = 0]
    BY <1>1, <1>6
  <2>2. list' \in ListType
    BY <1>3, <1>4, <2>1 DEF ListType
  <2>3. /\ list'.state = "reading" /\ list'.hw = hw /\ list'.offset = 0
        /\ list'.part = list.part /\ list'.current = list.current /\ list'.since = list.since
    BY <1>4, <2>1 DEF ListType
  <2>4. \A q \in 1..Partitions : clean'[q] <= Len(topic'[q]) /\ list'.since[q] <= Len(topic'[q])
    BY <1>1, <1>2, <2>3
  <2>5. /\ list'.part <= Partitions /\ list'.offset < list'.hw
        /\ list'.since[list'.part] <= list'.hw /\ list'.hw <= Len(topic'[list'.part])
    BY <1>1, <1>2, <1>3, <1>6, <2>3 DEF hw
  <2>6. ASSUME NEW k \in Keys
        PROVE  /\ PartitionOf[k] < list'.part => JudgedRight(k)'
               /\ PartitionOf[k] = list'.part => KnownOrAhead(k)'
               /\ PartitionOf[k] > list'.part => k \notin list'.current
    <3>1. PartitionOf[k] < list'.part => JudgedRight(k)'
      BY <1>2, <1>5, <2>3
    <3>2. ASSUME PartitionOf[k] = list'.part PROVE KnownOrAhead(k)'
      <4>1. k \notin list'.current
        BY <1>2, <2>3, <3>2
      <4>2. ~Blocked(topic'[PartitionOf[k]], k, list'.offset)
        BY <2>3 DEF Blocked
      <4> QED
        BY <4>1, <4>2, KnownFormNow DEF Known
    <3> QED
      BY <1>2, <2>3, <3>1, <3>2
  <2> QED
    BY <2>2, <2>3, <2>4, <2>5, <2>6 DEF ListIsOnItsWay
<1>7. CASE ~(hw > 0)
  <2>1. list' = [list EXCEPT !.part = @ + 1] /\ hw = 0
    BY <1>1, <1>3, <1>7
  <2>2. list' \in ListType
    BY <1>1, <1>4, <2>1 DEF ListType
  <2>3. /\ list'.state = "opening"
        /\ list'.part = list.part + 1 /\ list'.current = list.current /\ list'.since = list.since
    BY <1>1, <1>4, <2>1 DEF ListType
  <2>4. \A q \in 1..Partitions : clean'[q] <= Len(topic'[q]) /\ list'.since[q] <= Len(topic'[q])
    BY <1>1, <1>2, <2>3
  <2>5. ASSUME NEW k \in Keys, PartitionOf[k] = list.part PROVE JudgedRight(k)'
    <3> DEFINE p == PartitionOf[k]
    <3>1. /\ topic'[p] = topic[p] /\ Len(topic[p]) = 0 /\ clean[p] = 0 /\ list'.since[p] = 0
          /\ k \notin list'.current /\ clean'[p] = 0
      BY <1>1, <1>2, <2>1, <2>3, <2>5 DEF hw
    <3>2. ~Blocked(topic'[p], k, 0)
      BY DEF Blocked
    <3>3. Judged(FALSE, topic'[p], 0, k, 0)
      BY <3>1, <3>2 DEF Judged
    <3>4. (k \in list'.current) = FALSE
      BY <3>1
    <3> QED
      BY <3>1, <3>3, <3>4, JudgedFormNow
  <2>6. ASSUME NEW k \in Keys
        PROVE  /\ PartitionOf[k] < list'.part => JudgedRight(k)'
               /\ PartitionOf[k] = list'.part => k \notin list'.current
               /\ PartitionOf[k] > list'.part => k \notin list'.current
    <3>1. PartitionOf[k] < list'.part => PartitionOf[k] < list.part \/ PartitionOf[k] = list.part
      BY <1>1, <1>2, <2>3
    <3>2. PartitionOf[k] >= list'.part => PartitionOf[k] > list.part
      BY <1>1, <1>2, <2>3
    <3>3. PartitionOf[k] < list'.part => JudgedRight(k)'
      BY <1>2, <1>5, <2>3, <2>5, <3>1
    <3>4. PartitionOf[k] \in Int /\ list'.part \in Int
      BY <1>1, <1>2, <2>3
    <3> QED
      BY <1>2, <2>3, <3>2, <3>3, <3>4
  <2> QED
    BY <2>2, <2>3, <2>4, <2>6 DEF ListIsOnItsWay
<1> QED
  BY <1>6, <1>7

(* The list ends, as it should or not.                                     *)
LEMMA ListEndKeeps ==
  ASSUME TypeOK, ListIsOnItsWay, PrintList \/ ListFails
  PROVE  list' \in ListType /\ ListIsOnItsWay'
<1>1. /\ list.state = "opening" /\ topic' = topic /\ clean' = clean
      /\ \/ list' = [list EXCEPT !.state = "printed"] /\ list.part > Partitions
         \/ list' = [list EXCEPT !.state = "failed"]
  BY DEF PrintList, ListFails
<1>2. list \in ListType /\ Partitions \in Nat
  BY ListFacts, TopicFacts
<1>3. /\ list' \in ListType /\ list'.part = list.part /\ list'.since = list.since
      /\ list'.current = list.current
      /\ \/ list'.state = "failed"
         \/ list'.state = "printed" /\ list'.part = Partitions + 1
  BY <1>1, <1>2 DEF ListType
<1>4. \A q \in 1..Partitions : clean'[q] <= Len(topic'[q]) /\ list'.since[q] <= Len(topic'[q])
  BY <1>1, <1>3 DEF ListIsOnItsWay
<1>5. ASSUME NEW k \in Keys
      PROVE  /\ PartitionOf[k] < list'.part => JudgedRight(k)'
             /\ PartitionOf[k] = list'.part => k \notin list'.current
             /\ PartitionOf[k] > list'.part => k \notin list'.current
  <2>1. /\ PartitionOf[k] < list.part => JudgedRight(k)
        /\ PartitionOf[k] = list.part => k \notin list.current
        /\ PartitionOf[k] > list.part => k \notin list.current
    BY <1>1 DEF ListIsOnItsWay
  <2>2. JudgedRight(k) => JudgedRight(k)'
    BY <1>1, <1>3, TopicStands, ReadStaysRight
  <2> QED
    BY <1>3, <2>1, <2>2
<1> QED
  BY <1>3, <1>4, <1>5 DEF ListIsOnItsWay

(* The list takes the next record that is there.                           *)
LEMMA ReceiveKeeps ==
  ASSUME TypeOK, InTheirPartition, ListIsOnItsWay, Receive
  PROVE  list' \in ListType /\ ListIsOnItsWay'
<1> DEFINE p == list.part
           o == list.offset
           s == list.since[p]
<1>1. /\ list.state = "reading" /\ p \in 1..Partitions /\ topic' = topic /\ clean' = clean
      /\ o < list.hw /\ s <= list.hw /\ list.hw <= Len(topic[p])
  BY ListFacts, TopicFacts DEF Receive, ListIsOnItsWay
<1>2. PICK i \in Offsets(p) :
        /\ IsNext(i)
        /\ list' = [Went(i) EXCEPT !.current =
                      IF topic[p][i].blocks THEN @ \cup {topic[p][i].key} ELSE @ \ {topic[p][i].key}]
  BY DEF Receive
<1> DEFINE r == topic[p][i]
           after == IF r.blocks THEN list.current \cup {r.key} ELSE list.current \ {r.key}
<1>3. /\ list \in ListType /\ Partitions \in Nat /\ o \in Nat /\ list.hw \in Nat
      /\ s \in Nat /\ list.current \subseteq Keys
      /\ Len(topic[p]) \in Nat /\ clean[p] \in Nat /\ r \in Record
  BY <1>1, ListFacts, TopicFacts DEF Offsets
<1>4. i \in Nat /\ i >= 1 /\ i <= Len(topic[p]) /\ clean[p] <= Len(topic[p])
  BY <1>1, <1>3 DEF Offsets, ListIsOnItsWay
<1>5. /\ r.key \in Keys /\ r.blocks \in BOOLEAN /\ PartitionOf[r.key] = p
      /\ after \subseteq Keys
  BY <1>1, <1>3 DEF Record, InTheirPartition
<1>6. /\ o < i
      /\ \A j \in (o + 1)..(i - 1) :
           \E l \in (j + 1)..clean[p] : topic[p][l].key = topic[p][j].key
  BY <1>2, <1>3, <1>4 DEF IsNext, Compacted
<1>7. ASSUME NEW k \in Keys, PartitionOf[k] = p
      PROVE  Known(k \in after, topic[p], clean[p], k, i)
  <2>1. CASE k = r.key
    <3>1. Blocked(topic[p], k, i) <=> r.blocks
      BY <1>4, <2>1, BlockedByLast
    <3>2. k \in after <=> r.blocks
      BY <1>5, <2>1
    <3> QED
      BY <3>1, <3>2 DEF Known
  <2>2. CASE k # r.key
    <3> DEFINE c == k \in list.current
    <3>1. KnownOrAhead(k)
      BY <1>1, <1>7 DEF ListIsOnItsWay
    <3>2. Known(c, topic[p], clean[p], k, o)
      BY <1>7, <3>1, KnownForm
    <3>3. c \in BOOLEAN
      OBVIOUS
    <3>4. (k \in after) = c
      BY <2>2
    <3> HIDE DEF c, o, p, after
    <3>5. Known(c, topic[p], clean[p], k, i)
      BY <1>3, <1>4, <1>6, <2>2, <3>2, <3>3, KnowledgeOfOthers
    <3> QED
      BY <3>4, <3>5
  <2> QED
    BY <2>1, <2>2
<1>8. ASSUME NEW k \in Keys, PartitionOf[k] # p
      PROVE  k \in after <=> k \in list.current
  BY <1>5, <1>8
<1>9. \A k \in Keys :
        /\ PartitionOf[k] \in 1..Partitions
        /\ PartitionOf[k] < p => JudgedRight(k)
        /\ PartitionOf[k] > p => k \notin list.current
  BY <1>1, TopicFacts DEF ListIsOnItsWay
<1>10. \A q \in 1..Partitions : clean[q] <= Len(topic[q]) /\ list.since[q] <= Len(topic[q])
  BY DEF ListIsOnItsWay
<1>11. ASSUME NEW k \in Keys, PartitionOf[k] < p, list'.since = list.since, list'.current = after
       PROVE  JudgedRight(k)'
  <2>1. JudgedRight(k) /\ PartitionOf[k] # p
    BY <1>1, <1>9, <1>11
  <2>2. k \in list'.current <=> k \in list.current
    BY <1>8, <1>11, <2>1
  <2> QED
    BY <1>1, <1>11, <2>1, <2>2, TopicStands, ReadStaysRight
<1>12. CASE AtWatermark(i)
  <2>1. list' = [list EXCEPT !.state = "opening", !.part = @ + 1, !.offset = 0, !.current = after]
    BY <1>2, <1>3, <1>12 DEF Went, ListType
  <2>2. i >= list.hw
    BY <1>12 DEF AtWatermark
  <2> HIDE DEF after
  <2>3. list' \in ListType
    <3>1. list.part + 1 \in 1..(Partitions + 1)
      BY <1>1, <1>3
    <3>2. after \in SUBSET Keys /\ list \in ListType
      BY <1>3, <1>5
    <3> QED
      BY <2>1, <3>1, <3>2 DEF ListType
  <2>4. /\ list'.state = "opening" /\ list'.part = p + 1 /\ list'.current = after
        /\ list'.since = list.since
    BY <1>3, <2>1 DEF ListType
  <2>5. ASSUME NEW k \in Keys, PartitionOf[k] = p PROVE JudgedRight(k)'
    <3> DEFINE c == k \in after
    <3>1. Known(c, topic[p], clean[p], k, i)
      BY <1>7, <2>5
    <3>2. c \in BOOLEAN
      OBVIOUS
    <3>3. s <= i
      BY <1>1, <1>3, <1>4, <2>2
    <3> HIDE DEF c, p, s
    <3>4. Judged(c, topic[p], clean[p], k, s)
      BY <1>3, <1>4, <3>1, <3>2, <3>3, KnowledgeIsRight
    <3>5. Judged(k \in list'.current, topic'[p], clean'[p], k, list'.since[p])
      BY <1>1, <2>4, <3>4 DEF c, s
    <3> QED
      BY <2>5, <3>5, JudgedFormNow
  <2>6. ASSUME NEW k \in Keys
        PROVE  /\ PartitionOf[k] < list'.part => JudgedRight(k)'
               /\ PartitionOf[k] = list'.part => k \notin list'.current
               /\ PartitionOf[k] > list'.part => k \notin list'.current
    <3>1. PartitionOf[k] \in Int /\ p \in Int
      BY <1>1, <1>9
    <3>2. PartitionOf[k] < list'.part => PartitionOf[k] < p \/ PartitionOf[k] = p
      BY <2>4, <3>1
    <3>3. PartitionOf[k] < list'.part => JudgedRight(k)'
      BY <1>11, <2>4, <2>5, <3>2
    <3>4. PartitionOf[k] >= list'.part => PartitionOf[k] > p
      BY <2>4, <3>1
    <3>5. PartitionOf[k] > p => k \notin after
      BY <1>8, <1>9, <3>1
    <3>6. list'.part \in Int
      BY <2>4, <3>1
    <3> QED
      BY <2>4, <3>1, <3>3, <3>4, <3>5, <3>6
  <2>7. \A q \in 1..Partitions : clean'[q] <= Len(topic'[q]) /\ list'.since[q] <= Len(topic'[q])
    BY <1>1, <1>10, <2>4
  <2> QED
    BY <2>3, <2>4, <2>6, <2>7 DEF ListIsOnItsWay
<1>13. CASE ~AtWatermark(i)
  <2>1. list' = [list EXCEPT !.offset = i, !.current = after]
    BY <1>2, <1>3, <1>13 DEF Went, ListType
  <2>2. i < list.hw
    BY <1>3, <1>4, <1>13 DEF AtWatermark
  <2> HIDE DEF after
  <2>3. list' \in ListType
    BY <1>3, <1>4, <1>5, <2>1 DEF ListType
  <2>4. /\ list'.state = "reading" /\ list'.part = p /\ list'.current = after
        /\ list'.since = list.since /\ list'.offset = i /\ list'.hw = list.hw
    BY <1>1, <1>3, <2>1 DEF ListType
  <2>5. ASSUME NEW k \in Keys, PartitionOf[k] = p PROVE KnownOrAhead(k)'
    <3>1. Known(k \in after, topic[p], clean[p], k, i)
      BY <1>7, <2>5
    <3>2. Known(k \in list'.current, topic'[p], clean'[p], k, list'.offset)
      BY <1>1, <2>4, <3>1
    <3> QED
      BY <2>5, <3>2, KnownFormNow
  <2>6. ASSUME NEW k \in Keys
        PROVE  /\ PartitionOf[k] < list'.part => JudgedRight(k)'
               /\ PartitionOf[k] = list'.part => KnownOrAhead(k)'
               /\ PartitionOf[k] > list'.part => k \notin list'.current
    <3>1. PartitionOf[k] \in Int /\ p \in Int
      BY <1>1, <1>9
    <3>2. PartitionOf[k] > p => k \notin after
      BY <1>8, <1>9, <3>1
    <3> QED
      BY <1>11, <2>4, <2>5, <3>2
  <2>7. /\ list'.part <= Partitions /\ list'.offset < list'.hw
        /\ list'.since[list'.part] <= list'.hw /\ list'.hw <= Len(topic'[list'.part])
    BY <1>1, <2>2, <2>4
  <2>8. \A q \in 1..Partitions : clean'[q] <= Len(topic'[q]) /\ list'.since[q] <= Len(topic'[q])
    BY <1>1, <1>10, <2>4
  <2> QED
    BY <2>3, <2>4, <2>6, <2>7, <2>8 DEF ListIsOnItsWay
<1> QED
  BY <1>12, <1>13

-----------------------------------------------------------------------------
(* 3. A run *)

RunType ==
  [number : Nat, state : {"none", "running", "done", "failed"}, file : Seq(FileLine),
   line : Nat, alone : BOOLEAN]

LinesOf(records, number) == {r.line : r \in {w \in records : w.run = number}}

LEMMA LinesGrow ==
  ASSUME NEW W, NEW r, NEW n
  PROVE  LinesOf(W \cup {r}, n) =
           IF r.run = n THEN LinesOf(W, n) \cup {r.line} ELSE LinesOf(W, n)
BY DEF LinesOf

LEMMA RunFacts ==
  ASSUME TypeOK
  PROVE  /\ run \in RunType
         /\ run.number \in Nat /\ run.line \in Nat /\ run.file \in Seq(FileLine)
         /\ Len(run.file) \in Nat /\ DOMAIN run.file = 1..Len(run.file)
         /\ \A i \in 1..Len(run.file) : run.file[i] \in FileLine
         /\ LinesWritten = LinesOf(Written, run.number)
<1>1. run \in RunType
  BY DEF TypeOK, RunType, FileLine
<1>2. run.number \in Nat /\ run.line \in Nat /\ run.file \in Seq(FileLine)
  BY <1>1 DEF RunType
<1>3. Len(run.file) \in Nat /\ DOMAIN run.file = 1..Len(run.file)
  BY <1>2, LenProperties
<1>4. \A i \in 1..Len(run.file) : run.file[i] \in FileLine
  BY <1>2, ElementOfSeq
<1> QED
  BY <1>1, <1>2, <1>3, <1>4 DEF LinesWritten, LinesOf

(* What the run is asked to send next.                                     *)
LEMMA NextLine ==
  ASSUME TypeOK, HasLine
  PROVE  /\ run.state = "running" /\ run.line + 1 \in 1..Len(run.file)
         /\ Line = run.file[run.line + 1] /\ Line \in FileLine
         /\ Line.key \in Keys
<1>1. run.state = "running" /\ run.line < Len(run.file)
  BY DEF HasLine
<1>2. run.line \in Nat /\ Len(run.file) \in Nat
  BY RunFacts
<1>3. run.line + 1 \in 1..Len(run.file)
  BY <1>1, <1>2
<1>4. Line \in FileLine
  BY <1>3, RunFacts DEF Line
<1> QED
  BY <1>1, <1>3, <1>4 DEF Line, FileLine

(* The last of the first lines of a file about a product is the newest      *)
(* record of the product.                                                  *)
Settled(t, file, n, number) ==
  \A i \in 1..n :
    (\A j \in (i + 1)..n : file[j].key # file[i].key) =>
      LET p == PartitionOf[file[i].key] IN
      \E m \in 1..Len(t[p]) :
        /\ t[p][m].run = number /\ t[p][m].line = i
        /\ \A x \in (m + 1)..Len(t[p]) : t[p][x].key # file[i].key

LEMMA SettledForm ==
  SettledSoFar <=>
    (run.state \in {"running", "done"} /\ run.alone =>
       Settled(topic, run.file, run.line, run.number))
BY DEF SettledSoFar, Settled, Offsets

LEMMA SettledFormNow ==
  SettledSoFar' <=>
    (run'.state \in {"running", "done"} /\ run'.alone =>
       Settled(topic', run'.file, run'.line, run'.number))
BY DEF SettledSoFar, Settled, Offsets

(* Nothing of a run changes.                                               *)
LEMMA RunStays ==
  ASSUME RunInv, run' = run, topic' = topic, tool' = tool
  PROVE  RunInv'
<1>1. Written' = Written /\ LinesWritten' = LinesWritten
  BY DEF Written, Offsets, LinesWritten
<1>2. RunsLeaveAPrefix'
  BY <1>1 DEF RunInv, RunsLeaveAPrefix
<1>3. RunIsWhereItIs'
  BY <1>1 DEF RunInv, RunIsWhereItIs
<1>4. SettledSoFar'
  BY SettledForm, SettledFormNow DEF RunInv
<1> QED
  BY <1>2, <1>3, <1>4 DEF RunInv

(* Somebody else writes.                                                   *)
LEMMA CommandKeepsRun ==
  ASSUME TypeOK, RunInv, IsFiniteSet(Written),
         NEW k \in Keys, NEW b \in BOOLEAN, Command(k, b)
  PROVE  run' \in RunType /\ RunInv'
<1>1. /\ topic' = Sent(k, b, 0, Cardinality(Written) + 1) /\ tool' = tool
      /\ run' = [run EXCEPT !.alone = FALSE]
  BY DEF Command
<1>2. Cardinality(Written) + 1 \in Nat
  <2>1. Cardinality(Written) \in Nat
    BY FS_CardinalityType
  <2> QED
    BY <2>1
<1>3. PICK r : r.run = 0 /\ Written' = Written \cup {r}
  <2> DEFINE l == Cardinality(Written) + 1
             x == [key |-> k, blocks |-> b, run |-> 0, line |-> l]
  <2>0. l \in Nat /\ topic' = Sent(k, b, 0, l)
    BY <1>1, <1>2
  <2> HIDE DEF l
  <2>1. HasGot(PartitionOf[k], x)
    BY <2>0, SentFacts
  <2>2. x.run = 0
    OBVIOUS
  <2> QED
    BY <2>1, <2>2 DEF HasGot
<1>4. run \in RunType /\ run.number \in Nat
  BY RunFacts
<1>5. /\ run' \in RunType /\ run'.alone = FALSE
      /\ run'.number = run.number /\ run'.state = run.state /\ run'.line = run.line
      /\ run'.file = run.file
  BY <1>1, <1>4 DEF RunType
<1>6. run.number > 0 => LinesWritten' = LinesWritten
  <2>1. LinesWritten' = LinesOf(Written', run.number)
    BY <1>5 DEF LinesWritten, LinesOf
  <2>2. r.run # run.number =>
          LinesOf(Written \cup {r}, run.number) = LinesOf(Written, run.number)
    BY LinesGrow
  <2>3. run.number > 0 => r.run # run.number
    BY <1>3, <1>4
  <2> QED
    BY <1>3, <2>1, <2>2, <2>3, RunFacts
<1>7. RunsLeaveAPrefix'
  BY <1>1, <1>5, <1>6 DEF RunInv, RunsLeaveAPrefix
<1>8. RunIsWhereItIs'
  <2>1. run.number = 0 => run.state = "none"
    BY DEF RunInv, RunIsWhereItIs
  <2>2. \A w \in Written' : w.run <= run.number
    BY <1>3, <1>4 DEF RunInv, RunIsWhereItIs
  <2>3. run.state \in {"running", "done"} => LinesWritten' = LinesWritten
    BY <1>4, <1>6, <2>1
  <2> QED
    BY <1>1, <1>5, <2>1, <2>2, <2>3 DEF RunInv, RunIsWhereItIs
<1>9. SettledSoFar'
  BY <1>5 DEF SettledSoFar
<1> QED
  BY <1>5, <1>7, <1>8, <1>9 DEF RunInv

(* A run begins: none of its lines is written.                             *)
LEMMA StartKeepsRun ==
  ASSUME TypeOK, RunInv, NEW f \in Files[tool], StartRun(f)
  PROVE  run' \in RunType /\ RunInv'
<1>1. /\ topic' = topic /\ tool' = tool /\ tool \in Tools
      /\ run' = [number |-> run.number + 1, file |-> f, line |-> 0, alone |-> TRUE,
                 state |-> IF tool = "blacklist" /\ \E i \in DOMAIN f : ~f[i].good
                           THEN "failed" ELSE "running"]
  BY DEF StartRun, TypeOK
<1>2. f \in Seq(FileLine)
  BY <1>1, OperatorToolsAssumption DEF FileLine
<1>3. Len(f) \in Nat /\ run.number \in Nat
  BY <1>2, LenProperties, RunFacts
<1>4. run' \in RunType
  BY <1>1, <1>2, <1>3 DEF RunType
<1>5. /\ run'.number = run.number + 1 /\ run'.line = 0 /\ run'.file = f
      /\ run'.state = IF tool = "blacklist" /\ \E i \in DOMAIN f : ~f[i].good
                      THEN "failed" ELSE "running"
  BY <1>1
<1>6. Written' = Written
  BY <1>1 DEF Written, Offsets
<1>7. LinesWritten' = {}
  <2>1. \A w \in Written : w.run <= run.number
    BY DEF RunInv, RunIsWhereItIs
  <2>2. \A w \in Written : w.run # run.number + 1
    <3>1. \A w \in Written : w.run \in Nat
      BY WrittenRecords DEF Record
    <3> QED
      BY <1>3, <2>1, <3>1
  <2> QED
    BY <1>5, <1>6, <2>2 DEF LinesWritten
<1>8. RunsLeaveAPrefix'
  <2>1. 0 \in 0..Len(run'.file) /\ 1..0 = {}
    BY <1>3, <1>5
  <2>2. /\ LinesWritten' = 1..0
        /\ run'.state = "done" => 0 = Len(run'.file)
        /\ \A i \in 1..0 : run'.file[i].good
        /\ tool' = "blacklist" /\ 0 > 0 => \A i \in DOMAIN run'.file : run'.file[i].good
    BY <1>5, <1>7, <2>1
  <2> QED
    BY <2>1, <2>2 DEF RunsLeaveAPrefix
<1>9. RunIsWhereItIs'
  <2>1. \A w \in Written' : w.run <= run'.number
    <3>1. \A w \in Written : w.run \in Nat
      BY WrittenRecords DEF Record
    <3>2. \A w \in Written : w.run <= run.number
      BY DEF RunInv, RunIsWhereItIs
    <3> QED
      BY <1>3, <1>5, <1>6, <3>1, <3>2
  <2>2. run'.number # 0 /\ run'.line <= Len(run'.file) /\ 1..run'.line = {}
    BY <1>3, <1>5
  <2>3. run'.state \in {"running", "done"} =>
          (tool' = "blacklist" => \A i \in DOMAIN run'.file : run'.file[i].good)
    BY <1>1, <1>5
  <2> QED
    BY <1>5, <1>7, <2>1, <2>2, <2>3 DEF RunIsWhereItIs
<1>10. SettledSoFar'
  <2>1. 1..run'.line = {}
    BY <1>5
  <2> QED
    BY <2>1 DEF SettledSoFar
<1> QED
  BY <1>4, <1>8, <1>9, <1>10 DEF RunInv

(* The record of the next line is one more line of the run.                *)
LEMMA LineSent ==
  ASSUME TypeOK, RunIsWhereItIs, HasLine, run'.number = run.number,
         topic' = Sent(Line.key, TRUE, run.number, run.line + 1)
  PROVE  /\ LinesWritten' = 1..(run.line + 1)
         /\ \A w \in Written' : w.run <= run.number
<1> DEFINE n == run.number
           l == run.line + 1
           r == [key |-> Line.key, blocks |-> TRUE, run |-> n, line |-> l]
<1>1. n \in Nat /\ run.line \in Nat /\ l \in Nat /\ Line.key \in Keys
  BY RunFacts, NextLine
<1>2. LinesOf(Written, n) = 1..run.line
  BY NextLine, RunFacts DEF RunIsWhereItIs
<1>3. topic' = Sent(Line.key, TRUE, n, l)
  OBVIOUS
<1>4. LinesWritten' = LinesOf(Written', n)
  BY DEF LinesWritten, LinesOf
<1>5. r.run = n /\ r.line = l
  OBVIOUS
<1>6. \A w \in Written : w.run <= n
  BY DEF RunIsWhereItIs
<1>7. 1..run.line \cup {l} = 1..l
  BY <1>1
<1> DEFINE k == Line.key
<1> HIDE DEF n, l, k
<1>8. Written' = Written \cup {r}
  <2>1. HasGot(PartitionOf[k], r)
    BY <1>1, <1>3, SentFacts DEF k
  <2> QED
    BY <2>1 DEF HasGot
<1> HIDE DEF r
<1>9. LinesOf(Written \cup {r}, n) = LinesOf(Written, n) \cup {l}
  BY <1>5, LinesGrow
<1>10. \A w \in Written' : w.run <= n
  BY <1>1, <1>5, <1>6, <1>8
<1> QED
  BY <1>2, <1>4, <1>7, <1>8, <1>9, <1>10 DEF n, l

(* A line is published.                                                    *)
LEMMA PublishKeepsRun ==
  ASSUME TypeOK, RunInv, PublishLine
  PROVE  run' \in RunType /\ RunInv'
<1> DEFINE n == run.number
           l == run.line + 1
           file == run.file
<1>1. /\ HasLine /\ Line.good /\ topic' = Sent(Line.key, TRUE, n, l)
      /\ run' = [run EXCEPT !.line = @ + 1] /\ tool' = tool
  BY DEF PublishLine
<1>2. /\ run.state = "running" /\ l \in 1..Len(file) /\ Line = file[l] /\ Line.key \in Keys
      /\ run \in RunType /\ n \in Nat /\ run.line \in Nat /\ Len(file) \in Nat
      /\ file \in Seq(FileLine) /\ DOMAIN file = 1..Len(file)
  BY <1>1, NextLine, RunFacts
<1>3. /\ run' \in RunType /\ run'.number = n /\ run'.state = "running" /\ run'.line = l
      /\ run'.file = file /\ run'.alone = run.alone
  BY <1>1, <1>2 DEF RunType
<1>4. LinesWritten' = 1..l /\ \A w \in Written' : w.run <= n
  BY <1>1, <1>3, LineSent DEF RunInv
<1>5. /\ \A i \in 1..l : file[i].good
      /\ tool = "blacklist" => \A i \in DOMAIN file : file[i].good
  <2>1. /\ \A i \in 1..run.line : file[i].good
        /\ tool = "blacklist" => \A i \in DOMAIN file : file[i].good
    BY <1>2 DEF RunInv, RunIsWhereItIs
  <2>2. \A i \in 1..l : i \in 1..run.line \/ i = l
    BY <1>2
  <2> QED
    BY <1>1, <1>2, <2>1, <2>2
<1>6. n # 0
  BY <1>2 DEF RunInv, RunIsWhereItIs
<1> HIDE DEF n, l, file
<1>7. RunsLeaveAPrefix'
  <2>1. l \in 0..Len(file)
    BY <1>2
  <2> QED
    BY <1>1, <1>3, <1>4, <1>5, <2>1 DEF RunsLeaveAPrefix
<1>8. RunIsWhereItIs'
  <2>1. l <= Len(file)
    BY <1>2
  <2> QED
    BY <1>1, <1>3, <1>4, <1>5, <1>6, <2>1 DEF RunIsWhereItIs
<1>9. SettledSoFar'
  <2> DEFINE at == PartitionOf[Line.key]
             last == Len(topic[at])
  <2>1. /\ at \in 1..Partitions /\ last \in Nat
        /\ \A q \in 1..Partitions : q # at => topic'[q] = topic[q]
        /\ Len(topic'[at]) = last + 1
        /\ \A i \in 1..last : topic'[at][i] = topic[at][i]
        /\ topic'[at][last + 1] = [key |-> Line.key, blocks |-> TRUE, run |-> n, line |-> l]
    <3> DEFINE k == Line.key
    <3>1. k \in Keys /\ n \in Nat /\ l \in Nat /\ topic' = Sent(k, TRUE, n, l)
      BY <1>1, <1>2
    <3> HIDE DEF k
    <3>2. HasGot(PartitionOf[k], [key |-> k, blocks |-> TRUE, run |-> n, line |-> l])
      BY <3>1, SentFacts
    <3>3. PartitionOf[k] \in 1..Partitions /\ Len(topic[PartitionOf[k]]) \in Nat
      BY <3>1, TopicFacts
    <3> QED
      BY <3>2, <3>3 DEF k, HasGot
  <2> HIDE DEF at, last
  <2> DEFINE Last(i) ==
               LET p == PartitionOf[file[i].key] IN
               \E m \in 1..Len(topic'[p]) :
                 /\ topic'[p][m].run = n /\ topic'[p][m].line = i
                 /\ \A x \in (m + 1)..Len(topic'[p]) : topic'[p][x].key # file[i].key
  <2> SUFFICES ASSUME run'.alone PROVE Settled(topic', file, l, n)
    BY <1>3, SettledFormNow
  <2> SUFFICES ASSUME NEW i \in 1..l, \A j \in (i + 1)..l : file[j].key # file[i].key
               PROVE  Last(i)
    BY DEF Settled
  <2> DEFINE p == PartitionOf[file[i].key]
  <2>2. CASE i = l
    <3>1. p = at
      BY <1>2, <2>2 DEF at
    <3>2. last + 1 \in 1..Len(topic'[p])
      BY <2>1, <3>1
    <3>3. topic'[p][last + 1].run = n /\ topic'[p][last + 1].line = i
      BY <2>1, <2>2, <3>1
    <3>4. (last + 1 + 1)..Len(topic'[p]) = {}
      BY <2>1, <3>1
    <3> QED
      BY <3>2, <3>3, <3>4
  <2>3. CASE i # l
    <3>1. i \in 1..run.line
      BY <1>2, <2>3 DEF l
    <3>2. \A j \in (i + 1)..run.line : file[j].key # file[i].key
      BY <1>2 DEF l
    <3>3. l \in (i + 1)..l
      BY <1>2, <3>1, <2>3
    <3>4. Line.key # file[i].key
      BY <1>2, <3>3
    <3>5. PICK m \in 1..Len(topic[p]) :
            /\ topic[p][m].run = n /\ topic[p][m].line = i
            /\ \A x \in (m + 1)..Len(topic[p]) : topic[p][x].key # file[i].key
      <4>1. Settled(topic, file, run.line, n)
        BY <1>2, <1>3, SettledForm DEF RunInv, file, n
      <4> QED
        BY <3>1, <3>2, <4>1 DEF Settled
    <3>6. file[i] \in FileLine
      BY <1>2, <3>1, RunFacts DEF l, file
    <3>7. p \in 1..Partitions /\ Len(topic[p]) \in Nat
      BY <3>6, TopicFacts DEF FileLine
    <3>8. CASE p # at
      <4>1. topic'[p] = topic[p]
        BY <2>1, <3>7, <3>8
      <4> QED
        BY <3>5, <4>1
    <3>9. CASE p = at
      <4>1. m \in 1..Len(topic'[p]) /\ topic'[p][m] = topic[p][m]
        BY <2>1, <3>5, <3>9 DEF last
      <4>2. ASSUME NEW x \in (m + 1)..Len(topic'[p]) PROVE topic'[p][x].key # file[i].key
        <5>1. CASE x = last + 1
          BY <2>1, <3>4, <3>9, <5>1
        <5>2. CASE x # last + 1
          <6>1. x \in (m + 1)..Len(topic[p]) /\ x \in 1..last
            BY <2>1, <3>5, <3>9, <5>2 DEF last
          <6> QED
            BY <2>1, <3>5, <3>9, <6>1
        <5> QED
          BY <5>1, <5>2
      <4> QED
        BY <3>5, <4>1, <4>2
    <3> QED
      BY <3>8, <3>9
  <2> QED
    BY <2>2, <2>3
<1> QED
  BY <1>3, <1>7, <1>8, <1>9 DEF RunInv

(* A run stops, before the record of its next line is in the topic or after. *)
LEMMA StopKeepsRun ==
  ASSUME TypeOK, RunInv, BadLine \/ PublishFails
  PROVE  run' \in RunType /\ RunInv'
<1> DEFINE n == run.number
           l == run.line + 1
           file == run.file
<1>1. /\ HasLine /\ run' = [run EXCEPT !.state = "failed"] /\ tool' = tool
      /\ \/ topic' = topic
         \/ topic' = Sent(Line.key, TRUE, n, l) /\ Line.good
  BY DEF BadLine, PublishFails
<1>2. /\ run.state = "running" /\ l \in 1..Len(file) /\ Line = file[l] /\ Line.key \in Keys
      /\ run \in RunType /\ n \in Nat /\ run.line \in Nat /\ Len(file) \in Nat
  BY <1>1, NextLine, RunFacts
<1>3. /\ run' \in RunType /\ run'.number = n /\ run'.state = "failed"
      /\ run'.line = run.line /\ run'.file = file
  BY <1>1, <1>2 DEF RunType
<1>4. /\ n # 0
      /\ LinesWritten = 1..run.line
      /\ \A w \in Written : w.run <= n
      /\ \A i \in 1..run.line : file[i].good
      /\ tool = "blacklist" => \A i \in DOMAIN file : file[i].good
      /\ run.line <= Len(file)
  BY <1>2 DEF RunInv, RunIsWhereItIs
<1>5. \E m \in 0..Len(file) :
        /\ LinesWritten' = 1..m
        /\ \A i \in 1..m : file[i].good
  <2>1. CASE topic' = topic
    <3>1. LinesWritten' = LinesWritten
      BY <1>3, <2>1 DEF LinesWritten, Written, Offsets
    <3>2. run.line \in 0..Len(file)
      BY <1>2, <1>4
    <3> QED
      BY <1>4, <3>1, <3>2
  <2>2. CASE topic' = Sent(Line.key, TRUE, n, l) /\ Line.good
    <3>1. LinesWritten' = 1..l
      BY <1>1, <1>3, <2>2, LineSent DEF RunInv
    <3>2. \A i \in 1..l : i \in 1..run.line \/ i = l
      BY <1>2
    <3>3. l \in 0..Len(file)
      BY <1>2
    <3> QED
      BY <1>2, <1>4, <2>2, <3>1, <3>2, <3>3
  <2> QED
    BY <1>1, <2>1, <2>2
<1>6. \A w \in Written' : w.run <= n
  <2>1. CASE topic' = topic
    BY <1>4, <2>1 DEF Written, Offsets
  <2>2. CASE topic' = Sent(Line.key, TRUE, n, l)
    BY <1>1, <1>3, <2>2, LineSent DEF RunInv
  <2> QED
    BY <1>1, <2>1, <2>2
<1> HIDE DEF n, l, file
<1>7. RunsLeaveAPrefix'
  BY <1>1, <1>3, <1>4, <1>5 DEF RunsLeaveAPrefix
<1>8. RunIsWhereItIs'
  BY <1>3, <1>4, <1>6 DEF RunIsWhereItIs
<1>9. SettledSoFar'
  BY <1>3 DEF SettledSoFar
<1> QED
  BY <1>3, <1>7, <1>8, <1>9 DEF RunInv

(* The last line was published.                                            *)
LEMMA FinishKeepsRun ==
  ASSUME TypeOK, RunInv, FinishRun
  PROVE  run' \in RunType /\ RunInv'
<1>1. /\ run.state = "running" /\ run.line = Len(run.file)
      /\ run' = [run EXCEPT !.state = "done"] /\ tool' = tool /\ topic' = topic
  BY DEF FinishRun
<1>2. run \in RunType /\ Len(run.file) \in Nat
  BY RunFacts
<1>3. /\ run' \in RunType /\ run'.number = run.number /\ run'.state = "done"
      /\ run'.line = run.line /\ run'.file = run.file /\ run'.alone = run.alone
  BY <1>1, <1>2 DEF RunType
<1>4. Written' = Written /\ LinesWritten' = LinesWritten
  BY <1>1, <1>3 DEF Written, Offsets, LinesWritten
<1>5. RunIsWhereItIs'
  BY <1>1, <1>3, <1>4 DEF RunInv, RunIsWhereItIs
<1>6. RunsLeaveAPrefix'
  <2>1. /\ LinesWritten = 1..run.line /\ \A i \in 1..run.line : run.file[i].good
        /\ tool = "blacklist" => \A i \in DOMAIN run.file : run.file[i].good
    BY <1>1 DEF RunInv, RunIsWhereItIs
  <2>2. run.line \in 0..Len(run.file)
    BY <1>1, <1>2
  <2> QED
    BY <1>1, <1>3, <1>4, <2>1, <2>2 DEF RunsLeaveAPrefix
<1>7. SettledSoFar'
  BY <1>1, <1>3, SettledForm, SettledFormNow DEF RunInv
<1> QED
  BY <1>3, <1>5, <1>6, <1>7 DEF RunInv

-----------------------------------------------------------------------------
(* 4. All together *)

(* A record is written, or none.                                           *)
LEMMA SendingKeeps ==
  ASSUME Inv, NEW k \in Keys, NEW b \in BOOLEAN, NEW n \in Nat, NEW l \in Nat,
         topic' = topic \/ topic' = Sent(k, b, n, l), clean' = clean, list' = list
  PROVE  /\ topic' \in [1..Partitions -> Seq(Record)]
         /\ InTheirPartition' /\ ListIsOnItsWay' /\ IsFiniteSet(Written')
<1> DEFINE p == PartitionOf[k]
<1>1. TypeOK /\ InTheirPartition /\ ListIsOnItsWay /\ IsFiniteSet(Written)
  BY DEF Inv
<1>2. CASE topic' = topic
  <2>1. GoesOn /\ Written' = Written /\ topic' \in [1..Partitions -> Seq(Record)]
    BY <1>1, <1>2, TopicStands, NothingSent
  <2>2. InTheirPartition'
    BY <1>1, <1>2 DEF InTheirPartition, Offsets
  <2> QED
    BY <1>1, <2>1, <2>2, ListStays
<1>3. CASE topic' = Sent(k, b, n, l)
  <2> DEFINE r == [key |-> k, blocks |-> b, run |-> n, line |-> l]
  <2>0. HasGot(p, r)
    BY <1>1, <1>3, SentFacts
  <2>1. /\ topic' \in [1..Partitions -> Seq(Record)]
        /\ \A q \in 1..Partitions : q # p => topic'[q] = topic[q]
        /\ Len(topic'[p]) = Len(topic[p]) + 1
        /\ \A i \in 1..Len(topic[p]) : topic'[p][i] = topic[p][i]
        /\ topic'[p][Len(topic[p]) + 1] = r
        /\ Grows
        /\ Written' = Written \cup {r}
    BY <2>0 DEF HasGot
  <2>2. IsFiniteSet(Written')
    BY <1>1, <2>1, FS_AddElement
  <2>3. p \in 1..Partitions /\ Len(topic[p]) \in Nat
    BY <1>1, TopicFacts
  <2>4. \A q \in 1..Partitions :
          /\ Len(topic[q]) \in Nat /\ clean[q] \in Nat /\ clean[q] <= Len(topic[q])
    BY <1>1, TopicFacts DEF ListIsOnItsWay
  <2>5. \A q \in 1..Partitions : Len(topic'[q]) \in Nat
    BY <2>1, LenProperties
  <2>6. GoesOn
    BY <2>1, <2>4, <2>5 DEF GoesOn, Grows
  <2>7. InTheirPartition'
    <3> SUFFICES ASSUME NEW q \in 1..Partitions, NEW i \in 1..Len(topic'[q])
                 PROVE  PartitionOf[topic'[q][i].key] = q
      BY DEF InTheirPartition, Offsets
    <3>1. CASE q # p
      BY <1>1, <2>1, <3>1 DEF InTheirPartition, Offsets
    <3>2. CASE q = p /\ i = Len(topic[p]) + 1
      BY <2>1, <3>2
    <3>3. CASE q = p /\ i # Len(topic[p]) + 1
      <4>1. i \in 1..Len(topic[p])
        BY <2>1, <2>3, <3>3
      <4>2. topic'[q][i] = topic[q][i]
        BY <2>1, <3>3, <4>1
      <4>3. PartitionOf[topic[q][i].key] = q
        BY <1>1, <3>3, <4>1 DEF InTheirPartition, Offsets
      <4> QED
        BY <4>2, <4>3
    <3> QED
      BY <3>1, <3>2, <3>3
  <2> QED
    BY <1>1, <2>1, <2>2, <2>6, <2>7, ListStays
<1> QED
  BY <1>2, <1>3

(* The cleaner goes on.                                                    *)
LEMMA CleanKeeps ==
  ASSUME Inv, NEW p \in 1..Partitions, Clean(p)
  PROVE  clean' \in [1..Partitions -> Nat] /\ ListIsOnItsWay'
<1>1. TypeOK /\ ListIsOnItsWay
  BY DEF Inv
<1>2. topic' = topic /\ list' = list /\ clean \in [1..Partitions -> Nat]
  BY <1>1 DEF Clean, TypeOK
<1>3. PICK n \in (clean[p] + 1)..(Len(topic[p]) - 1) : clean' = [clean EXCEPT ![p] = n]
  BY DEF Clean
<1>4. \A q \in 1..Partitions :
        /\ Len(topic[q]) \in Nat /\ clean[q] \in Nat /\ clean[q] <= Len(topic[q])
  BY <1>1, TopicFacts DEF ListIsOnItsWay
<1>5. n \in Nat /\ clean[p] <= n /\ n <= Len(topic[p])
  BY <1>3, <1>4
<1>6. /\ clean' \in [1..Partitions -> Nat]
      /\ \A q \in 1..Partitions : clean'[q] = IF q = p THEN n ELSE clean[q]
  BY <1>2, <1>3, <1>5
<1>7. GoesOn
  <2>1. Grows
    BY <1>1, <1>2, NothingSent
  <2> QED
    BY <1>2, <1>4, <1>5, <1>6, <2>1 DEF GoesOn
<1> QED
  BY <1>1, <1>2, <1>6, <1>7, ListStays

(* The topic is as it was.                                                 *)
LEMMA TopicKept ==
  ASSUME Inv, topic' = topic
  PROVE  InTheirPartition' /\ IsFiniteSet(Written')
BY DEF Inv, InTheirPartition, Written, Offsets

(* The types, variable by variable.                                        *)
LEMMA TypesAfter ==
  ASSUME tool' \in Tools, topic' \in [1..Partitions -> Seq(Record)],
         clean' \in [1..Partitions -> Nat], run' \in RunType, list' \in ListType,
         faults' \in 0..MaxFaults
  PROVE  TypeOK'
BY DEF TypeOK, Record, RunType, FileLine, ListType

LEMMA TypesNow ==
  ASSUME Inv
  PROVE  /\ TypeOK /\ tool \in Tools /\ topic \in [1..Partitions -> Seq(Record)]
         /\ clean \in [1..Partitions -> Nat] /\ run \in RunType /\ list \in ListType
         /\ faults \in 0..MaxFaults /\ MaxFaults \in Nat
BY OperatorToolsAssumption DEF Inv, TypeOK, Record, RunType, FileLine, ListType

LEMMA InitEstablishes == Init => Inv
<1> SUFFICES ASSUME Init PROVE Inv
  OBVIOUS
<1>1. /\ tool \in Tools /\ topic = [p \in 1..Partitions |-> <<>>]
      /\ clean = [p \in 1..Partitions |-> 0] /\ faults = 0
      /\ run = [number |-> 0, state |-> "none", file |-> <<>>, line |-> 0, alone |-> TRUE]
      /\ list = [number |-> 0, state |-> "none", part |-> 1, hw |-> 0, offset |-> 0,
                 current |-> {}, since |-> clean]
  BY DEF Init
<1>2. <<>> \in Seq(Record) /\ <<>> \in Seq(FileLine) /\ Len(<<>>) = 0
  BY EmptySeq
<1>3. topic \in [1..Partitions -> Seq(Record)]
  BY <1>1, <1>2
<1>4. run \in RunType
  BY <1>1, <1>2 DEF RunType
<1>5. list \in ListType
  <2>1. 1 \in 1..(Partitions + 1) /\ clean \in [1..Partitions -> Nat]
    BY <1>1, OperatorToolsAssumption
  <2> QED
    BY <1>1, <2>1 DEF ListType
<1>6. TypeOK
  <2>1. faults \in 0..MaxFaults /\ clean \in [1..Partitions -> Nat]
    BY <1>1, OperatorToolsAssumption
  <2> QED
    BY <1>1, <1>3, <1>4, <1>5, <2>1 DEF TypeOK, Record, RunType, FileLine, ListType
<1>7. \A q \in 1..Partitions : Len(topic[q]) = 0
  BY <1>1, <1>2
<1>8. Written = {}
  BY <1>7 DEF Written, Offsets
<1>9. RunInv
  <2>1. run.number = 0 /\ run.state = "none" /\ run.line = 0 /\ Len(run.file) = 0
    BY <1>1, <1>2
  <2> QED
    BY <1>8, <2>1 DEF RunInv, RunsLeaveAPrefix, RunIsWhereItIs, SettledSoFar
<1>10. InTheirPartition
  BY <1>7 DEF InTheirPartition, Offsets
<1>11. ListIsOnItsWay
  <2>1. list.state = "none" /\ \A q \in 1..Partitions : clean[q] = 0 /\ list.since[q] = 0
    BY <1>1
  <2> QED
    BY <1>7, <2>1 DEF ListIsOnItsWay
<1>12. IsFiniteSet(Written)
  BY <1>8, FS_EmptySet
<1> QED
  BY <1>6, <1>9, <1>10, <1>11, <1>12 DEF Inv

(* One case per kind of step.                                              *)
LEMMA NextPreserves == Inv /\ [Next]_vars => Inv'
<1> SUFFICES ASSUME Inv, [Next]_vars PROVE Inv'
  OBVIOUS
<1>0. /\ TypeOK /\ RunInv /\ InTheirPartition /\ ListIsOnItsWay /\ IsFiniteSet(Written)
      /\ tool \in Tools /\ topic \in [1..Partitions -> Seq(Record)]
      /\ clean \in [1..Partitions -> Nat] /\ run \in RunType /\ list \in ListType
      /\ faults \in 0..MaxFaults /\ MaxFaults \in Nat
  BY TypesNow DEF Inv
<1>1. ASSUME NEW k \in Keys, NEW b \in BOOLEAN, Command(k, b)
      PROVE  Inv'
  <2> DEFINE l == Cardinality(Written) + 1
  <2>1. /\ topic' = Sent(k, b, 0, l)
        /\ tool' = tool /\ clean' = clean /\ list' = list /\ faults' = faults
    BY <1>1 DEF Command
  <2>2. l \in Nat
    <3>1. Cardinality(Written) \in Nat
      BY <1>0, FS_CardinalityType
    <3> QED
      BY <3>1
  <2> HIDE DEF l
  <2>3. /\ topic' \in [1..Partitions -> Seq(Record)]
        /\ InTheirPartition' /\ ListIsOnItsWay' /\ IsFiniteSet(Written')
    BY <2>1, <2>2, SendingKeeps
  <2>4. run' \in RunType /\ RunInv'
    BY <1>0, <1>1, CommandKeepsRun
  <2>5. TypeOK'
    BY <1>0, <2>1, <2>3, <2>4, TypesAfter
  <2> QED
    BY <2>3, <2>4, <2>5 DEF Inv
<1>2. ASSUME PublishLine \/ PublishFails
      PROVE  Inv'
  <2>1. /\ HasLine
        /\ topic' = topic \/ topic' = Sent(Line.key, TRUE, run.number, run.line + 1)
        /\ tool' = tool /\ clean' = clean /\ list' = list
        /\ faults' = faults \/ (faults < MaxFaults /\ faults' = faults + 1)
    BY <1>2 DEF PublishLine, PublishFails
  <2>2. Line.key \in Keys /\ run.number \in Nat /\ run.line + 1 \in Nat
    BY <1>0, <2>1, NextLine, RunFacts
  <2> DEFINE k == Line.key
             n == run.number
             l == run.line + 1
  <2>3. /\ k \in Keys /\ n \in Nat /\ l \in Nat
        /\ topic' = topic \/ topic' = Sent(k, TRUE, n, l)
    BY <2>1, <2>2
  <2> HIDE DEF k, n, l
  <2>4. /\ topic' \in [1..Partitions -> Seq(Record)]
        /\ InTheirPartition' /\ ListIsOnItsWay' /\ IsFiniteSet(Written')
    BY <2>1, <2>3, SendingKeeps
  <2>5. run' \in RunType /\ RunInv'
    BY <1>0, <1>2, PublishKeepsRun, StopKeepsRun
  <2>6. faults' \in 0..MaxFaults
    BY <1>0, <2>1
  <2>7. TypeOK'
    BY <1>0, <2>1, <2>4, <2>5, <2>6, TypesAfter
  <2> QED
    BY <2>4, <2>5, <2>7 DEF Inv
<1>3. ASSUME (\E f \in Files[tool] : StartRun(f)) \/ BadLine \/ FinishRun
      PROVE  Inv'
  <2>1. /\ topic' = topic /\ tool' = tool /\ clean' = clean /\ list' = list /\ faults' = faults
    BY <1>3 DEF StartRun, BadLine, FinishRun
  <2>2. run' \in RunType /\ RunInv'
    BY <1>0, <1>3, StartKeepsRun, StopKeepsRun, FinishKeepsRun
  <2>3. InTheirPartition' /\ IsFiniteSet(Written')
    BY <2>1, TopicKept
  <2>4. ListIsOnItsWay'
    BY <1>0, <2>1, TopicStands, ListStays
  <2>5. TypeOK'
    BY <1>0, <2>1, <2>2, TypesAfter
  <2> QED
    BY <2>2, <2>3, <2>4, <2>5 DEF Inv
<1>4. ASSUME NEW p \in 1..Partitions, Clean(p)
      PROVE  Inv'
  <2>1. /\ topic' = topic /\ tool' = tool /\ run' = run /\ list' = list /\ faults' = faults
    BY <1>4 DEF Clean
  <2>2. clean' \in [1..Partitions -> Nat] /\ ListIsOnItsWay'
    BY <1>4, CleanKeeps
  <2>3. InTheirPartition' /\ IsFiniteSet(Written') /\ RunInv'
    BY <1>0, <2>1, TopicKept, RunStays
  <2>4. TypeOK'
    BY <1>0, <2>1, <2>2, TypesAfter
  <2> QED
    BY <2>2, <2>3, <2>4 DEF Inv
<1>5. ASSUME StartList \/ OpenPartition \/ Receive \/ PrintList \/ ListFails
      PROVE  Inv'
  <2>1. /\ topic' = topic /\ tool' = tool /\ run' = run /\ clean' = clean
        /\ faults' = faults \/ (faults < MaxFaults /\ faults' = faults + 1)
    BY <1>5 DEF StartList, OpenPartition, Receive, PrintList, ListFails
  <2>2. list' \in ListType /\ ListIsOnItsWay'
    BY <1>0, <1>5, StartListKeeps, OpenPartitionKeeps, ReceiveKeeps, ListEndKeeps
  <2>3. InTheirPartition' /\ IsFiniteSet(Written') /\ RunInv'
    BY <1>0, <2>1, TopicKept, RunStays
  <2>4. faults' \in 0..MaxFaults
    BY <1>0, <2>1
  <2>5. TypeOK'
    BY <1>0, <2>1, <2>2, <2>4, TypesAfter
  <2> QED
    BY <2>2, <2>3, <2>5 DEF Inv
<1>6. ASSUME UNCHANGED vars PROVE Inv'
  <2>1. /\ topic' = topic /\ tool' = tool /\ run' = run /\ clean' = clean /\ list' = list
        /\ faults' = faults
    BY <1>6 DEF vars
  <2>2. ListIsOnItsWay' /\ InTheirPartition' /\ IsFiniteSet(Written') /\ RunInv'
    BY <1>0, <2>1, TopicKept, RunStays, TopicStands, ListStays
  <2>3. TypeOK'
    BY <1>0, <2>1, TypesAfter
  <2> QED
    BY <2>2, <2>3 DEF Inv
<1> QED
  BY <1>1, <1>2, <1>3, <1>4, <1>5, <1>6 DEF Next

(* What follows: a complete run has settled its file, and a printed list is *)
(* right.                                                                  *)
LEMMA InvImplies == Inv => IInv /\ ListIsRight
<1> SUFFICES ASSUME Inv PROVE IInv /\ ListIsRight
  OBVIOUS
<1>1. TypeOK /\ RunInv /\ InTheirPartition /\ ListIsOnItsWay
  BY DEF Inv
<1>2. CompleteRunsSettle
  <2>1. run.state = "done" => run.line = Len(run.file)
    BY <1>1 DEF RunInv, RunIsWhereItIs
  <2>2. DOMAIN run.file = 1..Len(run.file)
    BY <1>1, RunFacts
  <2> QED
    BY <1>1, <2>1, <2>2 DEF RunInv, SettledSoFar, CompleteRunsSettle
<1>3. ListIsRight
  <2> SUFFICES ASSUME list.state = "printed", NEW k \in Keys PROVE JudgedRight(k)
    BY DEF ListIsRight
  <2>1. PartitionOf[k] \in 1..Partitions /\ Partitions \in Nat /\ list.part = Partitions + 1
    BY <1>1, TopicFacts DEF ListIsOnItsWay
  <2>2. PartitionOf[k] < list.part
    BY <2>1
  <2> QED
    BY <1>1, <2>2 DEF ListIsOnItsWay
<1> QED
  BY <1>1, <1>2, <1>3 DEF IInv, RunInv

(* The inductive invariant: runs of blacklist load and of shop-producer     *)
(* leave a prefix of their file, whatever fails and whoever writes besides, *)
(* and a run that ends well has the last word on its products.             *)
THEOREM Invariance == Spec => []IInv
<1>1. Inv /\ [Next]_vars => Inv'
  BY NextPreserves
<1>2. Inv => IInv
  BY InvImplies
<1> QED
  BY <1>1, <1>2, InitEstablishes, PTL DEF Spec

(* What blacklist list prints is right about every product, although it     *)
(* reads partition by partition while commands are written and removed.    *)
THEOREM ListsAreRight == Spec => []ListIsRight
<1>1. Inv /\ [Next]_vars => Inv'
  BY NextPreserves
<1>2. Inv => ListIsRight
  BY InvImplies
<1> QED
  BY <1>1, <1>2, InitEstablishes, PTL DEF Spec
=============================================================================
