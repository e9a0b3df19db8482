------------------------- MODULE ChatPipelineProofs -------------------------
(***************************************************************************)
(* Proofs about ChatPipeline, for any users, words, events and messages    *)
(* and any number of restarts.                                             *)
(***************************************************************************)
EXTENDS ChatPipeline, SequenceTheorems, TLAPS

-----------------------------------------------------------------------------
(* Sessions: what Goka marks and what is in flight *)

(* The more idle messages and the more committed, the more are overtaken.  *)
LEMMA OvertakenGrows ==
  ASSUME NEW I, NEW J \in SUBSET Nat, I \subseteq J,
         NEW c \in Nat, NEW d \in Nat, c <= d
  PROVE  Overtaken(I, c) \subseteq Overtaken(J, d)
  BY DEF Overtaken

(* A longer topic, with more idle messages, leaves the session in order.   *)
LEMMA SessionLonger ==
  ASSUME NEW s \in Sessions, NEW n \in Nat, NEW n2 \in Nat, NEW c \in Nat,
         NEW I \in SUBSET Nat, NEW J \in SUBSET Nat, I \subseteq J, n <= n2,
         SessionOK(s, n, c, I)
  PROVE  SessionOK(s, n2, c, J)
<1>1. \A m \in {c, s.marked} : Overtaken(I, m) \subseteq Overtaken(J, m)
  <2>1. ASSUME NEW m \in Nat PROVE Overtaken(I, m) \subseteq Overtaken(J, m)
    BY OvertakenGrows, m <= m
  <2> QED
    BY <2>1 DEF Sessions
<1>2. /\ c <= s.marked /\ s.marked <= s.next /\ s.next <= n2
  BY DEF SessionOK, Sessions
<1> QED
  BY <1>1, <1>2 DEF SessionOK

(* A message without output is marked past what is in flight.              *)
LEMMA SessionPasses ==
  ASSUME NEW s \in Sessions, NEW n \in Nat, NEW c \in Nat, NEW I \in SUBSET Nat,
         SessionOK(s, n, c, I), s.next < n, s.next + 1 \in I
  PROVE  Pass(s) \in Sessions /\ SessionOK(Pass(s), n, c, I)
<1> DEFINE t == Pass(s)
<1>1. /\ t.next = s.next + 1 /\ t.marked = s.next + 1 /\ t.flight = s.flight
      /\ t \in Sessions
  BY DEF Pass, Sessions
<1>2. /\ c <= t.marked /\ t.marked <= t.next /\ t.next <= n
      /\ t.flight \subseteq 1..t.next
  BY <1>1 DEF SessionOK, Sessions
<1>3. \A i \in t.flight : \A j \in i..t.next : j \notin I => j \in t.flight
  BY <1>1 DEF SessionOK, Sessions
<1>4. \A i \in t.flight : i \in Overtaken(I, s.next + 1)
  BY <1>1 DEF SessionOK, Sessions, Overtaken
<1>5. \A m \in {c, t.marked} : \A i \in t.flight : i <= m => i \in Overtaken(I, m)
  BY <1>1, <1>4 DEF SessionOK
<1> HIDE DEF t
<1> QED
  BY <1>1, <1>2, <1>3, <1>5 DEF SessionOK, t

(* A message with output joins those in flight.                            *)
LEMMA SessionSends ==
  ASSUME NEW s \in Sessions, NEW n \in Nat, NEW c \in Nat, NEW I \in SUBSET Nat,
         SessionOK(s, n, c, I), s.next < n
  PROVE  Send(s) \in Sessions /\ SessionOK(Send(s), n, c, I)
<1> DEFINE t == Send(s)
<1>1. /\ t.next = s.next + 1 /\ t.marked = s.marked
      /\ t.flight = s.flight \cup {s.next + 1}
      /\ t \in Sessions
  <2>1. s.next + 1 \in Nat /\ s.flight \cup {s.next + 1} \in SUBSET Nat
    BY DEF Sessions
  <2> QED
    BY <2>1 DEF Send, Sessions
<1>2. /\ c <= t.marked /\ t.marked <= t.next /\ t.next <= n
      /\ t.flight \subseteq 1..t.next
  BY <1>1 DEF SessionOK, Sessions
<1>3. \A i \in t.flight : \A j \in i..t.next : j \notin I => j \in t.flight
  BY <1>1 DEF SessionOK, Sessions
<1>4. \A m \in {c, t.marked} : m < s.next + 1
  BY <1>1 DEF SessionOK, Sessions
<1>5. \A m \in {c, t.marked} : \A i \in t.flight : i <= m => i \in Overtaken(I, m)
  BY <1>1, <1>4 DEF SessionOK, Sessions
<1> HIDE DEF t
<1> QED
  BY <1>1, <1>2, <1>3, <1>5 DEF SessionOK, t

(* The oldest output is acknowledged; its message may be marked already.   *)
LEMMA SessionAcknowledges ==
  ASSUME NEW s \in Sessions, NEW n \in Nat, NEW c \in Nat, NEW I \in SUBSET Nat,
         SessionOK(s, n, c, I), NEW o, IsOldest(s, o)
  PROVE  Acknowledge(s, o) \in Sessions /\ SessionOK(Acknowledge(s, o), n, c, I)
<1> DEFINE t == Acknowledge(s, o)
<1>1. o \in 1..s.next /\ o \in s.flight /\ \A j \in s.flight : o <= j
  BY DEF SessionOK, IsOldest
<1>2. /\ t.next = s.next /\ t.marked = (IF s.marked < o THEN o ELSE s.marked)
      /\ t.flight = s.flight \ {o}
      /\ t \in Sessions
  BY <1>1 DEF Acknowledge, Sessions
<1>3. /\ c <= t.marked /\ t.marked <= t.next /\ t.next <= n
      /\ t.flight \subseteq 1..t.next
  BY <1>1, <1>2 DEF SessionOK, Sessions
<1>4. ASSUME NEW i \in t.flight, NEW j \in i..t.next, j \notin I
      PROVE  j \in t.flight
  <2>1. i \in s.flight /\ i # o /\ o <= i /\ i \in Nat
    BY <1>1, <1>2 DEF Sessions
  <2>2. j \in s.flight
    BY <1>2, <1>4, <2>1 DEF SessionOK
  <2> QED
    BY <1>1, <1>2, <2>1, <2>2
<1>5. ASSUME NEW m \in {c, t.marked}, NEW i \in t.flight, i <= m
      PROVE  i \in Overtaken(I, m)
  <2>1. i \in s.flight /\ i # o /\ o <= i /\ i \in Nat
    BY <1>1, <1>2 DEF Sessions
  <2>2. m \in {c, s.marked} \/ m = o
    BY <1>2
  <2>3. m # o
    BY <1>1, <1>5, <2>1
  <2> QED
    BY <1>5, <2>1, <2>2, <2>3 DEF SessionOK
<1> HIDE DEF t
<1> QED
  BY <1>2, <1>3, <1>4, <1>5 DEF SessionOK, t

(* What is marked may be committed.                                        *)
LEMMA SessionCommits ==
  ASSUME NEW s \in Sessions, NEW n \in Nat, NEW c \in Nat, NEW I \in SUBSET Nat,
         SessionOK(s, n, c, I), NEW d \in {c, s.marked}
  PROVE  /\ SessionOK(s, n, d, I) /\ d \in Nat /\ c <= d /\ d <= s.next /\ d <= n
         /\ \A i \in s.flight : i <= d => i \in Overtaken(I, d)
  BY DEF SessionOK, Sessions

(* A session begins with nothing in flight.                                *)
LEMMA SessionBegins ==
  ASSUME NEW n \in Nat, NEW c \in Nat, NEW I, c <= n
  PROVE  From(c) \in Sessions /\ SessionOK(From(c), n, c, I)
  BY DEF From, Sessions, SessionOK

-----------------------------------------------------------------------------
(* Tables and the events they follow *)

(* What event n leaves is justified from there on.                         *)
LEMMA JustifiedNow ==
  ASSUME NEW t, NEW log, NEW x, NEW n \in Nat, Len(log) \in Nat, n <= Len(log),
         NEW v \in BOOLEAN, v <=> InAfter(t, log, x, n)
  PROVE  Justified(t, log, x, n, v)
<1>1. v = InAfter(t, log, x, n)
  BY DEF InAfter
<1> QED
  BY <1>1 DEF Justified

(* What holds after event n or later holds after an earlier one or later.  *)
LEMMA JustifiedEarlier ==
  ASSUME NEW t, NEW log, NEW x, NEW v, NEW n \in Nat, NEW n0 \in Nat, n0 <= n,
         Len(log) \in Nat, Justified(t, log, x, n, v)
  PROVE  Justified(t, log, x, n0, v)
  BY DEF Justified

(* The first n events alone decide what is in after them.                  *)
LEMMA PrefixDecides ==
  ASSUME NEW t, NEW log, NEW log2, NEW x, NEW n \in Nat,
         \A i \in 1..n : log2[i] = log[i]
  PROVE  InAfter(t, log2, x, n) = InAfter(t, log, x, n)
<1>1. \A i \in 1..n : \A j \in (i + 1)..n : j \in 1..n
  OBVIOUS
<1> QED
  BY <1>1 DEF InAfter

(* A new event takes nothing away.                                         *)
LEMMA JustifiedLonger ==
  ASSUME NEW t, NEW log, NEW log2, NEW x, NEW v, NEW n \in Nat,
         Len(log) \in Nat, Len(log2) \in Nat, Len(log) <= Len(log2),
         \A i \in 1..Len(log) : log2[i] = log[i],
         Justified(t, log, x, n, v)
  PROVE  Justified(t, log2, x, n, v)
<1>1. PICK m \in n..Len(log) : v = InAfter(t, log, x, m)
  BY DEF Justified
<1>2. m \in Nat /\ m \in n..Len(log2) /\ \A i \in 1..m : log2[i] = log[i]
  BY <1>1
<1>3. v = InAfter(t, log2, x, m)
  BY <1>1, <1>2, PrefixDecides
<1> QED
  BY <1>2, <1>3 DEF Justified

(* A table that does what the next event says of x is not behind it.       *)
LEMMA NextEventJustifies ==
  ASSUME NEW t, NEW log, NEW x, NEW n \in Nat, Len(log) \in Nat, n < Len(log),
         NEW v \in BOOLEAN, NEW w \in BOOLEAN, Justified(t, log, x, n, v),
         w <=> IF About(t, log[n + 1], x) THEN PutsIn(t, log[n + 1], x) ELSE v
  PROVE  Justified(t, log, x, n + 1, w)
<1>1. CASE About(t, log[n + 1], x)
  <2>1. InAfter(t, log, x, n + 1) <=> PutsIn(t, log[n + 1], x)
    <3>1. ASSUME InAfter(t, log, x, n + 1) PROVE PutsIn(t, log[n + 1], x)
      <4>1. PICK i \in 1..(n + 1) :
              /\ PutsIn(t, log[i], x)
              /\ \A j \in (i + 1)..(n + 1) : ~About(t, log[j], x)
        BY <3>1 DEF InAfter
      <4>2. i = n + 1
        BY <1>1, <4>1
      <4> QED
        BY <4>1, <4>2
    <3>2. ASSUME PutsIn(t, log[n + 1], x) PROVE InAfter(t, log, x, n + 1)
      BY <1>1, <3>2 DEF InAfter
    <3> QED
      BY <3>1, <3>2
  <2>2. w = InAfter(t, log, x, n + 1)
    BY <1>1, <2>1 DEF InAfter
  <2> QED
    BY <2>2 DEF Justified
<1>2. CASE ~About(t, log[n + 1], x)
  <2>1. PICK m \in n..Len(log) : v = InAfter(t, log, x, m)
    BY DEF Justified
  <2>2. w = v
    BY <1>2
  <2>3. CASE m # n
    BY <2>1, <2>2, <2>3 DEF Justified
  <2>4. CASE m = n
    <3>1. InAfter(t, log, x, n) <=> InAfter(t, log, x, n + 1)
      <4>1. ASSUME InAfter(t, log, x, n) PROVE InAfter(t, log, x, n + 1)
        <5>1. PICK i \in 1..n :
                /\ About(t, log[i], x) /\ PutsIn(t, log[i], x)
                /\ \A j \in (i + 1)..n : ~About(t, log[j], x)
          BY <4>1 DEF InAfter
        <5>2. \A j \in (i + 1)..(n + 1) : j \in (i + 1)..n \/ j = n + 1
          OBVIOUS
        <5>3. i \in 1..(n + 1) /\ \A j \in (i + 1)..(n + 1) : ~About(t, log[j], x)
          BY <1>2, <5>1, <5>2
        <5> QED
          BY <5>1, <5>3 DEF InAfter
      <4>2. ASSUME InAfter(t, log, x, n + 1) PROVE InAfter(t, log, x, n)
        <5>1. PICK i \in 1..(n + 1) :
                /\ About(t, log[i], x) /\ PutsIn(t, log[i], x)
                /\ \A j \in (i + 1)..(n + 1) : ~About(t, log[j], x)
          BY <4>2 DEF InAfter
        <5>2. i # n + 1
          BY <1>2, <5>1
        <5>3. i \in 1..n /\ \A j \in (i + 1)..n : j \in (i + 1)..(n + 1)
          BY <5>2
        <5> QED
          BY <5>1, <5>3 DEF InAfter
      <4> QED
        BY <4>1, <4>2
    <3>2. w = InAfter(t, log, x, n + 1)
      BY <2>1, <2>2, <2>4, <3>1 DEF InAfter
    <3> QED
      BY <3>2 DEF Justified
  <2> QED
    BY <2>3, <2>4
<1> QED
  BY <1>1, <1>2

(* What is in was put in by some event.                                    *)
LEMMA JustifiedByAnEvent ==
  ASSUME NEW t, NEW log, NEW x, NEW n \in Nat, Len(log) \in Nat,
         Justified(t, log, x, n, TRUE)
  PROVE  \E i \in 1..Len(log) : About(t, log[i], x) /\ PutsIn(t, log[i], x)
<1>1. PICK m \in n..Len(log) : InAfter(t, log, x, m)
  BY DEF Justified
<1>2. PICK i \in 1..m : About(t, log[i], x) /\ PutsIn(t, log[i], x)
  BY <1>1 DEF InAfter
<1>3. i \in 1..Len(log)
  BY <1>1, <1>2
<1> QED
  BY <1>2, <1>3

(* The block-list processor does to the list what the event says.          *)
LEMMA BlockListStep ==
  ASSUME NEW current \in SUBSET Members("blocks"), NEW e \in BlockEvents
  PROVE  /\ BlockListed(current, e) \in SUBSET Members("blocks")
         /\ \A x \in Members("blocks") :
              x \in BlockListed(current, e) <=>
                IF About("blocks", e, x) THEN PutsIn("blocks", e, x) ELSE x \in current
<1> DEFINE pair == <<e.key, e.target.name>>
<1>1. /\ e.key \in Ids /\ e.target.name \in Ids
      /\ pair \in Members("blocks")
  BY ChatAssumption DEF UserIds, Members
<1>2. CASE NoUser \in {e.user.name, e.target.name}
  <2>1. BlockListed(current, e) = current
    BY <1>2 DEF BlockListed
  <2>2. \A x : ~About("blocks", e, x)
    BY <1>2 DEF About
  <2> QED
    BY <2>1, <2>2
<1>3. CASE NoUser \notin {e.user.name, e.target.name}
  <2>1. CASE e.action = "block"
    <3>1. BlockListed(current, e) = current \cup {pair}
      BY <1>3, <2>1 DEF BlockListed
    <3>2. \A x : About("blocks", e, x) <=> x = pair
      BY <1>3, <2>1 DEF About
    <3>3. \A x : PutsIn("blocks", e, x)
      BY <2>1 DEF PutsIn
    <3> QED
      BY <1>1, <3>1, <3>2, <3>3
  <2>2. CASE e.action = "unblock"
    <3>1. BlockListed(current, e) = current \ {pair}
      BY <1>3, <2>2 DEF BlockListed
    <3>2. \A x : About("blocks", e, x) <=> x = pair
      BY <1>3, <2>2 DEF About
    <3>3. \A x : ~PutsIn("blocks", e, x)
      BY <2>2 DEF PutsIn
    <3> QED
      BY <3>1, <3>2, <3>3
  <2>3. CASE e.action \notin {"block", "unblock"}
    <3>1. BlockListed(current, e) = current
      BY <1>3, <2>3 DEF BlockListed
    <3>2. \A x : ~About("blocks", e, x)
      BY <2>3 DEF About
    <3> QED
      BY <3>1, <3>2
  <2> QED
    BY <2>1, <2>2, <2>3
<1> QED
  BY <1>2, <1>3

(* The banned-words processor does to the words what the update says.      *)
LEMMA BannedStep ==
  ASSUME NEW current \in SUBSET Members("words"), NEW e \in WordUpdates
  PROVE  /\ Banned(current, e) \in SUBSET Members("words")
         /\ \A x \in Members("words") :
              x \in Banned(current, e) <=>
                IF About("words", e, x) THEN PutsIn("words", e, x) ELSE x \in current
<1> DEFINE words == {w.name : w \in e.words}
<1>1. words \subseteq Members("words")
  BY ChatAssumption DEF WordIds, Members
<1>2. \A x : x \in words <=> \E w \in e.words : w.name = x
  OBVIOUS
<1> HIDE DEF words
<1>d. Banned(current, e) =
        IF ~e.global THEN current
        ELSE CASE e.action = "replace" -> words
               [] e.action = "add" -> current \cup words
               [] e.action = "remove" -> current \ words
               [] OTHER -> current
  BY DEF Banned, words
<1>a. \A x : About("words", e, x) <=>
        e.global /\ (e.action = "replace" \/ (e.action \in {"add", "remove"} /\ x \in words))
  BY <1>2 DEF About
<1>p. \A x : PutsIn("words", e, x) <=> e.action # "remove" /\ x \in words
  BY <1>2 DEF PutsIn
<1>3. CASE ~e.global
  BY <1>3, <1>d, <1>a
<1>4. CASE e.global /\ e.action = "replace"
  BY <1>1, <1>4, <1>d, <1>a, <1>p
<1>5. CASE e.global /\ e.action = "add"
  BY <1>1, <1>5, <1>d, <1>a, <1>p
<1>6. CASE e.global /\ e.action = "remove"
  BY <1>1, <1>6, <1>d, <1>a, <1>p
<1>7. CASE e.global /\ e.action \notin {"replace", "add", "remove"}
  BY <1>7, <1>d, <1>a
<1> QED
  BY <1>3, <1>4, <1>5, <1>6, <1>7

-----------------------------------------------------------------------------
(* The types *)

(* Lengths and offsets are numbers.                                        *)
LEMMA TypeFacts ==
  ASSUME TypeOK
  PROVE  /\ \A t \in Tables : /\ Len(events[t]) \in Nat /\ Len(changelog[t]) \in Nat
                              /\ view[t] \in Nat /\ base[t] \in Nat
         /\ Len(messages) \in Nat /\ Len(censored) \in Nat /\ Len(filtered) \in Nat
         /\ \A p \in Processors : /\ session[p] \in Sessions /\ committed[p] \in Nat
                                  /\ session[p].next \in Nat /\ session[p].marked \in Nat
                                  /\ session[p].flight \in SUBSET Nat
<1>1. \A t \in Tables : /\ Len(events[t]) \in Nat /\ Len(changelog[t]) \in Nat
                        /\ view[t] \in Nat /\ base[t] \in Nat
  BY DEF TypeOK
<1>2. Len(messages) \in Nat /\ Len(censored) \in Nat /\ Len(filtered) \in Nat
  BY DEF TypeOK
<1>3. \A p \in Processors : session[p] \in Sessions /\ committed[p] \in Nat
  BY DEF TypeOK
<1> QED
  BY <1>1, <1>2, <1>3 DEF Sessions

(* The processors, each as an element of their set.                        *)
LEMMA ProcessorFacts ==
  /\ "censorship" \in Processors /\ "filter" \in Processors
  /\ "blocks" \in Tables /\ "words" \in Tables
  /\ \A t \in Tables : t \in Processors /\ t # "censorship" /\ t # "filter"
  /\ \A p \in Processors : p \in Tables \/ p = "censorship" \/ p = "filter"
  BY DEF Processors, Tables

(* A message, its offsets and its words.                                   *)
LEMMA MessageFacts ==
  ASSUME TypeOK, NEW i \in 1..Len(messages)
  PROVE  /\ messages[i].message \in Messages
         /\ \A t \in Tables : messages[i].since[t] \in Nat
         /\ messages[i].message.to \in Ids
         /\ messages[i].message.from \in UserIds
         /\ messages[i].message.text \in Seq(WordIds)
         /\ \A k \in DOMAIN messages[i].message.text :
              messages[i].message.text[k].name \in Words
<1>1. messages[i] \in [message : Messages, since : [Tables -> Nat]]
  BY ElementOfSeq DEF TypeOK
<1>2. messages[i].message \in [from : UserIds, to : Ids, text : Seq(WordIds)]
  BY <1>1, ChatAssumption
<1>3. messages[i].message.text \in Seq(WordIds)
  BY <1>2
<1>4. \A k \in DOMAIN messages[i].message.text : messages[i].message.text[k] \in WordIds
  BY <1>3
<1> QED
  BY <1>1, <1>2, <1>3, <1>4 DEF WordIds

(* Offsets of messages and records are numbers too.                        *)
LEMMA IdleFacts ==
  ASSUME TypeOK
  PROVE  Skipped \in SUBSET Nat /\ Droppable \in SUBSET Nat
<1>1. \A n \in Nat : 1..n \subseteq Nat
  OBVIOUS
<1>2. Skipped \subseteq 1..Len(messages) /\ Droppable \subseteq 1..Len(censored)
  BY DEF Skipped, Droppable
<1> QED
  BY <1>1, <1>2, TypeFacts

(* What was committed, handled or in flight is there.                      *)
LEMMA HandledFacts ==
  ASSUME TypeOK, SessionsOK
  PROVE  /\ committed["censorship"] <= session["censorship"].next
         /\ committed["filter"] <= session["filter"].next
         /\ session["censorship"].next <= Len(messages)
         /\ session["filter"].next <= Len(censored)
         /\ \A i \in 1..committed["censorship"] : i \in 1..session["censorship"].next
         /\ \A n \in 1..committed["filter"] : n \in 1..session["filter"].next
         /\ \A i \in 1..session["censorship"].next : i \in 1..Len(messages)
         /\ \A n \in 1..session["filter"].next : n \in 1..Len(censored)
         /\ session["censorship"].flight \subseteq 1..session["censorship"].next
         /\ session["filter"].flight \subseteq 1..session["filter"].next
<1>1. /\ \A p \in {"censorship", "filter"} :
           committed[p] \in Nat /\ session[p].next \in Nat /\ session[p].marked \in Nat
      /\ Len(messages) \in Nat /\ Len(censored) \in Nat
  BY TypeFacts, ProcessorFacts
<1>2. /\ committed["censorship"] <= session["censorship"].marked
      /\ session["censorship"].marked <= session["censorship"].next
      /\ session["censorship"].next <= Len(messages)
      /\ session["censorship"].flight \subseteq 1..session["censorship"].next
  BY DEF SessionsOK, SessionOK
<1>3. /\ committed["filter"] <= session["filter"].marked
      /\ session["filter"].marked <= session["filter"].next
      /\ session["filter"].next <= Len(censored)
      /\ session["filter"].flight \subseteq 1..session["filter"].next
  BY DEF SessionsOK, SessionOK
<1>4. /\ committed["censorship"] <= session["censorship"].next
      /\ committed["filter"] <= session["filter"].next
  BY <1>1, <1>2, <1>3
<1>5. \A a \in Nat, b \in Nat : a <= b => \A i \in 1..a : i \in 1..b
  OBVIOUS
<1>6. /\ \A i \in 1..committed["censorship"] : i \in 1..session["censorship"].next
      /\ \A i \in 1..session["censorship"].next : i \in 1..Len(messages)
  BY <1>1, <1>2, <1>4, <1>5
<1>7. /\ \A n \in 1..committed["filter"] : n \in 1..session["filter"].next
      /\ \A n \in 1..session["filter"].next : n \in 1..Len(censored)
  BY <1>1, <1>3, <1>4, <1>5
<1> QED
  BY <1>2, <1>3, <1>4, <1>6, <1>7

(* Every value of a table is a set of members.                             *)
LEMMA ValuesAreMembers ==
  ASSUME TypeOK, NEW t \in Tables, NEW n \in 0..Len(changelog[t])
  PROVE  ValueAt(changelog[t], n) \in SUBSET Members(t)
<1>1. CASE n = 0
  BY <1>1 DEF ValueAt
<1>2. CASE n # 0
  <2>0. Len(changelog[t]) \in Nat
    BY TypeFacts
  <2>1. n \in 1..Len(changelog[t])
    BY <1>2, <2>0
  <2>2. changelog[t][n] \in SUBSET Members(t)
    BY <2>1, ElementOfSeq DEF TypeOK
  <2> QED
    BY <1>2, <2>2 DEF ValueAt
<1> QED
  BY <1>1, <1>2

-----------------------------------------------------------------------------
(* The initial states *)

LEMMA InitEstablishes == Init => IInv
<1> SUFFICES ASSUME Init PROVE IInv
  OBVIOUS
<1>0. /\ \A t \in Tables : events[t] = <<>> /\ changelog[t] = <<>> /\ view[t] = 0 /\ base[t] = 0
      /\ \A t \in Tables : Len(events[t]) = 0 /\ Len(changelog[t]) = 0
      /\ Len(messages) = 0 /\ Len(censored) = 0 /\ Len(filtered) = 0 /\ emits = {}
  BY DEF Init
<1>s. /\ \A p \in Processors : session[p] = From(0) /\ committed[p] = 0
      /\ From(0) \in Sessions
      /\ From(0).next = 0 /\ From(0).marked = 0 /\ From(0).flight = {}
  BY DEF Init, From, Sessions
<1>1. TypeOK
  <2>1. \A t \in Tables : events[t] \in Seq(Events(t)) /\ changelog[t] \in Seq(SUBSET Members(t))
    BY <1>0, EmptySeq
  <2>2. /\ events \in [Tables -> Seq(BlockEvents \cup WordUpdates)]
        /\ changelog \in [Tables -> Seq(SUBSET (Ids \X Ids \cup Words))]
    BY DEF Init
  <2>3. /\ messages \in Seq([message : Messages, since : [Tables -> Nat]])
        /\ censored \in Seq(Outputs) /\ filtered \in Seq(Outputs) /\ emits \subseteq Outputs
    BY DEF Init
  <2>4. /\ committed \in [Processors -> Nat]
        /\ view \in [Tables -> Nat] /\ base \in [Tables -> Nat]
        /\ running \in BOOLEAN /\ halts \in Nat
    BY DEF Init
  <2>5. session \in [Processors -> Sessions]
    BY <1>s DEF Init
  <2> QED
    BY <2>1, <2>2, <2>3, <2>4, <2>5 DEF TypeOK
<1>a. SessionsOK
  <2>1. SessionOK(From(0), 0, 0, Skipped) /\ SessionOK(From(0), 0, 0, Droppable)
    BY SessionBegins
  <2> QED
    BY <1>0, <1>s, <2>1, ProcessorFacts DEF SessionsOK
<1>2. OffsetsOrdered
  BY <1>0, <1>s, ProcessorFacts DEF OffsetsOrdered
<1>3. ViewsFollowEvents
  <2>0. ~running /\ \A t \in Tables : committed[t] = 0
    BY DEF Init, Processors
  <2> SUFFICES ASSUME NEW t \in Tables, NEW x \in Members(t)
               PROVE  Justified(t, events[t], x, 0, x \in ValueAt(changelog[t], 0))
    BY <1>0, <2>0 DEF ViewsFollowEvents
  <2>1. ~InAfter(t, events[t], x, 0)
    BY DEF InAfter
  <2>2. x \notin ValueAt(changelog[t], 0)
    BY DEF ValueAt
  <2> DEFINE v == x \in ValueAt(changelog[t], 0)
  <2>3. v \in BOOLEAN /\ (v <=> InAfter(t, events[t], x, 0)) /\ Len(events[t]) \in Nat
    BY <1>0, <2>1, <2>2
  <2> HIDE DEF v
  <2>4. Justified(t, events[t], x, 0, v)
    BY <2>3, JustifiedNow
  <2> QED
    BY <2>4 DEF v
<1>4. TablesFollowEvents
  BY DEF Init, TablesFollowEvents
<1>5. RecordsAreMessages /\ DeliveredIsJustified
  BY <1>0, <1>s, ProcessorFacts DEF RecordsAreMessages, DeliveredIsJustified
<1>6. HandledIsKept
  BY <1>s, ProcessorFacts DEF HandledIsKept
<1> QED
  BY <1>1, <1>a, <1>2, <1>3, <1>4, <1>5, <1>6 DEF IInv

-----------------------------------------------------------------------------
(* What a step does not touch *)

(* The tables and their readers, when the messages and records change.     *)
LEMMA TablesStay ==
  ASSUME UNCHANGED <<events, changelog, view, base, running>>,
         \A t \in Tables : session'[t] = session[t] /\ committed'[t] = committed[t]
  PROVE  /\ ViewsFollowEvents => ViewsFollowEvents'
         /\ TablesFollowEvents => TablesFollowEvents'
         /\ UNCHANGED messages /\ OffsetsOrdered => OffsetsOrdered'
<1>1. ViewsFollowEvents => ViewsFollowEvents'
  BY DEF ViewsFollowEvents
<1>2. TablesFollowEvents => TablesFollowEvents'
  BY DEF TablesFollowEvents
<1>3. UNCHANGED messages /\ OffsetsOrdered => OffsetsOrdered'
  BY DEF OffsetsOrdered
<1> QED
  BY <1>1, <1>2, <1>3

(* The messages, records and sessions on them, when the tables change.     *)
LEMMA MessagesStay ==
  ASSUME UNCHANGED <<events, messages, censored, filtered, emits, halts>>,
         \A p \in {"censorship", "filter"} :
           session'[p] = session[p] /\ committed'[p] = committed[p]
  PROVE  /\ SessionsOK => SessionsOK'
         /\ RecordsAreMessages => RecordsAreMessages'
         /\ DeliveredIsJustified => DeliveredIsJustified'
         /\ HandledIsKept => HandledIsKept'
<1>1. /\ session'["censorship"] = session["censorship"] /\ session'["filter"] = session["filter"]
      /\ committed'["censorship"] = committed["censorship"]
      /\ committed'["filter"] = committed["filter"]
  OBVIOUS
<1>2. Skipped' = Skipped /\ Droppable' = Droppable
  BY DEF Skipped, Droppable, NeverBlocked
<1>3. SessionsOK => SessionsOK'
  BY <1>1, <1>2 DEF SessionsOK
<1>4. ASSUME RecordsAreMessages PROVE RecordsAreMessages'
  <2>1. \A r \in emits' \cup {censored'[j] : j \in 1..Len(censored')} :
          r.offset \in 1..Len(messages') /\ r.offset \notin Skipped' /\ WordsJudged(r)'
    BY <1>2, <1>4 DEF RecordsAreMessages, WordsJudged
  <2>2. \A n \in session'["filter"].flight : SenderAllowed(censored[n])'
    BY <1>1, <1>4 DEF RecordsAreMessages, SenderAllowed
  <2>3. \A j \in 1..Len(filtered') : \E n \in 1..Len(censored') : filtered'[j] = censored'[n]
    BY <1>4 DEF RecordsAreMessages
  <2> QED
    BY <2>1, <2>2, <2>3 DEF RecordsAreMessages
<1>5. DeliveredIsJustified => DeliveredIsJustified'
  BY DEF DeliveredIsJustified, WordsJudged, SenderAllowed
<1>6. HandledIsKept => HandledIsKept'
  BY <1>1, <1>2 DEF HandledIsKept, Reached
<1> QED
  BY <1>3, <1>4, <1>5, <1>6

(* What was said of a record stays true while events and messages are       *)
(* added.                                                                  *)
LEMMA JudgedByMore ==
  ASSUME TypeOK,
         \A i \in 1..Len(messages) : messages'[i] = messages[i],
         \A t \in Tables :
           /\ Len(events'[t]) \in Nat /\ Len(events[t]) <= Len(events'[t])
           /\ \A i \in 1..Len(events[t]) : events'[t][i] = events[t][i],
         NEW r, r.offset \in 1..Len(messages)
  PROVE  /\ WordsJudged(r) => WordsJudged(r)'
         /\ SenderAllowed(r) => SenderAllowed(r)'
<1> DEFINE m == messages[r.offset].message
           since == messages[r.offset].since
<1>1. /\ since["words"] \in Nat /\ since["blocks"] \in Nat
      /\ Len(events["words"]) \in Nat /\ Len(events["blocks"]) \in Nat
  BY MessageFacts, TypeFacts DEF Tables
<1>2. \A x, v : Justified("words", events["words"], x, since["words"], v)
        => Justified("words", events'["words"], x, since["words"], v)
  BY <1>1, JustifiedLonger DEF Tables
<1>3. \A x, v : Justified("blocks", events["blocks"], x, since["blocks"], v)
        => Justified("blocks", events'["blocks"], x, since["blocks"], v)
  BY <1>1, JustifiedLonger DEF Tables
<1> QED
  BY <1>2, <1>3 DEF WordsJudged, SenderAllowed

(* Events and messages are added at the end of their topics.               *)
LEMMA TopicsGrow ==
  ASSUME TypeOK, TypeOK', SessionsOK, RecordsAreMessages, DeliveredIsJustified, HandledIsKept,
         UNCHANGED <<censored, filtered, session, emits, committed, halts>>,
         Len(messages) <= Len(messages'),
         \A i \in 1..Len(messages) : messages'[i] = messages[i],
         \A t \in Tables :
           /\ Len(events[t]) <= Len(events'[t])
           /\ \A i \in 1..Len(events[t]) : events'[t][i] = events[t][i]
  PROVE  SessionsOK' /\ RecordsAreMessages' /\ DeliveredIsJustified' /\ HandledIsKept'
<1>1. /\ \A t \in Tables : Len(events[t]) \in Nat /\ Len(events'[t]) \in Nat
      /\ Len(messages) \in Nat /\ Len(messages') \in Nat
      /\ Len(censored) \in Nat /\ Len(filtered) \in Nat
  <2>1. \A t \in Tables : Len(events'[t]) \in Nat
    BY DEF TypeOK
  <2>2. Len(messages') \in Nat
    BY DEF TypeOK
  <2> QED
    BY <2>1, <2>2, TypeFacts
<1>2. \A i \in 1..Len(messages) : i \in 1..Len(messages')
  BY <1>1
<1>3. \A r \in emits \cup {censored[j] : j \in 1..Len(censored)} :
        r.offset \in 1..Len(messages) /\ r.offset \notin Skipped /\ WordsJudged(r)
  BY DEF RecordsAreMessages
<1>4. \A n \in 1..Len(censored) : censored[n].offset \in 1..Len(messages)
  BY <1>3
<1>5. \A j \in 1..Len(filtered) : filtered[j].offset \in 1..Len(messages)
  BY <1>4 DEF RecordsAreMessages
<1>6. Skipped \subseteq Skipped' /\ \A i \in 1..Len(messages) : i \in Skipped' => i \in Skipped
  BY <1>2 DEF Skipped
<1>7. Droppable \subseteq Droppable'
  <2>1. \A m : NeverBlocked(m)' => NeverBlocked(m)
    <3>1. \A i \in 1..Len(events["blocks"]) :
            i \in 1..Len(events'["blocks"]) /\ events'["blocks"][i] = events["blocks"][i]
      BY <1>1, ProcessorFacts
    <3> QED
      BY <3>1 DEF NeverBlocked
  <2>2. \A n \in 1..Len(censored) :
          messages'[censored[n].offset].message = messages[censored[n].offset].message
    BY <1>4
  <2>3. ASSUME NEW n \in 1..Len(censored), ~NeverBlocked(messages[censored[n].offset].message)
        PROVE  ~NeverBlocked(messages[censored[n].offset].message)'
    BY <2>1, <2>2, <2>3 DEF NeverBlocked
  <2> QED
    BY <2>3 DEF Droppable
<1>8. /\ session["censorship"] \in Sessions /\ session["filter"] \in Sessions
      /\ committed["censorship"] \in Nat /\ committed["filter"] \in Nat
      /\ committed["censorship"] <= committed["censorship"]
      /\ committed["filter"] <= committed["filter"]
      /\ Skipped \in SUBSET Nat /\ Skipped' \in SUBSET Nat
      /\ Droppable \in SUBSET Nat /\ Droppable' \in SUBSET Nat
  <2>1. Skipped' \subseteq 1..Len(messages') /\ Droppable' \subseteq 1..Len(censored)
    BY DEF Skipped, Droppable
  <2>2. \A n \in Nat : 1..n \subseteq Nat
    OBVIOUS
  <2> QED
    BY <1>1, <2>1, <2>2, TypeFacts, ProcessorFacts, IdleFacts
<1>9. SessionsOK'
  <2>1. /\ SessionOK(session["censorship"], Len(messages), committed["censorship"], Skipped)
        /\ SessionOK(session["filter"], Len(censored), committed["filter"], Droppable)
        /\ Len(censored) <= Len(censored)
    BY <1>1 DEF SessionsOK
  <2>2. SessionOK(session["censorship"], Len(messages'), committed["censorship"], Skipped')
    BY <1>1, <1>6, <1>8, <2>1, SessionLonger
  <2>3. SessionOK(session["filter"], Len(censored), committed["filter"], Droppable')
    BY <1>1, <1>7, <1>8, <2>1, SessionLonger
  <2> QED
    BY <2>2, <2>3 DEF SessionsOK
<1>10. \A r : r.offset \in 1..Len(messages) =>
         (WordsJudged(r) => WordsJudged(r)') /\ (SenderAllowed(r) => SenderAllowed(r)')
  BY <1>1, JudgedByMore
<1>11. RecordsAreMessages'
  <2>1. \A r \in emits \cup {censored[j] : j \in 1..Len(censored)} :
          r.offset \in 1..Len(messages') /\ r.offset \notin Skipped' /\ WordsJudged(r)'
    BY <1>2, <1>3, <1>6, <1>10
  <2>2. \A n \in session["filter"].flight : n \in 1..Len(censored)
    BY HandledFacts
  <2>3. \A n \in session["filter"].flight : SenderAllowed(censored[n])'
    BY <1>4, <1>10, <2>2 DEF RecordsAreMessages
  <2>4. emits' \cup {censored'[j] : j \in 1..Len(censored')}
          = emits \cup {censored[j] : j \in 1..Len(censored)}
    OBVIOUS
  <2>5. \A j \in 1..Len(filtered') : \E n \in 1..Len(censored') : filtered'[j] = censored'[n]
    BY DEF RecordsAreMessages
  <2>6. \A n \in session'["filter"].flight : SenderAllowed(censored[n])'
    BY <2>3
  <2>7. \A r \in emits' \cup {censored'[j] : j \in 1..Len(censored')} :
          r.offset \in 1..Len(messages') /\ r.offset \notin Skipped' /\ WordsJudged(r)'
    BY <2>1, <2>4
  <2> QED
    BY <2>5, <2>6, <2>7 DEF RecordsAreMessages
<1>12. DeliveredIsJustified'
  <2>1. \A j \in 1..Len(filtered) : SenderAllowed(filtered[j])' /\ WordsJudged(filtered[j])'
    BY <1>5, <1>10 DEF DeliveredIsJustified
  <2> QED
    BY <2>1 DEF DeliveredIsJustified, WordsJudged, SenderAllowed
<1>13. HandledIsKept'
  <2>1. Overtaken(Skipped, committed["censorship"]) \subseteq Overtaken(Skipped', committed["censorship"])
    BY <1>6, <1>8, OvertakenGrows
  <2>2. Overtaken(Droppable, committed["filter"]) \subseteq Overtaken(Droppable', committed["filter"])
    BY <1>7, <1>8, OvertakenGrows
  <2> QED
    BY <1>6, <1>7, <2>1, <2>2 DEF HandledIsKept, Reached
<1> QED
  BY <1>9, <1>11, <1>12, <1>13

-----------------------------------------------------------------------------
(* The steps *)

(* An event is published.                                                  *)
LEMMA SendEventKeeps ==
  ASSUME IInv, NEW t \in Tables, NEW e \in Events(t), SendEvent(t, e)
  PROVE  IInv'
<1> USE DEF IInv
<1>1. /\ events' = [events EXCEPT ![t] = Append(@, e)]
      /\ UNCHANGED <<messages, changelog, censored, filtered, session, emits, committed, view,
                     base, running, halts>>
  BY DEF SendEvent, local
<1>2. /\ events[t] \in Seq(Events(t)) /\ e \in BlockEvents \cup WordUpdates
      /\ \A u \in Tables : u # t => events'[u] = events[u]
      /\ events'[t] = Append(events[t], e)
  BY <1>1 DEF TypeOK, Events
<1>3. /\ Append(events[t], e) \in Seq(Events(t))
      /\ Append(events[t], e) \in Seq(BlockEvents \cup WordUpdates)
      /\ Len(Append(events[t], e)) = Len(events[t]) + 1
      /\ \A i \in 1..Len(events[t]) : Append(events[t], e)[i] = events[t][i]
  BY <1>2, AppendProperties DEF TypeOK
<1>4. \A u \in Tables :
        /\ Len(events[u]) \in Nat
        /\ Len(events'[u]) \in Nat /\ Len(events[u]) <= Len(events'[u])
        /\ \A i \in 1..Len(events[u]) : events'[u][i] = events[u][i]
  <2>1. \A u \in Tables : Len(events[u]) \in Nat
    BY TypeFacts
  <2> QED
    BY <1>2, <1>3, <2>1
<1>5. TypeOK'
  <2>1. events' \in [Tables -> Seq(BlockEvents \cup WordUpdates)]
    BY <1>1, <1>3 DEF TypeOK
  <2>2. \A u \in Tables : events'[u] \in Seq(Events(u))
    BY <1>2, <1>3 DEF TypeOK
  <2> QED
    BY <1>1, <2>1, <2>2 DEF TypeOK
<1>6. OffsetsOrdered'
  <2>1. \A u \in Tables : session[u].next <= Len(events'[u])
    <3> TAKE u \in Tables
    <3>1. session[u].next <= Len(events[u]) /\ session[u].next \in Nat
      BY TypeFacts, ProcessorFacts DEF OffsetsOrdered
    <3> QED
      BY <1>4, <3>1
  <2> QED
    BY <1>1, <2>1 DEF OffsetsOrdered
<1>7. \A u \in Tables : \A x, v : \A n \in Nat :
        Justified(u, events[u], x, n, v) => Justified(u, events'[u], x, n, v)
  BY <1>4, JustifiedLonger
<1>8. \A u \in Tables : committed[u] \in Nat /\ base[u] \in Nat /\ session[u].next \in Nat
  BY TypeFacts, ProcessorFacts
<1>9. ViewsFollowEvents'
  BY <1>1, <1>7, <1>8 DEF ViewsFollowEvents
<1>10. TablesFollowEvents'
  BY <1>1, <1>7, <1>8 DEF TablesFollowEvents
<1>11. SessionsOK' /\ RecordsAreMessages' /\ DeliveredIsJustified' /\ HandledIsKept'
  <2>1. Len(messages) <= Len(messages')
    BY <1>1, TypeFacts
  <2>2. \A i \in 1..Len(messages) : messages'[i] = messages[i]
    BY <1>1
  <2>3. UNCHANGED <<censored, filtered, session, emits, committed, halts>>
    BY <1>1
  <2> QED
    BY <1>4, <1>5, <2>1, <2>2, <2>3, TopicsGrow
<1> QED
  BY <1>5, <1>6, <1>9, <1>10, <1>11

(* A message is sent.                                                      *)
LEMMA SendMessageKeeps ==
  ASSUME IInv, NEW m \in Messages, SendMessage(m)
  PROVE  IInv'
<1> USE DEF IInv
<1> DEFINE s == [message |-> m, since |-> base]
<1>1. /\ messages' = Append(messages, s)
      /\ UNCHANGED <<events, changelog, censored, filtered, session, emits, committed, view, base,
                     running, halts>>
  BY DEF SendMessage, local
<1>2. s \in [message : Messages, since : [Tables -> Nat]]
  BY DEF TypeOK
<1>3. /\ messages' \in Seq([message : Messages, since : [Tables -> Nat]])
      /\ Len(messages') = Len(messages) + 1
      /\ \A i \in 1..Len(messages) : messages'[i] = messages[i]
      /\ messages'[Len(messages) + 1] = s
  BY <1>1, <1>2, AppendProperties DEF TypeOK
<1>4. TypeOK'
  BY <1>1, <1>3 DEF TypeOK
<1>n. Len(messages) \in Nat /\ Len(messages) <= Len(messages')
  BY <1>3, TypeFacts
<1>5. OffsetsOrdered'
  <2>1. \A i \in 1..Len(messages') : \A t \in Tables : messages'[i].since[t] <= base[t]
    <3>1. \A t \in Tables : base[t] <= base[t]
      BY TypeFacts
    <3>2. s.since = base
      OBVIOUS
    <3>3. \A i \in 1..Len(messages') : i \in 1..Len(messages) \/ i = Len(messages) + 1
      BY <1>3, <1>n
    <3>4. \A i \in 1..Len(messages) : \A t \in Tables : messages'[i].since[t] <= base[t]
      BY <1>3 DEF OffsetsOrdered
    <3>5. \A t \in Tables : messages'[Len(messages) + 1].since[t] <= base[t]
      BY <1>3, <3>1, <3>2
    <3> QED
      BY <3>3, <3>4, <3>5
  <2> QED
    BY <1>1, <2>1 DEF OffsetsOrdered
<1>6. ViewsFollowEvents' /\ TablesFollowEvents'
  BY <1>1, TablesStay
<1>7. SessionsOK' /\ RecordsAreMessages' /\ DeliveredIsJustified' /\ HandledIsKept'
  <2>1. \A t \in Tables : /\ Len(events[t]) <= Len(events'[t])
                          /\ \A i \in 1..Len(events[t]) : events'[t][i] = events[t][i]
    BY <1>1, TypeFacts
  <2>2. UNCHANGED <<censored, filtered, session, emits, committed, halts>>
    BY <1>1
  <2> QED
    BY <1>3, <1>4, <1>n, <2>1, <2>2, TopicsGrow
<1> QED
  BY <1>4, <1>5, <1>6, <1>7

(* The process starts, from what is committed and with whole tables.       *)
LEMMA StartKeeps == IInv /\ Start => IInv'
<1> SUFFICES ASSUME IInv, Start PROVE IInv'
  OBVIOUS
<1> USE DEF IInv
<1>1. /\ running' = TRUE
      /\ view' = [t \in Tables |-> Len(changelog[t])]
      /\ base' = [t \in Tables |-> committed[t]]
      /\ UNCHANGED <<events, messages, changelog, censored, filtered, session, emits, committed,
                     halts>>
  BY DEF Start, topics
<1>2. \A t \in Tables : /\ view'[t] = Len(changelog[t]) /\ base'[t] = committed[t]
                        /\ Len(changelog[t]) \in Nat /\ committed[t] \in Nat
                        /\ base[t] \in Nat
                        /\ session[t].next \in Nat /\ session[t].marked \in Nat
  BY <1>1, TypeFacts, ProcessorFacts
<1>3. TypeOK'
  <2>1. view' \in [Tables -> Nat] /\ base' \in [Tables -> Nat]
    BY <1>1, <1>2
  <2> QED
    BY <1>1, <2>1 DEF TypeOK
<1>4. OffsetsOrdered'
  <2>1. ASSUME NEW i \in 1..Len(messages), NEW t \in Tables
        PROVE  messages[i].since[t] <= base'[t]
    <3>1. messages[i].since[t] <= base[t] /\ base[t] <= committed[t]
      BY DEF OffsetsOrdered
    <3>2. messages[i].since[t] \in Nat
      BY MessageFacts
    <3> QED
      BY <1>2, <3>1, <3>2
  <2>2. \A t \in Tables : view'[t] <= Len(changelog[t]) /\ base'[t] <= committed[t]
    BY <1>2
  <2> QED
    BY <1>1, <2>1, <2>2 DEF OffsetsOrdered
<1>5. ViewsFollowEvents'
  BY <1>1, <1>2 DEF ViewsFollowEvents
<1>6. TablesFollowEvents'
  <2>1. \A t \in Tables : \A n \in view'[t]..Len(changelog[t]) : n = Len(changelog[t])
    BY <1>2
  <2>2. ~running /\ \A t \in Tables : session[t].next = committed[t]
    BY DEF Start, OffsetsOrdered
  <2> QED
    BY <1>1, <1>2, <2>1, <2>2 DEF ViewsFollowEvents, TablesFollowEvents
<1>7. SessionsOK' /\ RecordsAreMessages' /\ DeliveredIsJustified' /\ HandledIsKept'
  BY <1>1, MessagesStay
<1> QED
  BY <1>3, <1>4, <1>5, <1>6, <1>7

(* A session after a message without output.                               *)
LEMMA PassFacts ==
  ASSUME NEW s \in Sessions
  PROVE  /\ Pass(s) \in Sessions
         /\ Pass(s).next = s.next + 1 /\ Pass(s).marked = s.next + 1
         /\ Pass(s).flight = s.flight
<1>1. s.next + 1 \in Nat /\ s.flight \in SUBSET Nat
  BY DEF Sessions
<1>2. Pass(s).next = s.next + 1 /\ Pass(s).marked = s.next + 1 /\ Pass(s).flight = s.flight
  BY DEF Pass, Sessions
<1>3. Pass(s) \in Sessions
  BY <1>1 DEF Pass, Sessions
<1> QED
  BY <1>2, <1>3

(* A table takes its next event.                                           *)
LEMMA TableStepKeeps ==
  ASSUME IInv, NEW t \in Tables, NEW value \in SUBSET Members(t),
         Handle(t, Pass(session[t])), UNCHANGED <<censored, filtered, emits>>,
         changelog' = [changelog EXCEPT ![t] = Append(@, value)],
         \A x \in Members(t) :
           x \in value <=>
             IF About(t, events[t][session[t].next + 1], x)
             THEN PutsIn(t, events[t][session[t].next + 1], x)
             ELSE x \in ValueAt(changelog[t], Len(changelog[t]))
  PROVE  IInv'
<1> USE DEF IInv
<1> DEFINE next == session[t].next
<1>1. /\ running /\ next < Len(events[t])
      /\ session' = [session EXCEPT ![t] = Pass(session[t])]
      /\ UNCHANGED <<events, messages, censored, filtered, emits, committed, view, base,
                     running, halts>>
  BY ProcessorFacts DEF Handle, Input
<1>2. /\ t \in Processors /\ session[t] \in Sessions /\ next \in Nat
      /\ committed[t] \in Nat /\ base[t] \in Nat
      /\ view[t] \in Nat /\ Len(changelog[t]) \in Nat /\ Len(events[t]) \in Nat
  BY TypeFacts, ProcessorFacts
<1>3. /\ base[t] <= committed[t] /\ committed[t] <= next /\ view[t] <= Len(changelog[t])
      /\ session[t].flight = {}
  BY <1>1, <1>2 DEF OffsetsOrdered
<1>p. /\ Pass(session[t]) \in Sessions
      /\ Pass(session[t]).next = next + 1 /\ Pass(session[t]).marked = next + 1
      /\ Pass(session[t]).flight = {}
  BY <1>2, <1>3, PassFacts
<1>4. /\ changelog'[t] = Append(changelog[t], value)
      /\ \A u \in Tables : u # t => changelog'[u] = changelog[u]
      /\ session'[t] = Pass(session[t])
      /\ \A p \in Processors : p # t => session'[p] = session[p]
  BY <1>1, <1>2 DEF TypeOK
<1>5. /\ changelog'[t] \in Seq(SUBSET Members(t))
      /\ Len(changelog'[t]) = Len(changelog[t]) + 1
      /\ \A i \in 1..Len(changelog[t]) : changelog'[t][i] = changelog[t][i]
      /\ changelog'[t][Len(changelog[t]) + 1] = value
  <2>1. changelog[t] \in Seq(SUBSET Members(t))
    BY DEF TypeOK
  <2> QED
    BY <1>4, <2>1, AppendProperties
<1>6. /\ \A n \in 0..Len(changelog[t]) : ValueAt(changelog'[t], n) = ValueAt(changelog[t], n)
      /\ ValueAt(changelog'[t], Len(changelog'[t])) = value
  <2>1. \A n \in 0..Len(changelog[t]) : n # 0 => n \in 1..Len(changelog[t])
    BY <1>2
  <2>2. Len(changelog'[t]) # 0
    BY <1>2, <1>5
  <2> QED
    BY <1>5, <2>1, <2>2 DEF ValueAt
<1>7. TypeOK'
  <2>1. value \in SUBSET (Ids \X Ids \cup Words)
    BY DEF Members
  <2>2. Append(changelog[t], value) \in Seq(SUBSET (Ids \X Ids \cup Words))
    BY <2>1, AppendProperties DEF TypeOK
  <2>3. changelog' \in [Tables -> Seq(SUBSET (Ids \X Ids \cup Words))]
    BY <2>2 DEF TypeOK
  <2>4. \A u \in Tables : changelog'[u] \in Seq(SUBSET Members(u))
    BY <1>4, <1>5 DEF TypeOK
  <2>5. session' \in [Processors -> Sessions]
    BY <1>1, <1>p DEF TypeOK
  <2> QED
    BY <1>1, <2>3, <2>4, <2>5 DEF TypeOK
<1>8. OffsetsOrdered'
  <2>1. committed[t] <= next + 1 /\ next + 1 <= Len(events[t]) /\ view[t] <= Len(changelog'[t])
    BY <1>1, <1>2, <1>3, <1>5
  <2>2. \A u \in Tables :
          /\ committed[u] <= session'[u].marked /\ session'[u].next <= Len(events[u])
          /\ session'[u].marked = session'[u].next /\ session'[u].flight = {}
          /\ view[u] <= Len(changelog'[u]) /\ base[u] <= committed[u]
    <3> TAKE u \in Tables
    <3>1. CASE u = t
      BY <1>3, <1>4, <1>p, <2>1, <3>1
    <3>2. CASE u # t
      BY <1>4, <3>2, ProcessorFacts DEF OffsetsOrdered
    <3> QED
      BY <3>1, <3>2
  <2>3. \A i \in 1..Len(messages) : \A u \in Tables : messages[i].since[u] <= base[u]
    BY DEF OffsetsOrdered
  <2> QED
    BY <1>1, <2>2, <2>3 DEF OffsetsOrdered
<1>9. \A x \in Members(t) : Justified(t, events[t], x, next + 1, x \in value)
  <2> TAKE x \in Members(t)
  <2>1. Justified(t, events[t], x, next, x \in ValueAt(changelog[t], Len(changelog[t])))
    BY <1>1 DEF TablesFollowEvents
  <2> DEFINE v == x \in ValueAt(changelog[t], Len(changelog[t]))
             w == x \in value
  <2>2. /\ v \in BOOLEAN /\ w \in BOOLEAN
        /\ w <=> IF About(t, events[t][next + 1], x)
                 THEN PutsIn(t, events[t][next + 1], x) ELSE v
    OBVIOUS
  <2>3. Justified(t, events[t], x, next, v)
    BY <2>1
  <2> HIDE DEF v, w, next
  <2>4. Justified(t, events[t], x, next + 1, w)
    BY <1>1, <1>2, <2>2, <2>3, NextEventJustifies
  <2> QED
    BY <2>4 DEF w
<1>10. \A x \in Members(t) : /\ Justified(t, events[t], x, committed[t], x \in value)
                             /\ Justified(t, events[t], x, base[t], x \in value)
  <2>1. committed[t] <= next + 1 /\ base[t] <= next + 1 /\ next + 1 \in Nat
    BY <1>2, <1>3
  <2> QED
    BY <1>2, <1>9, <2>1, JustifiedEarlier
<1>11. ViewsFollowEvents'
  <2>1. view[t] \in 0..Len(changelog[t])
    BY <1>2, <1>3
  <2>2. \A x \in Members(t) :
          /\ Justified(t, events[t], x, committed[t], x \in ValueAt(changelog'[t], Len(changelog'[t])))
          /\ Justified(t, events[t], x, base[t], x \in ValueAt(changelog'[t], view[t]))
    BY <1>1, <1>6, <1>10, <2>1 DEF ViewsFollowEvents
  <2> QED
    BY <1>1, <1>4, <2>2 DEF ViewsFollowEvents
<1>12. TablesFollowEvents'
  <2>1. ASSUME NEW x \in Members(t), NEW n \in view[t]..Len(changelog'[t])
        PROVE  Justified(t, events[t], x, base[t], x \in ValueAt(changelog'[t], n))
    <3>1. CASE n = Len(changelog'[t])
      BY <1>6, <1>10, <3>1
    <3>2. CASE n # Len(changelog'[t])
      <4>1. n \in view[t]..Len(changelog[t]) /\ n \in 0..Len(changelog[t])
        BY <1>2, <1>5, <3>2
      <4> QED
        BY <1>1, <1>6, <4>1 DEF TablesFollowEvents
    <3> QED
      BY <3>1, <3>2
  <2>2. \A x \in Members(t) : Justified(t, events[t], x, session'[t].next,
                                        x \in ValueAt(changelog'[t], Len(changelog'[t])))
    BY <1>4, <1>p, <1>6, <1>9
  <2>3. \A u \in Tables : u # t => session'[u] = session[u]
    BY <1>4, ProcessorFacts
  <2> QED
    BY <1>1, <1>4, <2>1, <2>2, <2>3 DEF TablesFollowEvents
<1>13. SessionsOK' /\ RecordsAreMessages' /\ DeliveredIsJustified' /\ HandledIsKept'
  <2>1. \A p \in {"censorship", "filter"} : session'[p] = session[p] /\ committed'[p] = committed[p]
    BY <1>1, <1>4, ProcessorFacts
  <2>2. UNCHANGED <<events, messages, censored, filtered, emits, halts>>
    BY <1>1
  <2> QED
    BY <2>1, <2>2, MessagesStay
<1> QED
  BY <1>7, <1>8, <1>11, <1>12, <1>13

(* The event a table is about to take is one of its events.                *)
LEMMA NextEvent ==
  ASSUME TypeOK, NEW t \in Tables, Handle(t, Pass(session[t]))
  PROVE  /\ events[t][session[t].next + 1] \in Events(t)
         /\ ValueAt(changelog[t], Len(changelog[t])) \in SUBSET Members(t)
<1>1. /\ session[t].next < Len(events[t]) /\ session[t].next \in Nat /\ Len(events[t]) \in Nat
  BY TypeFacts, ProcessorFacts DEF Handle, Input
<1>2. session[t].next + 1 \in 1..Len(events[t])
  BY <1>1
<1>3. Len(changelog[t]) \in 0..Len(changelog[t])
  BY TypeFacts
<1> QED
  BY <1>2, <1>3, ElementOfSeq, ValuesAreMembers DEF TypeOK

LEMMA ProcessBlockEventKeeps == IInv /\ ProcessBlockEvent => IInv'
<1> SUFFICES ASSUME IInv, ProcessBlockEvent PROVE IInv'
  OBVIOUS
<1>1. Handle("blocks", Pass(session["blocks"])) /\ "blocks" \in Tables /\ TypeOK
  BY DEF ProcessBlockEvent, Tables, IInv
<1>2. /\ events["blocks"][session["blocks"].next + 1] \in BlockEvents
      /\ ValueAt(changelog["blocks"], Len(changelog["blocks"])) \in SUBSET Members("blocks")
  BY <1>1, NextEvent DEF Events
<1>3. changelog' = [changelog EXCEPT !["blocks"] = Append(@,
        BlockListed(ValueAt(changelog["blocks"], Len(changelog["blocks"])),
                    events["blocks"][session["blocks"].next + 1]))]
      /\ UNCHANGED <<censored, filtered, emits>>
  BY <1>1 DEF ProcessBlockEvent
<1> DEFINE e == events["blocks"][session["blocks"].next + 1]
           current == ValueAt(changelog["blocks"], Len(changelog["blocks"]))
           value == BlockListed(current, e)
<1>4. /\ value \in SUBSET Members("blocks")
      /\ \A x \in Members("blocks") :
           x \in value <=> IF About("blocks", e, x) THEN PutsIn("blocks", e, x) ELSE x \in current
  <2> HIDE DEF e, current
  <2>1. e \in BlockEvents /\ current \in SUBSET Members("blocks")
    BY <1>2 DEF e, current
  <2> QED
    BY <2>1, BlockListStep
<1>5. changelog' = [changelog EXCEPT !["blocks"] = Append(@, value)]
  BY <1>3
<1> HIDE DEF value
<1> QED
  BY <1>1, <1>3, <1>4, <1>5, TableStepKeeps

LEMMA ProcessWordUpdateKeeps == IInv /\ ProcessWordUpdate => IInv'
<1> SUFFICES ASSUME IInv, ProcessWordUpdate PROVE IInv'
  OBVIOUS
<1>1. Handle("words", Pass(session["words"])) /\ "words" \in Tables /\ TypeOK
  BY DEF ProcessWordUpdate, Tables, IInv
<1>2. /\ events["words"][session["words"].next + 1] \in WordUpdates
      /\ ValueAt(changelog["words"], Len(changelog["words"])) \in SUBSET Members("words")
  BY <1>1, NextEvent DEF Events
<1>3. changelog' = [changelog EXCEPT !["words"] = Append(@,
        Banned(ValueAt(changelog["words"], Len(changelog["words"])),
               events["words"][session["words"].next + 1]))]
      /\ UNCHANGED <<censored, filtered, emits>>
  BY <1>1 DEF ProcessWordUpdate
<1> DEFINE e == events["words"][session["words"].next + 1]
           current == ValueAt(changelog["words"], Len(changelog["words"]))
           value == Banned(current, e)
<1>4. /\ value \in SUBSET Members("words")
      /\ \A x \in Members("words") :
           x \in value <=> IF About("words", e, x) THEN PutsIn("words", e, x) ELSE x \in current
  <2> HIDE DEF e, current
  <2>1. e \in WordUpdates /\ current \in SUBSET Members("words")
    BY <1>2 DEF e, current
  <2> QED
    BY <2>1, BannedStep
<1>5. changelog' = [changelog EXCEPT !["words"] = Append(@, value)]
  BY <1>3
<1> HIDE DEF value
<1> QED
  BY <1>1, <1>3, <1>4, <1>5, TableStepKeeps

(* The reader of a table moves on.                                         *)
LEMMA FollowTableKeeps ==
  ASSUME IInv, NEW t \in Tables, FollowTable(t)
  PROVE  IInv'
<1> USE DEF IInv
<1>1. /\ running /\ view[t] < Len(changelog[t])
      /\ view' = [view EXCEPT ![t] = @ + 1]
      /\ UNCHANGED <<events, messages, changelog, censored, filtered, session, emits, committed,
                     base, running, halts>>
  BY DEF FollowTable, topics
<1>2. /\ view[t] \in Nat /\ Len(changelog[t]) \in Nat
      /\ view'[t] = view[t] + 1 /\ \A u \in Tables : u # t => view'[u] = view[u]
  BY <1>1, TypeFacts DEF TypeOK
<1>3. TypeOK'
  <2>1. view' \in [Tables -> Nat]
    BY <1>1, <1>2 DEF TypeOK
  <2> QED
    BY <1>1, <2>1 DEF TypeOK
<1>4. OffsetsOrdered'
  <2>1. view'[t] <= Len(changelog[t])
    BY <1>1, <1>2
  <2>2. \A u \in Tables : view'[u] <= Len(changelog[u])
    BY <1>2, <2>1 DEF OffsetsOrdered
  <2> QED
    BY <1>1, <2>2 DEF OffsetsOrdered
<1>5. view'[t] \in view[t]..Len(changelog[t])
      /\ \A n \in view'[t]..Len(changelog[t]) : n \in view[t]..Len(changelog[t])
  BY <1>1, <1>2
<1>6. \A u \in Tables : \A x \in Members(u) :
        /\ Justified(u, events[u], x, base[u], x \in ValueAt(changelog[u], view'[u]))
        /\ \A n \in view'[u]..Len(changelog[u]) :
             Justified(u, events[u], x, base[u], x \in ValueAt(changelog[u], n))
  <2> TAKE u \in Tables
  <2>1. CASE u = t
    BY <1>1, <1>5, <2>1 DEF TablesFollowEvents
  <2>2. CASE u # t
    BY <1>1, <1>2, <2>2 DEF ViewsFollowEvents, TablesFollowEvents
  <2> QED
    BY <2>1, <2>2
<1>7. ViewsFollowEvents'
  BY <1>1, <1>6 DEF ViewsFollowEvents
<1>8. TablesFollowEvents'
  BY <1>1, <1>6 DEF TablesFollowEvents
<1>9. SessionsOK' /\ RecordsAreMessages' /\ DeliveredIsJustified' /\ HandledIsKept'
  BY <1>1, MessagesStay
<1> QED
  BY <1>3, <1>4, <1>7, <1>8, <1>9

LEMMA ReachedByMore ==
  ASSUME NEW topic, NEW r, topic \in Seq(Outputs), r \in Outputs
  PROVE  /\ \A i : Reached(topic, i) => Reached(Append(topic, r), i)
         /\ Reached(Append(topic, r), r.offset)
<1>1. /\ Len(Append(topic, r)) = Len(topic) + 1 /\ Len(topic) \in Nat
      /\ \A j \in 1..Len(topic) : Append(topic, r)[j] = topic[j]
      /\ Append(topic, r)[Len(topic) + 1] = r
  BY AppendProperties
<1>2. \A j \in 1..Len(topic) : j \in 1..Len(Append(topic, r))
  BY <1>1
<1>3. Len(topic) + 1 \in 1..Len(Append(topic, r))
  BY <1>1
<1> QED
  BY <1>1, <1>2, <1>3 DEF Reached

(* What MaskBannedWords leaves: a word, or asterisks for a banned one.     *)
LEMMA MaskFacts ==
  ASSUME NEW text \in Seq(WordIds), NEW banned
  PROVE  /\ MaskBannedWords(text, banned) \in Seq(Words \cup {Masked})
         /\ \A k \in DOMAIN text : text[k].name \notin NonAscii =>
              (MaskBannedWords(text, banned)[k] = Masked <=> text[k].name \in banned)
<1>1. \A k \in DOMAIN text : text[k] \in WordIds
  OBVIOUS
<1>2. \A k \in DOMAIN text : text[k].name \in Words /\ text[k].name # Masked
  BY <1>1, ChatAssumption DEF WordIds
<1>3. DOMAIN text = 1..Len(text) /\ Len(text) \in Nat
  OBVIOUS
<1>4. MaskBannedWords(text, banned) \in [1..Len(text) -> Words \cup {Masked}]
  BY <1>2, <1>3 DEF MaskBannedWords
<1>5. MaskBannedWords(text, banned) \in Seq(Words \cup {Masked})
  BY <1>3, <1>4
<1>6. \A k \in DOMAIN text : MaskBannedWords(text, banned)[k] =
        IF text[k].name \in banned \ NonAscii THEN Masked ELSE text[k].name
  BY DEF MaskBannedWords
<1> QED
  BY <1>2, <1>5, <1>6

(* The record the censorship makes of message i has its words judged.      *)
LEMMA CensoredIsJudged ==
  ASSUME IInv, running, NEW i \in 1..Len(messages), NEW r,
         r.offset = i,
         r.text = MaskBannedWords(messages[i].message.text,
                                  ValueAt(changelog["words"], view["words"]))
  PROVE  WordsJudged(r)
<1> DEFINE m == messages[i].message
           banned == ValueAt(changelog["words"], view["words"])
           since == messages[i].since["words"]
<1>1. TypeOK /\ OffsetsOrdered /\ ViewsFollowEvents /\ "words" \in Tables
  BY DEF IInv, Tables
<1>2. /\ since \in Nat /\ base["words"] \in Nat /\ since <= base["words"]
      /\ Len(events["words"]) \in Nat /\ m.text \in Seq(WordIds)
      /\ \A k \in DOMAIN m.text : m.text[k].name \in Words
  BY <1>1, MessageFacts, TypeFacts DEF OffsetsOrdered
<1> SUFFICES ASSUME NEW k \in DOMAIN m.text, m.text[k].name \notin NonAscii
             PROVE  Justified("words", events["words"], m.text[k].name, since, r.text[k] = Masked)
  BY DEF WordsJudged
<1> DEFINE x == m.text[k].name
           v == x \in banned
<1>3. r.text[k] = Masked <=> v
  BY <1>2, MaskFacts
<1>4. Justified("words", events["words"], x, base["words"], v)
  BY <1>1, <1>2 DEF ViewsFollowEvents, Members
<1>5. Justified("words", events["words"], x, since, v)
  BY <1>2, <1>4, JustifiedEarlier
<1>6. (r.text[k] = Masked) = v
  BY <1>3
<1> QED
  BY <1>5, <1>6

(* A record that passes the block filter has a sender who may write, and    *)
(* one that does not has a sender whom somebody blocked.                   *)
LEMMA FilteredIsAllowed ==
  ASSUME IInv, running, NEW n \in 1..Len(censored),
         NEW m, m = messages[censored[n].offset].message
  PROVE  /\ ~Blocked(ValueAt(changelog["blocks"], view["blocks"]), m) => SenderAllowed(censored[n])
         /\ Blocked(ValueAt(changelog["blocks"], view["blocks"]), m) => ~NeverBlocked(m)
<1> DEFINE list == ValueAt(changelog["blocks"], view["blocks"])
           i == censored[n].offset
           x == <<m.to, m.from.name>>
           since == messages[i].since["blocks"]
<1>1. TypeOK /\ OffsetsOrdered /\ ViewsFollowEvents /\ RecordsAreMessages /\ "blocks" \in Tables
  BY DEF IInv, Tables
<1>2. i \in 1..Len(messages)
  BY <1>1 DEF RecordsAreMessages
<1>3. /\ since \in Nat /\ base["blocks"] \in Nat /\ since <= base["blocks"]
      /\ Len(events["blocks"]) \in Nat /\ m.to \in Ids /\ m.from \in UserIds
  BY <1>1, <1>2, MessageFacts, TypeFacts DEF OffsetsOrdered
<1>4. x \in Members("blocks")
  BY <1>3 DEF Members, UserIds
<1>5. Justified("blocks", events["blocks"], x, base["blocks"], x \in list)
  BY <1>1, <1>4 DEF ViewsFollowEvents
<1>6. ASSUME ~Blocked(list, m) PROVE SenderAllowed(censored[n])
  <2>1. CASE m.from.padded
    BY <2>1 DEF SenderAllowed
  <2>2. CASE ~m.from.padded
    <3>1. (x \in list) = FALSE
      BY <1>6, <2>2 DEF Blocked
    <3>2. Justified("blocks", events["blocks"], x, base["blocks"], FALSE)
      BY <1>5, <3>1
    <3>3. Justified("blocks", events["blocks"], x, since, FALSE)
      BY <1>3, <3>2, JustifiedEarlier
    <3> QED
      BY <3>3 DEF SenderAllowed
  <2> QED
    BY <2>1, <2>2
<1>7. ASSUME Blocked(list, m) PROVE ~NeverBlocked(m)
  <2>1. (x \in list) = TRUE
    BY <1>7 DEF Blocked
  <2>2. Justified("blocks", events["blocks"], x, base["blocks"], TRUE)
    BY <1>5, <2>1
  <2>3. PICK j \in 1..Len(events["blocks"]) :
          About("blocks", events["blocks"][j], x) /\ PutsIn("blocks", events["blocks"][j], x)
    BY <1>3, <2>2, JustifiedByAnEvent
  <2>4. events["blocks"][j].action = "block" /\ events["blocks"][j].target.name = m.from.name
    BY <2>3 DEF About, PutsIn
  <2> QED
    BY <2>4 DEF NeverBlocked
<1> QED
  BY <1>6, <1>7

(* A message is censored and emitted, or skipped as it names nobody.       *)
LEMMA CensorKeeps == IInv /\ Censor => IInv'
<1> SUFFICES ASSUME IInv, Censor PROVE IInv'
  OBVIOUS
<1> USE DEF IInv
<1> DEFINE s == session["censorship"]
           i == s.next + 1
           m == messages[i].message
           r == [offset |-> i,
                 text |-> MaskBannedWords(m.text, ValueAt(changelog["words"], view["words"]))]
           after == IF Valid(m) THEN Send(s) ELSE Pass(s)
<1>1. /\ running /\ s.next < Len(messages)
      /\ session' = [session EXCEPT !["censorship"] = after]
      /\ emits' = IF Valid(m) THEN emits \cup {r} ELSE emits
      /\ UNCHANGED <<events, messages, changelog, censored, filtered, committed, view, base,
                     running, halts>>
  BY DEF Censor, Handle, Input
<1>2. /\ s \in Sessions /\ s.next \in Nat /\ s.flight \in SUBSET Nat
      /\ Len(messages) \in Nat /\ committed["censorship"] \in Nat
      /\ Skipped \in SUBSET Nat
  BY TypeFacts, IdleFacts, ProcessorFacts
<1>3. i \in 1..Len(messages)
  BY <1>1, <1>2
<1>4. r \in Outputs
  <2>1. m.text \in Seq(WordIds)
    BY <1>3, MessageFacts
  <2> QED
    BY <1>2, <2>1, MaskFacts DEF Outputs
<1>5. Valid(m) <=> i \notin Skipped
  BY <1>3 DEF Skipped
<1>6. /\ after \in Sessions
      /\ SessionOK(after, Len(messages), committed["censorship"], Skipped)
      /\ after.next = i
      /\ after.flight = IF Valid(m) THEN s.flight \cup {i} ELSE s.flight
  <2>1. SessionOK(s, Len(messages), committed["censorship"], Skipped)
    BY DEF SessionsOK
  <2> HIDE DEF s
  <2>2. CASE Valid(m)
    <3>1. Send(s) \in Sessions /\ SessionOK(Send(s), Len(messages), committed["censorship"], Skipped)
      BY <1>1, <1>2, <2>1, SessionSends
    <3>2. Send(s).next = s.next + 1 /\ Send(s).flight = s.flight \cup {s.next + 1}
      BY <1>2 DEF Send, Sessions
    <3> QED
      BY <2>2, <3>1, <3>2
  <2>3. CASE ~Valid(m)
    <3>1. Pass(s) \in Sessions /\ SessionOK(Pass(s), Len(messages), committed["censorship"], Skipped)
      BY <1>1, <1>2, <1>5, <2>1, <2>3, SessionPasses
    <3>2. Pass(s).next = s.next + 1 /\ Pass(s).flight = s.flight
      BY <1>2, PassFacts
    <3> QED
      BY <2>3, <3>1, <3>2
  <2> QED
    BY <2>2, <2>3
<1> HIDE DEF r, after
<1>7. /\ session'["censorship"] = after
      /\ \A p \in Processors : p # "censorship" => session'[p] = session[p]
  BY <1>1, ProcessorFacts DEF TypeOK
<1>8. TypeOK'
  <2>1. session' \in [Processors -> Sessions]
    BY <1>1, <1>6 DEF TypeOK
  <2>2. emits' \subseteq Outputs
    BY <1>1, <1>4 DEF TypeOK
  <2> QED
    BY <1>1, <2>1, <2>2 DEF TypeOK
<1>9. Skipped' = Skipped /\ Droppable' = Droppable /\ session'["filter"] = session["filter"]
  BY <1>1, <1>7, ProcessorFacts DEF Skipped, Droppable, NeverBlocked
<1>10. SessionsOK'
  BY <1>1, <1>6, <1>7, <1>9 DEF SessionsOK
<1>11. OffsetsOrdered' /\ ViewsFollowEvents' /\ TablesFollowEvents'
  <2>1. \A t \in Tables : session'[t] = session[t] /\ committed'[t] = committed[t]
    BY <1>1, <1>7, ProcessorFacts
  <2> QED
    BY <1>1, <2>1, TablesStay
<1>12. RecordsAreMessages'
  <2>1. Valid(m) => r.offset \in 1..Len(messages) /\ r.offset \notin Skipped /\ WordsJudged(r)
    BY <1>1, <1>3, <1>5, CensoredIsJudged DEF r
  <2>2. \A q \in emits' \cup {censored[j] : j \in 1..Len(censored)} :
          q.offset \in 1..Len(messages) /\ q.offset \notin Skipped /\ WordsJudged(q)
    BY <1>1, <2>1 DEF RecordsAreMessages
  <2>3. \A n \in session["filter"].flight : SenderAllowed(censored[n])
    BY DEF RecordsAreMessages
  <2>4. \A j \in 1..Len(filtered) : \E n \in 1..Len(censored) : filtered[j] = censored[n]
    BY DEF RecordsAreMessages
  <2>5. \A q \in emits' \cup {censored'[j] : j \in 1..Len(censored')} :
          q.offset \in 1..Len(messages') /\ q.offset \notin Skipped' /\ WordsJudged(q)'
    BY <1>1, <1>9, <2>2 DEF WordsJudged
  <2>6. \A n \in session'["filter"].flight : SenderAllowed(censored[n])'
    BY <1>1, <1>9, <2>3 DEF SenderAllowed
  <2>7. \A j \in 1..Len(filtered') : \E n \in 1..Len(censored') : filtered'[j] = censored'[n]
    BY <1>1, <2>4
  <2> QED
    BY <2>5, <2>6, <2>7 DEF RecordsAreMessages
<1>13. DeliveredIsJustified'
  BY <1>1 DEF DeliveredIsJustified, WordsJudged, SenderAllowed
<1>14. HandledIsKept'
  <2>1. \A k \in 1..i : k \in 1..s.next \/ k = i
    BY <1>2
  <2>2. \A k \in 1..session'["censorship"].next :
          \/ k \in Skipped \cup session'["censorship"].flight
          \/ Reached(censored, k)
          \/ k \in Overtaken(Skipped, committed["censorship"]) /\ halts > 0
    BY <1>5, <1>6, <1>7, <2>1 DEF HandledIsKept
  <2>3. \A n \in 1..session["filter"].next :
          \/ n \in Droppable \cup session["filter"].flight
          \/ Reached(filtered, censored[n].offset)
          \/ n \in Overtaken(Droppable, committed["filter"]) /\ halts > 0
    BY DEF HandledIsKept
  <2> QED
    BY <1>1, <1>9, <2>2, <2>3 DEF HandledIsKept, Reached
<1> QED
  BY <1>8, <1>10, <1>11, <1>12, <1>13, <1>14

(* A record passes the block filter and is emitted, or is dropped.         *)
LEMMA FilterKeeps == IInv /\ Filter => IInv'
<1> SUFFICES ASSUME IInv, Filter PROVE IInv'
  OBVIOUS
<1> USE DEF IInv
<1> DEFINE s == session["filter"]
           k == s.next + 1
           r == censored[k]
           m == messages[r.offset].message
           dropped == Blocked(ValueAt(changelog["blocks"], view["blocks"]), m)
           after == IF dropped THEN Pass(s) ELSE Send(s)
<1>1. /\ running /\ s.next < Len(censored)
      /\ session' = [session EXCEPT !["filter"] = after]
      /\ UNCHANGED <<events, messages, changelog, censored, filtered, emits, committed, view, base,
                     running, halts>>
  BY DEF Filter, Handle, Input
<1>2. /\ s \in Sessions /\ s.next \in Nat /\ s.flight \in SUBSET Nat
      /\ Len(censored) \in Nat /\ committed["filter"] \in Nat
      /\ Droppable \in SUBSET Nat
  BY TypeFacts, IdleFacts, ProcessorFacts
<1>3. k \in 1..Len(censored)
  BY <1>1, <1>2
<1>4. (~dropped => SenderAllowed(r)) /\ (dropped => k \in Droppable)
  <2>1. (~dropped => SenderAllowed(r)) /\ (dropped => ~NeverBlocked(m))
    BY <1>1, <1>3, FilteredIsAllowed
  <2> HIDE DEF dropped
  <2> QED
    BY <1>3, <2>1 DEF Droppable
<1> HIDE DEF dropped
<1>5. /\ after \in Sessions
      /\ SessionOK(after, Len(censored), committed["filter"], Droppable)
      /\ after.next = k
      /\ after.flight = IF dropped THEN s.flight ELSE s.flight \cup {k}
  <2>1. SessionOK(s, Len(censored), committed["filter"], Droppable)
    BY DEF SessionsOK
  <2> HIDE DEF s
  <2>2. CASE ~dropped
    <3>1. Send(s) \in Sessions /\ SessionOK(Send(s), Len(censored), committed["filter"], Droppable)
      BY <1>1, <1>2, <2>1, SessionSends
    <3>2. Send(s).next = s.next + 1 /\ Send(s).flight = s.flight \cup {s.next + 1}
      BY <1>2 DEF Send, Sessions
    <3> QED
      BY <2>2, <3>1, <3>2
  <2>3. CASE dropped
    <3>1. Pass(s) \in Sessions /\ SessionOK(Pass(s), Len(censored), committed["filter"], Droppable)
      BY <1>1, <1>2, <1>4, <2>1, <2>3, SessionPasses
    <3>2. Pass(s).next = s.next + 1 /\ Pass(s).flight = s.flight
      BY <1>2, PassFacts
    <3> QED
      BY <2>3, <3>1, <3>2
  <2> QED
    BY <2>2, <2>3
<1> HIDE DEF after
<1>6. /\ session'["filter"] = after
      /\ \A p \in Processors : p # "filter" => session'[p] = session[p]
  BY <1>1, ProcessorFacts DEF TypeOK
<1>7. TypeOK'
  <2>1. session' \in [Processors -> Sessions]
    BY <1>1, <1>5 DEF TypeOK
  <2> QED
    BY <1>1, <2>1 DEF TypeOK
<1>8. /\ Skipped' = Skipped /\ Droppable' = Droppable
      /\ session'["censorship"] = session["censorship"]
  BY <1>1, <1>6, ProcessorFacts DEF Skipped, Droppable, NeverBlocked
<1>9. SessionsOK'
  BY <1>1, <1>5, <1>6, <1>8 DEF SessionsOK
<1>10. OffsetsOrdered' /\ ViewsFollowEvents' /\ TablesFollowEvents'
  <2>1. \A t \in Tables : session'[t] = session[t] /\ committed'[t] = committed[t]
    BY <1>1, <1>6, ProcessorFacts
  <2> QED
    BY <1>1, <2>1, TablesStay
<1>11. RecordsAreMessages'
  <2>1. \A q \in emits \cup {censored[j] : j \in 1..Len(censored)} :
          q.offset \in 1..Len(messages) /\ q.offset \notin Skipped /\ WordsJudged(q)
    BY DEF RecordsAreMessages
  <2>2. \A n \in session'["filter"].flight : SenderAllowed(censored[n])
    BY <1>4, <1>5, <1>6 DEF RecordsAreMessages
  <2>3. \A j \in 1..Len(filtered) : \E n \in 1..Len(censored) : filtered[j] = censored[n]
    BY DEF RecordsAreMessages
  <2>4. \A q \in emits' \cup {censored'[j] : j \in 1..Len(censored')} :
          q.offset \in 1..Len(messages') /\ q.offset \notin Skipped' /\ WordsJudged(q)'
    BY <1>1, <1>8, <2>1 DEF WordsJudged
  <2>5. \A n \in session'["filter"].flight : SenderAllowed(censored[n])'
    BY <1>1, <2>2 DEF SenderAllowed
  <2>6. \A j \in 1..Len(filtered') : \E n \in 1..Len(censored') : filtered'[j] = censored'[n]
    BY <1>1, <2>3
  <2> QED
    BY <2>4, <2>5, <2>6 DEF RecordsAreMessages
<1>12. DeliveredIsJustified'
  BY <1>1 DEF DeliveredIsJustified, WordsJudged, SenderAllowed
<1>13. HandledIsKept'
  <2>1. \A n \in 1..k : n \in 1..s.next \/ n = k
    BY <1>2
  <2>2. \A n \in 1..session'["filter"].next :
          \/ n \in Droppable \cup session'["filter"].flight
          \/ Reached(filtered, censored[n].offset)
          \/ n \in Overtaken(Droppable, committed["filter"]) /\ halts > 0
    BY <1>4, <1>5, <1>6, <2>1 DEF HandledIsKept
  <2>3. \A i \in 1..session["censorship"].next :
          \/ i \in Skipped \cup session["censorship"].flight
          \/ Reached(censored, i)
          \/ i \in Overtaken(Skipped, committed["censorship"]) /\ halts > 0
    BY DEF HandledIsKept
  <2> QED
    BY <1>1, <1>8, <2>2, <2>3 DEF HandledIsKept, Reached
<1> QED
  BY <1>7, <1>9, <1>10, <1>11, <1>12, <1>13

(* What acknowledging leaves of a session.                                 *)
LEMMA AcknowledgeFacts ==
  ASSUME NEW s \in Sessions, NEW o
  PROVE  Acknowledge(s, o).next = s.next /\ Acknowledge(s, o).flight = s.flight \ {o}
  BY DEF Acknowledge, Sessions

(* A record reaches censored_messages.                                     *)
LEMMA AckCensoredKeeps == IInv /\ AckCensored => IInv'
<1> SUFFICES ASSUME IInv, AckCensored PROVE IInv'
  OBVIOUS
<1> USE DEF IInv
<1> DEFINE s == session["censorship"]
           f == session["filter"]
<1>1. PICK r \in emits :
        /\ IsOldest(s, r.offset)
        /\ session' = [session EXCEPT !["censorship"] = Acknowledge(s, r.offset)]
        /\ censored' = Append(censored, r)
        /\ emits' = emits \ {r}
  BY DEF AckCensored
<1>2. UNCHANGED <<events, messages, changelog, filtered, committed, view, base, running, halts>>
  BY DEF AckCensored
<1>3. /\ s \in Sessions /\ f \in Sessions
      /\ Len(messages) \in Nat /\ Len(censored) \in Nat
      /\ committed["censorship"] \in Nat /\ committed["filter"] \in Nat
      /\ committed["filter"] <= committed["filter"]
      /\ Skipped \in SUBSET Nat /\ Droppable \in SUBSET Nat
  BY TypeFacts, IdleFacts, ProcessorFacts
<1>4. /\ r \in Outputs /\ censored \in Seq(Outputs)
      /\ r.offset \in 1..Len(messages) /\ r.offset \notin Skipped /\ WordsJudged(r)
  BY DEF TypeOK, RecordsAreMessages
<1>5. /\ censored' \in Seq(Outputs) /\ Len(censored') = Len(censored) + 1
      /\ \A j \in 1..Len(censored) : censored'[j] = censored[j]
      /\ censored'[Len(censored) + 1] = r
  BY <1>1, <1>4, AppendProperties
<1>6. /\ \A j \in 1..Len(censored) : j \in 1..Len(censored')
      /\ \A j \in 1..Len(censored') : j \in 1..Len(censored) \/ j = Len(censored) + 1
      /\ Len(censored') \in Nat /\ Len(censored) <= Len(censored')
  BY <1>3, <1>5
<1>7. /\ Acknowledge(s, r.offset) \in Sessions
      /\ SessionOK(Acknowledge(s, r.offset), Len(messages), committed["censorship"], Skipped)
  <2>1. SessionOK(s, Len(messages), committed["censorship"], Skipped)
    BY DEF SessionsOK
  <2> HIDE DEF s
  <2> QED
    BY <1>1, <1>3, <2>1, SessionAcknowledges
<1>8. /\ session'["censorship"] = Acknowledge(s, r.offset)
      /\ \A p \in Processors : p # "censorship" => session'[p] = session[p]
      /\ session'["filter"] = f
  BY <1>1, ProcessorFacts DEF TypeOK
<1>9. TypeOK'
  <2>1. session' \in [Processors -> Sessions]
    BY <1>1, <1>7 DEF TypeOK
  <2> QED
    BY <1>1, <1>2, <1>5, <2>1 DEF TypeOK
<1>10. Skipped' = Skipped /\ Droppable \subseteq Droppable' /\ Droppable' \in SUBSET Nat
  <2>1. Skipped' = Skipped
    BY <1>2 DEF Skipped
  <2>2. Droppable \subseteq Droppable'
    BY <1>2, <1>5, <1>6 DEF Droppable, NeverBlocked
  <2>3. Droppable' \subseteq 1..Len(censored') /\ 1..Len(censored') \subseteq Nat
    BY <1>6 DEF Droppable
  <2> QED
    BY <2>1, <2>2, <2>3
<1>11. SessionsOK'
  <2>1. SessionOK(f, Len(censored), committed["filter"], Droppable)
    BY DEF SessionsOK
  <2>2. SessionOK(f, Len(censored'), committed["filter"], Droppable')
    <3> HIDE DEF f
    <3> QED
      BY <1>3, <1>6, <1>10, <2>1, SessionLonger
  <2> QED
    BY <1>2, <1>7, <1>8, <1>10, <2>2 DEF SessionsOK
<1>12. OffsetsOrdered' /\ ViewsFollowEvents' /\ TablesFollowEvents'
  <2>1. \A t \in Tables : session'[t] = session[t] /\ committed'[t] = committed[t]
    BY <1>2, <1>8, ProcessorFacts
  <2> QED
    BY <1>2, <2>1, TablesStay
<1>13. \A n \in 1..f.next : n \in 1..Len(censored) /\ censored'[n] = censored[n]
  BY <1>5, HandledFacts
<1>14. RecordsAreMessages'
  <2>1. \A q \in emits \cup {censored[j] : j \in 1..Len(censored)} :
          q.offset \in 1..Len(messages) /\ q.offset \notin Skipped /\ WordsJudged(q)
    BY DEF RecordsAreMessages
  <2>2. \A n \in f.flight : n \in 1..f.next /\ SenderAllowed(censored[n])
    BY HandledFacts DEF RecordsAreMessages
  <2>3. emits' \cup {censored'[j] : j \in 1..Len(censored')}
          \subseteq emits \cup {censored[j] : j \in 1..Len(censored)}
    BY <1>1, <1>5, <1>6
  <2>4. \A q \in emits' \cup {censored'[j] : j \in 1..Len(censored')} :
          q.offset \in 1..Len(messages') /\ q.offset \notin Skipped' /\ WordsJudged(q)'
    BY <1>2, <1>10, <2>1, <2>3 DEF WordsJudged
  <2>5. \A n \in session'["filter"].flight : SenderAllowed(censored[n])'
    BY <1>2, <1>8, <1>13, <2>2 DEF SenderAllowed
  <2>6. \A j \in 1..Len(filtered') : \E n \in 1..Len(censored') : filtered'[j] = censored'[n]
    BY <1>2, <1>5, <1>6 DEF RecordsAreMessages
  <2> QED
    BY <2>4, <2>5, <2>6 DEF RecordsAreMessages
<1>15. DeliveredIsJustified'
  BY <1>2 DEF DeliveredIsJustified, WordsJudged, SenderAllowed
<1>16. HandledIsKept'
  <2>1. /\ \A i : Reached(censored, i) => Reached(censored', i)
        /\ Reached(censored', r.offset)
    BY <1>1, <1>4, ReachedByMore
  <2>2. /\ session'["censorship"].next = s.next
        /\ session'["censorship"].flight = s.flight \ {r.offset}
    BY <1>3, <1>8, AcknowledgeFacts
  <2>3. \A i \in 1..session'["censorship"].next :
          \/ i \in Skipped \cup session'["censorship"].flight
          \/ Reached(censored', i)
          \/ i \in Overtaken(Skipped, committed["censorship"]) /\ halts > 0
    BY <2>1, <2>2 DEF HandledIsKept
  <2>4. Overtaken(Droppable, committed["filter"]) \subseteq Overtaken(Droppable', committed["filter"])
    BY <1>3, <1>10, OvertakenGrows
  <2>5. \A n \in 1..f.next :
          \/ n \in Droppable' \cup f.flight
          \/ Reached(filtered, censored'[n].offset)
          \/ n \in Overtaken(Droppable', committed["filter"]) /\ halts > 0
    BY <1>10, <1>13, <2>4 DEF HandledIsKept
  <2> QED
    BY <1>2, <1>8, <1>10, <2>3, <2>5 DEF HandledIsKept, Reached
<1> QED
  BY <1>9, <1>11, <1>12, <1>14, <1>15, <1>16

(* A record reaches filtered_messages.                                     *)
LEMMA AckFilteredKeeps == IInv /\ AckFiltered => IInv'
<1> SUFFICES ASSUME IInv, AckFiltered PROVE IInv'
  OBVIOUS
<1> USE DEF IInv
<1> DEFINE f == session["filter"]
<1>1. PICK n \in f.flight :
        /\ IsOldest(f, n)
        /\ session' = [session EXCEPT !["filter"] = Acknowledge(f, n)]
        /\ filtered' = Append(filtered, censored[n])
  BY DEF AckFiltered
<1>2. UNCHANGED <<events, messages, changelog, censored, emits, committed, view, base, running,
                  halts>>
  BY DEF AckFiltered
<1>3. /\ f \in Sessions /\ Len(censored) \in Nat /\ Len(filtered) \in Nat
      /\ committed["filter"] \in Nat /\ Droppable \in SUBSET Nat
      /\ n \in 1..Len(censored)
  <2>1. n \in 1..Len(censored)
    BY HandledFacts
  <2> QED
    BY <2>1, TypeFacts, IdleFacts, ProcessorFacts
<1>4. /\ censored[n] \in Outputs /\ filtered \in Seq(Outputs)
      /\ SenderAllowed(censored[n]) /\ WordsJudged(censored[n])
  <2>1. censored[n] \in Outputs
    BY <1>3, ElementOfSeq DEF TypeOK
  <2> QED
    BY <1>3, <2>1 DEF TypeOK, RecordsAreMessages
<1>5. /\ filtered' \in Seq(Outputs) /\ Len(filtered') = Len(filtered) + 1
      /\ \A j \in 1..Len(filtered) : filtered'[j] = filtered[j]
      /\ filtered'[Len(filtered) + 1] = censored[n]
  BY <1>1, <1>4, AppendProperties
<1>6. \A j \in 1..Len(filtered') : j \in 1..Len(filtered) \/ j = Len(filtered) + 1
  BY <1>3, <1>5
<1>7. /\ Acknowledge(f, n) \in Sessions
      /\ SessionOK(Acknowledge(f, n), Len(censored), committed["filter"], Droppable)
  <2>1. SessionOK(f, Len(censored), committed["filter"], Droppable)
    BY DEF SessionsOK
  <2> HIDE DEF f
  <2> QED
    BY <1>1, <1>3, <2>1, SessionAcknowledges
<1>8. /\ session'["filter"] = Acknowledge(f, n)
      /\ \A p \in Processors : p # "filter" => session'[p] = session[p]
      /\ session'["censorship"] = session["censorship"]
      /\ session'["filter"].next = f.next /\ session'["filter"].flight = f.flight \ {n}
  <2>1. /\ session'["filter"] = Acknowledge(f, n)
        /\ \A p \in Processors : p # "filter" => session'[p] = session[p]
    BY <1>1, ProcessorFacts DEF TypeOK
  <2> QED
    BY <1>3, <2>1, AcknowledgeFacts, ProcessorFacts
<1>9. TypeOK'
  <2>1. session' \in [Processors -> Sessions]
    BY <1>1, <1>7 DEF TypeOK
  <2> QED
    BY <1>2, <1>5, <2>1 DEF TypeOK
<1>10. Skipped' = Skipped /\ Droppable' = Droppable
  BY <1>2 DEF Skipped, Droppable, NeverBlocked
<1>11. SessionsOK'
  BY <1>2, <1>7, <1>8, <1>10 DEF SessionsOK
<1>12. OffsetsOrdered' /\ ViewsFollowEvents' /\ TablesFollowEvents'
  <2>1. \A t \in Tables : session'[t] = session[t] /\ committed'[t] = committed[t]
    BY <1>2, <1>8, ProcessorFacts
  <2> QED
    BY <1>2, <2>1, TablesStay
<1>13. RecordsAreMessages'
  <2>1. \A q \in emits' \cup {censored'[j] : j \in 1..Len(censored')} :
          q.offset \in 1..Len(messages') /\ q.offset \notin Skipped' /\ WordsJudged(q)'
    BY <1>2, <1>10 DEF RecordsAreMessages, WordsJudged
  <2>2. \A k \in session'["filter"].flight : SenderAllowed(censored[k])'
    BY <1>2, <1>8 DEF RecordsAreMessages, SenderAllowed
  <2>3. \A j \in 1..Len(filtered') : \E k \in 1..Len(censored') : filtered'[j] = censored'[k]
    BY <1>2, <1>3, <1>5, <1>6 DEF RecordsAreMessages
  <2> QED
    BY <2>1, <2>2, <2>3 DEF RecordsAreMessages
<1>14. DeliveredIsJustified'
  <2>1. \A j \in 1..Len(filtered') : SenderAllowed(filtered'[j]) /\ WordsJudged(filtered'[j])
    BY <1>4, <1>5, <1>6 DEF DeliveredIsJustified
  <2> QED
    BY <1>2, <2>1 DEF DeliveredIsJustified, SenderAllowed, WordsJudged
<1>15. HandledIsKept'
  <2>1. /\ \A i : Reached(filtered, i) => Reached(filtered', i)
        /\ Reached(filtered', censored[n].offset)
    BY <1>1, <1>4, ReachedByMore
  <2>2. \A k \in 1..session'["filter"].next :
          \/ k \in Droppable \cup session'["filter"].flight
          \/ Reached(filtered', censored[k].offset)
          \/ k \in Overtaken(Droppable, committed["filter"]) /\ halts > 0
    BY <1>8, <2>1 DEF HandledIsKept
  <2>3. \A i \in 1..session["censorship"].next :
          \/ i \in Skipped \cup session["censorship"].flight
          \/ Reached(censored, i)
          \/ i \in Overtaken(Skipped, committed["censorship"]) /\ halts > 0
    BY DEF HandledIsKept
  <2> QED
    BY <1>2, <1>8, <1>10, <2>2, <2>3 DEF HandledIsKept, Reached
<1> QED
  BY <1>9, <1>11, <1>12, <1>13, <1>14, <1>15

(* Some groups commit what they have marked: the tables are ahead of that,  *)
(* and what is still in flight up to there was overtaken.                  *)
LEMMA CommitFacts ==
  ASSUME IInv, running, UNCHANGED <<topics, view, base>>,
         committed' \in [Processors -> Nat],
         \A p \in Processors : committed'[p] \in {committed[p], session[p].marked}
  PROVE  /\ ViewsFollowEvents' /\ DeliveredIsJustified'
         /\ Skipped' = Skipped /\ Droppable' = Droppable
         /\ \A t \in Tables : /\ base[t] <= committed'[t]
                              /\ committed'[t] <= session[t].next
                              /\ session[t].next <= Len(events[t])
         /\ SessionOK(session["censorship"], Len(messages), committed'["censorship"], Skipped)
         /\ SessionOK(session["filter"], Len(censored), committed'["filter"], Droppable)
         /\ committed'["censorship"] <= session["censorship"].next
         /\ committed'["filter"] <= session["filter"].next
         /\ \A i \in session["censorship"].flight :
              i <= committed'["censorship"] => i \in Overtaken(Skipped, committed'["censorship"])
         /\ \A n \in session["filter"].flight :
              n <= committed'["filter"] => n \in Overtaken(Droppable, committed'["filter"])
         /\ Overtaken(Skipped, committed["censorship"])
              \subseteq Overtaken(Skipped, committed'["censorship"])
         /\ Overtaken(Droppable, committed["filter"])
              \subseteq Overtaken(Droppable, committed'["filter"])
<1> USE DEF IInv
<1>1. UNCHANGED <<events, messages, changelog, censored, filtered>>
  BY DEF topics
<1>2. Skipped' = Skipped /\ Droppable' = Droppable
  BY <1>1 DEF Skipped, Droppable, NeverBlocked
<1>3. \A t \in Tables : /\ base[t] <= committed'[t]
                        /\ committed'[t] <= session[t].next
                        /\ session[t].next <= Len(events[t])
                        /\ committed'[t] \in {committed[t], session[t].next}
  <2> TAKE t \in Tables
  <2>1. /\ t \in Processors /\ base[t] \in Nat /\ committed[t] \in Nat
        /\ session[t].next \in Nat /\ session[t].marked = session[t].next
        /\ base[t] <= committed[t] /\ committed[t] <= session[t].next
        /\ session[t].next <= Len(events[t])
    BY TypeFacts, ProcessorFacts DEF OffsetsOrdered
  <2>2. committed'[t] \in {committed[t], session[t].next}
    BY <2>1
  <2> QED
    BY <2>1, <2>2
<1>4. ViewsFollowEvents'
  <2>1. \A t \in Tables : \A x \in Members(t) :
          Justified(t, events[t], x, committed'[t], x \in ValueAt(changelog[t], Len(changelog[t])))
    BY <1>3 DEF ViewsFollowEvents, TablesFollowEvents
  <2> QED
    BY <1>1, <2>1 DEF ViewsFollowEvents
<1>5. DeliveredIsJustified'
  BY <1>1 DEF DeliveredIsJustified, WordsJudged, SenderAllowed
<1>6. /\ session["censorship"] \in Sessions /\ session["filter"] \in Sessions
      /\ Len(messages) \in Nat /\ Len(censored) \in Nat
      /\ committed["censorship"] \in Nat /\ committed["filter"] \in Nat
      /\ committed'["censorship"] \in {committed["censorship"], session["censorship"].marked}
      /\ committed'["filter"] \in {committed["filter"], session["filter"].marked}
      /\ Skipped \in SUBSET Nat /\ Droppable \in SUBSET Nat
  BY TypeFacts, IdleFacts, ProcessorFacts
<1>7. /\ SessionOK(session["censorship"], Len(messages), committed["censorship"], Skipped)
      /\ SessionOK(session["filter"], Len(censored), committed["filter"], Droppable)
  BY DEF SessionsOK
<1> DEFINE c == committed'["censorship"]
           d == committed'["filter"]
<1>8. /\ SessionOK(session["censorship"], Len(messages), c, Skipped)
      /\ c \in Nat /\ committed["censorship"] <= c /\ c <= session["censorship"].next
      /\ \A i \in session["censorship"].flight : i <= c => i \in Overtaken(Skipped, c)
  <2> HIDE DEF c
  <2>1. c \in {committed["censorship"], session["censorship"].marked}
    BY <1>6 DEF c
  <2> QED
    BY <1>6, <1>7, <2>1, SessionCommits
<1>9. /\ SessionOK(session["filter"], Len(censored), d, Droppable)
      /\ d \in Nat /\ committed["filter"] <= d /\ d <= session["filter"].next
      /\ \A n \in session["filter"].flight : n <= d => n \in Overtaken(Droppable, d)
  <2> HIDE DEF d
  <2>1. d \in {committed["filter"], session["filter"].marked}
    BY <1>6 DEF d
  <2> QED
    BY <1>6, <1>7, <2>1, SessionCommits
<1>10. /\ Overtaken(Skipped, committed["censorship"]) \subseteq Overtaken(Skipped, c)
       /\ Overtaken(Droppable, committed["filter"]) \subseteq Overtaken(Droppable, d)
  <2> HIDE DEF c, d
  <2> QED
    BY <1>6, <1>8, <1>9, OvertakenGrows
<1> QED
  BY <1>2, <1>3, <1>4, <1>5, <1>8, <1>9, <1>10

(* A group commits.                                                        *)
LEMMA CommitKeeps ==
  ASSUME IInv, NEW p \in Processors, Commit(p)
  PROVE  IInv'
<1> USE DEF IInv
<1>1. /\ running /\ committed' = [committed EXCEPT ![p] = session[p].marked]
      /\ UNCHANGED <<events, messages, changelog, censored, filtered, session, emits, view, base,
                     running, halts>>
  BY DEF Commit, topics, local
<1>2. /\ committed' \in [Processors -> Nat]
      /\ \A q \in Processors : committed'[q] \in {committed[q], session[q].marked}
  <2>1. session[p].marked \in Nat
    BY TypeFacts
  <2> QED
    BY <1>1, <2>1 DEF TypeOK
<1>3. UNCHANGED <<topics, view, base>>
  BY <1>1 DEF topics
<1>4. /\ ViewsFollowEvents' /\ DeliveredIsJustified'
      /\ Skipped' = Skipped /\ Droppable' = Droppable
      /\ \A t \in Tables : base[t] <= committed'[t] /\ committed'[t] <= session[t].next
      /\ SessionOK(session["censorship"], Len(messages), committed'["censorship"], Skipped)
      /\ SessionOK(session["filter"], Len(censored), committed'["filter"], Droppable)
      /\ Overtaken(Skipped, committed["censorship"])
           \subseteq Overtaken(Skipped, committed'["censorship"])
      /\ Overtaken(Droppable, committed["filter"])
           \subseteq Overtaken(Droppable, committed'["filter"])
  BY <1>1, <1>2, <1>3, CommitFacts
<1>5. TypeOK'
  BY <1>1, <1>2 DEF TypeOK
<1>6. SessionsOK'
  BY <1>1, <1>4 DEF SessionsOK
<1>7. OffsetsOrdered'
  BY <1>1, <1>4 DEF OffsetsOrdered
<1>8. TablesFollowEvents'
  BY <1>1 DEF TablesFollowEvents
<1>9. RecordsAreMessages'
  <2>1. \A q \in emits' \cup {censored'[j] : j \in 1..Len(censored')} :
          q.offset \in 1..Len(messages') /\ q.offset \notin Skipped' /\ WordsJudged(q)'
    BY <1>1, <1>4 DEF RecordsAreMessages, WordsJudged
  <2>2. \A n \in session'["filter"].flight : SenderAllowed(censored[n])'
    BY <1>1 DEF RecordsAreMessages, SenderAllowed
  <2>3. \A j \in 1..Len(filtered') : \E n \in 1..Len(censored') : filtered'[j] = censored'[n]
    BY <1>1 DEF RecordsAreMessages
  <2> QED
    BY <2>1, <2>2, <2>3 DEF RecordsAreMessages
<1>10. HandledIsKept'
  BY <1>1, <1>4 DEF HandledIsKept, Reached
<1> QED
  BY <1>4, <1>5, <1>6, <1>7, <1>8, <1>9, <1>10

(* What a session begins with.                                             *)
LEMMA FromFacts ==
  ASSUME NEW c \in Nat
  PROVE  /\ From(c) \in Sessions
         /\ From(c).next = c /\ From(c).marked = c /\ From(c).flight = {}
<1>1. From(c) \in Sessions
  BY DEF From, Sessions
<1> QED
  BY <1>1 DEF From

(* The process goes down; the next sessions begin at what is committed, and *)
(* what was in flight up to there is not repeated.                         *)
LEMMA HaltKeeps == IInv /\ Halt => IInv'
<1> SUFFICES ASSUME IInv, Halt PROVE IInv'
  OBVIOUS
<1> USE DEF IInv
<1>1. /\ running /\ running' = FALSE /\ halts' = halts + 1
      /\ session' = [p \in Processors |-> From(committed'[p])]
      /\ emits' = {}
      /\ UNCHANGED <<events, messages, changelog, censored, filtered, view, base>>
  BY DEF Halt, topics
<1>2. /\ committed' \in [Processors -> Nat]
      /\ \A q \in Processors : committed'[q] \in {committed[q], session[q].marked}
  <2>1. PICK S \in SUBSET {p \in Processors : session[p].flight = {}} :
          committed' = [p \in Processors |-> IF p \in S THEN session[p].marked ELSE committed[p]]
    BY DEF Halt
  <2>2. \A p \in Processors : committed[p] \in Nat /\ session[p].marked \in Nat
    BY TypeFacts
  <2> QED
    BY <2>1, <2>2
<1>3. UNCHANGED <<topics, view, base>>
  BY <1>1 DEF topics
<1>4. /\ ViewsFollowEvents' /\ DeliveredIsJustified'
      /\ Skipped' = Skipped /\ Droppable' = Droppable
      /\ \A t \in Tables : /\ base[t] <= committed'[t]
                           /\ committed'[t] <= session[t].next
                           /\ session[t].next <= Len(events[t])
      /\ committed'["censorship"] <= session["censorship"].next
      /\ committed'["filter"] <= session["filter"].next
      /\ \A i \in session["censorship"].flight :
           i <= committed'["censorship"] => i \in Overtaken(Skipped, committed'["censorship"])
      /\ \A n \in session["filter"].flight :
           n <= committed'["filter"] => n \in Overtaken(Droppable, committed'["filter"])
      /\ Overtaken(Skipped, committed["censorship"])
           \subseteq Overtaken(Skipped, committed'["censorship"])
      /\ Overtaken(Droppable, committed["filter"])
           \subseteq Overtaken(Droppable, committed'["filter"])
  BY <1>1, <1>2, <1>3, CommitFacts
<1>5. \A p \in Processors :
        /\ committed'[p] \in Nat /\ From(committed'[p]) \in Sessions
        /\ session'[p] = From(committed'[p])
        /\ session'[p].next = committed'[p] /\ session'[p].marked = committed'[p]
        /\ session'[p].flight = {}
  <2>1. \A p \in Processors : committed'[p] \in Nat /\ session'[p] = From(committed'[p])
    BY <1>1, <1>2
  <2>2. \A c \in Nat : /\ From(c) \in Sessions
                       /\ From(c).next = c /\ From(c).marked = c /\ From(c).flight = {}
    BY FromFacts
  <2> QED
    BY <2>1, <2>2
<1>6. TypeOK'
  <2>1. session' \in [Processors -> Sessions]
    BY <1>1, <1>5
  <2>2. running' \in BOOLEAN /\ emits' \subseteq Outputs
    BY <1>1
  <2>3. halts' \in Nat
    BY <1>1 DEF TypeOK
  <2> QED
    BY <1>1, <1>2, <2>1, <2>2, <2>3 DEF TypeOK
<1>7. /\ committed'["censorship"] \in Nat /\ committed'["filter"] \in Nat
      /\ committed'["censorship"] <= Len(messages) /\ committed'["filter"] <= Len(censored)
      /\ Len(messages) \in Nat /\ Len(censored) \in Nat
  <2>1. /\ Len(messages) \in Nat /\ Len(censored) \in Nat
        /\ session["censorship"].next \in Nat /\ session["filter"].next \in Nat
    BY TypeFacts, ProcessorFacts
  <2>2. session["censorship"].next <= Len(messages) /\ session["filter"].next <= Len(censored)
    BY HandledFacts
  <2>3. committed'["censorship"] \in Nat /\ committed'["filter"] \in Nat
    BY <1>5, ProcessorFacts
  <2> QED
    BY <1>4, <2>1, <2>2, <2>3
<1>8. SessionsOK'
  <2>1. /\ SessionOK(From(committed'["censorship"]), Len(messages), committed'["censorship"], Skipped)
        /\ SessionOK(From(committed'["filter"]), Len(censored), committed'["filter"], Droppable)
    BY <1>7, SessionBegins
  <2> QED
    BY <1>1, <1>4, <1>5, <2>1, ProcessorFacts DEF SessionsOK
<1>9. OffsetsOrdered'
  <2>1. \A t \in Tables :
          /\ committed'[t] <= session'[t].marked /\ session'[t].next <= Len(events[t])
          /\ session'[t].marked = session'[t].next /\ session'[t].flight = {}
          /\ session'[t].next = committed'[t]
          /\ view[t] <= Len(changelog[t]) /\ base[t] <= committed'[t]
    <3> TAKE t \in Tables
    <3>1. /\ t \in Processors /\ committed'[t] \in Nat
          /\ session[t].next \in Nat /\ Len(events[t]) \in Nat
      BY <1>5, TypeFacts, ProcessorFacts
    <3>2. committed'[t] <= Len(events[t]) /\ committed'[t] <= committed'[t]
      BY <1>4, <3>1
    <3> QED
      BY <1>4, <1>5, <3>1, <3>2 DEF OffsetsOrdered
  <2>2. \A i \in 1..Len(messages) : \A t \in Tables : messages[i].since[t] <= base[t]
    BY DEF OffsetsOrdered
  <2> QED
    BY <1>1, <2>1, <2>2 DEF OffsetsOrdered
<1>10. TablesFollowEvents'
  BY <1>1 DEF TablesFollowEvents
<1>11. RecordsAreMessages'
  <2>1. \A q \in {} \cup {censored'[j] : j \in 1..Len(censored')} :
          q.offset \in 1..Len(messages') /\ q.offset \notin Skipped' /\ WordsJudged(q)'
    BY <1>1, <1>4 DEF RecordsAreMessages, WordsJudged
  <2>2. session'["filter"].flight = {}
    BY <1>5, ProcessorFacts
  <2>3. \A j \in 1..Len(filtered') : \E k \in 1..Len(censored') : filtered'[j] = censored'[k]
    BY <1>1 DEF RecordsAreMessages
  <2>4. \A k \in session'["filter"].flight : SenderAllowed(censored[k])'
    BY <2>2
  <2>5. \A q \in emits' \cup {censored'[j] : j \in 1..Len(censored')} :
          q.offset \in 1..Len(messages') /\ q.offset \notin Skipped' /\ WordsJudged(q)'
    BY <1>1, <2>1
  <2> QED
    BY <2>3, <2>4, <2>5 DEF RecordsAreMessages
<1>12. HandledIsKept'
  <2>0. halts' > 0
    BY <1>1 DEF TypeOK
  <2>1. ASSUME NEW i \in 1..committed'["censorship"]
        PROVE  \/ i \in Skipped
               \/ Reached(censored, i)
               \/ i \in Overtaken(Skipped, committed'["censorship"])
    <3>1. i \in 1..session["censorship"].next /\ i <= committed'["censorship"]
      <4>1. session["censorship"].next \in Nat
        BY TypeFacts, ProcessorFacts
      <4> QED
        BY <1>4, <1>7, <4>1
    <3> QED
      BY <1>4, <3>1 DEF HandledIsKept
  <2>2. ASSUME NEW n \in 1..committed'["filter"]
        PROVE  \/ n \in Droppable
               \/ Reached(filtered, censored[n].offset)
               \/ n \in Overtaken(Droppable, committed'["filter"])
    <3>1. n \in 1..session["filter"].next /\ n <= committed'["filter"]
      <4>1. session["filter"].next \in Nat
        BY TypeFacts, ProcessorFacts
      <4> QED
        BY <1>4, <1>7, <4>1
    <3> QED
      BY <1>4, <3>1 DEF HandledIsKept
  <2>3. /\ session'["censorship"].next = committed'["censorship"]
        /\ session'["filter"].next = committed'["filter"]
    BY <1>5, ProcessorFacts
  <2> QED
    BY <1>1, <1>4, <2>0, <2>1, <2>2, <2>3 DEF HandledIsKept, Reached
<1> QED
  BY <1>4, <1>6, <1>8, <1>9, <1>10, <1>11, <1>12

(* Nothing happens.                                                        *)
LEMMA StutterKeeps == IInv /\ UNCHANGED vars => IInv'
<1> SUFFICES ASSUME IInv, UNCHANGED vars PROVE IInv'
  OBVIOUS
<1> USE DEF IInv
<1>1. UNCHANGED <<events, messages, changelog, censored, filtered, session, emits, committed, view,
                  base, running, halts>>
  BY DEF vars, topics, local
<1>2. TypeOK'
  BY <1>1 DEF TypeOK
<1>3. OffsetsOrdered' /\ ViewsFollowEvents' /\ TablesFollowEvents'
  BY <1>1, TablesStay
<1>4. SessionsOK' /\ RecordsAreMessages' /\ DeliveredIsJustified' /\ HandledIsKept'
  BY <1>1, MessagesStay
<1> QED
  BY <1>2, <1>3, <1>4

(* Every step keeps the invariant.                                         *)
LEMMA NextPreserves == IInv /\ [Next]_vars => IInv'
<1> SUFFICES ASSUME IInv, [Next]_vars PROVE IInv'
  OBVIOUS
<1>1. ASSUME NEW e \in BlockEvents, SendEvent("blocks", e) PROVE IInv'
  BY <1>1, SendEventKeeps DEF Tables, Events
<1>2. ASSUME NEW e \in WordUpdates, SendEvent("words", e) PROVE IInv'
  BY <1>2, SendEventKeeps DEF Tables, Events
<1>3. ASSUME NEW m \in Messages, SendMessage(m) PROVE IInv'
  BY <1>3, SendMessageKeeps
<1>4. CASE Start
  BY <1>4, StartKeeps
<1>5. CASE ProcessBlockEvent
  BY <1>5, ProcessBlockEventKeeps
<1>6. CASE ProcessWordUpdate
  BY <1>6, ProcessWordUpdateKeeps
<1>7. CASE Censor
  BY <1>7, CensorKeeps
<1>8. CASE Filter
  BY <1>8, FilterKeeps
<1>9. CASE AckCensored
  BY <1>9, AckCensoredKeeps
<1>10. CASE AckFiltered
  BY <1>10, AckFilteredKeeps
<1>11. ASSUME NEW t \in Tables, FollowTable(t) PROVE IInv'
  BY <1>11, FollowTableKeeps
<1>12. ASSUME NEW p \in Processors, Commit(p) PROVE IInv'
  BY <1>12, CommitKeeps
<1>13. CASE Halt
  BY <1>13, HaltKeeps
<1>14. CASE UNCHANGED vars
  BY <1>14, StutterKeeps
<1> QED
  BY <1>1, <1>2, <1>3, <1>4, <1>5, <1>6, <1>7, <1>8, <1>9, <1>10, <1>11, <1>12, <1>13, <1>14
     DEF Next, Rest

-----------------------------------------------------------------------------
(* What the pipeline promises *)

(* The tables follow their events, their readers follow the tables, what    *)
(* passes the processors passes them as the tables tell, and what they have *)
(* handled is written, in flight or was overtaken: in every state, whatever *)
(* is replayed after a restart.                                            *)
THEOREM Invariance == Spec => []IInv
<1>1. Init => IInv
  BY InitEstablishes
<1>2. IInv /\ [Next]_vars => IInv'
  BY NextPreserves
<1> QED
  BY <1>1, <1>2, PTL DEF Spec

(* What reaches filtered_messages agrees with the events that were committed *)
(* before the session in which the message was sent, or with later ones.   *)
THEOREM DeliveryIsJustified == Spec => []DeliveredIsJustified
<1>1. IInv => DeliveredIsJustified
  BY DEF IInv
<1> QED
  BY <1>1, Invariance, PTL

(* A message that was committed is in the next topic unless it names nobody *)
(* or somebody blocked its sender: but for one that was in flight when such *)
(* a message behind it was marked, and only while it is still in flight or  *)
(* after the process went down.                                            *)
THEOREM NoMessageIsLost == Spec => []NothingIsLost
<1>1. IInv => NothingIsLost
  <2> SUFFICES ASSUME IInv PROVE NothingIsLost
    OBVIOUS
  <2>1. TypeOK /\ SessionsOK /\ HandledIsKept
    BY DEF IInv
  <2>2. ASSUME NEW i \in 1..committed["censorship"], i \notin Skipped, ~Reached(censored, i)
        PROVE  /\ i \in Overtaken(Skipped, committed["censorship"])
               /\ i \in session["censorship"].flight \/ halts > 0
    <3>1. /\ i \in 1..session["censorship"].next /\ i <= committed["censorship"]
      BY <2>1, HandledFacts, TypeFacts, ProcessorFacts
    <3>2. i \in session["censorship"].flight => i \in Overtaken(Skipped, committed["censorship"])
      BY <2>1, <3>1 DEF SessionsOK, SessionOK
    <3> QED
      BY <2>1, <2>2, <3>1, <3>2 DEF HandledIsKept
  <2>3. ASSUME NEW n \in 1..committed["filter"], n \notin Droppable,
               ~Reached(filtered, censored[n].offset)
        PROVE  /\ n \in Overtaken(Droppable, committed["filter"])
               /\ n \in session["filter"].flight \/ halts > 0
    <3>1. n \in 1..session["filter"].next /\ n <= committed["filter"]
      BY <2>1, HandledFacts, TypeFacts, ProcessorFacts
    <3>2. n \in session["filter"].flight => n \in Overtaken(Droppable, committed["filter"])
      BY <2>1, <3>1 DEF SessionsOK, SessionOK
    <3> QED
      BY <2>1, <2>3, <3>1, <3>2 DEF HandledIsKept
  <2> QED
    BY <2>2, <2>3 DEF NothingIsLost
<1> QED
  BY <1>1, Invariance, PTL
=============================================================================
