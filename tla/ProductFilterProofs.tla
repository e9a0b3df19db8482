------------------------ MODULE ProductFilterProofs -------------------------
(***************************************************************************)
(* Proofs about ProductFilter, for any keys, any bounds and any number of  *)
(* restarts.                                                               *)
(***************************************************************************)
EXTENDS ProductFilter, SequenceTheorems, FiniteSetTheorems, TLAPS

-----------------------------------------------------------------------------
(* Sessions: what Goka marks and what is in flight *)

(* The more idle messages and the more committed, the more are overtaken.  *)
LEMMA OvertakenGrows ==
  ASSUME NEW I, NEW J \in SUBSET Nat, I \subseteq J,
         NEW c \in Nat, NEW d \in Nat, c <= d
  PROVE  Overtaken(I, c) \subseteq Overtaken(J, d)
  BY DEF Overtaken

(* A longer topic, with more idle messages, leaves the session in order.   *)
LEMMA SessionLonger ==
  ASSUME NEW s \in Sessions, NEW n \in Nat, NEW n2 \in Nat, NEW c \in Nat,
         NEW I \in SUBSET Nat, NEW J \in SUBSET Nat, I \subseteq J, n <= n2,
         SessionOK(s, n, c, I)
  PROVE  SessionOK(s, n2, c, J)
<1>1. \A m \in {c, s.marked} : Overtaken(I, m) \subseteq Overtaken(J, m)
  <2>1. ASSUME NEW m \in Nat PROVE Overtaken(I, m) \subseteq Overtaken(J, m)
    BY OvertakenGrows, m <= m
  <2> QED
    BY <2>1 DEF Sessions
<1>2. /\ c <= s.marked /\ s.marked <= s.next /\ s.next <= n2
  BY DEF SessionOK, Sessions
<1> QED
  BY <1>1, <1>2 DEF SessionOK

(* A message without output is marked past what is in flight.              *)
LEMMA SessionPasses ==
  ASSUME NEW s \in Sessions, NEW n \in Nat, NEW c \in Nat, NEW I \in SUBSET Nat,
         SessionOK(s, n, c, I), s.next < n, s.next + 1 \in I
  PROVE  Pass(s) \in Sessions /\ SessionOK(Pass(s), n, c, I)
<1> DEFINE t == Pass(s)
<1>1. /\ t.next = s.next + 1 /\ t.marked = s.next + 1 /\ t.flight = s.flight
      /\ t \in Sessions
  BY DEF Pass, Sessions
<1>2. /\ c <= t.marked /\ t.marked <= t.next /\ t.next <= n
      /\ t.flight \subseteq 1..t.next
  BY <1>1 DEF SessionOK, Sessions
<1>3. \A i \in t.flight : \A j \in i..t.next : j \notin I => j \in t.flight
  BY <1>1 DEF SessionOK, Sessions
<1>4. \A i \in t.flight : i \in Overtaken(I, s.next + 1)
  BY <1>1 DEF SessionOK, Sessions, Overtaken
<1>5. \A m \in {c, t.marked} : \A i \in t.flight : i <= m => i \in Overtaken(I, m)
  BY <1>1, <1>4 DEF SessionOK
<1> HIDE DEF t
<1> QED
  BY <1>1, <1>2, <1>3, <1>5 DEF SessionOK, t

(* A message with output joins those in flight.                            *)
LEMMA SessionSends ==
  ASSUME NEW s \in Sessions, NEW n \in Nat, NEW c \in Nat, NEW I \in SUBSET Nat,
         SessionOK(s, n, c, I), s.next < n
  PROVE  Send(s) \in Sessions /\ SessionOK(Send(s), n, c, I)
<1> DEFINE t == Send(s)
<1>1. /\ t.next = s.next + 1 /\ t.marked = s.marked
      /\ t.flight = s.flight \cup {s.next + 1}
      /\ t \in Sessions
  <2>1. s.next + 1 \in Nat /\ s.flight \cup {s.next + 1} \in SUBSET Nat
    BY DEF Sessions
  <2> QED
    BY <2>1 DEF Send, Sessions
<1>2. /\ c <= t.marked /\ t.marked <= t.next /\ t.next <= n
      /\ t.flight \subseteq 1..t.next
  BY <1>1 DEF SessionOK, Sessions
<1>3. \A i \in t.flight : \A j \in i..t.next : j \notin I => j \in t.flight
  BY <1>1 DEF SessionOK, Sessions
<1>4. \A m \in {c, t.marked} : m < s.next + 1
  BY <1>1 DEF SessionOK, Sessions
<1>5. \A m \in {c, t.marked} : \A i \in t.flight : i <= m => i \in Overtaken(I, m)
  BY <1>1, <1>4 DEF SessionOK, Sessions
<1> HIDE DEF t
<1> QED
  BY <1>1, <1>2, <1>3, <1>5 DEF SessionOK, t

(* The oldest output is acknowledged; its message may be marked already.   *)
LEMMA SessionAcknowledges ==
  ASSUME NEW s \in Sessions, NEW n \in Nat, NEW c \in Nat, NEW I \in SUBSET Nat,
         SessionOK(s, n, c, I), NEW o, IsOldest(s, o)
  PROVE  Acknowledge(s, o) \in Sessions /\ SessionOK(Acknowledge(s, o), n, c, I)
<1> DEFINE t == Acknowledge(s, o)
<1>1. o \in 1..s.next /\ o \in s.flight /\ \A j \in s.flight : o <= j
  BY DEF SessionOK, IsOldest
<1>2. /\ t.next = s.next /\ t.marked = (IF s.marked < o THEN o ELSE s.marked)
      /\ t.flight = s.flight \ {o}
      /\ t \in Sessions
  BY <1>1 DEF Acknowledge, Sessions
<1>3. /\ c <= t.marked /\ t.marked <= t.next /\ t.next <= n
      /\ t.flight \subseteq 1..t.next
  BY <1>1, <1>2 DEF SessionOK, Sessions
<1>4. ASSUME NEW i \in t.flight, NEW j \in i..t.next, j \notin I
      PROVE  j \in t.flight
  <2>1. i \in s.flight /\ i # o /\ o <= i /\ i \in Nat
    BY <1>1, <1>2 DEF Sessions
  <2>2. j \in s.flight
    BY <1>2, <1>4, <2>1 DEF SessionOK
  <2> QED
    BY <1>1, <1>2, <2>1, <2>2
<1>5. ASSUME NEW m \in {c, t.marked}, NEW i \in t.flight, i <= m
      PROVE  i \in Overtaken(I, m)
  <2>1. i \in s.flight /\ i # o /\ o <= i /\ i \in Nat
    BY <1>1, <1>2 DEF Sessions
  <2>2. m \in {c, s.marked} \/ m = o
    BY <1>2
  <2>3. m # o
    BY <1>1, <1>5, <2>1
  <2> QED
    BY <1>5, <2>1, <2>2, <2>3 DEF SessionOK
<1> HIDE DEF t
<1> QED
  BY <1>2, <1>3, <1>4, <1>5 DEF SessionOK, t

(* What is marked may be committed.                                        *)
LEMMA SessionCommits ==
  ASSUME NEW s \in Sessions, NEW n \in Nat, NEW c \in Nat, NEW I \in SUBSET Nat,
         SessionOK(s, n, c, I), NEW d \in {c, s.marked}
  PROVE  /\ SessionOK(s, n, d, I) /\ d \in Nat /\ c <= d /\ d <= s.next /\ d <= n
         /\ \A i \in s.flight : i <= d => i \in Overtaken(I, d)
  BY DEF SessionOK, Sessions

(* A session begins with nothing in flight.                                *)
LEMMA SessionBegins ==
  ASSUME NEW n \in Nat, NEW c \in Nat, NEW I, c <= n
  PROVE  From(c) \in Sessions /\ SessionOK(From(c), n, c, I)
  BY DEF From, Sessions, SessionOK

-----------------------------------------------------------------------------
(* Keyed logs and the views that are kept of them *)

(* The value after n records depends on those n records only.              *)
LEMMA PrefixDecides ==
  ASSUME NEW log, NEW log2, NEW k, NEW n \in Nat, NEW v,
         \A i \in 1..n : log2[i] = log[i],
         ValueAfter(log, k, n, v)
  PROVE  ValueAfter(log2, k, n, v)
  BY DEF ValueAfter

(* A value that is not behind n records is not behind fewer, with more     *)
(* records excused.                                                        *)
LEMMA NotBehindWeaker ==
  ASSUME NEW log, NEW k, NEW v, NEW n \in Nat, NEW n0 \in Nat, n0 <= n,
         NEW E, NEW E0, \A i \in E : i <= n0 => i \in E0,
         NotBehindBut(log, k, n, v, E)
  PROVE  NotBehindBut(log, k, n0, v, E0)
  BY DEF NotBehindBut

(* Nor does a longer log leave it behind.                                  *)
LEMMA NotBehindLonger ==
  ASSUME NEW log, NEW log2, NEW k, NEW v, NEW n \in Nat, NEW E, NEW E2,
         Len(log) \in Nat, Len(log2) \in Nat, Len(log) <= Len(log2),
         \A i \in 1..Len(log) : log2[i] = log[i], E \subseteq E2,
         n <= Len(log), NotBehindBut(log, k, n, v, E)
  PROVE  NotBehindBut(log2, k, n, v, E2)
<1>1. PICK m \in 0..Len(log) :
        ValueAfter(log, k, m, v) /\ \A i \in (m + 1)..n : log[i].key = k => i \in E
  BY DEF NotBehindBut
<1>2. ValueAfter(log2, k, m, v)
  BY <1>1, PrefixDecides
<1> QED
  BY <1>1, <1>2 DEF NotBehindBut

(* Applying the next record to a view that is not behind keeps it so.      *)
LEMMA ApplyNext ==
  ASSUME NEW log, NEW view, NEW n \in Nat, NEW E,
         Len(log) \in Nat, n < Len(log),
         ViewNotBehindBut(log, view, n, E)
  PROVE  ViewNotBehindBut(log, Apply(view, log, n + 1), n + 1, E)
<1> DEFINE w == Apply(view, log, n + 1)
<1> SUFFICES ASSUME NEW k \in DOMAIN view
             PROVE  NotBehindBut(log, k, n + 1, w[k], E)
  BY DEF ViewNotBehindBut, Apply
<1>1. CASE log[n + 1].key = k
  <2>1. w[k] = log[n + 1].val
    BY <1>1 DEF Apply
  <2>2. ValueAfter(log, k, n + 1, w[k])
    BY <1>1, <2>1 DEF ValueAfter
  <2> QED
    BY <2>2 DEF NotBehindBut
<1>2. CASE log[n + 1].key # k
  <2>1. w[k] = view[k]
    BY <1>2 DEF Apply
  <2> QED
    BY <1>2, <2>1 DEF ViewNotBehindBut, NotBehindBut
<1> QED
  BY <1>1, <1>2

(* A view may miss the next record, when that one is excused or is of a     *)
(* key it does not show.                                                   *)
LEMMA MissNext ==
  ASSUME NEW log, NEW view, NEW n \in Nat, NEW E, NEW E2, E \subseteq E2,
         log[n + 1].key \in DOMAIN view => n + 1 \in E2,
         ViewNotBehindBut(log, view, n, E)
  PROVE  ViewNotBehindBut(log, view, n + 1, E2)
  BY DEF ViewNotBehindBut, NotBehindBut

(* Applying a record that was excused, when the later ones of its key are   *)
(* still excused, leaves only the others to be excused.                    *)
LEMMA ApplyExcused ==
  ASSUME NEW log, NEW view, NEW n \in Nat, NEW E, NEW E2, Len(log) \in Nat,
         ViewNotBehindBut(log, view, n, E), NEW i \in 1..Len(log),
         E \subseteq E2 \cup {i},
         log[i].key \in DOMAIN view =>
           \A j \in (i + 1)..n : log[j].key = log[i].key => j \in E2
  PROVE  ViewNotBehindBut(log, Apply(view, log, i), n, E2)
<1> DEFINE w == Apply(view, log, i)
<1> SUFFICES ASSUME NEW k \in DOMAIN view
             PROVE  NotBehindBut(log, k, n, w[k], E2)
  BY DEF ViewNotBehindBut, Apply
<1>1. CASE log[i].key = k
  <2>1. w[k] = log[i].val
    BY <1>1 DEF Apply
  <2>2. ValueAfter(log, k, i, w[k])
    BY <1>1, <2>1 DEF ValueAfter
  <2> QED
    BY <1>1, <2>2 DEF NotBehindBut
<1>2. CASE log[i].key # k
  <2>1. w[k] = view[k]
    BY <1>2 DEF Apply
  <2> QED
    BY <1>2, <2>1 DEF ViewNotBehindBut, NotBehindBut
<1> QED
  BY <1>1, <1>2

-----------------------------------------------------------------------------
(* The types, without the sequences they come from *)

(* Numbers and lengths, as the arithmetic steps need them.                 *)
LEMMA TypeFacts ==
  ASSUME TypeOK
  PROVE  /\ Len(raw) \in Nat /\ Len(commands) \in Nat /\ Len(filtered) \in Nat
         /\ \A i \in 1..Len(raw) : raw[i].settled \in Nat
         /\ \A j \in 1..Len(filtered) : filtered[j] \in Nat
         /\ rawCommitted \in Nat /\ cmdCommitted \in Nat
         /\ products \in Sessions /\ updating \in Sessions
         /\ products.next \in Nat /\ updating.next \in Nat
         /\ products.flight \in SUBSET Nat /\ updating.flight \in SUBSET Nat
<1>1. \A i \in 1..Len(raw) : raw[i] \in [key : Keys \cup {NoKey}, seen : Nat, settled : Nat]
  BY ElementOfSeq DEF TypeOK
<1>2. \A i \in 1..Len(raw) : raw[i].settled \in Nat
  BY <1>1
<1>3. products \in Sessions /\ updating \in Sessions
  BY DEF TypeOK
<1>4. /\ products.next \in Nat /\ updating.next \in Nat
      /\ products.flight \in SUBSET Nat /\ updating.flight \in SUBSET Nat
  BY <1>3 DEF Sessions
<1> QED
  BY <1>2, <1>3, <1>4 DEF TypeOK

(* The offsets, as places of the topics.                                   *)
LEMMA OffsetFacts ==
  ASSUME ViewInv
  PROVE  /\ rawCommitted <= products.next /\ products.next <= Len(raw)
         /\ products.flight \subseteq 1..products.next
         /\ cmdCommitted <= updating.next /\ updating.next <= Len(commands)
         /\ updating.flight \subseteq 1..updating.next
<1>1. TypeOK /\ SessionsOK
  BY DEF ViewInv
<1>2. products.marked \in Nat /\ updating.marked \in Nat
  BY <1>1, TypeFacts DEF Sessions
<1> QED
  BY <1>1, <1>2, TypeFacts DEF SessionsOK, SessionOK

(* The idle records are places of the topics.                              *)
LEMMA IdleFacts ==
  IdleProducts \in SUBSET Nat /\ IdleCommands \in SUBSET Nat
  BY DEF IdleProducts, IdleCommands

(* Everything emitted or in flight is a published product that decodes.    *)
LEMMA EmittingPublished ==
  ASSUME ViewInv
  PROVE  \A i \in Emitting : i \in 1..Len(raw) /\ raw[i].key \in Keys
<1>1. \A i \in products.flight : i \in 1..products.next /\ i \in 1..Len(raw)
  BY OffsetFacts, TypeFacts DEF ViewInv
<1> QED
  BY <1>1 DEF Emitting, ViewInv, HandledDecode

-----------------------------------------------------------------------------
(* The commands as a keyed log *)

(* updates has one keyed write per published command.                      *)
LEMMA UpdatesFacts ==
  ASSUME TypeOK
  PROVE  /\ Len(updates) = Len(commands)
         /\ \A i \in 1..Len(commands) : updates[i] = UpdateOf(commands[i], i)
  BY DEF TypeOK, updates

(* What a command writes: its own offset for an add, None otherwise; a      *)
(* command that changes nothing writes to no key.                          *)
LEMMA UpdateValues ==
  ASSUME TypeOK, NEW i \in 1..Len(commands)
  PROVE  /\ updates[i].val = IF commands[i].action = "add" THEN i ELSE None
         /\ updates[i].key \in Keys <=> Changes(commands[i])
         /\ updates[i].key \in Keys => updates[i].key = commands[i].key
<1>1. updates[i] = UpdateOf(commands[i], i)
  BY UpdatesFacts
<1>2. commands[i] \in [action : Actions, key : Keys]
  BY ElementOfSeq DEF TypeOK
<1>3. commands[i].key \in Keys
  BY <1>2
<1> QED
  BY <1>1, <1>3, ProductFilterAssumption DEF UpdateOf

(* A published command appends one write to updates, and leaves what was    *)
(* idle, or overtaken, as it was.                                          *)
LEMMA UpdatesGrow ==
  ASSUME ViewInv, NEW a \in Actions, NEW k \in Keys, PublishCommand(a, k)
  PROVE  /\ Len(commands') = Len(commands) + 1
         /\ \A i \in 1..Len(commands) : commands'[i] = commands[i]
         /\ Len(updates') = Len(updates) + 1
         /\ \A i \in 1..Len(updates) : updates'[i] = updates[i]
         /\ IdleCommands \subseteq IdleCommands'
         /\ Added \subseteq Added'
<1>1. commands \in Seq([action : Actions, key : Keys])
  BY DEF ViewInv, TypeOK
<1>2. /\ Len(commands') = Len(commands) + 1
      /\ \A i \in 1..Len(commands) : commands'[i] = commands[i]
  BY <1>1 DEF PublishCommand
<1>3. /\ Len(updates') = Len(updates) + 1
      /\ \A i \in 1..Len(updates) : updates'[i] = updates[i]
  BY <1>1, <1>2 DEF updates
<1>4. IdleCommands \subseteq IdleCommands'
  BY <1>1, <1>2 DEF IdleCommands
<1>5. Added \subseteq Added'
  BY <1>1, <1>2 DEF Added
<1> QED
  BY <1>2, <1>3, <1>4, <1>5

(* A step that publishes no command leaves updates alone.                  *)
LEMMA UpdatesStay ==
  ASSUME UNCHANGED commands
  PROVE  updates' = updates /\ IdleCommands' = IdleCommands /\ Added' = Added
  BY DEF updates, IdleCommands, Added

(* A published product leaves those before it as they were.                *)
LEMMA RawGrows ==
  ASSUME ViewInv, NEW k \in Keys \cup {NoKey}, PublishProduct(k)
  PROVE  /\ Len(raw') = Len(raw) + 1
         /\ \A i \in 1..Len(raw) : raw'[i] = raw[i]
         /\ IdleProducts \subseteq IdleProducts'
         /\ UNCHANGED <<commands, session, broker>>
<1>1. raw \in Seq([key : Keys \cup {NoKey}, seen : Nat, settled : Nat])
  BY DEF ViewInv, TypeOK
<1>2. UNCHANGED <<commands, session, broker>>
  BY DEF PublishProduct
<1>3. /\ Len(raw') = Len(raw) + 1
      /\ \A i \in 1..Len(raw) : raw'[i] = raw[i]
  BY <1>1 DEF PublishProduct
<1>4. IdleProducts \subseteq IdleProducts'
  BY <1>1, <1>2, <1>3, UpdatesStay DEF IdleProducts
<1> QED
  BY <1>2, <1>3, <1>4

(* An update of the table is a natural number for a key of the table.      *)
LEMMA ApplyTyped ==
  ASSUME TypeOK, NEW view \in [Keys -> Nat], NEW i \in 1..Len(commands)
  PROVE  Apply(view, updates, i) \in [Keys -> Nat]
<1>1. updates[i].val \in Nat
  BY UpdateValues DEF None
<1> QED
  BY <1>1 DEF Apply

(* An entry that explains a key is that of an add command.                 *)
LEMMA EntryOfAdded ==
  ASSUME TypeOK, NEW k \in Keys, NEW v, v # None, NEW n, NEW E,
         NotBehindBut(updates, k, n, v, E)
  PROVE  k \in Added
<1>1. PICK m \in 0..Len(commands) : ValueAfter(updates, k, m, v)
  BY UpdatesFacts DEF NotBehindBut
<1>2. PICK i \in 1..m : updates[i].key = k /\ updates[i].val = v
  BY <1>1 DEF ValueAfter
<1>3. i \in 1..Len(commands)
  BY TypeFacts
<1>4. commands[i].action = "add" /\ commands[i].key = k
  BY <1>2, <1>3, UpdateValues
<1> QED
  BY <1>3, <1>4 DEF Added

(* So a product that is dropped is an idle one.                            *)
LEMMA DroppedIsIdle ==
  ASSUME ViewInv, NEW i \in 1..Len(raw), raw[i].key \in Keys, Blocked(table[raw[i].key])
  PROVE  raw[i].key \in Added /\ i \in IdleProducts
<1>1. TypeOK
  BY DEF ViewInv
<1>2. NotBehindBut(updates, raw[i].key, updating.next, table[raw[i].key], LostUpdates)
  BY <1>1 DEF ViewInv, ViewsNotBehind, ViewNotBehindBut, TypeOK
<1>3. raw[i].key \in Added
  BY <1>1, <1>2, EntryOfAdded DEF Blocked
<1> QED
  BY <1>3 DEF IdleProducts

-----------------------------------------------------------------------------
(* What every step keeps, under conditions its action meets *)

(* What was overtaken stays so: topics and committed offsets only grow.    *)
LEMMA LostGrows ==
  ASSUME TypeOK, TypeOK',
         IdleCommands \subseteq IdleCommands', IdleProducts \subseteq IdleProducts',
         rawCommitted <= rawCommitted', cmdCommitted <= cmdCommitted'
  PROVE  LostUpdates \subseteq LostUpdates' /\ LostProducts \subseteq LostProducts'
<1>1. IdleCommands' \in SUBSET Nat /\ IdleProducts' \in SUBSET Nat
  BY DEF IdleCommands, IdleProducts
<1>2. /\ rawCommitted \in Nat /\ cmdCommitted \in Nat
      /\ rawCommitted' \in Nat /\ cmdCommitted' \in Nat
  BY DEF TypeOK
<1>3. Overtaken(IdleCommands, cmdCommitted) \subseteq Overtaken(IdleCommands', cmdCommitted')
  BY <1>1, <1>2, OvertakenGrows
<1>4. Overtaken(IdleProducts, rawCommitted) \subseteq Overtaken(IdleProducts', rawCommitted')
  BY <1>1, <1>2, OvertakenGrows
<1> QED
  BY <1>3, <1>4 DEF LostUpdates, LostProducts

(* Nothing new is emitted: what was judged by a committed block still is.  *)
LEMMA KeepsBlocks ==
  ASSUME ViewInv, TypeOK', Emitting' \subseteq Emitting,
         \A i \in 1..Len(raw) : raw'[i] = raw[i],
         Len(updates) <= Len(updates'),
         \A i \in 1..Len(updates) : updates'[i] = updates[i],
         LostUpdates \subseteq LostUpdates'
  PROVE  CommittedBlockHolds'
<1> SUFFICES ASSUME NEW i \in Emitting
             PROVE  NotBehindBut(updates', raw'[i].key, raw'[i].settled, None, LostUpdates')
  BY DEF CommittedBlockHolds
<1>1. TypeOK /\ TypeOK'
  BY DEF ViewInv
<1>2. i \in 1..Len(raw) /\ raw'[i] = raw[i]
  BY EmittingPublished
<1>3. /\ Len(updates) \in Nat /\ Len(updates') \in Nat
      /\ raw[i].settled \in Nat /\ raw[i].settled <= Len(updates)
  <2>1. Len(updates) = Len(commands) /\ Len(updates) \in Nat
    BY <1>1, UpdatesFacts, TypeFacts
  <2>2. Len(updates') \in Nat
    BY <1>1 DEF updates, TypeOK
  <2>3. raw[i].settled \in Nat /\ raw[i].settled <= cmdCommitted
    BY <1>1, <1>2, TypeFacts DEF ViewInv, SettledIsCommitted
  <2>4. cmdCommitted <= Len(commands)
    BY <1>1, OffsetFacts, TypeFacts
  <2> QED
    BY <1>1, <2>1, <2>2, <2>3, <2>4, TypeFacts
<1>4. NotBehindBut(updates, raw[i].key, raw[i].settled, None, LostUpdates)
  BY DEF ViewInv, CommittedBlockHolds
<1> QED
  BY <1>2, <1>3, <1>4, NotBehindLonger

(* Where a product that had been handled, or is now, may be found.         *)
Kept(i) ==
  \/ raw[i].key \in Added
  \/ i \in products.flight
  \/ i \in LostProducts /\ restarts > 0

(* A product never blocked stays accepted, as long as what was in flight    *)
(* is written, still in flight or overtaken by the loss of the process.    *)
LEMMA KeepsAccepted ==
  ASSUME ViewInv, restarts <= restarts', restarts \in Nat, restarts' \in Nat,
         Len(filtered) \in Nat, Len(filtered') \in Nat, Len(filtered) <= Len(filtered'),
         \A j \in 1..Len(filtered) : filtered'[j] = filtered[j],
         \A i \in 1..products.next : raw'[i] = raw[i],
         Added \subseteq Added', LostProducts \subseteq LostProducts',
         \A i \in 1..products'.next :
           \/ Kept(i)'
           \/ \E j \in 1..Len(filtered') : filtered'[j] = i
           \/ i \in 1..products.next /\ i \notin products.flight
  PROVE  UnblockedAccepted'
<1> SUFFICES ASSUME NEW i \in 1..products'.next,
                    i \in 1..products.next, i \notin products.flight
             PROVE  \/ raw'[i].key \in Added'
                    \/ i \in products'.flight
                    \/ \E j \in 1..Len(filtered') : filtered'[j] = i
                    \/ i \in LostProducts' /\ restarts' > 0
  BY DEF UnblockedAccepted, Kept
<1>1. \/ raw[i].key \in Added
      \/ \E j \in 1..Len(filtered) : filtered[j] = i
      \/ i \in LostProducts /\ restarts > 0
  BY DEF ViewInv, UnblockedAccepted
<1>2. (\E j \in 1..Len(filtered) : filtered[j] = i) =>
        \E j \in 1..Len(filtered') : filtered'[j] = i
  OBVIOUS
<1> QED
  BY <1>1, <1>2

(* What products.filtered shows of a key never blocked stays the newest     *)
(* version, as long as nothing is written.                                 *)
LEMMA KeepsShown ==
  ASSUME ViewInv, filtered' = filtered,
         \A i \in 1..Len(raw) : raw'[i] = raw[i],
         Added \subseteq Added', LostProducts \subseteq LostProducts',
         products'.next \in Nat, products'.next <= Len(raw),
         \A i \in 1..products'.next :
           \/ raw'[i].key \in Added'
           \/ i \in products'.flight \cup LostProducts'
           \/ i <= products.next /\ i \notin products.flight
  PROVE  ShownNotBehind'
<1>1. TypeOK
  BY DEF ViewInv
<1>2. /\ \A j \in 1..Len(filtered) : filtered[j] \in 1..Len(raw)
      /\ \A j \in 1..Len(filtered) : raw'[filtered[j]] = raw[filtered[j]]
  BY DEF ViewInv, HandledDecode
<1> SUFFICES ASSUME NEW j \in 1..Len(filtered),
                    raw'[filtered[j]].key \notin Added', LastOfKey(j)',
                    NEW i \in Newer(j)', i <= products'.next
             PROVE  i \in products'.flight \cup LostProducts'
  BY DEF ShownNotBehind
<1>3. raw[filtered[j]].key \notin Added /\ LastOfKey(j)
  <2>1. LastOfKey(j)
    <3> SUFFICES ASSUME NEW l \in (j + 1)..Len(filtered)
                 PROVE  raw[filtered[l]].key # raw[filtered[j]].key
      BY DEF LastOfKey
    <3>1. l \in 1..Len(filtered)
      OBVIOUS
    <3>2. raw'[filtered[l]].key # raw'[filtered[j]].key
      BY DEF LastOfKey
    <3> QED
      BY <1>2, <3>1, <3>2
  <2> QED
    BY <1>2, <2>1
<1>4. i \in 1..Len(raw') /\ i > filtered[j] /\ raw'[i].key = raw'[filtered[j]].key
  BY DEF Newer
<1>5. i \in 1..products'.next /\ i \in 1..Len(raw)
  BY <1>1, <1>2, <1>4, TypeFacts
<1>6. raw'[i].key \notin Added'
  BY <1>4
<1>7. CASE i <= products.next /\ i \notin products.flight
  <2>1. i \in Newer(j)
    BY <1>2, <1>4, <1>5 DEF Newer
  <2>2. i \in products.flight \cup LostProducts
    BY <1>3, <1>7, <2>1 DEF ViewInv, ShownNotBehind
  <2> QED
    BY <1>7, <2>2
<1> QED
  BY <1>5, <1>6, <1>7

(* Handled records decode, when the newly handled one does.                *)
LEMMA KeepsDecode ==
  ASSUME ViewInv, filtered' = filtered, Len(raw) \in Nat, Len(raw') \in Nat,
         Len(raw) <= Len(raw'),
         \A i \in 1..Len(raw) : raw'[i] = raw[i],
         \A i \in 1..products'.next : i \in 1..products.next \/ raw'[i].key \in Keys
  PROVE  HandledDecode'
<1>1. \A i \in 1..products.next : i \in 1..Len(raw) /\ raw[i].key \in Keys
  <2>1. TypeOK /\ HandledDecode
    BY DEF ViewInv
  <2>2. products.next \in Nat /\ products.next <= Len(raw)
    BY <2>1, OffsetFacts, TypeFacts
  <2> QED
    BY <2>1, <2>2 DEF HandledDecode
<1>2. \A j \in 1..Len(filtered) :
        filtered[j] \in 1..Len(raw) /\ raw[filtered[j]].key \in Keys
  BY DEF ViewInv, HandledDecode
<1>3. \A i \in 1..Len(raw) : i \in 1..Len(raw')
  OBVIOUS
<1> QED
  BY <1>1, <1>2, <1>3 DEF HandledDecode

-----------------------------------------------------------------------------
(* The initial states *)

(* The invariant holds when nothing has been published.                    *)
LEMMA InitViews == Init => ViewInv
<1> SUFFICES ASSUME Init PROVE ViewInv
  OBVIOUS
<1>0. /\ Len(raw) = 0 /\ Len(commands) = 0 /\ Len(filtered) = 0
  BY DEF Init
<1>1. TypeOK
  <2>1. changelog \in [Keys -> Nat] /\ table \in [Keys -> Nat]
    BY DEF Init, None
  <2>2. raw \in Seq([key : Keys \cup {NoKey}, seen : Nat, settled : Nat])
    BY DEF Init
  <2>3. commands \in Seq([action : Actions, key : Keys])
    BY DEF Init
  <2>4. filtered \in Seq(Nat)
    BY DEF Init
  <2>5. products \in Sessions /\ updating \in Sessions
    BY SessionBegins DEF Init
  <2> QED
    BY <2>1, <2>2, <2>3, <2>4, <2>5 DEF Init, TypeOK
<1>2. SessionsOK
  BY <1>0, SessionBegins DEF Init, SessionsOK
<1>3. /\ products.next = 0 /\ products.flight = {} /\ updating.next = 0
  BY DEF Init, From
<1>4. SettledIsCommitted /\ HandledDecode
  BY <1>0, <1>3 DEF SettledIsCommitted, HandledDecode
<1>5. ViewsNotBehind
  <2>1. Len(updates) = 0
    BY <1>0, <1>1, UpdatesFacts
  <2> QED
    BY <1>3, <2>1 DEF Init, ViewsNotBehind, ViewNotBehindBut, NotBehindBut, ValueAfter
<1>6. CommittedBlockHolds
  BY <1>0, <1>3 DEF CommittedBlockHolds, Emitting
<1>7. UnblockedAccepted /\ ShownNotBehind
  BY <1>0, <1>3 DEF UnblockedAccepted, ShownNotBehind
<1> QED
  BY <1>1, <1>2, <1>4, <1>5, <1>6, <1>7 DEF ViewInv

-----------------------------------------------------------------------------
(* The steps *)

(* A product, or a record that does not decode, enters products.raw.       *)
LEMMA PublishProductKeepsViews ==
  ASSUME ViewInv, NEW k \in Keys \cup {NoKey}, PublishProduct(k)
  PROVE  ViewInv'
<1> DEFINE r == [key |-> k, seen |-> IF WithSeen THEN Len(commands) ELSE 0,
                 settled |-> cmdCommitted]
<1>1. /\ raw' = Append(raw, r)
      /\ UNCHANGED <<commands, filtered, changelog, rawCommitted, cmdCommitted,
                     running, table, products, updating, restarts>>
  BY DEF PublishProduct, session, broker
<1>2. TypeOK
  BY DEF ViewInv
<1>3. /\ Len(raw') = Len(raw) + 1
      /\ \A i \in 1..Len(raw) : raw'[i] = raw[i]
      /\ raw'[Len(raw) + 1] = r
      /\ IdleProducts \subseteq IdleProducts'
  BY <1>1, <1>2, RawGrows DEF TypeOK
<1>4. TypeOK'
  <2>1. r \in [key : Keys \cup {NoKey}, seen : Nat, settled : Nat]
    BY <1>2, TypeFacts DEF TypeOK
  <2>2. raw' \in Seq([key : Keys \cup {NoKey}, seen : Nat, settled : Nat])
    BY <1>1, <1>2, <2>1 DEF TypeOK
  <2> QED
    BY <1>1, <1>2, <2>2 DEF TypeOK
<1>5. updates' = updates /\ IdleCommands' = IdleCommands /\ Added' = Added
  BY <1>1, UpdatesStay
<1>6. SessionsOK'
  <2>1. IdleProducts' \in SUBSET Nat /\ IdleProducts \in SUBSET Nat
    BY DEF IdleProducts
  <2>2. SessionOK(products, Len(raw'), rawCommitted, IdleProducts')
    <3>1. Len(raw) <= Len(raw') /\ Len(raw') \in Nat
      BY <1>2, <1>3, TypeFacts
    <3> QED
      BY <1>2, <1>3, <2>1, <3>1, TypeFacts, SessionLonger DEF ViewInv, SessionsOK
  <2> QED
    BY <1>1, <1>5, <2>2 DEF ViewInv, SessionsOK
<1>7. SettledIsCommitted'
  <2>1. r.settled = cmdCommitted
    OBVIOUS
  <2>2. ASSUME NEW i \in 1..Len(raw')
        PROVE  raw'[i].settled <= cmdCommitted
    <3>1. CASE i \in 1..Len(raw)
      BY <1>3, <3>1 DEF ViewInv, SettledIsCommitted
    <3>2. CASE i = Len(raw) + 1
      BY <1>2, <1>3, <2>1, <3>2, TypeFacts
    <3> QED
      BY <1>2, <1>3, <3>1, <3>2, TypeFacts
  <2> QED
    BY <1>1, <2>2 DEF SettledIsCommitted
<1>8. LostUpdates \subseteq LostUpdates' /\ LostProducts \subseteq LostProducts'
  <2>1. rawCommitted <= rawCommitted' /\ cmdCommitted <= cmdCommitted'
    BY <1>1, <1>2, TypeFacts
  <2> QED
    BY <1>2, <1>3, <1>4, <1>5, <2>1, LostGrows
<1>9. LostUpdates' = LostUpdates
  BY <1>1, <1>5 DEF LostUpdates
<1>10. HandledDecode'
  BY <1>1, <1>2, <1>3, TypeFacts, KeepsDecode
<1>11. ViewsNotBehind'
  BY <1>1, <1>5, <1>9 DEF ViewInv, ViewsNotBehind
<1>12. CommittedBlockHolds'
  <2>1. Emitting' = Emitting
    BY <1>1 DEF Emitting
  <2>2. Len(updates) <= Len(updates')
    BY <1>2, <1>5, UpdatesFacts, TypeFacts
  <2> QED
    BY <1>3, <1>4, <1>5, <1>8, <2>1, <2>2, KeepsBlocks
<1>t. /\ products.next \in Nat /\ products.next <= Len(raw) /\ Len(raw) \in Nat
      /\ Len(filtered) \in Nat /\ restarts \in Nat
  BY <1>2, OffsetFacts, TypeFacts DEF TypeOK
<1>13. UnblockedAccepted'
  <2>1. \A i \in 1..products.next : raw'[i] = raw[i]
    BY <1>3, <1>t
  <2>2. \A i \in 1..products'.next :
          \/ Kept(i)'
          \/ i \in 1..products.next /\ i \notin products.flight
    BY <1>1 DEF Kept
  <2> QED
    BY <1>1, <1>5, <1>8, <1>t, <2>1, <2>2, KeepsAccepted
<1>14. ShownNotBehind'
  BY <1>1, <1>3, <1>5, <1>8, <1>t, KeepsShown
<1> QED
  BY <1>4, <1>6, <1>7, <1>10, <1>11, <1>12, <1>13, <1>14 DEF ViewInv

(* A command enters blacklist.commands.                                    *)
LEMMA PublishCommandKeepsViews ==
  ASSUME ViewInv, NEW a \in Actions, NEW k \in Keys, PublishCommand(a, k)
  PROVE  ViewInv'
<1>1. /\ commands' = Append(commands, [action |-> a, key |-> k])
      /\ UNCHANGED <<raw, filtered, changelog, rawCommitted, cmdCommitted,
                     running, table, products, updating, restarts>>
  BY DEF PublishCommand, session, broker
<1>2. TypeOK
  BY DEF ViewInv
<1>3. /\ Len(commands') = Len(commands) + 1
      /\ Len(updates') = Len(updates) + 1
      /\ \A i \in 1..Len(updates) : updates'[i] = updates[i]
      /\ IdleCommands \subseteq IdleCommands'
      /\ Added \subseteq Added'
  BY UpdatesGrow
<1>4. TypeOK'
  <2>1. commands' \in Seq([action : Actions, key : Keys])
    BY <1>1, <1>2 DEF TypeOK
  <2> QED
    BY <1>1, <1>2, <2>1 DEF TypeOK
<1>t. /\ products.next \in Nat /\ products.next <= Len(raw) /\ Len(raw) \in Nat
      /\ Len(filtered) \in Nat /\ restarts \in Nat /\ Len(commands) \in Nat
      /\ rawCommitted \in Nat /\ cmdCommitted \in Nat
      /\ updating.next \in Nat /\ updating.next <= Len(commands)
      /\ Len(updates) = Len(commands)
  BY <1>2, OffsetFacts, TypeFacts, UpdatesFacts DEF TypeOK
<1>5. IdleProducts \subseteq IdleProducts'
  BY <1>1, <1>3 DEF IdleProducts
<1>6. SessionsOK'
  <2>1. /\ IdleProducts' \in SUBSET Nat /\ IdleProducts \in SUBSET Nat
        /\ IdleCommands' \in SUBSET Nat /\ IdleCommands \in SUBSET Nat
    BY DEF IdleProducts, IdleCommands
  <2>2. SessionOK(products, Len(raw), rawCommitted, IdleProducts')
    <3>1. /\ SessionOK(products, Len(raw), rawCommitted, IdleProducts)
          /\ products \in Sessions /\ Len(raw) <= Len(raw)
      BY <1>2, <1>t, TypeFacts DEF ViewInv, SessionsOK
    <3> QED
      BY <1>5, <1>t, <2>1, <3>1, SessionLonger
  <2>3. SessionOK(updating, Len(commands'), cmdCommitted, IdleCommands')
    <3>1. Len(commands) <= Len(commands') /\ Len(commands') \in Nat
      BY <1>3, <1>t
    <3> QED
      BY <1>2, <1>3, <1>t, <2>1, <3>1, TypeFacts, SessionLonger DEF ViewInv, SessionsOK
  <2> QED
    BY <1>1, <2>2, <2>3 DEF SessionsOK
<1>7. SettledIsCommitted'
  BY <1>1 DEF ViewInv, SettledIsCommitted
<1>8. LostUpdates \subseteq LostUpdates' /\ LostProducts \subseteq LostProducts'
  <2>1. rawCommitted <= rawCommitted' /\ cmdCommitted <= cmdCommitted'
    BY <1>1, <1>t
  <2> QED
    BY <1>2, <1>3, <1>4, <1>5, <2>1, LostGrows
<1>9. HandledDecode'
  BY <1>1, <1>t, KeepsDecode
<1>10. ViewsNotBehind'
  <2>1. /\ Len(updates) \in Nat /\ Len(updates') \in Nat /\ Len(updates) <= Len(updates')
        /\ updating.next <= Len(updates)
    BY <1>3, <1>t
  <2>2. ViewNotBehindBut(updates', table, updating.next, LostUpdates')
    BY <1>3, <1>8, <1>t, <2>1, NotBehindLonger
       DEF ViewInv, ViewsNotBehind, ViewNotBehindBut
  <2>3. updating.flight \cup LostUpdates \subseteq updating.flight \cup LostUpdates'
    BY <1>8
  <2>4. ViewNotBehindBut(updates', changelog, updating.next, updating.flight \cup LostUpdates')
    BY <1>3, <1>t, <2>1, <2>3, NotBehindLonger
       DEF ViewInv, ViewsNotBehind, ViewNotBehindBut
  <2> QED
    BY <1>1, <2>2, <2>4 DEF ViewsNotBehind
<1>11. CommittedBlockHolds'
  <2>1. Emitting' = Emitting
    BY <1>1 DEF Emitting
  <2>2. Len(updates) <= Len(updates')
    BY <1>3, <1>t
  <2>3. \A i \in 1..Len(raw) : raw'[i] = raw[i]
    BY <1>1
  <2> QED
    BY <1>3, <1>4, <1>8, <2>1, <2>2, <2>3, KeepsBlocks
<1>12. UnblockedAccepted'
  <2>1. \A i \in 1..products'.next :
          \/ Kept(i)'
          \/ i \in 1..products.next /\ i \notin products.flight
    BY <1>1 DEF Kept
  <2> QED
    BY <1>1, <1>3, <1>8, <1>t, <2>1, KeepsAccepted
<1>13. ShownNotBehind'
  BY <1>1, <1>3, <1>8, <1>t, KeepsShown
<1> QED
  BY <1>4, <1>6, <1>7, <1>9, <1>10, <1>11, <1>12, <1>13 DEF ViewInv

(* What the steps of the processor share: the topics stay as they are.     *)
LEMMA InputsStay ==
  ASSUME ViewInv, UNCHANGED inputs
  PROVE  /\ UNCHANGED <<raw, commands>>
         /\ updates' = updates /\ Added' = Added
         /\ IdleCommands' = IdleCommands /\ IdleProducts' = IdleProducts
         /\ Len(updates) \in Nat /\ Len(updates) = Len(commands)
         /\ Len(raw) \in Nat /\ Len(commands) \in Nat /\ Len(filtered) \in Nat
         /\ restarts \in Nat
         /\ rawCommitted \in Nat /\ cmdCommitted \in Nat
         /\ products.next \in Nat /\ products.next <= Len(raw)
         /\ updating.next \in Nat /\ updating.next <= Len(commands)
         /\ IdleProducts \in SUBSET Nat /\ IdleCommands \in SUBSET Nat
<1>1. TypeOK
  BY DEF ViewInv
<1>2. UNCHANGED <<raw, commands>>
  BY DEF inputs
<1>3. updates' = updates /\ Added' = Added /\ IdleCommands' = IdleCommands
  BY <1>2, UpdatesStay
<1>4. IdleProducts' = IdleProducts
  BY <1>2, <1>3 DEF IdleProducts
<1>5. restarts \in Nat
  BY <1>1 DEF TypeOK
<1> QED
  BY <1>1, <1>2, <1>3, <1>4, <1>5, TypeFacts, OffsetFacts, UpdatesFacts, IdleFacts

(* A product is dropped or sent.                                           *)
LEMMA ProcessProductKeepsViews ==
  ASSUME ViewInv, ProcessProduct
  PROVE  ViewInv'
<1> DEFINE n == products.next + 1
           k == raw[n].key
<1>1. /\ UNCHANGED <<raw, commands, filtered, changelog, rawCommitted, cmdCommitted,
                     running, table, updating, restarts>>
      /\ UNCHANGED inputs
      /\ products.next < Len(raw) /\ k \in Keys
      /\ products' = IF Blocked(table[k]) THEN Pass(products) ELSE Send(products)
  BY DEF ProcessProduct, inputs, broker
<1>2. TypeOK /\ SessionsOK
  BY DEF ViewInv
<1>3. n \in 1..Len(raw)
  BY <1>1, InputsStay
<1>4. Blocked(table[k]) => n \in IdleProducts /\ k \in Added
  BY <1>1, <1>3, DroppedIsIdle
<1>5. /\ products' \in Sessions
      /\ SessionOK(products', Len(raw), rawCommitted, IdleProducts)
      /\ products'.next = n
      /\ products'.flight = IF Blocked(table[k]) THEN products.flight
                            ELSE products.flight \cup {n}
  <2>1. SessionOK(products, Len(raw), rawCommitted, IdleProducts) /\ products \in Sessions
    BY <1>2, TypeFacts DEF SessionsOK
  <2>2. CASE Blocked(table[k])
    BY <1>1, <1>4, <2>1, <2>2, InputsStay, SessionPasses DEF Pass, Sessions
  <2>3. CASE ~Blocked(table[k])
    BY <1>1, <2>1, <2>3, InputsStay, SessionSends DEF Send, Sessions
  <2> QED
    BY <2>2, <2>3
<1>6. TypeOK'
  BY <1>1, <1>2, <1>5 DEF TypeOK
<1>7. SessionsOK'
  BY <1>1, <1>2, <1>5, InputsStay DEF SessionsOK
<1>8. SettledIsCommitted'
  BY <1>1 DEF ViewInv, SettledIsCommitted
<1>9. LostUpdates' = LostUpdates /\ LostProducts' = LostProducts
  BY <1>1, InputsStay DEF LostUpdates, LostProducts
<1>10. HandledDecode'
  <2>1. \A i \in 1..products'.next : i \in 1..products.next \/ raw'[i].key \in Keys
    BY <1>1, <1>5, InputsStay
  <2> QED
    BY <1>1, <2>1, InputsStay, KeepsDecode
<1>11. ViewsNotBehind'
  BY <1>1, <1>9, InputsStay DEF ViewInv, ViewsNotBehind
<1>12. CommittedBlockHolds'
  <2>1. CASE Blocked(table[k])
    <3>1. Emitting' = Emitting
      BY <1>1, <1>5, <2>1 DEF Emitting
    <3> QED
      BY <1>1, <1>6, <1>9, <3>1, InputsStay, KeepsBlocks
  <2>2. CASE ~Blocked(table[k])
    <3>1. table[k] = None
      BY <2>2 DEF Blocked
    <3>2. NotBehindBut(updates, k, updating.next, None, LostUpdates)
      BY <1>1, <1>2, <3>1 DEF ViewInv, ViewsNotBehind, ViewNotBehindBut, TypeOK
    <3>3. raw[n].settled \in Nat /\ raw[n].settled <= updating.next
      <4>1. raw[n].settled \in Nat /\ raw[n].settled <= cmdCommitted
        BY <1>2, <1>3, TypeFacts DEF ViewInv, SettledIsCommitted
      <4> QED
        BY <4>1, <1>1, InputsStay, OffsetFacts
    <3>4. NotBehindBut(updates, k, raw[n].settled, None, LostUpdates)
      BY <1>1, <3>2, <3>3, InputsStay, NotBehindWeaker
    <3>5. Emitting' = Emitting \cup {n}
      BY <1>1, <1>5, <2>2 DEF Emitting
    <3> QED
      BY <1>1, <1>9, <3>4, <3>5, InputsStay DEF ViewInv, CommittedBlockHolds
  <2> QED
    BY <2>1, <2>2
<1>13. \A i \in 1..products'.next :
          \/ raw[i].key \in Added
          \/ i \in products'.flight
          \/ i \in 1..products.next /\ i \notin products.flight
  BY <1>1, <1>4, <1>5, InputsStay
<1>14. UnblockedAccepted'
  <2>1. \A i \in 1..products'.next :
          \/ Kept(i)'
          \/ i \in 1..products.next /\ i \notin products.flight
    BY <1>1, <1>13, InputsStay DEF Kept
  <2> QED
    BY <1>1, <1>9, <2>1, InputsStay, KeepsAccepted
<1>15. ShownNotBehind'
  <2>1. products'.next \in Nat /\ products'.next <= Len(raw)
    BY <1>1, <1>5, InputsStay
  <2> QED
    BY <1>1, <1>9, <1>13, <2>1, InputsStay, KeepsShown
<1> QED
  BY <1>6, <1>7, <1>8, <1>10, <1>11, <1>12, <1>14, <1>15 DEF ViewInv

(* A command is applied to the table, its update sent to the changelog; one *)
(* that changes nothing is marked at once.                                 *)
LEMMA ProcessCommandKeepsViews ==
  ASSUME ViewInv, ProcessBlacklistCommand
  PROVE  ViewInv'
<1> DEFINE n == updating.next + 1
           c == commands[n]
<1>1. /\ UNCHANGED <<raw, commands, filtered, changelog, rawCommitted, cmdCommitted,
                     running, products, restarts>>
      /\ UNCHANGED inputs
      /\ updating.next < Len(commands)
      /\ updating' = IF Changes(c) THEN Send(updating) ELSE Pass(updating)
      /\ table' = Apply(table, updates, n)
  BY DEF ProcessBlacklistCommand, inputs, broker
<1>2. TypeOK /\ SessionsOK
  BY DEF ViewInv
<1>3. n \in 1..Len(commands)
  BY <1>1, InputsStay
<1>4. ~Changes(c) => n \in IdleCommands
  BY <1>3 DEF IdleCommands
<1>5. /\ updating' \in Sessions
      /\ SessionOK(updating', Len(commands), cmdCommitted, IdleCommands)
      /\ updating'.next = n
      /\ updating'.flight = IF Changes(c) THEN updating.flight \cup {n} ELSE updating.flight
  <2>1. /\ SessionOK(updating, Len(commands), cmdCommitted, IdleCommands)
        /\ updating \in Sessions
    BY <1>2, TypeFacts DEF SessionsOK
  <2>2. CASE ~Changes(c)
    BY <1>1, <1>4, <2>1, <2>2, InputsStay, SessionPasses DEF Pass, Sessions
  <2>3. CASE Changes(c)
    BY <1>1, <2>1, <2>3, InputsStay, SessionSends DEF Send, Sessions
  <2> QED
    BY <2>2, <2>3
<1>6. TypeOK'
  <2>1. table' \in [Keys -> Nat]
    BY <1>1, <1>2, <1>3, ApplyTyped DEF TypeOK
  <2> QED
    BY <1>1, <1>2, <1>5, <2>1 DEF TypeOK
<1>7. SessionsOK'
  BY <1>1, <1>2, <1>5, InputsStay DEF SessionsOK
<1>8. SettledIsCommitted'
  BY <1>1 DEF ViewInv, SettledIsCommitted
<1>9. LostUpdates' = LostUpdates /\ LostProducts' = LostProducts
  BY <1>1, InputsStay DEF LostUpdates, LostProducts
<1>10. HandledDecode'
  BY <1>1 DEF ViewInv, HandledDecode
<1>11. ViewsNotBehind'
  <2>1. ViewNotBehindBut(updates, table', n, LostUpdates)
    BY <1>1, InputsStay, ApplyNext DEF ViewInv, ViewsNotBehind
  <2>2. ViewNotBehindBut(updates, changelog, n, updating'.flight \cup LostUpdates)
    <3>1. updates[n].key \in Keys => n \in updating'.flight
      BY <1>2, <1>3, <1>5, UpdateValues
    <3>2. /\ updating.flight \cup LostUpdates \subseteq updating'.flight \cup LostUpdates
          /\ DOMAIN changelog = Keys
      BY <1>2, <1>5 DEF TypeOK
    <3> QED
      BY <1>1, <3>1, <3>2, InputsStay, MissNext DEF ViewInv, ViewsNotBehind
  <2> QED
    BY <1>1, <1>5, <1>9, <2>1, <2>2, InputsStay DEF ViewsNotBehind
<1>12. CommittedBlockHolds'
  <2>1. Emitting' = Emitting
    BY <1>1 DEF Emitting
  <2> QED
    BY <1>1, <1>6, <1>9, <2>1, InputsStay, KeepsBlocks
<1>13. UnblockedAccepted' /\ ShownNotBehind'
  <2>1. UnblockedAccepted'
    BY <1>1, <1>9, InputsStay DEF ViewInv, UnblockedAccepted
  <2>2. ShownNotBehind'
    BY <1>1, <1>9, InputsStay, KeepsShown
  <2> QED
    BY <2>1, <2>2
<1> QED
  BY <1>6, <1>7, <1>8, <1>10, <1>11, <1>12, <1>13 DEF ViewInv

(* The table update of a command reaches the changelog: those of the same    *)
(* key behind it are still in flight.                                      *)
LEMMA AckCommandKeepsViews ==
  ASSUME ViewInv, AckCommand
  PROVE  ViewInv'
<1>1. /\ UNCHANGED <<raw, commands, filtered, rawCommitted, cmdCommitted,
                     running, table, products, restarts>>
      /\ UNCHANGED inputs
  BY DEF AckCommand, inputs
<1>2. PICK o \in updating.flight :
        /\ IsOldest(updating, o)
        /\ updating' = Acknowledge(updating, o)
        /\ changelog' = Apply(changelog, updates, o)
  BY DEF AckCommand
<1>3. TypeOK /\ SessionsOK
  BY DEF ViewInv
<1>4. /\ SessionOK(updating, Len(commands), cmdCommitted, IdleCommands)
      /\ updating \in Sessions
  BY <1>3, TypeFacts DEF SessionsOK
<1>5. /\ updating' \in Sessions
      /\ SessionOK(updating', Len(commands), cmdCommitted, IdleCommands)
      /\ updating'.next = updating.next
      /\ updating'.flight = updating.flight \ {o}
  BY <1>1, <1>2, <1>4, InputsStay, SessionAcknowledges DEF Acknowledge, Sessions
<1>6. o \in 1..Len(commands)
  BY <1>1, OffsetFacts, InputsStay
<1>7. TypeOK'
  <2>1. changelog' \in [Keys -> Nat]
    BY <1>2, <1>3, <1>6, ApplyTyped DEF TypeOK
  <2> QED
    BY <1>1, <1>3, <1>5, <2>1 DEF TypeOK
<1>8. SessionsOK'
  BY <1>1, <1>3, <1>5, InputsStay DEF SessionsOK
<1>9. SettledIsCommitted'
  BY <1>1 DEF ViewInv, SettledIsCommitted
<1>10. LostUpdates' = LostUpdates /\ LostProducts' = LostProducts
  BY <1>1, InputsStay DEF LostUpdates, LostProducts
<1>11. HandledDecode'
  BY <1>1 DEF ViewInv, HandledDecode
<1>12. ViewsNotBehind'
  <2> DEFINE E == updating.flight \cup LostUpdates
             F == updating'.flight \cup LostUpdates
  <2>1. E \subseteq F \cup {o}
    BY <1>5
  <2>2. ASSUME NEW j \in (o + 1)..updating.next, updates[j].key = updates[o].key,
               updates[o].key \in Keys
        PROVE  j \in F
    <3>1. j \in 1..Len(commands) /\ j # o /\ j \in o..updating.next
      BY <1>1, <1>6, InputsStay
    <3>2. Changes(commands[j])
      BY <1>3, <2>2, <3>1, UpdateValues
    <3>3. j \notin IdleCommands
      BY <3>2 DEF IdleCommands
    <3>4. j \in updating.flight
      BY <1>2, <1>4, <3>1, <3>3 DEF SessionOK
    <3> QED
      BY <1>5, <3>1, <3>4
  <2>3. DOMAIN changelog = Keys /\ ViewNotBehindBut(updates, changelog, updating.next, E)
    BY <1>3 DEF TypeOK, ViewInv, ViewsNotBehind
  <2>4. ViewNotBehindBut(updates, changelog', updating.next, F)
    <3> HIDE DEF E, F
    <3> QED
      BY <1>1, <1>2, <1>6, <2>1, <2>2, <2>3, InputsStay, ApplyExcused
  <2> QED
    BY <1>1, <1>5, <1>10, <2>4, InputsStay DEF ViewInv, ViewsNotBehind
<1>13. CommittedBlockHolds'
  <2>1. Emitting' = Emitting
    BY <1>1 DEF Emitting
  <2> QED
    BY <1>1, <1>7, <1>10, <2>1, InputsStay, KeepsBlocks
<1>14. UnblockedAccepted' /\ ShownNotBehind'
  <2>1. UnblockedAccepted'
    BY <1>1, <1>10, InputsStay DEF ViewInv, UnblockedAccepted
  <2>2. ShownNotBehind'
    BY <1>1, <1>10, InputsStay, KeepsShown
  <2> QED
    BY <2>1, <2>2
<1> QED
  BY <1>7, <1>8, <1>9, <1>11, <1>12, <1>13, <1>14 DEF ViewInv

(* An accepted product is written: the newer versions of a key that was     *)
(* never blocked are still in flight behind it, or not handled.            *)
LEMMA AckProductKeepsViews ==
  ASSUME ViewInv, AckProduct
  PROVE  ViewInv'
<1>1. /\ UNCHANGED <<raw, commands, changelog, rawCommitted, cmdCommitted,
                     running, table, updating, restarts>>
      /\ UNCHANGED inputs
  BY DEF AckProduct, inputs
<1>2. PICK o \in products.flight :
        /\ IsOldest(products, o)
        /\ products' = Acknowledge(products, o)
        /\ filtered' = Append(filtered, o)
  BY DEF AckProduct
<1>3. TypeOK /\ SessionsOK
  BY DEF ViewInv
<1>4. /\ SessionOK(products, Len(raw), rawCommitted, IdleProducts)
      /\ products \in Sessions
  BY <1>3, TypeFacts DEF SessionsOK
<1>5. /\ products' \in Sessions
      /\ SessionOK(products', Len(raw), rawCommitted, IdleProducts)
      /\ products'.next = products.next
      /\ products'.flight = products.flight \ {o}
  BY <1>1, <1>2, <1>4, InputsStay, SessionAcknowledges DEF Acknowledge, Sessions
<1>6. o \in 1..products.next /\ o \in 1..Len(raw) /\ raw[o].key \in Keys
  BY <1>1, OffsetFacts, InputsStay DEF ViewInv, HandledDecode
<1>7. /\ Len(filtered') = Len(filtered) + 1
      /\ \A j \in 1..Len(filtered) : filtered'[j] = filtered[j]
      /\ filtered'[Len(filtered) + 1] = o
      /\ filtered' \in Seq(Nat)
  BY <1>2, <1>3, <1>6 DEF TypeOK
<1>8. TypeOK'
  BY <1>1, <1>3, <1>5, <1>7 DEF TypeOK
<1>9. SessionsOK'
  BY <1>1, <1>3, <1>5, InputsStay DEF SessionsOK
<1>10. SettledIsCommitted'
  BY <1>1 DEF ViewInv, SettledIsCommitted
<1>11. LostUpdates' = LostUpdates /\ LostProducts' = LostProducts
  BY <1>1, InputsStay DEF LostUpdates, LostProducts
<1>12. \A j \in 1..Len(filtered') :
         \/ j \in 1..Len(filtered) /\ filtered'[j] = filtered[j]
         \/ j = Len(filtered) + 1 /\ filtered'[j] = o
  BY <1>1, <1>7, InputsStay
<1>13. HandledDecode'
  BY <1>1, <1>5, <1>6, <1>12, InputsStay DEF ViewInv, HandledDecode
<1>14. ViewsNotBehind'
  BY <1>1, <1>11, InputsStay DEF ViewInv, ViewsNotBehind
<1>15. CommittedBlockHolds'
  <2>1. Emitting' \subseteq Emitting
    BY <1>2, <1>5, <1>12 DEF Emitting
  <2> QED
    BY <1>1, <1>8, <1>11, <2>1, InputsStay, KeepsBlocks
<1>16. UnblockedAccepted'
  <2>1. ASSUME NEW i \in 1..products'.next
        PROVE  \/ Kept(i)'
               \/ \E j \in 1..Len(filtered') : filtered'[j] = i
               \/ i \in 1..products.next /\ i \notin products.flight
    <3>1. CASE i = o
      BY <1>1, <1>7, <3>1, InputsStay
    <3>2. CASE i # o
      BY <1>5, <3>2 DEF Kept
    <3> QED
      BY <3>1, <3>2
  <2> QED
    BY <1>1, <1>7, <1>11, <2>1, InputsStay, KeepsAccepted
<1>17. ShownNotBehind'
  <2> SUFFICES ASSUME NEW j \in 1..Len(filtered'),
                      raw[filtered'[j]].key \notin Added, LastOfKey(j)',
                      NEW i \in Newer(j)', i <= products.next
               PROVE  i \in products'.flight \cup LostProducts
    BY <1>1, <1>5, <1>11, InputsStay DEF ShownNotBehind
  <2>1. i \in 1..Len(raw) /\ i > filtered'[j] /\ raw[i].key = raw[filtered'[j]].key
    BY <1>1 DEF Newer
  <2>2. CASE j = Len(filtered) + 1
    <3>1. filtered'[j] = o
      BY <1>7, <2>2
    <3>2. i \notin IdleProducts /\ i # o /\ i \in o..products.next
      BY <1>1, <1>6, <2>1, <3>1, InputsStay DEF IdleProducts
    <3>3. i \in products.flight
      BY <1>2, <1>4, <3>2 DEF SessionOK
    <3> QED
      BY <1>5, <3>2, <3>3
  <2>3. CASE j \in 1..Len(filtered)
    <3>1. filtered'[j] = filtered[j]
      BY <1>7, <2>3
    <3>2. raw[o].key # raw[filtered[j]].key
      <4>1. Len(filtered) + 1 \in (j + 1)..Len(filtered')
        BY <1>1, <1>7, <2>3, InputsStay
      <4>2. raw'[filtered'[Len(filtered) + 1]].key # raw'[filtered'[j]].key
        BY <4>1 DEF LastOfKey
      <4> QED
        BY <1>1, <1>7, <3>1, <4>2
    <3>3. LastOfKey(j)
      <4> SUFFICES ASSUME NEW l \in (j + 1)..Len(filtered)
                   PROVE  raw[filtered[l]].key # raw[filtered[j]].key
        BY DEF LastOfKey
      <4>1. l \in (j + 1)..Len(filtered') /\ l \in 1..Len(filtered)
        BY <1>1, <1>7, <2>3, InputsStay
      <4>2. raw'[filtered'[l]].key # raw'[filtered'[j]].key
        BY <4>1 DEF LastOfKey
      <4> QED
        BY <1>1, <1>7, <3>1, <4>1, <4>2
    <3>4. i \in Newer(j)
      BY <2>1, <3>1 DEF Newer
    <3>5. i \in products.flight \cup LostProducts
      BY <2>3, <3>1, <3>3, <3>4 DEF ViewInv, ShownNotBehind
    <3>6. i # o
      BY <2>1, <3>1, <3>2
    <3> QED
      BY <1>5, <3>5, <3>6
  <2> QED
    BY <1>12, <2>2, <2>3
<1> QED
  BY <1>8, <1>9, <1>10, <1>13, <1>14, <1>15, <1>16, <1>17 DEF ViewInv

(* Marked offsets are committed, past what is in flight.                   *)
LEMMA CommitKeepsViews ==
  ASSUME ViewInv, CommitOffsets
  PROVE  ViewInv'
<1>1. /\ UNCHANGED <<raw, commands, filtered, changelog,
                     running, table, products, updating, restarts>>
      /\ UNCHANGED inputs
      /\ rawCommitted' \in {rawCommitted, products.marked}
      /\ cmdCommitted' \in {cmdCommitted, updating.marked}
  BY DEF CommitOffsets, inputs, session
<1>2. TypeOK /\ SessionsOK
  BY DEF ViewInv
<1>3. /\ SessionOK(products, Len(raw), rawCommitted, IdleProducts)
      /\ SessionOK(updating, Len(commands), cmdCommitted, IdleCommands)
      /\ products \in Sessions /\ updating \in Sessions
  BY <1>2, TypeFacts DEF SessionsOK
<1>4. /\ SessionOK(products, Len(raw), rawCommitted', IdleProducts)
      /\ rawCommitted' \in Nat /\ rawCommitted <= rawCommitted'
  BY <1>1, <1>3, InputsStay, SessionCommits
<1>5. /\ SessionOK(updating, Len(commands), cmdCommitted', IdleCommands)
      /\ cmdCommitted' \in Nat /\ cmdCommitted <= cmdCommitted'
  BY <1>1, <1>3, InputsStay, SessionCommits
<1>6. TypeOK'
  BY <1>1, <1>2, <1>4, <1>5 DEF TypeOK
<1>7. SessionsOK'
  BY <1>1, <1>4, <1>5, InputsStay DEF SessionsOK
<1>8. SettledIsCommitted'
  <2>1. ASSUME NEW i \in 1..Len(raw) PROVE raw[i].settled <= cmdCommitted'
    <3>1. raw[i].settled \in Nat /\ raw[i].settled <= cmdCommitted
      BY <1>2, TypeFacts DEF ViewInv, SettledIsCommitted
    <3> QED
      BY <1>1, <1>5, <3>1, InputsStay
  <2> QED
    BY <1>1, <2>1 DEF SettledIsCommitted
<1>9. LostUpdates \subseteq LostUpdates' /\ LostProducts \subseteq LostProducts'
  BY <1>1, <1>2, <1>4, <1>5, <1>6, InputsStay, LostGrows
<1>10. HandledDecode'
  BY <1>1 DEF ViewInv, HandledDecode
<1>11. ViewsNotBehind'
  <2>1. ASSUME NEW k, NEW v, NEW E, NEW E2, E \subseteq E2,
               NotBehindBut(updates, k, updating.next, v, E)
        PROVE  NotBehindBut(updates, k, updating.next, v, E2)
    BY <1>1, <2>1, InputsStay, NotBehindWeaker, updating.next <= updating.next
  <2>2. updating.flight \cup LostUpdates \subseteq updating.flight \cup LostUpdates'
    BY <1>9
  <2>3. ViewNotBehindBut(updates, changelog, updating.next, updating.flight \cup LostUpdates')
    BY <2>1, <2>2 DEF ViewInv, ViewsNotBehind, ViewNotBehindBut
  <2>4. ViewNotBehindBut(updates, table, updating.next, LostUpdates')
    BY <1>9, <2>1 DEF ViewInv, ViewsNotBehind, ViewNotBehindBut
  <2> QED
    BY <1>1, <2>3, <2>4, InputsStay DEF ViewsNotBehind
<1>12. CommittedBlockHolds'
  <2>1. Emitting' = Emitting
    BY <1>1 DEF Emitting
  <2> QED
    BY <1>1, <1>6, <1>9, <2>1, InputsStay, KeepsBlocks
<1>13. UnblockedAccepted'
  BY <1>1, <1>9, InputsStay DEF ViewInv, UnblockedAccepted
<1>14. ShownNotBehind'
  BY <1>1, <1>9, InputsStay, KeepsShown
<1> QED
  BY <1>6, <1>7, <1>8, <1>10, <1>11, <1>12, <1>13, <1>14 DEF ViewInv

(* The process goes down: what is in flight is lost, and is read again,     *)
(* unless something marked and committed overtook it.                      *)
LEMMA HaltKeepsViews ==
  ASSUME ViewInv, Halt,
         rawCommitted' \in {rawCommitted, products.marked},
         cmdCommitted' \in {cmdCommitted, updating.marked}
  PROVE  ViewInv'
<1>1. /\ UNCHANGED <<raw, commands, filtered, changelog>>
      /\ UNCHANGED inputs
      /\ running' = FALSE /\ restarts' = restarts + 1
      /\ table' = changelog
      /\ products' = From(rawCommitted') /\ updating' = From(cmdCommitted')
  BY DEF Halt, inputs
<1>2. TypeOK /\ SessionsOK
  BY DEF ViewInv
<1>3. /\ SessionOK(products, Len(raw), rawCommitted, IdleProducts)
      /\ SessionOK(updating, Len(commands), cmdCommitted, IdleCommands)
      /\ products \in Sessions /\ updating \in Sessions
  BY <1>2, TypeFacts DEF SessionsOK
<1>4. /\ rawCommitted' \in Nat /\ rawCommitted <= rawCommitted'
      /\ rawCommitted' <= products.next /\ rawCommitted' <= Len(raw)
      /\ \A i \in products.flight :
           i <= rawCommitted' => i \in Overtaken(IdleProducts, rawCommitted')
  BY <1>1, <1>3, InputsStay, SessionCommits
<1>5. /\ cmdCommitted' \in Nat /\ cmdCommitted <= cmdCommitted'
      /\ cmdCommitted' <= updating.next /\ cmdCommitted' <= Len(commands)
      /\ \A i \in updating.flight :
           i <= cmdCommitted' => i \in Overtaken(IdleCommands, cmdCommitted')
  BY <1>1, <1>3, InputsStay, SessionCommits
<1>6. /\ products' \in Sessions /\ updating' \in Sessions
      /\ SessionOK(products', Len(raw), rawCommitted', IdleProducts)
      /\ SessionOK(updating', Len(commands), cmdCommitted', IdleCommands)
      /\ products'.next = rawCommitted' /\ products'.flight = {}
      /\ updating'.next = cmdCommitted' /\ updating'.flight = {}
  <2>1. /\ products' \in Sessions
        /\ SessionOK(products', Len(raw), rawCommitted', IdleProducts)
    BY <1>1, <1>4, InputsStay, SessionBegins
  <2>2. /\ updating' \in Sessions
        /\ SessionOK(updating', Len(commands), cmdCommitted', IdleCommands)
    BY <1>1, <1>5, InputsStay, SessionBegins
  <2> QED
    BY <1>1, <2>1, <2>2 DEF From
<1>7. TypeOK'
  <2>0. restarts' \in Nat
    BY <1>1, InputsStay
  <2>1. running' \in BOOLEAN
    BY <1>1
  <2>2. table' \in [Keys -> Nat] /\ changelog' \in [Keys -> Nat]
    BY <1>1, <1>2 DEF TypeOK
  <2>3. /\ raw' \in Seq([key : Keys \cup {NoKey}, seen : Nat, settled : Nat])
        /\ commands' \in Seq([action : Actions, key : Keys])
        /\ filtered' \in Seq(Nat)
    BY <1>1, <1>2 DEF TypeOK
  <2> QED
    BY <1>4, <1>5, <1>6, <2>0, <2>1, <2>2, <2>3 DEF TypeOK
<1>8. SessionsOK'
  BY <1>1, <1>6, InputsStay DEF SessionsOK
<1>9. SettledIsCommitted'
  <2>1. ASSUME NEW i \in 1..Len(raw) PROVE raw[i].settled <= cmdCommitted'
    <3>1. raw[i].settled \in Nat /\ raw[i].settled <= cmdCommitted
      BY <1>2, TypeFacts DEF ViewInv, SettledIsCommitted
    <3> QED
      BY <1>1, <1>5, <3>1, InputsStay
  <2> QED
    BY <1>1, <2>1 DEF SettledIsCommitted
<1>10. LostUpdates \subseteq LostUpdates' /\ LostProducts \subseteq LostProducts'
  BY <1>1, <1>2, <1>4, <1>5, <1>7, InputsStay, LostGrows
<1>11. /\ \A i \in products.flight : i <= rawCommitted' => i \in LostProducts'
       /\ \A i \in updating.flight : i <= cmdCommitted' => i \in LostUpdates'
  BY <1>1, <1>4, <1>5, InputsStay DEF LostProducts, LostUpdates
<1>12. HandledDecode'
  <2>1. \A i \in 1..products'.next : i \in 1..products.next
    BY <1>1, <1>4, <1>6, InputsStay
  <2> QED
    BY <1>1, <2>1, InputsStay, KeepsDecode
<1>13. ViewsNotBehind'
  <2>1. ASSUME NEW i \in updating.flight \cup LostUpdates, i <= cmdCommitted'
        PROVE  i \in LostUpdates'
    BY <1>10, <1>11, <2>1
  <2> DEFINE E == updating.flight \cup LostUpdates
  <2>2. ViewNotBehindBut(updates, changelog, cmdCommitted', LostUpdates')
    <3>1. ViewNotBehindBut(updates, changelog, updating.next, E)
      BY DEF ViewInv, ViewsNotBehind
    <3>2. \A i \in E : i <= cmdCommitted' => i \in LostUpdates'
      BY <2>1
    <3> HIDE DEF E
    <3>3. ASSUME NEW k, NEW v, NotBehindBut(updates, k, updating.next, v, E)
          PROVE  NotBehindBut(updates, k, cmdCommitted', v, LostUpdates')
      BY <1>1, <1>5, <3>2, <3>3, InputsStay, NotBehindWeaker
    <3> QED
      BY <3>1, <3>3 DEF ViewNotBehindBut
  <2>3. updating'.flight \cup LostUpdates' = LostUpdates'
    BY <1>6
  <2> QED
    BY <1>1, <1>6, <2>2, <2>3, InputsStay DEF ViewsNotBehind
<1>14. CommittedBlockHolds'
  <2>1. Emitting' \subseteq Emitting
    BY <1>1, <1>6 DEF Emitting
  <2> QED
    BY <1>1, <1>7, <1>10, <2>1, InputsStay, KeepsBlocks
<1>15. \A i \in 1..products'.next :
         \/ i \in LostProducts'
         \/ i \in 1..products.next /\ i \notin products.flight
  BY <1>1, <1>4, <1>6, <1>11, InputsStay
<1>16. UnblockedAccepted'
  <2>1. restarts' > 0 /\ restarts' \in Nat /\ restarts <= restarts'
    BY <1>1, InputsStay
  <2>2. \A i \in 1..products'.next :
          \/ Kept(i)'
          \/ i \in 1..products.next /\ i \notin products.flight
    BY <1>15, <2>1 DEF Kept
  <2> QED
    BY <1>1, <1>10, <2>1, <2>2, InputsStay, KeepsAccepted
<1>17. ShownNotBehind'
  <2>1. products'.next \in Nat /\ products'.next <= Len(raw)
    BY <1>4, <1>6
  <2> QED
    BY <1>1, <1>10, <1>15, <2>1, InputsStay, KeepsShown
<1> QED
  BY <1>7, <1>8, <1>9, <1>12, <1>13, <1>14, <1>16, <1>17 DEF ViewInv

(* The process starts, or nothing happens.                                 *)
LEMMA OthersKeepViews ==
  ASSUME ViewInv, Start \/ UNCHANGED vars
  PROVE  ViewInv'
<1>1. /\ UNCHANGED <<raw, commands, filtered, changelog, rawCommitted, cmdCommitted,
                     table, products, updating, restarts>>
      /\ UNCHANGED inputs
      /\ running' \in BOOLEAN
  BY DEF Start, vars, inputs, session, broker, ViewInv, TypeOK
<1>2. TypeOK' /\ SessionsOK' /\ SettledIsCommitted' /\ HandledDecode'
  <2>1. TypeOK'
    BY <1>1 DEF ViewInv, TypeOK
  <2>2. SessionsOK'
    BY <1>1, InputsStay DEF ViewInv, SessionsOK
  <2> QED
    BY <1>1, <2>1, <2>2 DEF ViewInv, SettledIsCommitted, HandledDecode
<1>3. LostUpdates' = LostUpdates /\ LostProducts' = LostProducts
  BY <1>1, InputsStay DEF LostUpdates, LostProducts
<1>4. ViewsNotBehind' /\ CommittedBlockHolds'
  <2>1. Emitting' = Emitting
    BY <1>1 DEF Emitting
  <2> QED
    BY <1>1, <1>3, <2>1, InputsStay DEF ViewInv, ViewsNotBehind, CommittedBlockHolds
<1>5. UnblockedAccepted' /\ ShownNotBehind'
  <2>1. UnblockedAccepted'
    BY <1>1, <1>3, InputsStay DEF ViewInv, UnblockedAccepted
  <2>2. ShownNotBehind'
    BY <1>1, <1>3, InputsStay, KeepsShown
  <2> QED
    BY <2>1, <2>2
<1> QED
  BY <1>2, <1>4, <1>5 DEF ViewInv

(* Every step of the filter and of its environment keeps the views.        *)
LEMMA NextKeepsViews ==
  ASSUME ViewInv, [Next]_vars
  PROVE  ViewInv'
<1>1. CASE Publish
  BY <1>1, PublishProductKeepsViews, PublishCommandKeepsViews, ProductFilterAssumption
     DEF Publish, PublishMalformed
<1>2. CASE Start \/ Rest \/ UNCHANGED vars
  BY <1>2, OthersKeepViews DEF Rest
<1>3. CASE ProcessProduct \/ ProcessBlacklistCommand
  BY <1>3, ProcessProductKeepsViews, ProcessCommandKeepsViews
<1>4. CASE AckProduct \/ AckCommand \/ CommitOffsets
  BY <1>4, AckProductKeepsViews, AckCommandKeepsViews, CommitKeepsViews
<1>5. CASE DecodeFails \/ Crash \/ Stop
  BY <1>5, HaltKeepsViews DEF DecodeFails, Crash, Stop
<1> QED
  BY <1>1, <1>2, <1>3, <1>4, <1>5 DEF Next

(* ViewInv holds in every reachable state.                                 *)
LEMMA ViewsInvariance == Spec => []ViewInv
  BY InitViews, NextKeepsViews, PTL DEF Spec

(* Types are kept, whatever the instance.                                  *)
THEOREM TypeCorrect == Spec => []TypeOK
<1>1. ViewInv => TypeOK
  BY DEF ViewInv
<1> QED
  BY <1>1, ViewsInvariance, PTL

(* A product published once a block was committed does not pass, however    *)
(* the filter crashes and replays and whichever topic it reads first.      *)
THEOREM CommittedBlocksHold == Spec => []CommittedBlockHolds
<1>1. ViewInv => CommittedBlockHolds
  BY DEF ViewInv
<1> QED
  BY <1>1, ViewsInvariance, PTL

(* The table that has handled every command is the blacklist, but for       *)
(* updates an ignored command overtook.                                    *)
THEOREM TableCorrect == Spec => []TableConverges
<1>1. ViewInv => TableConverges
  BY DEF ViewInv, ViewsNotBehind, TableConverges
<1> QED
  BY <1>1, ViewsInvariance, PTL

(* A committed product of a key never blocked is in products.filtered, or a *)
(* dropped one overtook it: then it is in flight, or the process went down. *)
THEOREM NothingAcceptedIsLost == Spec => []AcceptedNotLost
<1>1. ASSUME ViewInv PROVE AcceptedNotLost
  <2> SUFFICES ASSUME NEW i \in 1..rawCommitted
               PROVE  \/ raw[i].key \in Added
                      \/ \E j \in 1..Len(filtered) : filtered[j] = i
                      \/ i \in LostProducts /\ (i \in products.flight \/ restarts > 0)
    BY DEF AcceptedNotLost
  <2>1. /\ TypeOK /\ rawCommitted \in Nat /\ rawCommitted <= products.next
        /\ products.next \in Nat
    BY <1>1, OffsetFacts, TypeFacts DEF ViewInv
  <2>2. i \in 1..products.next
    BY <2>1
  <2>3. i \in products.flight => i \in LostProducts
    BY <1>1, <2>1 DEF ViewInv, SessionsOK, SessionOK, LostProducts
  <2> QED
    BY <1>1, <2>2, <2>3 DEF ViewInv, UnblockedAccepted
<1> QED
  BY <1>1, ViewsInvariance, PTL

(* Once caught up, products.filtered ends with the newest version of every  *)
(* key that was never blocked, in spite of replays, but for versions that   *)
(* a dropped product overtook.                                             *)
THEOREM NewestVersionsLast == Spec => []NewestVersionLast
<1>1. ASSUME ViewInv PROVE NewestVersionLast
  <2> SUFFICES ASSUME products.next = Len(raw), products.flight = {},
                      NEW j \in 1..Len(filtered),
                      raw[filtered[j]].key \notin Added, LastOfKey(j),
                      NEW i \in Newer(j)
               PROVE  i \in LostProducts
    BY DEF NewestVersionLast
  <2>1. i \in 1..Len(raw) /\ i <= products.next
    BY <1>1, TypeFacts DEF Newer, ViewInv
  <2> QED
    BY <1>1, <2>1 DEF ViewInv, ShownNotBehind
<1> QED
  BY <1>1, ViewsInvariance, PTL

(* Only the callback of the next product moves the session to it.          *)
LEMMA OnlyCallbackMoves ==
  ASSUME ViewInv, Next, products'.next = products.next + 1
  PROVE  ProcessProduct
<1>1. /\ products \in Sessions /\ products.next \in Nat /\ rawCommitted \in Nat
      /\ products.marked \in Nat
      /\ rawCommitted <= products.next /\ products.marked <= products.next
  BY OffsetFacts, TypeFacts DEF ViewInv, SessionsOK, SessionOK, Sessions
<1>2. ASSUME products' = products PROVE FALSE
  BY <1>1, <1>2
<1>3. ASSUME Halt, rawCommitted' \in {rawCommitted, products.marked} PROVE FALSE
  <2>1. products'.next = rawCommitted'
    BY <1>3 DEF Halt, From
  <2> QED
    BY <1>1, <1>3, <2>1
<1>4. ASSUME AckProduct PROVE FALSE
  <2>1. products'.next = products.next
    BY <1>1, <1>4 DEF AckProduct, Acknowledge, Sessions
  <2> QED
    BY <1>1, <2>1
<1>5. CASE DecodeFails \/ Crash \/ Stop
  BY <1>3, <1>5 DEF DecodeFails, Crash, Stop
<1>6. CASE Publish \/ Start \/ ProcessBlacklistCommand \/ AckCommand \/ CommitOffsets \/ Rest
  BY <1>2, <1>6
     DEF Publish, PublishProduct, PublishMalformed, PublishCommand, Start,
         ProcessBlacklistCommand, AckCommand, CommitOffsets, Rest, vars, session
<1> QED
  BY <1>4, <1>5, <1>6 DEF Next

(* A product is judged by the blacklist of some prefix of the commands that *)
(* is not behind the handled ones: nothing handled is forgotten, over any   *)
(* number of crashes and replays, but for updates an ignored command        *)
(* overtook.                                                               *)
THEOREM VerdictsJustified == Spec => VerdictsFollowBlacklist
<1> DEFINE Justified ==
      products'.next = products.next + 1 =>
        \E e \in 0..Len(commands) :
          /\ NotBehindBut(updates, raw[products'.next].key, updating.next, e, LostUpdates)
          /\ products'.next \in products'.flight <=> ~Blocked(e)
<1>1. ASSUME ViewInv, [Next]_vars PROVE [Justified]_vars
  <2> SUFFICES ASSUME Next, products'.next = products.next + 1
               PROVE  \E e \in 0..Len(commands) :
                        /\ NotBehindBut(updates, raw[products'.next].key,
                                        updating.next, e, LostUpdates)
                        /\ products'.next \in products'.flight <=> ~Blocked(e)
    BY <1>1
  <2> DEFINE n == products.next + 1
             k == raw[n].key
  <2>1. ProcessProduct /\ k \in Keys
    BY <1>1, OnlyCallbackMoves DEF ProcessProduct
  <2>2. NotBehindBut(updates, k, updating.next, table[k], LostUpdates)
    BY <1>1, <2>1 DEF ViewInv, ViewsNotBehind, ViewNotBehindBut, TypeOK
  <2>3. n \in products'.flight <=> ~Blocked(table[k])
    <3>1. /\ products \in Sessions /\ products.next \in Nat
          /\ products.flight \subseteq 1..products.next
      BY <1>1, TypeFacts, OffsetFacts DEF ViewInv
    <3>2. n \notin products.flight
      BY <3>1
    <3>3. products' = IF Blocked(table[k]) THEN Pass(products) ELSE Send(products)
      BY <2>1 DEF ProcessProduct
    <3>4. CASE Blocked(table[k])
      BY <3>1, <3>2, <3>3, <3>4 DEF Pass, Sessions
    <3>5. CASE ~Blocked(table[k])
      BY <3>1, <3>3, <3>5 DEF Send, Sessions
    <3> QED
      BY <3>4, <3>5
  <2>4. table[k] \in 0..Len(commands)
    <3>1. TypeOK /\ Len(updates) = Len(commands) /\ Len(commands) \in Nat
      BY <1>1, UpdatesFacts, TypeFacts DEF ViewInv
    <3>2. PICK m \in 0..Len(commands) : ValueAfter(updates, k, m, table[k])
      BY <2>2, <3>1 DEF NotBehindBut
    <3>3. \A i \in 1..Len(commands) : updates[i].val \in 0..Len(commands)
      BY <3>1, UpdateValues DEF None
    <3> QED
      BY <3>1, <3>2, <3>3 DEF ValueAfter, None
  <2> QED
    BY <2>2, <2>3, <2>4
<1> QED
  BY <1>1, ViewsInvariance, PTL DEF Spec, VerdictsFollowBlacklist

(* The changelog, together with the committed offset of the commands,       *)
(* implements the promise of a keyed view, in which only an ignored command *)
(* excuses updates before it.                                              *)
THEOREM ChangelogImplementsKeyedView == Spec => ChangelogIsKeyedView
<1>1. Init => ChangelogView!Init
  <2> SUFFICES ASSUME Init PROVE ChangelogView!Init
    OBVIOUS
  <2>1. commands = <<>> /\ Len(commands) = 0
    BY DEF Init
  <2>2. updates = <<>>
    BY <2>1 DEF updates
  <2> QED
    BY <2>2 DEF Init, ChangelogView!Init, ChangelogView!None, None
<1>2. ASSUME ViewInv, ViewInv', [Next]_vars
      PROVE  [ChangelogView!Next]_ChangelogView!vars
  <2>1. ASSUME NEW a \in Actions, NEW k \in Keys, PublishCommand(a, k)
        PROVE  ChangelogView!AppendRecord
    <3> DEFINE c == [action |-> a, key |-> k]
               u == UpdateOf(c, Len(commands) + 1)
    <3>1. updates' = Append(updates, u)
      <4>1. commands \in Seq([action : Actions, key : Keys]) /\ commands' = Append(commands, c)
        BY <1>2, <2>1 DEF ViewInv, TypeOK, PublishCommand
      <4> QED
        BY <4>1 DEF updates
    <3>2. /\ u = [key |-> u.key, val |-> u.val]
          /\ u.key \in Keys \cup {NoKey}
          /\ u.val \in {None, Len(updates) + 1}
      BY <1>2, UpdatesFacts DEF ViewInv, UpdateOf
    <3> QED
      BY <2>1, <3>1, <3>2
         DEF ChangelogView!AppendRecord, ChangelogView!None, None, PublishCommand, broker
  <2>2. ASSUME UNCHANGED commands, cmdCommitted <= cmdCommitted'
        PROVE  ChangelogView!Consume
    <3>a. TypeOK' /\ TypeOK /\ SessionsOK'
      BY <1>2 DEF ViewInv
    <3>b. updates' = updates /\ IdleCommands' = IdleCommands
      BY <2>2, UpdatesStay
    <3>c. Len(updates) = Len(commands) /\ Len(commands) \in Nat /\ cmdCommitted \in Nat
      BY <3>a, UpdatesFacts, TypeFacts
    <3>d. /\ SessionOK(updating', Len(commands), cmdCommitted', IdleCommands)
          /\ updating' \in Sessions /\ cmdCommitted' \in Nat
      BY <2>2, <3>a, <3>b DEF SessionsOK, TypeOK
    <3>e. /\ updating'.next \in Nat /\ cmdCommitted' <= updating'.next
          /\ cmdCommitted' <= Len(commands)
      BY <3>c, <3>d DEF SessionOK, Sessions
    <3>1. cmdCommitted' \in cmdCommitted..Len(updates)
      BY <2>2, <3>c, <3>d, <3>e
    <3> DEFINE d == cmdCommitted'
               E == updating'.flight \cup Overtaken(IdleCommands, d)
               X == ChangelogView!Excused(d)
    <3>2. ViewNotBehindBut(updates, changelog', updating'.next, E)
      BY <1>2, <2>2, <3>b DEF ViewInv, ViewsNotBehind, LostUpdates
    <3>3. \A i \in E : i <= d => i \in Overtaken(IdleCommands, d)
      BY <3>d DEF SessionOK
    <3>4. Overtaken(IdleCommands, d) \subseteq X
      <4>1. ASSUME NEW i \in 1..d, NEW j \in IdleCommands, i < j, j <= d
            PROVE  i \in X
        <5>1. j \in 1..Len(commands) /\ j \in (i + 1)..d
          BY <3>c, <3>d, <4>1 DEF IdleCommands
        <5>2. updates[j].key = NoKey
          <6>1. ~Changes(commands[j])
            BY DEF IdleCommands
          <6>2. updates[j] = UpdateOf(commands[j], j)
            BY <3>a, <5>1, UpdatesFacts
          <6> QED
            BY <6>1, <6>2 DEF UpdateOf
        <5> QED
          BY <5>1, <5>2 DEF ChangelogView!Excused
      <4> QED
        BY <4>1 DEF Overtaken
    <3>5. ViewNotBehindBut(updates, changelog', d, X)
      <4>1. \A i \in E : i <= d => i \in X
        BY <3>3, <3>4
      <4>2. d \in Nat /\ updating'.next \in Nat /\ d <= updating'.next
        BY <3>d, <3>e
      <4> HIDE DEF d, E, X
      <4>3. ASSUME NEW k, NEW v, NotBehindBut(updates, k, updating'.next, v, E)
            PROVE  NotBehindBut(updates, k, d, v, X)
        BY <4>1, <4>2, <4>3, NotBehindWeaker
      <4> QED
        BY <3>2, <4>3 DEF ViewNotBehindBut
    <3>6. DOMAIN changelog' = Keys
      BY <3>a DEF TypeOK
    <3> QED
      BY <2>2, <3>1, <3>5, <3>6, <3>b
         DEF ChangelogView!Consume, ChangelogView!ViewNotBehindBut,
             ChangelogView!NotBehindBut, ChangelogView!ValueAfter, ChangelogView!None,
             ViewNotBehindBut, NotBehindBut, ValueAfter, None
  <2>3. \/ \E a \in Actions, k \in Keys : PublishCommand(a, k)
        \/ UNCHANGED commands /\ cmdCommitted <= cmdCommitted'
    <3>1. cmdCommitted <= cmdCommitted /\ cmdCommitted <= updating.marked
      BY <1>2, TypeFacts DEF ViewInv, SessionsOK, SessionOK
    <3> QED
      BY <1>2, <3>1, ProductFilterAssumption
         DEF Next, Publish, PublishProduct, PublishMalformed, Start, ProcessProduct,
             ProcessBlacklistCommand, DecodeFails, Halt, AckProduct, AckCommand,
             CommitOffsets, Crash, Stop, Rest, vars, session, broker, inputs
  <2> QED
    BY <2>1, <2>2, <2>3 DEF ChangelogView!Next
<1> QED
  BY <1>1, <1>2, ViewsInvariance, PTL DEF Spec, ChangelogIsKeyedView, ChangelogView!Spec

-----------------------------------------------------------------------------
(* The copies of a product in products.filtered *)

(* A product has finitely many copies.                                     *)
LEMMA CopiesAreFinite ==
  ASSUME TypeOK, NEW i
  PROVE  IsFiniteSet(Copies(i)) /\ Cardinality(Copies(i)) \in Nat
<1>1. IsFiniteSet(1..Len(filtered))
  BY TypeFacts, FS_Interval
<1>2. Copies(i) \subseteq 1..Len(filtered)
  BY DEF Copies
<1>3. IsFiniteSet(Copies(i))
  BY <1>1, <1>2, FS_Subset
<1> QED
  BY <1>3, FS_CardinalityType

(* An emit that is acknowledged adds one copy of its product and no other. *)
LEMMA CopiesAfterEmit ==
  ASSUME TypeOK, NEW n \in Nat, filtered' = Append(filtered, n), NEW i
  PROVE  Copies(i)' = IF i = n THEN Copies(i) \cup {Len(filtered) + 1} ELSE Copies(i)
<1>1. /\ Len(filtered') = Len(filtered) + 1
      /\ \A j \in 1..Len(filtered) : filtered'[j] = filtered[j]
      /\ filtered'[Len(filtered) + 1] = n
  BY DEF TypeOK
<1>2. 1..(Len(filtered) + 1) = (1..Len(filtered)) \cup {Len(filtered) + 1}
  BY TypeFacts
<1> QED
  BY <1>1, <1>2 DEF Copies

(* Nothing has been written in the initial states.                         *)
LEMMA InitCopies == Init => CopiesAreCounted /\ EarlierDecode
<1> SUFFICES ASSUME Init PROVE CopiesAreCounted /\ EarlierDecode
  OBVIOUS
<1>1. Len(raw) = 0 /\ Len(filtered) = 0
  BY DEF Init
<1> QED
  BY <1>1 DEF CopiesAreCounted, EarlierDecode

(* A product that has just been published has no copy.                     *)
LEMMA PublishKeepsCopies ==
  ASSUME IInv, NEW k \in Keys \cup {NoKey}, PublishProduct(k)
  PROVE  CopiesAreCounted' /\ EarlierDecode'
<1>1. TypeOK /\ HandledDecode /\ ViewInv
  BY DEF IInv, ViewInv
<1>2. /\ Len(raw') = Len(raw) + 1
      /\ \A i \in 1..Len(raw) : raw'[i] = raw[i]
  BY <1>1, RawGrows
<1>3. /\ filtered' = filtered /\ products' = products /\ restarts' = restarts
      /\ \A i : Copies(i)' = Copies(i)
  BY DEF PublishProduct, session, broker, Copies
<1>4. /\ Len(raw) \in Nat /\ restarts \in Nat
      /\ \A j \in 1..Len(filtered) : filtered[j] \in 1..Len(raw)
  BY <1>1, TypeFacts DEF TypeOK, HandledDecode
<1>5. Copies(Len(raw) + 1) = {}
  BY <1>4 DEF Copies
<1>6. CopiesAreCounted'
  <2> SUFFICES ASSUME NEW i \in 1..(Len(raw) + 1)
               PROVE  Cardinality(Copies(i)) <=
                        restarts + (IF i <= products.next /\ i \notin products.flight
                                    THEN 1 ELSE 0)
    BY <1>2, <1>3 DEF CopiesAreCounted
  <2>1. CASE i \in 1..Len(raw)
    BY <2>1 DEF IInv, CopiesAreCounted
  <2>2. CASE i = Len(raw) + 1
    <3>1. Cardinality(Copies(i)) = 0
      BY <1>5, <2>2, FS_EmptySet
    <3> QED
      BY <1>4, <3>1
  <2> QED
    BY <1>4, <2>1, <2>2
<1>7. EarlierDecode'
  <2> SUFFICES ASSUME NEW j \in 1..Len(filtered), NEW i \in 1..filtered[j]
               PROVE  raw'[i].key \in Keys
    BY <1>3 DEF EarlierDecode
  <2>1. i \in 1..Len(raw)
    BY <1>4
  <2> QED
    BY <1>2, <2>1 DEF IInv, EarlierDecode
<1> QED
  BY <1>6, <1>7

(* An acknowledged emit is the first of its product in this session, and    *)
(* the products before it have been handled.                               *)
LEMMA AckKeepsCopies ==
  ASSUME IInv, AckProduct
  PROVE  CopiesAreCounted' /\ EarlierDecode'
<1>1. TypeOK /\ HandledDecode /\ ViewInv
  BY DEF IInv, ViewInv
<1>2. PICK o \in products.flight :
        products' = Acknowledge(products, o) /\ filtered' = Append(filtered, o)
  BY DEF AckProduct
<1>3. /\ raw' = raw /\ restarts' = restarts
      /\ products'.next = products.next /\ products'.flight = products.flight \ {o}
  BY <1>1, <1>2, TypeFacts DEF AckProduct, inputs, Acknowledge, Sessions
<1>4. /\ restarts \in Nat /\ Len(filtered) \in Nat /\ products.next \in Nat
      /\ o \in 1..products.next /\ o \in Nat
  BY <1>1, TypeFacts, OffsetFacts DEF TypeOK
<1>5. ASSUME NEW i \in 1..Len(raw)
      PROVE  Cardinality(Copies(i)') <=
               restarts + (IF i <= products'.next /\ i \notin products'.flight
                           THEN 1 ELSE 0)
  <2>1. /\ Cardinality(Copies(i)) <=
             restarts + (IF i <= products.next /\ i \notin products.flight THEN 1 ELSE 0)
        /\ Cardinality(Copies(i)) \in Nat /\ IsFiniteSet(Copies(i))
    BY <1>1, CopiesAreFinite DEF IInv, CopiesAreCounted
  <2>2. CASE i # o
    <3>1. Copies(i)' = Copies(i)
      BY <1>1, <1>2, <1>4, <2>2, CopiesAfterEmit
    <3> QED
      BY <1>3, <2>1, <2>2, <3>1
  <2>3. CASE i = o
    <3>1. Copies(i)' = Copies(i) \cup {Len(filtered) + 1}
      BY <1>1, <1>2, <1>4, <2>3, CopiesAfterEmit
    <3>2. Len(filtered) + 1 \notin Copies(i)
      BY <1>4 DEF Copies
    <3>3. Cardinality(Copies(i)') = Cardinality(Copies(i)) + 1
      BY <2>1, <3>1, <3>2, FS_AddElement
    <3>4. Cardinality(Copies(i)) <= restarts
      BY <1>2, <1>4, <2>1, <2>3
    <3> QED
      BY <1>3, <1>4, <2>1, <2>3, <3>3, <3>4
  <2> QED
    BY <2>2, <2>3
<1>6. CopiesAreCounted'
  BY <1>3, <1>5 DEF CopiesAreCounted
<1>7. ASSUME NEW j \in 1..Len(filtered'), NEW i \in 1..filtered'[j]
      PROVE  raw[i].key \in Keys
  <2>1. CASE j \in 1..Len(filtered) /\ filtered'[j] = filtered[j]
    BY <1>7, <2>1 DEF IInv, EarlierDecode
  <2>2. CASE filtered'[j] = o
    BY <1>1, <1>4, <1>7, <2>2 DEF HandledDecode
  <2>3. (j \in 1..Len(filtered) /\ filtered'[j] = filtered[j]) \/ filtered'[j] = o
    BY <1>1, <1>2, <1>4 DEF TypeOK
  <2> QED
    BY <2>1, <2>2, <2>3
<1>8. EarlierDecode'
  BY <1>3, <1>7 DEF EarlierDecode
<1> QED
  BY <1>6, <1>8

(* A step that writes no product keeps the copies; one that takes the       *)
(* process down makes room for one more of each.                           *)
LEMMA OthersKeepCopies ==
  ASSUME IInv, UNCHANGED <<raw, filtered>>,
         \/ UNCHANGED <<products, restarts>>
         \/ ProcessProduct
         \/ restarts' = restarts + 1
  PROVE  CopiesAreCounted' /\ EarlierDecode'
<1>1. TypeOK /\ products \in Sessions /\ products.next \in Nat
  BY TypeFacts DEF IInv, ViewInv
<1>2. restarts \in Nat
  BY <1>1 DEF TypeOK
<1>3. \A i : Copies(i)' = Copies(i)
  BY DEF Copies
<1>4. CopiesAreCounted'
  <2>0. ASSUME NEW i \in 1..Len(raw)
        PROVE  /\ Cardinality(Copies(i)) \in Nat
               /\ Cardinality(Copies(i)) <= restarts +
                    (IF i <= products.next /\ i \notin products.flight THEN 1 ELSE 0)
    BY <1>1, CopiesAreFinite DEF IInv, CopiesAreCounted
  <2>1. CASE UNCHANGED <<products, restarts>>
    BY <1>3, <2>1 DEF IInv, CopiesAreCounted
  <2>2. CASE ProcessProduct
    <3>1. products' \in {Pass(products), Send(products)} /\ restarts' = restarts
      BY <2>2 DEF ProcessProduct
    <3>2. /\ products'.next = products.next + 1
          /\ products'.flight \subseteq products.flight \cup {products.next + 1}
      BY <1>1, <3>1 DEF Pass, Send, Sessions
    <3>3. ASSUME NEW i \in 1..Len(raw), i <= products.next, i \notin products.flight
          PROVE  i <= products'.next /\ i \notin products'.flight
      BY <1>1, <3>2, <3>3
    <3> QED
      BY <1>2, <1>3, <2>0, <3>1, <3>3 DEF CopiesAreCounted
  <2>3. CASE restarts' = restarts + 1
    BY <1>2, <1>3, <2>0, <2>3 DEF CopiesAreCounted
  <2> QED
    BY <2>1, <2>2, <2>3
<1>5. EarlierDecode'
  BY DEF IInv, EarlierDecode
<1> QED
  BY <1>4, <1>5

(* Every step of the filter and of its environment keeps the invariant.    *)
LEMMA NextKeepsIInv ==
  ASSUME IInv, [Next]_vars
  PROVE  IInv'
<1>1. ViewInv'
  BY NextKeepsViews DEF IInv
<1>2. CopiesAreCounted' /\ EarlierDecode'
  <2>1. CASE (\E k \in Keys : PublishProduct(k)) \/ PublishMalformed
    BY <2>1, PublishKeepsCopies DEF PublishMalformed
  <2>2. CASE \E a \in Actions, k \in Managed : PublishCommand(a, k)
    BY <2>2, OthersKeepCopies DEF PublishCommand, session, broker
  <2>3. CASE AckProduct
    BY <2>3, AckKeepsCopies
  <2>4. CASE DecodeFails \/ Crash \/ Stop
    BY <2>4, OthersKeepCopies DEF DecodeFails, Crash, Stop, Halt, inputs
  <2>5. CASE ProcessProduct
    BY <2>5, OthersKeepCopies DEF ProcessProduct, inputs, broker
  <2>6. CASE Start \/ ProcessBlacklistCommand \/ AckCommand \/ CommitOffsets
    BY <2>6, OthersKeepCopies
       DEF Start, ProcessBlacklistCommand, AckCommand, CommitOffsets, inputs, broker, session
  <2>7. CASE Rest \/ UNCHANGED vars
    BY <2>7, OthersKeepCopies DEF Rest, vars, inputs, broker, session
  <2> QED
    BY <2>1, <2>2, <2>3, <2>4, <2>5, <2>6, <2>7 DEF Next, Publish
<1> QED
  BY <1>1, <1>2 DEF IInv

(* IInv holds in every reachable state: the sessions are in order, table and *)
(* changelog miss only what is in flight or was overtaken, accepted products *)
(* are written, in flight or overtaken by a dropped one, the copies are     *)
(* counted by the sessions that wrote them and nothing passes before a      *)
(* record that does not decode has been got past.                          *)
THEOREM Invariance == Spec => []IInv
<1>1. Init => IInv
  BY InitViews, InitCopies DEF IInv
<1> QED
  BY <1>1, NextKeepsIInv, PTL DEF Spec

(* A product is written once, and once more for each time the process went  *)
(* down, at most.                                                          *)
THEOREM DuplicatesAreBounded == Spec => []DuplicatesNeedRestart
<1>1. ASSUME IInv PROVE DuplicatesNeedRestart
  <2> SUFFICES ASSUME NEW i \in 1..Len(raw)
               PROVE  Cardinality(Copies(i)) <= 1 + restarts
    BY DEF DuplicatesNeedRestart
  <2>1. TypeOK
    BY <1>1 DEF IInv, ViewInv
  <2>2. /\ Cardinality(Copies(i)) <=
             restarts + (IF i <= products.next /\ i \notin products.flight THEN 1 ELSE 0)
        /\ Cardinality(Copies(i)) \in Nat
    BY <1>1, <2>1, CopiesAreFinite DEF IInv, CopiesAreCounted
  <2> QED
    BY <2>1, <2>2 DEF TypeOK
<1> QED
  BY <1>1, Invariance, PTL

(* The filter stays in front of a record that does not decode: its offset   *)
(* is not committed and nothing behind it comes out.                       *)
THEOREM MalformedBlocks == Spec => []MalformedIsNotSkipped
<1>1. ASSUME IInv PROVE MalformedIsNotSkipped
  <2> SUFFICES ASSUME NEW i \in 1..Len(raw), raw[i].key = NoKey
               PROVE  /\ rawCommitted < i
                      /\ \A j \in 1..Len(filtered) : filtered[j] < i
    BY DEF MalformedIsNotSkipped
  <2>1. TypeOK /\ ViewInv
    BY <1>1 DEF IInv, ViewInv
  <2>2. raw[i].key \notin Keys
    BY ProductFilterAssumption
  <2>3. rawCommitted < i
    <3>1. i \notin 1..products.next
      BY <2>1, <2>2 DEF ViewInv, HandledDecode
    <3> QED
      BY <2>1, <3>1, OffsetFacts, TypeFacts
  <2>4. ASSUME NEW j \in 1..Len(filtered) PROVE filtered[j] < i
    <3>1. i \notin 1..filtered[j]
      BY <1>1, <2>2 DEF IInv, EarlierDecode
    <3> QED
      BY <2>1, <3>1, TypeFacts
  <2> QED
    BY <2>3, <2>4
<1> QED
  BY <1>1, Invariance, PTL
=============================================================================
