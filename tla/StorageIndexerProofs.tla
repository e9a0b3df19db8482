------------------------ MODULE StorageIndexerProofs ------------------------
(***************************************************************************)
(* Proofs about StorageIndexer, for any number of groups, partitions, keys *)
(* and failures.                                                           *)
(*                                                                         *)
(* An action moves a claim, or all claims of a group, in one of a few ways. *)
(* ClaimInv says of one claim, as a predicate of its own pieces of state,   *)
(* what IInv says of all; each way is a lemma about ClaimInv, and an action *)
(* is proved by naming, claim by claim, the lemma that applies.            *)
(***************************************************************************)
EXTENDS StorageIndexer, SequenceTheorems, TLAPS

Records == [key : Keys, storable : BOOLEAN]

(* writes(c), as a function of the log of the claim                        *)
WritesOf(l) == [i \in 1..Len(l) |-> [key |-> l[i].key, val |-> i]]

(* l: log, co: committed, ma: marked, r: rows, cl: claim, se: session      *)
ClaimInv(l, co, ma, r, cl, se) ==
  /\ co <= Len(l)
  /\ ViewNotBehind(WritesOf(l), r, co)
  /\ cl # "closed" => se # "none"
  /\ se # "none" =>
       /\ co <= ma /\ ma <= Len(l)
       /\ ViewNotBehind(WritesOf(l), r, ma)
  /\ cl = "stored" =>
       /\ ma + 1 <= Len(l)
       /\ ViewNotBehind(WritesOf(l), r, ma + 1)
  /\ \A i \in 1..Len(l) : ~l[i].storable =>
       /\ co < i
       /\ se # "none" => ma < i
       /\ cl = "stored" => ma + 1 < i
       /\ \A k \in Keys : r[k] < i

-----------------------------------------------------------------------------
(* The log of writes *)

(* There is one write per record of the partition.                         *)
LEMMA WritesFacts ==
  ASSUME NEW l \in Seq(Records)
  PROVE  /\ WritesOf(l) \in Seq([key : Keys, val : Nat])
         /\ Len(WritesOf(l)) = Len(l) /\ Len(l) \in Nat
         /\ \A i \in 1..Len(l) :
              /\ l[i] \in Records
              /\ WritesOf(l)[i].key = l[i].key
              /\ WritesOf(l)[i].val = i
<1>1. \A i \in 1..Len(l) : l[i] \in Records
  BY ElementOfSeq
<1>2. \A i \in 1..Len(l) : l[i].key \in Keys
  BY <1>1 DEF Records
<1> QED
  BY <1>1, <1>2 DEF WritesOf

(* A published record appends one write.                                   *)
LEMMA WritesGrow ==
  ASSUME NEW l \in Seq(Records), NEW x \in Records
  PROVE  /\ Append(l, x) \in Seq(Records)
         /\ Len(Append(l, x)) = Len(l) + 1
         /\ \A i \in 1..Len(l) : Append(l, x)[i] = l[i]
         /\ WritesOf(Append(l, x)) =
              Append(WritesOf(l), [key |-> x.key, val |-> Len(l) + 1])
<1>1. /\ Append(l, x) \in Seq(Records)
      /\ Len(Append(l, x)) = Len(l) + 1
      /\ \A i \in 1..Len(l) : Append(l, x)[i] = l[i]
      /\ Append(l, x)[Len(l) + 1] = x
  BY AppendProperties
<1> QED
  BY <1>1 DEF WritesOf

(* A row shows a published record, or none.                                *)
LEMMA RowsPublished ==
  ASSUME NEW l \in Seq(Records), NEW r \in [Keys -> Nat], NEW n \in Nat,
         ViewNotBehind(WritesOf(l), r, n), NEW k \in Keys
  PROVE  r[k] <= Len(l)
<1>1. PICK m \in n..Len(WritesOf(l)) : ValueAfter(WritesOf(l), k, m, r[k])
  BY DEF ViewNotBehind, NotBehind
<1>2. CASE r[k] = None
  BY <1>2, WritesFacts DEF None
<1>3. CASE \E i \in 1..m : WritesOf(l)[i].val = r[k]
  <2>1. Len(WritesOf(l)) = Len(l) /\ Len(l) \in Nat
    BY WritesFacts
  <2>2. PICK i \in 1..m : WritesOf(l)[i].val = r[k]
    BY <1>3
  <2>3. i \in 1..Len(l)
    BY <2>1
  <2> QED
    BY <2>2, <2>3, WritesFacts
<1>4. r[k] = None \/ \E i \in 1..m : WritesOf(l)[i].val = r[k]
  BY <1>1 DEF ValueAfter
<1> QED
  BY <1>2, <1>3, <1>4

(* A view that is not behind n records is not behind fewer.                *)
LEMMA NotBehindFewer ==
  ASSUME NEW w, NEW r, NEW n \in Nat, NEW n0 \in Nat, n0 <= n,
         ViewNotBehind(w, r, n)
  PROVE  ViewNotBehind(w, r, n0)
  BY DEF ViewNotBehind, NotBehind

(* A view that is not behind n records stays so as the log grows.          *)
LEMMA NotBehindAppended ==
  ASSUME NEW l \in Seq(Records), NEW x \in Records, NEW r, NEW n \in Nat,
         ViewNotBehind(WritesOf(l), r, n)
  PROVE  ViewNotBehind(WritesOf(Append(l, x)), r, n)
<1> DEFINE w == WritesOf(l)
           w2 == WritesOf(Append(l, x))
<1>1. /\ Len(w) \in Nat /\ Len(w2) \in Nat /\ Len(w) <= Len(w2)
      /\ \A i \in 1..Len(w) : w2[i] = w[i]
  <2>1. /\ Len(w) = Len(l) /\ Len(l) \in Nat /\ Len(w2) = Len(l) + 1
    BY WritesFacts, WritesGrow
  <2>2. w2 = Append(w, [key |-> x.key, val |-> Len(l) + 1])
    BY WritesGrow
  <2>3. /\ w \in Seq([key : Keys, val : Nat])
        /\ [key |-> x.key, val |-> Len(l) + 1] \in [key : Keys, val : Nat]
    <3>1. w \in Seq([key : Keys, val : Nat])
      BY WritesFacts
    <3>2. x.key \in Keys /\ Len(l) + 1 \in Nat
      BY <2>1 DEF Records
    <3> QED
      BY <3>1, <3>2
  <2>4. \A i \in 1..Len(w) : w2[i] = w[i]
    BY <2>2, <2>3, AppendProperties
  <2> QED
    BY <2>1, <2>4
<1>2. ASSUME NEW k \in DOMAIN r PROVE NotBehind(w2, k, n, r[k])
  <2>1. PICK m \in n..Len(w) : ValueAfter(w, k, m, r[k])
    BY DEF ViewNotBehind, NotBehind
  <2>2. m \in n..Len(w2) /\ \A i \in 1..m : w2[i] = w[i]
    BY <1>1, <2>1
  <2>3. ValueAfter(w2, k, m, r[k])
    BY <2>1, <2>2 DEF ValueAfter
  <2> QED
    BY <2>2, <2>3 DEF NotBehind
<1> QED
  BY <1>2 DEF ViewNotBehind

(* The row of a write is not behind it, the other rows are where they were. *)
LEMMA UpsertNotBehind ==
  ASSUME NEW w, NEW r, NEW n \in Nat, Len(w) \in Nat, n < Len(w),
         ViewNotBehind(w, r, n)
  PROVE  ViewNotBehind(w, Apply(r, w, n + 1), n + 1)
<1> DEFINE r2 == Apply(r, w, n + 1)
<1> SUFFICES ASSUME NEW k \in DOMAIN r PROVE NotBehind(w, k, n + 1, r2[k])
  BY DEF ViewNotBehind, Apply
<1>1. n + 1 \in (n + 1)..Len(w)
  OBVIOUS
<1>2. CASE w[n + 1].key = k
  <2>1. ValueAfter(w, k, n + 1, r2[k])
    BY <1>2 DEF ValueAfter, Apply
  <2> QED
    BY <1>1, <2>1 DEF NotBehind
<1>3. CASE w[n + 1].key # k
  <2>1. PICK m \in n..Len(w) : ValueAfter(w, k, m, r[k])
    BY DEF ViewNotBehind, NotBehind
  <2>2. r2[k] = r[k]
    BY <1>3 DEF Apply
  <2>3. m = n => ValueAfter(w, k, n + 1, r[k])
    BY <1>3, <2>1 DEF ValueAfter
  <2> QED
    BY <1>1, <2>1, <2>2, <2>3 DEF NotBehind
<1> QED
  BY <1>2, <1>3

-----------------------------------------------------------------------------
(* The moves of a claim *)

(* A record is published.                                                  *)
LEMMA ClaimPublish ==
  ASSUME NEW l \in Seq(Records), NEW co \in Nat, NEW ma \in Nat,
         NEW r \in [Keys -> Nat], NEW cl, NEW se, NEW x \in Records,
         ClaimInv(l, co, ma, r, cl, se)
  PROVE  ClaimInv(Append(l, x), co, ma, r, cl, se)
<1> DEFINE l2 == Append(l, x)
<1>1. /\ Len(l) \in Nat /\ Len(l2) = Len(l) + 1
      /\ \A i \in 1..Len(l) : l2[i] = l[i]
  BY WritesFacts, WritesGrow
<1>2. \A n \in Nat : ViewNotBehind(WritesOf(l), r, n) => ViewNotBehind(WritesOf(l2), r, n)
  BY NotBehindAppended
<1>3. ASSUME NEW i \in 1..Len(l2), ~l2[i].storable
      PROVE  /\ co < i
             /\ se # "none" => ma < i
             /\ cl = "stored" => ma + 1 < i
             /\ \A k \in Keys : r[k] < i
  <2>1. CASE i \in 1..Len(l)
    BY <1>1, <1>3, <2>1 DEF ClaimInv
  <2>2. CASE i = Len(l) + 1
    <3>1. \A k \in Keys : r[k] <= Len(l)
      BY RowsPublished DEF ClaimInv
    <3>2. \A k \in Keys : r[k] < i
      BY <1>1, <2>2, <3>1
    <3> QED
      BY <1>1, <2>2, <3>2 DEF ClaimInv
  <2> QED
    BY <1>1, <2>1, <2>2
<1>4. /\ co <= Len(l2)
      /\ ViewNotBehind(WritesOf(l2), r, co)
      /\ cl # "closed" => se # "none"
  BY <1>1, <1>2 DEF ClaimInv
<1>5. se # "none" => co <= ma /\ ma <= Len(l2) /\ ViewNotBehind(WritesOf(l2), r, ma)
  BY <1>1, <1>2 DEF ClaimInv
<1>6. cl = "stored" => ma + 1 <= Len(l2) /\ ViewNotBehind(WritesOf(l2), r, ma + 1)
  BY <1>1, <1>2 DEF ClaimInv
<1> QED
  BY <1>3, <1>4, <1>5, <1>6 DEF ClaimInv

(* A session starts the claim after the committed offset.                  *)
LEMMA ClaimJoin ==
  ASSUME NEW l \in Seq(Records), NEW co \in Nat, NEW ma \in Nat,
         NEW r \in [Keys -> Nat], NEW cl, NEW se,
         ClaimInv(l, co, ma, r, cl, se)
  PROVE  ClaimInv(l, co, co, r, "open", "live")
  BY DEF ClaimInv

(* The next message replaces the row of its key.                           *)
LEMMA ClaimUpsert ==
  ASSUME NEW l \in Seq(Records), NEW co \in Nat, NEW ma \in Nat,
         NEW r \in [Keys -> Nat], NEW cl, NEW se,
         ClaimInv(l, co, ma, r, cl, se), se # "none",
         ma + 1 <= Len(l), l[ma + 1].storable
  PROVE  /\ ClaimInv(l, co, ma, Apply(r, WritesOf(l), ma + 1), "stored", se)
         /\ Apply(r, WritesOf(l), ma + 1) \in [Keys -> Nat]
<1> DEFINE w == WritesOf(l)
           r2 == Apply(r, w, ma + 1)
<1>1. Len(l) \in Nat /\ Len(w) = Len(l) /\ w[ma + 1].val = ma + 1
  BY WritesFacts
<1>2. r2 \in [Keys -> Nat] /\ \A k \in Keys : r2[k] \in {r[k], ma + 1}
  BY <1>1 DEF Apply
<1>3. ViewNotBehind(w, r2, ma + 1)
  <2>1. ViewNotBehind(w, r, ma)
    BY DEF ClaimInv
  <2> QED
    BY <1>1, <2>1, UpsertNotBehind
<1>4. co <= ma /\ ma <= Len(l) /\ co <= Len(l)
  BY DEF ClaimInv
<1>5. ViewNotBehind(w, r2, co) /\ ViewNotBehind(w, r2, ma)
  BY <1>3, <1>4, NotBehindFewer
<1>6. ASSUME NEW i \in 1..Len(l), ~l[i].storable
      PROVE  co < i /\ ma < i /\ ma + 1 < i /\ \A k \in Keys : r2[k] < i
  <2>1. co < i /\ ma < i /\ \A k \in Keys : r[k] < i
    BY <1>6 DEF ClaimInv
  <2>2. ma + 1 # i
    BY <1>6
  <2>3. ma + 1 < i
    BY <1>1, <2>1, <2>2
  <2> QED
    BY <1>2, <2>1, <2>3
<1> QED
  BY <1>2, <1>3, <1>4, <1>5, <1>6 DEF ClaimInv

(* The message that was stored is marked.                                  *)
LEMMA ClaimMark ==
  ASSUME NEW l \in Seq(Records), NEW co \in Nat, NEW ma \in Nat,
         NEW r \in [Keys -> Nat], NEW se,
         ClaimInv(l, co, ma, r, "stored", se)
  PROVE  ClaimInv(l, co, ma + 1, r, "open", se)
  BY DEF ClaimInv

(* The claim is closed; its session may be over as well.                   *)
LEMMA ClaimClose ==
  ASSUME NEW l \in Seq(Records), NEW co \in Nat, NEW ma \in Nat,
         NEW r \in [Keys -> Nat], NEW cl, NEW se, NEW se2,
         ClaimInv(l, co, ma, r, cl, se), se2 # "none" => se # "none"
  PROVE  ClaimInv(l, co, ma, r, "closed", se2)
  BY DEF ClaimInv

(* The session is cancelled, not over.                                     *)
LEMMA ClaimCancel ==
  ASSUME NEW l \in Seq(Records), NEW co \in Nat, NEW ma \in Nat,
         NEW r \in [Keys -> Nat], NEW cl, NEW se, NEW se2,
         ClaimInv(l, co, ma, r, cl, se), se # "none", se2 # "none"
  PROVE  ClaimInv(l, co, ma, r, cl, se2)
  BY DEF ClaimInv

(* The session commits what it has marked.                                 *)
LEMMA ClaimFlush ==
  ASSUME NEW l \in Seq(Records), NEW co \in Nat, NEW ma \in Nat,
         NEW r \in [Keys -> Nat], NEW cl, NEW se,
         ClaimInv(l, co, ma, r, cl, se), se # "none"
  PROVE  ClaimInv(l, ma, ma, r, cl, se)
  BY DEF ClaimInv

-----------------------------------------------------------------------------
(* The invariant, claim by claim *)

ClaimHolds(c) ==
  ClaimInv(log[c], committed[c], marked[c], rows[c], claim[c], session[GroupOf[c]])

SessionsNeedProcess ==
  \A g \in Groups : session[g] # "none" => process = "running"

ClaimsHold == \A c \in Claims : ClaimHolds(c)

(* IInv is about the claims one by one, but for the sessions.              *)
LEMMA IInvByClaim ==
  TypeOK => (IInv <=> SessionsNeedProcess /\ ClaimsHold)
<1> SUFFICES ASSUME TypeOK PROVE IInv <=> SessionsNeedProcess /\ ClaimsHold
  OBVIOUS
<1>1. \A c \in Claims : writes(c) = WritesOf(log[c])
  BY DEF writes, WritesOf
<1>2. ASSUME IInv, NEW c \in Claims PROVE ClaimHolds(c)
  BY <1>1, <1>2 DEF IInv, ClaimsBelongToSessions, OffsetsOrdered, MarkedIsStored,
                    RefusedIsNotPassed, ClaimHolds, ClaimInv, Next1
<1>3. ASSUME SessionsNeedProcess, \A c \in Claims : ClaimHolds(c)
      PROVE  IInv
  <2>1. ClaimsBelongToSessions /\ OffsetsOrdered
    BY <1>3 DEF ClaimsBelongToSessions, OffsetsOrdered, SessionsNeedProcess,
                ClaimHolds, ClaimInv, Next1
  <2>2. MarkedIsStored
    BY <1>1, <1>3 DEF MarkedIsStored, ClaimHolds, ClaimInv, Next1
  <2>3. RefusedIsNotPassed
    <3>1. SUFFICES ASSUME NEW c \in Claims, NEW i \in 1..Len(log[c]), ~log[c][i].storable
                   PROVE  /\ committed[c] < i
                          /\ session[GroupOf[c]] # "none" => marked[c] < i
                          /\ claim[c] = "stored" => Next1(c) < i
                          /\ \A k \in Keys : rows[c][k] < i
      BY DEF RefusedIsNotPassed
    <3>2. ClaimHolds(c)
      BY <1>3
    <3> QED
      BY <3>1, <3>2 DEF ClaimHolds, ClaimInv, Next1
  <2> QED
    BY <2>1, <2>2, <2>3 DEF IInv
<1>4. IInv => SessionsNeedProcess
  BY DEF IInv, ClaimsBelongToSessions, SessionsNeedProcess
<1> QED
  BY <1>2, <1>3, <1>4 DEF ClaimsHold

(* The same of the next state.                                             *)
LEMMA IInvByClaimNext ==
  (TypeOK => (IInv <=> SessionsNeedProcess /\ ClaimsHold))'
  BY IInvByClaim, PTL

(* The types of what a claim is made of.                                   *)
LEMMA ClaimTypes ==
  ASSUME TypeOK, NEW c \in Claims
  PROVE  /\ log[c] \in Seq(Records) /\ Len(log[c]) \in Nat
         /\ committed[c] \in Nat /\ marked[c] \in Nat
         /\ rows[c] \in [Keys -> Nat]
         /\ GroupOf[c] \in Groups
<1>1. log \in [Claims -> Seq(Records)]
  BY DEF TypeOK, Records
<1>2. log[c] \in Seq(Records)
  BY <1>1
<1>3. Len(log[c]) \in Nat
  BY <1>2, LenProperties
<1>4. committed[c] \in Nat /\ marked[c] \in Nat
  BY DEF TypeOK
<1>5. rows[c] \in [Keys -> Nat]
  BY DEF TypeOK
<1>6. GroupOf[c] \in Groups
  BY StorageIndexerAssumption
<1> QED
  BY <1>2, <1>3, <1>4, <1>5, <1>6

(* A claim none of whose state changes.                                    *)
LEMMA ClaimFrame ==
  ASSUME NEW c \in Claims, ClaimHolds(c),
         log'[c] = log[c], committed'[c] = committed[c], marked'[c] = marked[c],
         rows'[c] = rows[c], claim'[c] = claim[c],
         session'[GroupOf[c]] = session[GroupOf[c]]
  PROVE  ClaimHolds(c)'
  BY DEF ClaimHolds

(* Upsert, for the claim of the message.                                   *)
LEMMA UpsertFacts ==
  ASSUME TypeOK, NEW c \in Claims, ClaimHolds(c), session[GroupOf[c]] # "none",
         Next1(c) <= Len(log[c]), log[c][Next1(c)].storable
  PROVE  LET rows2 == Upsert(c, Next1(c)) IN
           /\ rows2 \in [Claims -> [Keys -> Nat]]
           /\ \A d \in Claims : d # c => rows2[d] = rows[d]
           /\ ClaimInv(log[c], committed[c], marked[c], rows2[c], "stored", session[GroupOf[c]])
<1> DEFINE r2 == Apply(rows[c], WritesOf(log[c]), marked[c] + 1)
<1>1. Upsert(c, Next1(c)) = [rows EXCEPT ![c] = r2]
  BY DEF Upsert, Next1, writes, WritesOf
<1>2. /\ ClaimInv(log[c], committed[c], marked[c], r2, "stored", session[GroupOf[c]])
      /\ r2 \in [Keys -> Nat]
  <2>1. marked[c] + 1 <= Len(log[c]) /\ log[c][marked[c] + 1].storable
    BY DEF Next1
  <2> QED
    BY <2>1, ClaimTypes, ClaimUpsert DEF ClaimHolds
<1>3. rows \in [Claims -> [Keys -> Nat]]
  BY DEF TypeOK
<1> HIDE DEF r2
<1> QED
  BY <1>1, <1>2, <1>3

-----------------------------------------------------------------------------
(* The initial states *)

(* The invariant holds before the process has started.                     *)
LEMMA InitIInv == Init => IInv
<1> SUFFICES ASSUME Init PROVE IInv
  OBVIOUS
<1>1. TypeOK
  BY StorageIndexerAssumption DEF Init, TypeOK, None
<1>2. SessionsNeedProcess
  BY DEF Init, SessionsNeedProcess
<1>3. ASSUME NEW c \in Claims PROVE ClaimHolds(c)
  <2>1. /\ log[c] = <<>> /\ committed[c] = 0 /\ marked[c] = 0 /\ claim[c] = "closed"
        /\ rows[c] = [k \in Keys |-> None] /\ session[GroupOf[c]] = "none"
    BY StorageIndexerAssumption DEF Init
  <2>2. Len(log[c]) = 0
    BY <2>1
  <2>3. ViewNotBehind(WritesOf(log[c]), rows[c], 0)
    BY <2>1, <2>2 DEF ViewNotBehind, NotBehind, ValueAfter, WritesOf
  <2> QED
    BY <2>1, <2>2, <2>3 DEF ClaimHolds, ClaimInv
<1> QED
  BY <1>1, <1>2, <1>3, IInvByClaim DEF ClaimsHold

-----------------------------------------------------------------------------
(* The actions *)

(* A record is published: the claim of its partition moves.                *)
LEMMA ProduceKeepsIInv ==
  ASSUME IInv, NEW c \in Claims, NEW k \in Keys, NEW s \in BOOLEAN, Produce(c, k, s)
  PROVE  IInv'
<1> DEFINE x == [key |-> k, storable |-> s]
<1>1. TypeOK /\ SessionsNeedProcess /\ \A d \in Claims : ClaimHolds(d)
  BY IInvByClaim DEF IInv, ClaimsHold
<1>2. log' = [log EXCEPT ![c] = Append(log[c], x)] /\ x \in Records
  BY DEF Produce, Records
<1>3. log \in [Claims -> Seq(Records)] /\ Append(log[c], x) \in Seq(Records)
  BY <1>1, <1>2, ClaimTypes, WritesGrow DEF TypeOK, Records
<1>4. TypeOK'
  <2>1. log' \in [Claims -> Seq(Records)]
    BY <1>2, <1>3
  <2> QED
    BY <1>1, <2>1 DEF TypeOK, Records, Produce, consumer
<1>5. ASSUME NEW d \in Claims PROVE ClaimHolds(d)'
  <2>1. CASE d = c
    <3>1. log'[c] = Append(log[c], x)
      BY <1>2, <1>3
    <3>2. ClaimInv(Append(log[c], x), committed[c], marked[c], rows[c], claim[c],
                   session[GroupOf[c]])
      BY <1>1, <1>2, ClaimTypes, ClaimPublish DEF ClaimHolds
    <3> QED
      BY <2>1, <3>1, <3>2 DEF ClaimHolds, Produce, consumer
  <2>2. CASE d # c
    <3>1. log'[d] = log[d]
      BY <1>2, <1>3, <2>2
    <3> QED
      BY <1>1, <3>1, ClaimFrame DEF Produce, consumer
  <2> QED
    BY <2>1, <2>2
<1>6. SessionsNeedProcess'
  BY <1>1 DEF SessionsNeedProcess, Produce, consumer
<1> QED
  BY <1>4, <1>5, <1>6, IInvByClaimNext DEF ClaimsHold

(* The database and the process before its sessions: no claim is concerned. *)
LEMMA NoClaimKeepsIInv ==
  ASSUME IInv, UNCHANGED <<log, committed, rows, consumer>>,
         dbUp' \in BOOLEAN, process' \in {"waiting", "running", "down"},
         attempts' \in 0..(MaxAttempts - 1), faults' \in Nat,
         process = "running" => process' = "running"
  PROVE  IInv'
<1>1. TypeOK /\ SessionsNeedProcess /\ \A d \in Claims : ClaimHolds(d)
  BY IInvByClaim DEF IInv, ClaimsHold
<1>2. TypeOK'
  BY <1>1 DEF TypeOK, consumer
<1>3. ASSUME NEW d \in Claims PROVE ClaimHolds(d)'
  BY <1>1, ClaimFrame DEF consumer
<1>4. SessionsNeedProcess'
  BY <1>1 DEF SessionsNeedProcess, consumer
<1> QED
  BY <1>2, <1>3, <1>4, IInvByClaimNext DEF ClaimsHold

(* The process ends: every claim is closed, every session over.            *)
LEMMA ExitKeepsIInv ==
  ASSUME IInv, Exit, UNCHANGED <<committed, marked>>, faults' \in Nat
  PROVE  IInv'
<1>1. TypeOK /\ \A d \in Claims : ClaimHolds(d)
  BY IInvByClaim DEF IInv, ClaimsHold
<1>2. TypeOK'
  <2>1. 0 \in 0..(MaxAttempts - 1)
    BY StorageIndexerAssumption
  <2>2. attempts' \in 0..(MaxAttempts - 1)
    BY <2>1 DEF Exit
  <2> QED
    BY <1>1, <2>2 DEF TypeOK, Exit
<1>3. ASSUME NEW d \in Claims PROVE ClaimHolds(d)'
  <2>1. ClaimInv(log[d], committed[d], marked[d], rows[d], "closed", "none")
    BY <1>1, ClaimTypes, ClaimClose DEF ClaimHolds
  <2>2. claim'[d] = "closed" /\ session'[GroupOf[d]] = "none"
    BY ClaimTypes, <1>1 DEF Exit
  <2> QED
    BY <2>1, <2>2 DEF ClaimHolds, Exit
<1>4. SessionsNeedProcess'
  BY DEF SessionsNeedProcess, Exit
<1> QED
  BY <1>2, <1>3, <1>4, IInvByClaimNext DEF ClaimsHold

(* A session starts all claims of its group.                               *)
LEMMA JoinKeepsIInv ==
  ASSUME IInv, NEW g \in Groups, Join(g)
  PROVE  IInv'
<1>1. TypeOK /\ SessionsNeedProcess /\ \A d \in Claims : ClaimHolds(d)
  BY IInvByClaim DEF IInv, ClaimsHold
<1>2. TypeOK'
  BY <1>1 DEF TypeOK, Join
<1>3. ASSUME NEW d \in Claims PROVE ClaimHolds(d)'
  <2>1. CASE GroupOf[d] = g
    <3>1. ClaimInv(log[d], committed[d], committed[d], rows[d], "open", "live")
      BY <1>1, ClaimTypes, ClaimJoin DEF ClaimHolds
    <3>2. /\ claim'[d] = "open" /\ marked'[d] = committed[d]
          /\ session'[GroupOf[d]] = "live"
      BY <1>1, <2>1 DEF Join, TypeOK
    <3> QED
      BY <3>1, <3>2 DEF ClaimHolds, Join
  <2>2. CASE GroupOf[d] # g
    <3>1. /\ claim'[d] = claim[d] /\ marked'[d] = marked[d]
          /\ session'[GroupOf[d]] = session[GroupOf[d]]
      BY <1>1, <2>2, ClaimTypes DEF Join, TypeOK
    <3> QED
      BY <1>1, <3>1, ClaimFrame DEF Join
  <2> QED
    BY <2>1, <2>2
<1>4. SessionsNeedProcess'
  BY <1>1 DEF SessionsNeedProcess, Join, TypeOK
<1> QED
  BY <1>2, <1>3, <1>4, IInvByClaimNext DEF ClaimsHold

(* A claim stores its next message.                                        *)
LEMMA StoreKeepsIInv ==
  ASSUME IInv, NEW c \in Claims, Store(c)
  PROVE  IInv'
<1>1. TypeOK /\ SessionsNeedProcess /\ \A d \in Claims : ClaimHolds(d)
  BY IInvByClaim DEF IInv, ClaimsHold
<1>2. /\ session[GroupOf[c]] # "none" /\ Next1(c) <= Len(log[c])
      /\ log[c][Next1(c)].storable /\ rows' = Upsert(c, Next1(c))
  BY DEF Store, Delivered
<1>3. /\ rows' \in [Claims -> [Keys -> Nat]]
      /\ \A d \in Claims : d # c => rows'[d] = rows[d]
      /\ ClaimInv(log[c], committed[c], marked[c], rows'[c], "stored", session[GroupOf[c]])
  BY <1>1, <1>2, UpsertFacts
<1>4. /\ claim' = [claim EXCEPT ![c] = "stored"]
      /\ claim \in [Claims -> {"closed", "open", "stored"}]
  BY <1>1 DEF Store, TypeOK
<1>5. TypeOK'
  BY <1>1, <1>3, <1>4 DEF TypeOK, Store
<1>6. ASSUME NEW d \in Claims PROVE ClaimHolds(d)'
  <2>1. CASE d = c
    BY <1>3, <1>4, <2>1 DEF ClaimHolds, Store
  <2>2. CASE d # c
    <3>1. claim'[d] = claim[d] /\ rows'[d] = rows[d]
      BY <1>3, <1>4, <2>2
    <3> QED
      BY <1>1, <3>1, ClaimFrame DEF Store
  <2> QED
    BY <2>1, <2>2
<1>7. SessionsNeedProcess'
  BY <1>1 DEF SessionsNeedProcess, Store
<1> QED
  BY <1>5, <1>6, <1>7, IInvByClaimNext DEF ClaimsHold

(* A claim marks the message it has stored.                                *)
LEMMA MarkKeepsIInv ==
  ASSUME IInv, NEW c \in Claims, Mark(c)
  PROVE  IInv'
<1>1. TypeOK /\ SessionsNeedProcess /\ \A d \in Claims : ClaimHolds(d)
  BY IInvByClaim DEF IInv, ClaimsHold
<1>2. /\ claim[c] = "stored"
      /\ claim' = [claim EXCEPT ![c] = "open"]
      /\ marked' = [marked EXCEPT ![c] = marked[c] + 1]
  BY DEF Mark, Next1
<1>3. claim \in [Claims -> {"closed", "open", "stored"}] /\ marked \in [Claims -> Nat]
  BY <1>1 DEF TypeOK
<1>4. TypeOK'
  <2>1. marked[c] + 1 \in Nat
    BY <1>3
  <2>2. marked' \in [Claims -> Nat] /\ claim' \in [Claims -> {"closed", "open", "stored"}]
    BY <1>2, <1>3, <2>1
  <2> QED
    BY <1>1, <2>2 DEF TypeOK, Mark
<1>5. ASSUME NEW d \in Claims PROVE ClaimHolds(d)'
  <2>1. CASE d = c
    <3>1. ClaimInv(log[c], committed[c], marked[c] + 1, rows[c], "open", session[GroupOf[c]])
      BY <1>1, <1>2, ClaimTypes, ClaimMark DEF ClaimHolds
    <3>2. claim'[c] = "open" /\ marked'[c] = marked[c] + 1
      BY <1>2, <1>3
    <3> QED
      BY <2>1, <3>1, <3>2 DEF ClaimHolds, Mark
  <2>2. CASE d # c
    <3>1. claim'[d] = claim[d] /\ marked'[d] = marked[d]
      BY <1>2, <1>3, <2>2
    <3> QED
      BY <1>1, <3>1, ClaimFrame DEF Mark
  <2> QED
    BY <2>1, <2>2
<1>6. SessionsNeedProcess'
  BY <1>1 DEF SessionsNeedProcess, Mark
<1> QED
  BY <1>4, <1>5, <1>6, IInvByClaimNext DEF ClaimsHold

(* A claim is closed, by an error or because its session is cancelled; the  *)
(* row of the message it was handed may have been written.                 *)
LEMMA CloseKeepsIInv ==
  ASSUME IInv, NEW c \in Claims, session[GroupOf[c]] # "none",
         \/ UNCHANGED rows
         \/ /\ Next1(c) <= Len(log[c]) /\ log[c][Next1(c)].storable
            /\ rows' = Upsert(c, Next1(c)),
         claim' = [claim EXCEPT ![c] = "closed"],
         \/ UNCHANGED session
         \/ session' = [session EXCEPT ![GroupOf[c]] = "ending"],
         faults' \in Nat,
         UNCHANGED <<log, committed, dbUp, process, attempts, marked>>
  PROVE  IInv'
<1>1. TypeOK /\ SessionsNeedProcess /\ \A d \in Claims : ClaimHolds(d)
  BY IInvByClaim DEF IInv, ClaimsHold
<1>2. /\ rows' \in [Claims -> [Keys -> Nat]]
      /\ \A d \in Claims : d # c => rows'[d] = rows[d]
      /\ \E cl \in {claim[c], "stored"} :
           ClaimInv(log[c], committed[c], marked[c], rows'[c], cl, session[GroupOf[c]])
  <2>1. CASE UNCHANGED rows
    BY <1>1, <2>1 DEF ClaimHolds, TypeOK
  <2>2. CASE /\ Next1(c) <= Len(log[c]) /\ log[c][Next1(c)].storable
             /\ rows' = Upsert(c, Next1(c))
    BY <1>1, <2>2, UpsertFacts
  <2> QED
    BY <2>1, <2>2
<1>3. /\ GroupOf[c] \in Groups
      /\ session \in [Groups -> {"none", "live", "ending"}]
      /\ claim \in [Claims -> {"closed", "open", "stored"}]
  BY <1>1, ClaimTypes DEF TypeOK
<1>4. /\ session' \in [Groups -> {"none", "live", "ending"}]
      /\ \A g \in Groups : session'[g] # "none" <=> session[g] # "none"
  BY <1>3
<1>5. claim' \in [Claims -> {"closed", "open", "stored"}]
  BY <1>3
<1>6. TypeOK'
  BY <1>1, <1>2, <1>4, <1>5 DEF TypeOK
<1>7. ASSUME NEW d \in Claims PROVE ClaimHolds(d)'
  <2>1. GroupOf[d] \in Groups
    BY <1>1, ClaimTypes
  <2>2. CASE d = c
    <3>1. PICK cl \in {claim[c], "stored"} :
            ClaimInv(log[c], committed[c], marked[c], rows'[c], cl, session[GroupOf[c]])
      BY <1>2
    <3>2. rows'[c] \in [Keys -> Nat]
      BY <1>2
    <3>3. ClaimInv(log[c], committed[c], marked[c], rows'[c], "closed", session'[GroupOf[c]])
      BY <1>1, <3>1, <3>2, ClaimTypes, ClaimClose
    <3>4. claim'[c] = "closed"
      BY <1>3
    <3> QED
      BY <2>2, <3>3, <3>4 DEF ClaimHolds
  <2>3. CASE d # c
    <3>1. claim'[d] = claim[d] /\ rows'[d] = rows[d]
      BY <1>2, <1>3, <2>3
    <3>2. CASE session'[GroupOf[d]] = session[GroupOf[d]]
      BY <1>1, <3>1, <3>2, ClaimFrame
    <3>3. CASE session'[GroupOf[d]] # session[GroupOf[d]]
      <4>1. session[GroupOf[d]] # "none" /\ session'[GroupOf[d]] # "none"
        BY <1>3, <2>1, <3>3
      <4>2. ClaimInv(log[d], committed[d], marked[d], rows[d], claim[d], session'[GroupOf[d]])
        BY <1>1, <4>1, ClaimTypes, ClaimCancel DEF ClaimHolds
      <4> QED
        BY <3>1, <4>2 DEF ClaimHolds
    <3> QED
      BY <3>2, <3>3
  <2> QED
    BY <2>2, <2>3
<1>8. SessionsNeedProcess'
  BY <1>1, <1>4 DEF SessionsNeedProcess
<1> QED
  BY <1>6, <1>7, <1>8, IInvByClaimNext DEF ClaimsHold

(* The session of a group is cancelled.                                    *)
LEMMA RebalanceKeepsIInv ==
  ASSUME IInv, NEW g \in Groups, Rebalance(g)
  PROVE  IInv'
<1>1. TypeOK /\ SessionsNeedProcess /\ \A d \in Claims : ClaimHolds(d)
  BY IInvByClaim DEF IInv, ClaimsHold
<1>2. session \in [Groups -> {"none", "live", "ending"}] /\ faults \in Nat
  BY <1>1 DEF TypeOK
<1>3. TypeOK'
  <2>1. faults' \in Nat /\ session' \in [Groups -> {"none", "live", "ending"}]
    BY <1>2 DEF Rebalance, Fault
  <2> QED
    BY <1>1, <2>1 DEF TypeOK, Rebalance
<1>4. ASSUME NEW d \in Claims PROVE ClaimHolds(d)'
  <2>1. CASE GroupOf[d] = g
    <3>1. session[GroupOf[d]] # "none" /\ session'[GroupOf[d]] = "ending"
      BY <1>2, <2>1 DEF Rebalance
    <3>2. ClaimInv(log[d], committed[d], marked[d], rows[d], claim[d], "ending")
      BY <1>1, <3>1, ClaimTypes, ClaimCancel DEF ClaimHolds
    <3> QED
      BY <3>1, <3>2 DEF ClaimHolds, Rebalance
  <2>2. CASE GroupOf[d] # g
    <3>1. session'[GroupOf[d]] = session[GroupOf[d]]
      BY <1>1, <1>2, <2>2, ClaimTypes DEF Rebalance
    <3> QED
      BY <1>1, <3>1, ClaimFrame DEF Rebalance
  <2> QED
    BY <2>1, <2>2
<1>5. SessionsNeedProcess'
  BY <1>1, <1>2 DEF SessionsNeedProcess, Rebalance
<1> QED
  BY <1>3, <1>4, <1>5, IInvByClaimNext DEF ClaimsHold

(* What a session marked is committed; the session may be over with it.    *)
LEMMA FlushKeepsIInv ==
  ASSUME IInv, NEW g \in Groups, session[g] # "none", Flush(g),
         \/ UNCHANGED session
         \/ /\ session' = [session EXCEPT ![g] = "none"]
            /\ \A c \in ClaimsOf(g) : claim[c] = "closed",
         UNCHANGED <<log, rows, dbUp, process, attempts, claim, marked, faults>>
  PROVE  IInv'
<1>1. TypeOK /\ SessionsNeedProcess /\ \A d \in Claims : ClaimHolds(d)
  BY IInvByClaim DEF IInv, ClaimsHold
<1>2. session \in [Groups -> {"none", "live", "ending"}]
  BY <1>1 DEF TypeOK
<1>3. TypeOK'
  <2>1. committed' \in [Claims -> Nat]
    BY <1>1 DEF TypeOK, Flush
  <2>2. session' \in [Groups -> {"none", "live", "ending"}]
    BY <1>2
  <2> QED
    BY <1>1, <2>1, <2>2 DEF TypeOK
<1>4. ASSUME NEW d \in Claims PROVE ClaimHolds(d)'
  <2>1. CASE GroupOf[d] = g
    <3>1. ClaimInv(log[d], marked[d], marked[d], rows[d], claim[d], session[g])
      BY <1>1, <2>1, ClaimTypes, ClaimFlush DEF ClaimHolds
    <3>2. committed'[d] = marked[d]
      BY <2>1 DEF Flush
    <3>3. CASE UNCHANGED session
      BY <2>1, <3>1, <3>2, <3>3 DEF ClaimHolds
    <3>4. CASE /\ session' = [session EXCEPT ![g] = "none"]
               /\ \A c \in ClaimsOf(g) : claim[c] = "closed"
      <4>1. claim[d] = "closed" /\ session'[g] = "none"
        BY <1>2, <2>1, <3>4 DEF ClaimsOf
      <4>2. ClaimInv(log[d], marked[d], marked[d], rows[d], "closed", "none")
        BY <1>1, <3>1, ClaimTypes, ClaimClose
      <4> QED
        BY <2>1, <3>2, <4>1, <4>2 DEF ClaimHolds
    <3> QED
      BY <3>3, <3>4
  <2>2. CASE GroupOf[d] # g
    <3>1. /\ session'[GroupOf[d]] = session[GroupOf[d]]
          /\ committed'[d] = committed[d]
      BY <1>1, <1>2, <2>2, ClaimTypes DEF Flush
    <3> QED
      BY <1>1, <3>1, ClaimFrame
  <2> QED
    BY <2>1, <2>2
<1>5. SessionsNeedProcess'
  BY <1>1, <1>2 DEF SessionsNeedProcess
<1> QED
  BY <1>3, <1>4, <1>5, IInvByClaimNext DEF ClaimsHold

-----------------------------------------------------------------------------
(* The theorems *)

(* Every step of the indexer and of its environment keeps the invariant.   *)
LEMMA NextKeepsIInv ==
  ASSUME IInv, [Next]_vars
  PROVE  IInv'
<1>1. TypeOK
  BY DEF IInv
<1>2. /\ dbUp \in BOOLEAN /\ process \in {"waiting", "running", "down"}
      /\ attempts \in Nat /\ attempts \in 0..(MaxAttempts - 1) /\ faults \in Nat
      /\ MaxAttempts \in Nat
  BY <1>1, StorageIndexerAssumption DEF TypeOK
<1>3. ASSUME NEW c \in Claims, NEW k \in Keys, NEW s \in BOOLEAN, Produce(c, k, s)
      PROVE  IInv'
  BY <1>3, ProduceKeepsIInv
<1>4. CASE DatabaseFails
  <2>1. /\ UNCHANGED <<log, committed, rows, consumer>>
        /\ process' = process /\ attempts' = attempts
    BY <1>4 DEF DatabaseFails, consumer
  <2>2. dbUp' = FALSE /\ faults' = faults + 1
    BY <1>4 DEF DatabaseFails, Fault
  <2>3. faults' \in Nat
    BY <1>2, <2>2
  <2> QED
    BY <1>2, <2>1, <2>2, <2>3, NoClaimKeepsIInv
<1>5. CASE ProcessDies
  <2>1. Exit /\ UNCHANGED <<committed, marked>> /\ faults' \in Nat
    BY <1>2, <1>5 DEF ProcessDies, Fault
  <2> QED
    BY <2>1, ExitKeepsIInv
<1>6. ASSUME NEW c \in Claims, StoreBroken(c) PROVE IInv'
  <2>1. /\ session[GroupOf[c]] # "none"
        /\ Next1(c) <= Len(log[c]) /\ log[c][Next1(c)].storable
        /\ UNCHANGED rows \/ rows' = Upsert(c, Next1(c))
    BY <1>6 DEF StoreBroken, Delivered
  <2>2. faults' \in Nat
    BY <1>2, <1>6 DEF StoreBroken, Fault
  <2>3. /\ claim' = [claim EXCEPT ![c] = "closed"]
        /\ session' = [session EXCEPT ![GroupOf[c]] = "ending"]
        /\ UNCHANGED <<log, committed, dbUp, process, attempts, marked>>
    BY <1>6 DEF StoreBroken, ClaimFails
  <2> QED
    BY <2>1, <2>2, <2>3, CloseKeepsIInv
<1>7. ASSUME NEW g \in Groups, Rebalance(g) PROVE IInv'
  BY <1>7, RebalanceKeepsIInv
<1>8. CASE DatabaseRecovers \/ Restart \/ DatabaseReady \/ PingFails
  <2>1. /\ UNCHANGED <<log, committed, rows, consumer>>
        /\ dbUp' \in BOOLEAN /\ faults' \in Nat
        /\ process' \in {"waiting", "running", "down"}
        /\ process = "running" => process' = "running"
    BY <1>2, <1>8 DEF DatabaseRecovers, Restart, DatabaseReady, PingFails
  <2>2. attempts' \in 0..(MaxAttempts - 1)
    BY <1>2, <1>8 DEF DatabaseRecovers, Restart, DatabaseReady, PingFails
  <2> QED
    BY <2>1, <2>2, NoClaimKeepsIInv
<1>9. CASE DatabaseNotReady
  BY <1>2, <1>9, ExitKeepsIInv DEF DatabaseNotReady
<1>10. ASSUME NEW g \in Groups, Join(g) PROVE IInv'
  BY <1>10, JoinKeepsIInv
<1>11. ASSUME NEW g \in Groups, AutoCommit(g) PROVE IInv'
  BY <1>11, FlushKeepsIInv DEF AutoCommit, consumer
<1>12. ASSUME NEW g \in Groups, Release(g) PROVE IInv'
  BY <1>12, FlushKeepsIInv DEF Release
<1>13. ASSUME NEW c \in Claims, Store(c) PROVE IInv'
  BY <1>13, StoreKeepsIInv
<1>14. ASSUME NEW c \in Claims, Mark(c) PROVE IInv'
  BY <1>14, MarkKeepsIInv
<1>15. ASSUME NEW c \in Claims, StoreFails(c) PROVE IInv'
  BY <1>2, <1>15, CloseKeepsIInv DEF StoreFails, Delivered, NoFault, ClaimFails
<1>16. ASSUME NEW c \in Claims, ClaimEnds(c) PROVE IInv'
  BY <1>2, <1>16, CloseKeepsIInv DEF ClaimEnds
<1>17. CASE Rest \/ UNCHANGED vars
  <2>1. UNCHANGED <<log, committed, rows, consumer, dbUp, process, attempts, faults>>
    BY <1>17 DEF Rest, vars
  <2> QED
    BY <1>2, <2>1, NoClaimKeepsIInv
<1> QED
  BY <1>3, <1>4, <1>5, <1>6, <1>7, <1>8, <1>9, <1>10, <1>11, <1>12, <1>13,
     <1>14, <1>15, <1>16, <1>17 DEF Next, Environment

(* Every reachable state satisfies the inductive invariant: whatever fails, *)
(* what the indexer committed or may commit is in PostgreSQL.              *)
THEOREM Invariance == Spec => []IInv
  BY InitIInv, NextKeepsIInv, PTL DEF Spec

(* Every variable keeps its type.                                          *)
THEOREM TypeCorrect == Spec => []TypeOK
<1>1. IInv => TypeOK
  BY DEF IInv
<1> QED
  BY <1>1, Invariance, PTL

(* No record is ever stored, marked or committed behind one that storeProduct *)
(* or storeRecommendation refuses.                                         *)
THEOREM RefusedNotPassed == Spec => []RefusedIsNotPassed
<1>1. IInv => RefusedIsNotPassed
  BY DEF IInv
<1> QED
  BY <1>1, Invariance, PTL

(* Every partition and its rows implement the promise of a keyed view: the  *)
(* rows are never behind the committed offset.                             *)
THEOREM RowsImplementKeyedViews == Spec => RowsAreKeyedViews
<1>1. Init => \A c \in Claims : RowsView(c)!Init
  <2> SUFFICES ASSUME Init, NEW c \in Claims PROVE RowsView(c)!Init
    OBVIOUS
  <2>1. log[c] = <<>> /\ Len(log[c]) = 0
    BY DEF Init
  <2>2. writes(c) = <<>>
    BY <2>1 DEF writes
  <2> QED
    BY <2>2 DEF Init, RowsView!Init, RowsView!None, None
<1>2. ASSUME IInv, IInv', [Next]_vars, NEW c \in Claims
      PROVE  RowsView(c)!Next \/ UNCHANGED RowsView(c)!vars
  <2>1. /\ log \in [Claims -> Seq(Records)] /\ log[c] \in Seq(Records)
        /\ Len(log[c]) \in Nat /\ committed[c] \in Nat
    BY <1>2, ClaimTypes DEF IInv, TypeOK, Records
  <2>2. /\ committed'[c] \in Nat /\ rows'[c] \in [Keys -> Nat]
        /\ committed'[c] <= Len(log'[c])
        /\ ViewNotBehind(writes(c)', rows'[c], committed'[c])
    BY <1>2 DEF IInv, TypeOK, OffsetsOrdered, MarkedIsStored
  <2>3. writes(c) = WritesOf(log[c]) /\ writes(c)' = WritesOf(log'[c])
    BY DEF writes, WritesOf
  <2>4. ASSUME NEW k \in Keys, NEW s \in BOOLEAN, Produce(c, k, s)
        PROVE  RowsView(c)!AppendRecord
    <3> DEFINE x == [key |-> k, storable |-> s]
    <3>1. log'[c] = Append(log[c], x) /\ x \in Records
      BY <2>1, <2>4 DEF Produce, Records
    <3>2. /\ writes(c)' = Append(writes(c), [key |-> k, val |-> Len(log[c]) + 1])
          /\ Len(writes(c)) = Len(log[c])
      BY <2>1, <2>3, <3>1, WritesGrow, WritesFacts
    <3> QED
      BY <2>4, <3>2 DEF RowsView!AppendRecord, RowsView!None, None, Produce
  <2>5. ASSUME log'[c] = log[c], committed[c] <= committed'[c]
        PROVE  RowsView(c)!Consume
    <3>1. writes(c)' = writes(c) /\ Len(writes(c)) = Len(log[c])
      BY <2>1, <2>3, <2>5, WritesFacts
    <3>2. committed'[c] \in committed[c]..Len(writes(c))
      BY <2>1, <2>2, <2>5, <3>1
    <3> DEFINE n == committed'[c]
               X == RowsView(c)!Excused(n)
    <3>3. ViewNotBehindBut(writes(c), rows'[c], n, X)
      <4>1. ViewNotBehind(writes(c), rows'[c], n) /\ n \in Nat
        BY <2>2, <3>1
      <4> HIDE DEF n, X
      <4> QED
        BY <4>1 DEF ViewNotBehindBut, NotBehindBut, ViewNotBehind, NotBehind
    <3>4. DOMAIN rows'[c] = Keys
      BY <2>2
    <3> QED
      BY <3>1, <3>2, <3>3, <3>4
         DEF RowsView!Consume, RowsView!ViewNotBehindBut, RowsView!NotBehindBut,
             RowsView!ValueAfter, RowsView!None,
             ViewNotBehindBut, NotBehindBut, ValueAfter, None
  <2>6. \/ \E k \in Keys, s \in BOOLEAN : Produce(c, k, s)
        \/ log'[c] = log[c] /\ committed[c] <= committed'[c]
    <3>1. \A g \in Groups : session[g] # "none" /\ Flush(g) => committed[c] <= committed'[c]
      BY <1>2, <2>1 DEF IInv, OffsetsOrdered, Flush
    <3>2. committed[c] <= committed[c]
      BY <2>1
    <3>3. \A d \in Claims, k \in Keys, s \in BOOLEAN :
            Produce(d, k, s) /\ d # c => log'[c] = log[c] /\ committed' = committed
      BY <2>1 DEF Produce
    <3>4. CASE \E g \in Groups : AutoCommit(g) \/ Release(g)
      BY <3>1, <3>4 DEF AutoCommit, Release
    <3>5. CASE \E d \in Claims, k \in Keys, s \in BOOLEAN : Produce(d, k, s)
      BY <3>2, <3>3, <3>5
    <3>6. CASE UNCHANGED <<log, committed>>
      BY <3>2, <3>6
    <3> QED
      BY <1>2, <3>4, <3>5, <3>6
         DEF Next, Environment, DatabaseFails, DatabaseRecovers, Exit, Restart, DatabaseReady,
             PingFails, DatabaseNotReady, ProcessDies, Join, Store, Mark, ClaimFails,
             StoreFails, StoreBroken, ClaimEnds, Rebalance, Rest, vars
  <2> QED
    BY <2>4, <2>5, <2>6 DEF RowsView!Next
<1>3. IInv /\ IInv' /\ [Next]_vars =>
        [\A c \in Claims : RowsView(c)!Next \/ UNCHANGED RowsView(c)!vars]_vars
  BY <1>2
<1> QED
  BY <1>1, <1>3, Invariance, PTL DEF Spec, RowsAreKeyedViews
=============================================================================
