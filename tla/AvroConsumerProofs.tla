------------------------- MODULE AvroConsumerProofs -------------------------
(***************************************************************************)
(* Proofs about AvroConsumer, for any number of partitions, records, runs  *)
(* and faults, any schemas and ids and whatever other producers send.      *)
(*                                                                         *)
(* First the wire format: what Encode frames, Decode reads back.  Then the *)
(* count of a run: every commit moves one offset by one.  Then the steps   *)
(* of the program, one lemma for each group of steps that disturb the same *)
(* part of the invariant: other programs, the exits, the loop, a record.   *)
(***************************************************************************)
EXTENDS AvroConsumer, FiniteSetTheorems, SequenceTheorems, TLAPS

-----------------------------------------------------------------------------
(* The wire format *)

(* The four bytes of an id of 32 bits, put together again, are the id.     *)
LEMMA BytesOfId ==
  ASSUME NEW n \in Nat, n <= 2147483647
  PROVE  ((n \div 16777216) % 256) * 16777216 + ((n \div 65536) % 256) * 65536
           + ((n \div 256) % 256) * 256 + (n % 256) = n
  BY SMT

(* A frame, byte by byte.                                                  *)
LEMMA FrameLayout ==
  ASSUME NEW n \in Nat, NEW s \in Nat, NEW e, e = Encode(n, <<s>>)
  PROVE  /\ e \in Seq(Nat) /\ Len(e) = 6 /\ e[1] = 0
         /\ e[2] = ((n \div 16777216) % 256) /\ e[3] = ((n \div 65536) % 256)
         /\ e[4] = ((n \div 256) % 256) /\ e[5] = (n % 256) /\ e[6] = s
<1> DEFINE z == <<0>>
           id == BigEndian(n)
           body == <<s>>
<1>1. /\ ((n \div 16777216) % 256) \in Nat /\ ((n \div 65536) % 256) \in Nat
      /\ ((n \div 256) % 256) \in Nat /\ (n % 256) \in Nat
  BY SMT
<1>2. z \in Seq(Nat) /\ body \in Seq(Nat)
  BY SMT
<1>3. Len(z) = 1 /\ z[1] = 0 /\ Len(body) = 1 /\ body[1] = s
  BY SMT
<1>4. id \in Seq(Nat)
  BY SMT, <1>1 DEF BigEndian
<1>5. /\ Len(id) = 4
      /\ id[1] = ((n \div 16777216) % 256) /\ id[2] = ((n \div 65536) % 256)
      /\ id[3] = ((n \div 256) % 256) /\ id[4] = (n % 256)
  BY SMT, <1>1 DEF BigEndian
<1>6. Encode(n, <<s>>) = z \o id \o body
  BY SMT DEF Encode
<1> HIDE DEF z, id, body
<1> DEFINE head == z \o id
<1>7. /\ head \in Seq(Nat)
      /\ Len(head) = Len(z) + Len(id)
      /\ \A i \in 1..(Len(z) + Len(id)) : head[i] = IF i <= Len(z) THEN z[i] ELSE id[i - Len(z)]
  BY <1>2, <1>4, ConcatProperties
<1>8. head \in Seq(Nat)
  BY <1>7
<1> HIDE DEF head
<1> DEFINE frame == head \o body
<1>9. /\ frame \in Seq(Nat)
      /\ Len(frame) = Len(head) + Len(body)
      /\ \A i \in 1..(Len(head) + Len(body)) :
           frame[i] = IF i <= Len(head) THEN head[i] ELSE body[i - Len(head)]
  BY <1>2, <1>8, ConcatProperties
<1>10. e = frame
  BY <1>6, SMT DEF head
<1> HIDE DEF frame
<1>11. Len(head) = 5
  BY <1>3, <1>5, <1>7, SMT
<1>12. /\ head[1] = z[1] /\ head[2] = id[1] /\ head[3] = id[2]
       /\ head[4] = id[3] /\ head[5] = id[4]
  <2>1. \A i \in 1..5 : head[i] = IF i <= 1 THEN z[i] ELSE id[i - 1]
    BY <1>3, <1>5, <1>7, SMT
  <2> QED
    BY <2>1, SMT
<1>13. /\ Len(frame) = 6
       /\ \A i \in 1..6 : frame[i] = IF i <= 5 THEN head[i] ELSE body[i - 5]
  BY <1>3, <1>9, <1>11, SMT
<1>14. /\ frame[1] = head[1] /\ frame[2] = head[2] /\ frame[3] = head[3]
       /\ frame[4] = head[4] /\ frame[5] = head[5] /\ frame[6] = body[1]
  BY <1>13, SMT
<1> QED
  BY <1>3, <1>5, <1>9, <1>10, <1>12, <1>13, <1>14, SMT

(* One element of a sequence, cut out.                                     *)
LEMMA SubSeqOfByte ==
  ASSUME NEW e, NEW k \in Nat, e[k] \in Nat
  PROVE  /\ SubSeq(e, k, k) \in Seq(Nat)
         /\ Len(SubSeq(e, k, k)) = 1
         /\ SubSeq(e, k, k)[1] = e[k]
<1>1. k \in Int /\ \A j \in k..k : e[j] \in Nat
  OBVIOUS
<1>2. /\ SubSeq(e, k, k) \in Seq(Nat)
      /\ Len(SubSeq(e, k, k)) = IF k <= k THEN k - k + 1 ELSE 0
      /\ \A i \in 1..(k - k + 1) : SubSeq(e, k, k)[i] = e[k + i - 1]
  BY <1>1, SubSeqProperties
<1> QED
  BY <1>2

(* What a producer frames with an id of the registry, the consumer accepts, *)
(* asks the registry for that id, and decodes with that schema.            *)
THEOREM FramingRoundTrip ==
  ASSUME NEW i \in Ids, NEW s \in Nat
  PROVE  /\ Encode(i, <<s>>) \in Seq(Nat)
         /\ Framed(Encode(i, <<s>>))
         /\ SchemaID(Encode(i, <<s>>)) = i
         /\ Decodes(s, Encode(i, <<s>>))
<1> DEFINE e == Encode(i, <<s>>)
<1>1. i \in Nat
  BY SMT, AvroConsumerAssumption
<1>2. i <= 2147483647
  BY SMT, IdsAssumption
<1>3. /\ e \in Seq(Nat) /\ Len(e) = 6 /\ e[1] = 0
      /\ e[2] = ((i \div 16777216) % 256) /\ e[3] = ((i \div 65536) % 256)
      /\ e[4] = ((i \div 256) % 256) /\ e[5] = (i % 256) /\ e[6] = s
  BY <1>1, FrameLayout, SMT
<1> HIDE DEF e
<1>4. Framed(e)
  BY <1>3, SMT DEF Framed, FramingSize
<1>5. SchemaID(e) = i
  BY <1>1, <1>2, <1>3, BytesOfId, SMT DEF SchemaID
<1>6. SubSeq(e, 6, 6) = <<s>>
  <2>1. e[6] \in Nat
    BY <1>3, SMT
  <2>2. /\ SubSeq(e, 6, 6) \in Seq(Nat)
        /\ Len(SubSeq(e, 6, 6)) = 1
        /\ SubSeq(e, 6, 6)[1] = s
    <3>1. e[6] = s
      BY <1>3, SMT
    <3> QED
      BY <2>1, <3>1, SubSeqOfByte
  <2>3. <<s>> \in Seq(Nat) /\ Len(<<s>>) = 1 /\ <<s>>[1] = s
    BY SMT
  <2> QED
    <3>1. \A j \in 1..Len(SubSeq(e, 6, 6)) : SubSeq(e, 6, 6)[j] = <<s>>[j]
      BY <2>2, <2>3, SMT
    <3> QED
      BY <2>2, <2>3, <3>1, SeqEqual
<1>7. Decodes(s, e)
  BY <1>3, <1>4, <1>6, SMT DEF Decodes, FramingSize
<1> QED
  BY <1>3, <1>4, <1>5, <1>7, SMT DEF e

-----------------------------------------------------------------------------
(* The count of a run *)

(* What the types say, piece by piece.                                     *)
LEMMA TypeFacts ==
  ASSUME TypeOK
  PROVE  /\ \A p \in Partitions : log[p] \in Seq(Seq(Nat))
         /\ \A p \in Partitions : Len(log[p]) \in Nat /\ Len(log[p]) <= MaxLog
         /\ \A p \in Partitions : committed[p] \in Nat /\ begin[p] \in Nat
         /\ \A p \in Partitions : position[p] \in Nat /\ cursor[p] \in Nat
         /\ current \in Partitions /\ read \in Nat /\ limit \in Nat /\ MaxLog \in Nat
<1>1. \A p \in Partitions : Len(log[p]) \in Nat
  BY LenProperties DEF TypeOK
<1> QED
  BY <1>1, AvroConsumerAssumption DEF TypeOK

(* The counters of the model are numbers.                                  *)
LEMMA CounterFacts ==
  ASSUME TypeOK
  PROVE  faults \in Nat /\ runs \in Nat
  BY DEF TypeOK

LEMMA CountIsFinite == IsFiniteSet(CommittedInRun) /\ Cardinality(CommittedInRun) \in Nat
<1>1. IsFiniteSet(1..MaxLog)
  BY FS_Interval, AvroConsumerAssumption
<1>2. IsFiniteSet(Partitions \X (1..MaxLog))
  BY <1>1, FS_Product, AvroConsumerAssumption
<1>3. CommittedInRun \in SUBSET (Partitions \X (1..MaxLog))
  BY DEF CommittedInRun
<1>4. IsFiniteSet(CommittedInRun)
  BY <1>2, <1>3, FS_Subset
<1> QED
  BY <1>4, FS_CardinalityType

(* A commit moves the offset of one partition by one.                      *)
LEMMA CommitCounts ==
  ASSUME IInv, stage = "committing", committed' = Advanced(committed), UNCHANGED begin
  PROVE  Cardinality(CommittedInRun') = Cardinality(CommittedInRun) + 1
<1> DEFINE c == cursor[current]
           x == <<current, c + 1>>
<1>1. TypeOK /\ OffsetsOrdered /\ CommittingIsHandled
  BY DEF IInv
<1>2. /\ current \in Partitions /\ c \in Nat /\ committed[current] = c
      /\ begin[current] <= c /\ c + 1 \in 1..MaxLog
  <2>1. /\ committed[current] = c /\ begin[current] <= committed[current]
        /\ c < position[current] /\ position[current] <= Len(log[current])
    BY <1>1, TypeFacts DEF OffsetsOrdered, CommittingIsHandled
  <2> QED
    BY <1>1, <2>1, TypeFacts
<1>3. \A p \in Partitions : committed'[p] = IF p = current THEN c + 1 ELSE committed[p]
  BY <1>1 DEF Advanced, TypeOK
<1>4. CommittedInRun' = CommittedInRun \cup {x}
  <2>1. \A y \in Partitions \X (1..MaxLog) :
          begin[y[1]] < y[2] /\ y[2] <= committed'[y[1]]
            <=> (begin[y[1]] < y[2] /\ y[2] <= committed[y[1]]) \/ y = x
    BY <1>1, <1>2, <1>3, TypeFacts
  <2>2. x \in Partitions \X (1..MaxLog)
    BY <1>2
  <2>3. CommittedInRun' =
          {y \in Partitions \X (1..MaxLog) : begin[y[1]] < y[2] /\ y[2] <= committed'[y[1]]}
    BY DEF CommittedInRun
  <2> QED
    BY <2>1, <2>2, <2>3 DEF CommittedInRun
<1>5. x \notin CommittedInRun
  BY <1>2 DEF CommittedInRun
<1> QED
  BY <1>4, <1>5, CountIsFinite, FS_AddElement

(* Nothing is committed in a run that begins.                              *)
LEMMA StartCounts ==
  ASSUME TypeOK, committed' = committed, begin' = committed
  PROVE  Cardinality(CommittedInRun') = 0
<1>1. CommittedInRun' = {}
  BY TypeFacts DEF CommittedInRun
<1> QED
  BY <1>1, FS_EmptySet

-----------------------------------------------------------------------------
(* Other programs *)

(* As long as the bound allows another record, no partition is at it.      *)
LEMMA RoomInLog ==
  ASSUME TypeOK, Cardinality(Published) < MaxLog, NEW p \in Partitions
  PROVE  Len(log[p]) < MaxLog
<1>1. Len(log[p]) \in Nat /\ Len(log[p]) <= MaxLog /\ MaxLog \in Nat
  BY TypeFacts
<1> SUFFICES ASSUME Len(log[p]) = MaxLog PROVE FALSE
  BY <1>1
<1> DEFINE S == {p} \X (1..MaxLog)
<1>2. IsFiniteSet(1..MaxLog) /\ Cardinality(1..MaxLog) = MaxLog
  BY <1>1, FS_Interval
<1>3. IsFiniteSet({p}) /\ Cardinality({p}) = 1
  BY FS_Singleton
<1>4. Cardinality(S) = MaxLog
  <2>1. Cardinality(S) = Cardinality({p}) * Cardinality(1..MaxLog)
    BY <1>2, <1>3, FS_Product
  <2> QED
    BY <2>1, <1>1, <1>2, <1>3
<1>5. Published \in SUBSET (Partitions \X (1..MaxLog))
  BY DEF Published
<1>6. IsFiniteSet(Published)
  BY <1>2, <1>5, FS_Product, FS_Subset, AvroConsumerAssumption
<1>7. S \in SUBSET Published
  BY DEF Published
<1>8. Cardinality(S) <= Cardinality(Published) /\ Cardinality(Published) \in Nat
  BY <1>6, <1>7, FS_Subset, FS_CardinalityType
<1> QED
  BY <1>1, <1>4, <1>8

LEMMA SchemasAreNumbers == Schemas \cup {0} \subseteq Nat
<1>1. Schemas \subseteq Nat \ {0}
  BY AvroConsumerAssumption
<1> QED
  BY <1>1

(* A record is published: by a producer that has registered its schema, or  *)
(* by one that does not use this format.                                   *)
LEMMA SendKeepsInvariant ==
  ASSUME IInv, NEW p \in Partitions, NEW payload, Send(p, payload),
         payload \in Foreign
           \/ \E i \in Ids : registry[i] # 0 /\ payload = Encode(i, <<registry[i]>>)
  PROVE  IInv'
<1>1. /\ TypeOK /\ OffsetsOrdered /\ CommittedIsHandled /\ HandledIsAtHand
      /\ CommittingIsHandled /\ ReadIsCounted /\ TickIsFresh /\ FramedIsRegistered
      /\ RunIsOn /\ ExitsAreEarned
  BY DEF IInv
<1>2. payload \in Seq(Nat)
  <2>1. ASSUME NEW i \in Ids, payload = Encode(i, <<registry[i]>>)
        PROVE  payload \in Seq(Nat)
    <3>1. registry[i] \in Schemas \cup {0}
      BY <1>1 DEF TypeOK
    <3>2. registry[i] \in Nat
      BY <3>1, SchemasAreNumbers
    <3> QED
      BY <2>1, <3>2, FramingRoundTrip
  <2> QED
    BY <2>1, AvroConsumerAssumption
<1>3. /\ Append(log[p], payload) \in Seq(Seq(Nat))
      /\ Len(Append(log[p], payload)) = Len(log[p]) + 1
      /\ \A k \in 1..Len(log[p]) : Append(log[p], payload)[k] = log[p][k]
      /\ Append(log[p], payload)[Len(log[p]) + 1] = payload
  BY <1>1, <1>2, TypeFacts, AppendProperties
<1>4. Len(log[p]) < MaxLog
  BY <1>1, RoomInLog DEF Send
<1>5. log' = [log EXCEPT ![p] = Append(@, payload)]
  BY DEF Send
<1>6. /\ log' \in [Partitions -> Seq(Seq(Nat))]
      /\ \A q \in Partitions : Len(log'[q]) \in Nat /\ Len(log'[q]) <= MaxLog
      /\ \A q \in Partitions : Len(log[q]) <= Len(log'[q])
      /\ \A q \in Partitions : \A k \in 1..Len(log[q]) : log'[q][k] = log[q][k]
      /\ \A q \in Partitions : \A k \in 1..Len(log'[q]) :
           k \in 1..Len(log[q]) \/ log'[q][k] = payload
  <2>1. log'[p] = Append(log[p], payload) /\ \A q \in Partitions : q # p => log'[q] = log[q]
    BY <1>1, <1>5 DEF TypeOK
  <2>2. log' \in [Partitions -> Seq(Seq(Nat))]
    BY <1>1, <1>3, <1>5 DEF TypeOK
  <2>3. \A q \in Partitions : Len(log[q]) \in Nat /\ Len(log[q]) <= MaxLog /\ MaxLog \in Nat
    BY <1>1, TypeFacts
  <2>4. ASSUME NEW q \in Partitions, q = p
        PROVE  /\ Len(log'[q]) = Len(log[q]) + 1
               /\ \A k \in 1..Len(log[q]) : log'[q][k] = log[q][k]
               /\ \A k \in 1..Len(log'[q]) : k \in 1..Len(log[q]) \/ log'[q][k] = payload
    <3>1. log'[q] = Append(log[p], payload)
      BY <2>1, <2>4
    <3>2. \A k \in 1..(Len(log[p]) + 1) : k \in 1..Len(log[p]) \/ k = Len(log[p]) + 1
      BY <2>3
    <3> QED
      BY <1>3, <2>4, <3>1, <3>2
  <2>5. \A q \in Partitions : Len(log'[q]) = Len(log[q]) \/ (q = p /\ Len(log'[q]) = Len(log[q]) + 1)
    BY <2>1, <2>4
  <2>6. /\ \A q \in Partitions : Len(log'[q]) \in Nat /\ Len(log'[q]) <= MaxLog
        /\ \A q \in Partitions : Len(log[q]) <= Len(log'[q])
    BY <1>4, <2>3, <2>5
  <2>7. /\ \A q \in Partitions : \A k \in 1..Len(log[q]) : log'[q][k] = log[q][k]
        /\ \A q \in Partitions : \A k \in 1..Len(log'[q]) :
             k \in 1..Len(log[q]) \/ log'[q][k] = payload
    BY <2>1, <2>4
  <2> QED
    BY <2>2, <2>6, <2>7
<1>7. UNCHANGED <<registry, committed, stage, exit, run, read, fetch, processed, clock,
                  cancelled, handled, bounds>>
  BY DEF Send
<1>8. TypeOK'
  BY <1>1, <1>6, <1>7 DEF TypeOK, run, fetch, clock, bounds
<1>9. OffsetsOrdered'
  <2>1. \A n \in Nat : \A q \in Partitions : n <= Len(log[q]) => n <= Len(log'[q])
    BY <1>1, <1>6, TypeFacts
  <2> QED
    BY <1>1, <1>7, <2>1, TypeFacts DEF OffsetsOrdered, run, fetch
<1>10. /\ CommittedIsHandled' /\ HandledIsAtHand' /\ CommittingIsHandled'
       /\ ReadIsCounted' /\ TickIsFresh' /\ RunIsOn'
  BY <1>1, <1>7
     DEF CommittedIsHandled, HandledIsAtHand, CommittingIsHandled, CapReached, ReadIsCounted,
         CommittedInRun, TickIsFresh, RunIsOn, run, fetch, clock, bounds
<1>11. FramedIsRegistered'
  <2> SUFFICES ASSUME NEW q \in Partitions, NEW k \in 1..Len(log'[q])
               PROVE  \/ log'[q][k] \in Foreign
                      \/ \E i \in Ids : registry[i] # 0 /\ log'[q][k] = Encode(i, <<registry[i]>>)
    BY <1>7 DEF FramedIsRegistered
  <2>1. CASE k \in 1..Len(log[q])
    <3>1. \/ log[q][k] \in Foreign
          \/ \E i \in Ids : registry[i] # 0 /\ log[q][k] = Encode(i, <<registry[i]>>)
      BY <1>1, <2>1 DEF FramedIsRegistered
    <3>2. log'[q][k] = log[q][k]
      BY <1>6, <2>1
    <3> QED
      BY <3>1, <3>2
  <2>2. CASE log'[q][k] = payload
    BY <2>2
  <2> QED
    BY <1>6, <2>1, <2>2
<1>12. ExitsAreEarned'
  <2>1. ASSUME NEW q \in Partitions, cursor[q] < Len(log[q]), Payload(q) \in Foreign
        PROVE  cursor'[q] < Len(log'[q]) /\ Payload(q)' \in Foreign
    <3>1. cursor[q] + 1 \in 1..Len(log[q]) /\ cursor[q] < Len(log'[q])
      <4>1. cursor[q] \in Nat /\ Len(log[q]) \in Nat
        BY <1>1, TypeFacts
      <4>2. Len(log'[q]) \in Nat /\ Len(log[q]) <= Len(log'[q])
        BY <1>6
      <4> QED
        BY <2>1, <4>1, <4>2
    <3> QED
      BY <1>6, <1>7, <2>1, <3>1 DEF Payload, fetch
  <2> QED
    BY <1>1, <1>7, <2>1 DEF ExitsAreEarned, CommittedInRun, run, clock, bounds
<1> QED
  BY <1>8, <1>9, <1>10, <1>11, <1>12 DEF IInv

(* A schema gets an id: no id changes its schema.                          *)
LEMMA RegisterKeepsInvariant ==
  ASSUME IInv, NEW s \in Schemas, Register(s)
  PROVE  IInv'
<1>1. /\ TypeOK /\ OffsetsOrdered /\ CommittedIsHandled /\ HandledIsAtHand
      /\ CommittingIsHandled /\ ReadIsCounted /\ TickIsFresh /\ FramedIsRegistered
      /\ RunIsOn /\ ExitsAreEarned
  BY DEF IInv
<1>2. /\ registry' \in [Ids -> Schemas \cup {0}]
      /\ \A i \in Ids : registry[i] # 0 => registry'[i] = registry[i]
  BY <1>1 DEF Register, TypeOK
<1>3. UNCHANGED <<log, committed, stage, exit, run, read, fetch, processed, clock,
                  cancelled, handled, bounds>>
  BY DEF Register
<1>4. TypeOK'
  BY <1>1, <1>2, <1>3 DEF TypeOK, run, fetch, clock, bounds
<1>5. /\ OffsetsOrdered' /\ CommittedIsHandled' /\ HandledIsAtHand' /\ CommittingIsHandled'
      /\ ReadIsCounted' /\ TickIsFresh' /\ RunIsOn'
  BY <1>1, <1>3
     DEF OffsetsOrdered, CommittedIsHandled, HandledIsAtHand, CommittingIsHandled, CapReached,
         ReadIsCounted, CommittedInRun, TickIsFresh, RunIsOn, run, fetch, clock, bounds
<1>6. FramedIsRegistered'
  <2> SUFFICES ASSUME NEW q \in Partitions, NEW k \in 1..Len(log[q])
               PROVE  \/ log[q][k] \in Foreign
                      \/ \E i \in Ids :
                           registry'[i] # 0 /\ log[q][k] = Encode(i, <<registry'[i]>>)
    BY <1>3 DEF FramedIsRegistered
  <2> QED
    BY <1>1, <1>2 DEF FramedIsRegistered
<1>7. ExitsAreEarned'
  BY <1>1, <1>3 DEF ExitsAreEarned, CommittedInRun, Payload, run, fetch, clock, bounds
<1> QED
  BY <1>4, <1>5, <1>6, <1>7 DEF IInv

-----------------------------------------------------------------------------
(* The end of a run *)

(* run returns without having committed: the rest stays as it is, and what  *)
(* is said of the reason has to be true.                                   *)
LEMMA ExitKeepsInvariant ==
  ASSUME IInv, NEW why \in {"finished", "idle", "signal", "error", "killed"}, Exit(why),
         UNCHANGED <<committed, handled>>, faults' = faults \/ faults' = faults + 1,
         stage # "down",
         why = "finished" => read = limit,
         why = "idle" => firedAt = read,
         why = "error" /\ faults' = 0 =>
           \E p \in Partitions : cursor[p] < Len(log[p]) /\ Payload(p) \in Foreign
  PROVE  IInv'
<1>1. /\ TypeOK /\ OffsetsOrdered /\ CommittedIsHandled /\ HandledIsAtHand
      /\ CommittingIsHandled /\ ReadIsCounted /\ TickIsFresh /\ FramedIsRegistered
      /\ RunIsOn /\ ExitsAreEarned
  BY DEF IInv
<1>2. /\ stage' = "down" /\ exit' = why
      /\ UNCHANGED <<topic, run, read, fetch, processed, clock, cancelled, runs>>
  BY DEF Exit
<1>3. faults' \in Nat /\ (faults' = 0 => faults = 0)
  BY <1>1 DEF TypeOK
<1>4. TypeOK'
  BY <1>1, <1>2, <1>3 DEF TypeOK, topic, run, fetch, clock
<1>5. OffsetsOrdered'
  BY <1>1, <1>2 DEF OffsetsOrdered, topic, run
<1>6. CommittedIsHandled' /\ HandledIsAtHand' /\ CommittingIsHandled'
  BY <1>1, <1>2 DEF CommittedIsHandled, HandledIsAtHand, CommittingIsHandled
<1>7. Cardinality(CommittedInRun') = read
  BY <1>1, <1>2 DEF ReadIsCounted, CommittedInRun, run
<1>8. ReadIsCounted'
  BY <1>1, <1>2, <1>7 DEF ReadIsCounted, run
<1>9. TickIsFresh'
  BY <1>1, <1>2 DEF TickIsFresh, clock
<1>10. FramedIsRegistered'
  BY <1>1, <1>2 DEF FramedIsRegistered, topic
<1>11. RunIsOn'
  BY <1>1, <1>2, <1>3 DEF RunIsOn
<1>12. ExitsAreEarned'
  <2>1. limit' > 0 => Cardinality(CommittedInRun') <= limit'
    BY <1>1, <1>2, <1>7 DEF ReadIsCounted, run
  <2>2. exit' = "error" /\ faults' = 0 =>
          \E p \in Partitions : cursor'[p] < Len(log'[p]) /\ Payload(p)' \in Foreign
    BY <1>2 DEF Payload, topic, fetch
  <2> QED
    BY <1>2, <1>7, <2>1, <2>2 DEF ExitsAreEarned, run, clock
<1> QED
  BY <1>4, <1>5, <1>6, <1>8, <1>9, <1>10, <1>11, <1>12 DEF IInv

(* A record that cannot be read, though nothing has gone wrong, was not      *)
(* framed by a producer that registers its schemas.                        *)
LEMMA UnreadableIsForeign ==
  ASSUME IInv, NEW p \in Partitions, NextRecord(p), ~Readable(p), faults = 0
  PROVE  cursor[p] < Len(log[p]) /\ Payload(p) \in Foreign
<1>1. /\ TypeOK /\ OffsetsOrdered /\ FramedIsRegistered /\ ~cancelled
  BY DEF IInv, RunIsOn
<1>2. cursor[p] < Len(log[p]) /\ cursor[p] + 1 \in 1..Len(log[p])
  <2>1. cursor[p] < position[p] /\ position[p] <= Len(log[p])
    BY <1>1 DEF NextRecord, OffsetsOrdered
  <2> QED
    BY <1>1, <2>1, TypeFacts
<1>3. ASSUME NEW i \in Ids, registry[i] # 0, Payload(p) = Encode(i, <<registry[i]>>)
      PROVE  Readable(p)
  <2>1. registry[i] \in Schemas \cup {0}
    BY <1>1 DEF TypeOK
  <2>2. registry[i] \in Nat
    BY <2>1, SchemasAreNumbers
  <2>3. /\ Framed(Payload(p)) /\ SchemaID(Payload(p)) = i
        /\ Decodes(registry[i], Payload(p))
    BY <1>3, <2>2, FramingRoundTrip
  <2>4. SchemaKnown(i)
    BY <1>1, <1>3 DEF SchemaKnown
  <2> QED
    BY <2>3, <2>4 DEF Readable
<1>4. \/ Payload(p) \in Foreign
      \/ \E i \in Ids : registry[i] # 0 /\ Payload(p) = Encode(i, <<registry[i]>>)
  BY <1>1, <1>2 DEF FramedIsRegistered, Payload
<1> QED
  BY <1>2, <1>3, <1>4

(* All the ways out of the loop but a commit that fails.                   *)
LEMMA LeavingKeepsInvariant ==
  ASSUME IInv,
         \/ \E p \in Partitions : Reject(p) \/ RegistryFails(p)
         \/ FetchFails \/ PollCancelled \/ Finish \/ IdleExit \/ Kill
  PROVE  IInv'
<1>1. /\ TypeOK /\ ReadIsCounted /\ TickIsFresh
  BY DEF IInv
<1>2. faults \in Nat /\ faults + 1 # 0
  BY <1>1 DEF TypeOK
<1>3. CASE \E p \in Partitions : Reject(p)
  <2>1. PICK p \in Partitions : Reject(p)
    BY <1>3
  <2>2. /\ NextRecord(p) /\ ~Readable(p) /\ Exit("error")
        /\ UNCHANGED <<committed, handled, faults>> /\ stage # "down"
    BY <2>1 DEF Reject, NextRecord
  <2>3. faults' = 0 => \E q \in Partitions : cursor[q] < Len(log[q]) /\ Payload(q) \in Foreign
    BY <2>2, UnreadableIsForeign
  <2> QED
    BY <2>2, <2>3, ExitKeepsInvariant
<1>4. CASE (\E p \in Partitions : RegistryFails(p)) \/ FetchFails
  <2>1. /\ Exit("error") /\ UNCHANGED <<committed, handled>> /\ stage # "down"
        /\ faults' = faults + 1
    BY <1>4 DEF RegistryFails, NextRecord, FetchFails, Fault
  <2> QED
    BY <1>2, <2>1, ExitKeepsInvariant
<1>5. CASE PollCancelled
  <2>1. /\ Exit("signal") /\ UNCHANGED <<committed, handled, faults>> /\ stage # "down"
    BY <1>5 DEF PollCancelled
  <2> QED
    BY <2>1, ExitKeepsInvariant
<1>6. CASE Finish
  <2>1. /\ Exit("finished") /\ UNCHANGED <<committed, handled, faults>> /\ stage # "down"
        /\ limit > 0 /\ read >= limit
    BY <1>6 DEF Finish, FetchDone, CapReached
  <2>2. read = limit
    BY <1>1, <2>1, TypeFacts DEF ReadIsCounted
  <2> QED
    BY <2>1, <2>2, ExitKeepsInvariant
<1>7. CASE IdleExit
  <2>1. /\ Exit("idle") /\ UNCHANGED <<committed, handled, faults>> /\ stage # "down"
        /\ ~processed /\ timer = "fired"
    BY <1>7 DEF IdleExit, FetchDone
  <2>2. firedAt = read
    BY <1>1, <2>1 DEF TickIsFresh
  <2> QED
    BY <2>1, <2>2, ExitKeepsInvariant
<1>8. CASE Kill
  <2>1. /\ Exit("killed") /\ UNCHANGED <<committed, handled>> /\ stage # "down"
        /\ faults' = faults + 1
    BY <1>8 DEF Kill, Fault
  <2> QED
    BY <2>1, ExitKeepsInvariant
<1> QED
  BY <1>3, <1>4, <1>5, <1>6, <1>7, <1>8

-----------------------------------------------------------------------------
(* A record *)

(* The record at hand is the next one to commit, and it has been handled:   *)
(* its commit leaves no gap.                                               *)
LEMMA CommitLeavesNoGap ==
  ASSUME IInv, stage = "committing", committed' = Advanced(committed),
         UNCHANGED <<log, begin, handled>>
  PROVE  /\ committed' \in [Partitions -> Nat]
         /\ \A p \in Partitions : begin[p] <= committed'[p] /\ committed'[p] <= Len(log[p])
         /\ CommittedIsHandled' /\ HandledIsAtHand'
<1> DEFINE c == cursor[current]
<1>1. /\ TypeOK /\ OffsetsOrdered /\ CommittedIsHandled /\ HandledIsAtHand
      /\ CommittingIsHandled
  BY DEF IInv
<1>2. /\ committed[current] = c /\ c \in Nat /\ c < position[current]
      /\ position[current] <= Len(log[current]) /\ c + 1 \in handled[current]
      /\ current \in Partitions
  BY <1>1, TypeFacts DEF OffsetsOrdered, CommittingIsHandled
<1>3. /\ committed' \in [Partitions -> Nat]
      /\ \A p \in Partitions : committed'[p] = IF p = current THEN c + 1 ELSE committed[p]
  BY <1>1, <1>2 DEF Advanced, TypeOK
<1>4. \A p \in Partitions : begin[p] <= committed'[p] /\ committed'[p] <= Len(log[p])
  <2>1. \A p \in Partitions : begin[p] <= committed[p] /\ committed[p] <= Len(log[p])
    BY <1>1 DEF OffsetsOrdered
  <2>2. begin[current] <= c + 1 /\ c + 1 <= Len(log[current])
    BY <1>1, <1>2, <2>1, TypeFacts
  <2> QED
    BY <1>3, <2>1, <2>2
<1>5. CommittedIsHandled'
  <2> SUFFICES ASSUME NEW p \in Partitions, NEW i \in 1..committed'[p]
               PROVE  i \in handled[p]
    BY DEF CommittedIsHandled
  <2>1. i \in 1..committed[p] \/ (p = current /\ i = c + 1)
    BY <1>1, <1>2, <1>3, TypeFacts
  <2> QED
    BY <1>1, <1>2, <2>1 DEF CommittedIsHandled
<1>6. HandledIsAtHand'
  <2> SUFFICES ASSUME NEW p \in Partitions, NEW i \in handled[p]
               PROVE  i <= committed'[p] + 1
    BY DEF HandledIsAtHand
  <2>1. i \in Nat /\ i <= committed[p] + 1 /\ committed[p] \in Nat
    BY <1>1, TypeFacts DEF HandledIsAtHand, TypeOK
  <2> QED
    BY <1>2, <1>3, <2>1
<1> QED
  BY <1>3, <1>4, <1>5, <1>6

(* A record is decoded and logged.                                         *)
LEMMA HandleKeepsInvariant ==
  ASSUME IInv, NEW p \in Partitions, Handle(p)
  PROVE  IInv'
<1>1. /\ TypeOK /\ OffsetsOrdered /\ CommittedIsHandled /\ HandledIsAtHand
      /\ CommittingIsHandled /\ ReadIsCounted /\ TickIsFresh /\ FramedIsRegistered
      /\ RunIsOn /\ ExitsAreEarned
  BY DEF IInv
<1>2. /\ stage = "handling" /\ ~CapReached /\ cursor[p] < position[p]
      /\ schemas' = schemas \cup {SchemaID(Payload(p))}
      /\ handled' = [handled EXCEPT ![p] = @ \cup {cursor[p] + 1}]
      /\ current' = p /\ stage' = "committing"
      /\ UNCHANGED <<topic, committed, exit, limit, begin, read, position, cursor, processed,
                     clock, cancelled, bounds>>
  BY DEF Handle, NextRecord
<1>3. /\ committed[p] = cursor[p] /\ cursor[p] \in Nat
      /\ handled \in [Partitions -> SUBSET Nat]
  BY <1>1, <1>2, TypeFacts DEF OffsetsOrdered, TypeOK
<1>4. /\ handled' \in [Partitions -> SUBSET Nat]
      /\ handled'[p] = handled[p] \cup {cursor[p] + 1}
      /\ \A q \in Partitions : q # p => handled'[q] = handled[q]
  BY <1>2, <1>3
<1>5. SchemaID(Payload(p)) \in Ids
  BY <1>1 DEF Handle, Readable, SchemaKnown, TypeOK
<1>6. TypeOK'
  BY <1>1, <1>2, <1>4, <1>5 DEF TypeOK, topic, clock, bounds
<1>7. OffsetsOrdered'
  BY <1>1, <1>2 DEF OffsetsOrdered, topic
<1>8. CommittedIsHandled'
  BY <1>1, <1>2, <1>4 DEF CommittedIsHandled
<1>9. HandledIsAtHand'
  <2> SUFFICES ASSUME NEW q \in Partitions, NEW i \in handled'[q]
               PROVE  i <= committed[q] + 1
    BY <1>2 DEF HandledIsAtHand
  <2>1. i \in handled[q] \/ (q = p /\ i = cursor[p] + 1)
    BY <1>4
  <2> QED
    BY <1>1, <1>3, <2>1 DEF HandledIsAtHand
<1>10. CommittingIsHandled'
  BY <1>2, <1>4 DEF CommittingIsHandled, CapReached
<1>11. ReadIsCounted' /\ TickIsFresh' /\ RunIsOn'
  BY <1>1, <1>2 DEF ReadIsCounted, CommittedInRun, TickIsFresh, RunIsOn, clock, bounds
<1>12. FramedIsRegistered'
  BY <1>1, <1>2 DEF FramedIsRegistered, topic
<1>13. ExitsAreEarned'
  BY <1>1, <1>2 DEF ExitsAreEarned, CommittedInRun, Payload, topic, clock, bounds
<1> QED
  BY <1>6, <1>7, <1>8, <1>9, <1>10, <1>11, <1>12, <1>13 DEF IInv

(* ... and committed.                                                      *)
LEMMA CommitKeepsInvariant ==
  ASSUME IInv, Commit
  PROVE  IInv'
<1>1. /\ TypeOK /\ OffsetsOrdered /\ CommittingIsHandled /\ ReadIsCounted
      /\ FramedIsRegistered /\ RunIsOn /\ ExitsAreEarned
  BY DEF IInv
<1>2. /\ stage = "committing" /\ stage' = "handling"
      /\ committed' = Advanced(committed) /\ cursor' = Advanced(cursor)
      /\ read' = read + 1 /\ processed' = TRUE
      /\ UNCHANGED <<topic, exit, run, position, current, clock, cancelled, handled, bounds>>
  BY DEF Commit
<1>3. UNCHANGED <<log, begin, limit, firedAt, timer>>
  BY <1>2 DEF topic, run, clock
<1>4. /\ committed' \in [Partitions -> Nat]
      /\ \A p \in Partitions : begin[p] <= committed'[p] /\ committed'[p] <= Len(log[p])
      /\ CommittedIsHandled' /\ HandledIsAtHand'
  BY <1>2, <1>3, CommitLeavesNoGap
<1>5. /\ cursor' \in [Partitions -> Nat]
      /\ \A p \in Partitions : cursor'[p] = IF p = current THEN cursor[current] + 1 ELSE cursor[p]
      /\ \A p \in Partitions :
           committed'[p] = IF p = current THEN cursor[current] + 1 ELSE committed[p]
  BY <1>1, <1>2, TypeFacts DEF Advanced, TypeOK
<1>6. TypeOK'
  <2>1. processed' \in BOOLEAN /\ cancelled' \in BOOLEAN
    BY <1>1, <1>2 DEF TypeOK
  <2> QED
    BY <1>1, <1>2, <1>4, <1>5, <2>1 DEF TypeOK, topic, run, clock, bounds
<1>7. OffsetsOrdered'
  <2>1. \A p \in Partitions : cursor'[p] <= position[p] /\ position[p] <= Len(log[p])
    <3>1. cursor[current] < position[current]
      BY <1>1, <1>2 DEF CommittingIsHandled
    <3>2. \A p \in Partitions : cursor[p] <= position[p] /\ position[p] <= Len(log[p])
      BY <1>1, <1>2 DEF OffsetsOrdered
    <3>3. \A p \in Partitions : cursor[p] \in Nat /\ position[p] \in Nat
      BY <1>1, TypeFacts
    <3> QED
      BY <1>5, <3>1, <3>2, <3>3
  <2>2. \A p \in Partitions : committed'[p] = cursor'[p]
    BY <1>1, <1>2, <1>5 DEF OffsetsOrdered
  <2> QED
    BY <1>2, <1>3, <1>4, <2>1, <2>2 DEF OffsetsOrdered
<1>8. CommittingIsHandled'
  BY <1>2 DEF CommittingIsHandled
<1>9. Cardinality(CommittedInRun') = read + 1 /\ (limit > 0 => read + 1 <= limit)
  <2>1. Cardinality(CommittedInRun') = Cardinality(CommittedInRun) + 1
    BY <1>2, <1>3, CommitCounts
  <2>2. Cardinality(CommittedInRun) = read
    BY <1>1, <1>2 DEF ReadIsCounted
  <2> QED
    BY <1>1, <1>2, <2>1, <2>2, TypeFacts DEF CommittingIsHandled, CapReached
<1>10. ReadIsCounted'
  BY <1>2, <1>3, <1>9 DEF ReadIsCounted
<1>11. TickIsFresh'
  BY <1>2 DEF TickIsFresh
<1>12. FramedIsRegistered'
  BY <1>1, <1>2 DEF FramedIsRegistered, topic
<1>13. RunIsOn'
  BY <1>1, <1>2 DEF RunIsOn, bounds
<1>14. ExitsAreEarned'
  <2>1. exit = "none"
    BY <1>1, <1>2 DEF RunIsOn
  <2> QED
    BY <1>2, <1>3, <1>9, <2>1 DEF ExitsAreEarned
<1> QED
  BY <1>4, <1>6, <1>7, <1>8, <1>10, <1>11, <1>12, <1>13, <1>14 DEF IInv

(* The commit fails, or its answer is lost: the next run may begin behind   *)
(* the record or with it again.                                            *)
LEMMA CommitFailsKeepsInvariant ==
  ASSUME IInv, CommitFails
  PROVE  IInv'
<1>1. /\ TypeOK /\ OffsetsOrdered /\ CommittingIsHandled /\ ReadIsCounted /\ TickIsFresh
      /\ FramedIsRegistered /\ RunIsOn
  BY DEF IInv
<1>2. /\ stage = "committing" /\ stage' = "down" /\ exit' = "error"
      /\ UNCHANGED <<topic, run, read, fetch, processed, clock, cancelled, runs, handled>>
  BY DEF CommitFails, Exit
<1>3. /\ faults' = faults \/ faults' = faults + 1
      /\ faults' # 0 /\ faults' \in Nat
  <2>1. faults \in Nat /\ (cancelled => faults # 0)
    BY <1>1 DEF RunIsOn, TypeOK
  <2>2. (cancelled /\ faults' = faults) \/ faults' = faults + 1
    BY DEF CommitFails, Fault
  <2> QED
    BY <2>1, <2>2
<1>4. CASE committed' = committed
  <2>1. Exit("error") /\ UNCHANGED handled
    BY DEF CommitFails
  <2> QED
    BY <1>2, <1>3, <1>4, <2>1, ExitKeepsInvariant
<1>5. CASE committed' = Advanced(committed)
  <2>1. UNCHANGED <<log, begin, handled>>
    BY <1>2 DEF topic, run
  <2>2. /\ committed' \in [Partitions -> Nat]
        /\ \A p \in Partitions : begin[p] <= committed'[p] /\ committed'[p] <= Len(log[p])
        /\ CommittedIsHandled' /\ HandledIsAtHand'
    BY <1>2, <1>5, <2>1, CommitLeavesNoGap
  <2>3. TypeOK'
    BY <1>1, <1>2, <1>3, <2>2 DEF TypeOK, topic, run, fetch, clock
  <2>4. OffsetsOrdered'
    BY <1>2, <2>1, <2>2 DEF OffsetsOrdered
  <2>5. CommittingIsHandled' /\ TickIsFresh' /\ RunIsOn'
    BY <1>1, <1>2, <1>3 DEF CommittingIsHandled, TickIsFresh, RunIsOn, clock
  <2>6. ReadIsCounted'
    BY <1>1, <1>2 DEF ReadIsCounted, run
  <2>7. FramedIsRegistered'
    BY <1>1, <1>2 DEF FramedIsRegistered, topic
  <2>8. ExitsAreEarned'
    <3>1. Cardinality(CommittedInRun') = read + 1
      <4>1. Cardinality(CommittedInRun') = Cardinality(CommittedInRun) + 1
        BY <1>2, <1>5, <2>1, CommitCounts
      <4> QED
        BY <1>1, <1>2, <4>1 DEF ReadIsCounted
    <3>2. limit > 0 => read + 1 <= limit
      BY <1>1, <1>2, TypeFacts DEF CommittingIsHandled, CapReached
    <3> QED
      BY <1>2, <1>3, <3>1, <3>2 DEF ExitsAreEarned, run
  <2> QED
    BY <2>2, <2>3, <2>4, <2>5, <2>6, <2>7, <2>8 DEF IInv
<1> QED
  BY <1>4, <1>5 DEF CommitFails

-----------------------------------------------------------------------------
(* The loop *)

(* A run begins at the committed offsets.                                  *)
LEMMA StartKeepsInvariant ==
  ASSUME IInv, Start
  PROVE  IInv'
<1>1. /\ TypeOK /\ OffsetsOrdered /\ CommittedIsHandled /\ HandledIsAtHand
      /\ FramedIsRegistered /\ RunIsOn
  BY DEF IInv
<1>2. /\ stage' = "polling" /\ exit' = "none" /\ limit' \in Limits
      /\ read' = 0 /\ schemas' = {} /\ processed' = FALSE
      /\ begin' = committed /\ position' = committed /\ cursor' = committed
      /\ timer' = "running" /\ firedAt' = 0 /\ cancelled' = FALSE /\ runs' = runs + 1
      /\ UNCHANGED <<topic, committed, current, handled, faults>>
  BY DEF Start
<1>3. limit' \in Nat
  <2>1. Limits \subseteq Nat
    BY AvroConsumerAssumption
  <2> QED
    BY <1>2, <2>1
<1>4. TypeOK'
  <2>1. processed' \in BOOLEAN /\ cancelled' \in BOOLEAN
    BY <1>2, Zenon
  <2>2. /\ begin' \in [Partitions -> Nat] /\ position' \in [Partitions -> Nat]
        /\ cursor' \in [Partitions -> Nat] /\ committed' \in [Partitions -> Nat]
    BY <1>1, <1>2 DEF TypeOK
  <2>3. runs' \in Nat /\ faults' \in Nat /\ firedAt' \in Nat /\ read' \in Nat
    BY <1>1, <1>2 DEF TypeOK
  <2> QED
    BY <1>1, <1>2, <1>3, <2>1, <2>2, <2>3 DEF TypeOK, topic
<1>5. OffsetsOrdered'
  BY <1>1, <1>2, TypeFacts DEF OffsetsOrdered, topic
<1>6. CommittedIsHandled' /\ HandledIsAtHand' /\ CommittingIsHandled'
  BY <1>1, <1>2 DEF CommittedIsHandled, HandledIsAtHand, CommittingIsHandled
<1>7. Cardinality(CommittedInRun') = 0
  BY <1>1, <1>2, StartCounts
<1>8. ReadIsCounted' /\ ExitsAreEarned'
  BY <1>2, <1>3, <1>7 DEF ReadIsCounted, ExitsAreEarned
<1>9. TickIsFresh' /\ RunIsOn'
  BY <1>2 DEF TickIsFresh, RunIsOn
<1>10. FramedIsRegistered'
  BY <1>1, <1>2 DEF FramedIsRegistered, topic
<1> QED
  BY <1>4, <1>5, <1>6, <1>8, <1>9, <1>10 DEF IInv

(* What every step of the loop leaves alone: records, offsets and counts.   *)
(* It has to say what becomes of the fetch, the timer and the context.     *)
LEMMA LoopKeepsInvariant ==
  ASSUME IInv, stage # "down", stage' \in {"polling", "handling", stage},
         UNCHANGED <<topic, committed, exit, run, read, cursor, handled>>,
         position' \in [Partitions -> Nat], current' \in Partitions,
         \A p \in Partitions : position[p] <= position'[p] /\ position'[p] <= Len(log[p]),
         stage' = "committing" => UNCHANGED <<position, current>>,
         processed' \in BOOLEAN, timer' \in {"running", "fired"}, firedAt' \in Nat,
         cancelled' \in BOOLEAN, UNCHANGED runs, faults' = faults \/ faults' = faults + 1,
         cancelled' => cancelled \/ faults' = faults + 1,
         TickIsFresh'
  PROVE  IInv'
<1>1. /\ TypeOK /\ OffsetsOrdered /\ CommittedIsHandled /\ HandledIsAtHand
      /\ CommittingIsHandled /\ ReadIsCounted /\ FramedIsRegistered /\ RunIsOn
      /\ ExitsAreEarned
  BY DEF IInv
<1>2. UNCHANGED <<log, registry, limit, begin, schemas>>
  BY DEF topic, run
<1>3. faults \in Nat /\ faults' \in Nat
  <2>1. faults \in Nat
    BY <1>1, CounterFacts, Zenon
  <2>2. faults' = faults \/ faults' = faults + 1
    OBVIOUS
  <2> QED
    BY <2>1, <2>2
<1>4. stage' \in {"polling", "handling", "committing"} /\ stage' # "down"
  <2>1. stage \in {"down", "polling", "handling", "committing"}
    BY <1>1 DEF TypeOK
  <2> QED
    BY <2>1
<1>5. TypeOK'
  <2>1. /\ log' \in [Partitions -> Seq(Seq(Nat))]
        /\ \A p \in Partitions : Len(log'[p]) <= MaxLog
        /\ registry' \in [Ids -> Schemas \cup {0}] /\ schemas' \subseteq Ids
    BY <1>1, <1>2 DEF TypeOK
  <2>2. /\ committed' \in [Partitions -> Nat] /\ begin' \in [Partitions -> Nat]
        /\ position' \in [Partitions -> Nat] /\ cursor' \in [Partitions -> Nat]
        /\ handled' \in [Partitions -> SUBSET Nat]
    BY <1>1, <1>2 DEF TypeOK
  <2>3. /\ exit' \in {"none", "finished", "idle", "signal", "error", "killed"}
        /\ limit' \in Nat /\ read' \in Nat /\ runs' \in Nat
    BY <1>1, <1>2 DEF TypeOK
  <2> QED
    BY <1>3, <1>4, <2>1, <2>2, <2>3 DEF TypeOK
<1>6. OffsetsOrdered'
  <2>1. \A p \in Partitions : cursor[p] <= position'[p]
    BY <1>1, TypeFacts DEF OffsetsOrdered, TypeOK
  <2> QED
    BY <1>1, <1>2, <2>1 DEF OffsetsOrdered
<1>7. CommittedIsHandled' /\ HandledIsAtHand'
  BY <1>1 DEF CommittedIsHandled, HandledIsAtHand
<1>8. CommittingIsHandled'
  BY <1>1, <1>2 DEF CommittingIsHandled, CapReached
<1>9. ReadIsCounted'
  BY <1>1, <1>2 DEF ReadIsCounted, CommittedInRun
<1>10. RunIsOn'
  BY <1>1, <1>3, <1>4 DEF RunIsOn
<1>11. FramedIsRegistered'
  BY <1>1, <1>2 DEF FramedIsRegistered
<1>12. ExitsAreEarned'
  <2>1. exit' = "none"
    BY <1>1 DEF RunIsOn
  <2> QED
    BY <1>1, <1>2, <2>1 DEF ExitsAreEarned, CommittedInRun
<1> QED
  BY <1>5, <1>6, <1>7, <1>8, <1>9, <1>10, <1>11, <1>12 DEF IInv

(* A poll, the steps after a fetch, the timer and a signal.                *)
LEMMA LoopStepsKeepInvariant ==
  ASSUME IInv, Poll \/ ResetTimer \/ PollAgain \/ TimerFires \/ Signal
  PROVE  IInv'
<1>1. TypeOK /\ OffsetsOrdered /\ TickIsFresh /\ RunIsOn
  BY DEF IInv
<1>2. /\ position \in [Partitions -> Nat] /\ current \in Partitions
      /\ processed \in BOOLEAN /\ timer \in {"running", "fired"} /\ firedAt \in Nat
      /\ cancelled \in BOOLEAN /\ read \in Nat
  BY <1>1 DEF TypeOK
<1>3. stage # "down" => \A p \in Partitions :
        position[p] <= position[p] /\ position[p] <= Len(log[p])
  BY <1>2, <1>1 DEF OffsetsOrdered
<1>4. CASE Poll
  <2>1. /\ stage = "polling" /\ stage' = "handling" /\ processed' = FALSE
        /\ position' \in [Partitions -> 0..MaxLog] /\ current' \in Partitions
        /\ \A p \in Partitions : position[p] <= position'[p] /\ position'[p] <= Len(log[p])
        /\ UNCHANGED <<topic, committed, exit, run, read, cursor, clock, cancelled, handled, bounds>>
    BY <1>4 DEF Poll
  <2>2. position' \in [Partitions -> Nat]
    BY <2>1
  <2>3. processed' \in BOOLEAN
    BY <2>1, Zenon
  <2>4. UNCHANGED <<timer, firedAt, runs, faults>>
    BY <2>1 DEF clock, bounds
  <2>5. TickIsFresh'
    BY <1>1, <2>1, <2>4 DEF TickIsFresh
  <2> QED
    BY <1>2, <2>1, <2>2, <2>3, <2>4, <2>5, LoopKeepsInvariant
<1>5. CASE ResetTimer \/ PollAgain
  <2>1. /\ stage = "handling" /\ stage' = "polling"
        /\ \/ timer' = "running"
           \/ ~processed /\ UNCHANGED timer
        /\ UNCHANGED <<topic, committed, exit, run, read, fetch, processed, firedAt, cancelled,
                       handled, bounds>>
    BY <1>5 DEF ResetTimer, PollAgain, FetchDone, clock
  <2>2. UNCHANGED <<position, current, cursor, runs, faults>>
    BY <2>1 DEF fetch, bounds
  <2>3. TickIsFresh' /\ timer' \in {"running", "fired"}
    BY <1>1, <1>2, <2>1 DEF TickIsFresh
  <2> QED
    BY <1>2, <1>3, <2>1, <2>2, <2>3, LoopKeepsInvariant
<1>6. CASE TimerFires
  <2>1. /\ stage # "down" /\ timer' = "fired" /\ firedAt' = read
        /\ UNCHANGED <<topic, committed, stage, exit, run, read, fetch, processed, cancelled,
                       handled, bounds>>
    BY <1>6 DEF TimerFires
  <2>2. UNCHANGED <<position, current, cursor, runs, faults>>
    BY <2>1 DEF fetch, bounds
  <2>3. TickIsFresh'
    BY <2>1 DEF TickIsFresh
  <2> QED
    BY <1>2, <1>3, <2>1, <2>2, <2>3, LoopKeepsInvariant
<1>7. CASE Signal
  <2>1. /\ stage # "down" /\ cancelled' = TRUE /\ faults' = faults + 1
        /\ UNCHANGED <<topic, committed, stage, exit, run, read, fetch, processed, clock,
                       handled, runs>>
    BY <1>7 DEF Signal, Fault
  <2>2. UNCHANGED <<position, current, cursor, timer, firedAt>>
    BY <2>1 DEF fetch, clock
  <2>3. TickIsFresh'
    BY <1>1, <2>1, <2>2 DEF TickIsFresh
  <2>4. cancelled' \in BOOLEAN
    BY <2>1, Zenon
  <2> QED
    BY <1>2, <1>3, <2>1, <2>2, <2>3, <2>4, LoopKeepsInvariant
<1> QED
  BY <1>4, <1>5, <1>6, <1>7

-----------------------------------------------------------------------------
(* The theorems *)

LEMMA InitEstablishes == Init => IInv
<1> SUFFICES ASSUME Init PROVE IInv
  OBVIOUS
<1>1. /\ log \in [Partitions -> Seq(Seq(Nat))]
      /\ \A p \in Partitions : Len(log[p]) = 0
  <2>1. <<>> \in Seq(Seq(Nat)) /\ Len(<<>>) = 0
    BY EmptySeq
  <2> QED
    BY <2>1 DEF Init
<1>2. \A p \in Partitions : committed[p] = 0 /\ begin[p] = 0 /\ handled[p] = {}
  BY DEF Init
<1>3. TypeOK
  <2>1. processed \in BOOLEAN /\ cancelled \in BOOLEAN
    BY Zenon DEF Init
  <2>2. /\ committed \in [Partitions -> Nat] /\ begin \in [Partitions -> Nat]
        /\ position \in [Partitions -> Nat] /\ cursor \in [Partitions -> Nat]
        /\ handled \in [Partitions -> SUBSET Nat] /\ registry \in [Ids -> Schemas \cup {0}]
    BY DEF Init
  <2> QED
    BY <1>1, <2>1, <2>2, AvroConsumerAssumption DEF Init, TypeOK
<1>4. OffsetsOrdered /\ CommittingIsHandled
  BY <1>1, <1>2 DEF Init, OffsetsOrdered, CommittingIsHandled
<1>5. CommittedIsHandled /\ HandledIsAtHand
  BY <1>2 DEF CommittedIsHandled, HandledIsAtHand
<1>6. CommittedInRun = {}
  BY <1>2 DEF CommittedInRun
<1>7. ReadIsCounted /\ ExitsAreEarned
  BY <1>6, FS_EmptySet DEF Init, ReadIsCounted, ExitsAreEarned
<1>8. TickIsFresh /\ RunIsOn
  BY DEF Init, TickIsFresh, RunIsOn
<1>9. FramedIsRegistered
  BY <1>1 DEF FramedIsRegistered
<1> QED
  BY <1>3, <1>4, <1>5, <1>7, <1>8, <1>9 DEF IInv

LEMMA StutteringKeepsInvariant ==
  ASSUME IInv, UNCHANGED vars
  PROVE  IInv'
<1>1. UNCHANGED <<log, registry, committed, stage, exit, limit, begin, schemas, read,
                  position, cursor, current, processed, timer, firedAt, cancelled, handled,
                  runs, faults>>
  BY DEF vars, topic, run, fetch, clock, bounds
<1>2. TypeOK'
  BY <1>1 DEF IInv, TypeOK
<1>3. /\ OffsetsOrdered' /\ CommittedIsHandled' /\ HandledIsAtHand' /\ CommittingIsHandled'
      /\ ReadIsCounted' /\ TickIsFresh' /\ FramedIsRegistered' /\ RunIsOn' /\ ExitsAreEarned'
  BY <1>1
     DEF IInv, OffsetsOrdered, CommittedIsHandled, HandledIsAtHand, CommittingIsHandled,
         CapReached, ReadIsCounted, CommittedInRun, TickIsFresh, FramedIsRegistered, RunIsOn,
         ExitsAreEarned, Payload
<1> QED
  BY <1>2, <1>3 DEF IInv

LEMMA NextPreserves == IInv /\ [Next]_vars => IInv'
<1> SUFFICES ASSUME IInv, [Next]_vars PROVE IInv'
  OBVIOUS
<1>1. CASE \E s \in Schemas : Register(s)
  BY <1>1, RegisterKeepsInvariant
<1>2. CASE \E s \in Schemas : \E p \in Partitions : ProduceSync(p, s)
  <2>1. PICK s \in Schemas, p \in Partitions, i \in Ids :
          registry[i] = s /\ Send(p, Encode(i, <<s>>))
    BY <1>2 DEF ProduceSync
  <2>2. s # 0
    BY AvroConsumerAssumption
  <2> QED
    BY <2>1, <2>2, SendKeepsInvariant
<1>3. CASE \E p \in Partitions : SendForeign(p)
  BY <1>3, SendKeepsInvariant DEF SendForeign
<1>4. CASE \E p \in Partitions : Handle(p)
  BY <1>4, HandleKeepsInvariant
<1>5. CASE \/ \E p \in Partitions : Reject(p) \/ RegistryFails(p)
           \/ FetchFails \/ PollCancelled \/ Finish \/ IdleExit \/ Kill
  BY <1>5, LeavingKeepsInvariant
<1>6. CASE Start
  BY <1>6, StartKeepsInvariant
<1>7. CASE Poll \/ ResetTimer \/ PollAgain \/ TimerFires \/ Signal
  BY <1>7, LoopStepsKeepInvariant
<1>8. CASE Commit
  BY <1>8, CommitKeepsInvariant
<1>9. CASE CommitFails
  BY <1>9, CommitFailsKeepsInvariant
<1>10. CASE Rest \/ UNCHANGED vars
  BY <1>10, StutteringKeepsInvariant DEF Rest
<1> QED
  BY <1>1, <1>2, <1>3, <1>4, <1>5, <1>6, <1>7, <1>8, <1>9, <1>10 DEF Next

(* Whatever the order of polls, ticks, signals and lost answers: a record   *)
(* is committed only once it was handled, at most one is handled and not    *)
(* committed, and the count of a run is the number of its commits.         *)
THEOREM Invariance == Spec => []IInv
<1> QED
  BY InitEstablishes, NextPreserves, PTL DEF Spec

(* The reason a run gives for its end is the true one.                     *)
THEOREM ExitsEarned == Spec => []ExitsAreEarned
<1>1. IInv => ExitsAreEarned
  BY DEF IInv
<1> QED
  BY Invariance, <1>1, PTL

(* The offset of the group never goes back, over any number of runs.       *)
THEOREM OffsetsNeverGoBack ==
  Spec => [][\A p \in Partitions : committed[p] <= committed'[p]]_vars
<1>1. ASSUME IInv, Next
      PROVE  \A p \in Partitions : committed[p] <= committed'[p]
  <2>1. /\ TypeOK /\ OffsetsOrdered /\ CommittingIsHandled
    BY <1>1 DEF IInv
  <2>2. \A p \in Partitions : committed[p] \in Nat
    BY <2>1, TypeFacts
  <2>3. ASSUME stage = "committing", committed' = Advanced(committed)
        PROVE  \A p \in Partitions : committed[p] <= committed'[p]
    BY <2>1, <2>2, <2>3 DEF OffsetsOrdered, Advanced, TypeOK
  <2>4. \/ UNCHANGED committed
        \/ stage = "committing" /\ committed' = Advanced(committed)
    BY <1>1
       DEF Next, Register, ProduceSync, SendForeign, Send, Handle, Reject, RegistryFails, Start,
           Poll, FetchFails, PollCancelled, Commit, CommitFails, ResetTimer, Finish, IdleExit,
           PollAgain, TimerFires, Signal, Kill, Rest, vars
  <2> QED
    BY <2>2, <2>3, <2>4
<1> QED
  BY Invariance, <1>1, PTL DEF Spec
=============================================================================
