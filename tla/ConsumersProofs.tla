--------------------------- MODULE ConsumersProofs ---------------------------
(***************************************************************************)
(* Proofs about the two consumers of practical_work_2, BatchConsumer and   *)
(* SingleConsumer, and about the group both are built on, ConsumerGroup:   *)
(* for any number of instances, partitions, messages and faults and any    *)
(* size of the batch.                                                      *)
(*                                                                         *)
(* 1. The group: whatever its members do, what the group has committed is  *)
(*    not ahead of what the holder of a partition was delivered, nor that  *)
(*    of what is published, and no two members hold a partition.           *)
(* 2. BatchConsumer: first the loop over the batch, what is committed was  *)
(*    processed; then the count, every processing of a message has a       *)
(*    rebalance of its own.                                                *)
(* 3. SingleConsumer: a message is lost when the group, or a client on     *)
(*    behalf of the group, has gone past it while nobody handles it.  No   *)
(*    step adds to the lost messages but the death of a process, which     *)
(*    adds the one it had in hand: a commit goes no further than what the  *)
(*    client was delivered, and whoever gets a partition starts where the  *)
(*    group has committed.                                                 *)
(***************************************************************************)
EXTENDS BatchConsumer, SingleConsumer, FiniteSetTheorems, SequenceTheorems, TLAPS

(***************************************************************************)
(* 1. The group                                                            *)
(***************************************************************************)

GroupInv == GroupTypeOK /\ PositionsOrdered

(* Members only leave, or give partitions back.                            *)
OnlyLeaves ==
  /\ member' \in [Members -> {"out", "in", "joined"}]
  /\ owned' \in [Members -> SUBSET Partitions]
  /\ \A n \in Members :
       /\ owned'[n] \subseteq owned[n]
       /\ member'[n] = "in" => member[n] = "in"

-----------------------------------------------------------------------------
(* The group starts in order.                                              *)
LEMMA GroupStarts == GroupInit => GroupInv
<1> SUFFICES ASSUME GroupInit PROVE GroupInv
  OBVIOUS
<1>1. /\ log \in [Partitions -> Seq(BOOLEAN)]
      /\ \A p \in Partitions : Len(log[p]) = 0
  <2>1. <<>> \in Seq(BOOLEAN) /\ Len(<<>>) = 0
    BY EmptySeq
  <2> QED
    BY <2>1 DEF GroupInit
<1>2. GroupTypeOK
  BY <1>1, ConsumerGroupAssumption DEF GroupInit, GroupTypeOK
<1>3. PositionsOrdered
  BY <1>1 DEF GroupInit, PositionsOrdered
<1> QED
  BY <1>2, <1>3 DEF GroupInv

(* As long as the bound allows another message, no partition is at it.     *)
LEMMA RoomInLog ==
  ASSUME GroupTypeOK, Cardinality(Published) < MaxLog, NEW p \in Partitions
  PROVE  Len(log[p]) < MaxLog
<1>1. /\ Len(log[p]) \in Nat /\ Len(log[p]) <= MaxLog /\ MaxLog \in Nat
  BY LenProperties, ConsumerGroupAssumption DEF GroupTypeOK
<1> SUFFICES ASSUME Len(log[p]) = MaxLog PROVE FALSE
  BY <1>1
<1> DEFINE S == {p} \X (1..MaxLog)
<1>2. IsFiniteSet(1..MaxLog) /\ Cardinality(1..MaxLog) = MaxLog
  BY <1>1, FS_Interval
<1>3. IsFiniteSet({p}) /\ Cardinality({p}) = 1
  BY FS_Singleton
<1>4. Cardinality(S) = MaxLog
  <2>1. Cardinality(S) = Cardinality({p}) * Cardinality(1..MaxLog)
    BY <1>2, <1>3, FS_Product
  <2> QED
    BY <2>1, <1>1, <1>2, <1>3
<1>5. IsFiniteSet(Partitions \X (1..MaxLog))
  BY <1>2, FS_Product, ConsumerGroupAssumption
<1>6. Published \in SUBSET (Partitions \X (1..MaxLog))
  BY DEF Published
<1>7. IsFiniteSet(Published)
  BY <1>5, <1>6, FS_Subset
<1>8. S \in SUBSET Published
  BY DEF Published
<1>9. Cardinality(S) <= Cardinality(Published)
  BY <1>7, <1>8, FS_Subset
<1>10. Cardinality(Published) \in Nat
  BY <1>7, FS_CardinalityType
<1> QED
  BY <1>1, <1>4, <1>9, <1>10

(* A message is published.                                                 *)
LEMMA ProduceKeepsGroup ==
  ASSUME GroupInv, NEW p \in Partitions, NEW good \in BOOLEAN, Produce(p, good)
  PROVE  /\ GroupInv'
         /\ \A q \in Partitions : Len(log[q]) <= Len(log'[q])
<1>1. log \in [Partitions -> Seq(BOOLEAN)]
  BY DEF GroupInv, GroupTypeOK
<1>2. /\ Append(log[p], good) \in Seq(BOOLEAN)
      /\ Len(Append(log[p], good)) = Len(log[p]) + 1
  BY <1>1, AppendProperties
<1>3. Len(log[p]) < MaxLog
  BY RoomInLog DEF GroupInv, Produce
<1>4. \A q \in Partitions : Len(log[q]) \in Nat
  BY <1>1, LenProperties
<1>5. /\ log' \in [Partitions -> Seq(BOOLEAN)]
      /\ \A q \in Partitions : Len(log[q]) <= Len(log'[q]) /\ Len(log'[q]) <= MaxLog
      /\ \A q \in Partitions : Len(log'[q]) \in Nat
  BY <1>1, <1>2, <1>3, <1>4, ConsumerGroupAssumption DEF Produce, GroupInv, GroupTypeOK
<1>6. GroupTypeOK'
  BY <1>5 DEF Produce, group, GroupInv, GroupTypeOK
<1>7. /\ \A q \in Partitions : committed[q] \in Nat
      /\ \A m \in Members : owned[m] \subseteq Partitions
      /\ \A m \in Members : \A q \in Partitions : position[m][q] \in Nat
  BY DEF GroupInv, GroupTypeOK
<1>8. PositionsOrdered'
  BY <1>4, <1>5, <1>7 DEF Produce, group, GroupInv, PositionsOrdered
<1> QED
  BY <1>5, <1>6, <1>8 DEF GroupInv

(* Members leave.                                                          *)
LEMMA LeavingKeepsGroup ==
  ASSUME GroupInv, OnlyLeaves, UNCHANGED <<log, committed, position, generation>>,
         stable' \in BOOLEAN, faults' \in Nat
  PROVE  GroupInv'
<1>1. GroupTypeOK'
  BY DEF GroupInv, GroupTypeOK, OnlyLeaves
<1>2. PositionsOrdered'
  BY DEF GroupInv, PositionsOrdered, OnlyLeaves
<1> QED
  BY <1>1, <1>2 DEF GroupInv

(* A commit moves the offsets of the group forward, and no further than the *)
(* members that hold the partitions have come.                             *)
LEMMA CommitKeepsGroup ==
  ASSUME GroupInv, NEW m \in Members, CommitPositions(m), OnlyLeaves,
         UNCHANGED <<log, position, generation>>, stable' \in BOOLEAN, faults' \in Nat
  PROVE  /\ GroupInv'
         /\ \A p \in Partitions : committed[p] <= committed'[p]
<1>1. /\ \A p \in Partitions : committed[p] \in Nat /\ Len(log[p]) \in Nat
      /\ \A n \in Members : \A p \in Partitions : position[n][p] \in Nat
      /\ \A n \in Members : owned[n] \subseteq Partitions /\ owned'[n] \subseteq owned[n]
  BY LenProperties DEF GroupInv, GroupTypeOK, OnlyLeaves
<1>2. \A p \in Partitions :
        committed'[p] = IF member[m] = "in" /\ p \in owned[m] THEN position[m][p] ELSE committed[p]
  BY DEF CommitPositions
<1>3. \A p \in Partitions : committed'[p] \in Nat
  BY <1>1, <1>2
<1>4. GroupTypeOK'
  <2>1. committed' \in [Partitions -> Nat]
    BY <1>3 DEF CommitPositions
  <2> QED
    BY <2>1 DEF GroupInv, GroupTypeOK, OnlyLeaves
<1>5. \A p \in Partitions : committed[p] <= committed'[p] /\ committed'[p] <= Len(log[p])
  BY <1>1, <1>2 DEF GroupInv, PositionsOrdered
<1>6. PositionsOrdered'
  <2> SUFFICES ASSUME NEW n \in Members, NEW p \in owned'[n]
               PROVE  /\ position[n][p] <= Len(log[p])
                      /\ member'[n] = "in" => committed'[p] <= position[n][p]
                      /\ \A k \in Members \ {n} :
                           member'[n] = "in" /\ member'[k] = "in" => p \notin owned'[k]
    BY <1>5 DEF PositionsOrdered
  <2>1. p \in owned[n] /\ p \in Partitions
    BY <1>1
  <2>2. member'[n] = "in" => committed'[p] <= position[n][p]
    <3>1. CASE member[m] = "in" /\ p \in owned[m] /\ n # m
      BY <2>1, <3>1 DEF GroupInv, PositionsOrdered, OnlyLeaves
    <3>2. CASE n = m /\ member[m] = "in"
      BY <1>1, <1>2, <2>1, <3>2
    <3>3. CASE ~(member[m] = "in" /\ p \in owned[m])
      BY <1>2, <2>1, <3>3 DEF GroupInv, PositionsOrdered, OnlyLeaves
    <3> QED
      BY <2>1, <3>1, <3>2, <3>3
  <2> QED
    BY <2>1, <2>2 DEF GroupInv, PositionsOrdered, OnlyLeaves
<1> QED
  BY <1>4, <1>5, <1>6 DEF GroupInv

(* A message is delivered.                                                 *)
LEMMA DeliverKeepsGroup ==
  ASSUME GroupInv, NEW m \in Members, NEW p \in Partitions, Deliver(m, p),
         UNCHANGED <<log, committed, faults>>
  PROVE  /\ GroupInv'
         /\ position' \in [Members -> [Partitions -> Nat]]
         /\ position'[m][p] = position[m][p] + 1
         /\ \A n \in Members : \A q \in Partitions :
              n # m \/ q # p => position'[n][q] = position[n][q]
         /\ position[m][p] + 1 \in 1..MaxLog
<1>1. /\ \A q \in Partitions : committed[q] \in Nat
      /\ Len(log[p]) \in Nat /\ Len(log[p]) <= MaxLog
      /\ position \in [Members -> [Partitions -> Nat]]
      /\ \A n \in Members : owned[n] \subseteq Partitions
  BY LenProperties DEF GroupInv, GroupTypeOK
<1>2. /\ position' \in [Members -> [Partitions -> Nat]]
      /\ position'[m][p] = position[m][p] + 1
      /\ \A n \in Members : \A q \in Partitions :
           n # m \/ q # p => position'[n][q] = position[n][q]
  BY <1>1 DEF Deliver
<1>3. position[m][p] \in Nat /\ position[m][p] < Len(log[p])
  BY <1>1 DEF Deliver
<1>4. position[m][p] + 1 \in 1..MaxLog
  BY <1>1, <1>3, ConsumerGroupAssumption
<1>5. GroupTypeOK'
  BY <1>2 DEF Deliver, GroupInv, GroupTypeOK
<1>6. PositionsOrdered'
  <2> SUFFICES ASSUME NEW n \in Members, NEW q \in owned[n]
               PROVE  /\ position'[n][q] <= Len(log[q])
                      /\ member[n] = "in" => committed[q] <= position'[n][q]
                      /\ \A k \in Members \ {n} :
                           member[n] = "in" /\ member[k] = "in" => q \notin owned[k]
    BY DEF PositionsOrdered, Deliver, GroupInv
  <2>1. CASE n = m /\ q = p
    BY <1>1, <1>2, <1>3, <2>1 DEF GroupInv, PositionsOrdered
  <2>2. CASE n # m \/ q # p
    BY <1>1, <1>2, <2>2 DEF GroupInv, PositionsOrdered
  <2> QED
    BY <2>1, <2>2
<1> QED
  BY <1>2, <1>4, <1>5, <1>6 DEF GroupInv

(* The partitions are assigned: everybody who holds one starts where the    *)
(* group has committed.                                                    *)
LEMMA AssignKeepsGroup ==
  ASSUME GroupInv, Assign, UNCHANGED <<log, committed, faults>>
  PROVE  /\ GroupInv'
         /\ \E f \in [Partitions -> Members] : \A n \in Members : \A p \in Partitions :
              p \in owned'[n] =>
                \/ p \in owned[n] /\ position'[n][p] = position[n][p]
                \/ n = f[p] /\ position'[n][p] = committed[p]
<1>1. PICK f \in [Partitions -> Waiting] :
        LET share(m) == {p \in Partitions : f[p] = m} IN
        /\ owned' = [m \in Members |-> IF m \in Waiting THEN share(m) ELSE owned[m]]
        /\ position' = [m \in Members |->
             [p \in Partitions |->
                IF m \in Waiting /\ p \in share(m) THEN committed[p] ELSE position[m][p]]]
  BY DEF Assign
<1>2. /\ owned' = [m \in Members |->
                     IF m \in Waiting THEN {p \in Partitions : f[p] = m} ELSE owned[m]]
      /\ position' = [m \in Members |->
           [p \in Partitions |->
              IF m \in Waiting /\ p \in {q \in Partitions : f[q] = m}
              THEN committed[p] ELSE position[m][p]]]
  BY <1>1
<1>3. Waiting \subseteq Members
  BY DEF Waiting
<1>4. /\ \A p \in Partitions : committed[p] \in Nat
      /\ \A n \in Members : owned[n] \subseteq Partitions
      /\ \A n \in Members : \A p \in Partitions : position[n][p] \in Nat
      /\ \A n \in Members : member[n] \in {"out", "in", "joined"}
      /\ generation \in Nat
  BY DEF GroupInv, GroupTypeOK
<1>5. /\ owned' \in [Members -> SUBSET Partitions]
      /\ position' \in [Members -> [Partitions -> Nat]]
      /\ \A n \in Members : \A p \in Partitions :
           /\ n \in Waiting => (p \in owned'[n] <=> f[p] = n)
           /\ n \notin Waiting => owned'[n] = owned[n]
           /\ n \in Waiting /\ f[p] = n => position'[n][p] = committed[p]
           /\ n \notin Waiting => position'[n][p] = position[n][p]
  BY <1>2, <1>4
<1>6. /\ member' \in [Members -> {"out", "in", "joined"}]
      /\ \A n \in Members : member'[n] = "in" => n \in Waiting
  BY <1>4 DEF Assign
<1>7. GroupTypeOK'
  BY <1>4, <1>5, <1>6 DEF Assign, GroupInv, GroupTypeOK
<1>8. PositionsOrdered'
  <2> SUFFICES ASSUME NEW n \in Members, NEW p \in owned'[n]
               PROVE  /\ position'[n][p] <= Len(log[p])
                      /\ member'[n] = "in" => committed[p] <= position'[n][p]
                      /\ \A k \in Members \ {n} :
                           member'[n] = "in" /\ member'[k] = "in" => p \notin owned'[k]
    BY DEF PositionsOrdered, GroupInv
  <2>1. p \in Partitions
    BY <1>5
  <2>2. CASE n \in Waiting
    BY <1>4, <1>5, <1>6, <2>1, <2>2 DEF GroupInv, PositionsOrdered
  <2>3. CASE n \notin Waiting
    BY <1>4, <1>5, <1>6, <2>1, <2>3 DEF GroupInv, PositionsOrdered
  <2> QED
    BY <2>2, <2>3
<1>9. f \in [Partitions -> Members]
  BY <1>3
<1>10. \A n \in Members : \A p \in Partitions :
         p \in owned'[n] =>
           \/ p \in owned[n] /\ position'[n][p] = position[n][p]
           \/ n = f[p] /\ position'[n][p] = committed[p]
  BY <1>5
<1> QED
  BY <1>7, <1>8, <1>9, <1>10 DEF GroupInv

(***************************************************************************)
(* 2. BatchConsumer                                                        *)
(***************************************************************************)

-----------------------------------------------------------------------------
(* The batch *)

(* The invariant of the loop, without the count of the processings.        *)
LoopInv ==
  /\ TypeOK
  /\ PositionsOrdered
  /\ CommittedIsProcessed
  /\ DeliveredIsHeld
  /\ CommittingIsProcessed

(* What the types say, piece by piece.                                     *)
LEMMA TypeFacts ==
  ASSUME LoopInv
  PROVE  /\ GroupInv
         /\ \A p \in Partitions : committed[p] \in Nat /\ committed[p] <= Len(log[p])
         /\ \A p \in Partitions : Len(log[p]) \in Nat /\ Len(log[p]) <= MaxLog
         /\ \A n \in Members : owned[n] \subseteq Partitions
         /\ \A n \in Members : \A p \in Partitions : position[n][p] \in Nat
         /\ \A n \in Members : \A p \in owned[n] : position[n][p] <= Len(log[p])
         /\ \A n \in Members : Len(batch[n]) \in Nat /\ Len(batch[n]) <= BatchSize
         /\ \A n \in Members : \A j \in 1..Len(batch[n]) :
              batch[n][j] \in Partitions \X (1..MaxLog)
         /\ \A p \in Partitions : \A i \in 1..MaxLog : processed[p][i] \in Nat
         /\ MaxLog \in Nat /\ BatchSize \in Nat \ {0}
<1>1. GroupTypeOK /\ PositionsOrdered
  BY DEF LoopInv, TypeOK
<1>2. \A n \in Members : batch[n] \in Seq(Partitions \X (1..MaxLog))
  BY DEF LoopInv, TypeOK
<1>3. \A n \in Members : Len(batch[n]) \in Nat
  BY <1>2, LenProperties
<1>4. \A n \in Members : \A j \in 1..Len(batch[n]) : batch[n][j] \in Partitions \X (1..MaxLog)
  BY <1>2, ElementOfSeq
<1>5. \A p \in Partitions : Len(log[p]) \in Nat
  BY <1>1, LenProperties DEF GroupTypeOK
<1> QED
  BY <1>1, <1>3, <1>4, <1>5, ConsumerGroupAssumption, BatchConsumerAssumption
     DEF GroupInv, GroupTypeOK, PositionsOrdered, LoopInv, TypeOK

(* Members leave, restart or are told to stop; a batch is only dropped by    *)
(* one that gives its partitions back.                                     *)
LEMMA LeavingKeepsLoop ==
  ASSUME LoopInv, OnlyLeaves,
         UNCHANGED <<log, committed, position, generation, processed>>,
         stable' \in BOOLEAN, faults' \in Nat,
         stage' \in [Members -> {"down", "polling", "committing"}],
         stopping' \in [Members -> BOOLEAN],
         batch' \in [Members -> Seq(Partitions \X (1..MaxLog))],
         \A n \in Members :
           /\ stage'[n] = "committing" => stage[n] = "committing"
           /\ batch'[n] = batch[n] \/ (batch'[n] = <<>> /\ owned'[n] = {})
  PROVE  LoopInv'
<1>1. GroupInv'
  BY TypeFacts, LeavingKeepsGroup
<1>2. \A n \in Members : Len(batch'[n]) <= BatchSize
  <2>1. Len(<<>>) = 0
    BY EmptySeq
  <2>2. \A n \in Members : batch'[n] = batch[n] \/ Len(batch'[n]) = 0
    BY <2>1
  <2>3. \A n \in Members : Len(batch[n]) <= BatchSize /\ 0 <= BatchSize
    BY TypeFacts
  <2> QED
    BY <2>2, <2>3
<1>3. TypeOK'
  BY <1>1, <1>2 DEF GroupInv, LoopInv, TypeOK
<1>4. DeliveredIsHeld'
  <2> SUFFICES ASSUME NEW n \in Members, NEW p \in owned'[n], NEW i \in 1..position[n][p]
               PROVE  processed[p][i] > 0 \/ InBatch(n, p, i)'
    BY DEF DeliveredIsHeld
  <2>1. p \in owned[n] /\ batch'[n] = batch[n]
    BY DEF OnlyLeaves
  <2>2. processed[p][i] > 0 \/ InBatch(n, p, i)
    BY <2>1 DEF LoopInv, DeliveredIsHeld
  <2> QED
    BY <2>1, <2>2 DEF InBatch
<1>5. CommittingIsProcessed'
  <2> SUFFICES ASSUME NEW n \in Members, stage'[n] = "committing", NEW j \in 1..Len(batch'[n])
               PROVE  processed[batch'[n][j][1]][batch'[n][j][2]] > 0
    BY DEF CommittingIsProcessed
  <2>1. batch'[n] = batch[n]
    BY EmptySeq
  <2> QED
    BY <2>1 DEF LoopInv, CommittingIsProcessed
<1> QED
  BY <1>1, <1>3, <1>4, <1>5 DEF GroupInv, LoopInv, CommittedIsProcessed

(* An untouched batch holds what it held.                                  *)
LEMMA BatchStays ==
  ASSUME UNCHANGED batch
  PROVE  \A m, p, i : InBatch(m, p, i)' <=> InBatch(m, p, i)
  BY DEF InBatch

(* A message is published.                                                 *)
LEMMA ProduceKeepsLoop ==
  ASSUME LoopInv, NEW p \in Partitions, NEW good \in BOOLEAN, Produce(p, good),
         UNCHANGED consumer
  PROVE  LoopInv'
<1>1. GroupInv'
  BY TypeFacts, ProduceKeepsGroup
<1>2. UNCHANGED <<committed, owned, position, stage, stopping, batch, processed>>
  BY DEF Produce, group, consumer
<1>3. TypeOK'
  <2>1. GroupTypeOK'
    BY <1>1 DEF GroupInv
  <2>2. TypeOK
    BY DEF LoopInv
  <2>3. UNCHANGED <<stage, stopping, batch, processed>>
    BY <1>2
  <2> QED
    BY <2>1, <2>2, <2>3, Zenon DEF TypeOK
<1>4. DeliveredIsHeld'
  <2>1. DeliveredIsHeld
    BY DEF LoopInv
  <2> QED
    BY <2>1, <1>2, BatchStays DEF DeliveredIsHeld
<1> QED
  BY <1>1, <1>2, <1>3, <1>4
     DEF GroupInv, LoopInv, CommittedIsProcessed, CommittingIsProcessed

(* A message of a batch that grows keeps its place.                        *)
LEMMA BatchGrows ==
  ASSUME LoopInv, NEW m \in Members, NEW x \in Partitions \X (1..MaxLog),
         batch' = [batch EXCEPT ![m] = Append(@, x)]
  PROVE  /\ batch' \in [Members -> Seq(Partitions \X (1..MaxLog))]
         /\ Len(batch'[m]) = Len(batch[m]) + 1
         /\ batch'[m][Len(batch[m]) + 1] = x
         /\ \A j \in 1..Len(batch[m]) : batch'[m][j] = batch[m][j]
         /\ \A n \in Members \ {m} : batch'[n] = batch[n]
<1>1. batch \in [Members -> Seq(Partitions \X (1..MaxLog))]
  BY DEF LoopInv, TypeOK
<1>2. batch'[m] = Append(batch[m], x)
  BY <1>1
<1> QED
  BY <1>1, <1>2, AppendProperties

(* Poll returns a message: it is in the batch.                             *)
LEMMA PollKeepsLoop ==
  ASSUME LoopInv, NEW m \in Members, PollMessage(m)
  PROVE  LoopInv'
<1>1. PICK p \in owned[m] :
        /\ Deliver(m, p)
        /\ batch' = [batch EXCEPT ![m] = Append(@, <<p, position[m][p] + 1>>)]
  BY DEF PollMessage
<1>2. p \in Partitions
  BY TypeFacts
<1>3. UNCHANGED <<log, committed, faults, stage, stopping, processed>>
  BY DEF PollMessage
<1>4. /\ GroupInv'
      /\ position'[m][p] = position[m][p] + 1
      /\ \A n \in Members : \A q \in Partitions :
           n # m \/ q # p => position'[n][q] = position[n][q]
      /\ position[m][p] + 1 \in 1..MaxLog
  BY <1>1, <1>2, <1>3, DeliverKeepsGroup, TypeFacts
<1>5. <<p, position[m][p] + 1>> \in Partitions \X (1..MaxLog)
  BY <1>2, <1>4
<1>6. /\ batch' \in [Members -> Seq(Partitions \X (1..MaxLog))]
      /\ Len(batch'[m]) = Len(batch[m]) + 1
      /\ batch'[m][Len(batch[m]) + 1] = <<p, position[m][p] + 1>>
      /\ \A j \in 1..Len(batch[m]) : batch'[m][j] = batch[m][j]
      /\ \A n \in Members \ {m} : batch'[n] = batch[n]
  BY <1>1, <1>5, BatchGrows
<1>7. TypeOK'
  <2>1. \A n \in Members : Len(batch'[n]) <= BatchSize
    BY <1>6, TypeFacts DEF PollMessage, Polling
  <2> QED
    BY <2>1, <1>3, <1>4, <1>6 DEF GroupInv, LoopInv, TypeOK
<1>8. DeliveredIsHeld'
  <2> SUFFICES ASSUME NEW n \in Members, NEW q \in owned[n], NEW i \in 1..position'[n][q]
               PROVE  processed[q][i] > 0 \/ InBatch(n, q, i)'
    BY <1>1, <1>3 DEF DeliveredIsHeld, Deliver
  <2>1. q \in Partitions
    BY TypeFacts
  <2>2. CASE n = m /\ q = p /\ i = position[m][p] + 1
    <3>1. Len(batch[m]) + 1 \in 1..Len(batch'[m])
      BY <1>6, TypeFacts
    <3> QED
      BY <3>1, <1>6, <2>2 DEF InBatch
  <2>3. CASE ~(n = m /\ q = p /\ i = position[m][p] + 1)
    <3>1. i \in 1..position[n][q]
      BY <1>4, <2>1, <2>3, TypeFacts
    <3>2. processed[q][i] > 0 \/ InBatch(n, q, i)
      BY <3>1 DEF LoopInv, DeliveredIsHeld
    <3>3. \A j \in 1..Len(batch[n]) : j \in 1..Len(batch'[n]) /\ batch'[n][j] = batch[n][j]
      <4>1. Len(batch[n]) \in Nat
        BY TypeFacts
      <4>2. CASE n = m
        <5>1. Len(batch'[n]) = Len(batch[n]) + 1
          BY <4>2, <1>6
        <5>2. \A j \in 1..Len(batch[n]) : batch'[n][j] = batch[n][j]
          BY <4>2, <1>6
        <5> QED
          BY <4>1, <5>1, <5>2
      <4>3. CASE n # m
        BY <4>3, <1>6
      <4> QED
        BY <4>2, <4>3
    <3> QED
      BY <3>2, <3>3, <1>3 DEF InBatch
  <2> QED
    BY <2>2, <2>3
<1>9. CommittingIsProcessed'
  <2> SUFFICES ASSUME NEW n \in Members, stage[n] = "committing", NEW j \in 1..Len(batch'[n])
               PROVE  processed[batch'[n][j][1]][batch'[n][j][2]] > 0
    BY <1>3 DEF CommittingIsProcessed
  <2>1. n # m
    BY DEF PollMessage, Polling
  <2> QED
    BY <2>1, <1>6 DEF LoopInv, CommittingIsProcessed
<1> QED
  BY <1>3, <1>4, <1>7, <1>8, <1>9 DEF GroupInv, LoopInv, CommittedIsProcessed

(* The partitions are assigned.                                            *)
LEMMA AssignKeepsLoop ==
  ASSUME LoopInv, AssignPartitions
  PROVE  LoopInv'
<1>1. UNCHANGED <<log, committed, faults, stage, stopping, batch, processed>>
  BY DEF AssignPartitions, consumer
<1>2. PICK f \in [Partitions -> Members] :
        /\ GroupInv'
        /\ \A n \in Members : \A p \in Partitions :
             p \in owned'[n] =>
               \/ p \in owned[n] /\ position'[n][p] = position[n][p]
               \/ n = f[p] /\ position'[n][p] = committed[p]
  BY <1>1, TypeFacts, AssignKeepsGroup DEF AssignPartitions
<1>3. TypeOK'
  BY <1>1, <1>2 DEF GroupInv, LoopInv, TypeOK
<1>4. DeliveredIsHeld'
  <2> SUFFICES ASSUME NEW n \in Members, NEW p \in owned'[n], NEW i \in 1..position'[n][p]
               PROVE  processed[p][i] > 0 \/ InBatch(n, p, i)
    BY <1>1 DEF DeliveredIsHeld, InBatch
  <2>1. p \in Partitions
    BY <1>2 DEF GroupInv, GroupTypeOK
  <2>2. CASE p \in owned[n] /\ position'[n][p] = position[n][p]
    BY <2>2 DEF LoopInv, DeliveredIsHeld
  <2>3. CASE position'[n][p] = committed[p]
    BY <2>1, <2>3 DEF LoopInv, CommittedIsProcessed
  <2> QED
    BY <1>2, <2>1, <2>2, <2>3
<1> QED
  BY <1>1, <1>2, <1>3, <1>4
     DEF GroupInv, LoopInv, CommittedIsProcessed, CommittingIsProcessed

(* How often a message is in a batch: what processBatch adds to its count.  *)
Places(m, x) == {j \in 1..Len(batch[m]) : batch[m][j] = x}

LEMMA PlacesFacts ==
  ASSUME LoopInv, NEW m \in Members, NEW x
  PROVE  /\ IsFiniteSet(Places(m, x))
         /\ Cardinality(Places(m, x)) \in Nat
         /\ \A j \in 1..Len(batch[m]) : batch[m][j] = x => Cardinality(Places(m, x)) > 0
<1>1. Len(batch[m]) \in Nat
  BY TypeFacts
<1>2. IsFiniteSet(1..Len(batch[m]))
  BY <1>1, FS_Interval
<1>3. Places(m, x) \in SUBSET (1..Len(batch[m]))
  BY DEF Places
<1>4. IsFiniteSet(Places(m, x))
  BY <1>2, <1>3, FS_Subset
<1>5. Cardinality(Places(m, x)) \in Nat
  BY <1>4, FS_CardinalityType
<1>6. Cardinality(Places(m, x)) = 0 <=> Places(m, x) = {}
  BY <1>4, FS_EmptySet
<1>7. ASSUME NEW j \in 1..Len(batch[m]), batch[m][j] = x
      PROVE  Cardinality(Places(m, x)) > 0
  <2>1. j \in Places(m, x)
    BY <1>7 DEF Places
  <2> QED
    BY <2>1, <1>5, <1>6
<1> QED
  BY <1>4, <1>5, <1>7

(* processBatch counts every message of the batch.                         *)
LEMMA ProcessedFacts ==
  ASSUME LoopInv, NEW m \in Members, processed' = Processed(m)
  PROVE  /\ processed' \in [Partitions -> [1..MaxLog -> Nat]]
         /\ \A p \in Partitions : \A i \in 1..MaxLog :
              /\ processed'[p][i] = processed[p][i] + Cardinality(Places(m, <<p, i>>))
              /\ processed'[p][i] >= processed[p][i]
              /\ InBatch(m, p, i) => processed'[p][i] > 0
<1>1. \A p \in Partitions : \A i \in 1..MaxLog :
        /\ processed[p][i] \in Nat
        /\ Cardinality(Places(m, <<p, i>>)) \in Nat
        /\ InBatch(m, p, i) => Cardinality(Places(m, <<p, i>>)) > 0
  BY TypeFacts, PlacesFacts DEF InBatch
<1>2. processed' = [p \in Partitions |-> [i \in 1..MaxLog |->
                      processed[p][i] + Cardinality(Places(m, <<p, i>>))]]
  BY DEF Processed, Places
<1> QED
  BY <1>1, <1>2

(* The batch is processed.                                                 *)
LEMMA ProcessKeepsLoop ==
  ASSUME LoopInv, NEW m \in Members, ProcessBatch(m)
  PROVE  LoopInv'
<1>1. UNCHANGED <<log, committed, member, stable, owned, position, generation, faults, stopping>>
  BY DEF ProcessBatch, groupVars, group
<1>2. /\ processed' \in [Partitions -> [1..MaxLog -> Nat]]
      /\ \A p \in Partitions : \A i \in 1..MaxLog :
           /\ processed'[p][i] >= processed[p][i]
           /\ InBatch(m, p, i) => processed'[p][i] > 0
  BY ProcessedFacts DEF ProcessBatch
<1>3. \/ batch' = batch /\ stage' = [stage EXCEPT ![m] = "committing"]
      \/ batch' = [batch EXCEPT ![m] = <<>>] /\ stage' = stage
  BY DEF ProcessBatch
<1>4. /\ \A n \in Members \ {m} : batch'[n] = batch[n] /\ stage'[n] = stage[n]
      /\ batch'[m] = batch[m] \/ batch'[m] = <<>>
      /\ \A n \in Members : Len(batch'[n]) <= BatchSize
      /\ batch' \in [Members -> Seq(Partitions \X (1..MaxLog))]
      /\ stage' \in [Members -> {"down", "polling", "committing"}]
  <2>1. /\ batch \in [Members -> Seq(Partitions \X (1..MaxLog))]
        /\ stage \in [Members -> {"down", "polling", "committing"}]
    BY DEF LoopInv, TypeOK
  <2>2. <<>> \in Seq(Partitions \X (1..MaxLog)) /\ Len(<<>>) = 0
    BY EmptySeq
  <2>3. /\ batch' \in [Members -> Seq(Partitions \X (1..MaxLog))]
        /\ stage' \in [Members -> {"down", "polling", "committing"}]
        /\ \A n \in Members \ {m} : batch'[n] = batch[n] /\ stage'[n] = stage[n]
        /\ batch'[m] = batch[m] \/ batch'[m] = <<>>
    BY <2>1, <2>2, <1>3
  <2>4. \A n \in Members : batch'[n] = batch[n] \/ Len(batch'[n]) = 0
    BY <2>2, <2>3
  <2>5. \A n \in Members : Len(batch[n]) <= BatchSize /\ 0 <= BatchSize
    BY TypeFacts
  <2>6. \A n \in Members : Len(batch'[n]) <= BatchSize
    BY <2>4, <2>5
  <2> QED
    BY <2>3, <2>6
<1>5. TypeOK' /\ PositionsOrdered'
  BY <1>1, <1>2, <1>4 DEF LoopInv, TypeOK, GroupTypeOK, PositionsOrdered
<1>6. \A p \in Partitions : \A i \in 1..MaxLog : processed[p][i] > 0 => processed'[p][i] > 0
  BY <1>2, TypeFacts
<1>7. CommittedIsProcessed'
  <2> SUFFICES ASSUME NEW p \in Partitions, NEW i \in 1..committed[p]
               PROVE  processed'[p][i] > 0
    BY <1>1 DEF CommittedIsProcessed
  <2>1. i \in 1..MaxLog
    BY TypeFacts
  <2> QED
    BY <2>1, <1>6 DEF LoopInv, CommittedIsProcessed
<1>8. DeliveredIsHeld'
  <2> SUFFICES ASSUME NEW n \in Members, NEW p \in owned[n], NEW i \in 1..position[n][p]
               PROVE  processed'[p][i] > 0 \/ InBatch(n, p, i)'
    BY <1>1 DEF DeliveredIsHeld
  <2>1. p \in Partitions /\ i \in 1..MaxLog
    BY TypeFacts
  <2>2. processed[p][i] > 0 \/ InBatch(n, p, i)
    BY DEF LoopInv, DeliveredIsHeld
  <2>3. CASE processed[p][i] > 0
    BY <2>1, <2>3, <1>6
  <2>4. CASE InBatch(n, p, i) /\ n = m
    BY <2>1, <2>4, <1>2
  <2>5. CASE InBatch(n, p, i) /\ n # m
    BY <2>5, <1>4 DEF InBatch
  <2> QED
    BY <2>2, <2>3, <2>4, <2>5
<1>9. CommittingIsProcessed'
  <2> SUFFICES ASSUME NEW n \in Members, stage'[n] = "committing", NEW j \in 1..Len(batch'[n])
               PROVE  processed'[batch'[n][j][1]][batch'[n][j][2]] > 0
    BY DEF CommittingIsProcessed
  <2>1. batch'[n] = batch[n]
    BY <1>4, EmptySeq
  <2> DEFINE x == batch[n][j]
  <2>2. x \in Partitions \X (1..MaxLog) /\ j \in 1..Len(batch[n])
    BY <2>1, TypeFacts
  <2>3. x[1] \in Partitions /\ x[2] \in 1..MaxLog /\ x = <<x[1], x[2]>>
    BY <2>2
  <2>4. CASE n = m
    BY <2>2, <2>3, <2>4, <2>1, <1>2 DEF InBatch
  <2>5. CASE n # m
    BY <2>5, <2>1, <2>2, <2>3, <1>4, <1>6 DEF LoopInv, CommittingIsProcessed
  <2> QED
    BY <2>4, <2>5
<1> QED
  BY <1>5, <1>7, <1>8, <1>9 DEF LoopInv

(* The positions are committed: everything below them was processed.       *)
LEMMA CommitKeepsLoop ==
  ASSUME LoopInv, NEW m \in Members, Commit(m)
  PROVE  /\ LoopInv'
         /\ \A p \in Partitions : committed[p] <= committed'[p]
<1>1. /\ CommitPositions(m)
      /\ UNCHANGED <<log, member, stable, owned, position, generation, faults,
                     stopping, processed>>
  BY DEF Commit, group
<1>2. OnlyLeaves
  BY <1>1 DEF OnlyLeaves, LoopInv, TypeOK, GroupTypeOK
<1>3. /\ GroupInv'
      /\ \A p \in Partitions : committed[p] <= committed'[p]
  <2>1. stable' \in BOOLEAN /\ faults' \in Nat
    BY <1>1 DEF LoopInv, TypeOK, GroupTypeOK
  <2> QED
    BY <1>1, <1>2, <2>1, CommitKeepsGroup, TypeFacts
<1>4. /\ \A n \in Members \ {m} : batch'[n] = batch[n] /\ stage'[n] = stage[n]
      /\ batch'[m] = <<>> /\ stage'[m] = "polling"
      /\ batch' \in [Members -> Seq(Partitions \X (1..MaxLog))]
      /\ stage' \in [Members -> {"down", "polling", "committing"}]
  <2>1. /\ batch \in [Members -> Seq(Partitions \X (1..MaxLog))]
        /\ stage \in [Members -> {"down", "polling", "committing"}]
    BY DEF LoopInv, TypeOK
  <2>2. <<>> \in Seq(Partitions \X (1..MaxLog))
    BY EmptySeq
  <2> QED
    BY <2>1, <2>2 DEF Commit
<1>5. \A n \in Members : Len(batch'[n]) <= BatchSize
  <2>1. Len(<<>>) = 0
    BY EmptySeq
  <2>2. \A n \in Members : batch'[n] = batch[n] \/ Len(batch'[n]) = 0
    BY <2>1, <1>4
  <2>3. \A n \in Members : Len(batch[n]) <= BatchSize /\ 0 <= BatchSize
    BY TypeFacts
  <2> QED
    BY <2>2, <2>3
<1>6. TypeOK'
  BY <1>1, <1>3, <1>4, <1>5 DEF GroupInv, LoopInv, TypeOK
<1>7. ASSUME NEW p \in owned[m], NEW i \in 1..position[m][p]
      PROVE  processed[p][i] > 0
  <2>1. processed[p][i] > 0 \/ InBatch(m, p, i)
    BY <1>7 DEF LoopInv, DeliveredIsHeld
  <2>2. ASSUME NEW j \in 1..Len(batch[m]), batch[m][j] = <<p, i>>
        PROVE  processed[p][i] > 0
    BY <2>2 DEF LoopInv, CommittingIsProcessed, Commit
  <2> QED
    BY <2>1, <2>2 DEF InBatch
<1>8. CommittedIsProcessed'
  <2> SUFFICES ASSUME NEW p \in Partitions, NEW i \in 1..committed'[p]
               PROVE  processed[p][i] > 0
    BY <1>1 DEF CommittedIsProcessed
  <2>1. CASE p \in owned[m] /\ committed'[p] = position[m][p]
    BY <2>1, <1>7
  <2>2. CASE committed'[p] = committed[p]
    BY <2>2 DEF LoopInv, CommittedIsProcessed
  <2> QED
    BY <2>1, <2>2, <1>1 DEF CommitPositions
<1>9. DeliveredIsHeld'
  <2> SUFFICES ASSUME NEW n \in Members, NEW p \in owned[n], NEW i \in 1..position[n][p]
               PROVE  processed[p][i] > 0 \/ InBatch(n, p, i)'
    BY <1>1 DEF DeliveredIsHeld
  <2>1. CASE n = m
    BY <2>1, <1>7
  <2>2. CASE n # m
    <3>1. processed[p][i] > 0 \/ InBatch(n, p, i)
      BY DEF LoopInv, DeliveredIsHeld
    <3>2. batch'[n] = batch[n]
      BY <2>2, <1>4
    <3> QED
      BY <3>1, <3>2 DEF InBatch
  <2> QED
    BY <2>1, <2>2
<1>10. CommittingIsProcessed'
  <2> SUFFICES ASSUME NEW n \in Members, stage'[n] = "committing", NEW j \in 1..Len(batch'[n])
               PROVE  processed[batch'[n][j][1]][batch'[n][j][2]] > 0
    BY <1>1 DEF CommittingIsProcessed
  <2>1. n # m
    BY <1>4
  <2> QED
    BY <2>1, <1>4 DEF LoopInv, CommittingIsProcessed
<1> QED
  BY <1>3, <1>6, <1>8, <1>9, <1>10 DEF GroupInv, LoopInv
-----------------------------------------------------------------------------
(* The count *)

(* There are finitely many chances, at most one more with another element. *)
LEMMA ChancesFinite ==
  ASSUME NEW p, NEW i
  PROVE  IsFiniteSet(Chances(p, i)) /\ Cardinality(Chances(p, i)) \in Nat
<1>1. IsFiniteSet(0..BatchSize)
  BY FS_Interval, BatchConsumerAssumption
<1>2. IsFiniteSet(Members \X (0..BatchSize))
  BY <1>1, FS_Product, ConsumerGroupAssumption
<1>3. Chances(p, i) \in SUBSET (Members \X (0..BatchSize))
  BY DEF Chances
<1>4. IsFiniteSet(Chances(p, i))
  BY <1>2, <1>3, FS_Subset
<1> QED
  BY <1>4, FS_CardinalityType

(* A step that processes nothing and opens no chance.                      *)
LEMMA NoNewChance ==
  ASSUME TypeOK, ProcessingsAreCounted, UNCHANGED <<processed, generation>>,
         NEW p \in Partitions, NEW i \in 1..MaxLog, Chances(p, i)' \subseteq Chances(p, i)
  PROVE  processed'[p][i] + Cardinality(Chances(p, i)') <= generation'
<1>1. IsFiniteSet(Chances(p, i)) /\ Cardinality(Chances(p, i)) \in Nat
  BY ChancesFinite
<1>2. /\ Cardinality(Chances(p, i)') <= Cardinality(Chances(p, i))
      /\ IsFiniteSet(Chances(p, i)')
  BY <1>1, FS_Subset
<1>3. Cardinality(Chances(p, i)') \in Nat
  BY <1>2, FS_CardinalityType
<1>4. processed[p][i] \in Nat /\ generation \in Nat
  BY DEF TypeOK, GroupTypeOK
<1>5. processed[p][i] + Cardinality(Chances(p, i)) <= generation
  BY DEF ProcessingsAreCounted
<1>6. processed' = processed /\ generation' = generation
  OBVIOUS
<1>7. processed[p][i] + Cardinality(Chances(p, i)') <= generation
  BY <1>1, <1>2, <1>3, <1>4, <1>5
<1> QED
  BY <1>6, <1>7

(* A client that gives partitions up, a batch that is dropped or kept.     *)
LEMMA LeavingKeepsCount ==
  ASSUME TypeOK, ProcessingsAreCounted, UNCHANGED <<processed, generation, position>>,
         \A n \in Members :
           /\ owned'[n] \subseteq owned[n]
           /\ \/ batch'[n] = <<>>
              \/ batch'[n] = batch[n] /\ (stage'[n] = "committing" <=> stage[n] = "committing")
  PROVE  ProcessingsAreCounted'
<1> SUFFICES ASSUME NEW p \in Partitions, NEW i \in 1..MaxLog
             PROVE  processed'[p][i] + Cardinality(Chances(p, i)') <= generation'
  BY DEF ProcessingsAreCounted
<1>1. ASSUME NEW c \in Chances(p, i)'
      PROVE  c \in Chances(p, i)
  <2>1. c \in Members \X (0..BatchSize)
    BY DEF Chances
  <2>2. c[1] \in Members
    BY <2>1
  <2>3. CASE c[2] = 0 /\ p \in owned'[c[1]] /\ position[c[1]][p] < i
    BY <2>1, <2>2, <2>3 DEF Chances
  <2>4. CASE /\ stage'[c[1]] # "committing"
             /\ c[2] \in 1..Len(batch'[c[1]]) /\ batch'[c[1]][c[2]] = <<p, i>>
    <3>1. batch'[c[1]] # <<>>
      <4>1. Len(<<>>) = 0
        BY EmptySeq
      <4> QED
        BY <2>4, <4>1
    <3>2. /\ batch'[c[1]] = batch[c[1]]
          /\ stage'[c[1]] = "committing" <=> stage[c[1]] = "committing"
      BY <2>2, <3>1
    <3> QED
      BY <2>1, <2>4, <3>2 DEF Chances
  <2> QED
    BY <2>3, <2>4 DEF Chances
<1> QED
  BY <1>1, NoNewChance

(* Poll uses up the chance of its client and opens one in the batch.       *)
LEMMA PollKeepsCount ==
  ASSUME LoopInv, ProcessingsAreCounted, NEW m \in Members, PollMessage(m)
  PROVE  ProcessingsAreCounted'
<1>1. PICK q \in owned[m] :
        /\ Deliver(m, q)
        /\ batch' = [batch EXCEPT ![m] = Append(@, <<q, position[m][q] + 1>>)]
  BY DEF PollMessage
<1>2. q \in Partitions
  BY TypeFacts
<1>3. /\ UNCHANGED <<log, committed, faults, stage, stopping, processed>>
      /\ UNCHANGED <<member, stable, owned, generation>>
  BY <1>1 DEF PollMessage, Deliver
<1>4. /\ position'[m][q] = position[m][q] + 1
      /\ \A n \in Members : \A p \in Partitions :
           n # m \/ p # q => position'[n][p] = position[n][p]
      /\ position[m][q] + 1 \in 1..MaxLog
  BY <1>1, <1>2, <1>3, DeliverKeepsGroup, TypeFacts
<1>5. /\ Len(batch'[m]) = Len(batch[m]) + 1
      /\ batch'[m][Len(batch[m]) + 1] = <<q, position[m][q] + 1>>
      /\ \A j \in 1..Len(batch[m]) : batch'[m][j] = batch[m][j]
      /\ \A n \in Members \ {m} : batch'[n] = batch[n]
  <2>1. <<q, position[m][q] + 1>> \in Partitions \X (1..MaxLog)
    BY <1>2, <1>4
  <2> QED
    BY <1>1, <2>1, BatchGrows
<1>6. stage[m] # "committing" /\ Len(batch[m]) \in 0..(BatchSize - 1)
  BY TypeFacts DEF PollMessage, Polling
<1>7. \A n \in Members : \A p \in Partitions : position[n][p] \in Nat
  BY TypeFacts
<1> DEFINE claim == <<m, 0>>
           place == <<m, Len(batch[m]) + 1>>
<1> SUFFICES ASSUME NEW p \in Partitions, NEW i \in 1..MaxLog
             PROVE  processed'[p][i] + Cardinality(Chances(p, i)') <= generation'
  BY DEF ProcessingsAreCounted
<1>8. ASSUME NEW c \in Chances(p, i)'
      PROVE  \/ c \in Chances(p, i) /\ ~(c = claim /\ p = q /\ i = position[m][q] + 1)
             \/ c = place /\ p = q /\ i = position[m][q] + 1
  <2>1. c \in Members \X (0..BatchSize) /\ c = <<c[1], c[2]>>
    BY DEF Chances
  <2>2. c[1] \in Members /\ c[2] \in 0..BatchSize
    BY <2>1
  <2>3. CASE c[2] = 0 /\ p \in owned[c[1]] /\ position'[c[1]][p] < i
    <3>1. position[c[1]][p] < i
      BY <2>2, <2>3, <1>4, <1>7
    <3>2. ~(c = claim /\ p = q /\ i = position[m][q] + 1)
      BY <2>3, <1>4, <1>7, <1>2
    <3>3. c \in Chances(p, i)
      BY <2>1, <2>3, <3>1 DEF Chances
    <3> QED
      BY <3>2, <3>3
  <2>4. CASE /\ stage[c[1]] # "committing"
             /\ c[2] \in 1..Len(batch'[c[1]]) /\ batch'[c[1]][c[2]] = <<p, i>>
    <3>1. c # claim
      BY <2>4
    <3>2. CASE c[1] # m
      <4>1. batch'[c[1]] = batch[c[1]]
        BY <2>2, <3>2, <1>5
      <4> QED
        BY <2>1, <2>4, <3>1, <4>1 DEF Chances
    <3>3. CASE c[1] = m /\ c[2] = Len(batch[m]) + 1
      <4>1. <<p, i>> = <<q, position[m][q] + 1>>
        BY <2>4, <3>3, <1>5
      <4> QED
        BY <2>1, <3>3, <4>1
    <3>4. CASE c[1] = m /\ c[2] # Len(batch[m]) + 1
      <4>1. c[2] \in 1..Len(batch[m])
        BY <2>4, <3>4, <1>5, <1>6
      <4>2. batch[c[1]][c[2]] = <<p, i>>
        BY <2>4, <3>4, <4>1, <1>5
      <4>3. c \in Chances(p, i)
        BY <2>1, <2>4, <3>4, <4>1, <4>2 DEF Chances
      <4> QED
        BY <3>1, <4>3
    <3> QED
      BY <3>2, <3>3, <3>4
  <2> QED
    BY <2>3, <2>4, <1>3 DEF Chances
<1>9. CASE ~(p = q /\ i = position[m][q] + 1)
  <2>1. Chances(p, i)' \subseteq Chances(p, i)
    BY <1>8, <1>9
  <2> QED
    BY <2>1, <1>3, NoNewChance DEF LoopInv
<1>10. CASE p = q /\ i = position[m][q] + 1
  <2> DEFINE S == Chances(p, i)
  <2>1. IsFiniteSet(S) /\ Cardinality(S) \in Nat
    BY ChancesFinite
  <2>2. claim \in S
    <3>1. claim \in Members \X (0..BatchSize)
      BY BatchConsumerAssumption
    <3>2. position[m][p] < i
      BY <1>10, <1>7
    <3> QED
      BY <3>1, <3>2, <1>10 DEF Chances
  <2>3. Chances(p, i)' \in SUBSET ((S \ {claim}) \cup {place})
    BY <1>8, <1>10
  <2>4. IsFiniteSet(S \ {claim}) /\ Cardinality(S \ {claim}) = Cardinality(S) - 1
    BY <2>1, <2>2, FS_RemoveElement
  <2>5. /\ IsFiniteSet((S \ {claim}) \cup {place})
        /\ Cardinality((S \ {claim}) \cup {place}) \in {Cardinality(S) - 1, Cardinality(S)}
    <3>1. /\ IsFiniteSet((S \ {claim}) \cup {place})
          /\ Cardinality((S \ {claim}) \cup {place}) =
               IF place \in S \ {claim} THEN Cardinality(S \ {claim})
               ELSE Cardinality(S \ {claim}) + 1
      BY <2>4, FS_AddElement
    <3> QED
      BY <3>1, <2>1, <2>4
  <2>6. /\ Cardinality(Chances(p, i)') <= Cardinality((S \ {claim}) \cup {place})
        /\ IsFiniteSet(Chances(p, i)')
    BY <2>3, <2>5, FS_Subset
  <2>7. Cardinality(Chances(p, i)') \in Nat
    BY <2>6, FS_CardinalityType
  <2>8. Cardinality(Chances(p, i)') <= Cardinality(S)
    BY <2>1, <2>5, <2>6, <2>7
  <2>9. processed[p][i] \in Nat /\ generation \in Nat
    BY DEF LoopInv, TypeOK, GroupTypeOK
  <2>10. processed[p][i] + Cardinality(S) <= generation
    BY DEF ProcessingsAreCounted
  <2>11. processed[p][i] + Cardinality(Chances(p, i)') <= generation
    BY <2>1, <2>7, <2>8, <2>9, <2>10
  <2> QED
    BY <2>11, <1>3
<1> QED
  BY <1>9, <1>10

(* An assignment gives every message one chance at most: through the member *)
(* that its partition goes to.                                             *)
LEMMA AssignKeepsCount ==
  ASSUME LoopInv, ProcessingsAreCounted, AssignPartitions
  PROVE  ProcessingsAreCounted'
<1>1. /\ UNCHANGED <<log, committed, faults, stage, stopping, batch, processed>>
      /\ generation' = generation + 1
  BY DEF AssignPartitions, Assign, consumer
<1>2. PICK f \in [Partitions -> Members] :
        \A n \in Members : \A p \in Partitions :
          p \in owned'[n] =>
            \/ p \in owned[n] /\ position'[n][p] = position[n][p]
            \/ n = f[p] /\ position'[n][p] = committed[p]
  BY <1>1, TypeFacts, AssignKeepsGroup DEF AssignPartitions
<1> SUFFICES ASSUME NEW p \in Partitions, NEW i \in 1..MaxLog
             PROVE  processed'[p][i] + Cardinality(Chances(p, i)') <= generation'
  BY DEF ProcessingsAreCounted
<1> DEFINE S == Chances(p, i)
           claim == <<f[p], 0>>
<1>3. IsFiniteSet(S) /\ Cardinality(S) \in Nat
  BY ChancesFinite
<1>4. Chances(p, i)' \in SUBSET (S \cup {claim})
  <2> SUFFICES ASSUME NEW c \in Chances(p, i)', c # claim
               PROVE  c \in S
    OBVIOUS
  <2>1. c \in Members \X (0..BatchSize) /\ c = <<c[1], c[2]>>
    BY DEF Chances
  <2>2. c[1] \in Members
    BY <2>1
  <2>3. CASE c[2] = 0 /\ p \in owned'[c[1]] /\ position'[c[1]][p] < i
    <3>1. c[1] # f[p]
      BY <2>1, <2>3
    <3>2. p \in owned[c[1]] /\ position'[c[1]][p] = position[c[1]][p]
      BY <1>2, <2>2, <2>3, <3>1
    <3> QED
      BY <2>1, <2>3, <3>2 DEF Chances
  <2>4. CASE /\ stage[c[1]] # "committing"
             /\ c[2] \in 1..Len(batch[c[1]]) /\ batch[c[1]][c[2]] = <<p, i>>
    BY <2>1, <2>4 DEF Chances
  <2> QED
    BY <2>3, <2>4, <1>1 DEF Chances
<1>5. /\ IsFiniteSet(S \cup {claim})
      /\ Cardinality(S \cup {claim}) \in {Cardinality(S), Cardinality(S) + 1}
  <2>1. /\ IsFiniteSet(S \cup {claim})
        /\ Cardinality(S \cup {claim}) =
             IF claim \in S THEN Cardinality(S) ELSE Cardinality(S) + 1
    BY <1>3, FS_AddElement
  <2> QED
    BY <2>1
<1>6. /\ Cardinality(Chances(p, i)') <= Cardinality(S \cup {claim})
      /\ IsFiniteSet(Chances(p, i)')
  BY <1>4, <1>5, FS_Subset
<1>7. Cardinality(Chances(p, i)') \in Nat
  BY <1>6, FS_CardinalityType
<1>8. Cardinality(Chances(p, i)') <= Cardinality(S) + 1
  BY <1>3, <1>5, <1>6, <1>7
<1>9. processed[p][i] \in Nat /\ generation \in Nat
  BY DEF LoopInv, TypeOK, GroupTypeOK
<1>10. processed[p][i] + Cardinality(S) <= generation
  BY DEF ProcessingsAreCounted
<1>11. processed[p][i] + Cardinality(Chances(p, i)') <= generation + 1
  BY <1>3, <1>7, <1>8, <1>9, <1>10
<1> QED
  BY <1>11, <1>1

(* processBatch turns every chance of its batch into a processing.         *)
LEMMA ProcessKeepsCount ==
  ASSUME LoopInv, ProcessingsAreCounted, NEW m \in Members, ProcessBatch(m)
  PROVE  ProcessingsAreCounted'
<1>1. /\ UNCHANGED <<owned, position, generation>>
      /\ stage[m] # "committing"
  BY DEF ProcessBatch, groupVars, group
<1>2. \A n \in Members \ {m} : batch'[n] = batch[n] /\ stage'[n] = stage[n]
  BY DEF ProcessBatch, LoopInv, TypeOK
<1>3. stage'[m] = "committing" \/ batch'[m] = <<>>
  BY DEF ProcessBatch, LoopInv, TypeOK
<1> SUFFICES ASSUME NEW p \in Partitions, NEW i \in 1..MaxLog
             PROVE  processed'[p][i] + Cardinality(Chances(p, i)') <= generation'
  BY DEF ProcessingsAreCounted
<1> DEFINE S == Chances(p, i)
           P == Places(m, <<p, i>>)
           used == {m} \X P
<1>4. IsFiniteSet(S) /\ Cardinality(S) \in Nat
  BY ChancesFinite
<1>5. IsFiniteSet(P) /\ Cardinality(P) \in Nat
  BY PlacesFacts
<1>6. IsFiniteSet(used) /\ Cardinality(used) = Cardinality(P)
  <2>1. IsFiniteSet({m}) /\ Cardinality({m}) = 1
    BY FS_Singleton
  <2>2. IsFiniteSet(used) /\ Cardinality(used) = Cardinality({m}) * Cardinality(P)
    BY <2>1, <1>5, FS_Product
  <2> QED
    BY <2>1, <2>2, <1>5
<1>7. used \subseteq S
  <2> SUFFICES ASSUME NEW j \in P
               PROVE  <<m, j>> \in S
    OBVIOUS
  <2>1. j \in 1..Len(batch[m]) /\ batch[m][j] = <<p, i>>
    BY DEF Places
  <2>2. j \in 0..BatchSize
    BY <2>1, TypeFacts
  <2> QED
    BY <2>1, <2>2, <1>1 DEF Chances
<1>8. Chances(p, i)' \in SUBSET (S \ used)
  <2> SUFFICES ASSUME NEW c \in Chances(p, i)'
               PROVE  c \in S /\ c \notin used
    OBVIOUS
  <2>1. c \in Members \X (0..BatchSize) /\ c = <<c[1], c[2]>>
    BY DEF Chances
  <2>2. c[1] \in Members
    BY <2>1
  <2>3. CASE c[2] = 0 /\ p \in owned[c[1]] /\ position[c[1]][p] < i
    <3>1. c \notin used
      BY <2>3 DEF Places
    <3> QED
      BY <2>1, <2>3, <3>1 DEF Chances
  <2>4. CASE /\ stage'[c[1]] # "committing"
             /\ c[2] \in 1..Len(batch'[c[1]]) /\ batch'[c[1]][c[2]] = <<p, i>>
    <3>1. c[1] # m
      <4>1. Len(<<>>) = 0
        BY EmptySeq
      <4> QED
        BY <2>4, <1>3, <4>1
    <3>2. batch'[c[1]] = batch[c[1]] /\ stage'[c[1]] = stage[c[1]]
      BY <1>2, <2>2, <3>1
    <3> QED
      BY <2>1, <2>4, <3>1, <3>2 DEF Chances
  <2> QED
    BY <2>3, <2>4, <1>1 DEF Chances
<1>9. /\ IsFiniteSet(S \ used)
      /\ Cardinality(S \ used) = Cardinality(S) - Cardinality(P)
  <2>1. S \cap used = used
    BY <1>7
  <2>2. /\ IsFiniteSet(S \ used)
        /\ Cardinality(S \ used) = Cardinality(S) - Cardinality(S \cap used)
    BY <1>4, FS_Difference
  <2> QED
    BY <2>1, <2>2, <1>6
<1>10. /\ Cardinality(Chances(p, i)') <= Cardinality(S \ used)
       /\ IsFiniteSet(Chances(p, i)')
  BY <1>8, <1>9, FS_Subset
<1>11. Cardinality(Chances(p, i)') \in Nat
  BY <1>10, FS_CardinalityType
<1>12. processed'[p][i] = processed[p][i] + Cardinality(P)
  BY ProcessedFacts DEF ProcessBatch
<1>13. processed[p][i] \in Nat /\ generation \in Nat
  BY DEF LoopInv, TypeOK, GroupTypeOK
<1>14. processed[p][i] + Cardinality(S) <= generation
  BY DEF ProcessingsAreCounted
<1>15. processed[p][i] + Cardinality(P) + Cardinality(Chances(p, i)') <= generation
  BY <1>4, <1>5, <1>9, <1>10, <1>11, <1>13, <1>14
<1> QED
  BY <1>15, <1>12, <1>1

-----------------------------------------------------------------------------
(* The theorems *)

LEMMA InitEstablishes == Init => IInv
<1> SUFFICES ASSUME Init PROVE IInv
  OBVIOUS
<1>1. GroupInv
  BY GroupStarts DEF Init
<1>2. /\ <<>> \in Seq(Partitions \X (1..MaxLog))
      /\ Len(<<>>) = 0
  BY EmptySeq
<1>3. TypeOK
  BY <1>1, <1>2, BatchConsumerAssumption DEF Init, TypeOK, GroupInv
<1>4. \A p \in Partitions : committed[p] = 0
  BY DEF Init, GroupInit
<1>5. \A m \in Members : owned[m] = {} /\ batch[m] = <<>> /\ stage[m] = "polling"
  BY DEF Init, GroupInit
<1>6. CommittedIsProcessed /\ DeliveredIsHeld /\ CommittingIsProcessed
  BY <1>4, <1>5 DEF CommittedIsProcessed, DeliveredIsHeld, CommittingIsProcessed
<1>7. ProcessingsAreCounted
  <2> SUFFICES ASSUME NEW p \in Partitions, NEW i \in 1..MaxLog
               PROVE  processed[p][i] + Cardinality(Chances(p, i)) <= generation
    BY DEF ProcessingsAreCounted
  <2>1. Chances(p, i) = {}
    <3> SUFFICES ASSUME NEW c \in Chances(p, i) PROVE FALSE
      OBVIOUS
    <3>1. c[1] \in Members
      BY DEF Chances
    <3>2. owned[c[1]] = {} /\ Len(batch[c[1]]) = 0
      BY <3>1, <1>2, <1>5
    <3> QED
      BY <3>2 DEF Chances
  <2>2. Cardinality(Chances(p, i)) = 0
    BY <2>1, FS_EmptySet
  <2>3. processed[p][i] = 0 /\ generation = 0
    BY DEF Init, GroupInit
  <2> QED
    BY <2>2, <2>3
<1> QED
  BY <1>1, <1>3, <1>6, <1>7 DEF IInv, GroupInv

(* The steps that only take members out of the group, or put them back into *)
(* their loop.                                                             *)
Departs(m) ==
  \/ PollRevoke(m) \/ PollLose(m) \/ JoinGroup(m)
  \/ Cancel(m) \/ Close(m) \/ Crash(m) \/ Evict(m) \/ Restart(m)

LEMMA DepartureFacts ==
  ASSUME TypeOK, NEW m \in Members, Departs(m)
  PROVE  /\ OnlyLeaves
         /\ UNCHANGED <<log, committed, position, generation, processed>>
         /\ stable' \in BOOLEAN /\ faults' \in Nat
         /\ stage' \in [Members -> {"down", "polling", "committing"}]
         /\ stopping' \in [Members -> BOOLEAN]
         /\ batch' \in [Members -> Seq(Partitions \X (1..MaxLog))]
         /\ \A n \in Members :
              /\ stage'[n] = "committing" => stage[n] = "committing"
              /\ batch'[n] = batch[n] \/ (batch'[n] = <<>> /\ owned'[n] = {})
              /\ \/ batch'[n] = <<>>
                 \/ batch'[n] = batch[n]
                    /\ (stage'[n] = "committing" <=> stage[n] = "committing")
<1>1. <<>> \in Seq(Partitions \X (1..MaxLog))
  BY EmptySeq
<1>2. UNCHANGED <<log, committed, position, generation, processed>>
  BY DEF Departs, PollRevoke, PollLose, JoinGroup, Cancel, Close, Crash, Evict, Restart,
         Revoke, Lose, Join, PutOut, consumer, group, groupVars
<1>3. stable' \in BOOLEAN /\ faults' \in Nat
  <2>1. stable' \in {stable, FALSE}
    BY DEF Departs, PollRevoke, PollLose, JoinGroup, Cancel, Close, Crash, Evict, Restart,
           Revoke, Lose, Join, PutOut, consumer, group, groupVars
  <2>2. faults' \in {faults, faults + 1}
    BY DEF Departs, PollRevoke, PollLose, JoinGroup, Cancel, Close, Crash, Evict, Restart,
           Fault, consumer, group, groupVars
  <2>3. stable \in BOOLEAN /\ faults \in Nat
    BY DEF TypeOK, GroupTypeOK
  <2>4. stable' \in BOOLEAN
    BY <2>1, <2>3
  <2>5. faults' \in Nat
    BY <2>2, <2>3
  <2> QED
    BY <2>4, <2>5
<1>4. \/ UNCHANGED member
      \/ member' = [member EXCEPT ![m] = "out"]
      \/ member' = [member EXCEPT ![m] = "joined"]
  BY DEF Departs, PollRevoke, PollLose, JoinGroup, Cancel, Close, Crash, Evict, Restart,
         Revoke, Lose, Join, PutOut, consumer, group, groupVars
<1>5. UNCHANGED owned \/ owned' = [owned EXCEPT ![m] = {}]
  BY DEF Departs, PollRevoke, PollLose, JoinGroup, Cancel, Close, Crash, Evict, Restart,
         Revoke, Lose, Join, PutOut, consumer, group, groupVars
<1>6. UNCHANGED stopping \/ \E b \in BOOLEAN : stopping' = [stopping EXCEPT ![m] = b]
  BY DEF Departs, PollRevoke, PollLose, JoinGroup, Cancel, Close, Crash, Evict, Restart,
         Revoke, Lose, Join, PutOut, consumer, group, groupVars
<1>7. \/ UNCHANGED <<stage, batch>>
      \/ /\ stage' = [stage EXCEPT ![m] = "down"] /\ owned' = [owned EXCEPT ![m] = {}]
         /\ batch' = [batch EXCEPT ![m] = <<>>]
      \/ /\ stage' = [stage EXCEPT ![m] = "down"] /\ stage[m] = "polling"
         /\ batch' = batch
      \/ /\ stage' = [stage EXCEPT ![m] = "polling"] /\ stage[m] = "down"
         /\ batch' = batch
  BY DEF Departs, PollRevoke, PollLose, JoinGroup, Cancel, Close, Crash, Evict, Restart,
         Revoke, Lose, Join, PutOut, consumer, group, groupVars
<1>8. OnlyLeaves
  BY <1>4, <1>5 DEF OnlyLeaves, TypeOK, GroupTypeOK
<1>9. stopping' \in [Members -> BOOLEAN]
  BY <1>6 DEF TypeOK
<1>10. /\ stage' \in [Members -> {"down", "polling", "committing"}]
       /\ batch' \in [Members -> Seq(Partitions \X (1..MaxLog))]
  BY <1>1, <1>7 DEF TypeOK
<1>11. ASSUME NEW n \in Members
       PROVE  /\ stage'[n] = "committing" => stage[n] = "committing"
              /\ batch'[n] = batch[n] \/ (batch'[n] = <<>> /\ owned'[n] = {})
              /\ \/ batch'[n] = <<>>
                 \/ batch'[n] = batch[n]
                    /\ (stage'[n] = "committing" <=> stage[n] = "committing")
  <2>1. /\ stage \in [Members -> {"down", "polling", "committing"}]
        /\ batch \in [Members -> Seq(Partitions \X (1..MaxLog))]
        /\ owned \in [Members -> SUBSET Partitions]
    BY DEF TypeOK, GroupTypeOK
  <2>2. CASE UNCHANGED <<stage, batch>>
    BY <2>2
  <2>3. CASE /\ stage' = [stage EXCEPT ![m] = "down"] /\ owned' = [owned EXCEPT ![m] = {}]
             /\ batch' = [batch EXCEPT ![m] = <<>>]
    BY <2>1, <2>3
  <2>4. CASE /\ stage' = [stage EXCEPT ![m] = "down"] /\ stage[m] = "polling"
             /\ batch' = batch
    BY <2>1, <2>4
  <2>5. CASE /\ stage' = [stage EXCEPT ![m] = "polling"] /\ stage[m] = "down"
             /\ batch' = batch
    BY <2>1, <2>5
  <2> QED
    BY <1>7, <2>2, <2>3, <2>4, <2>5
<1> QED
  BY <1>2, <1>3, <1>8, <1>9, <1>10, <1>11

(* Nothing happens.                                                        *)
LEMMA StutterKeepsLoop ==
  ASSUME LoopInv,
         UNCHANGED <<log, committed, member, stable, owned, position, generation, faults>>,
         UNCHANGED <<stage, stopping, batch, processed>>
  PROVE  LoopInv'
<1>1. /\ TypeOK /\ PositionsOrdered /\ CommittedIsProcessed /\ DeliveredIsHeld
      /\ CommittingIsProcessed
  BY DEF LoopInv
<1>2. TypeOK'
  <2>1. GroupTypeOK
    BY <1>1 DEF TypeOK
  <2>2. GroupTypeOK'
    BY <2>1 DEF GroupTypeOK
  <2> QED
    BY <1>1, <2>2 DEF TypeOK
<1>3. PositionsOrdered' /\ CommittedIsProcessed'
  BY <1>1 DEF PositionsOrdered, CommittedIsProcessed
<1>4. DeliveredIsHeld'
  BY <1>1, BatchStays DEF DeliveredIsHeld
<1>5. CommittingIsProcessed'
  BY <1>1 DEF CommittingIsProcessed
<1> QED
  BY <1>2, <1>3, <1>4, <1>5 DEF LoopInv

(* Every step keeps the invariant and moves the offsets forward.           *)
LEMMA NextPreserves ==
  ASSUME IInv, [Next]_vars
  PROVE  /\ IInv'
         /\ \A p \in Partitions : committed[p] <= committed'[p]
<1> USE DEF IInv
<1>1. LoopInv
  BY DEF LoopInv
<1>2. (\A p \in Partitions : committed'[p] = committed[p]) =>
         \A p \in Partitions : committed[p] <= committed'[p]
  BY <1>1, TypeFacts
<1>3. LoopInv' /\ ProcessingsAreCounted' => IInv'
  BY DEF LoopInv
<1>4. ASSUME NEW p \in Partitions, NEW good \in BOOLEAN, Produce(p, good), UNCHANGED consumer
      PROVE  IInv' /\ committed' = committed
  <2>1. LoopInv' /\ committed' = committed
    BY <1>1, <1>4, ProduceKeepsLoop DEF Produce
  <2>2. ProcessingsAreCounted'
    BY <1>4, LeavingKeepsCount DEF Produce, group, consumer
  <2> QED
    BY <1>3, <2>1, <2>2
<1>5. ASSUME NEW m \in Members, PollMessage(m)
      PROVE  IInv' /\ committed' = committed
  BY <1>1, <1>3, <1>5, PollKeepsLoop, PollKeepsCount DEF PollMessage
<1>6. ASSUME NEW m \in Members, ProcessBatch(m)
      PROVE  IInv' /\ committed' = committed
  BY <1>1, <1>3, <1>6, ProcessKeepsLoop, ProcessKeepsCount DEF ProcessBatch, groupVars
<1>7. ASSUME NEW m \in Members, Commit(m)
      PROVE  IInv' /\ \A p \in Partitions : committed[p] <= committed'[p]
  <2>1. LoopInv' /\ \A p \in Partitions : committed[p] <= committed'[p]
    BY <1>1, <1>7, CommitKeepsLoop
  <2>2. ProcessingsAreCounted'
    <3>1. /\ UNCHANGED <<processed, generation, position, owned>>
          /\ \A n \in Members :
               \/ batch'[n] = <<>>
               \/ batch'[n] = batch[n] /\ (stage'[n] = "committing" <=> stage[n] = "committing")
      BY <1>7 DEF Commit, group, TypeOK
    <3> QED
      BY <3>1, LeavingKeepsCount
  <2> QED
    BY <1>3, <2>1, <2>2
<1>8. ASSUME NEW m \in Members, Departs(m)
      PROVE  IInv' /\ committed' = committed
  <2>1. /\ OnlyLeaves
        /\ UNCHANGED <<log, committed, position, generation, processed>>
        /\ stable' \in BOOLEAN /\ faults' \in Nat
        /\ stage' \in [Members -> {"down", "polling", "committing"}]
        /\ stopping' \in [Members -> BOOLEAN]
        /\ batch' \in [Members -> Seq(Partitions \X (1..MaxLog))]
        /\ \A n \in Members :
             /\ stage'[n] = "committing" => stage[n] = "committing"
             /\ batch'[n] = batch[n] \/ (batch'[n] = <<>> /\ owned'[n] = {})
             /\ \/ batch'[n] = <<>>
                \/ batch'[n] = batch[n]
                   /\ (stage'[n] = "committing" <=> stage[n] = "committing")
    BY <1>8, DepartureFacts
  <2>2. LoopInv'
    BY <1>1, <2>1, LeavingKeepsLoop
  <2>3. ProcessingsAreCounted'
    BY <2>1, LeavingKeepsCount DEF OnlyLeaves
  <2> QED
    BY <1>3, <2>1, <2>2, <2>3
<1>9. ASSUME AssignPartitions
      PROVE  IInv' /\ committed' = committed
  BY <1>1, <1>3, <1>9, AssignKeepsLoop, AssignKeepsCount DEF AssignPartitions
<1>10. CASE UNCHANGED vars
  <2>1. UNCHANGED <<log, committed, member, stable, owned, position, generation, faults>>
    BY <1>10 DEF vars, groupVars, group
  <2>2. UNCHANGED <<stage, stopping, batch, processed>>
    BY <1>10 DEF vars, consumer
  <2>3. LoopInv'
    BY <1>1, <2>1, <2>2, StutterKeepsLoop
  <2>4. ProcessingsAreCounted'
    BY <2>1, <2>2, LeavingKeepsCount
  <2> QED
    BY <1>2, <1>3, <2>1, <2>3, <2>4
<1> QED
  BY <1>2, <1>4, <1>5, <1>6, <1>7, <1>8, <1>9, <1>10 DEF Next, Departs, Rest

(* The inductive invariant holds: in particular whatever the group has      *)
(* committed was processed, through rebalances, evictions, crashes and      *)
(* skipped commits (RunBatchMessageConsumer).                              *)
THEOREM Invariance == Spec => []IInv
<1>1. IInv /\ [Next]_vars => IInv'
  BY NextPreserves
<1> QED
  BY InitEstablishes, <1>1, PTL DEF Spec

(* A batch that is committed, or that was overtaken by somebody else's      *)
(* commit, was processed before: consumer.Commit() comes after processBatch. *)
THEOREM CommittedWasProcessed == Spec => []CommittedIsProcessed
<1>1. IInv => CommittedIsProcessed
  BY DEF IInv
<1> QED
  BY Invariance, <1>1, PTL

(* No message is processed more often than the group was rebalanced.       *)
THEOREM RepetitionsAreRebalances == Spec => []RepeatsNeedRebalance
<1>1. IInv => RepeatsNeedRebalance
  <2> SUFFICES ASSUME IInv, NEW p \in Partitions, NEW i \in 1..MaxLog
               PROVE  processed[p][i] <= generation
    BY DEF RepeatsNeedRebalance
  <2>1. Cardinality(Chances(p, i)) \in Nat
    BY ChancesFinite
  <2>2. processed[p][i] + Cardinality(Chances(p, i)) <= generation
    BY DEF IInv, ProcessingsAreCounted
  <2>3. processed[p][i] \in Nat /\ generation \in Nat
    BY DEF IInv, TypeOK, GroupTypeOK
  <2> QED
    BY <2>1, <2>2, <2>3
<1> QED
  BY Invariance, <1>1, PTL

(* The offset of a partition never goes back, whoever commits it.          *)
THEOREM OffsetsNeverGoBack == Spec => CommitsAdvance
<1>1. IInv /\ [Next]_vars => [\A p \in Partitions : committed[p] <= committed'[p]]_vars
  BY NextPreserves
<1> QED
  BY Invariance, <1>1, PTL DEF Spec, CommitsAdvance

(***************************************************************************)
(* 3. SingleConsumer                                                       *)
(***************************************************************************)

Messages == Partitions \X (1..MaxLog)

-----------------------------------------------------------------------------
(* Sets of messages *)

LEMMA MessagesFinite == IsFiniteSet(Messages)
<1>1. IsFiniteSet(1..MaxLog)
  BY FS_Interval, ConsumerGroupAssumption
<1> QED
  BY <1>1, FS_Product, ConsumerGroupAssumption DEF Messages

LEMMA LostIsFinite == IsFiniteSet(Lost) /\ Cardinality(Lost) \in Nat
<1>1. Lost \in SUBSET Messages
  BY DEF Lost, Published, Messages
<1>2. IsFiniteSet(Lost)
  BY <1>1, MessagesFinite, FS_Subset
<1> QED
  BY <1>2, FS_CardinalityType

(* A step that loses nothing new keeps the bound.                          *)
LEMMA NothingLost ==
  ASSUME LossNeedsCrash, crashes \in Nat, Lost' \subseteq Lost, crashes' = crashes
  PROVE  LossNeedsCrash'
<1>1. Cardinality(Lost') <= Cardinality(Lost)
  BY LostIsFinite, FS_Subset
<1>2. Cardinality(Lost') \in Nat
  <2>1. IsFiniteSet(Lost')
    BY LostIsFinite, FS_Subset
  <2> QED
    BY <2>1, FS_CardinalityType
<1> QED
  BY <1>1, <1>2, LostIsFinite DEF LossNeedsCrash

(* The death of a process loses what it had in hand, one message at most.  *)
LEMMA OneLost ==
  ASSUME SingleTypeOK, LossNeedsCrash, NEW m \in Members, Lost' \subseteq Lost \cup inHand[m],
         crashes' = crashes + 1
  PROVE  LossNeedsCrash'
<1>1. crashes \in Nat /\ inHand[m] \in SUBSET Messages /\ Cardinality(inHand[m]) <= 1
  BY DEF SingleTypeOK, Messages
<1>2. IsFiniteSet(inHand[m])
  BY <1>1, MessagesFinite, FS_Subset
<1>3. Cardinality(inHand[m]) \in Nat
  BY <1>2, FS_CardinalityType
<1> DEFINE U == Lost \cup inHand[m]
<1>4. IsFiniteSet(U)
  BY <1>2, LostIsFinite, FS_Union
<1>5. Cardinality(U) = Cardinality(Lost) + Cardinality(inHand[m]) - Cardinality(Lost \cap inHand[m])
  BY <1>2, LostIsFinite, FS_Union
<1>6. Cardinality(Lost \cap inHand[m]) \in Nat
  <2>1. IsFiniteSet(Lost \cap inHand[m])
    BY LostIsFinite, FS_Subset
  <2> QED
    BY <2>1, FS_CardinalityType
<1>7. Cardinality(U) \in Nat
  BY <1>4, FS_CardinalityType
<1>8. Cardinality(U) <= Cardinality(Lost) + 1
  BY <1>1, <1>3, <1>5, <1>6, <1>7, LostIsFinite
<1>9. IsFiniteSet(Lost') /\ Cardinality(Lost') <= Cardinality(U)
  BY <1>4, FS_Subset
<1>10. Cardinality(Lost') \in Nat
  BY <1>9, FS_CardinalityType
<1> QED
  BY <1>1, <1>7, <1>8, <1>9, <1>10, LostIsFinite DEF LossNeedsCrash

(* What the types say, piece by piece.                                     *)
LEMMA SingleTypeFacts ==
  ASSUME SingleIInv
  PROVE  /\ SingleTypeOK /\ GroupInv /\ LossNeedsCrash
         /\ \A p \in Partitions : committed[p] \in Nat /\ committed[p] <= Len(log[p])
         /\ \A p \in Partitions : Len(log[p]) \in Nat
         /\ \A n \in Members : owned[n] \subseteq Partitions
         /\ \A n \in Members : \A p \in Partitions : position[n][p] \in Nat
         /\ \A n \in Members : \A p \in owned[n] : position[n][p] <= Len(log[p])
         /\ crashes \in Nat
<1>1. GroupTypeOK /\ PositionsOrdered /\ SingleTypeOK /\ LossNeedsCrash
  BY DEF SingleIInv, SingleTypeOK
<1>2. \A p \in Partitions : Len(log[p]) \in Nat
  BY <1>1, LenProperties DEF GroupTypeOK
<1> QED
  BY <1>1, <1>2 DEF GroupInv, GroupTypeOK, PositionsOrdered, SingleTypeOK

-----------------------------------------------------------------------------
(* The steps *)

(* A message is published: nobody has gone past it.                        *)
LEMMA ProduceKeepsInvariant ==
  ASSUME SingleIInv, NEW p \in Partitions, NEW good \in BOOLEAN, Produce(p, good),
         UNCHANGED single
  PROVE  SingleIInv'
<1>1. GroupInv' /\ \A q \in Partitions : Len(log[q]) <= Len(log'[q])
  BY SingleTypeFacts, ProduceKeepsGroup
<1>2. UNCHANGED <<committed, owned, position, up, inHand, handled, crashes>>
  BY DEF Produce, group, single
<1>3. SingleTypeOK'
  BY <1>1, <1>2, SingleTypeFacts DEF GroupInv, SingleTypeOK
<1>4. Lost' \subseteq Lost
  <2> SUFFICES ASSUME NEW x \in Lost' PROVE x \in Lost
    OBVIOUS
  <2>1. /\ x \in Partitions \X (1..MaxLog) /\ x \notin handled
        /\ \A m \in Members : x \notin inHand[m]
        /\ \/ x[2] <= committed[x[1]]
           \/ \E m \in Members : x[1] \in owned[m] /\ x[2] <= position[m][x[1]]
    BY <1>2 DEF Lost, Published
  <2>2. x[1] \in Partitions /\ x[2] \in Nat
    BY <2>1
  <2>3. x[2] <= Len(log[x[1]])
    BY <2>1, <2>2, SingleTypeFacts
  <2> QED
    BY <2>1, <2>3 DEF Lost, Published
<1>5. LossNeedsCrash'
  BY <1>2, <1>4, SingleTypeFacts, NothingLost
<1> QED
  BY <1>1, <1>3, <1>5 DEF SingleIInv, GroupInv

(* Poll returns a message: the client has gone past it, and it is in hand.  *)
LEMMA PollKeepsInvariant ==
  ASSUME SingleIInv, NEW m \in Members, SinglePollMessage(m)
  PROVE  SingleIInv'
<1>1. PICK p \in owned[m] :
        /\ Deliver(m, p)
        /\ inHand' = [inHand EXCEPT ![m] = {<<p, position[m][p] + 1>>}]
  BY DEF SinglePollMessage
<1> DEFINE new == <<p, position[m][p] + 1>>
<1>2. p \in Partitions
  BY SingleTypeFacts
<1>3. /\ UNCHANGED <<log, committed, faults, up, handled, crashes>>
      /\ inHand[m] = {} /\ UNCHANGED owned
  BY <1>1 DEF SinglePollMessage, SinglePolling, Deliver
<1>4. /\ GroupInv'
      /\ position'[m][p] = position[m][p] + 1
      /\ \A n \in Members : \A q \in Partitions :
           n # m \/ q # p => position'[n][q] = position[n][q]
      /\ position[m][p] + 1 \in 1..MaxLog
  BY <1>1, <1>2, <1>3, DeliverKeepsGroup, SingleTypeFacts
<1>5. /\ inHand' \in [Members -> SUBSET (Partitions \X (1..MaxLog))]
      /\ inHand'[m] = {new} /\ \A n \in Members \ {m} : inHand'[n] = inHand[n]
  <2>1. new \in Partitions \X (1..MaxLog)
    BY <1>2, <1>4
  <2> QED
    BY <1>1, <2>1, SingleTypeFacts DEF SingleTypeOK
<1>6. SingleTypeOK'
  <2>1. Cardinality({new}) = 1
    BY FS_Singleton
  <2>2. \A n \in Members : Cardinality(inHand'[n]) <= 1
    <3>1. \A n \in Members : Cardinality(inHand[n]) <= 1
      BY DEF SingleIInv, SingleTypeOK
    <3>2. Cardinality({new}) <= 1
      BY <2>1
    <3> QED
      BY <1>5, <3>1, <3>2
  <2> QED
    BY <1>3, <1>4, <1>5, <2>2, SingleTypeFacts DEF GroupInv, SingleTypeOK
<1>7. Lost' \subseteq Lost
  <2> SUFFICES ASSUME NEW x \in Lost' PROVE x \in Lost
    OBVIOUS
  <2>1. /\ x \in Published /\ x \notin handled
        /\ \A n \in Members : x \notin inHand'[n]
        /\ \/ x[2] <= committed[x[1]]
           \/ \E n \in Members : x[1] \in owned[n] /\ x[2] <= position'[n][x[1]]
    BY <1>3 DEF Lost, Published
  <2>2. x[1] \in Partitions /\ x[2] \in Nat /\ x = <<x[1], x[2]>>
    BY <2>1 DEF Published
  <2>3. x # new /\ \A n \in Members : x \notin inHand[n]
    BY <1>3, <1>5, <2>1
  <2>4. ASSUME NEW n \in Members, x[1] \in owned[n], x[2] <= position'[n][x[1]]
        PROVE  x[2] <= position[n][x[1]]
    <3>1. CASE n = m /\ x[1] = p
      <4>1. x[2] # position[m][p] + 1
        BY <2>2, <2>3, <3>1
      <4> QED
        BY <1>2, <1>4, <2>2, <2>4, <3>1, <4>1, SingleTypeFacts
    <3>2. CASE n # m \/ x[1] # p
      BY <1>4, <2>2, <2>4, <3>2
    <3> QED
      BY <3>1, <3>2
  <2> QED
    BY <2>1, <2>3, <2>4 DEF Lost
<1>8. LossNeedsCrash'
  BY <1>3, <1>7, SingleTypeFacts, NothingLost
<1> QED
  BY <1>4, <1>6, <1>8 DEF SingleIInv, GroupInv

(* It is handled.                                                          *)
LEMMA HandleKeepsInvariant ==
  ASSUME SingleIInv, NEW m \in Members, Handle(m)
  PROVE  SingleIInv'
<1>1. /\ handled' = handled \cup inHand[m]
      /\ inHand' = [inHand EXCEPT ![m] = {}]
      /\ UNCHANGED <<log, committed, member, stable, owned, position, generation, faults,
                     up, crashes>>
  BY DEF Handle, groupVars, group
<1>2. /\ inHand' \in [Members -> SUBSET (Partitions \X (1..MaxLog))]
      /\ inHand'[m] = {} /\ \A n \in Members \ {m} : inHand'[n] = inHand[n]
      /\ handled' \subseteq Partitions \X (1..MaxLog)
  BY <1>1, SingleTypeFacts DEF SingleTypeOK
<1>3. GroupInv'
  BY <1>1, SingleTypeFacts DEF GroupInv, GroupTypeOK, PositionsOrdered
<1>4. SingleTypeOK'
  <2>1. \A n \in Members : Cardinality(inHand'[n]) <= 1
    <3>1. \A n \in Members : Cardinality(inHand[n]) <= 1
      BY DEF SingleIInv, SingleTypeOK
    <3>2. Cardinality({}) <= 1
      BY FS_EmptySet
    <3> QED
      BY <1>2, <3>1, <3>2
  <2> QED
    BY <1>1, <1>2, <1>3, <2>1, SingleTypeFacts DEF GroupInv, SingleTypeOK
<1>5. Lost' \subseteq Lost
  <2> SUFFICES ASSUME NEW x \in Lost' PROVE x \in Lost
    OBVIOUS
  <2>1. /\ x \in Published /\ x \notin handled'
        /\ \A n \in Members : x \notin inHand'[n]
        /\ \/ x[2] <= committed[x[1]]
           \/ \E n \in Members : x[1] \in owned[n] /\ x[2] <= position[n][x[1]]
    BY <1>1 DEF Lost, Published
  <2>2. x \notin handled /\ \A n \in Members : x \notin inHand[n]
    BY <1>1, <1>2, <2>1
  <2> QED
    BY <2>1, <2>2 DEF Lost
<1>6. LossNeedsCrash'
  BY <1>1, <1>5, SingleTypeFacts, NothingLost
<1> QED
  BY <1>3, <1>4, <1>6 DEF SingleIInv, GroupInv

(* The partitions are assigned: whoever gets one starts where the group has *)
(* committed.                                                              *)
LEMMA AssignKeepsInvariant ==
  ASSUME SingleIInv, SingleAssignPartitions
  PROVE  SingleIInv'
<1>1. Assign /\ UNCHANGED <<log, committed, faults, up, inHand, handled, crashes>>
  BY DEF SingleAssignPartitions, single
<1>2. /\ GroupInv'
      /\ \E f \in [Partitions -> Members] : \A n \in Members : \A p \in Partitions :
           p \in owned'[n] =>
             \/ p \in owned[n] /\ position'[n][p] = position[n][p]
             \/ n = f[p] /\ position'[n][p] = committed[p]
  BY <1>1, AssignKeepsGroup, SingleTypeFacts
<1>3. SingleTypeOK'
  BY <1>1, <1>2, SingleTypeFacts DEF GroupInv, SingleTypeOK
<1>4. Lost' \subseteq Lost
  <2> SUFFICES ASSUME NEW x \in Lost' PROVE x \in Lost
    OBVIOUS
  <2>1. /\ x \in Published /\ x \notin handled
        /\ \A n \in Members : x \notin inHand[n]
        /\ \/ x[2] <= committed[x[1]]
           \/ \E n \in Members : x[1] \in owned'[n] /\ x[2] <= position'[n][x[1]]
    BY <1>1 DEF Lost, Published
  <2>2. x[1] \in Partitions
    BY <2>1 DEF Published
  <2>3. \/ x[2] <= committed[x[1]]
        \/ \E n \in Members : x[1] \in owned[n] /\ x[2] <= position[n][x[1]]
    BY <1>2, <2>1, <2>2
  <2> QED
    BY <2>1, <2>3 DEF Lost
<1>5. LossNeedsCrash'
  BY <1>1, <1>4, SingleTypeFacts, NothingLost
<1> QED
  BY <1>2, <1>3, <1>5 DEF SingleIInv, GroupInv

(* Members commit, leave, die or come back, but take nothing.              *)
SingleDeparts(m) ==
  \/ AutoCommit(m) \/ SinglePollRevoke(m) \/ SinglePollLose(m) \/ SingleJoinGroup(m)
  \/ Stop(m) \/ SingleCrash(m) \/ SingleEvict(m) \/ SingleRestart(m)

LEMMA SingleDepartureFacts ==
  ASSUME SingleTypeOK, NEW m \in Members, SingleDeparts(m)
  PROVE  /\ OnlyLeaves
         /\ UNCHANGED <<log, position, generation, handled>>
         /\ stable' \in BOOLEAN /\ faults' \in Nat
         /\ UNCHANGED committed \/ CommitPositions(m)
         /\ up' \in [Members -> BOOLEAN]
         /\ \/ UNCHANGED <<inHand, crashes>>
            \/ inHand' = [inHand EXCEPT ![m] = {}] /\ crashes' = crashes + 1
<1>1. UNCHANGED <<log, position, generation, handled>>
  BY DEF SingleDeparts, AutoCommit, SinglePollRevoke, SinglePollLose, SingleJoinGroup, Stop,
         SingleCrash, SingleEvict, SingleRestart,
         Revoke, Lose, Join, PutOut, single, group, groupVars
<1>2. stable' \in BOOLEAN
  <2>1. stable' \in {stable, FALSE}
    BY DEF SingleDeparts, AutoCommit, SinglePollRevoke, SinglePollLose, SingleJoinGroup, Stop,
         SingleCrash, SingleEvict, SingleRestart,
           Revoke, Lose, Join, PutOut, single, group, groupVars
  <2>2. stable \in BOOLEAN
    BY DEF SingleTypeOK, GroupTypeOK
  <2> QED
    BY <2>1, <2>2
<1>3. faults' \in Nat
  <2>1. faults' \in {faults, faults + 1}
    BY DEF SingleDeparts, AutoCommit, SinglePollRevoke, SinglePollLose, SingleJoinGroup, Stop,
         SingleCrash, SingleEvict, SingleRestart,
           Fault, single, group, groupVars
  <2>2. faults \in Nat
    BY DEF SingleTypeOK, GroupTypeOK
  <2> QED
    BY <2>1, <2>2
<1>4. \/ UNCHANGED member
      \/ member' = [member EXCEPT ![m] = "out"]
      \/ member' = [member EXCEPT ![m] = "joined"]
  BY DEF SingleDeparts, AutoCommit, SinglePollRevoke, SinglePollLose, SingleJoinGroup, Stop,
         SingleCrash, SingleEvict, SingleRestart,
         Revoke, Lose, Join, PutOut, single, group, groupVars
<1>5. UNCHANGED owned \/ owned' = [owned EXCEPT ![m] = {}]
  BY DEF SingleDeparts, AutoCommit, SinglePollRevoke, SinglePollLose, SingleJoinGroup, Stop,
         SingleCrash, SingleEvict, SingleRestart,
         Revoke, Lose, Join, PutOut, single, group, groupVars
<1>6. UNCHANGED committed \/ CommitPositions(m)
  BY DEF SingleDeparts, AutoCommit, SinglePollRevoke, SinglePollLose, SingleJoinGroup, Stop,
         SingleCrash, SingleEvict, SingleRestart,
         Revoke, Lose, Join, PutOut, single, group, groupVars
<1>7. up' \in [Members -> BOOLEAN]
  <2>1. UNCHANGED up \/ \E b \in BOOLEAN : up' = [up EXCEPT ![m] = b]
    BY DEF SingleDeparts, AutoCommit, SinglePollRevoke, SinglePollLose, SingleJoinGroup, Stop,
         SingleCrash, SingleEvict, SingleRestart,
           Revoke, Lose, Join, PutOut, single, group, groupVars
  <2>2. up \in [Members -> BOOLEAN]
    BY DEF SingleTypeOK
  <2> QED
    BY <2>1, <2>2
<1>8. \/ UNCHANGED <<inHand, crashes>>
      \/ inHand' = [inHand EXCEPT ![m] = {}] /\ crashes' = crashes + 1
  BY DEF SingleDeparts, AutoCommit, SinglePollRevoke, SinglePollLose, SingleJoinGroup, Stop,
         SingleCrash, SingleEvict, SingleRestart,
         Revoke, Lose, Join, PutOut, single, group, groupVars
<1>9. OnlyLeaves
  BY <1>4, <1>5 DEF OnlyLeaves, SingleTypeOK, GroupTypeOK
<1> QED
  BY <1>1, <1>2, <1>3, <1>6, <1>7, <1>8, <1>9

(* They go past no message that nobody had gone past; what a process had in *)
(* hand when it died is all that can be lost.                              *)
LEMMA DepartureKeepsInvariant ==
  ASSUME SingleIInv, NEW m \in Members, SingleDeparts(m)
  PROVE  SingleIInv' /\ \A p \in Partitions : committed[p] <= committed'[p]
<1>1. /\ OnlyLeaves
      /\ UNCHANGED <<log, position, generation, handled>>
      /\ stable' \in BOOLEAN /\ faults' \in Nat
      /\ UNCHANGED committed \/ CommitPositions(m)
      /\ up' \in [Members -> BOOLEAN]
      /\ \/ UNCHANGED <<inHand, crashes>>
         \/ inHand' = [inHand EXCEPT ![m] = {}] /\ crashes' = crashes + 1
  BY SingleDepartureFacts, SingleTypeFacts
<1>2. GroupInv' /\ \A p \in Partitions : committed[p] <= committed'[p]
  <2>1. CASE UNCHANGED committed
    <3>1. GroupInv'
      BY <1>1, <2>1, SingleTypeFacts, LeavingKeepsGroup
    <3> QED
      BY <2>1, <3>1, SingleTypeFacts
  <2>2. CASE CommitPositions(m)
    BY <1>1, <2>2, SingleTypeFacts, CommitKeepsGroup
  <2> QED
    BY <1>1, <2>1, <2>2
<1>3. /\ inHand' \in [Members -> SUBSET (Partitions \X (1..MaxLog))]
      /\ \A n \in Members \ {m} : inHand'[n] = inHand[n]
      /\ inHand'[m] = inHand[m] \/ inHand'[m] = {}
      /\ crashes' \in Nat
  BY <1>1, SingleTypeFacts DEF SingleTypeOK
<1>4. SingleTypeOK'
  <2>1. \A n \in Members : Cardinality(inHand[n]) <= 1
    BY DEF SingleIInv, SingleTypeOK
  <2>2. Cardinality({}) <= 1
    BY FS_EmptySet
  <2>3. \A n \in Members : Cardinality(inHand'[n]) <= 1
    BY <1>3, <2>1, <2>2
  <2>4. handled' \subseteq Partitions \X (1..MaxLog)
    BY <1>1, SingleTypeFacts DEF SingleTypeOK
  <2> QED
    BY <1>1, <1>2, <1>3, <2>3, <2>4 DEF GroupInv, SingleTypeOK
<1>5. ASSUME NEW x \in Lost', \A n \in Members : x \notin inHand[n]
      PROVE  x \in Lost
  <2>1. /\ x \in Published /\ x \notin handled
        /\ \/ x[2] <= committed'[x[1]]
           \/ \E n \in Members : x[1] \in owned'[n] /\ x[2] <= position[n][x[1]]
    BY <1>1 DEF Lost, Published
  <2>2. x[1] \in Partitions
    BY <2>1 DEF Published
  <2>3. \/ committed'[x[1]] = committed[x[1]]
        \/ x[1] \in owned[m] /\ committed'[x[1]] = position[m][x[1]]
    BY <1>1, <2>2 DEF CommitPositions
  <2>4. \/ x[2] <= committed[x[1]]
        \/ \E n \in Members : x[1] \in owned[n] /\ x[2] <= position[n][x[1]]
    BY <1>1, <2>1, <2>3 DEF OnlyLeaves
  <2> QED
    BY <1>5, <2>1, <2>4 DEF Lost
<1>6. LossNeedsCrash'
  <2>1. CASE UNCHANGED <<inHand, crashes>>
    <3>1. \A x \in Lost' : \A n \in Members : x \notin inHand[n]
      BY <2>1 DEF Lost
    <3>2. Lost' \subseteq Lost
      BY <1>5, <3>1
    <3> QED
      BY <2>1, <3>2, SingleTypeFacts, NothingLost
  <2>2. CASE inHand' = [inHand EXCEPT ![m] = {}] /\ crashes' = crashes + 1
    <3>1. \A x \in Lost' : \A n \in Members \ {m} : x \notin inHand[n]
      BY <1>3 DEF Lost
    <3>2. Lost' \subseteq Lost \cup inHand[m]
      BY <1>5, <3>1
    <3> QED
      BY <2>2, <3>2, SingleTypeFacts, OneLost
  <2> QED
    BY <1>1, <2>1, <2>2
<1> QED
  BY <1>2, <1>4, <1>6 DEF SingleIInv, GroupInv

-----------------------------------------------------------------------------
(* The theorems *)

LEMMA SingleInitEstablishes == SingleInit => SingleIInv
<1> SUFFICES ASSUME SingleInit PROVE SingleIInv
  OBVIOUS
<1>1. GroupInv
  BY GroupStarts DEF SingleInit
<1>2. \A p \in Partitions : committed[p] = 0
  BY DEF SingleInit, GroupInit
<1>3. \A n \in Members : owned[n] = {} /\ inHand[n] = {}
  BY DEF SingleInit, GroupInit
<1>4. SingleTypeOK
  <2>1. up \in [Members -> BOOLEAN]
    BY DEF SingleInit
  <2>2. \A n \in Members : Cardinality(inHand[n]) <= 1
    BY <1>3, FS_EmptySet
  <2> QED
    BY <1>1, <2>1, <2>2 DEF SingleInit, GroupInv, SingleTypeOK
<1>5. Lost = {}
  <2>1. \A x \in Published : x[1] \in Partitions /\ x[2] \in Nat \ {0}
    BY DEF Published
  <2> QED
    BY <1>2, <1>3, <2>1 DEF Lost
<1>6. LossNeedsCrash
  BY <1>5, FS_EmptySet DEF SingleInit, LossNeedsCrash
<1> QED
  BY <1>1, <1>4, <1>6 DEF SingleIInv, GroupInv

LEMMA SingleNextPreserves ==
  SingleIInv /\ [SingleNext]_singleVars =>
    SingleIInv' /\ [\A p \in Partitions : committed[p] <= committed'[p]]_singleVars
<1> SUFFICES ASSUME SingleIInv, [SingleNext]_singleVars
             PROVE  SingleIInv' /\ (\A p \in Partitions : committed[p] <= committed'[p])
  OBVIOUS
<1>1. \A p \in Partitions : committed[p] \in Nat
  BY SingleTypeFacts
<1>2. ASSUME NEW p \in Partitions, NEW good \in BOOLEAN, Produce(p, good), UNCHANGED single
      PROVE  SingleIInv' /\ committed' = committed
  BY <1>2, ProduceKeepsInvariant DEF Produce
<1>3. ASSUME NEW m \in Members, SinglePollMessage(m)
      PROVE  SingleIInv' /\ committed' = committed
  BY <1>3, PollKeepsInvariant DEF SinglePollMessage
<1>4. ASSUME NEW m \in Members, Handle(m)
      PROVE  SingleIInv' /\ committed' = committed
  BY <1>4, HandleKeepsInvariant DEF Handle, groupVars
<1>5. CASE SingleAssignPartitions
  <2>1. SingleIInv' /\ committed' = committed
    BY <1>5, AssignKeepsInvariant DEF SingleAssignPartitions
  <2> QED
    BY <1>1, <2>1
<1>6. ASSUME NEW m \in Members, SingleDeparts(m)
      PROVE  SingleIInv' /\ \A p \in Partitions : committed[p] <= committed'[p]
  BY <1>6, DepartureKeepsInvariant
<1>7. CASE SingleRest \/ UNCHANGED singleVars
  <2>1. UNCHANGED <<log, committed, member, stable, owned, position, generation, faults,
                    up, inHand, handled, crashes>>
    BY <1>7 DEF SingleRest, singleVars, groupVars, group, single
  <2>2. SingleIInv'
    BY <2>1 DEF SingleIInv, SingleTypeOK, GroupTypeOK, PositionsOrdered, LossNeedsCrash, Lost, Published
  <2> QED
    BY <1>1, <2>1, <2>2
<1> QED
  BY <1>1, <1>2, <1>3, <1>4, <1>5, <1>6, <1>7 DEF SingleNext, SingleDeparts

(* Whatever rebalances, evictions and shutdowns there are: the messages     *)
(* that nobody will handle are no more than the processes that died.       *)
THEOREM SingleInvariance == SingleSpec => []SingleIInv
<1>1. SingleIInv /\ [SingleNext]_singleVars => SingleIInv'
  BY SingleNextPreserves
<1> QED
  BY SingleInitEstablishes, <1>1, PTL DEF SingleSpec

(* The offset of a partition never goes back, whoever commits it.          *)
THEOREM SingleOffsetsNeverGoBack == SingleSpec => SingleCommitsAdvance
<1>1. SingleIInv /\ [SingleNext]_singleVars =>
        [\A p \in Partitions : committed[p] <= committed'[p]]_singleVars
  BY SingleNextPreserves
<1> QED
  BY SingleInvariance, <1>1, PTL DEF SingleSpec, SingleCommitsAdvance
=============================================================================
