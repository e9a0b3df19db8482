---------------------------- MODULE BatchConsumer ----------------------------
(***************************************************************************)
(* RunBatchMessageConsumer of practical_work_2: every instance polls        *)
(* messages into a batch; a full batch is processed and then committed,     *)
(* unless one of its messages cannot be deserialized.  Commit takes no      *)
(* argument: it commits whatever has been delivered from the partitions    *)
(* held at that moment.  The batch survives a rebalance.                   *)
(***************************************************************************)
EXTENDS ConsumerGroup

CONSTANT BatchSize  \* BATCH_SIZE, 10 in compose

ASSUME BatchConsumerAssumption == BatchSize \in Nat \ {0}

VARIABLES
  stage,      \* member -> "down", "polling" or "committing" (processed, Commit is next)
  stopping,   \* member -> its context is cancelled
  batch,      \* member -> the messages collected, <<partition, offset>>
  processed   \* partition -> offset -> times processed (history)

consumer == <<stage, stopping, batch, processed>>
vars == <<groupVars, consumer>>

Init ==
  /\ GroupInit
  /\ stage = [m \in Members |-> "polling"]
  /\ stopping = [m \in Members |-> FALSE]
  /\ batch = [m \in Members |-> <<>>]
  /\ processed = [p \in Partitions |-> [i \in 1..MaxLog |-> 0]]

-----------------------------------------------------------------------------
(* Helpers *)

InBatch(m, p, i) == \E j \in 1..Len(batch[m]) : batch[m][j] = <<p, i>>

(* hasDeserializationError is false.                                       *)
AllGood(m) == \A j \in 1..Len(batch[m]) : log[batch[m][j][1]][batch[m][j][2]]

(* The loop of processBatch: every message is logged, good or bad.         *)
Processed(m) ==
  [p \in Partitions |-> [i \in 1..MaxLog |->
     processed[p][i] + Cardinality({j \in 1..Len(batch[m]) : batch[m][j] = <<p, i>>})]]

(* The loop looks for events: no batch is to be processed.                 *)
Polling(m) ==
  stage[m] = "polling" /\ ~stopping[m] /\ Len(batch[m]) < BatchSize

-----------------------------------------------------------------------------
(* Mutated: mistakes the properties must tell from the code                *)

(* The rebalance callback nobody wrote commits before the batch is done.   *)
RevokeAndCommit(m) ==
  /\ Polling(m)
  /\ Revoke(m)
  /\ CommitPositions(m)
  /\ UNCHANGED <<log, faults, consumer>>

(* The offsets of the batch are committed, not those of the client.        *)
CommitBatch(m) ==
  /\ stage[m] = "committing"
  /\ committed' = [p \in Partitions |->
       IF member[m] = "in" /\ p \in owned[m] /\ \E i \in 1..Len(log[p]) : InBatch(m, p, i)
       THEN CHOOSE i \in 1..Len(log[p]) :
              InBatch(m, p, i) /\ \A j \in 1..Len(log[p]) : InBatch(m, p, j) => j <= i
       ELSE committed[p]]
  /\ stage' = [stage EXCEPT ![m] = "polling"]
  /\ batch' = [batch EXCEPT ![m] = <<>>]
  /\ UNCHANGED <<log, group, faults, stopping, processed>>

(* The batch is kept when its commit was skipped.                          *)
ProcessBatchAndKeep(m) ==
  /\ stage[m] = "polling"
  /\ Len(batch[m]) = BatchSize \/ (stopping[m] /\ batch[m] # <<>>)
  /\ processed' = Processed(m)
  /\ stage' = [stage EXCEPT ![m] = IF AllGood(m) THEN "committing" ELSE "polling"]
  /\ UNCHANGED <<groupVars, stopping, batch>>

(* Auto-commit: Close commits what was delivered, the batch is dropped.    *)
CloseAndDrop(m) ==
  /\ stage[m] = "polling" /\ stopping[m]
  /\ CommitPositions(m)
  /\ PutOut(m)
  /\ owned' = [owned EXCEPT ![m] = {}]
  /\ stage' = [stage EXCEPT ![m] = "down"]
  /\ batch' = [batch EXCEPT ![m] = <<>>]
  /\ UNCHANGED <<log, position, generation, faults, stopping, processed>>

-----------------------------------------------------------------------------
(* The consumer *)

(* Poll returns a message.                                                 *)
PollMessage(m) ==
  /\ Polling(m)
  /\ \E p \in owned[m] :
       /\ Deliver(m, p)
       /\ batch' = [batch EXCEPT ![m] = Append(@, <<p, position[m][p] + 1>>)]
  /\ UNCHANGED <<log, committed, faults, stage, stopping, processed>>

(* Poll returns nothing, but serves the group.                             *)
PollRevoke(m) ==
  /\ Polling(m)
  /\ Revoke(m)
  /\ UNCHANGED <<log, committed, faults, consumer>>

PollLose(m) ==
  /\ Polling(m)
  /\ Lose(m)
  /\ UNCHANGED <<log, committed, faults, consumer>>

JoinGroup(m) ==
  /\ stage[m] # "down"
  /\ Join(m)
  /\ UNCHANGED <<log, committed, faults, consumer>>

AssignPartitions ==
  /\ Assign
  /\ UNCHANGED <<log, committed, faults, consumer>>

(* processBatch, up to the commit or its omission.                         *)
ProcessBatch(m) ==
  /\ stage[m] = "polling"
  /\ Len(batch[m]) = BatchSize \/ (stopping[m] /\ batch[m] # <<>>)
  /\ processed' = Processed(m)
  /\ IF AllGood(m)
     THEN /\ stage' = [stage EXCEPT ![m] = "committing"]
          /\ UNCHANGED batch
     ELSE /\ batch' = [batch EXCEPT ![m] = <<>>]
          /\ UNCHANGED stage
  /\ UNCHANGED <<groupVars, stopping>>

(* consumer.Commit(), whose error is logged; the batch is emptied.         *)
Commit(m) ==
  /\ stage[m] = "committing"
  /\ CommitPositions(m)
  /\ stage' = [stage EXCEPT ![m] = "polling"]
  /\ batch' = [batch EXCEPT ![m] = <<>>]
  /\ UNCHANGED <<log, group, faults, stopping, processed>>

(* SIGTERM, or another component of the instance has failed.               *)
Cancel(m) ==
  /\ stage[m] # "down" /\ ~stopping[m]
  /\ Fault
  /\ stopping' = [stopping EXCEPT ![m] = TRUE]
  /\ UNCHANGED <<log, committed, group, stage, batch, processed>>

(* The loop sees the cancelled context, with no batch left, and returns:    *)
(* Close leaves the group without a commit.                                *)
Close(m) ==
  /\ stage[m] = "polling" /\ stopping[m] /\ batch[m] = <<>>
  /\ PutOut(m)
  /\ owned' = [owned EXCEPT ![m] = {}]
  /\ stage' = [stage EXCEPT ![m] = "down"]
  /\ UNCHANGED <<log, committed, position, generation, faults, stopping, batch, processed>>

(* The process dies.                                                       *)
Crash(m) ==
  /\ stage[m] # "down"
  /\ Fault
  /\ PutOut(m)
  /\ owned' = [owned EXCEPT ![m] = {}]
  /\ stage' = [stage EXCEPT ![m] = "down"]
  /\ batch' = [batch EXCEPT ![m] = <<>>]
  /\ UNCHANGED <<log, committed, position, generation, stopping, processed>>

(* The session times out while the process lives on.                       *)
Evict(m) ==
  /\ member[m] # "out" /\ stage[m] # "down"
  /\ Fault
  /\ PutOut(m)
  /\ UNCHANGED <<log, committed, owned, position, generation, consumer>>

(* compose starts the instance again.                                      *)
Restart(m) ==
  /\ stage[m] = "down"
  /\ stage' = [stage EXCEPT ![m] = "polling"]
  /\ stopping' = [stopping EXCEPT ![m] = FALSE]
  /\ UNCHANGED <<groupVars, batch, processed>>

(* Everything published has been delivered, the rest waits in a batch.     *)
Quiet ==
  /\ stable
  /\ \A m \in Members : Polling(m) /\ member[m] = "in"
  /\ \A m \in Members : \A p \in owned[m] : position[m][p] = Len(log[p])

Rest == Quiet /\ UNCHANGED vars

Next ==
  \/ \E p \in Partitions, good \in BOOLEAN : Produce(p, good) /\ UNCHANGED consumer
  \/ \E m \in Members :
       \/ PollMessage(m) \/ PollRevoke(m) \/ PollLose(m) \/ JoinGroup(m)
       \/ ProcessBatch(m) \/ Commit(m)
       \/ Cancel(m) \/ Close(m) \/ Crash(m) \/ Evict(m) \/ Restart(m)
  \/ AssignPartitions
  \/ Rest

(* The loop runs, the coordinator completes rebalances, compose restarts.  *)
Fairness ==
  /\ WF_vars(AssignPartitions)
  /\ \A m \in Members :
       /\ WF_vars(PollMessage(m)) /\ WF_vars(PollRevoke(m)) /\ WF_vars(PollLose(m))
       /\ WF_vars(JoinGroup(m)) /\ WF_vars(ProcessBatch(m)) /\ WF_vars(Commit(m))
       /\ WF_vars(Close(m)) /\ WF_vars(Restart(m))

Spec == Init /\ [][Next]_vars
FairSpec == Spec /\ Fairness

-----------------------------------------------------------------------------
(* Properties *)

(* Every variable keeps its type, and a batch never outgrows its size.     *)
TypeOK ==
  /\ GroupTypeOK
  /\ stage \in [Members -> {"down", "polling", "committing"}]
  /\ stopping \in [Members -> BOOLEAN]
  /\ batch \in [Members -> Seq(Partitions \X (1..MaxLog))]
  /\ processed \in [Partitions -> [1..MaxLog -> Nat]]
  /\ \A m \in Members : Len(batch[m]) <= BatchSize

(* A batch is never lost: whatever the group has committed was processed,   *)
(* by this member or by another, through rebalances, evictions, crashes and *)
(* skipped commits.                                                        *)
CommittedIsProcessed ==
  \A p \in Partitions : \A i \in 1..committed[p] : processed[p][i] > 0

(* Why: what a client may commit is processed or waits in its own batch.    *)
DeliveredIsHeld ==
  \A m \in Members : \A p \in owned[m] : \A i \in 1..position[m][p] :
    processed[p][i] > 0 \/ InBatch(m, p, i)

(* Commit comes after the loop over the batch.                             *)
CommittingIsProcessed ==
  \A m \in Members : stage[m] = "committing" =>
    \A j \in 1..Len(batch[m]) : processed[batch[m][j][1]][batch[m][j][2]] > 0

(* The chances of message i of p to be processed once more: a client that   *)
(* holds p and has yet to deliver it, at most one per rebalance (index 0),  *)
(* and the places it has in batches that are not processed yet.            *)
Chances(p, i) ==
  {c \in Members \X (0..BatchSize) :
     \/ c[2] = 0 /\ p \in owned[c[1]] /\ position[c[1]][p] < i
     \/ /\ stage[c[1]] # "committing"
        /\ c[2] \in 1..Len(batch[c[1]]) /\ batch[c[1]][c[2]] = <<p, i>>}

(* Every time it was processed, and every chance that it will be, goes back *)
(* to a rebalance of its own.                                              *)
ProcessingsAreCounted ==
  \A p \in Partitions : \A i \in 1..MaxLog :
    processed[p][i] + Cardinality(Chances(p, i)) <= generation

(* The inductive invariant.                                                *)
IInv ==
  /\ TypeOK
  /\ PositionsOrdered
  /\ CommittedIsProcessed
  /\ DeliveredIsHeld
  /\ CommittingIsProcessed
  /\ ProcessingsAreCounted

(* The offset of the group never goes back, although a batch may hold       *)
(* messages of partitions that were read further by somebody else since.   *)
CommitsAdvance == [][\A p \in Partitions : committed[p] <= committed'[p]]_vars

(* A message is processed again only after a rebalance.                    *)
RepeatsNeedRebalance ==
  \A p \in Partitions : \A i \in 1..MaxLog : processed[p][i] <= generation

(* Some instance has collected the message.                                *)
WaitsInABatch(p, i) == \E m \in Members : InBatch(m, p, i)

(* In the end every message is processed, but for a rest that does not fill *)
(* a batch, which is kept.                                                 *)
AllButARestIsProcessed ==
  <>[](\A p \in Partitions : \A i \in 1..Len(log[p]) :
         processed[p][i] > 0 \/ WaitsInABatch(p, i))

(* "If a message of a batch cannot be deserialized, no Commit() is made for  *)
(* that batch": such a message is not committed.                           *)
BadIsNotCommitted ==
  \A p \in Partitions : \A i \in 1..committed[p] : log[p][i]
=============================================================================
