--------------------------- MODULE SingleConsumer ---------------------------
(***************************************************************************)
(* RunSingleMessageConsumer of practical_work_2: every instance polls a    *)
(* message, handles it and polls the next.  Offsets are committed by the   *)
(* client on its own (enable.auto.commit), as soon as a message has been    *)
(* delivered and before anybody has looked at it: on a timer, when the     *)
(* partitions are taken away and when the consumer is closed.              *)
(*                                                                         *)
(* What BatchConsumer has too is called Single... here, so that one module *)
(* can prove about both.                                                   *)
(***************************************************************************)
EXTENDS ConsumerGroup

VARIABLES
  up,        \* member -> its process runs
  inHand,    \* member -> the messages Poll returned that are not handled: one at most
  handled,   \* the messages <<partition, offset>> handled so far (history)
  crashes    \* processes that died (history)

single == <<up, inHand, handled, crashes>>
singleVars == <<groupVars, single>>

SingleInit ==
  /\ GroupInit
  /\ up = [m \in Members |-> TRUE]
  /\ inHand = [m \in Members |-> {}]
  /\ handled = {}
  /\ crashes = 0

-----------------------------------------------------------------------------
(* Mutated: mistakes the properties must tell from the code                *)

(* The next message is polled while another goroutine handles this one.    *)
PollAhead(m) ==
  /\ up[m]
  /\ \E p \in owned[m] :
       /\ Deliver(m, p)
       /\ inHand' = [inHand EXCEPT ![m] = @ \cup {<<p, position[m][p] + 1>>}]
  /\ UNCHANGED <<log, committed, faults, up, handled, crashes>>

(* A client that lost its partitions commits what it had.                  *)
LoseAndCommit(m) ==
  /\ up[m] /\ inHand[m] = {}
  /\ Lose(m)
  /\ committed' = [p \in Partitions |->
       IF p \in owned[m] THEN position[m][p] ELSE committed[p]]
  /\ UNCHANGED <<log, faults, single>>

(* The process ends while another goroutine handles a message.             *)
StopInHand(m) ==
  /\ up[m]
  /\ Fault
  /\ CommitPositions(m)
  /\ PutOut(m)
  /\ owned' = [owned EXCEPT ![m] = {}]
  /\ up' = [up EXCEPT ![m] = FALSE]
  /\ inHand' = [inHand EXCEPT ![m] = {}]
  /\ UNCHANGED <<log, position, generation, handled, crashes>>

-----------------------------------------------------------------------------
(* The consumer *)

SinglePolling(m) == up[m] /\ inHand[m] = {}

(* Poll returns a message.                                                 *)
SinglePollMessage(m) ==
  /\ SinglePolling(m)
  /\ \E p \in owned[m] :
       /\ Deliver(m, p)
       /\ inHand' = [inHand EXCEPT ![m] = {<<p, position[m][p] + 1>>}]
  /\ UNCHANGED <<log, committed, faults, up, handled, crashes>>

(* It is logged, or its deserialization error is; the loop goes on.        *)
Handle(m) ==
  /\ inHand[m] # {}
  /\ handled' = handled \cup inHand[m]
  /\ inHand' = [inHand EXCEPT ![m] = {}]
  /\ UNCHANGED <<groupVars, up, crashes>>

(* The commit timer of the client.                                         *)
AutoCommit(m) ==
  /\ up[m]
  /\ CommitPositions(m)
  /\ committed' # committed
  /\ UNCHANGED <<log, group, faults, single>>

(* Poll serves the rebalance: the client commits, then gives everything up. *)
SinglePollRevoke(m) ==
  /\ SinglePolling(m)
  /\ Revoke(m)
  /\ CommitPositions(m)
  /\ UNCHANGED <<log, faults, single>>

SinglePollLose(m) ==
  /\ SinglePolling(m)
  /\ Lose(m)
  /\ UNCHANGED <<log, committed, faults, single>>

SingleJoinGroup(m) ==
  /\ up[m]
  /\ Join(m)
  /\ UNCHANGED <<log, committed, faults, single>>

SingleAssignPartitions ==
  /\ Assign
  /\ UNCHANGED <<log, committed, faults, single>>

(* The context is cancelled: the loop returns, Close commits and leaves.   *)
Stop(m) ==
  /\ SinglePolling(m)
  /\ Fault
  /\ CommitPositions(m)
  /\ PutOut(m)
  /\ owned' = [owned EXCEPT ![m] = {}]
  /\ up' = [up EXCEPT ![m] = FALSE]
  /\ UNCHANGED <<log, position, generation, inHand, handled, crashes>>

(* The process dies.                                                       *)
SingleCrash(m) ==
  /\ up[m]
  /\ Fault
  /\ PutOut(m)
  /\ owned' = [owned EXCEPT ![m] = {}]
  /\ up' = [up EXCEPT ![m] = FALSE]
  /\ inHand' = [inHand EXCEPT ![m] = {}]
  /\ crashes' = crashes + 1
  /\ UNCHANGED <<log, committed, position, generation, handled>>

(* The session times out while the process lives on.                       *)
SingleEvict(m) ==
  /\ member[m] # "out" /\ up[m]
  /\ Fault
  /\ PutOut(m)
  /\ UNCHANGED <<log, committed, owned, position, generation, single>>

(* compose starts the instance again.                                      *)
SingleRestart(m) ==
  /\ ~up[m]
  /\ up' = [up EXCEPT ![m] = TRUE]
  /\ UNCHANGED <<groupVars, inHand, handled, crashes>>

(* Everything published is delivered, handled and committed.               *)
SingleRest ==
  /\ stable
  /\ \A m \in Members : SinglePolling(m) /\ member[m] = "in"
  /\ \A p \in Partitions : committed[p] = Len(log[p])
  /\ UNCHANGED singleVars

SingleNext ==
  \/ \E p \in Partitions, good \in BOOLEAN : Produce(p, good) /\ UNCHANGED single
  \/ \E m \in Members :
       \/ SinglePollMessage(m) \/ Handle(m) \/ AutoCommit(m)
       \/ SinglePollRevoke(m) \/ SinglePollLose(m) \/ SingleJoinGroup(m)
       \/ Stop(m) \/ SingleCrash(m) \/ SingleEvict(m) \/ SingleRestart(m)
  \/ SingleAssignPartitions
  \/ SingleRest

(* The loop runs, the timer fires, the coordinator completes rebalances,    *)
(* compose restarts.                                                       *)
SingleFairness ==
  /\ WF_singleVars(SingleAssignPartitions)
  /\ \A m \in Members :
       /\ WF_singleVars(SinglePollMessage(m)) /\ WF_singleVars(Handle(m))
       /\ WF_singleVars(AutoCommit(m))
       /\ WF_singleVars(SinglePollRevoke(m)) /\ WF_singleVars(SinglePollLose(m))
       /\ WF_singleVars(SingleJoinGroup(m)) /\ WF_singleVars(SingleRestart(m))

SingleSpec == SingleInit /\ [][SingleNext]_singleVars
SingleFairSpec == SingleSpec /\ SingleFairness

-----------------------------------------------------------------------------
(* Properties *)

(* Every variable keeps its type, and Poll is not called with a message in  *)
(* hand.                                                                   *)
SingleTypeOK ==
  /\ GroupTypeOK
  /\ up \in [Members -> BOOLEAN]
  /\ inHand \in [Members -> SUBSET (Partitions \X (1..MaxLog))]
  /\ handled \subseteq Partitions \X (1..MaxLog)
  /\ crashes \in Nat
  /\ \A m \in Members : Cardinality(inHand[m]) <= 1

(* The messages nobody will handle: committed, or held by a client that is  *)
(* about to commit them, but neither handled nor in hand.                  *)
Lost ==
  {x \in Published :
     /\ x \notin handled
     /\ \A m \in Members : x \notin inHand[m]
     /\ \/ x[2] <= committed[x[1]]
        \/ \E m \in Members : x[1] \in owned[m] /\ x[2] <= position[m][x[1]]}

(* Auto-commit loses a message only when a process dies between Poll and    *)
(* the handler, and then no more than one; rebalances, evictions and        *)
(* shutdowns lose nothing.                                                 *)
LossNeedsCrash == Cardinality(Lost) <= crashes

(* The state predicates that hold at all times.                            *)
SingleIInv == SingleTypeOK /\ PositionsOrdered /\ LossNeedsCrash

(* The offset of the group never goes back.                                *)
SingleCommitsAdvance == [][\A p \in Partitions : committed[p] <= committed'[p]]_singleVars

(* In the end every message is handled and committed, but for one per       *)
(* crash.                                                                  *)
AllButLostIsHandled ==
  <>[](/\ Cardinality(Published \ handled) <= crashes
       /\ \A p \in Partitions : committed[p] = Len(log[p]))
=============================================================================
