---------------------------- MODULE ConsumerGroup ----------------------------
(***************************************************************************)
(* A consumer group of librdkafka as the two consumers of practical_work_2 *)
(* see it: subscribed to one topic, no rebalance callback, the eager       *)
(* assignment.  A rebalance is a barrier: every member of the group gives   *)
(* all its partitions back, inside Poll, before anything is assigned again. *)
(* A member the coordinator has put out of the group does not know it until *)
(* its next Poll, and its commits fail.                                    *)
(*                                                                         *)
(* The actions here change the variables of this module only; the modules  *)
(* that extend it say which step of a consumer they are part of.           *)
(***************************************************************************)
EXTENDS Naturals, Sequences, FiniteSets

CONSTANTS
  Members,     \* the instances of the application
  Partitions,  \* the partitions of the topic
  WithBad,     \* TRUE: the topic may hold messages that are not JSON
  MaxLog,      \* bound: messages in all partitions
  MaxFaults    \* bound: crashes, evictions and shutdowns

ASSUME ConsumerGroupAssumption ==
  /\ IsFiniteSet(Members) /\ IsFiniteSet(Partitions)
  /\ WithBad \in BOOLEAN
  /\ MaxLog \in Nat /\ MaxFaults \in Nat

VARIABLES
  log,         \* partition -> messages, TRUE: it can be deserialized
  committed,   \* partition -> offset committed by the group
  member,      \* member -> "out" of the group, "in" it, "joined": waits for partitions
  stable,      \* no rebalance under way
  owned,       \* member -> the partitions its client holds
  position,    \* member -> partition -> offset delivered last
  generation,  \* rebalances completed
  faults       \* crashes, evictions and shutdowns so far

group == <<member, stable, owned, position, generation>>
groupVars == <<log, committed, group, faults>>

GroupInit ==
  /\ log = [p \in Partitions |-> <<>>]
  /\ committed = [p \in Partitions |-> 0]
  /\ member = [m \in Members |-> "out"]
  /\ stable = TRUE
  /\ owned = [m \in Members |-> {}]
  /\ position = [m \in Members |-> committed]
  /\ generation = 0
  /\ faults = 0

Fault == faults < MaxFaults /\ faults' = faults + 1

Published == {x \in Partitions \X (1..MaxLog) : x[2] <= Len(log[x[1]])}

(* The producer of an instance, or one that does not write JSON.           *)
Produce(p, good) ==
  /\ Cardinality(Published) < MaxLog
  /\ good \/ WithBad
  /\ log' = [log EXCEPT ![p] = Append(@, good)]
  /\ UNCHANGED <<committed, group, faults>>

(* The client joins; those that are in the group have to join again.       *)
Join(m) ==
  /\ member[m] = "out" /\ owned[m] = {}
  /\ member' = [member EXCEPT ![m] = "joined"]
  /\ stable' = FALSE
  /\ UNCHANGED <<owned, position, generation>>

(* Poll serves the rebalance of the group.                                 *)
Revoke(m) ==
  /\ ~stable /\ member[m] = "in"
  /\ member' = [member EXCEPT ![m] = "joined"]
  /\ owned' = [owned EXCEPT ![m] = {}]
  /\ UNCHANGED <<stable, position, generation>>

(* Poll learns that the member was put out: its partitions are lost.       *)
Lose(m) ==
  /\ member[m] = "out" /\ owned[m] # {}
  /\ owned' = [owned EXCEPT ![m] = {}]
  /\ UNCHANGED <<member, stable, position, generation>>

Waiting == {m \in Members : member[m] = "joined"}

(* Everybody has joined: the partitions are spread over the members, and    *)
(* read from the committed offsets.                                        *)
Assign ==
  /\ Waiting # {}
  /\ \A m \in Members : member[m] # "in"
  /\ \E f \in [Partitions -> Waiting] :
       LET share(m) == {p \in Partitions : f[p] = m} IN
       /\ \A m, n \in Waiting : Cardinality(share(m)) <= Cardinality(share(n)) + 1
       /\ owned' = [m \in Members |-> IF m \in Waiting THEN share(m) ELSE owned[m]]
       /\ position' = [m \in Members |->
            [p \in Partitions |->
               IF m \in Waiting /\ p \in share(m) THEN committed[p] ELSE position[m][p]]]
  /\ member' = [m \in Members |-> IF m \in Waiting THEN "in" ELSE member[m]]
  /\ stable' = TRUE
  /\ generation' = generation + 1

(* The coordinator puts a member out: it left, or its session timed out.   *)
PutOut(m) ==
  /\ member' = [member EXCEPT ![m] = "out"]
  /\ stable' = FALSE

(* Poll delivers the next message of partition p.                          *)
Deliver(m, p) ==
  /\ p \in owned[m]
  /\ position[m][p] < Len(log[p])
  /\ position' = [position EXCEPT ![m][p] = @ + 1]
  /\ UNCHANGED <<member, stable, owned, generation>>

(* A commit of everything delivered, by a member of the group; the         *)
(* coordinator refuses that of any other.                                  *)
CommitPositions(m) ==
  committed' = [p \in Partitions |->
    IF member[m] = "in" /\ p \in owned[m] THEN position[m][p] ELSE committed[p]]

(* Every variable of the group keeps its type.                             *)
GroupTypeOK ==
  /\ log \in [Partitions -> Seq(BOOLEAN)]
  /\ \A p \in Partitions : Len(log[p]) <= MaxLog
  /\ committed \in [Partitions -> Nat]
  /\ member \in [Members -> {"out", "in", "joined"}]
  /\ stable \in BOOLEAN
  /\ owned \in [Members -> SUBSET Partitions]
  /\ position \in [Members -> [Partitions -> Nat]]
  /\ generation \in Nat /\ faults \in Nat

(* Committed by the group, delivered to the member that holds the partition, *)
(* published: in this order; and no two members of the group hold a         *)
(* partition.                                                              *)
PositionsOrdered ==
  /\ \A p \in Partitions : committed[p] <= Len(log[p])
  /\ \A m \in Members : \A p \in owned[m] :
       /\ position[m][p] <= Len(log[p])
       /\ member[m] = "in" => committed[p] <= position[m][p]
       /\ \A n \in Members \ {m} :
            member[m] = "in" /\ member[n] = "in" => p \notin owned[n]
=============================================================================
