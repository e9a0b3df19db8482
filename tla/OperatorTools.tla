---------------------------- MODULE OperatorTools ----------------------------
(***************************************************************************)
(* The command-line tools that write keyed topics of the primary cluster   *)
(* and the one that reads such a topic back.  "blacklist" stands for       *)
(* stream-processor blacklist add, remove, load and list over the          *)
(* compacted topic blacklist.commands, "shop" for shop-producer over       *)
(* products.raw.  load and shop-producer publish the entries of a file one *)
(* by one and stop at the first error; load decodes the whole file first,  *)
(* shop-producer decodes and validates line by line.  Operators publish     *)
(* single commands while a file is loaded or the list is printed; nobody   *)
(* else writes products.raw while shop-producer runs.                      *)
(*                                                                         *)
(* A send that fails has written its record or not; it does not write it   *)
(* any later.  Offsets count from 1.                                       *)
(***************************************************************************)
EXTENDS Naturals, Sequences, FiniteSets

CONSTANTS
  Keys,          \* product identifiers
  Partitions,    \* how many partitions the topic has
  PartitionOf,   \* the partition of every key
  Files,         \* tool -> files: sequences of [key, good]
  MaxRecords,    \* bound: records in the topic when a command or a run starts
  MaxRuns,       \* bound: tool -> files published
  MaxLists,      \* bound: lists printed
  MaxFaults      \* bound: requests to the brokers that fail

Tools == {"blacklist", "shop"}

ASSUME OperatorToolsAssumption ==
  /\ Partitions \in Nat \ {0}
  /\ PartitionOf \in [Keys -> 1..Partitions]
  /\ DOMAIN Files = Tools
  /\ \A t \in Tools : Files[t] \subseteq Seq([key : Keys, good : BOOLEAN])
  /\ MaxRuns \in [Tools -> Nat]
  /\ {MaxRecords, MaxLists, MaxFaults} \subseteq Nat

VARIABLES
  tool,    \* the tool, and so the topic, this behaviour is about
  topic,   \* partition -> records [key, blocks, run, line]; run 0 is a command
  clean,   \* partition -> offset up to which the log cleaner has come
  run,     \* the file being published: [number, state, file, line, alone]
  list,    \* the list being made: [number, state, part, hw, offset, current, since]
  faults

vars == <<tool, topic, clean, run, list, faults>>

-----------------------------------------------------------------------------
(* Helpers *)

Offsets(p) == 1..Len(topic[p])

Written == UNION {{topic[p][i] : i \in Offsets(p)} : p \in 1..Partitions}

Ready == run.state # "running"

(* The topic with one more record.                                         *)
Sent(k, blocks, number, line) ==
  [topic EXCEPT ![PartitionOf[k]] =
     Append(@, [key |-> k, blocks |-> blocks, run |-> number, line |-> line])]

(* The log cleaner has removed the record: a newer one of its key lies in   *)
(* the part it has been through.                                           *)
Compacted(p, i) == \E j \in (i + 1)..clean[p] : topic[p][j].key = topic[p][i].key

Init ==
  /\ tool \in Tools
  /\ topic = [p \in 1..Partitions |-> <<>>]
  /\ clean = [p \in 1..Partitions |-> 0]
  /\ run = [number |-> 0, state |-> "none", file |-> <<>>, line |-> 0, alone |-> TRUE]
  /\ list = [number |-> 0, state |-> "none", part |-> 1, hw |-> 0, offset |-> 0,
             current |-> {}, since |-> clean]
  /\ faults = 0

-----------------------------------------------------------------------------
(* Publishing *)

(* blacklist add, blacklist remove.                                        *)
Command(k, blocks) ==
  /\ tool = "blacklist"
  /\ Cardinality(Written) < MaxRecords
  /\ topic' = Sent(k, blocks, 0, Cardinality(Written) + 1)
  /\ run' = [run EXCEPT !.alone = FALSE]
  /\ UNCHANGED <<tool, clean, list, faults>>

(* A run opens its file; load gives up on one it cannot decode as a whole.  *)
StartRun(f) ==
  /\ Ready
  /\ run.number < MaxRuns[tool] /\ Cardinality(Written) < MaxRecords
  /\ run' = [number |-> run.number + 1, file |-> f, line |-> 0, alone |-> TRUE,
             state |-> IF tool = "blacklist" /\ \E i \in DOMAIN f : ~f[i].good
                       THEN "failed" ELSE "running"]
  /\ UNCHANGED <<tool, topic, clean, list, faults>>

HasLine == run.state = "running" /\ run.line < Len(run.file)
Line == run.file[run.line + 1]

(* Validated, encoded, sent and acknowledged.                              *)
PublishLine ==
  /\ HasLine /\ Line.good
  /\ topic' = Sent(Line.key, TRUE, run.number, run.line + 1)
  /\ run' = [run EXCEPT !.line = @ + 1]
  /\ UNCHANGED <<tool, clean, list, faults>>

(* Decoding or validation fails: the lines before it stay published.        *)
BadLine ==
  /\ HasLine /\ ~Line.good
  /\ run' = [run EXCEPT !.state = "failed"]
  /\ UNCHANGED <<tool, topic, clean, list, faults>>

(* Mutated: the error is logged and the next line published.               *)
PublishFailsAndGoesOn ==
  /\ HasLine /\ Line.good
  /\ faults < MaxFaults
  /\ faults' = faults + 1
  /\ topic' \in {topic, Sent(Line.key, TRUE, run.number, run.line + 1)}
  /\ run' = [run EXCEPT !.line = @ + 1]
  /\ UNCHANGED <<tool, clean, list>>

(* SendMessage, or the producer of a blacklist command, fails.             *)
PublishFails ==
  /\ HasLine /\ Line.good
  /\ faults < MaxFaults
  /\ faults' = faults + 1
  /\ topic' \in {topic, Sent(Line.key, TRUE, run.number, run.line + 1)}
  /\ run' = [run EXCEPT !.state = "failed"]
  /\ UNCHANGED <<tool, clean, list>>

FinishRun ==
  /\ run.state = "running"
  /\ run.line = Len(run.file)
  /\ run' = [run EXCEPT !.state = "done"]
  /\ UNCHANGED <<tool, topic, clean, list, faults>>

(* The cleaner goes through the log, except for the active segment, which   *)
(* holds at least the last record.                                         *)
Clean(p) ==
  /\ tool = "blacklist"
  /\ clean[p] + 1 < Len(topic[p])
  /\ clean' \in {[clean EXCEPT ![p] = n] : n \in (clean[p] + 1)..(Len(topic[p]) - 1)}
  /\ UNCHANGED <<tool, topic, run, list, faults>>

-----------------------------------------------------------------------------
(* blacklist list *)

Listing == list.state \in {"opening", "reading"}

StartList ==
  /\ tool = "blacklist" /\ ~Listing
  /\ list.number < MaxLists
  /\ list' = [number |-> list.number + 1, state |-> "opening", part |-> 1, hw |-> 0, offset |-> 0,
              current |-> {}, since |-> [p \in 1..Partitions |-> Len(topic[p])]]
  /\ UNCHANGED <<tool, topic, clean, run, faults>>

(* ConsumePartition from the oldest record, and the high watermark; an      *)
(* empty partition is not read.                                            *)
OpenPartition ==
  /\ list.state = "opening" /\ list.part <= Partitions
  /\ LET hw == Len(topic[list.part]) IN
     list' = IF hw > 0 THEN [list EXCEPT !.state = "reading", !.hw = hw, !.offset = 0]
                       ELSE [list EXCEPT !.part = @ + 1]
  /\ UNCHANGED <<tool, topic, clean, run, faults>>

(* Mutated: one more message is waited for.                                *)
PastWatermark(i) == i > list.hw

(* That was the last message below the high watermark, or a later one.      *)
AtWatermark(i) == i >= list.hw

(* The first record that is still there, after those received.             *)
IsNext(i) ==
  /\ i > list.offset /\ ~Compacted(list.part, i)
  /\ \A j \in (list.offset + 1)..(i - 1) : Compacted(list.part, j)

Went(i) ==
  IF AtWatermark(i) THEN [list EXCEPT !.state = "opening", !.part = @ + 1, !.offset = 0]
  ELSE [list EXCEPT !.offset = i]

(* Mutated: only add commands are remembered.                              *)
ReceiveAdds ==
  /\ list.state = "reading"
  /\ \E i \in Offsets(list.part) :
       /\ IsNext(i)
       /\ LET r == topic[list.part][i] IN
          list' = [Went(i) EXCEPT !.current = IF r.blocks THEN @ \cup {r.key} ELSE @]
  /\ UNCHANGED <<tool, topic, clean, run, faults>>

(* The newest command of a product replaces the ones before.               *)
Receive ==
  /\ list.state = "reading"
  /\ \E i \in Offsets(list.part) :
       /\ IsNext(i)
       /\ LET r == topic[list.part][i] IN
          list' = [Went(i) EXCEPT !.current = IF r.blocks THEN @ \cup {r.key} ELSE @ \ {r.key}]
  /\ UNCHANGED <<tool, topic, clean, run, faults>>

(* What is left are the products whose newest command was add.             *)
PrintList ==
  /\ list.state = "opening" /\ list.part > Partitions
  /\ list' = [list EXCEPT !.state = "printed"]
  /\ UNCHANGED <<tool, topic, clean, run, faults>>

(* ConsumePartition fails: nothing is printed.                             *)
ListFails ==
  /\ list.state = "opening" /\ list.part <= Partitions
  /\ faults < MaxFaults
  /\ faults' = faults + 1
  /\ list' = [list EXCEPT !.state = "failed"]
  /\ UNCHANGED <<tool, topic, clean, run>>

Next ==
  \/ \E k \in Keys, blocks \in BOOLEAN : Command(k, blocks)
  \/ \E f \in Files[tool] : StartRun(f)
  \/ PublishLine \/ BadLine \/ PublishFails \/ FinishRun
  \/ \E p \in 1..Partitions : Clean(p)
  \/ StartList \/ OpenPartition \/ Receive \/ PrintList \/ ListFails

(* The brokers serve the requests of a list; nobody has to publish.        *)
Fairness == WF_vars(OpenPartition) /\ WF_vars(Receive) /\ WF_vars(PrintList)

Spec == Init /\ [][Next]_vars
FairSpec == Spec /\ Fairness

-----------------------------------------------------------------------------
(* Properties *)

(* Every variable keeps its type.                                          *)
TypeOK ==
  /\ tool \in Tools
  /\ topic \in [1..Partitions -> Seq([key : Keys, blocks : BOOLEAN, run : Nat, line : Nat])]
  /\ clean \in [1..Partitions -> Nat]
  /\ run \in [number : Nat, state : {"none", "running", "done", "failed"},
             file : Seq([key : Keys, good : BOOLEAN]), line : Nat, alone : BOOLEAN]
  /\ list \in [number : Nat, state : {"none", "opening", "reading", "printed", "failed"},
              part : 1..(Partitions + 1), hw : Nat, offset : Nat, current : SUBSET Keys,
              since : [1..Partitions -> Nat]]
  /\ faults \in 0..MaxFaults

(* What the current run has written.                                       *)
LinesWritten == {r.line : r \in {w \in Written : w.run = run.number}}

(* A run that stops leaves the first lines of its file in force and no line *)
(* behind one that is missing; one that succeeds leaves them all.          *)
RunsLeaveAPrefix ==
  run.number > 0 =>
    \E n \in 0..Len(run.file) :
      /\ LinesWritten = 1..n
      /\ run.state = "done" => n = Len(run.file)
      /\ \A i \in 1..n : run.file[i].good
      /\ tool = "blacklist" /\ n > 0 => \A i \in DOMAIN run.file : run.file[i].good

(* Once a file is published as a whole, also when earlier runs have stopped *)
(* half way, the newest record of every product in it is its last line in   *)
(* the file, unless somebody else wrote since the run began.               *)
CompleteRunsSettle ==
  run.state = "done" /\ run.alone =>
    \A i \in DOMAIN run.file :
      (\A j \in (i + 1)..Len(run.file) : run.file[j].key # run.file[i].key) =>
        LET p == PartitionOf[run.file[i].key] IN
        \E n \in Offsets(p) :
          /\ topic[p][n].run = run.number /\ topic[p][n].line = i
          /\ \A m \in (n + 1)..Len(topic[p]) : topic[p][m].key # run.file[i].key

(* Why: a run is where it seems to be in its file, and so far the newest    *)
(* record of every product is the newest of the lines published.           *)
RunIsWhereItIs ==
  /\ run.number = 0 => run.state = "none"
  /\ run.line <= Len(run.file)
  /\ \A r \in Written : r.run <= run.number
  /\ run.state \in {"running", "done"} =>
       /\ LinesWritten = 1..run.line
       /\ \A i \in 1..run.line : run.file[i].good
       /\ tool = "blacklist" => \A i \in DOMAIN run.file : run.file[i].good
  /\ run.state = "done" => run.line = Len(run.file)

SettledSoFar ==
  run.state \in {"running", "done"} /\ run.alone =>
    \A i \in 1..run.line :
      (\A j \in (i + 1)..run.line : run.file[j].key # run.file[i].key) =>
        LET p == PartitionOf[run.file[i].key] IN
        \E n \in Offsets(p) :
          /\ topic[p][n].run = run.number /\ topic[p][n].line = i
          /\ \A m \in (n + 1)..Len(topic[p]) : topic[p][m].key # run.file[i].key

(* The first n of these records leave k blocked.                           *)
Blocked(records, k, n) ==
  \E i \in 1..n : /\ records[i].key = k /\ records[i].blocks
                  /\ \A j \in (i + 1)..n : records[j].key # k

(* What a list says of k is right: exactly, when no command was about k     *)
(* while it was made; otherwise a product it shows was blocked at some      *)
(* point since it began, or, when the cleaner has come past the commands    *)
(* that were there then, at some point at all.                             *)
JudgedRight(k) ==
  LET p == PartitionOf[k]
      untouched == \A i \in (list.since[p] + 1)..Len(topic[p]) : topic[p][i].key # k
      from == IF clean[p] <= list.since[p] THEN list.since[p] ELSE 1 IN
  IF untouched THEN k \in list.current <=> Blocked(topic[p], k, list.since[p])
  ELSE k \in list.current => \E m \in from..Len(topic[p]) : Blocked(topic[p], k, m)

(* A printed list is right about every product, although commands are       *)
(* written and removed by the log cleaner while it is made, and partitions  *)
(* are read one after another.                                             *)
ListIsRight == list.state = "printed" => \A k \in Keys : JudgedRight(k)

(* Why: of a product in the partition that is being read the list knows     *)
(* what the commands up to its offset say, or a newer command of it lies    *)
(* ahead that the cleaner keeps.                                           *)
KnownOrAhead(k) ==
  LET p == PartitionOf[k] IN
  \/ k \in list.current <=> Blocked(topic[p], k, list.offset)
  \/ /\ \E j \in (list.offset + 1)..clean[p] : topic[p][j].key = k
     /\ k \in list.current => \E m \in 1..list.offset : Blocked(topic[p], k, m)

ListIsOnItsWay ==
  /\ \A p \in 1..Partitions : clean[p] <= Len(topic[p]) /\ list.since[p] <= Len(topic[p])
  /\ list.state = "printed" => list.part = Partitions + 1
  /\ list.state = "reading" =>
       /\ list.part <= Partitions
       /\ list.offset < list.hw
       /\ list.since[list.part] <= list.hw /\ list.hw <= Len(topic[list.part])
  /\ list.state \in {"opening", "reading", "printed"} =>
       \A k \in Keys :
         /\ PartitionOf[k] < list.part => JudgedRight(k)
         /\ PartitionOf[k] = list.part =>
              IF list.state = "reading" THEN KnownOrAhead(k) ELSE k \notin list.current
         /\ PartitionOf[k] > list.part => k \notin list.current

(* The records of a product are in its partition.                          *)
InTheirPartition ==
  \A p \in 1..Partitions : \A i \in Offsets(p) : PartitionOf[topic[p][i].key] = p

(* The inductive invariant: the types, the two promises of a run that       *)
(* publishes a file, and what they and ListIsRight rest on.                *)
IInv ==
  /\ TypeOK
  /\ RunsLeaveAPrefix
  /\ CompleteRunsSettle
  /\ RunIsWhereItIs
  /\ SettledSoFar
  /\ InTheirPartition
  /\ ListIsOnItsWay

(* A list comes to an end: it waits for no message that may never be        *)
(* written, whatever the cleaner removes.                                  *)
ListsEnd == Listing ~> ~Listing
=============================================================================
