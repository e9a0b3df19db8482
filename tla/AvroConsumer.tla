---------------------------- MODULE AvroConsumer ----------------------------
(***************************************************************************)
(* The Avro producer and consumer of practical_work_7.  A producer         *)
(* registers its schema and sends framed records; other producers send     *)
(* what they like to the same topic.  A run of the consumer polls, decodes *)
(* and logs record by record, commits each one by itself, and ends after   *)
(* MESSAGE_COUNT records, when nothing came for the idle timeout, on a     *)
(* signal, or at the first error.  One member in the group: the client's   *)
(* automatic commits are off, nothing is committed when it closes.         *)
(***************************************************************************)
EXTENDS Naturals, Sequences, FiniteSets, Framing

CONSTANTS
  Partitions,  \* the partitions of the topic
  Schemas,     \* the schemas of producers, positive numbers
  Ids,         \* the ids the registry gives out
  Foreign,     \* payloads of producers that do not use this format
  Limits,      \* values of MESSAGE_COUNT, 0: no limit
  MaxLog,      \* bound: records in all partitions
  MaxRuns,     \* bound: runs of the consumer
  MaxFaults    \* bound: requests that fail, signals and kills

ASSUME AvroConsumerAssumption ==
  /\ IsFiniteSet(Partitions)
  /\ Schemas \subseteq Nat \ {0} /\ Ids \subseteq Nat \ {0}
  /\ Foreign \subseteq Seq(Nat) /\ Limits \subseteq Nat
  /\ MaxLog \in Nat /\ MaxRuns \in Nat /\ MaxFaults \in Nat

(* The registry counts in 32 bits, with a sign.                            *)
ASSUME IdsAssumption == \A i \in Ids : i <= 2147483647

VARIABLES
  log,        \* partition -> payloads
  registry,   \* id -> schema, 0: not given out
  committed,  \* partition -> offset committed by the group
  stage,      \* "down", "polling", "handling" a fetch or "committing" a record
  exit,       \* why the last run ended
  limit,      \* cfg.MessageCount
  read,       \* records committed in this run
  begin,      \* partition -> offset committed when the run began (history)
  position,   \* partition -> offset fetched last
  cursor,     \* partition -> offset handled last
  current,    \* the partition EachRecord is in
  schemas,    \* ids in the schema cache
  processed,  \* a record of this fetch was committed
  timer,      \* the idle timer: "running" or "fired" (its channel holds a tick)
  firedAt,    \* read, when it fired last (history)
  cancelled,  \* SIGTERM: ctx is cancelled
  handled,    \* partition -> offsets decoded and logged so far (history)
  runs, faults

topic == <<log, registry>>
run == <<limit, begin, schemas>>
fetch == <<position, cursor, current>>
clock == <<timer, firedAt>>
bounds == <<runs, faults>>
vars == <<topic, committed, stage, exit, run, read, fetch, processed, clock,
          cancelled, handled, bounds>>

Init ==
  /\ log = [p \in Partitions |-> <<>>]
  /\ registry = [i \in Ids |-> 0]
  /\ committed = [p \in Partitions |-> 0]
  /\ stage = "down" /\ exit = "none"
  /\ limit = 0 /\ read = 0 /\ schemas = {}
  /\ begin = committed /\ position = committed /\ cursor = committed
  /\ current \in Partitions
  /\ processed = FALSE
  /\ timer = "running" /\ firedAt = 0
  /\ cancelled = FALSE
  /\ handled = [p \in Partitions |-> {}]
  /\ runs = 0 /\ faults = 0

-----------------------------------------------------------------------------
(* Producers and the registry *)

Published == {x \in Partitions \X (1..MaxLog) : x[2] <= Len(log[x[1]])}

Send(p, payload) ==
  /\ Cardinality(Published) < MaxLog
  /\ log' = [log EXCEPT ![p] = Append(@, payload)]
  /\ UNCHANGED <<registry, committed, stage, exit, run, read, fetch, processed, clock,
                 cancelled, handled, bounds>>

(* Register: the subject's version of the schema, or a new one.            *)
Register(s) ==
  /\ \A i \in Ids : registry[i] # s
  /\ \E i \in Ids : registry[i] = 0 /\ registry' = [registry EXCEPT ![i] = s]
  /\ UNCHANGED <<log, committed, stage, exit, run, read, fetch, processed, clock,
                 cancelled, handled, bounds>>

(* The Go producer, once its schema is registered: an error after the       *)
(* record was written ends it like one before, a later run sends it again.  *)
ProduceSync(p, s) == \E i \in Ids : registry[i] = s /\ Send(p, Encode(i, <<s>>))

(* NiFi and others.                                                        *)
SendForeign(p) == \E payload \in Foreign : Send(p, payload)

-----------------------------------------------------------------------------
(* A run of the consumer *)

(* Mutated: the cap is checked after the record.                           *)
CapPassed == limit > 0 /\ read > limit

CapReached == limit > 0 /\ read >= limit

Fault == faults < MaxFaults /\ faults' = faults + 1

(* run returns; Close leaves the group without a commit.                   *)
Exit(why) ==
  /\ stage' = "down"
  /\ exit' = why
  /\ UNCHANGED <<topic, run, read, fetch, processed, clock, cancelled, runs>>

(* Registry, client, group, an empty cache and a running timer.            *)
Start ==
  /\ stage = "down" /\ runs < MaxRuns
  /\ stage' = "polling" /\ exit' = "none"
  /\ limit' \in Limits
  /\ read' = 0 /\ schemas' = {} /\ processed' = FALSE
  /\ begin' = committed /\ position' = committed /\ cursor' = committed
  /\ timer' = "running" /\ firedAt' = 0
  /\ cancelled' = FALSE
  /\ runs' = runs + 1
  /\ UNCHANGED <<topic, committed, current, handled, faults>>

(* PollFetches returns some of what is there, of any partition, or nothing *)
(* after a second; the records come partition by partition.                *)
Poll ==
  /\ stage = "polling" /\ ~cancelled
  /\ position' \in [Partitions -> 0..MaxLog]
  /\ \A p \in Partitions : position[p] <= position'[p] /\ position'[p] <= Len(log[p])
  /\ current' \in Partitions
  /\ stage' = "handling" /\ processed' = FALSE
  /\ UNCHANGED <<topic, committed, exit, run, read, cursor, clock, cancelled, handled, bounds>>

FetchFails ==
  /\ stage = "polling" /\ ~cancelled
  /\ Fault
  /\ Exit("error")
  /\ UNCHANGED <<committed, handled>>

PollCancelled ==
  /\ stage = "polling" /\ cancelled
  /\ Exit("signal")
  /\ UNCHANGED <<committed, handled, faults>>

(* EachRecord comes to the next record of partition p.                     *)
NextRecord(p) ==
  /\ stage = "handling" /\ ~CapReached
  /\ cursor[p] < position[p]
  /\ cursor[current] < position[current] => p = current

Payload(p) == log[p][cursor[p] + 1]

(* SchemaByID answers: the id is known and the request is not cancelled.   *)
SchemaKnown(id) ==
  \/ id \in schemas
  \/ ~cancelled /\ id \in Ids /\ registry[id] # 0

Readable(p) ==
  /\ Framed(Payload(p))
  /\ SchemaKnown(SchemaID(Payload(p)))
  /\ Decodes(registry[SchemaID(Payload(p))], Payload(p))

(* The record is decoded and logged.                                       *)
Handle(p) ==
  /\ NextRecord(p) /\ Readable(p)
  /\ schemas' = schemas \cup {SchemaID(Payload(p))}
  /\ handled' = [handled EXCEPT ![p] = @ \cup {cursor[p] + 1}]
  /\ current' = p
  /\ stage' = "committing"
  /\ UNCHANGED <<topic, committed, exit, limit, begin, read, position, cursor, processed,
                 clock, cancelled, bounds>>

(* Mutated: the record is logged and skipped, the next one handled.        *)
Skip(p) ==
  /\ NextRecord(p) /\ ~Readable(p)
  /\ cursor' = [cursor EXCEPT ![p] = @ + 1]
  /\ UNCHANGED <<topic, committed, stage, exit, run, read, position, current, processed,
                 clock, cancelled, handled, bounds>>

(* err is set: the rest of the fetch is passed over and run returns it.    *)
Reject(p) ==
  /\ NextRecord(p) /\ ~Readable(p)
  /\ Exit("error")
  /\ UNCHANGED <<committed, handled, faults>>

(* A request to the registry fails.                                        *)
RegistryFails(p) ==
  /\ NextRecord(p) /\ Framed(Payload(p)) /\ SchemaID(Payload(p)) \notin schemas
  /\ Fault
  /\ Exit("error")
  /\ UNCHANGED <<committed, handled>>

Advanced(offsets) == [offsets EXCEPT ![current] = cursor[current] + 1]

(* CommitRecords succeeds.                                                 *)
Commit ==
  /\ stage = "committing" /\ ~cancelled
  /\ committed' = Advanced(committed)
  /\ cursor' = Advanced(cursor)
  /\ read' = read + 1 /\ processed' = TRUE
  /\ stage' = "handling"
  /\ UNCHANGED <<topic, exit, run, position, current, clock, cancelled, handled, bounds>>

(* It does not, or its answer is lost; always when ctx is cancelled.        *)
CommitFails ==
  /\ stage = "committing"
  /\ committed' \in {committed, Advanced(committed)}
  /\ IF cancelled THEN UNCHANGED faults ELSE Fault
  /\ Exit("error")
  /\ UNCHANGED handled

(* What is left of the fetch, past the cap, is passed over.                *)
FetchDone == stage = "handling" /\ (CapReached \/ cursor = position)

(* Mutated: the timer is reset without draining its channel.               *)
ResetWithoutDrain ==
  /\ FetchDone /\ processed /\ ~CapReached
  /\ stage' = "polling"
  /\ UNCHANGED <<topic, committed, exit, run, read, fetch, processed, clock, cancelled,
                 handled, bounds>>

(* Mutated: every poll resets the timer.                                   *)
ResetAlways ==
  /\ FetchDone /\ ~CapReached
  /\ timer' = "running"
  /\ stage' = "polling"
  /\ UNCHANGED <<topic, committed, exit, run, read, fetch, processed, firedAt, cancelled,
                 handled, bounds>>

(* The idle timer is stopped, drained and started again.                   *)
ResetTimer ==
  /\ FetchDone /\ processed /\ ~CapReached
  /\ timer' = "running"
  /\ stage' = "polling"
  /\ UNCHANGED <<topic, committed, exit, run, read, fetch, processed, firedAt, cancelled,
                 handled, bounds>>

(* The loop ends: read < cfg.MessageCount is false.                        *)
Finish ==
  /\ FetchDone /\ CapReached
  /\ Exit("finished")
  /\ UNCHANGED <<committed, handled, faults>>

(* Nothing came, and the timer has fired ...                               *)
IdleExit ==
  /\ FetchDone /\ ~processed /\ timer = "fired"
  /\ Exit("idle")
  /\ UNCHANGED <<committed, handled, faults>>

(* ... or has not.                                                         *)
PollAgain ==
  /\ FetchDone /\ ~processed /\ timer = "running"
  /\ stage' = "polling"
  /\ UNCHANGED <<topic, committed, exit, run, read, fetch, processed, clock, cancelled,
                 handled, bounds>>

TimerFires ==
  /\ stage # "down" /\ timer = "running"
  /\ timer' = "fired"
  /\ firedAt' = read
  /\ UNCHANGED <<topic, committed, stage, exit, run, read, fetch, processed, cancelled,
                 handled, bounds>>

Signal ==
  /\ stage # "down" /\ ~cancelled
  /\ Fault
  /\ cancelled' = TRUE
  /\ UNCHANGED <<topic, committed, stage, exit, run, read, fetch, processed, clock, handled, runs>>

Kill ==
  /\ stage # "down"
  /\ Fault
  /\ Exit("killed")
  /\ UNCHANGED <<committed, handled>>

(* The program has ended; nobody has to run it again.                      *)
Rest == stage = "down" /\ UNCHANGED vars

Next ==
  \/ \E s \in Schemas : Register(s) \/ \E p \in Partitions : ProduceSync(p, s)
  \/ \E p \in Partitions : SendForeign(p) \/ Handle(p) \/ Reject(p) \/ RegistryFails(p)
  \/ Start \/ Poll \/ FetchFails \/ PollCancelled
  \/ Commit \/ CommitFails
  \/ ResetTimer \/ Finish \/ IdleExit \/ PollAgain
  \/ TimerFires \/ Signal \/ Kill \/ Rest

(* The program runs, its requests are answered and time passes.            *)
Fairness ==
  /\ \A p \in Partitions : WF_vars(Handle(p)) /\ WF_vars(Reject(p))
  /\ WF_vars(Poll) /\ WF_vars(PollCancelled)
  /\ WF_vars(Commit) /\ WF_vars(CommitFails)
  /\ WF_vars(ResetTimer) /\ WF_vars(Finish) /\ WF_vars(IdleExit) /\ WF_vars(PollAgain)
  /\ WF_vars(TimerFires)

Spec == Init /\ [][Next]_vars
FairSpec == Spec /\ Fairness

-----------------------------------------------------------------------------
(* Properties *)

(* Every variable keeps its type.                                          *)
TypeOK ==
  /\ log \in [Partitions -> Seq(Seq(Nat))]
  /\ \A p \in Partitions : Len(log[p]) <= MaxLog
  /\ registry \in [Ids -> Schemas \cup {0}]
  /\ committed \in [Partitions -> Nat] /\ begin \in [Partitions -> Nat]
  /\ position \in [Partitions -> Nat] /\ cursor \in [Partitions -> Nat]
  /\ stage \in {"down", "polling", "handling", "committing"}
  /\ exit \in {"none", "finished", "idle", "signal", "error", "killed"}
  /\ limit \in Nat /\ read \in Nat /\ firedAt \in Nat
  /\ current \in Partitions
  /\ schemas \subseteq Ids
  /\ processed \in BOOLEAN /\ cancelled \in BOOLEAN
  /\ timer \in {"running", "fired"}
  /\ handled \in [Partitions -> SUBSET Nat]
  /\ runs \in Nat /\ faults \in Nat

(* Committed and published, and while a run lasts handled and fetched, in   *)
(* this order.                                                             *)
OffsetsOrdered ==
  /\ \A p \in Partitions : begin[p] <= committed[p] /\ committed[p] <= Len(log[p])
  /\ stage # "down" => \A p \in Partitions :
       committed[p] = cursor[p] /\ cursor[p] <= position[p] /\ position[p] <= Len(log[p])

(* A record is committed only once it was decoded and logged: one commit    *)
(* per record leaves no gap, although a commit covers all that is below it. *)
CommittedIsHandled ==
  \A p \in Partitions : \A i \in 1..committed[p] : i \in handled[p]

(* What was handled and is not committed is the one record at hand.         *)
HandledIsAtHand ==
  \A p \in Partitions : \A i \in handled[p] : i <= committed[p] + 1

(* The record at hand is of the fetch, decoded, and below the cap.         *)
CommittingIsHandled ==
  stage = "committing" =>
    /\ cursor[current] < position[current]
    /\ cursor[current] + 1 \in handled[current]
    /\ ~CapReached

CommittedInRun ==
  {x \in Partitions \X (1..MaxLog) : begin[x[1]] < x[2] /\ x[2] <= committed[x[1]]}

(* The count of the loop is the true one, unless an answer was lost.       *)
ReadIsCounted ==
  /\ stage # "down" \/ exit \in {"finished", "idle", "signal"} =>
       Cardinality(CommittedInRun) = read
  /\ limit > 0 => read <= limit

(* A tick that fell into the handling of a fetch is drained.               *)
TickIsFresh == timer = "fired" /\ (stage = "polling" \/ ~processed) => firedAt = read

(* A run that lasts has not ended, and without a fault nobody cancels it.  *)
RunIsOn == (stage # "down" => exit = "none") /\ (faults = 0 => ~cancelled)

(* Whoever frames a record has registered its schema.                      *)
FramedIsRegistered ==
  \A p \in Partitions : \A k \in 1..Len(log[p]) :
    \/ log[p][k] \in Foreign
    \/ \E i \in Ids : registry[i] # 0 /\ log[p][k] = Encode(i, <<registry[i]>>)

(* A run never commits more than MESSAGE_COUNT records, and the count it     *)
(* logs at its end is the true one; it says it is finished only after       *)
(* exactly that many, and idle only if nothing was committed since the tick *)
(* that ended it: a tick that fell into the handling of a fetch is drained. *)
(* Without a fault it fails only in front of a foreign payload.             *)
ExitsAreEarned ==
  /\ limit > 0 => Cardinality(CommittedInRun) <= limit
  /\ exit \in {"finished", "idle", "signal"} => Cardinality(CommittedInRun) = read
  /\ exit = "finished" => read = limit
  /\ exit = "idle" => firedAt = read
  /\ exit = "error" /\ faults = 0 =>
       \E p \in Partitions : cursor[p] < Len(log[p]) /\ Payload(p) \in Foreign

(* The inductive invariant.                                                *)
IInv ==
  /\ TypeOK
  /\ OffsetsOrdered
  /\ CommittedIsHandled
  /\ HandledIsAtHand
  /\ CommittingIsHandled
  /\ ReadIsCounted
  /\ TickIsFresh
  /\ FramedIsRegistered
  /\ RunIsOn
  /\ ExitsAreEarned

(* Every run ends once the producers have stopped.                         *)
EveryRunEnds == [](stage # "down" => <>(stage = "down"))
=============================================================================
