# Verification of the Kafka practicum

This directory holds TLA+ models of the programs under `src/kafka`, the TLC
configurations that check them on small instances, and proofs, checked by
TLAPS, of what holds for every instance. The repository is a set of
exercises around Apache Kafka. The largest, `final_project`, is a marketplace:
products go through a filter with a blacklist into PostgreSQL and HDFS, Spark
makes recommendations from them, a CLI queries the result. The others are an
orders application (`practical_work_2`), chat processors
(`practical_work_3`), a CDC consumer (`practical_work_5`), a TLS/ACL exercise
(`practical_work_6`) and an Avro producer and consumer (`practical_work_7`).

What they have in common is what the models are about: a consumer reads a
partition by offset, has an effect somewhere else, and commits the offset at
another moment; anything may fail between the two.

Paths below are relative to `src/kafka`.

## 1. The system

### 1.1 Final project

    shop-producer ──► products.raw ──┐
                                     ├─► stream-processor filter ─► products.filtered
    stream-processor ─► blacklist. ──┘     (table product-filter-table)   │
      blacklist …        commands                                         │
                                              ┌────────────────────────────┤
                                              ▼                            ▼ MirrorMaker
                            storage-indexer ─► PostgreSQL        primary.products.filtered
    client ─► client.events ─► MirrorMaker        ▲                        │
       │                            │             │                        ▼
       └── client_requests ─► PostgreSQL          └─ recommendations ◄─ publisher ◄─ HDFS ◄─ hdfs-loader
                                                                           Spark ◄──►┘

| Component | State | Operations | Hard behaviour | What makes it correct |
|---|---|---|---|---|
| **product filter** `cmd/stream-processor/main.go` (`filter`) | the blacklist in memory, its changelog topic, the group's offsets in two topics, emits and updates in flight | handle a product, handle a command, acknowledge, mark, commit, recover | two unordered input topics; asynchronous outputs; marks that pass what is in flight; replay after a crash; a payload that does not decode | the table is the commands' view and never loses a committed one; a product is judged by a table not behind the handled commands; a committed product is lost only behind a dropped one that overtook it; nothing is skipped; everything settles |
| **blacklist commands** same file (`blacklist add, remove, load, list`) | none; the topic | publish a command; publish a file; read all partitions up to their high watermark | a load that stops half way; a list that is no snapshot; a read without timeout | what is published stays in force; a list shows, key by key, the last command below the watermark it read |
| **storage indexer** `cmd/storage-indexer/main.go` | two consumer groups in one process, marks, committed offsets, two tables | wait for the database, join, store, mark, commit, end a session | store and mark are two steps; one failing claim cancels its siblings; one failing group takes the process down; redelivery over newer rows | what is committed is stored; the rows are not behind the committed offset; a refused record is never passed; the other group goes on |
| **shop producer** `cmd/shop-producer/main.go` | none | send every line of a file | a bad line stops the file half way; the next run repeats the first half | lines before the bad one are published once per run, in order |
| **client CLI** `cmd/client/main.go` | none; `client.events`, `client_requests` | publish the request, insert it, query | two writes without a transaction; queries read rows that lag behind; `searchProducts` does not look at `rows.Err()` | a stored request has its event |
| **HDFS loader** `cmd/hdfs-loader/main.go`, `internal/hdfs` | files | store a record as a file of its own, mark | as the indexer, but a redelivery makes a second file: the name holds the time | every committed record is in at least one file |
| **Spark job** `spark/jobs/recommendations.py` | a directory it overwrites | newest version per product, the events of every user | duplicates among its inputs; a reader during the overwrite | the result does not depend on duplicates |
| **recommendation publisher** `cmd/recommendation-publisher/main.go` | none | read the part files, send each line | fails half way; what an older run published stays | the topic holds every line of a complete run |
| **Kafka client configuration** `internal/kafkautil` | none | acks=all, idempotence, one request in flight | retries | no duplicates and no reordering from the producer itself |
| **validation, wire types** `internal/model` | none | decode, `Validate` | accepts what PostgreSQL refuses | what passes can be stored (it does not hold, see findings) |
| **topics and ACLs** `scripts/*.sh`, `docker-compose.yaml` | the clusters | create, grant, start in order | stops at the first error and is run again | a second run completes the first |
| **alert receiver** `cmd/alert-receiver` | none | log what is posted | none | none |
| mirroring, Connect, monitoring | configuration of third-party services | | | |

### 1.2 The other exercises

| Component | State | Operations | Hard behaviour | What makes it correct |
|---|---|---|---|---|
| **orders application** `practical_work_2` | librdkafka queues and positions; the batch in memory; the error channel | produce on a tick; consume one by one with auto-commit; consume in batches with manual commit; stop all when one fails | `Commit()` commits positions, also those of a batch that was skipped; the batch outlives a rebalance; auto-commit runs ahead of the processing; `Flush` gives up after five seconds | a committed offset is a processed message (README 69-75); everyone stops when one does |
| **chat processors** `practical_work_3` | two Goka tables (block lists, banned words), `messages`, `censored_messages`, `filtered_messages` | block, unblock, replace/add/remove words; mask; filter | a join and a lookup read tables other processors fill at their own pace; a skipped or dropped message is marked past emits in flight; ids are trimmed on one side only; `\b` is an ASCII boundary | a block that is in the table is obeyed; the word list is the fold of its updates; a message is lost only behind one that overtook it |
| **CDC consumer** `practical_work_5/consumer` | offsets | print, mark | errors of `Consume` are logged and tried again | every record is printed before it is committed |
| **TLS/ACL exercise** `practical_work_6` | broker configuration and scripts | | | |
| **Avro producer, consumer** `practical_work_7` | schema cache, counter, idle timer, offsets | frame and unframe; commit per record; stop at a count or when idle | the cap within a fetch; a sticky error; a timer that may have fired already | no more than the cap is handled; a committed record was handled; the frame is decoded to what was encoded |
| **cloud scripts** `practical_work_7/scripts` | none | a provider's command line | | |

### 1.3 How the parts interact

Only through topics, PostgreSQL and HDFS; no process calls another. The
contract between them is always the same: a topic is a log per partition, its
reader turns it into a view by key (a table, rows, the newest file). That
contract is the module `KeyedView`, and it is what composes: the filter's
`products.filtered` is the log the indexer's rows are a view of.

## 2. The plan

In the order of importance; a line is a module (with its MC module, its
configurations and, where said, its proofs).

| | Module | Models | Abstract specification, composition | Theorems |
|---|---|---|---|---|
| done | `KeyedLog`, `KeyedView` | logs, views | the promise of a keyed view | lemmas about logs and views, in `ProductFilterProofs` |
| done | `GokaInput` | one input of a Goka processor: what is handled, in flight, marked | used by `ProductFilter` and `ChatPipeline` | lemmas about sessions, in the proof modules of both |
| done | `ProductFilter` | the filter and its environment | extends `GokaInput`, refines `KeyedView` (changelog) | inductive invariant, every safety and action property of the run, refinement |
| done | `StorageIndexer` | the indexer, its sessions, PostgreSQL | refines `KeyedView` per partition | type, inductive invariant, refused records, refinement |
| done | `ConsumerGroup`, `BatchConsumer`, `SingleConsumer` | `practical_work_2` consumers | both consumers extend one model of their group | in `ConsumersProofs`, shared lemmas about the group; both inductive invariants (nothing is committed unprocessed; losses need crashes), repetitions, offsets never go back |
| done | `OrdersApp` | `practical_work_2` main and producer | | inductive invariant; shutdown is complete; every message is reported |
| done | `Framing`, `AvroConsumer` | `practical_work_7` | the consumer extends the framing | the framing round trip; inductive invariant (committed implies handled); the reasons a run ends for; offsets never go back |
| done | `ChatPipeline` | `practical_work_3` | extends `GokaInput`; four processors, two tables, their views | inductive invariant; deliveries are justified; which messages may be lost |
| done | `OperatorTools` | blacklist commands and shop producer | | inductive invariant; lists are right |
| done | `HdfsLoader`, `Analytics` | loader, client, Spark job, publisher | `Analytics` extends the loader | inductive invariant; outputs are current; one output is published; offsets never go back |

There is no module of filter, mirror and indexer end to end: they meet in a topic
only, the filter's properties are about what is written to it, and `KeyedView` is
promised by the indexer for any log, so a composition would multiply the states and add
no step that is not in one of the two.

The modules to be proved about declare no recursive operator; recursion over
logs is written with quantifiers over offsets.

## 3. The modules

### 3.1 `KeyedLog` and `KeyedView`: what a reader of a log promises

A log is a sequence of keyed writes `[key, val]`; `None` deletes. `ValueAfter`
says which value a key has after the first *n* records, `NotBehind` that a
value is the one after some prefix of at least *n*, and `NotBehindBut` the same but
for the records of a given set. `KeyedView` is the abstract
specification: producers append; the consumer may at any step change its view
and its committed offset so long as the offset never goes back and no key of
the view falls behind it. A replay may take the view back, between the offset
and the end of the log; that is the whole of at-least-once delivery. `Passed` are
the keys of records that the consumer marks at once, past updates that are still in
flight: an update that such a record overtook may be missed. The indexer has none
(`Passed <- {}`); for the filter they are the ignored commands.

`ProductFilterProofs` begins with lemmas about these operators: applying a
record keeps a view not behind and moves it one record on, the promise survives a
longer log, a smaller offset and a larger set of exceptions. `StorageIndexerProofs` proves the three it needs
for the rows of a claim.

### 3.2 `ProductFilter`

One partition of the three co-partitioned topics; the callbacks touch only the
key of their message, so partitions share nothing but the life of the process,
which the model has. The keys of a partition do share its two offsets.

`GokaInput` is one input of a Goka processor within a session: how many messages
its callback was given (`next`), the highest one that is marked (`marked`), and those
whose output is not acknowledged (`flight`). Goka marks every message by itself, as
soon as its own emits and updates are acknowledged, and sarama commits the highest
mark. A message without an output (`Pass`) is marked when its callback returns, past
what is in flight (`Send`); an acknowledged one (`Acknowledge`) lifts the mark if it
is higher. So a committed offset may cover a message whose output is still in flight,
but only if a later message, without an output, was marked: the earlier one was
`Overtaken`. That is what `SessionOK` says of a session.

| State | In the code |
|---|---|
| `raw`, `commands`, `filtered` | `products.raw`, `blacklist.commands`, `products.filtered` (main.go 83-93) |
| `changelog`, `table` | `product-filter-table` and Goka's local copy behind `ctx.Value()` |
| `products`, `updating` | the sessions on the two inputs: `Emit`, and `SetValue` or `Delete`, in flight |
| `rawCommitted`, `cmdCommitted` | the group's offsets |
| `running`, `restarts` | the process under compose |

A product is its offset and a table entry the offset of its add command:
names, prices and reasons are never read by the filter. `ProcessProduct` is
`processProduct` (look up; emit, or return without an output),
`ProcessBlacklistCommand` is `processBlacklistCommand` (set, delete or, for an unknown
action, nothing: `Changes`, `UpdateOf`), `DecodeFails` the codec's error that ends
`Run` and the process, `AckProduct` and `AckCommand` the brokers' answers in order
(acks=all, idempotent, one request in flight: `internal/kafkautil/config.go`),
`CommitOffsets` the commit of the marks of one topic or both, `Crash` SIGKILL or an
emit that failed, `Stop` SIGTERM, which waits for what is in flight, `Start` the
recovery of the table from the changelog. `seen` and `settled` in a raw record are
history: how many commands were published, and committed, when the product was.

Properties:

- `TableConverges`: a running filter that has handled every command holds exactly the blacklist they describe, whatever was replayed over it.
- `CommittedBlockHolds`: a product published under a committed block is not emitted. This is the strongest form that holds; `BlockedNeverPasses`, about published blocks, does not (finding 1).
- `VerdictsFollowBlacklist` (action property): every verdict agrees with some prefix of the commands not behind the handled ones.
- `ChangelogIsKeyedView`: the changelog with the committed command offset implements `KeyedView`.
- `EverythingSettles`: under fairness, all is handled and committed and the changelog is the blacklist.
- `AcceptedNotLost`: a committed product of a key that was never blocked is in `products.filtered`, unless it was overtaken: a later product, of a key that was on the blacklist, may have been dropped and marked while the emit of the first was in flight, and is covered by the commit. Until the process goes down the emit is still in flight; then it is gone (known limits, section 6). Nothing else loses a product.
- `NewestVersionLast`: for such a key, no newer version follows the last record of `products.filtered` once the filter has caught up, although replays write old versions after newer ones; only versions that were overtaken may be missing. For a key that was blocked at some time this need not hold: a replay under a table that is ahead may drop the newest version and not an older one that was emitted before.
- `DuplicatesNeedRestart`: at most one extra copy per restart.
- `MalformedIsNotSkipped`: the filter stays in front of a record that does not decode.
- `IInv`: `ViewInv` is what is said of offsets, table, changelog and verdicts;
  `CopiesAreCounted` and `EarlierDecode` are what `DuplicatesNeedRestart` and
  `MalformedIsNotSkipped` need to be inductive: a product that is not acknowledged
  in this session has copies of the earlier ones only, and everything up to a
  product that came out decodes.

The first five except the updates of commands that an ignored command overtook
(`LostUpdates`), for the same reason. No program of the repository sends a command
the filter ignores; the run does.

### 3.3 `StorageIndexer`

Both groups in one process. A claim is one assigned partition; keys are
per claim since a product or a recommendation always has the same partition.

| State | In the code |
|---|---|
| `log` | `products.filtered`, `recommendations`; `storable`: decodes and fits the table |
| `rows` | tables `products`, `recommendations`: the offset of the record in the row |
| `process`, `attempts` | `main`, `waitForDatabase` (main.go 111-126, 157-169) |
| `session` | `Consume` of a group: none, live, its context cancelled |
| `claim` | where the loop of `ConsumeClaim` stands (25-42) |
| `marked`, `committed` | `MarkMessage`, what sarama has committed |
| `dbUp` | PostgreSQL answers |

`Store` and `Mark` are the two halves of an iteration. `StoreFails` is the
return of the error: sarama swallows it, cancels the session of the whole
group, and `consume` starts another one at the committed offset.
`StoreBroken` and `ClaimEnds` are an `Exec` cut short by the network or
by the cancelled context: the row may have been written. `Release` ends
a session when all claims have returned and commits what is marked.
`ProcessDies` is the end of the process, by an error of one group's `Consume`
or by a signal: `main` does not wait for the goroutines. An `Exec` that
completes in the database after the process died is a `Store` followed by
`ProcessDies`. Producers are reduced to
what they append; compaction and retention of the topics are left out.

Properties:

- `ClaimsBelongToSessions`: no goroutine outlives its session, no partition is worked on twice.
- `OffsetsOrdered`, `MarkedIsStored`: what is committed, what is marked and may be committed at any time, and what is about to be marked, is in the rows.
- `RowsAreKeyedViews`: every partition with its rows implements `KeyedView`. `updated_at` is stored and never compared, so a redelivery takes a row back to an older version; the property says how far: never behind the committed offset.
- `RefusedIsNotPassed`: nothing behind a record the table refuses is stored, marked or committed.
- `StorableGroupsSettle` (liveness): a group whose records can be stored ends with everything stored and committed, also while the other group of the same process fails for ever.
- `StorableRecordsAreStored` is violated (finding 2).

### 3.4 `ConsumerGroup` and `BatchConsumer`

The application runs in several instances, whose consumers form two groups:
"single" and "batch". `ConsumerGroup` is what a group does, seen
from a client of librdkafka; the two modules after it are the two loops.

| State | In the code |
|---|---|
| `log`, `committed` | the topic; the offsets of the group |
| `member`, `stable`, `generation` | the coordinator: who has (re)joined, whether a rebalance is under way, how many were completed |
| `owned`, `position` | the client of an instance: its partitions, the offset delivered last, which is what `Commit()` without arguments and the auto-commit store |
| `batch` | the slice of `RunBatchMessageConsumer` (consumer_batch.go 44) |
| `stage`, `stopping` | where the loop stands; the cancelled context |
| `processed` | history: how often each message went through the loop of `processBatch` |

A rebalance (`Join`, `Revoke`, `Lose`, `Assign`) is the barrier of the eager
protocol, which is librdkafka's default: everybody gives everything back, inside
`Poll`, before anything is assigned. No rebalance callback is passed to
`SubscribeTopics`, so the batch in memory does not notice: its messages may
belong to partitions that were given away. `Evict` is a session timeout in the
coordinator. The client does not know of it until `PollLose`; its commits are
refused (the error is logged, the batch emptied).

`ProcessBatch` is `processBatch` up to line 111: every message is logged, and a
batch with a bad message is dropped without a commit. `Commit` is the rest.
Between the two, anything may happen to the group. The loop looks for the
cancelled context before every `Poll`, so a stopping instance processes
what it has (lines 48-54) and closes.

Properties:

- `CommittedIsProcessed`: whatever the group has committed was processed by
  somebody. The reason is `DeliveredIsHeld`: a client can only commit positions,
  and every delivered message of a partition it holds is processed or in its own
  batch, which is committed only after it was processed
  (`CommittingIsProcessed`). It would fail with auto-commit or with a
  rebalance callback that commits.
- `CommitsAdvance` (action property): the offset of the group never goes back,
  although the batch may hold messages of partitions read further by others.
- `RepeatsNeedRebalance`: a message is processed at most once per completed
  rebalance. By itself it is not inductive: a message that lies in two batches will
  be processed twice more. `ProcessingsAreCounted` adds to what was processed the
  `Chances` that are open (the members that hold the message in a batch, or whose
  position is still before it), and bounds the sum.
- `AllButARestIsProcessed` (liveness): every message is processed, or waits in
  the batch of a running instance that is not full.
- `BadIsNotCommitted` is violated (finding 3).

### 3.5 `SingleConsumer`

The same group under `enable.auto.commit=true`; a name that `BatchConsumer` has too
begins with `Single`, so that one module can prove about both. In the code the client
stores the offset of a message when `Poll` returns it and commits it on a timer
(`AutoCommit`), when the partitions are revoked and on `Close`. `inHand` is the
message between `Poll` and the end of the `case`. A message that cannot be
deserialized is logged and counts as handled, like any other.

- `LossNeedsCrash`: the messages that nobody will handle are never more than the
  processes that died. It rests on the loop being sequential: `Poll`, which
  serves rebalances, and `Close` are never called with a message in hand
  (`SingleTypeOK`), and a second message never is in hand.
- `SingleCommitsAdvance` as above. `AllButLostIsHandled` (liveness): everything is
  committed and, but for one message per crash, handled.

### 3.6 `OrdersApp`

One instance: `main` with its three goroutines, and the producer in detail.

| State | In the code |
|---|---|
| `stage` | where each `runComponent` goroutine stands (main.go 25-37) |
| `cancelled` | the context: a signal, or `stop()` |
| `errCh`, `errClosed`, `received`, `ended` | the channel, its `close`, the loop over it, the last line of `main` |
| `sequence`, `queue`, `topic` | messages made, in librdkafka's queue, written |
| `events`, `reports` | `producer.Events()`, what was logged about it or about a full queue |
| `timedOut` | `Flush` returned more than 0 |

`Write` and `Deliver` are apart because a message may be written, its answer
lost and `GiveUp` reported; `StartFlush`, `Flushed` or `FlushTimesOut`, and
`ProducerReturns` are the deferred function (producer.go 59-68).
`Flush` counts reports that were not read as outstanding, as the Go client does.

- `NoSendAfterClose`: `errCh` is closed only when nobody can send on it.
- `ShutdownIsComplete`: at "shutdown completed" all have returned, all
  errors were logged, and no report is left unread.
- `EveryMessageIsReported`: unless `Flush` gave up, each message has a
  line in the log.
- `IInv` adds why: `errCh` is closed when nobody is left (`ClosedWhenDone`); the
  queue and the events are empty by the time the producer has returned
  (`QueueIsTheProducers`);
  a message is in the queue, among the events or in the log
  (`EveryMessageIsSomewhere`); a success, read or not, is written (`SuccessIsWritten`,
  which is what acks=all gives).
- `FailureEndsAll` (liveness): a component that fails, or a signal, ends the
  process.

### 3.7 `Framing` and `AvroConsumer`

`Framing` is the wire format: a zero byte, four bytes of schema id, the body.
The id is put together and taken apart byte by byte, so a swapped order of the
bytes is a visible mistake (the instance uses two ids that are each other's
mirror image). A body is a schema's number; it decodes with that schema and
to its last byte, or not at all.

| State | In the code |
|---|---|
| `log`, `registry`, `committed` | the topic, the Schema Registry, the offsets of the group |
| `stage`, `exit` | where `run` stands, why it returned |
| `limit`, `read`, `processed` | `cfg.MessageCount`, `read`, `processed` (main.go 59, 81) |
| `position`, `cursor`, `current` | what `PollFetches` returned, how far `EachRecord` is, in which partition |
| `schemas` | the schema cache (58) |
| `timer`, `firedAt` | the idle timer and whether its channel holds a tick; history: `read` at that tick |
| `cancelled` | the context |
| `begin`, `handled` | history |

`Handle` is the callback up to the commit, `Commit` and `CommitFails` its two
outcomes (a commit of unknown outcome included). `Reject` is `err`, which sticks
for the rest of the fetch. `ResetTimer` stops, drains and resets the timer;
`IdleExit` is the `select` after a poll that committed nothing. A record that
cannot be read is not committed, so the next run stops in front of it again.

- `IInv`: committed, handled, fetched and published offsets are in this order;
  a record is committed only once it was decoded and logged, and there is never
  more than one handled record that is not committed. A commit covers everything
  below it, so this also says that nothing is skipped. The rest is what makes it
  inductive: the count of the run is the number of its commits (`ReadIsCounted`), a
  tick that was not drained is younger than the last commit (`TickIsFresh`), framed ids are
  registered (`FramedIsRegistered`).
- `ExitsAreEarned`: a run never commits more than the cap, the count it logs is
  true, "finished" means exactly the cap, "idle" that nothing was committed
  since the tick, and without a fault it fails only in front of a foreign payload.
- `EveryRunEnds` (liveness): the timer ends every run the producers let alone.

### 3.8 `ChatPipeline`

Four Goka processors in one process: `blocks` and `words` keep the two group
tables, `censorship` and `filter` read them through a lookup and a join.

| State | In the code |
|---|---|
| `events`, `messages`, `censored`, `filtered` | the topics |
| `changelog` | the values the two tables took; its end is `ctx.Value()` |
| `view` | how far the reader of a table has followed its changelog |
| `session`, `committed` | what each processor has handled, has in flight and has marked (`GokaInput`), and its group has committed |
| `emits` | what the censorship has emitted and the brokers have not acknowledged |
| `base`, and `since` in a message | history: the events committed when the process started |

Ids and words are a name and whether it came with blanks or capitals:
normalisation removes them from events and words, but not from the sender of a
message (`Blocked`). `Halt` is the end of the process with any part of the
offsets committed; `Start` waits for the tables, as Goka does before it runs
callbacks. `Censor` and `Filter` emit, or return without an output, and then the
message is marked at once; `AckCensored` and `AckFiltered` are the answers of the
brokers. `ProcessBlockEvent` and `ProcessWordUpdate` include the acknowledgement of
their update (section 6).

- `IInv` (`ViewsFollowEvents`): a table never forgets a committed event, and a
  view is not behind the events committed when the process started, whatever is
  replayed over it and however far it lags. The rest of `IInv` says the same of
  handled events and of what a reader has still before it (`TablesFollowEvents`);
  that what is in flight or between the processors was judged when it was emitted
  (`RecordsAreMessages`); that what is in flight behind a mark was overtaken
  (`SessionsOK`), and what was handled is written, in flight, or was overtaken and went
  down with the process (`HandledIsKept`).
- `DeliveredIsJustified`: a message is delivered past a block only if some
  prefix of the events allows it that is not older than the session in which
  it was sent; the same for every masked and unmasked word. Padded senders and
  words outside ASCII are excepted, see below.
- `NothingIsLost`: a valid message is in `censored_messages` when the censorship has
  committed it, and a record of a sender nobody blocked in `filtered_messages` when the
  filter has, unless it was overtaken: a message that was skipped or dropped behind it
  was marked while its emit was in flight. Until the process goes down it is still
  in flight; then it is gone (known limits, section 6).
- `ChatSettles` (liveness): all is handled, and both views are what the events say.

### 3.9 `OperatorTools`

`blacklist add`, `remove`, `load` and `list`, and `shop-producer`, on a topic of
several partitions. Operators may publish single commands while a file is loaded or
the list is printed; nobody else writes to `products.raw`. `load` decodes its file before it
publishes, `shop-producer` line by line; both stop at the first error. `list`
opens one partition after another, takes its high watermark and reads up to it
while the log cleaner removes records (`Compacted`; the active segment, and
so the last record, stays). A command that does not decode (main.go 244-246) would
end a list without printing, as `ListFails` does; the model has none, since every
command comes from `publishCommand`.

- `RunsLeaveAPrefix`: what a run leaves is a prefix of its file, all of it if it
  succeeds. `CompleteRunsSettle`: after a complete run, also one that repeats a
  half-way one, the newest record of each product is its last line in the file,
  unless somebody else wrote meanwhile.
- `ListIsRight`: a list is right about every product no command was about since it
  began. Any other it shows was blocked at some moment since then; or,
  if the cleaner has come past the point where the list began, at some
  moment at all. The exception is real: the last commands before that point may be
  gone, so a product unblocked just before is read from an older record, and the
  reading ends at the watermark, before the newer command that made the record
  removable. It takes six records of one partition, more than the run has; an instance
  of one partition and two products shows it, and the theorem covers it.
- `IInv` adds what a run relies on (`RunIsWhereItIs`: its records are the lines up to
  the one it is at; `SettledSoFar`: they are the newest of their products) and a list
  (`ListIsOnItsWay`: up to where it has read, it knows what the commands say of a
  product, or a newer command that cannot be removed is ahead of it), and that a
  product stays in its partition (`InTheirPartition`).
- `ListsEnd` (liveness): the loop without timeout ends, also when the record just
  below the high watermark is compacted away.

### 3.10 `HdfsLoader` and `Analytics`

`HdfsLoader` is the consumer group of `cmd/hdfs-loader` with one partition of each
topic. `copies` counts, per message, the files that hold it whole and those that
are torn: a file is visible from the moment the name node creates it
(`BeginCreate`), complete when `Create` returns (`EndCreate`), and may be left in
either state by a timeout, a cancelled context or a death. `CreateFails` ends the
session of both claims, as in `StorageIndexer`.

`Analytics` adds what happens before and after: `client` and `requests` (the dual
write of `cmd/client`), `job`, `output` and `results` (the Spark job), `publisher`
(`cmd/recommendation-publisher`). `StartJob` lists the files of the products,
`Overwrite` reads the events, computes and empties the directory, `RenamePart` and
`FinishJob` are the committer. `Newest` takes any of several equal rows, as
`row_number` does; `Recommended` is the cross join, the order of the window and
the cut. One job and one publisher run at any time, in any order.

- `IInv`: what is marked or committed is in HDFS as a whole, and no claim outlives its
  session (`StoredBeforeMarked`); the file being written is torn (`WritingIsTorn`); a
  stored request has its event, an event may lack its request (`RequestsHaveEvents`); a
  job that has listed the products saw every message that was committed
  (`ListedIsCommitted`); the directory holds files of the last job that overwrote it and
  of no other (`FilesAreOfTheLastJob`); what a publisher has sent of a finished output is
  what it has not left to send (`SentIsNotLeft`).
- `OutputIsCurrent`: what a job writes is the right recommendation for some set of
  messages that includes everything committed when the job began, whatever was stored
  twice or out of order: there is a choice of one newest version per product such that
  every user gets the first `TopN` of it by the user's last search. The choice is one
  for all users, and free between versions of the same `updated_at`. Outputs of jobs that
  met a torn file of the products are excepted: such a file may be read as a product
  without an id.
- `PublishedIsOneOutput`: the publisher never mixes two jobs, although it lists and
  opens files that a job is replacing, and if it listed a finished output and
  succeeds it has sent all of it. Spark's names of part files are unique to their
  job; `Open` of one that has gone is an error, and so the run ends.
- `EverythingReachesHdfs` (liveness).

## 4. The runs

| Run | Instance | Shows |
|---|---|---|
| `filter` | 2 keys in one partition, one of them never commanded, 3 products, 2 commands of 4 kinds, payloads that do not decode in both topics, 1 restart, fairness | the inductive invariant, the safety and action properties, the refinement; everything settles |
| `filter_race` | 1 key, 1 restart | counterexample to `BlockedNeverPasses` |
| `storage` | 2 partitions of products (one with refused records), 1 of recommendations, 1 key, 2 records each, 2 faults, fairness | the inductive invariant, refused records, the refinement; the other group settles |
| `storage_refused` | 2 groups of one partition, 1 key, no fault | counterexample to `StorableRecordsAreStored` |
| `batch` | 2 instances, 2 partitions, 3 messages, good or bad, batches of 2, 1 crash, eviction or shutdown, fairness | the inductive invariant; commits and repetitions over rebalances; nothing but a rest waits for ever |
| `batch_skipped` | 1 instance, 1 partition, 4 messages, batches of 2, no fault | counterexample to `BadIsNotCommitted` |
| `single` | 2 instances, 2 partitions, 3 messages, 2 faults, fairness | losses are bounded by crashes; everything else is handled |
| `orders` | 3 components, a channel of 3, 2 messages, fairness | the closed channel, shutdown and delivery reports; one failure ends all |
| `avro` | 2 partitions, 3 records of one schema or foreign, caps 0 and 2, 2 runs, 1 fault, fairness | commits follow the handling; reasons of the end; every run ends |
| `chat` | 2 users, up to 2 events over both tables and up to 2 messages of 4 kinds, 3 together, 1 restart, fairness | tables and views; justified deliveries; what may be lost; everything settles |
| `tools` | 3 keys in 2 partitions, 3 records before a run, files of 2-3 lines, 2 runs of the shop or 1 load, 1 list, 1 fault, fairness | prefixes, repeated files, lists under compaction |
| `analytics` | 2 messages per topic (1 at the start), 2 users, 1 recommendation per user, 2 jobs, 1 publisher, 1 fault, fairness | the loader, the job's output, what is published |

Why the bounds suffice. Two records are needed for an older one to be
replayed over a newer one; two commands let a key be added and removed, or an update be
overtaken by a command that is ignored. The callbacks of the filter touch the key of
their message only, but its keys share the offsets of the partition: a product is lost
behind a dropped one of another key, so there are two keys, of which one is never
blocked and the other comes and goes, and three products: two versions of one key
with a product of the other behind or between them. The loss is reached in the run: without the
exception `AcceptedNotLost` and `NewestVersionLast` are violated there, and
`NothingIsLost` is in `chat`, where the message behind is skipped or its sender blocked.
The proofs cover any number. Two partitions
of one group are what one claim's failure needs to interrupt another, and the
other group is what must not notice. `MaxAttempts` (30 in the code) is 2: the last
ping differs from those before it, nothing else counts. Two instances and two
partitions are what a rebalance needs to move one partition and leave the other;
both join one after the other, so rebalances happen without any fault. A batch of
two (10 in the code) can be empty, partial and full, and can mix partitions; 1
fault is what an eviction with a late commit needs, and every fault brings two
more rebalances. A cap of two with three records can be reached in the middle of a
fetch or at its end. Two events are what a replay needs to take a table back; the
one of the other table is independent, and one message is judged by both. Two messages
are what it takes for one to overtake the other, with one event that blocks; more
than three inputs in all add no new meeting of these and are left to the proofs. Three
records and a file let a list cross a partition with and without compaction. Two
versions or two products (the second message is one or the other), one stored
twice, make duplicates, ties and a cut; two jobs are what one overwriting
another's output needs, and the publisher may run at any point of both.
`Managed`, `MaxRaw`, `MaxCommands`, `MaxRestarts`, `MaxLog`, `MaxEvents`,
`MaxMessages`, `MaxInputs`, `MaxHalts`, `MaxRecords`, `MaxRuns`, `MaxLists`, `MaxJobs` and `MaxFaults`
bound only the environment, with one exception: `MaxRestarts` also bounds
`DecodeFails`, which in the code repeats for ever, so `filter` stops in
front of the record once the bound is reached and does not check deadlock.
`tools` and `analytics` do not either: nobody has to call a tool, start a job or
publish, and the loader has nothing to do at the end of its topics. All
others do; `Rest` stands for a system that has nothing left to do.

Each property comes with a plausible mistake that the run must detect: the
operators under "Mutated" in the modules (a processor that starts without
recovering its table, a removal that is written as an entry, a session released
before its claims have returned, a timer reset without draining its channel, an
error that is logged and passed over, ...). No specification uses them.

### Fairness

Weak fairness only, on what the code or its supervisor repeats: `Start` and
`Restart` (`restart: unless-stopped`), the callbacks and loops (goroutines that
are runnable), acknowledgements (the clients retry until the brokers answer),
commit timers, `DatabaseRecovers`, the coordinator's `AssignPartitions`; for
`OrdersApp` the goroutines and `Flush`, which returns in any case, but not the
brokers; for `AvroConsumer` the loop, its requests and the timer, not `Start`;
for `ChatPipeline` the processors and the views of their tables; for
`OperatorTools` only the steps of a list, since an operator may stop at any
time; for `Analytics` only the loader, since nobody has to start a job.
Nothing obliges anybody to publish, and failures are never fair; `MaxFaults`
makes them stop, which is the usual reading of "eventually". Everything a step
needs stays enabled until it happens or its session ends.

### Findings

1. **A block may come too late** (`filter_race`). The README (414) says Goka
   drops the products of the blacklist. A product published *after* the add
   command was acknowledged may still be handled before it: nothing orders the
   two topics, and `scripts/test-e2e.sh` sleeps three seconds instead.
   `CommittedBlockHolds` says what is guaranteed.
2. **A valid record can stop its partition** (`storage_refused`).
   `Product.Validate` accepts a currency of any length, `postgres/init.sql`
   only three characters. `ConsumeClaim` returns the error and never marks, so
   storable records behind it are never stored.

3. **A skipped batch is committed later** (`batch_skipped`). The README of
   `practical_work_2` (75) says no `Commit()` is made for a batch with a message
   that cannot be deserialized. `processBatch` returns before `Commit()`, but the
   client's position has passed the batch and `consumer.Commit()` takes no
   offsets: the next good batch commits the skipped one. Nothing is
   seeked back, so skipping the commit delays it and does nothing else, unless a
   rebalance or a restart comes in between. All messages, good and bad,
   have been through the loop by then (`CommittedIsProcessed`, a part of `IInv`).

## 5. The proofs

TLAPS checks every leaf, for all values of the constants under the named
assumptions of the modules. They give the parameters their types (keys, actions,
groups and schemas may be any sets, the bounds any numbers) and ask besides

| Assumption | beyond types | because |
|---|---|---|
| `ProductFilterAssumption`, `StorageIndexerAssumption` | the null key is no key; at least one ping | a key is a string; `MaxAttempts` is 30 |
| `ConsumerGroupAssumption` | finitely many members and partitions | lost messages, and chances to process one, are counted |
| `BatchConsumerAssumption` | batches are not empty | the batch size is 10 |
| `OperatorToolsAssumption` | files are sequences of lines with a product and whether they decode | they are read line by line |
| `HdfsLoaderAssumption`, `AnalyticsAssumption` | what the lake holds at the start are sequences of records; a product's id is positive, its version a number and its stock an integer; `TopN` is positive | `Validate` asks for an id, a string, for which its place in the order of strings stands (`internal/model/model.go` 41); `TopN` is 3 |
| `OrdersAppAssumption` | `errCh` has room for every component | `make(chan error, 3)` for three |
| `AvroConsumerAssumption`, `IdsAssumption` | finitely many partitions; schema ids are positive and fit 32 bits with a sign | the commits of a run are counted; the code checks the first (`internal/registry/client.go` 78) and cuts a larger id off (`uint32(schemaID)`), the registry gives out no larger ones |

An invariant is proved as `Init => IInv`, one lemma per action for the step, and
`PTL`; the lemmas about one action have one step per conjunct it disturbs. TLC checks
every `IInv` that is proved, as an invariant of its run.

**`ProductFilterProofs`.** First sessions: each operation of `GokaInput` keeps
`SessionOK` (`SessionPasses`, `SessionSends`, `SessionAcknowledges`, `SessionCommits`,
`SessionBegins`), and more messages or a higher commit only add to what was overtaken.
`ViewInv` strengthens the properties about the blacklist. To know that a committed
block holds one must know that the *table* is not behind the handled commands and, since a
crash replaces it by the changelog, that the *changelog* is not behind those whose
updates are not in flight (`ViewsNotBehind`); that an update in flight behind a
committed offset was overtaken (`SessionsOK`); that a product's history refers to
committed commands (`SettledIsCommitted`). For loss and order, that every handled product
of a never blocked key is in the output, in flight, or was overtaken and went down
(`UnblockedAccepted`), and that what is newer than the last record of such a key is not
handled, in flight or overtaken (`ShownNotBehind`). A dropped product is of a key that
was added, whatever the table has missed (`DroppedIsIdle`). From `ViewsInvariance` follow
`TypeCorrect`, `CommittedBlocksHold`, `TableCorrect`,
`NothingAcceptedIsLost`, `NewestVersionsLast`, `VerdictsJustified` (an action
property: invariant plus step) and `ChangelogImplementsKeyedView`: `Init`
implies the abstract `Init`; publishing a command is `AppendRecord`; any other
step is `Consume`, because the invariant of the next state is what it asks for.
`Invariance` adds the copies: an acknowledged emit adds one to the copies of its
product, which until then were those of earlier sessions, and a halt makes
room for one more. `DuplicatesAreBounded` and `MalformedBlocks` follow.

**`StorageIndexerProofs`.** `IInv` is about all claims; `ClaimInv` says the
same of one, as a predicate of its six pieces of state. The ways a claim can
move (publish, join, store, mark, close, cancel, flush) are one lemma each,
free of primes. An action moves one claim, or those of a group, and frames the
rest; `IInvByClaim` and its primed form lead back. Why the strengthening is
needed: commits are made from marks, so the view must be not behind the *marks*
of every session; a mark follows the store, so not behind the next offset while
`claim = "stored"`; and this is only stable because no claim outlives its
session. `Invariance`, `TypeCorrect`, `RefusedNotPassed` and
`RowsImplementKeyedViews` (the refinement, for every partition at once) follow.

**`ConsumersProofs`** is about both consumers of `practical_work_2`. It proves once what
each step of the group (produce, deliver, leave, commit, assign) does to the types and
to the order of offsets (`GroupTypeOK`, `PositionsOrdered`).

`BatchConsumer`: `CommittedIsProcessed` rests on two facts about what
is *not* committed yet: every delivered message of a partition that a member holds is
processed or in that member's batch (`DeliveredIsHeld`), and the batch of a member
about to commit is processed (`CommittingIsProcessed`). A partition changes hands at
its committed offset, so the new owner starts with `DeliveredIsHeld`; a batch
that outlives a rebalance is harmless because `Commit()` commits positions of
partitions that are held. For `RepetitionsAreRebalances` processed and possible
processings are counted together (`ProcessingsAreCounted`): delivering a message
moves a chance from a position into a batch, processing turns it into a processing,
only a completed rebalance makes new ones, and it has one owner per
partition. `OffsetsNeverGoBack` holds since a member's position never is behind the
committed offset of a partition it holds.

`SingleConsumer`: a message is `Lost` when it was not handled, nobody has it
in hand, and its offset is committed or will be, by a member that is past it. Only the end of a process can add one, and one
at most, because a loop has a single message in hand and polls only
without one; the invariant bounds the cardinality of the set by the crashes.

**`OrdersAppProofs`.** `close(errCh)` comes after `wg.Wait()`, so after the last send;
the other conjuncts of `IInv` say where every message and every report is, stage by
stage of the producer. From `Invariance` follow
`ShutdownComplete` and `MessagesReported`.

**`AvroConsumerProofs`.** `FramingRoundTrip`: the four bytes of an id below 2^32
are put together as they were taken apart, by division with remainder, so a framed
body is accepted, yields its id and decodes. The invariant counts the
commits of a run by a set, `CommittedInRun`, which a commit extends by one element
and nothing else touches; that the cap ends a fetch in the middle, that an error sticks and
that the timer is drained before it is reset are its other parts. From
`Invariance` follow `ExitsEarned` and `OffsetsNeverGoBack`.

**`ChatPipelineProofs`.** `Justified` says that a table tells the truth about one
member at some point not before event *n*. It survives new events
(`JustifiedLonger`), smaller *n* (`JustifiedEarlier`), and a processor that does what
the next event says (`NextEventJustifies`); `BlockListStep` and `BannedStep` show
that the two callbacks do. So `TableStepKeeps` is one lemma for both tables. A
reader may lag, so the invariant is about every entry of the changelog from where
the reader is to the end: the next one, too, is not behind what was committed
when the process started. A message remembers that point, no later than the
present one, so what the censorship and the filter decide is justified for it
(`CensoredIsJudged`, `FilteredIsAllowed`), and stays so while it is in flight. A
blocked sender was put into the table by some event (`JustifiedByAnEvent`), hence nobody
else's message is dropped, and only such a message or an invalid one overtakes. Commits
take over what is marked, and a halt loses what is in flight behind them: by
`SessionsOK` that was overtaken, which is why `NothingIsLost` needs it beside
`HandledIsKept`. The lemmas about sessions are those of `ProductFilterProofs`, stated
again: the two modules extend different specifications. `Invariance`,
`DeliveryIsJustified` and `NoMessageIsLost` follow.
The assumption gives the identifiers, events and messages their types, and keeps the
asterisks apart from the words.

**`OperatorToolsProofs`.** A run's records are told from others' by the run they carry,
so a command of somebody else changes what a product's newest record is and nothing a
run relies on. For the list the lemmas are about one partition, as operators of its
records, how far the cleaner has come and where the list stands: an offset that is
passed without a record (compacted away) has a newer record of its product behind it,
which is either still ahead of the list, below the part that may not be removed, or was
read. So between two records the list *knows* a product or is *ahead* of a command of it
(`KnownOrAhead`), and at the watermark only the first is left. A set of offsets has a
last one because numbers are well founded (`LastExists`). `Invariance` and
`ListsAreRight` follow.

**`AnalyticsProofs`.** The loader: a step writes no log and loses no file (`FilesOK`), so
what was stored stays stored, and a mark follows the store of its message
(`StoredStays`). A reader that begins later therefore finds a file of every committed
message (`RowsOfCommitted`), and offsets never go back, so this is still so when the job
reads the events (`ListedIsCommitted`). What a job computes is stated as operators of the
two topics' contents, free of states. The first *n* of a finite set under a strict total
order, those with fewer than *n* before them, are *n* or all, and ahead of the rest
(`FirstAreEnough`, `FirstAreAhead`): the rank is an injection into 0..|S|-1, hence
a surjection, so no rank is missing. `Before` is such an order between versions of
different products (`BeforeOrders`), the rows picked have one version per product
(`PickedFacts`), and every product has a newest one because a finite set of numbers has
a last (`FiniteHasLast`). `JobRecommends` puts this together, and `CurrentStays` shows
that later messages change nothing of it. For the publisher, the files it has left and
the lines it has sent always make up the output it listed (`SentIsNotLeft`), also
while another job replaces the files: those that have gone end the run.
`Invariance`, `OutputsAreCurrent`, `OneOutputIsPublished` and `OffsetsNeverGoBack` follow.

Only model-checked: liveness (`EverythingSettles`, `StorableGroupsSettle`,
`AllButARestIsProcessed`, `AllButLostIsHandled`, `FailureEndsAll`, `EveryRunEnds`,
`ChatSettles`, `ListsEnd`, `EverythingReachesHdfs`), since TLAPS has no rule for fairness.
Every invariant and every action property that a passing run checks is proved.

Two invariants of earlier versions were found to be too strong by trying to prove them:
that every product a list shows was blocked since the list began (see above), and that
no version left out of a recommendation, however newest versions tie, is ahead of one that
is in. `row_number` takes any of several versions with the same `updated_at`, so a job
may leave out a product for a version of it with less stock although another version
with the same time has more; three messages show it, and the property now says for
which choice the recommendation is right.

## 6. Assumptions and what is left out

- Goka and sarama are modelled from how the code uses them: a message is marked by
  itself when its outputs are acknowledged, at once if it has none, and the highest mark
  is committed; `Run` waits for what is in flight when its context is cancelled; an
  emit that fails, or an error of a codec, fails the processor; an error of `ConsumeClaim` ends the session and is not
  returned by `Consume`; `Consume` returns when all claims have.
- librdkafka, for `practical_work_2`: eager assignment; an offset is stored when
  `Poll` returns the message (`enable.auto.offset.store`); `Commit()` without
  arguments commits the stored offsets of the assigned partitions and is refused
  for a member that was put out; auto-commit happens on the timer, on revocation
  and on `Close`, which without auto-commit commits nothing. A poll that
  takes longer than the session is the same as an eviction.
- `OrdersApp` leaves out a second signal (after `stop()` it kills the process,
  which is the `Crash` of the consumer modules) and client errors that are
  only logged. An instance counts its messages from 1 again after a restart, so
  ids repeat; nothing in the code compares them.
- franz-go, for `practical_work_7`: `CommitRecords` commits the offset after its
  record, `Close` commits nothing with automatic commits off, `EachRecord` goes
  partition by partition. One member is in the group, as the exercise runs it.
  Schema ids the registry does not know fail the lookup; a foreign payload
  may happen to be framed.
- Goka, for `practical_work_3`: a processor that keeps or reads a table runs its
  callbacks after the table was recovered up to its end. The exercise keeps Goka's
  default client configuration. So the groups are taken to have committed an offset
  before (without one a group begins at the end of its topic), emits to be
  acknowledged in their order, which holds as long as no request is overtaken while it
  is retried, and an acknowledged record to stay although only its leader has
  confirmed it. What is not acknowledged when the process dies left nothing behind but
  a record that is written again. The update of a table and its acknowledgement are one
  step: an event that is skipped is in fact marked at once, past an update in flight,
  as an ignored command is in `ProductFilter`; the model repeats the value of the table for
  it, and the run has none. Payloads that do
  not decode (they stop the process, as in `ProductFilter`) and phrases of several
  words are left out.
- `OperatorTools`: a send that failed has written its record by the time its
  error is returned, or never.
- `Analytics`: the mirror copies a record at once; a torn file of the events yields
  no row with a user (`users` drops it); jobs do not overlap each other, nor
  publishers.
- Topics keep their records, except `blacklist.commands` in `OperatorTools`:
  compaction and retention of the inputs elsewhere, and a changelog that was lost,
  are outside. A replay reads what was written.
- The partition of a key does not change, and one instance of each service
  runs, as compose starts it. A rebalance ends the session and gives the
  partitions back to the same process.
- Parsing, formatting, logging and the environment variables are left out;
  whether a payload decodes, validates and fits its table is a choice of
  the environment.

### Known limits of the code that no property states

These are in the models as they are in the code; no document of the repository
promises otherwise, so they are no findings: a product is lost when a dropped one behind
it is marked and committed while its emit is in flight and the process then goes down,
and so is a chat message behind one that is skipped or dropped (`LostProducts`,
`Overtaken`); a sender id with a blank is never
blocked (`Blocked`); a banned word in letters outside ASCII is never masked
(`MaskBannedWords`, `NonAscii`); an event may lack its row in `client_requests`
(`StoreRequestFails`); a torn file may be read as a product of nulls (`NullRow`); a
recommendation is never withdrawn; a list made while its topic is compacted may show a
product that was removed before the list began (`Compacted`, `Receive`); of two versions
of a product with the same `updated_at` any may be recommended (`Newest`).

### Not modelled

- The alert receiver (no state); mirroring, Kafka Connect and monitoring
  (third-party services, configuration only); the TLS/ACL exercise of
  `practical_work_6`, the cloud scripts, and topics, ACLs and the order of the
  services (command lines of other programs).
- The CDC consumer of `practical_work_5`: it prints and marks every record; a
  redelivery is printed again and nothing else can go wrong.
- The queries of the client CLI, which change nothing; the reading of
  configuration and certificates, which happens before any state exists.

## 7. Running

    tlasany ProductFilter.tla
    tlc -workers 2 -config ProductFilter.cfg MCProductFilter
    tlc -workers 2 -config StorageIndexer.cfg MCStorageIndexer
    tlc -workers 2 -config BatchConsumer.cfg MCBatchConsumer
    tlc -workers 2 -config SingleConsumer.cfg MCSingleConsumer
    tlc -workers 2 -config OrdersApp.cfg MCOrdersApp
    tlc -workers 2 -config AvroConsumer.cfg MCAvroConsumer
    tlc -workers 2 -config ChatPipeline.cfg MCChatPipeline
    tlc -workers 2 -config OperatorTools.cfg MCOperatorTools
    tlc -workers 2 -config Analytics.cfg MCAnalytics
    tlapm ProductFilterProofs.tla
    tlapm StorageIndexerProofs.tla
    tlapm ConsumersProofs.tla
    tlapm OrdersAppProofs.tla
    tlapm AvroConsumerProofs.tla
    tlapm ChatPipelineProofs.tla
    tlapm OperatorToolsProofs.tla
    tlapm AnalyticsProofs.tla

The configurations with a suffix (`_race`, `_refused`, `_skipped`) end with the
counterexample of a finding.
