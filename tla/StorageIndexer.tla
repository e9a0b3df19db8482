---------------------------- MODULE StorageIndexer ----------------------------
(***************************************************************************)
(* cmd/storage-indexer: one process, two consumer groups.  storage-products *)
(* reads products.filtered on the primary cluster, storage-recommendations  *)
(* reads recommendations on the secondary one; both upsert into the same   *)
(* PostgreSQL.  A claim is one partition assigned to its group: its         *)
(* goroutine runs ConsumeClaim, which stores a message and then marks its   *)
(* offset.  Marked offsets are committed by sarama from time to time and    *)
(* when the session ends.  A claim that fails ends the session of its whole *)
(* group, and consume starts another; only an error of Consume itself takes *)
(* the process, and with it the other group, down.                         *)
(*                                                                         *)
(* A row holds the offset of the message that was upserted last for its    *)
(* key: updated_at is stored but never compared.                           *)
(***************************************************************************)
EXTENDS Naturals, Sequences, FiniteSets, KeyedLog

CONSTANTS
  Claims,        \* the partitions of both topics
  Groups,        \* the consumer groups
  GroupOf,       \* the group of every claim
  Keys,          \* primary keys, within a claim
  NoKey,         \* the key of a record that touches no row
  Storable,      \* the kinds of records a claim may hold: {TRUE} or BOOLEAN, by claim
  MaxAttempts,   \* pings waitForDatabase makes before it gives up (30 in the code)
  MaxLog,        \* bound: records per claim
  MaxFaults      \* bound: failures of the database, the brokers or the process

ASSUME StorageIndexerAssumption ==
  /\ NoKey \notin Keys
  /\ GroupOf \in [Claims -> Groups]
  /\ Storable \in [Claims -> SUBSET BOOLEAN]
  /\ MaxAttempts \in Nat \ {0} /\ MaxLog \in Nat /\ MaxFaults \in Nat

VARIABLES
  log,        \* claim -> records [key, storable]
  committed,  \* claim -> offset committed by its group
  rows,       \* claim -> key -> offset of the record in the row
  dbUp,       \* PostgreSQL answers
  process,    \* "waiting" for the database, "running" or "down"
  attempts,   \* pings made by waitForDatabase
  session,    \* group -> "none", "live" or "ending" (its context is cancelled)
  claim,      \* claim -> "closed", "open" (next message) or "stored" (not marked yet)
  marked,     \* claim -> offset marked in the session
  faults      \* failures so far

consumer == <<session, claim, marked>>
vars == <<log, committed, rows, dbUp, process, attempts, consumer, faults>>

-----------------------------------------------------------------------------
(* Helpers *)

ClaimsOf(g) == {c \in Claims : GroupOf[c] = g}

(* the message a claim is about to store *)
Next1(c) == marked[c] + 1

(* a claim's records as the keyed log its rows are a view of *)
writes(c) == [i \in 1..Len(log[c]) |-> [key |-> log[c][i].key, val |-> i]]

(* ON CONFLICT DO NOTHING.                                                  *)
InsertOnly(c, i) ==
  [rows EXCEPT ![c][writes(c)[i].key] = IF @ = None THEN i ELSE @]

(* The record at offset i of claim c replaces the row of its key, whatever  *)
(* the row held: storeProduct and storeRecommendation are the same upsert. *)
Upsert(c, i) == [rows EXCEPT ![c] = Apply(rows[c], writes(c), i)]

Fault == faults < MaxFaults /\ faults' = faults + 1
NoFault == UNCHANGED faults

Init ==
  /\ log = [c \in Claims |-> <<>>]
  /\ committed = [c \in Claims |-> 0]
  /\ rows = [c \in Claims |-> [k \in Keys |-> None]]
  /\ dbUp = TRUE
  /\ process = "waiting" /\ attempts = 0
  /\ session = [g \in Groups |-> "none"]
  /\ claim = [c \in Claims |-> "closed"]
  /\ marked = [c \in Claims |-> 0]
  /\ faults = 0

-----------------------------------------------------------------------------
(* The environment *)

(* The filter emits a product, the publisher a recommendation.  A record    *)
(* that the table refuses (a currency of more than three letters, a number *)
(* out of range) or that does not decode is not storable.                  *)
Produce(c, k, s) ==
  /\ Len(log[c]) < MaxLog
  /\ s \in Storable[c]
  /\ log' = [log EXCEPT ![c] =
       Append(@, [key |-> k, storable |-> s])]
  /\ UNCHANGED <<committed, rows, dbUp, process, attempts, consumer, faults>>

DatabaseFails ==
  /\ dbUp
  /\ Fault
  /\ dbUp' = FALSE
  /\ UNCHANGED <<log, committed, rows, process, attempts, consumer>>

DatabaseRecovers ==
  /\ ~dbUp
  /\ dbUp' = TRUE
  /\ UNCHANGED <<log, committed, rows, process, attempts, consumer, faults>>

-----------------------------------------------------------------------------
(* The process *)

(* The process is gone, its sessions with it: marks not committed are lost. *)
Exit ==
  /\ process' = "down"
  /\ attempts' = 0
  /\ session' = [g \in Groups |-> "none"]
  /\ claim' = [c \in Claims |-> "closed"]
  /\ UNCHANGED <<log, rows, dbUp>>

(* compose starts it again (restart: unless-stopped).                      *)
Restart ==
  /\ process = "down"
  /\ process' = "waiting"
  /\ UNCHANGED <<log, committed, rows, dbUp, attempts, consumer, faults>>

(* waitForDatabase: a ping that succeeds starts both consume goroutines.   *)
DatabaseReady ==
  /\ process = "waiting" /\ dbUp
  /\ process' = "running"
  /\ UNCHANGED <<log, committed, rows, dbUp, attempts, consumer, faults>>

(* One ping too many.                                                       *)
PingFailsOnceMore ==
  /\ process = "waiting" /\ ~dbUp
  /\ attempts < MaxAttempts
  /\ attempts' = attempts + 1
  /\ UNCHANGED <<log, committed, rows, dbUp, process, consumer, faults>>

(* ... a ping that fails is repeated after two seconds ...                 *)
PingFails ==
  /\ process = "waiting" /\ ~dbUp
  /\ attempts + 1 < MaxAttempts
  /\ attempts' = attempts + 1
  /\ UNCHANGED <<log, committed, rows, dbUp, process, consumer, faults>>

(* ... and the last one is fatal.                                          *)
DatabaseNotReady ==
  /\ process = "waiting" /\ ~dbUp
  /\ attempts + 1 = MaxAttempts
  /\ Exit
  /\ UNCHANGED <<committed, marked, faults>>

(* Consume returns an error: consume sends it to errCh, main exits.  SIGTERM *)
(* and SIGKILL end the process as abruptly: main does not wait for the      *)
(* goroutines.                                                             *)
ProcessDies ==
  /\ process # "down"
  /\ Fault
  /\ Exit
  /\ UNCHANGED <<committed, marked>>

-----------------------------------------------------------------------------
(* The sessions of a group *)

(* Consume joins the group and starts a claim per partition, after the      *)
(* committed offset.                                                       *)
Join(g) ==
  /\ process = "running"
  /\ session[g] = "none"
  /\ session' = [session EXCEPT ![g] = "live"]
  /\ claim' = [c \in Claims |-> IF GroupOf[c] = g THEN "open" ELSE claim[c]]
  /\ marked' = [c \in Claims |-> IF GroupOf[c] = g THEN committed[c] ELSE marked[c]]
  /\ UNCHANGED <<log, committed, rows, dbUp, process, attempts, faults>>

Delivered(c) ==
  /\ claim[c] = "open"
  /\ session[GroupOf[c]] = "live"
  /\ Next1(c) <= Len(log[c])

(* storeProduct or storeRecommendation succeeds.                           *)
Store(c) ==
  /\ Delivered(c)
  /\ dbUp /\ log[c][Next1(c)].storable
  /\ rows' = Upsert(c, Next1(c))
  /\ claim' = [claim EXCEPT ![c] = "stored"]
  /\ UNCHANGED <<log, committed, dbUp, process, attempts, session, marked, faults>>

(* MarkMessage; the loop goes on to the next message.                      *)
Mark(c) ==
  /\ claim[c] = "stored"
  /\ marked' = [marked EXCEPT ![c] = Next1(c)]
  /\ claim' = [claim EXCEPT ![c] = "open"]
  /\ UNCHANGED <<log, committed, rows, dbUp, process, attempts, session, faults>>

(* ConsumeClaim returns the error of the store: sarama ends the session.   *)
ClaimFails(c) ==
  /\ claim' = [claim EXCEPT ![c] = "closed"]
  /\ session' = [session EXCEPT ![GroupOf[c]] = "ending"]
  /\ UNCHANGED <<log, committed, dbUp, process, attempts, marked>>

(* The error is logged, the message marked all the same.                    *)
StoreFailsAndGoesOn(c) ==
  /\ Delivered(c)
  /\ ~dbUp \/ ~log[c][Next1(c)].storable
  /\ claim' = [claim EXCEPT ![c] = "stored"]
  /\ UNCHANGED <<log, committed, rows, dbUp, process, attempts, session, marked, faults>>

(* The error ends the process.                                              *)
StoreFailsAndExits(c) ==
  /\ Delivered(c)
  /\ ~dbUp \/ ~log[c][Next1(c)].storable
  /\ Exit
  /\ UNCHANGED <<committed, marked, faults>>

(* The database is down or refuses the record.                             *)
StoreFails(c) ==
  /\ Delivered(c)
  /\ ~dbUp \/ ~log[c][Next1(c)].storable
  /\ UNCHANGED rows
  /\ ClaimFails(c)
  /\ NoFault

(* The connection is lost during Exec: the row may or may not be written.  *)
StoreBroken(c) ==
  /\ Delivered(c)
  /\ dbUp /\ log[c][Next1(c)].storable
  /\ Fault
  /\ rows' \in {rows, Upsert(c, Next1(c))}
  /\ ClaimFails(c)

(* The context of the session is cancelled: the claim gets no more messages *)
(* and ConsumeClaim returns, or the Exec under way is cut short, which may  *)
(* leave the row written.                                                  *)
ClaimEnds(c) ==
  /\ session[GroupOf[c]] = "ending"
  /\ claim[c] = "open"
  /\ claim' = [claim EXCEPT ![c] = "closed"]
  /\ \/ UNCHANGED rows
     \/ /\ dbUp
        /\ Next1(c) <= Len(log[c]) /\ log[c][Next1(c)].storable
        /\ rows' = Upsert(c, Next1(c))
  /\ UNCHANGED <<log, committed, dbUp, process, attempts, session, marked, faults>>

(* A rebalance, or heartbeats that fail, end the session too.              *)
Rebalance(g) ==
  /\ session[g] = "live"
  /\ Fault
  /\ session' = [session EXCEPT ![g] = "ending"]
  /\ UNCHANGED <<log, committed, rows, dbUp, process, attempts, claim, marked>>

Flush(g) ==
  committed' = [c \in Claims |-> IF GroupOf[c] = g THEN marked[c] ELSE committed[c]]

(* The commit timer of a live session.                                     *)
AutoCommit(g) ==
  /\ session[g] = "live"
  /\ \E c \in ClaimsOf(g) : marked[c] # committed[c]
  /\ Flush(g)
  /\ UNCHANGED <<log, rows, dbUp, process, attempts, consumer, faults>>

(* The next session does not wait for the claims of this one.              *)
ReleaseEarly(g) ==
  /\ session[g] = "ending"
  /\ session' = [session EXCEPT ![g] = "none"]
  /\ Flush(g)
  /\ UNCHANGED <<log, rows, dbUp, process, attempts, claim, marked, faults>>

(* All claims have returned: the session commits what is marked and Consume *)
(* returns nil, so that consume calls it again.                            *)
Release(g) ==
  /\ session[g] = "ending"
  /\ \A c \in ClaimsOf(g) : claim[c] = "closed"
  /\ session' = [session EXCEPT ![g] = "none"]
  /\ Flush(g)
  /\ UNCHANGED <<log, rows, dbUp, process, attempts, claim, marked, faults>>

(* Nothing left to store.                                                  *)
Rest ==
  /\ process = "running"
  /\ \A c \in Claims : committed[c] = Len(log[c])
  /\ UNCHANGED vars

Environment ==
  \/ \E c \in Claims, k \in Keys, s \in BOOLEAN : Produce(c, k, s)
  \/ DatabaseFails
  \/ ProcessDies
  \/ \E c \in Claims : StoreBroken(c)
  \/ \E g \in Groups : Rebalance(g)

Next ==
  \/ Environment
  \/ DatabaseRecovers \/ Restart \/ DatabaseReady \/ PingFails \/ DatabaseNotReady
  \/ \E g \in Groups : Join(g) \/ AutoCommit(g) \/ Release(g)
  \/ \E c \in Claims : Store(c) \/ Mark(c) \/ StoreFails(c) \/ ClaimEnds(c)
  \/ Rest

(* compose restarts, the goroutines run, the commit timer fires and the     *)
(* database comes back.                                                    *)
Fairness ==
  /\ WF_vars(DatabaseRecovers) /\ WF_vars(Restart) /\ WF_vars(DatabaseReady)
  /\ WF_vars(PingFails) /\ WF_vars(DatabaseNotReady)
  /\ \A g \in Groups : WF_vars(Join(g)) /\ WF_vars(AutoCommit(g)) /\ WF_vars(Release(g))
  /\ \A c \in Claims :
       WF_vars(Store(c)) /\ WF_vars(Mark(c)) /\ WF_vars(StoreFails(c)) /\ WF_vars(ClaimEnds(c))

Spec == Init /\ [][Next]_vars
FairSpec == Spec /\ Fairness

-----------------------------------------------------------------------------
(* Properties *)

(* Every variable keeps its type.                                          *)
TypeOK ==
  /\ log \in [Claims -> Seq([key : Keys, storable : BOOLEAN])]
  /\ committed \in [Claims -> Nat] /\ marked \in [Claims -> Nat]
  /\ rows \in [Claims -> [Keys -> Nat]]
  /\ dbUp \in BOOLEAN
  /\ process \in {"waiting", "running", "down"}
  /\ attempts \in 0..(MaxAttempts - 1)
  /\ session \in [Groups -> {"none", "live", "ending"}]
  /\ claim \in [Claims -> {"closed", "open", "stored"}]
  /\ faults \in Nat

(* Stored before committed, for every claim: whatever fails and is retried, *)
(* the rows show what the partition said at some point that is not before   *)
(* the committed offset.  A message redelivered after a newer one was       *)
(* stored takes the row back, but never behind that offset.                *)
RowsView(c) ==
  INSTANCE KeyedView WITH
    log <- writes(c), settled <- committed[c], view <- rows[c], Passed <- {}

RowsAreKeyedViews ==
  /\ \A c \in Claims : RowsView(c)!Init
  /\ [][\A c \in Claims : RowsView(c)!Next \/ UNCHANGED RowsView(c)!vars]_vars

(* No goroutine of a session outlives it: a message is stored or marked     *)
(* only under the session that owns the claim, so a claim never runs twice. *)
ClaimsBelongToSessions ==
  /\ \A c \in Claims : claim[c] # "closed" => session[GroupOf[c]] # "none"
  /\ \A g \in Groups : session[g] # "none" => process = "running"

(* Committed, marked, stored, published: no offset is ahead of the next.    *)
OffsetsOrdered ==
  \A c \in Claims :
    /\ committed[c] <= Len(log[c])
    /\ session[GroupOf[c]] # "none" =>
         committed[c] <= marked[c] /\ marked[c] <= Len(log[c])
    /\ claim[c] = "stored" => Next1(c) <= Len(log[c])

(* What is committed, what a session has marked and may commit at any time, *)
(* and what it is about to mark, is in the rows.                           *)
MarkedIsStored ==
  \A c \in Claims :
    /\ ViewNotBehind(writes(c), rows[c], committed[c])
    /\ session[GroupOf[c]] # "none" => ViewNotBehind(writes(c), rows[c], marked[c])
    /\ claim[c] = "stored" => ViewNotBehind(writes(c), rows[c], Next1(c))

(* A record the table refuses is never skipped: nothing behind it in its    *)
(* partition is stored, marked by a session or committed.                  *)
RefusedIsNotPassed ==
  \A c \in Claims : \A i \in 1..Len(log[c]) : ~log[c][i].storable =>
    /\ committed[c] < i
    /\ session[GroupOf[c]] # "none" => marked[c] < i
    /\ claim[c] = "stored" => Next1(c) < i
    /\ \A k \in Keys : rows[c][k] < i

(* The inductive invariant: committed offsets and views are right because   *)
(* the marks of every session are, and these because no claim outlives its  *)
(* session.                                                                 *)
IInv ==
  /\ TypeOK
  /\ ClaimsBelongToSessions
  /\ OffsetsOrdered
  /\ MarkedIsStored
  /\ RefusedIsNotPassed

(* A group whose records can all be stored ends with everything stored and  *)
(* committed, even when the other group is stuck in front of a record that  *)
(* cannot.                                                                 *)
Settled(g) ==
  \A c \in ClaimsOf(g) : committed[c] = Len(log[c]) /\ ViewIsCurrent(writes(c), rows[c])

StorableGroupsSettle ==
  \A g \in Groups : (\A c \in ClaimsOf(g) : Storable[c] = {TRUE}) => <>[]Settled(g)

(* "Storage indexer saves the products": every record that can be stored    *)
(* is stored in the end.                                                   *)
StorableRecordsAreStored ==
  <>[](\A c \in Claims : \A i \in 1..Len(log[c]) :
         log[c][i].storable => i <= committed[c])
=============================================================================
