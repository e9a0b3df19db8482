---------------------------- MODULE ProductFilter ----------------------------
(***************************************************************************)
(* The Goka processor product-filter (cmd/stream-processor filter) on one  *)
(* partition of its three co-partitioned topics.  Products come from       *)
(* products.raw, add and remove commands from blacklist.commands, in       *)
(* either order: Kafka orders each topic, nothing orders one topic against *)
(* the other.  The blacklist is a table kept in memory and written, update *)
(* by update, to the compacted changelog product-filter-table, from which  *)
(* a restarted processor rebuilds it.  How far it is with either topic is  *)
(* a session of GokaInput: a product that is dropped, and a command that   *)
(* changes nothing, are marked at once, past what is in flight.  The two   *)
(* callbacks touch only the key of their message, so the partitions share  *)
(* nothing but the process: one partition, with the keys that meet on it,  *)
(* and the crashes of the process are the whole behaviour.                 *)
(*                                                                         *)
(* A product is its offset in products.raw, and a table entry the offset   *)
(* of the add command that made it: the name, price or reason they carry   *)
(* are never looked at by the filter.                                      *)
(***************************************************************************)
EXTENDS Naturals, Sequences, FiniteSets, KeyedLog, GokaInput

CONSTANTS
  Keys,           \* product identifiers, the message keys
  NoKey,          \* stands for the key of a record that touches no key
  Actions,        \* "add", "remove", "other", "malformed": command payloads
  Managed,        \* bound: the keys that commands are published for
  WithMalformed,  \* TRUE: products.raw may hold a payload that is not JSON
  WithSeen,       \* TRUE: products remember the commands published before them
  MaxRaw,         \* bound: products published
  MaxCommands,    \* bound: commands published
  MaxRestarts     \* bound: times the process goes down

ASSUME ProductFilterAssumption ==
  /\ NoKey \notin Keys /\ Managed \subseteq Keys
  /\ Actions \subseteq {"add", "remove", "other", "malformed"}
  /\ WithMalformed \in BOOLEAN /\ WithSeen \in BOOLEAN
  /\ MaxRaw \in Nat /\ MaxCommands \in Nat /\ MaxRestarts \in Nat

VARIABLES
  raw,           \* products.raw: [key, seen, settled], see PublishProduct
  commands,      \* blacklist.commands: [action, key]
  filtered,      \* products.filtered: offsets of raw, in the order of the topic
  changelog,     \* product-filter-table, compacted: key -> entry
  rawCommitted,  \* group offset of product-filter on products.raw
  cmdCommitted,  \* group offset of product-filter on blacklist.commands
  running,       \* the process is up
  table,         \* the table in memory: key -> entry
  products,      \* the session on products.raw; in flight: accepted products
  updating,      \* the session on blacklist.commands; in flight: table updates
  restarts       \* times the process went down

inputs  == <<raw, commands>>
session == <<running, table, products, updating, restarts>>
broker  == <<filtered, changelog, rawCommitted, cmdCommitted>>
vars    == <<inputs, session, broker>>

-----------------------------------------------------------------------------
(* Helpers *)

(* The commands the callback acts upon.                                    *)
Changes(c) == c.action \in {"add", "remove"}

(* What command c, at offset i, writes to the table.                       *)
UpdateOf(c, i) ==
  [key |-> IF Changes(c) THEN c.key ELSE NoKey,
   val |-> IF c.action = "add" THEN i ELSE None]

(* The commands as the keyed log the table is a view of.                   *)
updates == [i \in 1..Len(commands) |-> UpdateOf(commands[i], i)]

(* blockedEntry: the value of the context is an entry.                     *)
Blocked(entry) == entry # None

Init ==
  /\ raw = <<>> /\ commands = <<>> /\ filtered = <<>>
  /\ changelog = [k \in Keys |-> None]
  /\ table = changelog
  /\ rawCommitted = 0 /\ cmdCommitted = 0
  /\ products = From(0) /\ updating = From(0)
  /\ running = FALSE
  /\ restarts = 0

-----------------------------------------------------------------------------
(* The environment: the shop, the operator's CLI *)

(* publishFile sends a validated product under its identifier.  The record *)
(* remembers, for the properties only, how many commands had been published *)
(* (if WithSeen) and how many committed by the filter when it came.        *)
PublishProduct(k) ==
  /\ Len(raw) < MaxRaw
  /\ raw' = Append(raw, [key |-> k,
                         seen |-> IF WithSeen THEN Len(commands) ELSE 0,
                         settled |-> cmdCommitted])
  /\ UNCHANGED <<commands, session, broker>>

(* A foreign producer sends bytes that do not decode as a product.         *)
PublishMalformed ==
  /\ WithMalformed
  /\ PublishProduct(NoKey)

(* publishCommand sends a command under the identifier it is about.        *)
PublishCommand(a, k) ==
  /\ Len(commands) < MaxCommands
  /\ commands' = Append(commands, [action |-> a, key |-> k])
  /\ UNCHANGED <<raw, session, broker>>

-----------------------------------------------------------------------------
(* Mutated actions: mistakes the properties below must tell from the code.  *)
(* No action of the specification uses them.                               *)

(* The restarted processor does not recover its table.                     *)
StartWithoutRecovery ==
  /\ ~running
  /\ running' = TRUE
  /\ table' = [k \in Keys |-> None]
  /\ UNCHANGED <<inputs, broker, products, updating, restarts>>

(* Nobody restarts the process a second time.                              *)
StartOnce ==
  /\ ~running
  /\ restarts = 0
  /\ running' = TRUE
  /\ UNCHANGED <<inputs, broker, table, products, updating, restarts>>

(* Products are judged by the changelog instead of the table.              *)
ProcessProductOnChangelog ==
  /\ running
  /\ products.next < Len(raw)
  /\ LET k == raw[products.next + 1].key IN
       /\ k \in Keys
       /\ products' = IF Blocked(changelog[k]) THEN Pass(products) ELSE Send(products)
  /\ UNCHANGED <<inputs, broker, running, table, updating, restarts>>

(* A record that does not decode is dropped like a blocked product.        *)
ProcessProductOrSkip ==
  /\ running
  /\ products.next < Len(raw)
  /\ LET k == raw[products.next + 1].key IN
       products' = IF k \in Keys /\ ~Blocked(table[k]) THEN Send(products) ELSE Pass(products)
  /\ UNCHANGED <<inputs, broker, running, table, updating, restarts>>

(* A product is marked when it is emitted, not when that is acknowledged.   *)
ProcessProductAndMark ==
  /\ running
  /\ products.next < Len(raw)
  /\ LET k == raw[products.next + 1].key IN
       /\ k \in Keys
       /\ products' = IF Blocked(table[k]) THEN Pass(products)
                      ELSE [Send(products) EXCEPT !.marked = products.next + 1]
  /\ UNCHANGED <<inputs, broker, running, table, updating, restarts>>

(* A remove is handled without deleting the entry.                         *)
ProcessCommandWithoutDelete ==
  /\ running
  /\ updating.next < Len(commands)
  /\ LET c == commands[updating.next + 1] IN
       /\ table' = IF c.action = "add" THEN Apply(table, updates, updating.next + 1) ELSE table
       /\ updating' = IF c.action = "add" THEN Send(updating) ELSE Pass(updating)
  /\ UNCHANGED <<inputs, broker, running, products, restarts>>

(* A producer that is not idempotent writes a retried record twice.        *)
AckProductTwice ==
  /\ running
  /\ \E i \in products.flight :
       /\ IsOldest(products, i)
       /\ products' = Acknowledge(products, i)
       /\ filtered' = filtered \o <<i, i>>
  /\ UNCHANGED <<inputs, changelog, rawCommitted, cmdCommitted,
                 running, table, updating, restarts>>

(* Emits are acknowledged in any order, as those of several open requests.  *)
AckAnyProduct ==
  /\ running
  /\ \E i \in products.flight :
       /\ products' = Acknowledge(products, i)
       /\ filtered' = Append(filtered, i)
  /\ UNCHANGED <<inputs, changelog, rawCommitted, cmdCommitted,
                 running, table, updating, restarts>>

(* A deletion is not written to the changelog.                             *)
AckCommandWithoutTombstone ==
  /\ running
  /\ \E i \in updating.flight :
       /\ IsOldest(updating, i)
       /\ updating' = Acknowledge(updating, i)
       /\ changelog' = IF commands[i].action = "add"
                        THEN Apply(changelog, updates, i) ELSE changelog
  /\ UNCHANGED <<inputs, filtered, rawCommitted, cmdCommitted,
                 running, table, products, restarts>>

-----------------------------------------------------------------------------
(* The processor *)

(* The process is gone: what had not been acknowledged is lost and         *)
(* the next session reads from the committed offsets, over the table it    *)
(* recovers from the changelog.                                            *)
Halt ==
  /\ running
  /\ restarts < MaxRestarts
  /\ running' = FALSE
  /\ restarts' = restarts + 1
  /\ table' = changelog
  /\ products' = From(rawCommitted')
  /\ updating' = From(cmdCommitted')
  /\ UNCHANGED <<inputs, filtered, changelog>>

(* runFilter, up to the recovered table.                                   *)
Start ==
  /\ ~running
  /\ running' = TRUE
  /\ UNCHANGED <<inputs, broker, table, products, updating, restarts>>

(* processProduct: look the key up in the table, emit or drop.             *)
ProcessProduct ==
  /\ running
  /\ products.next < Len(raw)
  /\ LET k == raw[products.next + 1].key IN
       /\ k \in Keys
       /\ products' = IF Blocked(table[k]) THEN Pass(products) ELSE Send(products)
  /\ UNCHANGED <<inputs, broker, running, table, updating, restarts>>

(* processBlacklistCommand: set, delete or leave the entry of the key.     *)
ProcessBlacklistCommand ==
  /\ running
  /\ updating.next < Len(commands)
  /\ LET c == commands[updating.next + 1] IN
       /\ c.action # "malformed"
       /\ updating' = IF Changes(c) THEN Send(updating) ELSE Pass(updating)
  /\ table' = Apply(table, updates, updating.next + 1)
  /\ UNCHANGED <<inputs, broker, running, products, restarts>>

(* Decode fails: Run returns the error, main exits, compose restarts it.   *)
DecodeFails ==
  /\ \/ /\ products.next < Len(raw)
        /\ raw[products.next + 1].key = NoKey
     \/ /\ updating.next < Len(commands)
        /\ commands[updating.next + 1].action = "malformed"
  /\ UNCHANGED <<rawCommitted, cmdCommitted>>
  /\ Halt

(* The brokers acknowledge the emit of the oldest product in flight.       *)
AckProduct ==
  /\ running
  /\ \E i \in products.flight :
       /\ IsOldest(products, i)
       /\ products' = Acknowledge(products, i)
       /\ filtered' = Append(filtered, i)
  /\ UNCHANGED <<inputs, changelog, rawCommitted, cmdCommitted,
                 running, table, updating, restarts>>

(* The brokers acknowledge the oldest table update in flight.              *)
AckCommand ==
  /\ running
  /\ \E i \in updating.flight :
       /\ IsOldest(updating, i)
       /\ updating' = Acknowledge(updating, i)
       /\ changelog' = Apply(changelog, updates, i)
  /\ UNCHANGED <<inputs, filtered, rawCommitted, cmdCommitted,
                 running, table, products, restarts>>

(* The group commits the offsets marked so far, for one topic or for both. *)
CommitOffsets ==
  /\ running
  /\ <<rawCommitted, cmdCommitted>> # <<products.marked, updating.marked>>
  /\ rawCommitted' \in {rawCommitted, products.marked}
  /\ cmdCommitted' \in {cmdCommitted, updating.marked}
  /\ UNCHANGED <<inputs, session, filtered, changelog>>

(* SIGKILL, a failed emit, a lost host.                                    *)
Crash ==
  /\ UNCHANGED <<rawCommitted, cmdCommitted>>
  /\ Halt

(* SIGTERM: the context is cancelled, Run waits for what is in flight and  *)
(* commits before it returns.                                              *)
Stop ==
  /\ products.flight = {} /\ updating.flight = {}
  /\ rawCommitted' = products.marked
  /\ cmdCommitted' = updating.marked
  /\ Halt

(* Every input is in, handled, acknowledged, committed: the system rests.   *)
Drained ==
  /\ running
  /\ rawCommitted = Len(raw) /\ cmdCommitted = Len(commands)
  /\ products.flight = {} /\ updating.flight = {}

Rest ==
  /\ Drained
  /\ UNCHANGED vars

Publish ==
  \/ \E k \in Keys : PublishProduct(k)
  \/ PublishMalformed
  \/ \E a \in Actions, k \in Managed : PublishCommand(a, k)

Next ==
  \/ Publish
  \/ Start \/ ProcessProduct \/ ProcessBlacklistCommand \/ DecodeFails
  \/ AckProduct \/ AckCommand \/ CommitOffsets
  \/ Crash \/ Stop \/ Rest

(* compose restarts the process; a running session keeps consuming, the    *)
(* brokers answer and the commit timer fires.  Nothing obliges the shop    *)
(* or the operator to publish, nor the process to go down.                 *)
Fairness ==
  /\ WF_vars(Start)
  /\ WF_vars(ProcessProduct)
  /\ WF_vars(ProcessBlacklistCommand)
  /\ WF_vars(AckProduct)
  /\ WF_vars(AckCommand)
  /\ WF_vars(CommitOffsets)

Spec == Init /\ [][Next]_vars
FairSpec == Spec /\ Fairness

-----------------------------------------------------------------------------
(* Properties *)

(* Every variable keeps its type.                                          *)
TypeOK ==
  /\ raw \in Seq([key : Keys \cup {NoKey}, seen : Nat, settled : Nat])
  /\ commands \in Seq([action : Actions, key : Keys])
  /\ filtered \in Seq(Nat)
  /\ changelog \in [Keys -> Nat] /\ table \in [Keys -> Nat]
  /\ rawCommitted \in Nat /\ cmdCommitted \in Nat
  /\ products \in Sessions /\ updating \in Sessions
  /\ running \in BOOLEAN
  /\ restarts \in Nat

(* The commands that change nothing, and the updates one of them may have   *)
(* overtaken: Goka commits past an update in flight behind such a command.  *)
IdleCommands == {j \in 1..Len(commands) : ~Changes(commands[j])}
LostUpdates == Overtaken(IdleCommands, cmdCommitted)

(* Keys some command put on the blacklist, and products that may have been  *)
(* overtaken by a dropped one: it is of such a key, later, and committed.   *)
Added == {commands[i].key : i \in {j \in 1..Len(commands) : commands[j].action = "add"}}
IdleProducts == {j \in 1..Len(raw) : raw[j].key \in Added}
LostProducts == Overtaken(IdleProducts, rawCommitted)

(* The offsets that were emitted or that will be when the brokers answer.  *)
Emitting == {filtered[j] : j \in 1..Len(filtered)} \cup products.flight

(* A table that has handled every command holds the blacklist the commands  *)
(* describe, but for updates an ignored command overtook, however many      *)
(* crashes and replays came before: a replayed add never revives an entry   *)
(* whose remove has been handled again.                                    *)
TableConverges ==
  running /\ updating.next = Len(commands) =>
    ViewNotBehindBut(updates, table, Len(commands), LostUpdates)

(* A product published once the filter had committed a command is judged   *)
(* by a blacklist that includes it: if its key was blocked then, and no     *)
(* remove came since, it is not in products.filtered.  Crashes, replays     *)
(* and the order in which the two topics are read do not change that; only  *)
(* a command that an ignored one overtook may be missed.                   *)
CommittedBlockHolds ==
  \A i \in Emitting :
    NotBehindBut(updates, raw[i].key, raw[i].settled, None, LostUpdates)

(* A committed product whose key no command ever blocked is in              *)
(* products.filtered, with one exception: a dropped product behind it was   *)
(* marked while its emit was in flight, and committed; then the emit is     *)
(* still in flight or went down with the process.                          *)
AcceptedNotLost ==
  \A i \in 1..rawCommitted :
    \/ raw[i].key \in Added
    \/ \E j \in 1..Len(filtered) : filtered[j] = i
    \/ i \in LostProducts /\ (i \in products.flight \/ restarts > 0)

(* Record j of products.filtered is the last one of its key.               *)
LastOfKey(j) ==
  \A l \in (j + 1)..Len(filtered) : raw[filtered[l]].key # raw[filtered[j]].key

(* The versions of its product that are newer.                             *)
Newer(j) ==
  {i \in 1..Len(raw) : i > filtered[j] /\ raw[i].key = raw[filtered[j]].key}

(* Replays write old versions of a product again, after newer ones.  When   *)
(* the filter has caught up, the last record of a key that was never        *)
(* blocked is its newest version, so a reader that keeps the last record    *)
(* ends with the right one; only versions that a dropped product overtook   *)
(* may be missing behind it.                                               *)
NewestVersionLast ==
  running /\ products.next = Len(raw) /\ products.flight = {} =>
    \A j \in 1..Len(filtered) :
      raw[filtered[j]].key \notin Added /\ LastOfKey(j) => Newer(j) \subseteq LostProducts

(* The places of a product in products.filtered.                           *)
Copies(i) == {j \in 1..Len(filtered) : filtered[j] = i}

(* A product is written again only after the process went down, and at most *)
(* once each time.                                                         *)
DuplicatesNeedRestart ==
  \A i \in 1..Len(raw) : Cardinality(Copies(i)) <= 1 + restarts

(* Nothing after a record that does not decode gets out, and its offset is   *)
(* never committed: the filter never skips input, it stays there.           *)
MalformedIsNotSkipped ==
  \A i \in 1..Len(raw) : raw[i].key = NoKey =>
    /\ rawCommitted < i
    /\ \A j \in 1..Len(filtered) : filtered[j] < i

(* A verdict agrees with the blacklist as it stood after some prefix of the *)
(* commands that is not behind the handled ones: neither a block that was   *)
(* handled nor a remove that was handled is forgotten, unless an ignored    *)
(* command overtook it.                                                    *)
VerdictsFollowBlacklist ==
  [][products'.next = products.next + 1 =>
       \E e \in 0..Len(commands) :
         /\ NotBehindBut(updates, raw[products'.next].key, updating.next, e, LostUpdates)
         /\ products'.next \in products'.flight <=> ~Blocked(e)]_vars

(* The changelog, committed up to cmdCommitted, is a keyed view of the      *)
(* commands.                                                               *)
ChangelogView ==
  INSTANCE KeyedView WITH
    log <- updates, settled <- cmdCommitted, view <- changelog, Passed <- {NoKey}

ChangelogIsKeyedView == ChangelogView!Spec

(* Once the shop and the operator stop, everything they published is        *)
(* handled and committed, and the changelog is the blacklist they left, but  *)
(* for updates an ignored command overtook, unless a record that does not   *)
(* decode keeps the filter in front of it.                                 *)
AllDecode ==
  /\ \A i \in 1..Len(raw) : raw[i].key # NoKey
  /\ \A i \in 1..Len(commands) : commands[i].action # "malformed"

EverythingSettles ==
  []AllDecode =>
    <>[](Drained /\ ViewNotBehindBut(updates, changelog, Len(commands), LostUpdates))

(* "Goka drops the products of the managed blacklist": a product published  *)
(* when its key was blocked, and not unblocked since, does not pass.        *)
BlockedNeverPasses ==
  \A j \in 1..Len(filtered) : LET p == raw[filtered[j]] IN
    NotBehind(updates, p.key, p.seen, None)

-----------------------------------------------------------------------------
(* The inductive invariant *)

(* What holds of both sessions, see GokaInput.                             *)
SessionsOK ==
  /\ SessionOK(products, Len(raw), rawCommitted, IdleProducts)
  /\ SessionOK(updating, Len(commands), cmdCommitted, IdleCommands)

(* No record remembers more commands than are committed.                   *)
SettledIsCommitted ==
  \A i \in 1..Len(raw) : raw[i].settled <= cmdCommitted

(* Only records that decode are handled, only handled records come out.     *)
HandledDecode ==
  /\ \A i \in 1..products.next : raw[i].key \in Keys
  /\ \A j \in 1..Len(filtered) :
       filtered[j] \in 1..Len(raw) /\ raw[filtered[j]].key \in Keys

(* The table in memory is not behind the handled commands, the changelog    *)
(* not behind those of them whose updates are not in flight.               *)
ViewsNotBehind ==
  /\ ViewNotBehindBut(updates, changelog, updating.next, updating.flight \cup LostUpdates)
  /\ ViewNotBehindBut(updates, table, updating.next, LostUpdates)

(* A handled product of a key never blocked is in products.filtered, in     *)
(* flight, or was overtaken and went down with the process.                *)
UnblockedAccepted ==
  \A i \in 1..products.next :
    \/ raw[i].key \in Added
    \/ i \in products.flight
    \/ \E j \in 1..Len(filtered) : filtered[j] = i
    \/ i \in LostProducts /\ restarts > 0

(* What is newer than the last record of such a key was not handled, is in   *)
(* flight or was overtaken.                                                *)
ShownNotBehind ==
  \A j \in 1..Len(filtered) :
    raw[filtered[j]].key \notin Added /\ LastOfKey(j) =>
      \A i \in Newer(j) : i <= products.next => i \in products.flight \cup LostProducts

(* What is said of the offsets, the table, the changelog and the verdicts. *)
ViewInv ==
  /\ TypeOK
  /\ SessionsOK
  /\ SettledIsCommitted
  /\ HandledDecode
  /\ ViewsNotBehind
  /\ CommittedBlockHolds
  /\ UnblockedAccepted
  /\ ShownNotBehind

(* A product that is not acknowledged in this session was written in the    *)
(* earlier ones only, once in each at most.                                *)
CopiesAreCounted ==
  \A i \in 1..Len(raw) :
    Cardinality(Copies(i)) <=
      restarts + (IF i <= products.next /\ i \notin products.flight THEN 1 ELSE 0)

(* What comes out was handled after everything before it.                  *)
EarlierDecode ==
  \A j \in 1..Len(filtered) : \A i \in 1..filtered[j] : raw[i].key \in Keys

(* The inductive invariant.                                                *)
IInv == ViewInv /\ CopiesAreCounted /\ EarlierDecode
=============================================================================
