---------------------------- MODULE ChatPipeline ----------------------------
(***************************************************************************)
(* practical_work_3: four Goka processors in one process.  Two keep group  *)
(* tables, the block lists of the users and the banned words; the          *)
(* censorship masks the words of a message and reads the second table by   *)
(* lookup, the block filter drops messages of blocked senders and reads    *)
(* the first by join.  The readers follow the changelogs of the tables at  *)
(* their own pace.  One partition of every topic.                          *)
(*                                                                         *)
(* How far a processor is with its input is a session of GokaInput: what a  *)
(* callback emits is in flight until the brokers acknowledge it, and a     *)
(* message that is skipped or dropped is marked at once.  Only the update  *)
(* of a table and its acknowledgement are one step.  A user id, or a word,  *)
(* is [name, padded]: the name, as it is or with blanks and capitals that  *)
(* normalisation removes.                                                  *)
(***************************************************************************)
EXTENDS Naturals, Sequences, FiniteSets, GokaInput

CONSTANTS
  Users, NoUser,   \* user ids; the blank one
  Words, Masked,   \* words of messages; the asterisks that replace one
  NonAscii,        \* words in letters \b does not know
  BlockEvents,     \* events of blocked_users: [key, user, target, action]
  WordUpdates,     \* updates of banned_words: [global, words, action]
  Messages,        \* messages: [from, to, text]
  MaxEvents,       \* bound: events of both tables together
  MaxMessages,     \* bound: messages
  MaxInputs,       \* bound: events and messages together
  MaxHalts         \* bound: times the process goes down

Tables == {"blocks", "words"}
Processors == Tables \cup {"censorship", "filter"}

Ids == Users \cup {NoUser}
UserIds == [name : Ids, padded : BOOLEAN]
WordIds == [name : Words, padded : BOOLEAN]

ASSUME ChatAssumption ==
  /\ NoUser \notin Users /\ NonAscii \subseteq Words /\ Masked \notin Words
  /\ BlockEvents \subseteq [key : Ids, user : UserIds, target : UserIds, action : STRING]
  /\ WordUpdates \subseteq [global : BOOLEAN, words : SUBSET WordIds, action : STRING]
  /\ Messages \subseteq [from : UserIds, to : Ids, text : Seq(WordIds)]
  /\ MaxEvents \in Nat /\ MaxMessages \in Nat /\ MaxInputs \in Nat /\ MaxHalts \in Nat

VARIABLES
  events,     \* table -> blocked_users, banned_words
  messages,   \* messages: [message, since], see SendMessage
  changelog,  \* table -> the values it took: pairs <<user, blocked>>, words
  censored,   \* censored_messages: [offset in messages, text]
  filtered,   \* filtered_messages: the same
  session,    \* processor -> its session on its input
  emits,      \* emits of the censorship in flight: [offset, text]
  committed,  \* processor -> offset committed by its group
  view,       \* table -> offset of the changelog its reader has reached
  base,       \* table -> events committed when the process started (history)
  running, halts

topics == <<events, messages, changelog, censored, filtered>>
local == <<session, emits, view, base, running, halts>>
vars == <<topics, local, committed>>

Init ==
  /\ events = [t \in Tables |-> <<>>] /\ changelog = events
  /\ messages = <<>> /\ censored = <<>> /\ filtered = <<>>
  /\ committed = [p \in Processors |-> 0]
  /\ session = [p \in Processors |-> From(0)] /\ emits = {}
  /\ view = [t \in Tables |-> 0] /\ base = view
  /\ running = FALSE /\ halts = 0

-----------------------------------------------------------------------------
(* The tables *)

(* The value of a table after n entries of its changelog.                  *)
ValueAt(entries, n) == IF n = 0 THEN {} ELSE entries[n]

(* The list of a user lies under the key of the event; an event that names *)
(* nobody is skipped: the table keeps its value, which is repeated here.   *)
BlockListed(current, e) ==
  LET pair == <<e.key, e.target.name>> IN
  IF NoUser \in {e.user.name, e.target.name} THEN current
  ELSE CASE e.action = "block" -> current \cup {pair}
         [] e.action = "unblock" -> current \ {pair}
         [] OTHER -> current

(* Mutated: a replacement keeps the old words.                             *)
BannedByAdding(current, e) ==
  LET words == {w.name : w \in e.words} IN
  IF e.action = "remove" THEN current \ words ELSE current \cup words

(* The words under the key "global", the only one the censorship looks up.  *)
Banned(current, e) ==
  LET words == {w.name : w \in e.words} IN
  IF ~e.global THEN current
  ELSE CASE e.action = "replace" -> words
         [] e.action = "add" -> current \cup words
         [] e.action = "remove" -> current \ words
         [] OTHER -> current

(* maskBannedWords, word by word, capitals or not; \b is a boundary of     *)
(* ASCII words, so that others never match.                                *)
MaskBannedWords(text, banned) ==
  [i \in DOMAIN text |->
     IF text[i].name \in banned \ NonAscii THEN Masked ELSE text[i].name]

(* Mutated: recipient and sender are mixed up.                             *)
BlockedBySender(list, m) == ~m.from.padded /\ <<m.from.name, m.to>> \in list

(* containsString: the id of the sender is compared as it came.            *)
Blocked(list, m) == ~m.from.padded /\ <<m.to, m.from.name>> \in list

-----------------------------------------------------------------------------
(* Actions *)

(* Publishers send events and messages; the bounds are of the model.        *)
EventCount == Len(events["blocks"]) + Len(events["words"])

SendEvent(t, e) ==
  /\ EventCount < MaxEvents
  /\ EventCount + Len(messages) < MaxInputs
  /\ events' = [events EXCEPT ![t] = Append(@, e)]
  /\ UNCHANGED <<messages, changelog, censored, filtered, local, committed>>

(* A message remembers, for the properties only, which events had been     *)
(* committed when the process started last.                                *)
SendMessage(m) ==
  /\ Len(messages) < MaxMessages
  /\ EventCount + Len(messages) < MaxInputs
  /\ messages' = Append(messages, [message |-> m, since |-> base])
  /\ UNCHANGED <<events, changelog, censored, filtered, local, committed>>

(* Mutated: messages are handled before the joined tables are recovered.   *)
StartWithoutTables ==
  /\ ~running
  /\ running' = TRUE
  /\ view' = [t \in Tables |-> 0]
  /\ base' = [t \in Tables |-> committed[t]]
  /\ UNCHANGED <<topics, committed, session, emits, halts>>

(* Every processor reads on from its committed offset, once the tables it   *)
(* keeps or reads are recovered up to the end of their changelogs.         *)
Start ==
  /\ ~running
  /\ running' = TRUE
  /\ view' = [t \in Tables |-> Len(changelog[t])]
  /\ base' = [t \in Tables |-> committed[t]]
  /\ UNCHANGED <<topics, committed, session, emits, halts>>

Input(p) == CASE p = "censorship" -> Len(messages)
              [] p = "filter" -> Len(censored)
              [] OTHER -> Len(events[p])

(* The callback of processor p gets its next record, which leaves it with   *)
(* session s.                                                              *)
Handle(p, s) ==
  /\ running
  /\ session[p].next < Input(p)
  /\ session' = [session EXCEPT ![p] = s]
  /\ UNCHANGED <<events, messages, committed, view, base, running, halts>>

ProcessBlockEvent ==
  /\ Handle("blocks", Pass(session["blocks"]))
  /\ changelog' = [changelog EXCEPT !["blocks"] = Append(@,
       BlockListed(ValueAt(@, Len(@)), events["blocks"][session["blocks"].next + 1]))]
  /\ UNCHANGED <<censored, filtered, emits>>

ProcessWordUpdate ==
  /\ Handle("words", Pass(session["words"]))
  /\ changelog' = [changelog EXCEPT !["words"] = Append(@,
       Banned(ValueAt(@, Len(@)), events["words"][session["words"].next + 1]))]
  /\ UNCHANGED <<censored, filtered, emits>>

(* A message without sender or recipient is skipped.                       *)
Valid(m) == m.from # [name |-> NoUser, padded |-> FALSE] /\ m.to # NoUser

Censor ==
  LET s == session["censorship"]
      i == s.next + 1
      m == messages[i].message IN
  /\ Handle("censorship", IF Valid(m) THEN Send(s) ELSE Pass(s))
  /\ emits' = IF Valid(m)
              THEN emits \cup {[offset |-> i,
                     text |-> MaskBannedWords(m.text, ValueAt(changelog["words"], view["words"]))]}
              ELSE emits
  /\ UNCHANGED <<changelog, censored, filtered>>

(* Mutated: a message is marked when it is emitted.                        *)
FilterAndMark ==
  LET s == session["filter"]
      r == censored[s.next + 1]
      list == ValueAt(changelog["blocks"], view["blocks"]) IN
  /\ Handle("filter", IF Blocked(list, messages[r.offset].message) THEN Pass(s)
                      ELSE [Send(s) EXCEPT !.marked = s.next + 1])
  /\ UNCHANGED <<changelog, censored, filtered, emits>>

Filter ==
  LET s == session["filter"]
      r == censored[s.next + 1]
      list == ValueAt(changelog["blocks"], view["blocks"]) IN
  /\ Handle("filter", IF Blocked(list, messages[r.offset].message) THEN Pass(s) ELSE Send(s))
  /\ UNCHANGED <<changelog, censored, filtered, emits>>

(* The brokers acknowledge the oldest emit of the censorship in flight.    *)
AckCensored ==
  /\ running
  /\ \E r \in emits :
       /\ IsOldest(session["censorship"], r.offset)
       /\ session' = [session EXCEPT !["censorship"] = Acknowledge(@, r.offset)]
       /\ censored' = Append(censored, r)
       /\ emits' = emits \ {r}
  /\ UNCHANGED <<events, messages, changelog, filtered, committed, view, base, running, halts>>

(* And the oldest one of the filter.                                       *)
AckFiltered ==
  /\ running
  /\ \E n \in session["filter"].flight :
       /\ IsOldest(session["filter"], n)
       /\ session' = [session EXCEPT !["filter"] = Acknowledge(@, n)]
       /\ filtered' = Append(filtered, censored[n])
  /\ UNCHANGED <<events, messages, changelog, censored, emits, committed, view, base,
                 running, halts>>

(* The reader of a table takes in the next entry of its changelog.         *)
FollowTable(t) ==
  /\ running
  /\ view[t] < Len(changelog[t])
  /\ view' = [view EXCEPT ![t] = @ + 1]
  /\ UNCHANGED <<topics, session, emits, committed, base, running, halts>>

Commit(p) ==
  /\ running
  /\ committed[p] # session[p].marked
  /\ committed' = [committed EXCEPT ![p] = session[p].marked]
  /\ UNCHANGED <<topics, local>>

(* SIGTERM stops all processors, which wait for what is in flight and       *)
(* commit; so does the failure of one, which commits nothing; SIGKILL lets  *)
(* none commit.  The next sessions read on from the committed offsets.     *)
Halt ==
  /\ running /\ halts < MaxHalts
  /\ running' = FALSE
  /\ halts' = halts + 1
  /\ \E S \in SUBSET {p \in Processors : session[p].flight = {}} :
       committed' = [p \in Processors |-> IF p \in S THEN session[p].marked ELSE committed[p]]
  /\ session' = [p \in Processors |-> From(committed'[p])]
  /\ emits' = {}
  /\ UNCHANGED <<topics, view, base>>

Drained ==
  /\ running
  /\ \A p \in Processors : committed[p] = Input(p) /\ session[p].flight = {}
  /\ \A t \in Tables : view[t] = Len(changelog[t])

Rest == Drained /\ UNCHANGED vars

Next ==
  \/ \E e \in BlockEvents : SendEvent("blocks", e)
  \/ \E e \in WordUpdates : SendEvent("words", e)
  \/ \E m \in Messages : SendMessage(m)
  \/ Start \/ ProcessBlockEvent \/ ProcessWordUpdate \/ Censor \/ Filter
  \/ AckCensored \/ AckFiltered
  \/ \E t \in Tables : FollowTable(t)
  \/ \E p \in Processors : Commit(p)
  \/ Halt \/ Rest

(* compose restarts the process; the processors and the views run, and the  *)
(* brokers answer.                                                         *)
Fairness ==
  /\ WF_vars(Start) /\ WF_vars(ProcessBlockEvent) /\ WF_vars(ProcessWordUpdate)
  /\ WF_vars(Censor) /\ WF_vars(Filter)
  /\ WF_vars(AckCensored) /\ WF_vars(AckFiltered)
  /\ \A t \in Tables : WF_vars(FollowTable(t))
  /\ \A p \in Processors : WF_vars(Commit(p))

Spec == Init /\ [][Next]_vars
FairSpec == Spec /\ Fairness

-----------------------------------------------------------------------------
(* Properties *)

(* What an event says of one member of a table, by the README: whether it   *)
(* is about it, and whether it puts it in.                                 *)
About(t, e, x) ==
  IF t = "blocks"
  THEN /\ NoUser \notin {e.user.name, e.target.name}
       /\ e.action \in {"block", "unblock"} /\ x = <<e.key, e.target.name>>
  ELSE /\ e.global
       /\ \/ e.action = "replace"
          \/ e.action \in {"add", "remove"} /\ \E w \in e.words : w.name = x

PutsIn(t, e, x) ==
  IF t = "blocks" THEN e.action = "block"
  ELSE e.action # "remove" /\ \E w \in e.words : w.name = x

(* x is in the table t after the first n events of log.                    *)
InAfter(t, log, x, n) ==
  \E i \in 1..n :
    /\ About(t, log[i], x) /\ PutsIn(t, log[i], x)
    /\ \A j \in (i + 1)..n : ~About(t, log[j], x)

(* v says truly whether x is in, at some point that is not before event n.  *)
Justified(t, log, x, n, v) == \E m \in n..Len(log) : v = InAfter(t, log, x, m)

Members(t) == IF t = "blocks" THEN Ids \X Ids ELSE Words
Events(t) == IF t = "blocks" THEN BlockEvents ELSE WordUpdates
Outputs == [offset : Nat, text : Seq(Words \cup {Masked})]

(* Every variable keeps its type.                                          *)
TypeOK ==
  /\ events \in [Tables -> Seq(BlockEvents \cup WordUpdates)]
  /\ changelog \in [Tables -> Seq(SUBSET (Ids \X Ids \cup Words))]
  /\ \A t \in Tables : /\ events[t] \in Seq(Events(t))
                        /\ changelog[t] \in Seq(SUBSET Members(t))
  /\ messages \in Seq([message : Messages, since : [Tables -> Nat]])
  /\ censored \in Seq(Outputs) /\ filtered \in Seq(Outputs) /\ emits \subseteq Outputs
  /\ session \in [Processors -> Sessions] /\ committed \in [Processors -> Nat]
  /\ view \in [Tables -> Nat] /\ base \in [Tables -> Nat]
  /\ running \in BOOLEAN /\ halts \in Nat

(* A table never forgets an event its group has committed, and what a       *)
(* reader sees of it is not behind the events that were committed when the  *)
(* process started: replays over a newer table, and views that lag behind   *)
(* their changelog, show no more than that.                                *)
ViewsFollowEvents ==
  \A t \in Tables : \A x \in Members(t) :
    /\ Justified(t, events[t], x, committed[t], x \in ValueAt(changelog[t], Len(changelog[t])))
    /\ running => Justified(t, events[t], x, base[t], x \in ValueAt(changelog[t], view[t]))

(* The sender of a record was not blocked when it passed, as far as the     *)
(* events tell that were committed before the session it was sent in; a     *)
(* padded sender is never recognised.                                      *)
SenderAllowed(r) ==
  LET m == messages[r.offset].message IN
  ~m.from.padded =>
    Justified("blocks", events["blocks"], <<m.to, m.from.name>>,
              messages[r.offset].since["blocks"], FALSE)

(* Its words are masked or not as those events tell.                       *)
WordsJudged(r) ==
  LET m == messages[r.offset].message IN
  \A i \in DOMAIN m.text : m.text[i].name \notin NonAscii =>
    Justified("words", events["words"], m.text[i].name,
              messages[r.offset].since["words"], r.text[i] = Masked)

(* What is delivered agrees with the events: a sender blocked, and a word    *)
(* banned, by events that were committed before the session in which the   *)
(* message was sent, is not let through unless a later event allows it, and *)
(* no word is masked that no event banned.                                 *)
DeliveredIsJustified ==
  \A j \in 1..Len(filtered) : SenderAllowed(filtered[j]) /\ WordsJudged(filtered[j])

NeverBlocked(m) ==
  \A i \in 1..Len(events["blocks"]) :
    ~(events["blocks"][i].action = "block" /\ events["blocks"][i].target.name = m.from.name)

Reached(topic, i) == \E j \in 1..Len(topic) : topic[j].offset = i

(* Messages that are skipped, records that may be dropped as blocked: both  *)
(* are marked at once, past what is in flight.                             *)
Skipped == {i \in 1..Len(messages) : ~Valid(messages[i].message)}
Droppable ==
  {n \in 1..Len(censored) : ~NeverBlocked(messages[censored[n].offset].message)}

(* A valid message that was committed is in censored_messages, a committed  *)
(* record of a sender nobody ever blocked in filtered_messages, with one    *)
(* exception: a skipped message, or a dropped one, was marked while the     *)
(* emit before it was in flight; then it is still in flight or went down    *)
(* with the process.                                                       *)
NothingIsLost ==
  /\ \A i \in 1..committed["censorship"] :
       \/ i \in Skipped
       \/ Reached(censored, i)
       \/ /\ i \in Overtaken(Skipped, committed["censorship"])
          /\ i \in session["censorship"].flight \/ halts > 0
  /\ \A n \in 1..committed["filter"] :
       \/ n \in Droppable
       \/ Reached(filtered, censored[n].offset)
       \/ /\ n \in Overtaken(Droppable, committed["filter"])
          /\ n \in session["filter"].flight \/ halts > 0

(* In the end everything is handled and committed and both tables, as their *)
(* readers see them, are what the events describe.                         *)
ChatSettles ==
  <>[](/\ Drained
       /\ \A t \in Tables : \A x \in Members(t) :
            x \in ValueAt(changelog[t], view[t]) <=> InAfter(t, events[t], x, Len(events[t])))
-----------------------------------------------------------------------------
(* The inductive invariant *)

(* What holds of the sessions of the two that handle messages, see         *)
(* GokaInput.                                                              *)
SessionsOK ==
  /\ SessionOK(session["censorship"], Len(messages), committed["censorship"], Skipped)
  /\ SessionOK(session["filter"], Len(censored), committed["filter"], Droppable)

(* A table is at most behind with commits, and not when it begins; its       *)
(* reader is behind the changelog; what was committed at a start stays so. *)
OffsetsOrdered ==
  /\ \A t \in Tables :
       /\ committed[t] <= session[t].marked /\ session[t].next <= Len(events[t])
       /\ session[t].marked = session[t].next /\ session[t].flight = {}
       /\ ~running => session[t].next = committed[t]
       /\ view[t] <= Len(changelog[t]) /\ base[t] <= committed[t]
  /\ \A i \in 1..Len(messages) : \A t \in Tables : messages[i].since[t] <= base[t]

(* While the process is up the tables do not forget what is handled, and    *)
(* their readers have nothing before them that forgets what was committed   *)
(* when it started.                                                        *)
TablesFollowEvents ==
  running =>
    \A t \in Tables : \A x \in Members(t) :
      /\ Justified(t, events[t], x, session[t].next, x \in ValueAt(changelog[t], Len(changelog[t])))
      /\ \A n \in view[t]..Len(changelog[t]) :
           Justified(t, events[t], x, base[t], x \in ValueAt(changelog[t], n))

(* What passes the censorship is a message with its words judged, what     *)
(* passes the filter has passed the censorship and its sender is allowed.  *)
RecordsAreMessages ==
  /\ \A r \in emits \cup {censored[j] : j \in 1..Len(censored)} :
       /\ r.offset \in 1..Len(messages)
       /\ r.offset \notin Skipped
       /\ WordsJudged(r)
  /\ \A n \in session["filter"].flight : SenderAllowed(censored[n])
  /\ \A j \in 1..Len(filtered) : \E n \in 1..Len(censored) : filtered[j] = censored[n]

(* What was handled is written, in flight or was overtaken and went down    *)
(* with the process.                                                       *)
HandledIsKept ==
  /\ \A i \in 1..session["censorship"].next :
       \/ i \in Skipped \cup session["censorship"].flight
       \/ Reached(censored, i)
       \/ i \in Overtaken(Skipped, committed["censorship"]) /\ halts > 0
  /\ \A n \in 1..session["filter"].next :
       \/ n \in Droppable \cup session["filter"].flight
       \/ Reached(filtered, censored[n].offset)
       \/ n \in Overtaken(Droppable, committed["filter"]) /\ halts > 0

(* Types, offsets, the promise of the two tables and their readers, and     *)
(* what it takes to keep them.                                             *)
IInv ==
  /\ TypeOK
  /\ SessionsOK
  /\ OffsetsOrdered
  /\ ViewsFollowEvents
  /\ TablesFollowEvents
  /\ RecordsAreMessages
  /\ DeliveredIsJustified
  /\ HandledIsKept
=============================================================================
