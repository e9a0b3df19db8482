----------------------------- MODULE HdfsLoader -----------------------------
(***************************************************************************)
(* cmd/hdfs-loader: one consumer group over the mirrored products and      *)
(* client events, one claim (partition) of each here.  A claim writes      *)
(* every message to a file of its own and then marks its offset.  The name *)
(* of the file holds the nanosecond it was written: a message that is      *)
(* delivered again becomes another file, and one that was not written to   *)
(* its end is left behind.  A claim that fails ends the session of both.   *)
(***************************************************************************)
EXTENDS Integers, Sequences, FiniteSets

CONSTANTS
  Loaded,     \* claim -> records the lake holds at the start, committed
  Records,    \* claim -> what later messages may hold
  MaxLog,     \* bound: claim -> messages
  MaxFaults   \* bound: failures of HDFS, the brokers or a process

Claims == {"products", "events"}

(* All records that the log of c may hold.                                  *)
Held(c) == Records[c] \cup {Loaded[c][i] : i \in DOMAIN Loaded[c]}

ASSUME HdfsLoaderAssumption ==
  /\ DOMAIN Records = Claims /\ Loaded = [c \in Claims |-> Loaded[c]]
  /\ \A c \in Claims : Loaded[c] \in Seq(Held(c))
  /\ MaxLog \in [Claims -> Nat] /\ MaxFaults \in Nat

VARIABLES
  log,        \* claim -> records, in offset order
  committed,  \* claim -> offset committed by the group hdfs-loader
  copies,     \* claim -> offset -> [whole, torn]: how many files hold it
  up,         \* the process runs
  session,    \* "none", "live" or "ending" (its context is cancelled)
  claim,      \* claim -> "closed", "open", "writing" or "stored" (not marked yet)
  marked,     \* claim -> offset marked in the session
  faults      \* failures so far

consumer == <<up, session, claim, marked>>
loader == <<log, committed, copies, consumer>>

LoaderInit ==
  /\ log = Loaded
  /\ committed = [c \in Claims |-> Len(Loaded[c])]
  /\ copies = [c \in Claims |-> [i \in 1..Len(Loaded[c]) |-> [whole |-> 1, torn |-> 0]]]
  /\ up = TRUE /\ session = "none"
  /\ claim = [c \in Claims |-> "closed"]
  /\ marked = committed
  /\ faults = 0

Fault == faults < MaxFaults /\ faults' = faults + 1

-----------------------------------------------------------------------------
(* Actions *)

(* The log of c with one more record, in no file yet.                      *)
Mirrored(c, r) ==
  /\ Len(log[c]) < MaxLog[c]
  /\ log' = [log EXCEPT ![c] = Append(@, r)]
  /\ copies' = [copies EXCEPT ![c] = Append(@, [whole |-> 0, torn |-> 0])]
  /\ UNCHANGED <<committed, consumer>>

(* Consume joins the group; the claims start after the committed offsets.   *)
Join ==
  /\ up /\ session = "none"
  /\ session' = "live"
  /\ claim' = [c \in Claims |-> "open"]
  /\ marked' = committed
  /\ UNCHANGED <<log, committed, copies, up, faults>>

Message(c) == marked[c] + 1

(* Mkdirs, then the name node creates the file: it can be seen, and is torn *)
(* until its data is written.                                              *)
BeginCreate(c) ==
  /\ session = "live" /\ claim[c] = "open"
  /\ Message(c) <= Len(log[c])
  /\ claim' = [claim EXCEPT ![c] = "writing"]
  /\ copies' = [copies EXCEPT ![c][Message(c)].torn = @ + 1]
  /\ UNCHANGED <<log, committed, up, session, marked, faults>>

(* The file that is being written, once it holds the whole message.         *)
Completed(c) ==
  [copies EXCEPT ![c][Message(c)] = [whole |-> @.whole + 1, torn |-> @.torn - 1]]

(* Create returns nil.                                                     *)
EndCreate(c) ==
  /\ claim[c] = "writing"
  /\ claim' = [claim EXCEPT ![c] = "stored"]
  /\ copies' = Completed(c)
  /\ UNCHANGED <<log, committed, up, session, marked, faults>>

(* MarkMessage; the loop goes on to the next message.                      *)
Mark(c) ==
  /\ claim[c] = "stored"
  /\ claim' = [claim EXCEPT ![c] = "open"]
  /\ marked' = [marked EXCEPT ![c] = Message(c)]
  /\ UNCHANGED <<log, committed, copies, up, session, faults>>

(* What is left of the file of a claim that is cut short.                   *)
CutShort(c) == IF claim[c] = "writing" THEN {copies, Completed(c)} ELSE {copies}

(* Mutated: the error is logged and the message marked all the same.       *)
CreateFailsAndGoesOn(c) ==
  /\ session = "live"
  /\ \/ claim[c] = "open" /\ Message(c) <= Len(log[c])
     \/ claim[c] = "writing"
  /\ Fault
  /\ copies' \in CutShort(c)
  /\ claim' = [claim EXCEPT ![c] = "stored"]
  /\ UNCHANGED <<log, committed, up, session, marked>>

(* Mutated: ConsumeClaim returns, but the session goes on without it.      *)
CreateFailsAlone(c) ==
  /\ session = "live"
  /\ \/ claim[c] = "open" /\ Message(c) <= Len(log[c])
     \/ claim[c] = "writing"
  /\ Fault
  /\ copies' \in CutShort(c)
  /\ claim' = [claim EXCEPT ![c] = "closed"]
  /\ UNCHANGED <<log, committed, up, session, marked>>

(* Mkdirs or Create answers with an error, or not within 30 seconds, in     *)
(* which case the file may be complete: ConsumeClaim returns the error and *)
(* sarama ends the session.                                                *)
CreateFails(c) ==
  /\ session = "live"
  /\ \/ claim[c] = "open" /\ Message(c) <= Len(log[c])
     \/ claim[c] = "writing"
  /\ Fault
  /\ copies' \in CutShort(c)
  /\ claim' = [claim EXCEPT ![c] = "closed"]
  /\ session' = "ending"
  /\ UNCHANGED <<log, committed, up, marked>>

(* The session is cancelled, and with it the context of a request under way. *)
ClaimEnds(c) ==
  /\ session = "ending" /\ claim[c] \in {"open", "writing"}
  /\ copies' \in CutShort(c)
  /\ claim' = [claim EXCEPT ![c] = "closed"]
  /\ UNCHANGED <<log, committed, up, session, marked, faults>>

Rebalance ==
  /\ session = "live"
  /\ Fault
  /\ session' = "ending"
  /\ UNCHANGED <<log, committed, copies, up, claim, marked>>

(* The commit timer of a live session.                                     *)
AutoCommit ==
  /\ session = "live" /\ committed # marked
  /\ committed' = marked
  /\ UNCHANGED <<log, copies, consumer, faults>>

(* All claims have returned: the marks are committed, Consume returns nil,  *)
(* and the loop of main calls it again.                                    *)
Release ==
  /\ session = "ending"
  /\ \A c \in Claims : claim[c] = "closed"
  /\ session' = "none"
  /\ committed' = marked
  /\ UNCHANGED <<log, copies, up, claim, marked, faults>>

(* Consume fails (log.Fatalf), or the process is killed.                    *)
Dies ==
  /\ up
  /\ Fault
  /\ up' = FALSE /\ session' = "none"
  /\ claim' = [c \in Claims |-> "closed"]
  /\ UNCHANGED <<log, committed, copies, marked>>

(* compose: restart unless-stopped.                                        *)
Restart ==
  /\ ~up /\ up' = TRUE
  /\ UNCHANGED <<log, committed, copies, session, claim, marked, faults>>

LoaderStep ==
  \/ Join \/ Rebalance \/ AutoCommit \/ Release \/ Dies \/ Restart
  \/ \E c \in Claims : BeginCreate(c) \/ EndCreate(c) \/ Mark(c) \/ CreateFails(c) \/ ClaimEnds(c)

-----------------------------------------------------------------------------
(* Invariants *)

LoaderTypeOK ==
  /\ log = [c \in Claims |-> log[c]]
  /\ copies \in [Claims -> Seq([whole : Nat, torn : Nat])]
  /\ \A c \in Claims : log[c] \in Seq(Held(c)) /\ Len(copies[c]) = Len(log[c])
  /\ committed \in [Claims -> Nat] /\ marked \in [Claims -> Nat]
  /\ up \in BOOLEAN /\ session \in {"none", "live", "ending"}
  /\ claim \in [Claims -> {"closed", "open", "writing", "stored"}]
  /\ faults \in 0..MaxFaults

(* No claim outlives its session, and what is marked or committed, or about *)
(* to be marked, is in HDFS as a whole.                                    *)
StoredBeforeMarked ==
  /\ session = "none" => \A c \in Claims : claim[c] = "closed"
  /\ \A c \in Claims :
       /\ committed[c] <= Len(log[c]) /\ marked[c] <= Len(log[c])
       /\ session # "none" => committed[c] <= marked[c]
       /\ \A i \in 1..Len(log[c]) :
            \/ i <= committed[c] \/ i <= marked[c]
            \/ claim[c] = "stored" /\ i = Message(c)
            => copies[c][i].whole > 0

(* A claim is at a message of the log, and the file it writes is torn.      *)
WritingIsTorn ==
  \A c \in Claims :
    /\ claim[c] \in {"writing", "stored"} => Message(c) <= Len(log[c])
    /\ claim[c] = "writing" => copies[c][Message(c)].torn > 0
=============================================================================
