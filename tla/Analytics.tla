------------------------------ MODULE Analytics ------------------------------
(***************************************************************************)
(* The batch analytics of the marketplace: the loader fills HDFS, the      *)
(* Spark job spark/jobs/recommendations.py reads all files and overwrites  *)
(* the directory of the recommendations, recommendation-publisher sends    *)
(* what it finds there to Kafka.  cmd/client publishes the events and      *)
(* stores the requests in PostgreSQL.  The job and the publisher are       *)
(* started by run-analytics.sh one after the other, but two operators may  *)
(* run it at the same time: here one job and one publisher run at any      *)
(* time.                                                                   *)
(*                                                                         *)
(* A product version is [product, updated, name, available]; an event is   *)
(* [user, query], the query NoQuery for a request of another type.  Times  *)
(* of events are their order in the topic.                                 *)
(***************************************************************************)
EXTENDS HdfsLoader

CONSTANTS
  NoQuery,    \* the query of an event that is not a search
  Matches,    \* pairs <<query, name>>: the name contains the query
  TopN,       \* recommendations per user (3 in the job)
  MaxJobs,    \* bound: jobs
  MaxRuns     \* bound: runs of the publisher

ASSUME AnalyticsAssumption ==
  /\ TopN \in Nat \ {0} /\ MaxJobs \in Nat /\ MaxRuns \in Nat
  /\ \A v \in Held("products") :
       v.product \in Nat \ {0} /\ v.updated \in Nat /\ v.available \in Int

VARIABLES
  client,     \* the client CLI: "idle" or "storing" the request it published last
  requests,   \* client_requests: offsets of the events stored in it
  job,        \* the Spark job: [number, state, products, since, torn]
  output,     \* the directory: [exists, success, files, since, torn], files being [job, user]
  results,    \* job -> what it recommends, [user, version]
  publisher   \* [number, state, left, sent, whole]: files and lines, and the job whose
              \* finished output was listed, or 0

batch == <<job, output, results, publisher>>
others == <<client, requests, batch>>
vars == <<loader, faults, others>>

Init ==
  /\ LoaderInit
  /\ client = "idle" /\ requests = {}
  /\ job = [number |-> 0, state |-> "idle", products |-> {}, since |-> committed, torn |-> FALSE]
  /\ output = [exists |-> FALSE, success |-> FALSE, files |-> {}, since |-> committed, torn |-> FALSE]
  /\ results = <<>>
  /\ publisher = [number |-> 0, state |-> "idle", left |-> {}, sent |-> {}, whole |-> 0]

-----------------------------------------------------------------------------
(* Producers *)

(* The filter lets a product pass and MirrorMaker copies it.                *)
ProduceProduct(v) ==
  Mirrored("products", v) /\ UNCHANGED <<faults, client, requests, batch>>

(* publishEvent, mirrored at once.                                         *)
PublishEvent(e) ==
  /\ client = "idle"
  /\ Mirrored("events", e)
  /\ client' = "storing"
  /\ UNCHANGED <<faults, requests, batch>>

(* The insertion into client_requests; the answer is read from PostgreSQL.  *)
StoreRequest ==
  /\ client = "storing"
  /\ client' = "idle"
  /\ requests' = requests \cup {Len(log["events"])}
  /\ UNCHANGED <<loader, faults, batch>>

(* PostgreSQL fails, or the 30 seconds are over, which publishing may have   *)
(* used up: the event stays.                                               *)
StoreRequestFails ==
  /\ client = "storing"
  /\ Fault
  /\ client' = "idle"
  /\ requests' \in {requests, requests \cup {Len(log["events"])}}
  /\ UNCHANGED <<loader, batch>>

-----------------------------------------------------------------------------
(* The Spark job *)

(* The rows of a directory: one per file that holds the whole message.      *)
Rows(c) == UNION {{<<i, n>> : n \in 1..copies[c][i].whole} : i \in 1..Len(log[c])}

(* A torn file of the products may be read as a row of nulls.              *)
NullRow == <<0, 0>>
NullVersion == [product |-> 0, updated |-> 0, name |-> "", available |-> -1]

Version(row) == IF row = NullRow THEN NullVersion ELSE log["products"][row[1]]

(* Mutated: duplicates and old versions stay.                              *)
EveryRow(rows) == {rows}

(* row_number over product_id by updated_at, descending: one row of the     *)
(* newest rows of every product, any of them.                              *)
Newest(rows) ==
  LET best == {r \in rows : \A s \in rows :
                 Version(s).product = Version(r).product => Version(s).updated <= Version(r).updated}
  IN {S \in SUBSET best : \A r \in best :
        Cardinality({s \in S : Version(s).product = Version(r).product}) = 1}

(* The last search of user u among the events of the rows.                  *)
LastQuery(u, rows) ==
  LET searches == {r[1] : r \in {s \in rows : /\ log["events"][s[1]].user = u
                                              /\ log["events"][s[1]].query # NoQuery}} IN
  IF searches = {} THEN NoQuery
  ELSE log["events"][CHOOSE i \in searches : \A j \in searches : j <= i].query

(* v is ranked before w: the query matches, then available, then product_id. *)
Before(q, v, w) ==
  LET m(x) == IF <<q, x.name>> \in Matches THEN 1 ELSE 0 IN
  \/ m(v) > m(w)
  \/ m(v) = m(w) /\ v.available > w.available
  \/ m(v) = m(w) /\ v.available = w.available /\ v.product < w.product

(* The first TopN of the rows of products, for every user with an event.    *)
Recommended(products, events) ==
  UNION {LET q == LastQuery(u, events)
             rank(r) == Cardinality({s \in products : Before(q, Version(s), Version(r))}) IN
         {[user |-> u, version |-> Version(r)] : r \in {s \in products : rank(s) < TopN}} :
         u \in {log["events"][r[1]].user : r \in events}}

(* The job lists the files of the products; without a row of each kind it   *)
(* fails on unknown columns before it touches the directory ...            *)
StartJob ==
  /\ job.state = "idle" /\ job.number < MaxJobs
  /\ \A c \in Claims : Rows(c) # {}
  /\ job' = [number |-> job.number + 1, state |-> "listing", products |-> Rows("products"),
             since |-> committed,
             torn |-> \E i \in 1..Len(log["products"]) : copies["products"][i].torn > 0]
  /\ UNCHANGED <<loader, faults, client, requests, output, results, publisher>>

(* ... and those of the events.  Overwriting deletes the directory and      *)
(* makes it anew, with _temporary inside, before anything is computed.     *)
Overwrite ==
  /\ job.state = "listing"
  /\ \E S \in Newest(job.products), null \in IF job.torn THEN BOOLEAN ELSE {FALSE} :
       results' = Append(results,
         Recommended(S \cup IF null THEN {NullRow} ELSE {}, Rows("events")))
  /\ output' = [exists |-> TRUE, success |-> FALSE, files |-> {},
                since |-> job.since, torn |-> job.torn]
  /\ job' = [job EXCEPT !.state = "writing", !.products = {}]
  /\ UNCHANGED <<loader, faults, client, requests, publisher>>

Parts(n) == {[job |-> n, user |-> r.user] : r \in results[n]}

(* The committer renames the files of the job one by one; their names are   *)
(* its own.  The rows of a user lie in one file.                           *)
RenamePart ==
  /\ job.state = "writing"
  /\ \E f \in Parts(Len(results)) \ output.files : output' = [output EXCEPT !.files = @ \cup {f}]
  /\ UNCHANGED <<loader, faults, client, requests, job, results, publisher>>

(* _SUCCESS.                                                               *)
FinishJob ==
  /\ job.state = "writing" /\ output.files = Parts(Len(results))
  /\ output' = [output EXCEPT !.success = TRUE]
  /\ job' = [job EXCEPT !.state = "idle"]
  /\ UNCHANGED <<loader, faults, client, requests, results, publisher>>

(* The job fails; what it has renamed stays.                               *)
JobFails ==
  /\ job.state # "idle"
  /\ Fault
  /\ job' = [job EXCEPT !.state = "idle", !.products = {}]
  /\ UNCHANGED <<loader, client, requests, output, results, publisher>>

-----------------------------------------------------------------------------
(* recommendation-publisher *)

(* The files named part-: _SUCCESS and _temporary are passed over.          *)
ListStatus == output.files

(* A directory that is not there is an error; _SUCCESS is not looked for.   *)
StartPublisher ==
  /\ publisher.state # "sending" /\ publisher.number < MaxRuns
  /\ publisher' = [number |-> publisher.number + 1, left |-> ListStatus, sent |-> {},
                   state |-> IF output.exists THEN "sending" ELSE "failed",
                   whole |-> IF output.success THEN Len(results) ELSE 0]
  /\ UNCHANGED <<loader, faults, client, requests, job, output, results>>

LinesOf(f) == {[job |-> f.job, row |-> r] : r \in {s \in results[f.job] : s.user = f.user}}

(* Mutated: a file that has gone is passed over.                           *)
OpenFailsAndGoesOn(f) ==
  /\ f \in publisher.left \ output.files
  /\ publisher' = [publisher EXCEPT !.left = @ \ {f}]
  /\ UNCHANGED <<loader, faults, client, requests, job, output, results>>

(* The file has gone since it was listed.                                  *)
OpenFails(f) ==
  /\ f \in publisher.left \ output.files
  /\ publisher' = [publisher EXCEPT !.state = "failed", !.left = {}]
  /\ UNCHANGED <<loader, faults, client, requests, job, output, results>>

(* Every line of the next file is decoded and sent.                        *)
PublishPart(f) ==
  /\ f \in publisher.left \cap output.files
  /\ publisher' = [publisher EXCEPT !.left = @ \ {f}, !.sent = @ \cup LinesOf(f)]
  /\ UNCHANGED <<loader, faults, client, requests, job, output, results>>

(* A request to HDFS or a send fails: the lines before it are published.    *)
PublishFails(f) ==
  /\ f \in publisher.left
  /\ Fault
  /\ \E S \in SUBSET LinesOf(f) :
       publisher' = [publisher EXCEPT !.state = "failed", !.left = {}, !.sent = @ \cup S]
  /\ UNCHANGED <<loader, client, requests, job, output, results>>

FinishPublisher ==
  /\ publisher.state = "sending" /\ publisher.left = {}
  /\ publisher' = [publisher EXCEPT !.state = "done"]
  /\ UNCHANGED <<loader, faults, client, requests, job, output, results>>

Next ==
  \/ LoaderStep /\ UNCHANGED others
  \/ \E v \in Records["products"] : ProduceProduct(v)
  \/ \E e \in Records["events"] : PublishEvent(e)
  \/ StoreRequest \/ StoreRequestFails
  \/ StartJob \/ Overwrite \/ RenamePart \/ FinishJob \/ JobFails
  \/ StartPublisher \/ FinishPublisher
  \/ \E f \in publisher.left : PublishPart(f) \/ OpenFails(f) \/ PublishFails(f)

Spec == Init /\ [][Next]_vars

(* The loader is restarted and works; nothing has to be produced or to fail. *)
Fairness ==
  /\ WF_vars(Join /\ UNCHANGED others) /\ WF_vars(AutoCommit /\ UNCHANGED others)
  /\ WF_vars(Release /\ UNCHANGED others) /\ WF_vars(Restart /\ UNCHANGED others)
  /\ \A c \in Claims :
       /\ WF_vars(BeginCreate(c) /\ UNCHANGED others) /\ WF_vars(EndCreate(c) /\ UNCHANGED others)
       /\ WF_vars(Mark(c) /\ UNCHANGED others) /\ WF_vars(ClaimEnds(c) /\ UNCHANGED others)

FairSpec == Spec /\ Fairness

-----------------------------------------------------------------------------
(* Properties *)

Users == {e.user : e \in Held("events")}
Versions == Held("products") \cup {NullVersion}

TypeOK ==
  /\ client \in {"idle", "storing"}
  /\ job \in [number : Nat, state : {"idle", "listing", "writing"}, products : SUBSET (Nat \X Nat),
              since : [Claims -> Nat], torn : BOOLEAN]
  /\ output \in [exists : BOOLEAN, success : BOOLEAN, files : SUBSET [job : 1..Len(results), user : Users],
                 since : [Claims -> Nat], torn : BOOLEAN]
  /\ results \in Seq(SUBSET [user : Users, version : Versions])
  /\ publisher \in [number : Nat, state : {"idle", "sending", "failed", "done"},
                    left : SUBSET [job : 1..Len(results), user : Users],
                    sent : SUBSET [job : 1..Len(results), row : [user : Users, version : Versions]],
                    whole : 0..Len(results)]

(* Every stored request has its event, also the one about to be stored.     *)
RequestsHaveEvents ==
  /\ requests \subseteq 1..Len(log["events"])
  /\ client = "storing" => Len(log["events"]) > 0

(* A job that has listed the products saw every message of them that was    *)
(* committed when it began.                                                *)
ListedIsCommitted ==
  job.state = "listing" =>
    /\ job.products # {} /\ IsFiniteSet(job.products)
    /\ job.products \subseteq (1..Len(log["products"])) \X Nat
    /\ \A c \in Claims : job.since[c] <= committed[c]
    /\ \A i \in 1..job.since["products"] : \E row \in job.products : row[1] = i

(* The directory holds files of the last job that overwrote it and of no     *)
(* other, and all of them beside _SUCCESS.                                 *)
FilesAreOfTheLastJob ==
  /\ output.exists => Len(results) > 0 /\ output.files \subseteq Parts(Len(results))
  /\ ~output.exists => output.files = {} /\ ~output.success
  /\ output.success => output.files = Parts(Len(results))
  /\ job.state = "writing" => output.exists

(* What a publisher has sent and has left to send is of one job; if it       *)
(* listed a finished output, what it sent is what it has not left.          *)
SentIsNotLeft ==
  /\ publisher.left # {} => publisher.state = "sending"
  /\ \A f, g \in publisher.left : f.job = g.job
  /\ \A l \in publisher.sent, f \in publisher.left : l.job = f.job
  /\ \A k, l \in publisher.sent : k.job = l.job
  /\ publisher.whole > 0 /\ publisher.state \in {"sending", "done"} =>
       /\ publisher.left \subseteq Parts(publisher.whole)
       /\ {l.row : l \in publisher.sent} =
            {r \in results[publisher.whole] : [job |-> publisher.whole, user |-> r.user] \notin publisher.left}

(* The loader's invariants and those of what reads its files.               *)
IInv ==
  /\ LoaderTypeOK /\ StoredBeforeMarked /\ WritingIsTorn
  /\ TypeOK /\ RequestsHaveEvents /\ ListedIsCommitted /\ FilesAreOfTheLastJob /\ SentIsNotLeft

(* The offsets a reader may have seen that began after the first n.         *)
SeenSince(c, n) == {S \in SUBSET (1..Len(log[c])) : 1..n \subseteq S}

(* The last output is what the messages P and E call for: there is one      *)
(* newest version of every product such that every user with an event is    *)
(* recommended TopN of them, or all there are, and none of them behind one  *)
(* that is left out.                                                       *)
Answers(P, E) ==
  LET versions == {log["products"][i] : i \in P}
      newest == {v \in versions : \A w \in versions : w.product = v.product => w.updated <= v.updated}
      recommended == results[Len(results)] IN
  /\ {r.user : r \in recommended} = {log["events"][i].user : i \in E}
  /\ \E chosen \in SUBSET newest :
       /\ \A v \in versions : Cardinality({w \in chosen : w.product = v.product}) = 1
       /\ \A u \in {r.user : r \in recommended} :
            LET mine == {r.version : r \in {s \in recommended : s.user = u}}
                q == LastQuery(u, {<<i, 1>> : i \in E}) IN
            /\ mine \subseteq chosen
            /\ Cardinality(mine) = TopN \/ mine = chosen
            /\ \A v \in mine, w \in chosen \ mine : Before(q, v, w)

(* What a job writes is what some set of messages calls for that holds all   *)
(* those committed when it began.  Duplicate files and the order in which   *)
(* they were written change nothing; a torn file may.                      *)
OutputIsCurrent ==
  output.exists /\ ~output.torn =>
    \E P \in SeenSince("products", output.since["products"]),
       E \in SeenSince("events", output.since["events"]) : Answers(P, E)

(* A run of the publisher never mixes the outputs of two jobs, also when     *)
(* jobs overwrite the directory under it, and one that succeeds after it    *)
(* listed a finished output has sent the whole of it.                      *)
PublishedIsOneOutput ==
  /\ Cardinality({l.job : l \in publisher.sent}) <= 1
  /\ publisher.state = "done" /\ publisher.whole > 0 =>
       {l.row : l \in publisher.sent} = results[publisher.whole]

(* Every message ends up in HDFS and is committed.                          *)
EverythingReachesHdfs ==
  <>[](\A c \in Claims : committed[c] = Len(log[c]))
=============================================================================
