--------------------------- MODULE AnalyticsProofs ---------------------------
(***************************************************************************)
(* Proofs about HdfsLoader and Analytics, for any records, lengths of the  *)
(* topics, number of recommendations, jobs, runs and failures.             *)
(*                                                                         *)
(* 1. The loader: what is marked is stored.                                *)
(* 2. What each kind of step leaves as it is.                              *)
(* 3. What a job recommends, as operators of what the topics hold; the     *)
(*    first n of a finite set that is ordered strictly.                    *)
(* 4. What a job writes is what the messages it read call for, and later   *)
(*    messages change nothing of that.                                     *)
(* 5. The invariant: one lemma per step.                                   *)
(* 6. The theorems.                                                        *)
(***************************************************************************)
EXTENDS Analytics, FiniteSetTheorems, FunctionTheorems, SequenceTheorems,
        WellFoundedInduction, TLAPS

LoaderInv == LoaderTypeOK /\ StoredBeforeMarked /\ WritingIsTorn

Copy == [whole : Nat, torn : Nat]

-----------------------------------------------------------------------------
(* 1. The loader *)

LEMMA LoaderTypes ==
  ASSUME LoaderTypeOK, NEW c \in Claims
  PROVE  /\ log[c] \in Seq(Held(c)) /\ Len(log[c]) \in Nat
         /\ copies[c] \in Seq(Copy) /\ Len(copies[c]) = Len(log[c])
         /\ \A i \in 1..Len(log[c]) : copies[c][i] \in Copy
         /\ committed[c] \in Nat /\ marked[c] \in Nat /\ Message(c) \in Nat \ {0}
<1>1. log[c] \in Seq(Held(c)) /\ copies[c] \in Seq(Copy) /\ Len(copies[c]) = Len(log[c])
  BY DEF LoaderTypeOK, Copy
<1>2. committed[c] \in Nat /\ marked[c] \in Nat
  BY DEF LoaderTypeOK
<1>3. Len(log[c]) \in Nat
  BY <1>1, LenProperties
<1>4. \A i \in 1..Len(log[c]) : copies[c][i] \in Copy
  BY <1>1, ElementOfSeq
<1> QED
  BY <1>1, <1>2, <1>3, <1>4 DEF Message

(* One file of one message changes, and every other stays as it is.         *)
LEMMA OneCopyChanges ==
  ASSUME LoaderTypeOK, NEW c \in Claims, NEW m \in 1..Len(log[c]), NEW e \in Copy
  PROVE  LET after == [copies EXCEPT ![c][m] = e] IN
         /\ after \in [Claims -> Seq(Copy)]
         /\ \A d \in Claims : Len(after[d]) = Len(copies[d])
         /\ after[c][m] = e
         /\ \A d \in Claims : \A i \in 1..Len(log[d]) : d # c \/ i # m => after[d][i] = copies[d][i]
<1> DEFINE after == [copies EXCEPT ![c][m] = e]
<1>1. copies \in [Claims -> Seq(Copy)]
  BY DEF LoaderTypeOK, Copy
<1>2. m \in 1..Len(copies[c]) /\ Len(log[c]) = Len(copies[c]) /\ copies[c] \in Seq(Copy)
  BY LoaderTypes
<1> DEFINE row == [copies[c] EXCEPT ![m] = e]
<1>3. /\ row \in Seq(Copy) /\ Len(row) = Len(copies[c])
      /\ \A j \in 1..Len(copies[c]) : row[j] = IF j = m THEN e ELSE copies[c][j]
  BY <1>2, ExceptSeq
<1>4. after = [copies EXCEPT ![c] = row]
  OBVIOUS
<1> HIDE DEF row
<1>5. after[c] = row /\ \A d \in Claims : d # c => after[d] = copies[d]
  BY <1>1, <1>4
<1>6. after \in [Claims -> Seq(Copy)]
  BY <1>1, <1>3, <1>4
<1> HIDE DEF after
<1>7. \A d \in Claims : Len(after[d]) = Len(copies[d])
  BY <1>3, <1>5
<1>8. after[c][m] = e
  BY <1>2, <1>3, <1>5
<1>9. \A d \in Claims : \A i \in 1..Len(log[d]) : d # c \/ i # m => after[d][i] = copies[d][i]
  BY <1>2, <1>3, <1>5
<1> QED
  BY <1>6, <1>7, <1>8, <1>9 DEF after

(* What of LoaderInv the files are in, given the rest.                      *)
FilesOK(files) ==
  /\ files \in [Claims -> Seq(Copy)]
  /\ \A c \in Claims : Len(files[c]) = Len(log[c])
  /\ \A c \in Claims : \A i \in 1..Len(log[c]) : copies[c][i].whole > 0 => files[c][i].whole > 0

(* A file that is begun.                                                   *)
LEMMA BegunFiles ==
  ASSUME LoaderTypeOK, NEW c \in Claims, Message(c) <= Len(log[c])
  PROVE  LET begun == [copies EXCEPT ![c][Message(c)].torn = @ + 1] IN
         /\ FilesOK(begun)
         /\ begun[c][Message(c)].torn > 0
         /\ \A d \in Claims \ {c} : begun[d] = copies[d]
<1> DEFINE m == Message(c)
           e == [copies[c][m] EXCEPT !.torn = @ + 1]
           begun == [copies EXCEPT ![c][m].torn = @ + 1]
<1>1. m \in 1..Len(log[c])
  BY LoaderTypes
<1>2. copies[c][m] \in Copy
  BY <1>1, LoaderTypes
<1>3. e \in Copy /\ e.whole = copies[c][m].whole /\ e.torn > 0
  BY <1>2 DEF Copy
<1>4. begun = [copies EXCEPT ![c][m] = e]
  OBVIOUS
<1> HIDE DEF m, e, begun
<1>5. /\ begun \in [Claims -> Seq(Copy)]
      /\ \A d \in Claims : Len(begun[d]) = Len(copies[d])
      /\ begun[c][m] = e
      /\ \A d \in Claims : \A i \in 1..Len(log[d]) : d # c \/ i # m => begun[d][i] = copies[d][i]
  BY <1>1, <1>3, <1>4, OneCopyChanges
<1>6. FilesOK(begun)
  <2>1. \A d \in Claims : Len(begun[d]) = Len(log[d])
    BY <1>5, LoaderTypes
  <2>2. ASSUME NEW d \in Claims, NEW i \in 1..Len(log[d]), copies[d][i].whole > 0
        PROVE  begun[d][i].whole > 0
    <3>1. CASE d = c /\ i = m
      BY <1>3, <1>5, <2>2, <3>1
    <3>2. CASE d # c \/ i # m
      BY <1>5, <2>2, <3>2
    <3> QED
      BY <3>1, <3>2
  <2> QED
    BY <1>5, <2>1, <2>2 DEF FilesOK
<1>7. \A d \in Claims \ {c} : begun[d] = copies[d]
  BY <1>4 DEF LoaderTypeOK
<1> QED
  BY <1>3, <1>5, <1>6, <1>7 DEF begun, m

(* The file that is being written when it is complete, and what is left of   *)
(* it when it is cut short.                                                *)
LEMMA CompletedFiles ==
  ASSUME LoaderInv, NEW c \in Claims, claim[c] = "writing"
  PROVE  /\ FilesOK(Completed(c))
         /\ Completed(c)[c][Message(c)].whole > 0
         /\ \A d \in Claims \ {c} : Completed(c)[d] = copies[d]
<1> DEFINE m == Message(c)
           e == [whole |-> copies[c][m].whole + 1, torn |-> copies[c][m].torn - 1]
           after == [copies EXCEPT ![c][m] = e]
<1> USE DEF LoaderInv
<1>1. m \in 1..Len(log[c]) /\ copies[c][m].torn > 0
  BY LoaderTypes DEF WritingIsTorn
<1>2. copies[c][m] \in Copy
  BY <1>1, LoaderTypes
<1>3. e \in Copy /\ e.whole > 0
  BY <1>1, <1>2 DEF Copy
<1>4. Completed(c) = after
  BY DEF Completed
<1> HIDE DEF m, e, after
<1>5. /\ after \in [Claims -> Seq(Copy)]
      /\ \A d \in Claims : Len(after[d]) = Len(copies[d])
      /\ after[c][m] = e
      /\ \A d \in Claims : \A i \in 1..Len(log[d]) : d # c \/ i # m => after[d][i] = copies[d][i]
  BY <1>1, <1>3, OneCopyChanges DEF after
<1>6. FilesOK(after)
  <2>1. \A d \in Claims : Len(after[d]) = Len(log[d])
    BY <1>5, LoaderTypes
  <2>2. ASSUME NEW d \in Claims, NEW i \in 1..Len(log[d]), copies[d][i].whole > 0
        PROVE  after[d][i].whole > 0
    <3>1. CASE d = c /\ i = m
      BY <1>3, <1>5, <2>2, <3>1
    <3>2. CASE d # c \/ i # m
      BY <1>5, <2>2, <3>2
    <3> QED
      BY <3>1, <3>2
  <2> QED
    BY <1>5, <2>1, <2>2 DEF FilesOK
<1>7. \A d \in Claims \ {c} : after[d] = copies[d]
  BY DEF LoaderTypeOK, after
<1> QED
  BY <1>3, <1>4, <1>5, <1>6, <1>7 DEF m

LEMMA SameFiles ==
  ASSUME LoaderTypeOK
  PROVE  FilesOK(copies)
BY DEF LoaderTypeOK, FilesOK, Copy

LEMMA CutShortFiles ==
  ASSUME LoaderInv, NEW c \in Claims, NEW files \in CutShort(c)
  PROVE  FilesOK(files) /\ \A d \in Claims \ {c} : files[d] = copies[d]
<1>1. CASE claim[c] = "writing"
  <2>1. files = copies \/ files = Completed(c)
    BY <1>1 DEF CutShort
  <2> QED
    BY <1>1, <2>1, SameFiles, CompletedFiles DEF LoaderInv
<1>2. CASE claim[c] # "writing"
  BY <1>2, SameFiles DEF LoaderInv, CutShort
<1> QED
  BY <1>1, <1>2

LEMMA LoaderInitInv ==
  ASSUME LoaderInit
  PROVE  LoaderInv
<1> USE DEF LoaderInit
<1>1. \A c \in Claims : Loaded[c] \in Seq(Held(c)) /\ Len(Loaded[c]) \in Nat
  BY HdfsLoaderAssumption, LenProperties
<1>2. committed \in [Claims -> Nat] /\ marked \in [Claims -> Nat]
  BY <1>1
<1>3. log = [c \in Claims |-> log[c]]
  BY HdfsLoaderAssumption
<1> DEFINE first(c) == [i \in 1..Len(Loaded[c]) |-> [whole |-> 1, torn |-> 0]]
<1>4. ASSUME NEW c \in Claims
      PROVE  first(c) \in Seq(Copy) /\ Len(first(c)) = Len(Loaded[c])
  <2>1. Len(Loaded[c]) \in Nat
    BY <1>1
  <2>2. first(c) \in [1..Len(Loaded[c]) -> Copy]
    BY DEF Copy
  <2>3. first(c) \in Seq(Copy)
    BY <2>1, <2>2, SeqDef
  <2> QED
    BY <2>1, <2>2, <2>3, LenProperties
<1>5. \A c \in Claims : copies[c] = first(c)
  OBVIOUS
<1>6. copies \in [Claims -> Seq(Copy)]
  BY <1>4
<1>7. LoaderTypeOK
  <2>1. \A c \in Claims : Len(copies[c]) = Len(log[c]) /\ log[c] \in Seq(Held(c))
    BY <1>1, <1>4, <1>5
  <2>2. faults \in 0..MaxFaults
    BY HdfsLoaderAssumption
  <2>3. claim \in [Claims -> {"closed", "open", "writing", "stored"}]
    OBVIOUS
  <2> QED
    BY <1>2, <1>3, <1>6, <2>1, <2>2, <2>3 DEF LoaderTypeOK, Copy
<1>8. StoredBeforeMarked
  <2>1. \A c \in Claims : \A i \in 1..Len(log[c]) : copies[c][i].whole > 0
    BY <1>1, <1>5
  <2>2. \A c \in Claims : committed[c] <= Len(log[c])
    BY <1>1
  <2> QED
    BY <2>1, <2>2 DEF StoredBeforeMarked
<1> QED
  BY <1>7, <1>8 DEF LoaderInv, WritingIsTorn

(* A record arrives, in no file yet.                                        *)
LEMMA MirroredInv ==
  ASSUME LoaderInv, NEW c \in Claims, NEW r \in Held(c), Mirrored(c, r), faults' = faults
  PROVE  /\ LoaderInv'
         /\ Len(log'[c]) = Len(log[c]) + 1
         /\ \A d \in Claims : \A i \in 1..Len(log[d]) : log'[d][i] = log[d][i]
         /\ \A d \in Claims : Len(log[d]) <= Len(log'[d])
<1> USE DEF LoaderInv
<1> DEFINE none == [whole |-> 0, torn |-> 0]
<1>1. /\ log' = [log EXCEPT ![c] = Append(log[c], r)]
      /\ copies' = [copies EXCEPT ![c] = Append(copies[c], none)]
      /\ committed' = committed /\ up' = up /\ session' = session /\ claim' = claim /\ marked' = marked
  BY DEF Mirrored, consumer
<1>2. none \in Copy
  BY DEF Copy
<1>3. log = [d \in Claims |-> log[d]] /\ copies \in [Claims -> Seq(Copy)]
  BY DEF LoaderTypeOK, Copy
<1> HIDE DEF none
<1>4. log' = [d \in Claims |-> log'[d]] /\ log'[c] = Append(log[c], r)
  BY <1>1, <1>3
<1>5. \A d \in Claims : d # c => log'[d] = log[d] /\ copies'[d] = copies[d]
  BY <1>1, <1>3
<1>6. /\ Append(log[c], r) \in Seq(Held(c)) /\ Len(Append(log[c], r)) = Len(log[c]) + 1
      /\ \A i \in 1..Len(log[c]) : Append(log[c], r)[i] = log[c][i]
  BY LoaderTypes, AppendProperties
<1>7. /\ Append(copies[c], none) \in Seq(Copy) /\ Len(Append(copies[c], none)) = Len(copies[c]) + 1
      /\ \A i \in 1..Len(copies[c]) : Append(copies[c], none)[i] = copies[c][i]
  BY <1>2, LoaderTypes, AppendProperties
<1>8. copies' \in [Claims -> Seq(Copy)] /\ copies'[c] = Append(copies[c], none)
  BY <1>1, <1>3, <1>7
<1>9. \A d \in Claims : log'[d] \in Seq(Held(d)) /\ Len(copies'[d]) = Len(log'[d])
  <2> TAKE d \in Claims
  <2>1. log[d] \in Seq(Held(d)) /\ Len(copies[d]) = Len(log[d])
    BY LoaderTypes
  <2>2. CASE d = c
    BY <1>4, <1>6, <1>7, <1>8, <2>1, <2>2
  <2>3. CASE d # c
    BY <1>5, <2>1, <2>3
  <2> QED
    BY <2>2, <2>3
<1>10. \A d \in Claims : \A i \in 1..Len(log[d]) : log'[d][i] = log[d][i] /\ copies'[d][i] = copies[d][i]
  <2>1. Len(copies[c]) = Len(log[c])
    BY LoaderTypes
  <2> QED
    BY <1>4, <1>5, <1>6, <1>7, <1>8, <2>1
<1>11. \A d \in Claims : Len(log[d]) \in Nat /\ Len(log'[d]) \in Nat /\ Len(log[d]) <= Len(log'[d])
  BY <1>4, <1>5, <1>6, LoaderTypes
<1>12. LoaderTypeOK'
  BY <1>1, <1>4, <1>8, <1>9 DEF LoaderTypeOK, Copy
<1>13. \A d \in Claims : committed[d] <= Len(log[d]) /\ marked[d] <= Len(log[d])
  BY DEF StoredBeforeMarked
<1>14. \A d \in Claims : claim[d] \in {"writing", "stored"} => Message(d) <= Len(log[d])
  BY DEF WritingIsTorn
<1>15. \A d \in Claims : Message(d)' = Message(d) /\ Message(d) \in Nat \ {0}
  BY <1>1, LoaderTypes DEF Message
<1>16. StoredBeforeMarked'
  <2>1. session' = "none" => \A d \in Claims : claim'[d] = "closed"
    BY <1>1 DEF StoredBeforeMarked
  <2>2. ASSUME NEW d \in Claims
        PROVE  /\ committed'[d] <= Len(log'[d]) /\ marked'[d] <= Len(log'[d])
               /\ session' # "none" => committed'[d] <= marked'[d]
    <3>1. committed[d] \in Nat /\ marked[d] \in Nat
      BY LoaderTypes
    <3>2. session # "none" => committed[d] <= marked[d]
      BY DEF StoredBeforeMarked
    <3> QED
      BY <1>1, <1>11, <1>13, <3>1, <3>2
  <2>3. ASSUME NEW d \in Claims, NEW i \in 1..Len(log'[d]),
               \/ i <= committed'[d] \/ i <= marked'[d]
               \/ claim'[d] = "stored" /\ i = Message(d)'
        PROVE  copies'[d][i].whole > 0
    <3>1. committed[d] \in Nat /\ marked[d] \in Nat
      BY LoaderTypes
    <3>2. i \in 1..Len(log[d])
      BY <1>1, <1>11, <1>13, <1>14, <1>15, <2>3, <3>1
    <3>3. copies[d][i].whole > 0
      BY <1>1, <1>15, <2>3, <3>2 DEF StoredBeforeMarked
    <3> QED
      BY <1>10, <3>2, <3>3
  <2> QED
    BY <2>1, <2>2, <2>3 DEF StoredBeforeMarked
<1>17. WritingIsTorn'
  <2> SUFFICES ASSUME NEW d \in Claims
               PROVE  /\ claim'[d] \in {"writing", "stored"} => Message(d)' <= Len(log'[d])
                      /\ claim'[d] = "writing" => copies'[d][Message(d)'].torn > 0
    BY DEF WritingIsTorn
  <2>1. claim[d] \in {"writing", "stored"} => Message(d) \in 1..Len(log[d])
    BY <1>11, <1>14, <1>15
  <2>2. claim[d] = "writing" => copies[d][Message(d)].torn > 0
    BY DEF WritingIsTorn
  <2>3. claim'[d] \in {"writing", "stored"} => Message(d)' <= Len(log'[d])
    BY <1>1, <1>11, <1>15, <2>1
  <2>4. claim'[d] = "writing" => copies'[d][Message(d)'].torn > 0
    <3> SUFFICES ASSUME claim[d] = "writing" PROVE copies'[d][Message(d)].torn > 0
      BY <1>1, <1>15
    <3>1. copies'[d][Message(d)] = copies[d][Message(d)]
      BY <1>10, <2>1
    <3> QED
      BY <2>2, <3>1
  <2> QED
    BY <2>3, <2>4
<1> QED
  BY <1>4, <1>6, <1>10, <1>11, <1>12, <1>16, <1>17

(* A step that writes no log and loses no file keeps the types if what it    *)
(* assigns has them.                                                       *)
LEMMA LoaderTypesStay ==
  ASSUME LoaderInv, log' = log, FilesOK(copies'),
         committed' = committed \/ committed' = marked,
         marked' \in [Claims -> Nat],
         up' \in BOOLEAN, session' \in {"none", "live", "ending"},
         claim' \in [Claims -> {"closed", "open", "writing", "stored"}],
         faults' = faults \/ Fault
  PROVE  LoaderTypeOK'
<1> USE DEF LoaderInv
<1>1. faults' \in 0..MaxFaults
  BY HdfsLoaderAssumption DEF LoaderTypeOK, Fault
<1>2. committed' \in [Claims -> Nat]
  BY DEF LoaderTypeOK
<1>3. /\ log' = [c \in Claims |-> log'[c]]
      /\ copies' \in [Claims -> Seq([whole : Nat, torn : Nat])]
      /\ \A c \in Claims : log'[c] \in Seq(Held(c)) /\ Len(copies'[c]) = Len(log'[c])
  BY DEF LoaderTypeOK, FilesOK, Copy
<1> QED
  BY <1>1, <1>2, <1>3 DEF LoaderTypeOK

(* Such a step keeps what is stored as well, if it marks and commits nothing *)
(* but what was marked, or stored.                                          *)
LEMMA StoredStays ==
  ASSUME LoaderInv, log' = log, FilesOK(copies'),
         session' = "none" => \A c \in Claims : claim'[c] = "closed",
         \A c \in Claims :
           /\ committed'[c] \in Nat /\ marked'[c] \in Nat
           /\ committed'[c] <= committed[c] \/ committed'[c] <= marked[c]
           /\ session' # "none" => committed'[c] <= marked'[c]
           /\ \/ marked'[c] <= committed[c] \/ marked'[c] <= marked[c]
              \/ claim[c] = "stored" /\ marked'[c] = Message(c)
           /\ claim'[c] = "stored" =>
                \/ claim[c] = "stored" /\ marked'[c] = marked[c]
                \/ Message(c)' \in 1..Len(log[c]) /\ copies'[c][Message(c)'].whole > 0
  PROVE  StoredBeforeMarked'
<1> USE DEF LoaderInv
<1>1. ASSUME NEW c \in Claims
      PROVE  committed'[c] <= Len(log'[c]) /\ marked'[c] <= Len(log'[c])
  <2>1. committed[c] <= Len(log[c]) /\ marked[c] <= Len(log[c])
    BY DEF StoredBeforeMarked
  <2>2. claim[c] = "stored" => Message(c) <= Len(log[c])
    BY DEF WritingIsTorn
  <2>3. committed[c] \in Nat /\ marked[c] \in Nat /\ Message(c) \in Nat /\ Len(log[c]) \in Nat
    BY LoaderTypes
  <2> QED
    BY <2>1, <2>2, <2>3
<1>2. ASSUME NEW c \in Claims, NEW i \in 1..Len(log[c]),
             i <= committed'[c] \/ i <= marked'[c]
      PROVE  copies[c][i].whole > 0
  <2>1. committed[c] \in Nat /\ marked[c] \in Nat /\ Message(c) = marked[c] + 1
    BY LoaderTypes DEF Message
  <2>2. i <= committed[c] \/ i <= marked[c] \/ (claim[c] = "stored" /\ i = Message(c))
    <3>1. /\ committed'[c] \in Nat /\ marked'[c] \in Nat
          /\ committed'[c] <= committed[c] \/ committed'[c] <= marked[c]
          /\ \/ marked'[c] <= committed[c] \/ marked'[c] <= marked[c]
             \/ claim[c] = "stored" /\ marked'[c] = Message(c)
      OBVIOUS
    <3>2. i \in Nat
      BY LoaderTypes
    <3>3. CASE i <= committed'[c]
      BY <2>1, <3>1, <3>2, <3>3
    <3>4. CASE i <= marked'[c]
      BY <2>1, <3>1, <3>2, <3>4
    <3> QED
      BY <1>2, <3>3, <3>4
  <2> QED
    BY <2>2 DEF StoredBeforeMarked
<1>3. ASSUME NEW c \in Claims, NEW i \in 1..Len(log[c]), claim'[c] = "stored", i = Message(c)'
      PROVE  copies'[c][i].whole > 0
  <2>1. CASE claim[c] = "stored" /\ marked'[c] = marked[c]
    <3>1. Message(c)' = Message(c)
      BY <2>1 DEF Message
    <3>2. copies[c][i].whole > 0
      BY <1>3, <2>1, <3>1 DEF StoredBeforeMarked
    <3> QED
      BY <3>2 DEF FilesOK
  <2> QED
    BY <1>3, <2>1
<1>4. \A c \in Claims : \A i \in 1..Len(log[c]) : copies[c][i].whole > 0 => copies'[c][i].whole > 0
  BY DEF FilesOK
<1>5. ASSUME NEW c \in Claims, NEW i \in 1..Len(log'[c]),
             \/ i <= committed'[c] \/ i <= marked'[c]
             \/ claim'[c] = "stored" /\ i = Message(c)'
      PROVE  copies'[c][i].whole > 0
  BY <1>2, <1>3, <1>4, <1>5
<1> QED
  BY <1>1, <1>5 DEF StoredBeforeMarked

LEMMA WritingStays ==
  ASSUME LoaderInv, log' = log,
         \A c \in Claims :
           claim'[c] \in {"writing", "stored"} =>
             /\ marked'[c] = marked[c]
             /\ Message(c) <= Len(log[c])
             /\ claim'[c] = "writing" =>
                  \/ claim[c] = "writing" /\ copies'[c] = copies[c]
                  \/ copies'[c][Message(c)].torn > 0
  PROVE  WritingIsTorn'
<1> SUFFICES ASSUME NEW c \in Claims, claim'[c] \in {"writing", "stored"}
             PROVE  /\ Message(c)' <= Len(log'[c])
                    /\ claim'[c] = "writing" => copies'[c][Message(c)'].torn > 0
  BY DEF WritingIsTorn
<1>1. Message(c)' = Message(c) /\ Message(c) <= Len(log[c])
  BY DEF Message
<1>2. claim[c] = "writing" => copies[c][Message(c)].torn > 0
  BY DEF LoaderInv, WritingIsTorn
<1> QED
  BY <1>1, <1>2

(* Every step of the loader keeps its invariant, the log and what is        *)
(* committed.                                                              *)
LEMMA LoaderStepInv ==
  ASSUME LoaderInv, LoaderStep, faults' = faults \/ Fault
  PROVE  LoaderInv' /\ log' = log /\ \A c \in Claims : committed[c] <= committed'[c]
<1> USE DEF LoaderInv
<1>1. \A c \in Claims :
        /\ committed[c] \in Nat /\ marked[c] \in Nat /\ Message(c) = marked[c] + 1
        /\ Len(log[c]) \in Nat
  BY LoaderTypes DEF Message
<1>2. /\ committed \in [Claims -> Nat] /\ marked \in [Claims -> Nat]
      /\ up \in BOOLEAN /\ session \in {"none", "live", "ending"}
      /\ claim \in [Claims -> {"closed", "open", "writing", "stored"}]
  BY DEF LoaderTypeOK
<1>3. /\ session = "none" => \A c \in Claims : claim[c] = "closed"
      /\ session # "none" => \A c \in Claims : committed[c] <= marked[c]
  BY DEF StoredBeforeMarked
<1>4. /\ \A c \in Claims : claim[c] \in {"writing", "stored"} => Message(c) <= Len(log[c])
      /\ \A c \in Claims : claim[c] = "writing" => copies[c][Message(c)].torn > 0
  BY DEF WritingIsTorn
<1>5. FilesOK(copies)
  BY SameFiles
<1>6. CASE Join
  <2>1. /\ session' = "live" /\ claim' = [c \in Claims |-> "open"] /\ marked' = committed
        /\ UNCHANGED <<log, committed, copies, up, faults>>
    BY <1>6 DEF Join
  <2>2. FilesOK(copies')
    BY <1>5, <2>1
  <2>3. LoaderTypeOK'
    BY <1>2, <2>1, <2>2, LoaderTypesStay
  <2>4. StoredBeforeMarked'
    BY <1>1, <2>1, <2>2, StoredStays
  <2>5. WritingIsTorn'
    BY <2>1, WritingStays
  <2> QED
    BY <1>1, <2>1, <2>3, <2>4, <2>5
<1>7. CASE Rebalance
  <2>1. /\ session = "live" /\ session' = "ending" /\ Fault
        /\ UNCHANGED <<log, committed, copies, up, claim, marked>>
    BY <1>7 DEF Rebalance
  <2>2. FilesOK(copies')
    BY <1>5, <2>1
  <2>3. LoaderTypeOK'
    BY <1>2, <2>1, <2>2, LoaderTypesStay
  <2>4. StoredBeforeMarked'
    BY <1>1, <1>3, <2>1, <2>2, StoredStays
  <2>5. WritingIsTorn'
    BY <1>4, <2>1, WritingStays
  <2> QED
    BY <1>1, <2>1, <2>3, <2>4, <2>5
<1>8. CASE AutoCommit
  <2>1. /\ session = "live" /\ committed' = marked
        /\ UNCHANGED <<log, copies, up, session, claim, marked, faults>>
    BY <1>8 DEF AutoCommit, consumer
  <2>2. FilesOK(copies')
    BY <1>5, <2>1
  <2>3. LoaderTypeOK'
    BY <1>2, <2>1, <2>2, LoaderTypesStay
  <2>4. StoredBeforeMarked'
    BY <1>1, <1>3, <2>1, <2>2, StoredStays
  <2>5. WritingIsTorn'
    BY <1>4, <2>1, WritingStays
  <2> QED
    BY <1>1, <1>3, <2>1, <2>3, <2>4, <2>5
<1>9. CASE Release
  <2>1. /\ session = "ending" /\ \A c \in Claims : claim[c] = "closed"
        /\ session' = "none" /\ committed' = marked
        /\ UNCHANGED <<log, copies, up, claim, marked, faults>>
    BY <1>9 DEF Release
  <2>2. FilesOK(copies')
    BY <1>5, <2>1
  <2>3. LoaderTypeOK'
    BY <1>2, <2>1, <2>2, LoaderTypesStay
  <2>4. StoredBeforeMarked'
    BY <1>1, <1>3, <2>1, <2>2, StoredStays
  <2>5. WritingIsTorn'
    BY <1>4, <2>1, WritingStays
  <2> QED
    BY <1>1, <1>3, <2>1, <2>3, <2>4, <2>5
<1>10. CASE Dies
  <2>1. /\ up' = FALSE /\ session' = "none" /\ claim' = [c \in Claims |-> "closed"] /\ Fault
        /\ UNCHANGED <<log, committed, copies, marked>>
    BY <1>10 DEF Dies
  <2>2. FilesOK(copies')
    BY <1>5, <2>1
  <2>3. LoaderTypeOK'
    BY <1>2, <2>1, <2>2, LoaderTypesStay
  <2>4. StoredBeforeMarked'
    BY <1>1, <2>1, <2>2, StoredStays
  <2>5. WritingIsTorn'
    BY <2>1, WritingStays
  <2> QED
    BY <1>1, <2>1, <2>3, <2>4, <2>5
<1>11. CASE Restart
  <2>1. up' = TRUE /\ UNCHANGED <<log, committed, copies, session, claim, marked, faults>>
    BY <1>11 DEF Restart
  <2>2. FilesOK(copies')
    BY <1>5, <2>1
  <2>3. LoaderTypeOK'
    BY <1>2, <2>1, <2>2, LoaderTypesStay
  <2>4. StoredBeforeMarked'
    BY <1>1, <1>3, <2>1, <2>2, StoredStays
  <2>5. WritingIsTorn'
    BY <1>4, <2>1, WritingStays
  <2> QED
    BY <1>1, <2>1, <2>3, <2>4, <2>5
<1>12. ASSUME NEW c \in Claims, BeginCreate(c)
       PROVE  LoaderInv' /\ log' = log /\ \A d \in Claims : committed[d] <= committed'[d]
  <2>1. /\ session = "live" /\ claim[c] = "open" /\ Message(c) <= Len(log[c])
        /\ claim' = [claim EXCEPT ![c] = "writing"]
        /\ copies' = [copies EXCEPT ![c][Message(c)].torn = @ + 1]
        /\ UNCHANGED <<log, committed, up, session, marked, faults>>
    BY <1>12 DEF BeginCreate
  <2>2. /\ FilesOK(copies') /\ copies'[c][Message(c)].torn > 0
        /\ \A d \in Claims \ {c} : copies'[d] = copies[d]
    BY <2>1, BegunFiles
  <2>3. claim'[c] = "writing" /\ \A d \in Claims \ {c} : claim'[d] = claim[d]
    BY <1>2, <2>1
  <2>4. claim' \in [Claims -> {"closed", "open", "writing", "stored"}]
    BY <1>2, <2>1
  <2>5. LoaderTypeOK'
    BY <1>2, <2>1, <2>2, <2>4, LoaderTypesStay
  <2>6. StoredBeforeMarked'
    BY <1>1, <1>3, <2>1, <2>2, <2>3, StoredStays
  <2>7. WritingIsTorn'
    BY <1>4, <2>1, <2>2, <2>3, WritingStays
  <2> QED
    BY <1>1, <2>1, <2>5, <2>6, <2>7
<1>13. ASSUME NEW c \in Claims, EndCreate(c)
       PROVE  LoaderInv' /\ log' = log /\ \A d \in Claims : committed[d] <= committed'[d]
  <2>1. /\ claim[c] = "writing" /\ claim' = [claim EXCEPT ![c] = "stored"]
        /\ copies' = Completed(c)
        /\ UNCHANGED <<log, committed, up, session, marked, faults>>
    BY <1>13 DEF EndCreate
  <2>2. /\ FilesOK(copies') /\ copies'[c][Message(c)].whole > 0
        /\ \A d \in Claims \ {c} : copies'[d] = copies[d]
    BY <2>1, CompletedFiles
  <2>3. claim'[c] = "stored" /\ \A d \in Claims \ {c} : claim'[d] = claim[d]
    BY <1>2, <2>1
  <2>4. claim' \in [Claims -> {"closed", "open", "writing", "stored"}]
    BY <1>2, <2>1
  <2>5. LoaderTypeOK'
    BY <1>2, <2>1, <2>2, <2>4, LoaderTypesStay
  <2>6. Message(c)' = Message(c) /\ Message(c) \in 1..Len(log[c])
    BY <1>1, <1>4, <2>1 DEF Message
  <2>7. session' # "none"
    BY <1>3, <2>1
  <2>8. StoredBeforeMarked'
    BY <1>1, <1>3, <2>1, <2>2, <2>3, <2>6, <2>7, StoredStays
  <2>9. WritingIsTorn'
    BY <1>4, <2>1, <2>2, <2>3, WritingStays
  <2> QED
    BY <1>1, <2>1, <2>5, <2>8, <2>9
<1>14. ASSUME NEW c \in Claims, Mark(c)
       PROVE  LoaderInv' /\ log' = log /\ \A d \in Claims : committed[d] <= committed'[d]
  <2>1. /\ claim[c] = "stored" /\ claim' = [claim EXCEPT ![c] = "open"]
        /\ marked' = [marked EXCEPT ![c] = Message(c)]
        /\ UNCHANGED <<log, committed, copies, up, session, faults>>
    BY <1>14 DEF Mark
  <2>2. FilesOK(copies')
    BY <1>5, <2>1
  <2>3. /\ claim'[c] = "open" /\ \A d \in Claims \ {c} : claim'[d] = claim[d]
        /\ marked'[c] = Message(c) /\ \A d \in Claims \ {c} : marked'[d] = marked[d]
    BY <1>2, <2>1
  <2>4. claim' \in [Claims -> {"closed", "open", "writing", "stored"}] /\ marked' \in [Claims -> Nat]
    BY <1>1, <1>2, <2>1
  <2>5. LoaderTypeOK'
    BY <1>2, <2>1, <2>2, <2>4, LoaderTypesStay
  <2>6. session' # "none"
    BY <1>3, <2>1
  <2>7. StoredBeforeMarked'
    BY <1>1, <1>3, <2>1, <2>2, <2>3, <2>4, <2>6, StoredStays
  <2>8. WritingIsTorn'
    BY <1>4, <2>1, <2>3, WritingStays
  <2> QED
    BY <1>1, <2>1, <2>5, <2>7, <2>8
<1>15. ASSUME NEW c \in Claims, CreateFails(c) \/ ClaimEnds(c)
       PROVE  LoaderInv' /\ log' = log /\ \A d \in Claims : committed[d] <= committed'[d]
  <2>1. /\ session # "none" /\ session' = "ending" /\ copies' \in CutShort(c)
        /\ claim' = [claim EXCEPT ![c] = "closed"]
        /\ UNCHANGED <<log, committed, up, marked>>
    BY <1>15 DEF CreateFails, ClaimEnds
  <2>2. FilesOK(copies') /\ \A d \in Claims \ {c} : copies'[d] = copies[d]
    BY <2>1, CutShortFiles
  <2>3. claim'[c] = "closed" /\ \A d \in Claims \ {c} : claim'[d] = claim[d]
    BY <1>2, <2>1
  <2>4. claim' \in [Claims -> {"closed", "open", "writing", "stored"}]
    BY <1>2, <2>1
  <2>5. LoaderTypeOK'
    BY <1>2, <2>1, <2>2, <2>4, LoaderTypesStay
  <2>6. StoredBeforeMarked'
    BY <1>1, <1>3, <2>1, <2>2, <2>3, StoredStays
  <2>7. WritingIsTorn'
    BY <1>4, <2>1, <2>2, <2>3, WritingStays
  <2> QED
    BY <1>1, <2>1, <2>5, <2>6, <2>7
<1> QED
  BY <1>6, <1>7, <1>8, <1>9, <1>10, <1>11, <1>12, <1>13, <1>14, <1>15 DEF LoaderStep

-----------------------------------------------------------------------------
(* 2. Readers: what each kind of step leaves as it is *)

(* The logs grow, and so does what is committed.                            *)
Grows ==
  \A c \in Claims :
    /\ Len(log[c]) <= Len(log'[c]) /\ committed[c] <= committed'[c]
    /\ \A i \in 1..Len(log[c]) : log'[c][i] = log[c][i]

(* A step of the loader or of a producer, ...                               *)
Fills == LoaderInv' /\ Grows /\ RequestsHaveEvents' /\ client' \in {"idle", "storing"} /\ UNCHANGED batch

(* ... of the job ...                                                      *)
JobStep == StartJob \/ Overwrite \/ RenamePart \/ FinishJob \/ JobFails

(* ... and of the publisher.                                               *)
PublisherStep ==
  \/ StartPublisher \/ FinishPublisher
  \/ \E f \in publisher.left : PublishPart(f) \/ OpenFails(f) \/ PublishFails(f)

LEMMA LoaderSame ==
  ASSUME LoaderInv, UNCHANGED loader, faults' = faults \/ Fault
  PROVE  LoaderInv' /\ Grows
<1>1. UNCHANGED <<log, committed, copies, up, session, claim, marked>>
  BY DEF loader, consumer
<1>2. faults' \in 0..MaxFaults
  BY HdfsLoaderAssumption DEF LoaderInv, LoaderTypeOK, Fault
<1>3. LoaderTypeOK'
  BY <1>1, <1>2 DEF LoaderInv, LoaderTypeOK
<1>4. StoredBeforeMarked'
  BY <1>1 DEF LoaderInv, StoredBeforeMarked, Message
<1>5. WritingIsTorn'
  BY <1>1 DEF LoaderInv, WritingIsTorn, Message
<1>6. Grows
  <2>1. \A c \in Claims : Len(log[c]) \in Nat /\ committed[c] \in Nat
    BY LoaderTypes DEF LoaderInv
  <2> QED
    BY <1>1, <2>1 DEF Grows
<1> QED
  BY <1>3, <1>4, <1>5, <1>6 DEF LoaderInv

LEMMA MirroredGrows ==
  ASSUME LoaderInv, NEW c \in Claims, NEW r \in Held(c), Mirrored(c, r), faults' = faults
  PROVE  LoaderInv' /\ Grows /\ Len(log'[c]) = Len(log[c]) + 1
<1>1. committed' = committed
  BY DEF Mirrored
<1>2. \A d \in Claims : committed[d] \in Nat
  BY LoaderTypes DEF LoaderInv
<1> QED
  BY <1>1, <1>2, MirroredInv DEF Grows

LEMMA EventClaims ==
  "events" \in Claims /\ "products" \in Claims
BY DEF Claims

(* A request is stored with the offset of an event that is in the topic.    *)
LEMMA FillingSteps ==
  ASSUME LoaderInv, RequestsHaveEvents, client \in {"idle", "storing"}, Next
  PROVE  \/ Fills
         \/ /\ JobStep /\ UNCHANGED <<loader, client, requests, publisher>>
            /\ faults' = faults \/ Fault
         \/ /\ PublisherStep /\ UNCHANGED <<loader, client, requests, job, output, results>>
            /\ faults' = faults \/ Fault
<1> DEFINE n == Len(log["events"])
<1>1. n \in Nat
  BY LoaderTypes, EventClaims DEF LoaderInv
<1>2. requests \subseteq 1..n /\ (client = "storing" => n > 0)
  BY DEF RequestsHaveEvents
<1>3. ASSUME LoaderInv', Grows, requests' \subseteq requests \cup (IF n > 0 THEN {n} ELSE {}),
             client' = "storing" => client = "storing" \/ Len(log'["events"]) = n + 1
      PROVE  RequestsHaveEvents'
  <2>1. log'["events"] \in Seq(Held("events"))
    BY <1>3, EventClaims DEF LoaderInv, LoaderTypeOK
  <2>2. Len(log'["events"]) \in Nat
    BY <2>1, LenProperties
  <2>3. n <= Len(log'["events"])
    BY <1>3, EventClaims DEF Grows
  <2>4. requests' \subseteq 1..n
    BY <1>1, <1>2, <1>3
  <2> HIDE DEF n
  <2> QED
    BY <1>1, <1>2, <1>3, <2>2, <2>3, <2>4 DEF RequestsHaveEvents
<1>5. CASE LoaderStep /\ UNCHANGED others
  <2>1. faults' = faults \/ Fault
    BY <1>5 DEF LoaderStep, Join, Rebalance, AutoCommit, Release, Dies, Restart, BeginCreate, EndCreate,
                Mark, CreateFails, ClaimEnds
  <2>2. LoaderInv' /\ log' = log /\ \A c \in Claims : committed[c] <= committed'[c]
    BY <1>5, <2>1, LoaderStepInv
  <2>3. Grows
    <3>1. \A c \in Claims : Len(log[c]) \in Nat
      BY LoaderTypes DEF LoaderInv
    <3> QED
      BY <2>2, <3>1 DEF Grows
  <2>4. UNCHANGED <<client, requests, batch>>
    BY <1>5 DEF others
  <2>5. RequestsHaveEvents'
    BY <1>3, <2>2, <2>3, <2>4
  <2> QED
    BY <2>2, <2>3, <2>4, <2>5 DEF Fills
<1>6. ASSUME NEW v \in Records["products"], ProduceProduct(v)
      PROVE  Fills
  <2>1. Mirrored("products", v) /\ faults' = faults /\ UNCHANGED <<client, requests, batch>>
    BY <1>6 DEF ProduceProduct
  <2>2. v \in Held("products")
    BY DEF Held
  <2>3. LoaderInv' /\ Grows
    BY <2>1, <2>2, EventClaims, MirroredGrows
  <2>4. RequestsHaveEvents'
    BY <1>3, <2>1, <2>3
  <2> QED
    BY <2>1, <2>3, <2>4 DEF Fills
<1>7. ASSUME NEW e \in Records["events"], PublishEvent(e)
      PROVE  Fills
  <2>1. Mirrored("events", e) /\ faults' = faults /\ client' = "storing" /\ UNCHANGED <<requests, batch>>
    BY <1>7 DEF PublishEvent
  <2>2. e \in Held("events")
    BY DEF Held
  <2>3. LoaderInv' /\ Grows /\ Len(log'["events"]) = n + 1
    BY <2>1, <2>2, EventClaims, MirroredGrows
  <2>4. RequestsHaveEvents'
    BY <1>3, <2>1, <2>3
  <2> QED
    BY <2>1, <2>3, <2>4 DEF Fills
<1>8. CASE StoreRequest \/ StoreRequestFails
  <2>1. /\ client = "storing" /\ client' = "idle" /\ requests' \subseteq requests \cup {n}
        /\ UNCHANGED <<loader, batch>> /\ (faults' = faults \/ Fault)
    BY <1>8 DEF StoreRequest, StoreRequestFails
  <2>2. LoaderInv' /\ Grows
    BY <2>1, LoaderSame
  <2>3. RequestsHaveEvents'
    BY <1>2, <1>3, <2>1, <2>2
  <2> QED
    BY <2>1, <2>2, <2>3 DEF Fills
<1>9. CASE JobStep
  <2>1. UNCHANGED <<loader, client, requests, publisher>> /\ (faults' = faults \/ Fault)
    BY <1>9 DEF JobStep, StartJob, Overwrite, RenamePart, FinishJob, JobFails
  <2> QED
    BY <1>9, <2>1
<1>10. CASE PublisherStep
  <2>1. UNCHANGED <<loader, client, requests, job, output, results>> /\ (faults' = faults \/ Fault)
    BY <1>10 DEF PublisherStep, StartPublisher, FinishPublisher, PublishPart, OpenFails, PublishFails
  <2> QED
    BY <1>10, <2>1
<1> QED
  BY <1>5, <1>6, <1>7, <1>8, <1>9, <1>10 DEF Next, JobStep, PublisherStep

-----------------------------------------------------------------------------
(* 3. What a job recommends, given what the topics hold: p and e stand for   *)
(* log["products"] and log["events"].                                      *)

Recommendation == [user : Users, version : Versions]

Read(row, p) == IF row = NullRow THEN NullVersion ELSE p[row[1]]

Asked(u, rows, e) ==
  LET searches == {r[1] : r \in {s \in rows : e[s[1]].user = u /\ e[s[1]].query # NoQuery}} IN
  IF searches = {} THEN NoQuery
  ELSE e[CHOOSE i \in searches : \A j \in searches : j <= i].query

Ahead(q, S, r, p) == {s \in S : Before(q, Read(s, p), Read(r, p))}

Top(q, S, p) == {r \in S : Cardinality(Ahead(q, S, r, p)) < TopN}

UsersOf(rows, e) == {e[r[1]].user : r \in rows}

For(u, S, rows, p, e) == {[user |-> u, version |-> Read(r, p)] : r \in Top(Asked(u, rows, e), S, p)}

LEMMA RecommendedForm ==
  ASSUME NEW S, NEW rows
  PROVE  Recommended(S, rows) =
           UNION {For(u, S, rows, log["products"], log["events"]) : u \in UsersOf(rows, log["events"])}
BY DEF Recommended, For, Top, Ahead, Asked, LastQuery, Read, Version, UsersOf

LEMMA RecommendedIff ==
  ASSUME NEW S, NEW rows, NEW x
  PROVE  x \in Recommended(S, rows) <=>
           \E u \in UsersOf(rows, log["events"]) :
             \E r \in Top(Asked(u, rows, log["events"]), S, log["products"]) :
               x = [user |-> u, version |-> Read(r, log["products"])]
BY RecommendedForm DEF For

LEMMA RecommendedType ==
  ASSUME LoaderInv, NEW S, NEW rows,
         S \subseteq ((1..Len(log["products"])) \X Nat) \cup {NullRow},
         rows \subseteq (1..Len(log["events"])) \X Nat
  PROVE  Recommended(S, rows) \in SUBSET Recommendation
<1> SUFFICES ASSUME NEW x \in Recommended(S, rows) PROVE x \in Recommendation
  OBVIOUS
<1>1. PICK u \in UsersOf(rows, log["events"]) :
        \E r \in Top(Asked(u, rows, log["events"]), S, log["products"]) :
          x = [user |-> u, version |-> Read(r, log["products"])]
  BY RecommendedIff
<1>2. PICK r \in S : x = [user |-> u, version |-> Read(r, log["products"])]
  BY <1>1 DEF Top
<1>3. u \in Users
  <2>1. PICK t \in rows : u = log["events"][t[1]].user
    BY DEF UsersOf
  <2>2. t[1] \in 1..Len(log["events"])
    OBVIOUS
  <2>3. log["events"][t[1]] \in Held("events")
    BY <2>2, LoaderTypes, EventClaims, ElementOfSeq DEF LoaderInv
  <2> QED
    BY <2>1, <2>3 DEF Users
<1>4. Read(r, log["products"]) \in Versions
  <2>1. CASE r = NullRow
    BY <2>1 DEF Read, Versions
  <2>2. CASE r # NullRow
    <3>1. r[1] \in 1..Len(log["products"])
      BY <2>2
    <3>2. log["products"][r[1]] \in Held("products")
      BY <3>1, LoaderTypes, EventClaims, ElementOfSeq DEF LoaderInv
    <3> QED
      BY <2>2, <3>2 DEF Read, Versions
  <2> QED
    BY <2>1, <2>2
<1> QED
  BY <1>2, <1>3, <1>4 DEF Recommendation

(* The rows of a topic are of its messages, and every committed message has  *)
(* one.                                                                    *)
LEMMA RowsOfCommitted ==
  ASSUME LoaderInv, NEW c \in Claims
  PROVE  /\ Rows(c) \subseteq (1..Len(log[c])) \X Nat /\ IsFiniteSet(Rows(c))
         /\ \A i \in 1..committed[c] : \E row \in Rows(c) : row[1] = i
<1>1. Rows(c) \subseteq (1..Len(log[c])) \X Nat
  BY DEF Rows
<1>2. ASSUME NEW i \in 1..committed[c]
      PROVE  \E row \in Rows(c) : row[1] = i
  <2>1. i \in 1..Len(log[c]) /\ copies[c][i].whole > 0
    <3>1. committed[c] <= Len(log[c]) /\ committed[c] \in Nat /\ Len(log[c]) \in Nat
      BY LoaderTypes DEF LoaderInv, StoredBeforeMarked
    <3>2. i \in 1..Len(log[c])
      BY <3>1
    <3> QED
      BY <3>2 DEF LoaderInv, StoredBeforeMarked
  <2>2. copies[c][i].whole \in Nat
    BY <2>1, LoaderTypes DEF LoaderInv, Copy
  <2>3. <<i, 1>> \in Rows(c)
    <3>1. 1 \in 1..copies[c][i].whole
      BY <2>1, <2>2
    <3> QED
      BY <2>1, <3>1 DEF Rows
  <2> QED
    BY <2>3
<1>3. IsFiniteSet(Rows(c))
  <2> DEFINE n == Len(log[c])
             files(i) == {<<i, k>> : k \in 1..copies[c][i].whole}
             f == [i \in 1..n |-> files(i)]
             all == {files(i) : i \in 1..n}
  <2>1. n \in Nat /\ \A i \in 1..n : copies[c][i].whole \in Nat
    BY LoaderTypes DEF LoaderInv, Copy
  <2>2. ASSUME NEW i \in 1..n
        PROVE  IsFiniteSet(files(i))
    <3> DEFINE w == copies[c][i].whole
               g == [k \in 1..w |-> <<i, k>>]
    <3>1. IsFiniteSet(1..w)
      <4>1. w \in Int
        BY <2>1
      <4> HIDE DEF w
      <4> QED
        BY <4>1, FS_Interval
    <3>2. g \in Surjection(1..w, files(i))
      BY DEF Surjection
    <3> HIDE DEF g, files
    <3> QED
      BY <3>1, <3>2, FS_Surjection
  <2>3. IsFiniteSet(1..n)
    <3>1. n \in Int
      BY <2>1
    <3> HIDE DEF n
    <3> QED
      BY <3>1, FS_Interval
  <2>4. f \in Surjection(1..n, all)
    <3> HIDE DEF files
    <3> QED
      BY DEF Surjection
  <2>5. IsFiniteSet(all)
    <3> HIDE DEF f, all
    <3> QED
      BY <2>3, <2>4, FS_Surjection
  <2>6. \A T \in all : IsFiniteSet(T)
    BY <2>2
  <2>7. IsFiniteSet(UNION all)
    <3> HIDE DEF all
    <3> QED
      BY <2>5, <2>6, FS_UNION
  <2>8. Rows(c) = UNION all
    BY DEF Rows
  <2> QED
    BY <2>7, <2>8
<1> QED
  BY <1>1, <1>2, <1>3

-----------------------------------------------------------------------------
(* Ranking.  The first n of a finite set S are those with fewer than n       *)
(* elements before them in a strict total order R, a set of pairs.          *)

StrictOrder(R, S) ==
  /\ \A x \in S : <<x, x>> \notin R
  /\ \A x, y, z \in S : <<x, y>> \in R /\ <<y, z>> \in R => <<x, z>> \in R
  /\ \A x, y \in S : x # y => <<x, y>> \in R \/ <<y, x>> \in R

Below(R, S, x) == {y \in S : <<y, x>> \in R}

First(R, S, n) == {x \in S : Cardinality(Below(R, S, x)) < n}

LEMMA RankIncreases ==
  ASSUME NEW R, NEW S, IsFiniteSet(S), StrictOrder(R, S), NEW x \in S, NEW y \in S
  PROVE  /\ Cardinality(Below(R, S, x)) \in Nat
         /\ Cardinality(Below(R, S, x)) < Cardinality(S)
         /\ <<x, y>> \in R => Cardinality(Below(R, S, x)) < Cardinality(Below(R, S, y))
<1>1. \A z \in S : Below(R, S, z) \subseteq S /\ z \notin Below(R, S, z)
  BY DEF StrictOrder, Below
<1>2. \A z \in S : IsFiniteSet(Below(R, S, z)) /\ Cardinality(Below(R, S, z)) \in Nat
  BY <1>1, FS_Subset, FS_CardinalityType
<1>3. \A z \in S : Cardinality(Below(R, S, z)) < Cardinality(S)
  <2> TAKE z \in S
  <2>1. Below(R, S, z) \subseteq S /\ Below(R, S, z) # S
    BY <1>1
  <2>2. Cardinality(S) \in Nat /\ Cardinality(Below(R, S, z)) <= Cardinality(S)
    BY <2>1, FS_Subset, FS_CardinalityType
  <2>3. Cardinality(S) = Cardinality(Below(R, S, z)) => S = Below(R, S, z)
    BY <2>1, FS_Subset
  <2> QED
    BY <1>2, <2>1, <2>2, <2>3
<1>4. ASSUME <<x, y>> \in R
      PROVE  Cardinality(Below(R, S, x)) < Cardinality(Below(R, S, y))
  <2>1. Below(R, S, x) \subseteq Below(R, S, y)
    BY <1>4 DEF StrictOrder, Below
  <2>2. x \in Below(R, S, y) /\ x \notin Below(R, S, x)
    BY <1>1, <1>4 DEF Below
  <2>3. /\ Cardinality(Below(R, S, x)) <= Cardinality(Below(R, S, y))
        /\ Cardinality(Below(R, S, y)) = Cardinality(Below(R, S, x)) => Below(R, S, y) = Below(R, S, x)
    BY <1>2, <2>1, FS_Subset
  <2> QED
    BY <1>2, <2>2, <2>3
<1> QED
  BY <1>2, <1>3, <1>4

(* Those left out are behind all that are in.                               *)
LEMMA FirstAreAhead ==
  ASSUME NEW R, NEW S, IsFiniteSet(S), StrictOrder(R, S), NEW n \in Nat,
         NEW x \in First(R, S, n), NEW y \in S \ First(R, S, n)
  PROVE  <<x, y>> \in R
<1>1. x \in S /\ x # y /\ Cardinality(Below(R, S, x)) < n /\ ~(Cardinality(Below(R, S, y)) < n)
  BY DEF First
<1>2. <<x, y>> \in R \/ <<y, x>> \in R
  BY <1>1 DEF StrictOrder
<1>3. Cardinality(Below(R, S, x)) \in Nat /\ Cardinality(Below(R, S, y)) \in Nat
  BY <1>1, RankIncreases
<1>4. <<y, x>> \in R => Cardinality(Below(R, S, y)) < Cardinality(Below(R, S, x))
  BY <1>1, RankIncreases
<1> QED
  BY <1>1, <1>2, <1>3, <1>4

(* There are n of them, or all: every rank is taken once.                   *)
LEMMA FirstAreEnough ==
  ASSUME NEW R, NEW S, IsFiniteSet(S), StrictOrder(R, S), NEW n \in Nat
  PROVE  /\ Cardinality(First(R, S, n)) = n \/ First(R, S, n) = S
         /\ n > 0 /\ S # {} => First(R, S, n) # {}
<1> DEFINE k == Cardinality(S)
           rank == [x \in S |-> Cardinality(Below(R, S, x))]
<1>1. k \in Nat
  BY FS_CardinalityType
<1>2. rank \in [S -> 0..(k - 1)]
  <2>1. \A x \in S : rank[x] \in Nat /\ rank[x] < k
    BY RankIncreases
  <2> HIDE DEF k
  <2>2. \A x \in S : rank[x] \in 0..(k - 1)
    BY <1>1, <2>1
  <2> QED
    BY <2>2
<1>3. \A x, y \in S : x # y => rank[x] # rank[y]
  <2> SUFFICES ASSUME NEW x \in S, NEW y \in S, x # y PROVE rank[x] # rank[y]
    OBVIOUS
  <2>1. <<x, y>> \in R \/ <<y, x>> \in R
    BY DEF StrictOrder
  <2>2. rank[x] \in Nat /\ rank[y] \in Nat
    BY RankIncreases
  <2>3. rank[x] < rank[y] \/ rank[y] < rank[x]
    BY <2>1, RankIncreases
  <2> HIDE DEF rank
  <2> QED
    BY <2>2, <2>3
<1>4. rank \in Injection(S, 0..(k - 1))
  BY <1>2, <1>3 DEF Injection, IsInjective
<1>5. IsFiniteSet(0..(k - 1)) /\ Cardinality(0..(k - 1)) = k
  <2> HIDE DEF k
  <2> QED
    BY <1>1, FS_Interval
<1>6. rank \in Surjection(S, 0..(k - 1))
  BY <1>4, <1>5, FS_Injection
<1>7. \A i \in 0..(k - 1) : \E x \in S : rank[x] = i
  BY <1>6 DEF Surjection
<1>8. First(R, S, n) = {x \in S : rank[x] < n}
  BY DEF First
<1> DEFINE top == {x \in S : rank[x] < n}
<1> HIDE DEF rank, k
<1>9. CASE n >= k
  <2>1. \A x \in S : rank[x] \in 0..(k - 1)
    BY <1>2
  <2>2. top = S
    BY <1>1, <1>9, <2>1
  <2> QED
    BY <1>8, <2>2
<1>10. CASE n < k
  <2> DEFINE f == [x \in top |-> rank[x]]
  <2>1. \A x \in top : rank[x] \in 0..(n - 1)
    BY <1>1, <1>2
  <2>2. f \in [top -> 0..(n - 1)]
    BY <2>1
  <2>3. \A i \in 0..(n - 1) : \E x \in top : f[x] = i
    <3> TAKE i \in 0..(n - 1)
    <3>1. i \in 0..(k - 1) /\ i < n
      BY <1>1, <1>10
    <3>2. PICK x \in S : rank[x] = i
      BY <1>7, <3>1
    <3> QED
      BY <3>1, <3>2
  <2>4. f \in Surjection(top, 0..(n - 1))
    BY <2>2, <2>3 DEF Surjection
  <2>5. \A x, y \in top : f[x] = f[y] => x = y
    BY <1>3
  <2>6. f \in Injection(top, 0..(n - 1))
    BY <2>2, <2>5 DEF Injection, IsInjective
  <2>7. IsFiniteSet(0..(n - 1)) /\ Cardinality(0..(n - 1)) = n
    BY FS_Interval
  <2> HIDE DEF f, top
  <2>8. Cardinality(top) = n
    BY <2>4, <2>6, <2>7, FS_Injection
  <2>9. n > 0 => top # {}
    <3> SUFFICES ASSUME n > 0 PROVE top # {}
      OBVIOUS
    <3>1. 0 \in 0..(n - 1)
      OBVIOUS
    <3> QED
      BY <2>3, <3>1
  <2> QED
    BY <1>8, <2>8, <2>9 DEF top
<1> QED
  BY <1>1, <1>9, <1>10

(* A finite set of numbers has a last one.                                  *)
LEMMA FiniteHasLast ==
  ASSUME NEW T, T \subseteq Nat, IsFiniteSet(T), T # {}
  PROVE  \E x \in T : \A y \in T : y <= x
<1> DEFINE R == {d \in T \X T : d[1] > d[2]}
<1>1. StrictOrder(R, T)
  <2>1. \A x, y \in T : <<x, y>> \in R <=> x > y
    OBVIOUS
  <2> HIDE DEF R
  <2> QED
    BY <2>1 DEF StrictOrder
<1>2. First(R, T, 1) # {}
  <2> HIDE DEF R
  <2> QED
    BY <1>1, FirstAreEnough
<1>3. PICK x \in T : Cardinality(Below(R, T, x)) < 1
  BY <1>2 DEF First
<1>4. Below(R, T, x) = {}
  <2>1. IsFiniteSet(Below(R, T, x))
    BY FS_Subset DEF Below
  <2>2. Cardinality(Below(R, T, x)) \in Nat
    BY <2>1, FS_CardinalityType
  <2>3. Cardinality(Below(R, T, x)) = 0
    BY <1>3, <2>2
  <2> QED
    BY <2>1, <2>3, FS_EmptySet
<1>5. \A y \in T : ~(y > x)
  BY <1>4 DEF Below
<1> QED
  BY <1>5

(* A set of one element has no two, and is not empty.                       *)
LEMMA OneElement ==
  ASSUME NEW T, IsFiniteSet(T), Cardinality(T) = 1
  PROVE  T # {} /\ \A x, y \in T : x = y
BY FS_Singleton

-----------------------------------------------------------------------------
(* 4. A job recommends what the messages it read call for *)

(* What Analytics assumes of the records holds of the topic.                *)
Products(p) ==
  /\ Len(p) \in Nat
  /\ \A i \in 1..Len(p) : p[i].product \in Nat \ {0} /\ p[i].updated \in Nat /\ p[i].available \in Int

LEMMA ProductsOfTheLog ==
  ASSUME LoaderInv
  PROVE  Products(log["products"])
<1>1. log["products"] \in Seq(Held("products")) /\ Len(log["products"]) \in Nat
  BY LoaderTypes, EventClaims DEF LoaderInv
<1>2. \A i \in 1..Len(log["products"]) : log["products"][i] \in Held("products")
  BY <1>1, ElementOfSeq
<1> QED
  BY <1>1, <1>2, AnalyticsAssumption DEF Products

(* Between versions of different products one is ranked before the other.   *)
LEMMA BeforeOrders ==
  ASSUME NEW q, NEW u, NEW v, NEW w,
         u.product \in Nat, v.product \in Nat, w.product \in Nat,
         u.available \in Int, v.available \in Int, w.available \in Int
  PROVE  /\ ~Before(q, u, u)
         /\ Before(q, u, v) /\ Before(q, v, w) => Before(q, u, w)
         /\ u.product # v.product => Before(q, u, v) \/ Before(q, v, u)
<1> DEFINE m(x) == IF <<q, x.name>> \in Matches THEN 1 ELSE 0
<1>1. \A x, y : Before(q, x, y) <=>
        \/ m(x) > m(y)
        \/ m(x) = m(y) /\ x.available > y.available
        \/ m(x) = m(y) /\ x.available = y.available /\ x.product < y.product
  BY DEF Before
<1>2. \A x : m(x) \in Int
  OBVIOUS
<1> HIDE DEF m
<1> QED
  BY <1>1, <1>2

(* The last search does not depend on how many files hold an event.         *)
LEMMA AskedOfEvents ==
  ASSUME NEW u, NEW rows, NEW e
  PROVE  Asked(u, rows, e) = Asked(u, {<<i, 1>> : i \in {r[1] : r \in rows}}, e)
<1> DEFINE once == {<<i, 1>> : i \in {r[1] : r \in rows}}
           a == {r[1] : r \in {s \in rows : e[s[1]].user = u /\ e[s[1]].query # NoQuery}}
           b == {r[1] : r \in {s \in once : e[s[1]].user = u /\ e[s[1]].query # NoQuery}}
<1>1. a \subseteq b
  <2> SUFFICES ASSUME NEW r \in rows, e[r[1]].user = u, e[r[1]].query # NoQuery PROVE r[1] \in b
    OBVIOUS
  <2>1. <<r[1], 1>> \in once
    OBVIOUS
  <2>2. <<r[1], 1>>[1] = r[1]
    OBVIOUS
  <2> HIDE DEF once
  <2> QED
    BY <2>1, <2>2
<1>2. b \subseteq a
  OBVIOUS
<1>3. a = b
  BY <1>1, <1>2
<1> DEFINE last(X) == IF X = {} THEN NoQuery ELSE e[CHOOSE i \in X : \A j \in X : j <= i].query
<1>4. Asked(u, rows, e) = last(a) /\ Asked(u, once, e) = last(b)
  BY Zenon DEF Asked
<1> HIDE DEF a, b, last
<1> QED
  BY <1>3, <1>4, Zenon

Best(rows, p) ==
  {r \in rows : \A s \in rows :
     Read(s, p).product = Read(r, p).product => Read(s, p).updated <= Read(r, p).updated}

(* One row of every product, of its newest version.                         *)
Picked(S, rows, p) ==
  /\ S \subseteq Best(rows, p)
  /\ \A r \in Best(rows, p) : Cardinality({s \in S : Read(s, p).product = Read(r, p).product}) = 1

LEMMA NewestForm ==
  ASSUME NEW rows, NEW S \in Newest(rows)
  PROVE  Picked(S, rows, log["products"])
BY DEF Newest, Picked, Best, Read, Version

LEMMA ReadRow ==
  ASSUME NEW p, Products(p), NEW rows, rows \subseteq (1..Len(p)) \X Nat, NEW r \in rows
  PROVE  /\ r[1] \in 1..Len(p) /\ Read(r, p) = p[r[1]]
         /\ Read(r, p).product \in Nat /\ Read(r, p).updated \in Nat /\ Read(r, p).available \in Int
<1>1. r[1] \in 1..Len(p)
  OBVIOUS
<1>2. r # NullRow
  BY <1>1 DEF NullRow
<1> QED
  BY <1>1, <1>2 DEF Read, Products

(* Every product that has a row has a newest one.                           *)
LEMMA BestExists ==
  ASSUME NEW p, Products(p), NEW rows, rows \subseteq (1..Len(p)) \X Nat, NEW r \in rows
  PROVE  \E b \in Best(rows, p) : Read(b, p).product = Read(r, p).product
<1> DEFINE I == {i \in 1..Len(p) : \E s \in rows : s[1] = i /\ Read(s, p).product = Read(r, p).product}
           f == [i \in I |-> p[i].updated]
           U == {f[i] : i \in I}
<1>1. IsFiniteSet(I)
  <2>1. IsFiniteSet(1..Len(p))
    BY FS_Interval DEF Products
  <2> QED
    BY <2>1, FS_Subset
<1>2. r[1] \in I
  BY ReadRow
<1>3. U \subseteq Nat /\ U # {}
  BY <1>2 DEF Products
<1>4. f \in Surjection(I, U)
  BY DEF Surjection
<1>5. IsFiniteSet(U)
  BY <1>1, <1>4, FS_Surjection
<1> HIDE DEF f, U, I
<1>6. PICK m \in U : \A n \in U : n <= m
  BY <1>3, <1>5, FiniteHasLast
<1>7. PICK i \in I : m = f[i]
  BY DEF U
<1>8. PICK b \in rows : b[1] = i /\ Read(b, p).product = Read(r, p).product
  BY DEF I
<1>9. Read(b, p).updated = m
  BY <1>7, <1>8, ReadRow DEF f
<1>10. ASSUME NEW s \in rows, Read(s, p).product = Read(b, p).product
       PROVE  Read(s, p).updated <= Read(b, p).updated
  <2>1. s[1] \in 1..Len(p) /\ Read(s, p) = p[s[1]]
    BY ReadRow
  <2>2. s[1] \in I
    BY <1>8, <1>10, <2>1 DEF I
  <2>3. f[s[1]] \in U /\ f[s[1]] = p[s[1]].updated
    BY <2>2 DEF U, f
  <2> QED
    BY <1>6, <1>9, <2>1, <2>3
<1> QED
  BY <1>8, <1>10 DEF Best

LEMMA PickedFacts ==
  ASSUME NEW p, Products(p), NEW rows, rows \subseteq (1..Len(p)) \X Nat, IsFiniteSet(rows),
         NEW S, Picked(S, rows, p)
  PROVE  /\ S \subseteq rows /\ IsFiniteSet(S)
         /\ \A s, t \in S : Read(s, p).product = Read(t, p).product => s = t
         /\ \A r \in rows : \E s \in S : Read(s, p).product = Read(r, p).product
<1>1. S \subseteq Best(rows, p) /\ S \subseteq rows
  BY DEF Picked, Best
<1>2. IsFiniteSet(S)
  BY <1>1, FS_Subset
<1>3. ASSUME NEW b \in Best(rows, p)
      PROVE  /\ \E s \in S : Read(s, p).product = Read(b, p).product
             /\ \A s, t \in S : Read(s, p).product = Read(b, p).product
                                  /\ Read(t, p).product = Read(b, p).product => s = t
  <2> DEFINE same == {x \in S : Read(x, p).product = Read(b, p).product}
  <2>1. Cardinality(same) = 1
    BY DEF Picked
  <2>2. IsFiniteSet(same)
    BY <1>2, FS_Subset
  <2>3. same # {} /\ \A x, y \in same : x = y
    <3> HIDE DEF same
    <3> QED
      BY <2>1, <2>2, OneElement
  <2> QED
    BY <2>3
<1>4. \A s, t \in S : Read(s, p).product = Read(t, p).product => s = t
  BY <1>1, <1>3
<1>5. \A r \in rows : \E s \in S : Read(s, p).product = Read(r, p).product
  <2> TAKE r \in rows
  <2>1. PICK b \in Best(rows, p) : Read(b, p).product = Read(r, p).product
    BY BestExists
  <2> QED
    BY <1>3, <2>1
<1> QED
  BY <1>1, <1>2, <1>4, <1>5

(* The order in which a query ranks the rows picked.                        *)
Ranked(q, S, p) == {d \in S \X S : Before(q, Read(d[1], p), Read(d[2], p))}

LEMMA PickedAreOrdered ==
  ASSUME NEW p, Products(p), NEW rows, rows \subseteq (1..Len(p)) \X Nat, IsFiniteSet(rows),
         NEW S, Picked(S, rows, p), NEW q
  PROVE  /\ StrictOrder(Ranked(q, S, p), S)
         /\ Top(q, S, p) = First(Ranked(q, S, p), S, TopN)
<1>1. \A s, t \in S : <<s, t>> \in Ranked(q, S, p) <=> Before(q, Read(s, p), Read(t, p))
  BY DEF Ranked
<1>2. /\ \A s \in S : Read(s, p).product \in Nat /\ Read(s, p).available \in Int
      /\ \A s, t \in S : s # t => Read(s, p).product # Read(t, p).product
  BY PickedFacts, ReadRow
<1>3. StrictOrder(Ranked(q, S, p), S)
  <2>1. \A s \in S : ~Before(q, Read(s, p), Read(s, p))
    BY <1>2, BeforeOrders
  <2>2. \A r, s, t \in S : Before(q, Read(r, p), Read(s, p)) /\ Before(q, Read(s, p), Read(t, p))
                             => Before(q, Read(r, p), Read(t, p))
    BY <1>2, BeforeOrders
  <2>3. \A s, t \in S : s # t => Before(q, Read(s, p), Read(t, p)) \/ Before(q, Read(t, p), Read(s, p))
    BY <1>2, BeforeOrders
  <2> QED
    BY <1>1, <2>1, <2>2, <2>3 DEF StrictOrder
<1>4. \A r \in S : Ahead(q, S, r, p) = Below(Ranked(q, S, p), S, r)
  BY <1>1 DEF Ahead, Below
<1> QED
  BY <1>3, <1>4 DEF Top, First

(* What the messages P and E of the two topics call for: OutputIsCurrent,    *)
(* said of the rows of the output and of what the topics hold.              *)
Offered(versions, chosen) ==
  \A v \in versions : Cardinality({w \in chosen : w.product = v.product}) = 1

BestOf(mine, chosen, q) ==
  /\ mine \subseteq chosen
  /\ Cardinality(mine) = TopN \/ mine = chosen
  /\ \A v \in mine, w \in chosen \ mine : Before(q, v, w)

Mine(u, recommended) == {r.version : r \in {s \in recommended : s.user = u}}

CalledFor(P, E, recommended, p, e) ==
  LET versions == {p[i] : i \in P}
      newest == {v \in versions : \A w \in versions : w.product = v.product => w.updated <= v.updated} IN
  /\ {r.user : r \in recommended} = {e[i].user : i \in E}
  /\ \E chosen \in SUBSET newest :
       /\ Offered(versions, chosen)
       /\ \A u \in {r.user : r \in recommended} :
            BestOf(Mine(u, recommended), chosen, Asked(u, {<<i, 1>> : i \in E}, e))

(* The best of the versions picked, for a query.                            *)
LEMMA TopIsBest ==
  ASSUME NEW p, Products(p), NEW rows, rows \subseteq (1..Len(p)) \X Nat, IsFiniteSet(rows),
         NEW S, Picked(S, rows, p), NEW q
  PROVE  BestOf({Read(r, p) : r \in Top(q, S, p)}, {Read(r, p) : r \in S}, q)
<1> DEFINE T == Top(q, S, p)
           mine == {Read(r, p) : r \in T}
           chosen == {Read(r, p) : r \in S}
<1>1. /\ StrictOrder(Ranked(q, S, p), S) /\ T = First(Ranked(q, S, p), S, TopN)
      /\ IsFiniteSet(S) /\ TopN \in Nat
  BY PickedAreOrdered, PickedFacts, AnalyticsAssumption
<1>2. Cardinality(T) = TopN \/ T = S
  <2> HIDE DEF T
  <2> QED
    BY <1>1, FirstAreEnough
<1>3. T \subseteq S /\ IsFiniteSet(T)
  BY <1>1, FS_Subset DEF Top
<1>4. \A s, t \in S : Read(s, p) = Read(t, p) => s = t
  BY PickedFacts
<1> HIDE DEF T
<1>5. Cardinality(mine) = Cardinality(T)
  <2> DEFINE f == [r \in T |-> Read(r, p)]
  <2>1. f \in Surjection(T, mine)
    BY DEF Surjection
  <2>2. f \in Injection(T, mine)
    BY <1>3, <1>4 DEF Injection, IsInjective
  <2> HIDE DEF f, mine
  <2> QED
    BY <1>3, <2>1, <2>2, FS_Surjection
<1>6. mine \subseteq chosen
  BY <1>3
<1>7. ASSUME NEW v \in mine, NEW w \in chosen \ mine
      PROVE  Before(q, v, w)
  <2>1. PICK x \in T : v = Read(x, p)
    OBVIOUS
  <2>2. PICK y \in S : w = Read(y, p)
    OBVIOUS
  <2>3. y \notin T
    BY <2>2
  <2>4. <<x, y>> \in Ranked(q, S, p)
    BY <1>1, <2>2, <2>3, FirstAreAhead
  <2> QED
    BY <2>1, <2>2, <2>4 DEF Ranked
<1>8. Cardinality(mine) = TopN \/ mine = chosen
  BY <1>2, <1>5
<1> HIDE DEF mine, chosen
<1>9. BestOf(mine, chosen, q)
  BY <1>6, <1>7, <1>8 DEF BestOf
<1> QED
  BY <1>9 DEF mine, chosen, T

(* What the job writes, without torn files of products.                     *)
LEMMA JobRecommends ==
  ASSUME LoaderInv,
         NEW rows, rows \subseteq (1..Len(log["products"])) \X Nat, IsFiniteSet(rows), rows # {},
         NEW events, events \subseteq (1..Len(log["events"])) \X Nat,
         NEW S \in Newest(rows)
  PROVE  CalledFor({r[1] : r \in rows}, {r[1] : r \in events}, Recommended(S, events),
                   log["products"], log["events"])
<1> DEFINE p == log["products"]
           e == log["events"]
           P == {r[1] : r \in rows}
           E == {r[1] : r \in events}
           recommended == Recommended(S, events)
           versions == {p[i] : i \in P}
           newest == {v \in versions : \A w \in versions : w.product = v.product => w.updated <= v.updated}
           chosen == {Read(r, p) : r \in S}
<1>1. Products(p) /\ Picked(S, rows, p)
  BY ProductsOfTheLog, NewestForm
<1>2. \A x : x \in recommended <=>
        \E u \in UsersOf(events, e) : \E r \in Top(Asked(u, events, e), S, p) :
          x = [user |-> u, version |-> Read(r, p)]
  BY RecommendedIff
<1> HIDE DEF recommended
<1>3. UsersOf(events, e) = {e[i].user : i \in E}
  BY DEF UsersOf
<1> HIDE DEF p, e
<1>4. /\ S \subseteq rows /\ IsFiniteSet(S)
      /\ \A s, t \in S : Read(s, p).product = Read(t, p).product => s = t
      /\ \A r \in rows : \E s \in S : Read(s, p).product = Read(r, p).product
  BY <1>1, PickedFacts DEF p
<1>5. \A r \in rows : r[1] \in P /\ Read(r, p) = p[r[1]]
  BY <1>1, ReadRow DEF p
<1>6. versions = {Read(r, p) : r \in rows}
  <2>1. versions = {p[r[1]] : r \in rows}
    OBVIOUS
  <2> QED
    BY <1>5, <2>1
<1> HIDE DEF versions
<1>7. ASSUME NEW u \in UsersOf(events, e)
      PROVE  Top(Asked(u, events, e), S, p) # {}
  <2> DEFINE q == Asked(u, events, e)
  <2> HIDE DEF q
  <2>1. StrictOrder(Ranked(q, S, p), S) /\ Top(q, S, p) = First(Ranked(q, S, p), S, TopN)
    BY <1>1, PickedAreOrdered DEF p
  <2>2. S # {}
    BY <1>4
  <2>3. TopN \in Nat /\ TopN > 0
    BY AnalyticsAssumption
  <2> QED
    BY <1>4, <2>1, <2>2, <2>3, FirstAreEnough DEF q
<1>8. {r.user : r \in recommended} = UsersOf(events, e)
  <2>1. \A r \in recommended : r.user \in UsersOf(events, e)
    BY <1>2
  <2>2. ASSUME NEW u \in UsersOf(events, e)
        PROVE  u \in {r.user : r \in recommended}
    <3>1. PICK t \in Top(Asked(u, events, e), S, p) : TRUE
      BY <1>7
    <3>2. [user |-> u, version |-> Read(t, p)] \in recommended
      BY <1>2
    <3> QED
      BY <3>2
  <2> QED
    BY <2>1, <2>2
<1>9. chosen \in SUBSET newest
  <2> SUFFICES ASSUME NEW s \in S PROVE Read(s, p) \in newest
    OBVIOUS
  <2>1. s \in Best(rows, p)
    BY <1>1 DEF Picked
  <2>2. \A r \in rows : Read(r, p).product = Read(s, p).product => Read(r, p).updated <= Read(s, p).updated
    BY <2>1 DEF Best
  <2> QED
    BY <1>4, <1>6, <2>2
<1>10. Offered(versions, chosen)
  <2> SUFFICES ASSUME NEW v \in versions
               PROVE  Cardinality({w \in chosen : w.product = v.product}) = 1
    BY DEF Offered
  <2> PICK r \in rows : v = Read(r, p)
    BY <1>6
  <2>1. PICK s \in S : Read(s, p).product = v.product
    BY <1>4
  <2>2. {w \in chosen : w.product = v.product} = {Read(s, p)}
    BY <1>4, <2>1
  <2> QED
    BY <2>2, FS_Singleton
<1>11. ASSUME NEW u \in UsersOf(events, e)
       PROVE  BestOf(Mine(u, recommended), chosen, Asked(u, {<<i, 1>> : i \in E}, e))
  <2> DEFINE q == Asked(u, events, e)
  <2>1. Mine(u, recommended) = {Read(r, p) : r \in Top(q, S, p)}
    <3>1. ASSUME NEW r \in Top(q, S, p)
          PROVE  Read(r, p) \in Mine(u, recommended)
      <4>1. [user |-> u, version |-> Read(r, p)] \in recommended
        BY <1>2
      <4> QED
        BY <4>1 DEF Mine
    <3>2. ASSUME NEW r \in recommended, r.user = u
          PROVE  \E t \in Top(q, S, p) : r.version = Read(t, p)
      BY <1>2, <3>2
    <3> QED
      BY <3>1, <3>2 DEF Mine
  <2>2. Asked(u, {<<i, 1>> : i \in E}, e) = q
    BY AskedOfEvents
  <2> HIDE DEF q, E
  <2>3. BestOf({Read(r, p) : r \in Top(q, S, p)}, chosen, q)
    BY <1>1, TopIsBest DEF p
  <2> QED
    BY <2>1, <2>2, <2>3
<1> HIDE DEF chosen, E
<1>12. CalledFor(P, E, recommended, p, e)
  BY <1>3, <1>8, <1>9, <1>10, <1>11 DEF CalledFor, versions
<1> QED
  BY <1>12 DEF p, e, P, E, recommended

(* Later messages change nothing of what earlier ones call for.             *)
LEMMA AskedStays ==
  ASSUME NEW e, NEW f, Len(e) \in Nat, \A i \in 1..Len(e) : f[i] = e[i],
         NEW E, E \subseteq 1..Len(e), NEW u
  PROVE  Asked(u, {<<i, 1>> : i \in E}, f) = Asked(u, {<<i, 1>> : i \in E}, e)
<1> DEFINE rows == {<<i, 1>> : i \in E}
           a == {r[1] : r \in {s \in rows : e[s[1]].user = u /\ e[s[1]].query # NoQuery}}
           b == {r[1] : r \in {s \in rows : f[s[1]].user = u /\ f[s[1]].query # NoQuery}}
           last(X, g) == IF X = {} THEN NoQuery ELSE g[CHOOSE i \in X : \A j \in X : j <= i].query
<1>1. Asked(u, rows, e) = last(a, e) /\ Asked(u, rows, f) = last(b, f)
  BY Zenon DEF Asked
<1>2. \A s \in rows : s[1] \in E
  OBVIOUS
<1> HIDE DEF rows
<1>3. a = b
  BY <1>2
<1>4. a \subseteq 1..Len(e)
  <2>1. a \subseteq E
    BY <1>2
  <2> HIDE DEF a
  <2> QED
    BY <2>1
<1> HIDE DEF a, b
<1>5. CASE a = {}
  BY <1>1, <1>3, <1>5 DEF rows
<1>6. CASE a # {}
  <2> DEFINE m == CHOOSE i \in a : \A j \in a : j <= i
  <2>1. IsFiniteSet(a) /\ a \subseteq Nat
    <3>1. IsFiniteSet(1..Len(e)) /\ 1..Len(e) \subseteq Nat
      BY FS_Interval
    <3>2. IsFiniteSet(a)
      BY <1>4, <3>1, FS_Subset
    <3> QED
      BY <1>4, <3>1, <3>2
  <2>2. \E i \in a : \A j \in a : j <= i
    BY <1>6, <2>1, FiniteHasLast
  <2>3. m \in a
    BY <2>2
  <2> HIDE DEF m
  <2>4. e[m] = f[m]
    BY <1>4, <2>3
  <2>5. last(a, e) = e[m].query /\ last(b, f) = f[m].query
    BY <1>3, <1>6 DEF m
  <2> HIDE DEF last
  <2> QED
    BY <1>1, <2>4, <2>5 DEF rows
<1> QED
  BY <1>5, <1>6

LEMMA CalledForStays ==
  ASSUME NEW p, NEW e, NEW p2, NEW e2, Len(e) \in Nat,
         \A i \in 1..Len(p) : p2[i] = p[i], \A i \in 1..Len(e) : e2[i] = e[i],
         NEW P, P \subseteq 1..Len(p), NEW E, E \subseteq 1..Len(e), NEW recommended,
         CalledFor(P, E, recommended, p, e)
  PROVE  CalledFor(P, E, recommended, p2, e2)
<1>1. {p2[i] : i \in P} = {p[i] : i \in P}
  OBVIOUS
<1>2. {e2[i].user : i \in E} = {e[i].user : i \in E}
  OBVIOUS
<1>3. \A u : Asked(u, {<<i, 1>> : i \in E}, e2) = Asked(u, {<<i, 1>> : i \in E}, e)
  BY AskedStays
<1> QED
  BY <1>1, <1>2, <1>3 DEF CalledFor

(* What an output is that is current.                                       *)
Current(recommended, since, p, e) ==
  \E P \in SUBSET (1..Len(p)) : \E E \in SUBSET (1..Len(e)) :
    /\ 1..since["products"] \subseteq P /\ 1..since["events"] \subseteq E
    /\ CalledFor(P, E, recommended, p, e)

LEMMA AnswersForm ==
  ASSUME NEW P, NEW E
  PROVE  Answers(P, E) <=> CalledFor(P, E, results[Len(results)], log["products"], log["events"])
BY Zenon DEF Answers, CalledFor, Offered, BestOf, Mine, LastQuery, Asked

LEMMA AnswersFormAfter ==
  ASSUME NEW P, NEW E
  PROVE  Answers(P, E)' <=> CalledFor(P, E, results'[Len(results')], log'["products"], log'["events"])
BY Zenon DEF Answers, CalledFor, Offered, BestOf, Mine, LastQuery, Asked

LEMMA CurrentForm ==
  OutputIsCurrent <=>
    (output.exists /\ ~output.torn =>
       Current(results[Len(results)], output.since, log["products"], log["events"]))
BY AnswersForm DEF OutputIsCurrent, Current, SeenSince

LEMMA CurrentFormAfter ==
  OutputIsCurrent' <=>
    (output'.exists /\ ~output'.torn =>
       Current(results'[Len(results')], output'.since, log'["products"], log'["events"]))
BY AnswersFormAfter DEF OutputIsCurrent, Current, SeenSince

LEMMA CurrentStays ==
  ASSUME NEW p, NEW e, NEW p2, NEW e2,
         Len(p) \in Nat, Len(e) \in Nat, Len(p2) \in Nat, Len(e2) \in Nat,
         Len(p) <= Len(p2), Len(e) <= Len(e2),
         \A i \in 1..Len(p) : p2[i] = p[i], \A i \in 1..Len(e) : e2[i] = e[i],
         NEW recommended, NEW since, Current(recommended, since, p, e)
  PROVE  Current(recommended, since, p2, e2)
<1>1. PICK P \in SUBSET (1..Len(p)) : \E E \in SUBSET (1..Len(e)) :
        /\ 1..since["products"] \subseteq P /\ 1..since["events"] \subseteq E
        /\ CalledFor(P, E, recommended, p, e)
  BY DEF Current
<1>2. PICK E \in SUBSET (1..Len(e)) :
        /\ 1..since["products"] \subseteq P /\ 1..since["events"] \subseteq E
        /\ CalledFor(P, E, recommended, p, e)
  BY <1>1
<1>3. CalledFor(P, E, recommended, p2, e2)
  BY <1>2, CalledForStays
<1>4. P \in SUBSET (1..Len(p2)) /\ E \in SUBSET (1..Len(e2))
  OBVIOUS
<1> QED
  BY <1>2, <1>3, <1>4 DEF Current

-----------------------------------------------------------------------------
(* 5. The invariant, part by part *)

(* Together inductive, with what the job writes.                            *)
Inv == IInv /\ OutputIsCurrent

LEMMA InvParts ==
  Inv <=> /\ LoaderInv /\ TypeOK /\ RequestsHaveEvents /\ ListedIsCommitted /\ FilesAreOfTheLastJob
          /\ SentIsNotLeft /\ OutputIsCurrent
BY DEF Inv, IInv, LoaderInv

LEMMA InvPartsAfter ==
  Inv' <=> /\ LoaderInv' /\ TypeOK' /\ RequestsHaveEvents' /\ ListedIsCommitted'
           /\ FilesAreOfTheLastJob' /\ SentIsNotLeft' /\ OutputIsCurrent'
BY DEF Inv, IInv, LoaderInv

LEMMA TypeParts ==
  ASSUME TypeOK
  PROVE  /\ job.number \in Nat /\ job.state \in {"idle", "listing", "writing"}
         /\ job.products \in SUBSET (Nat \X Nat) /\ job.since \in [Claims -> Nat] /\ job.torn \in BOOLEAN
         /\ output.exists \in BOOLEAN /\ output.success \in BOOLEAN
         /\ output.files \in SUBSET [job : 1..Len(results), user : Users]
         /\ output.since \in [Claims -> Nat] /\ output.torn \in BOOLEAN
         /\ results \in Seq(SUBSET Recommendation) /\ Len(results) \in Nat
         /\ \A i \in 1..Len(results) : results[i] \in SUBSET Recommendation
         /\ publisher.number \in Nat /\ publisher.state \in {"idle", "sending", "failed", "done"}
         /\ publisher.left \in SUBSET [job : 1..Len(results), user : Users]
         /\ publisher.sent \in SUBSET [job : 1..Len(results), row : Recommendation]
         /\ publisher.whole \in 0..Len(results)
<1>1. results \in Seq(SUBSET Recommendation)
  BY DEF TypeOK, Recommendation
<1>2. Len(results) \in Nat
  BY <1>1, LenProperties
<1>3. \A i \in 1..Len(results) : results[i] \in SUBSET Recommendation
  BY <1>1, ElementOfSeq
<1> QED
  BY <1>1, <1>2, <1>3 DEF TypeOK, Recommendation

JobType == [number : Nat, state : {"idle", "listing", "writing"}, products : SUBSET (Nat \X Nat),
            since : [Claims -> Nat], torn : BOOLEAN]

LEMMA InitInv ==
  ASSUME Init
  PROVE  Inv
<1>1. LoaderInv
  BY LoaderInitInv DEF Init
<1>2. committed \in [Claims -> Nat]
  BY <1>1 DEF LoaderInv, LoaderTypeOK
<1>3. results = <<>> /\ Len(results) = 0 /\ results \in Seq(SUBSET [user : Users, version : Versions])
  BY EmptySeq DEF Init
<1>4. TypeOK
  BY <1>2, <1>3 DEF Init, TypeOK
<1>5. RequestsHaveEvents /\ ListedIsCommitted /\ OutputIsCurrent
  BY DEF Init, RequestsHaveEvents, ListedIsCommitted, OutputIsCurrent
<1>6. FilesAreOfTheLastJob /\ SentIsNotLeft
  BY DEF Init, FilesAreOfTheLastJob, SentIsNotLeft
<1> QED
  BY <1>1, <1>4, <1>5, <1>6, InvParts

(* The loader and the producers.                                            *)
LEMMA FillsKeepsTheBatch ==
  ASSUME Inv, Fills
  PROVE  Inv'
<1>1. /\ LoaderInv /\ TypeOK /\ RequestsHaveEvents /\ ListedIsCommitted /\ FilesAreOfTheLastJob
      /\ SentIsNotLeft /\ OutputIsCurrent
  BY InvParts
<1>2. LoaderInv' /\ Grows /\ RequestsHaveEvents' /\ client' \in {"idle", "storing"}
  BY DEF Fills
<1>3. job' = job /\ output' = output /\ results' = results /\ publisher' = publisher
  BY DEF Fills, batch
<1>4. TypeOK'
  BY <1>1, <1>2, <1>3 DEF TypeOK
<1>5. FilesAreOfTheLastJob' /\ SentIsNotLeft'
  BY <1>1, <1>3 DEF FilesAreOfTheLastJob, SentIsNotLeft, Parts
<1>6. \A c \in Claims : /\ Len(log[c]) \in Nat /\ Len(log'[c]) \in Nat
                       /\ committed[c] \in Nat /\ committed'[c] \in Nat
  <2>1. \A c \in Claims : Len(log[c]) \in Nat /\ committed[c] \in Nat
    BY <1>1, LoaderTypes DEF LoaderInv
  <2>2. \A c \in Claims : log'[c] \in Seq(Held(c)) /\ committed'[c] \in Nat
    BY <1>2 DEF LoaderInv, LoaderTypeOK
  <2> QED
    BY <2>1, <2>2, LenProperties
<1>7. ListedIsCommitted'
  <2> SUFFICES ASSUME job.state = "listing"
               PROVE  /\ job.products # {} /\ IsFiniteSet(job.products)
                      /\ job.products \subseteq (1..Len(log'["products"])) \X Nat
                      /\ \A c \in Claims : job.since[c] <= committed'[c]
                      /\ \A i \in 1..job.since["products"] : \E row \in job.products : row[1] = i
    BY <1>3 DEF ListedIsCommitted
  <2>1. /\ job.products # {} /\ IsFiniteSet(job.products)
        /\ job.products \subseteq (1..Len(log["products"])) \X Nat
        /\ \A c \in Claims : job.since[c] <= committed[c]
        /\ \A i \in 1..job.since["products"] : \E row \in job.products : row[1] = i
    BY <1>1 DEF ListedIsCommitted
  <2>2. \A c \in Claims : job.since[c] \in Nat
    BY <1>1, TypeParts
  <2>3. \A c \in Claims : job.since[c] <= committed'[c]
    BY <1>2, <1>6, <2>1, <2>2 DEF Grows
  <2>4. 1..Len(log["products"]) \subseteq 1..Len(log'["products"])
    BY <1>2, <1>6, EventClaims DEF Grows
  <2> QED
    BY <2>1, <2>3, <2>4
<1>8. OutputIsCurrent'
  <2> SUFFICES ASSUME output.exists, ~output.torn
               PROVE  Current(results[Len(results)], output.since, log'["products"], log'["events"])
    BY <1>3, CurrentFormAfter
  <2>1. Current(results[Len(results)], output.since, log["products"], log["events"])
    BY <1>1, CurrentForm
  <2> DEFINE p == log["products"]
             e == log["events"]
             p2 == log'["products"]
             e2 == log'["events"]
  <2>2. /\ Len(p) \in Nat /\ Len(e) \in Nat /\ Len(p2) \in Nat /\ Len(e2) \in Nat
        /\ Len(p) <= Len(p2) /\ Len(e) <= Len(e2)
        /\ \A i \in 1..Len(p) : p2[i] = p[i]
        /\ \A i \in 1..Len(e) : e2[i] = e[i]
    BY <1>2, <1>6, EventClaims DEF Grows
  <2> HIDE DEF p, e, p2, e2
  <2>3. Current(results[Len(results)], output.since, p, e)
    BY <2>1 DEF p, e
  <2>4. Current(results[Len(results)], output.since, p2, e2)
    BY <2>2, <2>3, CurrentStays
  <2> QED
    BY <2>4 DEF p2, e2
<1> QED
  BY <1>2, <1>4, <1>5, <1>7, <1>8, InvPartsAfter

(* What the batch leaves of the topics and of the client.                   *)
LEMMA BatchKeepsTheTopics ==
  ASSUME Inv, UNCHANGED <<loader, client, requests>>, faults' = faults \/ Fault
  PROVE  /\ LoaderInv' /\ RequestsHaveEvents' /\ client' \in {"idle", "storing"}
         /\ log' = log /\ committed' = committed
<1>1. LoaderInv /\ RequestsHaveEvents /\ client \in {"idle", "storing"}
  BY InvParts DEF TypeOK
<1>2. log' = log /\ committed' = committed
  BY DEF loader
<1> QED
  BY <1>1, <1>2, LoaderSame DEF RequestsHaveEvents

(* The job changes and no file.                                             *)
LEMMA JobAlone ==
  ASSUME Inv, UNCHANGED <<loader, client, requests, publisher>>, faults' = faults \/ Fault,
         results' = results, output' = output,
         job' \in JobType, job'.state # "writing", ListedIsCommitted'
  PROVE  Inv'
<1>1. TypeOK /\ FilesAreOfTheLastJob /\ SentIsNotLeft /\ OutputIsCurrent
  BY InvParts
<1>2. /\ LoaderInv' /\ RequestsHaveEvents' /\ client' \in {"idle", "storing"}
      /\ log' = log /\ publisher' = publisher
  BY BatchKeepsTheTopics
<1>3. TypeOK'
  BY <1>1, <1>2 DEF TypeOK, JobType
<1>4. FilesAreOfTheLastJob' /\ SentIsNotLeft'
  BY <1>1, <1>2 DEF FilesAreOfTheLastJob, SentIsNotLeft, Parts
<1>5. OutputIsCurrent'
  BY <1>1, <1>2, CurrentForm, CurrentFormAfter
<1> QED
  BY <1>2, <1>3, <1>4, <1>5, InvPartsAfter

LEMMA StartJobStep ==
  ASSUME Inv, StartJob
  PROVE  Inv'
<1> DEFINE torn == \E i \in 1..Len(log["products"]) : copies["products"][i].torn > 0
<1>1. /\ job' = [number |-> job.number + 1, state |-> "listing", products |-> Rows("products"),
                 since |-> committed, torn |-> torn]
      /\ Rows("products") # {}
      /\ UNCHANGED <<loader, faults, client, requests, output, results, publisher>>
  BY EventClaims DEF StartJob
<1>2. torn \in BOOLEAN
  OBVIOUS
<1> HIDE DEF torn
<1>3. LoaderInv /\ TypeOK
  BY InvParts
<1>4. /\ Rows("products") \subseteq (1..Len(log["products"])) \X Nat /\ IsFiniteSet(Rows("products"))
      /\ \A i \in 1..committed["products"] : \E row \in Rows("products") : row[1] = i
  BY <1>3, EventClaims, RowsOfCommitted
<1>5. job' \in JobType
  <2>1. committed \in [Claims -> Nat] /\ job.number \in Nat
    BY <1>3, TypeParts DEF LoaderInv, LoaderTypeOK
  <2>2. Rows("products") \in SUBSET (Nat \X Nat)
    BY <1>4
  <2> QED
    BY <1>1, <1>2, <2>1, <2>2 DEF JobType
<1>6. ListedIsCommitted'
  <2>1. log' = log /\ committed' = committed
    BY <1>1 DEF loader
  <2>2. \A c \in Claims : committed[c] <= committed[c]
    BY <1>3, LoaderTypes DEF LoaderInv
  <2>3. job'.products = Rows("products") /\ job'.since = committed
    BY <1>1
  <2> QED
    BY <1>1, <1>4, <2>1, <2>2, <2>3 DEF ListedIsCommitted
<1> QED
  BY <1>1, <1>5, <1>6, JobAlone

LEMMA JobFailsStep ==
  ASSUME Inv, JobFails
  PROVE  Inv'
<1>1. /\ job' = [job EXCEPT !.state = "idle", !.products = {}] /\ Fault
      /\ UNCHANGED <<loader, client, requests, output, results, publisher>>
  BY DEF JobFails
<1>2. job \in JobType
  BY InvParts DEF TypeOK, JobType
<1>3. job' \in JobType /\ job'.state = "idle"
  BY <1>1, <1>2 DEF JobType
<1>4. ListedIsCommitted'
  BY <1>3 DEF ListedIsCommitted
<1> QED
  BY <1>1, <1>3, <1>4, JobAlone

(* A file is of one user.                                                   *)
LEMMA PartsType ==
  ASSUME TypeOK, NEW n \in 1..Len(results)
  PROVE  Parts(n) \in SUBSET [job : 1..Len(results), user : Users]
<1>1. results[n] \in SUBSET Recommendation
  BY TypeParts
<1> QED
  BY <1>1 DEF Parts, Recommendation

LEMMA OverwriteStep ==
  ASSUME Inv, Overwrite
  PROVE  Inv'
<1>1. /\ LoaderInv /\ TypeOK /\ ListedIsCommitted /\ SentIsNotLeft
  BY InvParts
<1>2. /\ job.state = "listing"
      /\ output' = [exists |-> TRUE, success |-> FALSE, files |-> {}, since |-> job.since, torn |-> job.torn]
      /\ job' = [job EXCEPT !.state = "writing", !.products = {}]
      /\ UNCHANGED <<loader, faults, client, requests, publisher>>
  BY DEF Overwrite
<1>3. /\ LoaderInv' /\ RequestsHaveEvents' /\ client' \in {"idle", "storing"}
      /\ log' = log /\ publisher' = publisher
  BY <1>2, BatchKeepsTheTopics
<1>4. PICK S \in Newest(job.products) : \E null \in (IF job.torn THEN BOOLEAN ELSE {FALSE}) :
        results' = Append(results, Recommended(S \cup IF null THEN {NullRow} ELSE {}, Rows("events")))
  BY DEF Overwrite
<1>5. PICK null \in (IF job.torn THEN BOOLEAN ELSE {FALSE}) :
        results' = Append(results, Recommended(S \cup IF null THEN {NullRow} ELSE {}, Rows("events")))
  BY <1>4
<1> DEFINE rows == S \cup IF null THEN {NullRow} ELSE {}
           new == Recommended(rows, Rows("events"))
           n == Len(results)
<1>6. /\ job.products # {} /\ IsFiniteSet(job.products)
      /\ job.products \subseteq (1..Len(log["products"])) \X Nat
      /\ \A c \in Claims : job.since[c] <= committed[c]
      /\ \A i \in 1..job.since["products"] : \E row \in job.products : row[1] = i
  BY <1>1, <1>2 DEF ListedIsCommitted
<1>7. /\ Rows("events") \subseteq (1..Len(log["events"])) \X Nat
      /\ \A i \in 1..committed["events"] : \E row \in Rows("events") : row[1] = i
  BY <1>1, EventClaims, RowsOfCommitted
<1>8. S \subseteq job.products
  BY NewestForm DEF Picked, Best
<1>9. new \in SUBSET Recommendation
  <2>1. rows \subseteq ((1..Len(log["products"])) \X Nat) \cup {NullRow}
    BY <1>6, <1>8
  <2> HIDE DEF rows
  <2> QED
    BY <1>1, <1>7, <2>1, RecommendedType
<1> HIDE DEF new
<1>10. /\ results' \in Seq(SUBSET Recommendation) /\ Len(results') = n + 1 /\ n \in Nat
       /\ \A i \in 1..n : results'[i] = results[i]
       /\ results'[n + 1] = new
  <2>1. results \in Seq(SUBSET Recommendation) /\ Len(results) \in Nat
    BY <1>1, TypeParts
  <2>2. results' = Append(results, new)
    BY <1>5 DEF new
  <2> QED
    BY <1>9, <2>1, <2>2, AppendProperties
<1>11. TypeOK'
  <2>1. job' \in JobType
    BY <1>1, <1>2 DEF TypeOK, JobType
  <2>2. output' \in [exists : BOOLEAN, success : BOOLEAN,
                       files : SUBSET [job : 1..Len(results'), user : Users],
                     since : [Claims -> Nat], torn : BOOLEAN]
    <3>1. job.since \in [Claims -> Nat] /\ job.torn \in BOOLEAN
      BY <1>1, TypeParts
    <3> QED
      BY <1>2, <3>1
  <2>3. publisher \in [number : Nat, state : {"idle", "sending", "failed", "done"},
                       left : SUBSET [job : 1..Len(results'), user : Users],
                       sent : SUBSET [job : 1..Len(results'), row : [user : Users, version : Versions]],
                       whole : 0..Len(results')]
    <3>1. publisher \in [number : Nat, state : {"idle", "sending", "failed", "done"},
                         left : SUBSET [job : 1..n, user : Users],
                         sent : SUBSET [job : 1..n, row : [user : Users, version : Versions]],
                         whole : 0..n]
      BY <1>1 DEF TypeOK
    <3>2. 1..n \subseteq 1..Len(results') /\ 0..n \subseteq 0..Len(results')
      BY <1>10
    <3> HIDE DEF n
    <3> QED
      BY <3>1, <3>2
  <2> QED
    BY <1>3, <1>10, <2>1, <2>2, <2>3 DEF TypeOK, JobType, Recommendation
<1>12. ListedIsCommitted'
  <2>1. job'.state = "writing"
    BY <1>1, <1>2 DEF TypeOK
  <2> QED
    BY <2>1 DEF ListedIsCommitted
<1>13. FilesAreOfTheLastJob'
  BY <1>2, <1>10 DEF FilesAreOfTheLastJob
<1>14. SentIsNotLeft'
  <2> DEFINE w == publisher.whole
  <2>1. w > 0 => Parts(w)' = Parts(w) /\ results'[w] = results[w]
    <3>1. w \in 0..n
      BY <1>1, TypeParts
    <3>2. w > 0 => results'[w] = results[w]
      BY <1>10, <3>1
    <3> QED
      BY <1>3, <3>2 DEF Parts
  <2> QED
    BY <1>1, <1>3, <2>1 DEF SentIsNotLeft
<1>15. OutputIsCurrent'
  <2> SUFFICES ASSUME ~job.torn
               PROVE  Current(results'[Len(results')], job.since, log["products"], log["events"])
    BY <1>2, <1>3, CurrentFormAfter
  <2>1. new = Recommended(S, Rows("events"))
    <3>1. null = FALSE
      OBVIOUS
    <3>2. rows = S
      BY <3>1
    <3> QED
      BY <3>2 DEF new
  <2> DEFINE P == {r[1] : r \in job.products}
             E == {r[1] : r \in Rows("events")}
  <2>2. CalledFor(P, E, new, log["products"], log["events"])
    BY <1>1, <1>6, <1>7, <2>1, JobRecommends
  <2>3. P \in SUBSET (1..Len(log["products"])) /\ E \in SUBSET (1..Len(log["events"]))
    BY <1>6, <1>7
  <2>4. 1..job.since["products"] \subseteq P
    BY <1>6
  <2>5. 1..job.since["events"] \subseteq E
    <3>1. /\ job.since["events"] <= committed["events"]
          /\ job.since["events"] \in Nat /\ committed["events"] \in Nat
      BY <1>1, <1>6, EventClaims, TypeParts, LoaderTypes DEF LoaderInv
    <3>2. 1..job.since["events"] \subseteq 1..committed["events"]
      BY <3>1
    <3> QED
      BY <1>7, <3>2
  <2> HIDE DEF P, E
  <2>6. Current(new, job.since, log["products"], log["events"])
    BY <2>2, <2>3, <2>4, <2>5 DEF Current
  <2> QED
    BY <1>10, <2>6
<1> QED
  BY <1>3, <1>11, <1>12, <1>13, <1>14, <1>15, InvPartsAfter

(* A file is renamed, or _SUCCESS written: the directory changes, of the job *)
(* that is writing.                                                        *)
LEMMA OutputAlone ==
  ASSUME Inv, UNCHANGED <<loader, faults, client, requests, results, publisher>>,
         job.state = "writing",
         job' \in JobType, job'.state # "listing",
         NEW f, f \subseteq Parts(Len(results)), NEW success \in BOOLEAN,
         success => f = Parts(Len(results)),
         output' = [output EXCEPT !.files = f, !.success = success]
  PROVE  Inv'
<1>1. TypeOK /\ FilesAreOfTheLastJob /\ SentIsNotLeft /\ OutputIsCurrent
  BY InvParts
<1>2. /\ LoaderInv' /\ RequestsHaveEvents' /\ client' \in {"idle", "storing"}
      /\ log' = log /\ publisher' = publisher /\ results' = results
  BY BatchKeepsTheTopics
<1>3. output.exists /\ Len(results) > 0 /\ Len(results) \in Nat
  BY <1>1, TypeParts DEF FilesAreOfTheLastJob
<1>4. output \in [exists : BOOLEAN, success : BOOLEAN, files : SUBSET [job : 1..Len(results), user : Users],
                  since : [Claims -> Nat], torn : BOOLEAN]
  BY <1>1 DEF TypeOK
<1>5. f \in SUBSET [job : 1..Len(results), user : Users]
  <2>1. Len(results) \in 1..Len(results)
    BY <1>3
  <2> QED
    BY <1>1, <2>1, PartsType
<1>6. output' \in [exists : BOOLEAN, success : BOOLEAN, files : SUBSET [job : 1..Len(results), user : Users],
                   since : [Claims -> Nat], torn : BOOLEAN]
  BY <1>4, <1>5
<1>7. /\ output'.exists = output.exists /\ output'.since = output.since /\ output'.torn = output.torn
      /\ output'.files = f /\ output'.success = success
  BY <1>4
<1>8. TypeOK'
  BY <1>1, <1>2, <1>6 DEF TypeOK, JobType
<1>9. ListedIsCommitted'
  BY DEF ListedIsCommitted
<1>10. Parts(Len(results))' = Parts(Len(results))
  BY <1>2 DEF Parts
<1>11. FilesAreOfTheLastJob'
  BY <1>2, <1>3, <1>7, <1>10 DEF FilesAreOfTheLastJob
<1>12. SentIsNotLeft'
  BY <1>1, <1>2 DEF SentIsNotLeft, Parts
<1>13. OutputIsCurrent'
  BY <1>1, <1>2, <1>7, CurrentForm, CurrentFormAfter
<1> QED
  BY <1>2, <1>8, <1>9, <1>11, <1>12, <1>13, InvPartsAfter

LEMMA JobSteps ==
  ASSUME Inv, JobStep
  PROVE  Inv'
<1>1. TypeOK /\ FilesAreOfTheLastJob
  BY InvParts
<1>2. output = [output EXCEPT !.files = output.files, !.success = output.success]
      /\ job \in JobType /\ output.success \in BOOLEAN
  BY <1>1 DEF TypeOK, JobType
<1>3. CASE RenamePart
  <2>1. /\ job.state = "writing" /\ job' = job
        /\ UNCHANGED <<loader, faults, client, requests, results, publisher>>
    BY <1>3 DEF RenamePart
  <2>2. PICK f \in Parts(Len(results)) \ output.files : output' = [output EXCEPT !.files = @ \cup {f}]
    BY <1>3 DEF RenamePart
  <2> DEFINE files == output.files \cup {f}
  <2>3. output.exists /\ output.files \subseteq Parts(Len(results)) /\ output.success = FALSE
    BY <1>1, <1>2, <2>1, <2>2 DEF FilesAreOfTheLastJob
  <2>4. files \subseteq Parts(Len(results))
    BY <2>3
  <2>5. output' = [output EXCEPT !.files = files, !.success = FALSE]
    BY <1>1, <2>2, <2>3 DEF TypeOK
  <2> HIDE DEF files
  <2> QED
    BY <1>2, <2>1, <2>4, <2>5, OutputAlone
<1>4. CASE FinishJob
  <2>1. /\ job.state = "writing" /\ output.files = Parts(Len(results))
        /\ output' = [output EXCEPT !.success = TRUE] /\ job' = [job EXCEPT !.state = "idle"]
        /\ UNCHANGED <<loader, faults, client, requests, results, publisher>>
    BY <1>4 DEF FinishJob
  <2>2. job' \in JobType /\ job'.state = "idle"
    BY <1>2, <2>1 DEF JobType
  <2>3. output' = [output EXCEPT !.files = output.files, !.success = TRUE]
    BY <1>1, <2>1 DEF TypeOK
  <2> QED
    BY <2>1, <2>2, <2>3, OutputAlone
<1> QED
  BY <1>3, <1>4, StartJobStep, JobFailsStep, OverwriteStep DEF JobStep

(* The publisher changes alone.                                             *)
LEMMA PublisherAlone ==
  ASSUME Inv, UNCHANGED <<loader, client, requests, job, output, results>>, faults' = faults \/ Fault,
         TypeOK', SentIsNotLeft'
  PROVE  Inv'
<1>1. ListedIsCommitted /\ FilesAreOfTheLastJob /\ OutputIsCurrent
  BY InvParts
<1>2. /\ LoaderInv' /\ RequestsHaveEvents' /\ log' = log /\ committed' = committed
      /\ job' = job /\ output' = output /\ results' = results
  BY BatchKeepsTheTopics
<1>3. ListedIsCommitted' /\ FilesAreOfTheLastJob'
  BY <1>1, <1>2 DEF ListedIsCommitted, FilesAreOfTheLastJob, Parts
<1>4. OutputIsCurrent'
  BY <1>1, <1>2, CurrentForm, CurrentFormAfter
<1> QED
  BY <1>2, <1>3, <1>4, InvPartsAfter

PublisherType ==
  [number : Nat, state : {"idle", "sending", "failed", "done"},
   left : SUBSET [job : 1..Len(results), user : Users],
   sent : SUBSET [job : 1..Len(results), row : Recommendation],
   whole : 0..Len(results)]

(* The publisher lists what there is.                                       *)
LEMMA StartPublisherStep ==
  ASSUME Inv, StartPublisher
  PROVE  Inv'
<1>1. TypeOK /\ FilesAreOfTheLastJob
  BY InvParts
<1>2. /\ UNCHANGED <<loader, faults, client, requests, job, output, results>>
      /\ publisher' = [number |-> publisher.number + 1, left |-> output.files, sent |-> {},
                       state |-> IF output.exists THEN "sending" ELSE "failed",
                       whole |-> IF output.success THEN Len(results) ELSE 0]
  BY DEF StartPublisher, ListStatus
<1>3. Len(results) \in Nat /\ publisher.number \in Nat
      /\ output.files \in SUBSET [job : 1..Len(results), user : Users]
  BY <1>1, TypeParts
<1>4. publisher' \in PublisherType
  <2>1. (IF output.success THEN Len(results) ELSE 0) \in 0..Len(results)
    BY <1>3
  <2> QED
    BY <1>2, <1>3, <2>1 DEF PublisherType
<1>5. TypeOK'
  BY <1>1, <1>2, <1>4 DEF TypeOK, PublisherType, Recommendation
<1>6. SentIsNotLeft'
  <2>1. \A f \in output.files : f.job = Len(results)
    BY <1>1 DEF FilesAreOfTheLastJob, Parts
  <2>2. output.files # {} => output.exists
    BY <1>1 DEF FilesAreOfTheLastJob
  <2>3. output.success => /\ output.files = Parts(Len(results))
                          /\ {} = {r \in results[Len(results)] :
                                     [job |-> Len(results), user |-> r.user] \notin output.files}
    BY <1>1 DEF FilesAreOfTheLastJob, Parts
  <2>4. /\ publisher'.left = output.files /\ publisher'.sent = {} /\ results' = results
        /\ publisher'.state = (IF output.exists THEN "sending" ELSE "failed")
        /\ publisher'.whole = (IF output.success THEN Len(results) ELSE 0)
    BY <1>2
  <2>5. publisher'.whole > 0 => output.success /\ publisher'.whole = Len(results)
    BY <2>4
  <2>6. publisher'.whole > 0 =>
          /\ publisher'.left \subseteq Parts(publisher.whole)'
          /\ {l.row : l \in publisher'.sent} =
               {r \in results'[publisher'.whole] :
                  [job |-> publisher'.whole, user |-> r.user] \notin publisher'.left}
    BY <2>3, <2>4, <2>5 DEF Parts
  <2> QED
    BY <2>1, <2>2, <2>4, <2>6 DEF SentIsNotLeft
<1> QED
  BY <1>2, <1>5, <1>6, PublisherAlone

(* A run ends, with an error or because nothing is left.                     *)
LEMMA EndsPublisherStep ==
  ASSUME Inv, UNCHANGED <<loader, client, requests, job, output, results>>, faults' = faults \/ Fault,
         NEW lines, lines \subseteq [job : 1..Len(results), row : Recommendation],
         \A l \in lines : \E f \in publisher.left : l.job = f.job,
         NEW state \in {"failed", "done"},
         state = "done" => lines = {} /\ publisher.state = "sending" /\ publisher.left = {},
         publisher' = [publisher EXCEPT !.state = state, !.left = {}, !.sent = @ \cup lines]
  PROVE  Inv'
<1>1. TypeOK /\ SentIsNotLeft
  BY InvParts
<1>2. publisher \in PublisherType
  BY <1>1 DEF TypeOK, PublisherType, Recommendation
<1>3. publisher' \in PublisherType
  BY <1>2 DEF PublisherType
<1>4. TypeOK'
  BY <1>1, <1>3 DEF TypeOK, PublisherType, Recommendation
<1>5. /\ publisher'.left = {} /\ publisher'.sent = publisher.sent \cup lines
      /\ publisher'.state = state /\ publisher'.whole = publisher.whole
  BY <1>2 DEF PublisherType
<1>6. \A k, l \in publisher'.sent : k.job = l.job
  <2>1. /\ \A k, l \in publisher.sent : k.job = l.job
        /\ \A l \in publisher.sent, f \in publisher.left : l.job = f.job
        /\ \A f, g \in publisher.left : f.job = g.job
    BY <1>1 DEF SentIsNotLeft
  <2> QED
    BY <1>5, <2>1
<1>7. ASSUME publisher'.whole > 0, publisher'.state \in {"sending", "done"}
      PROVE  /\ publisher'.left \subseteq Parts(publisher.whole)'
             /\ {l.row : l \in publisher'.sent} =
                  {r \in results'[publisher'.whole] :
                     [job |-> publisher'.whole, user |-> r.user] \notin publisher'.left}
  <2>1. publisher'.sent = publisher.sent /\ publisher.left = {} /\ publisher.state = "sending"
    BY <1>5, <1>7
  <2>2. {l.row : l \in publisher.sent} =
          {r \in results[publisher.whole] : [job |-> publisher.whole, user |-> r.user] \notin publisher.left}
    BY <1>1, <1>5, <1>7, <2>1 DEF SentIsNotLeft
  <2> QED
    BY <1>5, <2>1, <2>2
<1>8. SentIsNotLeft'
  BY <1>5, <1>6, <1>7 DEF SentIsNotLeft
<1> QED
  BY <1>4, <1>8, PublisherAlone

LEMMA LinesType ==
  ASSUME TypeOK, NEW f \in publisher.left
  PROVE  LinesOf(f) \in SUBSET [job : 1..Len(results), row : Recommendation]
<1>1. f.job \in 1..Len(results)
  BY TypeParts
<1>2. results[f.job] \in SUBSET Recommendation
  BY <1>1, TypeParts
<1> QED
  BY <1>1, <1>2 DEF LinesOf

(* A file is sent: it is left no longer, and its lines are those of its user. *)
LEMMA PublishPartStep ==
  ASSUME Inv, NEW f \in publisher.left, PublishPart(f)
  PROVE  Inv'
<1>1. TypeOK /\ SentIsNotLeft
  BY InvParts
<1>2. /\ UNCHANGED <<loader, faults, client, requests, job, output, results>>
      /\ publisher' = [publisher EXCEPT !.left = @ \ {f}, !.sent = @ \cup LinesOf(f)]
  BY DEF PublishPart
<1>3. publisher \in PublisherType
  BY <1>1 DEF TypeOK, PublisherType, Recommendation
<1>4. LinesOf(f) \in SUBSET [job : 1..Len(results), row : Recommendation]
  BY <1>1, LinesType
<1>5. publisher' \in PublisherType
  BY <1>2, <1>3, <1>4 DEF PublisherType
<1>6. TypeOK'
  BY <1>1, <1>2, <1>5 DEF TypeOK, PublisherType, Recommendation
<1>7. /\ publisher'.left = publisher.left \ {f} /\ publisher'.sent = publisher.sent \cup LinesOf(f)
      /\ publisher'.state = publisher.state /\ publisher'.whole = publisher.whole
  BY <1>2, <1>3 DEF PublisherType
<1>8. /\ publisher.state = "sending"
      /\ \A g, h \in publisher.left : g.job = h.job
      /\ \A l \in publisher.sent, g \in publisher.left : l.job = g.job
      /\ \A k, l \in publisher.sent : k.job = l.job
  BY <1>1 DEF SentIsNotLeft
<1>9. \A l \in LinesOf(f) : l.job = f.job
  BY DEF LinesOf
<1>10. /\ publisher'.left # {} => publisher'.state = "sending"
       /\ \A g, h \in publisher'.left : g.job = h.job
       /\ \A l \in publisher'.sent, g \in publisher'.left : l.job = g.job
       /\ \A k, l \in publisher'.sent : k.job = l.job
  BY <1>7, <1>8, <1>9
<1> DEFINE w == publisher.whole
<1>11. ASSUME w > 0
       PROVE  /\ publisher'.left \subseteq Parts(publisher.whole)'
              /\ {l.row : l \in publisher'.sent} =
                   {r \in results'[publisher'.whole] :
                      [job |-> publisher'.whole, user |-> r.user] \notin publisher'.left}
  <2>1. /\ publisher.left \subseteq Parts(w)
        /\ {l.row : l \in publisher.sent} =
             {r \in results[w] : [job |-> w, user |-> r.user] \notin publisher.left}
    BY <1>1, <1>8, <1>11 DEF SentIsNotLeft
  <2>2. f = [job |-> w, user |-> f.user]
    BY <2>1 DEF Parts
  <2>3. {l.row : l \in LinesOf(f)} = {r \in results[w] : r.user = f.user}
    <3>1. LinesOf(f) = {[job |-> f.job, row |-> r] : r \in {s \in results[w] : s.user = f.user}}
      <4>1. f.job = w
        BY <2>2
      <4> QED
        BY <4>1 DEF LinesOf
    <3> DEFINE rows == {s \in results[w] : s.user = f.user}
    <3>2. \A r \in rows : [job |-> f.job, row |-> r] \in LinesOf(f) /\ [job |-> f.job, row |-> r].row = r
      BY <3>1
    <3>3. \A l \in LinesOf(f) : l.row \in rows
      BY <3>1
    <3> HIDE DEF rows
    <3>4. {l.row : l \in LinesOf(f)} = rows
      BY <3>2, <3>3
    <3> QED
      BY <3>4 DEF rows
  <2>4. \A r \in results[w] : [job |-> w, user |-> r.user] = f <=> r.user = f.user
    BY <2>2
  <2>5. {l.row : l \in publisher'.sent} = {l.row : l \in publisher.sent} \cup {l.row : l \in LinesOf(f)}
    BY <1>7
  <2>6. {l.row : l \in publisher'.sent} =
          {r \in results[w] : [job |-> w, user |-> r.user] \notin publisher.left \ {f}}
    BY <2>1, <2>3, <2>4, <2>5
  <2>7. publisher'.left \subseteq Parts(publisher.whole)'
    BY <1>2, <1>7, <2>1 DEF Parts
  <2> QED
    BY <1>2, <1>7, <2>6, <2>7
<1>12. SentIsNotLeft'
  BY <1>7, <1>10, <1>11 DEF SentIsNotLeft
<1> QED
  BY <1>2, <1>6, <1>12, PublisherAlone

LEMMA PublisherSteps ==
  ASSUME Inv, PublisherStep
  PROVE  Inv'
<1>1. TypeOK /\ publisher \in PublisherType
  BY InvParts DEF TypeOK, PublisherType, Recommendation
<1>2. CASE FinishPublisher
  <2>1. /\ publisher.state = "sending" /\ publisher.left = {}
        /\ publisher' = [publisher EXCEPT !.state = "done"]
        /\ UNCHANGED <<loader, faults, client, requests, job, output, results>>
    BY <1>2 DEF FinishPublisher
  <2>2. publisher' = [publisher EXCEPT !.state = "done", !.left = {}, !.sent = @ \cup {}]
    BY <1>1, <2>1 DEF PublisherType
  <2> QED
    BY <2>1, <2>2, EndsPublisherStep
<1>3. ASSUME NEW f \in publisher.left, OpenFails(f)
      PROVE  Inv'
  <2>1. /\ publisher' = [publisher EXCEPT !.state = "failed", !.left = {}]
        /\ UNCHANGED <<loader, faults, client, requests, job, output, results>>
    BY <1>3 DEF OpenFails
  <2>2. publisher' = [publisher EXCEPT !.state = "failed", !.left = {}, !.sent = @ \cup {}]
    BY <1>1, <2>1 DEF PublisherType
  <2> QED
    BY <2>1, <2>2, EndsPublisherStep
<1>4. ASSUME NEW f \in publisher.left, PublishFails(f)
      PROVE  Inv'
  <2>1. Fault /\ UNCHANGED <<loader, client, requests, job, output, results>>
    BY <1>4 DEF PublishFails
  <2>2. PICK S \in SUBSET LinesOf(f) :
          publisher' = [publisher EXCEPT !.state = "failed", !.left = {}, !.sent = @ \cup S]
    BY <1>4 DEF PublishFails
  <2>3. S \subseteq [job : 1..Len(results), row : Recommendation]
    BY <1>1, LinesType
  <2>4. \A l \in S : l.job = f.job
    BY DEF LinesOf
  <2> QED
    BY <2>1, <2>2, <2>3, <2>4, EndsPublisherStep
<1> QED
  BY <1>2, <1>3, <1>4, StartPublisherStep, PublishPartStep DEF PublisherStep

-----------------------------------------------------------------------------
(* 6. The theorems *)

LEMMA NextInv ==
  ASSUME Inv, [Next]_vars
  PROVE  Inv'
<1>1. CASE Next
  <2>1. LoaderInv /\ RequestsHaveEvents /\ client \in {"idle", "storing"}
    BY InvParts DEF TypeOK
  <2>2. Fills \/ JobStep \/ PublisherStep
    BY <1>1, <2>1, FillingSteps
  <2> QED
    BY <2>2, FillsKeepsTheBatch, JobSteps, PublisherSteps
<1>2. CASE UNCHANGED vars
  <2>1. UNCHANGED <<loader, faults, client, requests, job, output, results, publisher>>
    BY <1>2 DEF vars, others, batch
  <2>2. TypeOK' /\ SentIsNotLeft'
    BY <2>1, InvParts DEF TypeOK, SentIsNotLeft, Parts
  <2> QED
    BY <2>1, <2>2, PublisherAlone
<1> QED
  BY <1>1, <1>2

LEMMA SpecInv == Spec => []Inv
<1> QED
  BY InitInv, NextInv, PTL DEF Spec

(* The loader marks and commits only what is in HDFS as a whole, a job that  *)
(* has listed the products saw all that was committed, the directory holds  *)
(* files of one job, and the publisher sends those of one.                  *)
THEOREM Invariance == Spec => []IInv
<1>1. Inv => IInv
  BY DEF Inv
<1> QED
  BY <1>1, SpecInv, PTL

(* What a job writes without torn files is what some messages call for,      *)
(* among them all that were committed when it began.                        *)
THEOREM OutputsAreCurrent == Spec => []OutputIsCurrent
<1>1. Inv => OutputIsCurrent
  BY DEF Inv
<1> QED
  BY <1>1, SpecInv, PTL

(* No run of the publisher mixes two jobs, and one that succeeds after it    *)
(* listed a finished output has sent the whole of it.                       *)
THEOREM OneOutputIsPublished == Spec => []PublishedIsOneOutput
<1>1. Inv => PublishedIsOneOutput
  <2> SUFFICES ASSUME Inv PROVE PublishedIsOneOutput
    OBVIOUS
  <2>1. TypeOK /\ SentIsNotLeft
    BY InvParts
  <2>2. \A k, l \in publisher.sent : k.job = l.job
    BY <2>1 DEF SentIsNotLeft
  <2> DEFINE jobs == {l.job : l \in publisher.sent}
  <2>3. Cardinality(jobs) <= 1
    <3>1. CASE publisher.sent = {}
      <4>1. jobs = {}
        BY <3>1
      <4> QED
        BY <4>1, FS_EmptySet
    <3>2. CASE publisher.sent # {}
      <4>1. PICK l \in publisher.sent : TRUE
        BY <3>2
      <4>2. jobs = {l.job}
        BY <2>2
      <4>3. Cardinality({l.job}) = 1
        BY FS_Singleton
      <4> QED
        BY <4>2, <4>3
    <3> QED
      BY <3>1, <3>2
  <2>4. publisher.state = "done" => publisher.left = {}
    BY <2>1 DEF SentIsNotLeft
  <2>5. publisher.state = "done" /\ publisher.whole > 0 =>
          {l.row : l \in publisher.sent} = results[publisher.whole]
    BY <2>1, <2>4 DEF SentIsNotLeft
  <2> QED
    BY <2>3, <2>5 DEF PublishedIsOneOutput
<1> QED
  BY <1>1, SpecInv, PTL

(* No step takes a committed offset of the loader back.                     *)
THEOREM OffsetsNeverGoBack == Spec => [][\A c \in Claims : committed[c] <= committed'[c]]_vars
<1>1. Inv /\ [Next]_vars => [\A c \in Claims : committed[c] <= committed'[c]]_vars
  <2> SUFFICES ASSUME Inv, Next PROVE \A c \in Claims : committed[c] <= committed'[c]
    OBVIOUS
  <2>1. LoaderInv /\ RequestsHaveEvents /\ client \in {"idle", "storing"}
    BY InvParts DEF TypeOK
  <2>2. Fills => \A c \in Claims : committed[c] <= committed'[c]
    BY DEF Fills, Grows
  <2>3. ASSUME UNCHANGED loader
        PROVE  \A c \in Claims : committed[c] <= committed'[c]
    <3>1. committed' = committed
      BY <2>3 DEF loader
    <3>2. \A c \in Claims : committed[c] \in Nat
      BY <2>1, LoaderTypes DEF LoaderInv
    <3> QED
      BY <3>1, <3>2
  <2> QED
    BY <2>1, <2>2, <2>3, FillingSteps
<1> QED
  BY <1>1, SpecInv, PTL DEF Spec

=============================================================================
