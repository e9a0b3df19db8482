--------------------------- MODULE OrdersAppProofs ---------------------------
(***************************************************************************)
(* Proofs about OrdersApp, for any consumers, any capacity of the channel  *)
(* that holds an error of each component, and any number of messages.      *)
(*                                                                         *)
(* The goroutines and the messages are two stories that meet in the stages *)
(* of the producer: each action belongs to one of them, or to both.        *)
(***************************************************************************)
EXTENDS OrdersApp, SequenceTheorems, TLAPS

Stages == {"starting", "running", "flushing", "closing", "failed", "sent", "done"}

(* The types of what the goroutines share ...                              *)
GoroutinesTypeOK ==
  /\ stage \in [Components -> Stages]
  /\ \A c \in Consumers : stage[c] \notin {"flushing", "closing"}
  /\ cancelled \in BOOLEAN /\ errClosed \in BOOLEAN /\ ended \in BOOLEAN
  /\ errCh \in Seq(Components)
  /\ received \subseteq Components

(* ... and of what becomes of the messages.                                *)
MessagesTypeOK ==
  /\ sequence \in 0..MaxMessages
  /\ queue \subseteq 1..sequence /\ topic \subseteq 1..sequence
  /\ events \subseteq (1..sequence) \X BOOLEAN
  /\ reports \subseteq (1..sequence) \X BOOLEAN
  /\ timedOut \in BOOLEAN

GoroutinesInv == GoroutinesTypeOK /\ NoSendAfterClose /\ ClosedWhenDone

MessagesInv ==
  MessagesTypeOK /\ QueueIsTheProducers /\ EveryMessageIsSomewhere /\ SuccessIsWritten

LEMMA TwoStories == IInv <=> GoroutinesInv /\ MessagesInv
  BY DEF IInv, TypeOK, GoroutinesInv, GoroutinesTypeOK, MessagesInv, MessagesTypeOK, Stages

LEMMA TwoStoriesAfter == IInv' <=> GoroutinesInv' /\ MessagesInv'
  BY DEF IInv, TypeOK, GoroutinesInv, GoroutinesTypeOK, MessagesInv, MessagesTypeOK, Stages

LEMMA ProducerFacts ==
  /\ Producer \in Components /\ Producer \notin Consumers
  /\ \A c \in Components : c \in Consumers \/ c = Producer
  BY OrdersAppAssumption DEF Components

-----------------------------------------------------------------------------
(* The goroutines *)

(* A component moves on, while the channel is open: not to an error if it   *)
(* is a consumer in a stage of the producer.                               *)
LEMMA StageMoves ==
  ASSUME GoroutinesInv, NEW c \in Components, NEW s \in Stages, Enter(c, s),
         stage[c] # "done", c \in Consumers => s \notin {"flushing", "closing"}
  PROVE  /\ stage' \in [Components -> Stages]
         /\ \A d \in Consumers : stage'[d] \notin {"flushing", "closing"}
         /\ ~errClosed /\ ~ended
         /\ stage'[c] = s
         /\ \A d \in Components \ {c} : stage'[d] = stage[d]
<1>1. stage \in [Components -> Stages]
  BY DEF GoroutinesInv, GoroutinesTypeOK
<1>2. /\ stage' \in [Components -> Stages]
      /\ stage'[c] = s
      /\ \A d \in Components \ {c} : stage'[d] = stage[d]
  BY <1>1 DEF Enter
<1>3. ASSUME NEW d \in Consumers
      PROVE  stage'[d] \notin {"flushing", "closing"}
  <2>1. d \in Components
    BY DEF Components
  <2>2. CASE d = c
    BY <2>2, <1>2
  <2>3. CASE d # c
    BY <2>1, <2>3, <1>2 DEF GoroutinesInv, GoroutinesTypeOK
  <2> QED
    BY <2>2, <2>3
<1>4. ~errClosed /\ ~ended
  BY DEF GoroutinesInv, ClosedWhenDone
<1> QED
  BY <1>2, <1>3, <1>4

(* What a step of a component leaves of the goroutines' invariant when the  *)
(* channel stays as it is.                                                 *)
LEMMA StageKeepsGoroutines ==
  ASSUME GoroutinesInv, NEW c \in Components, NEW s \in Stages, Enter(c, s),
         stage[c] # "done", c \in Consumers => s \notin {"flushing", "closing"},
         errCh' \in Seq(Components), cancelled' \in BOOLEAN,
         UNCHANGED <<errClosed, received, ended>>
  PROVE  GoroutinesInv'
<1>1. /\ stage' \in [Components -> Stages]
      /\ \A d \in Consumers : stage'[d] \notin {"flushing", "closing"}
      /\ ~errClosed /\ ~ended
  BY StageMoves
<1>2. GoroutinesTypeOK'
  BY <1>1 DEF GoroutinesInv, GoroutinesTypeOK
<1>3. NoSendAfterClose' /\ ClosedWhenDone'
  BY <1>1 DEF NoSendAfterClose, ClosedWhenDone
<1> QED
  BY <1>2, <1>3 DEF GoroutinesInv

(* Neither a signal, nor the end of the channel, nor its reader breaks it.  *)
LEMMA ChannelKeepsGoroutines ==
  ASSUME GoroutinesInv, Signal \/ CloseErrors \/ ReceiveError \/ End
  PROVE  GoroutinesInv' /\ UNCHANGED <<stage, producing>>
<1>1. CASE Signal
  BY <1>1 DEF Signal, GoroutinesInv, GoroutinesTypeOK, NoSendAfterClose, ClosedWhenDone
<1>2. CASE CloseErrors
  BY <1>2 DEF CloseErrors, GoroutinesInv, GoroutinesTypeOK, NoSendAfterClose, ClosedWhenDone
<1>3. CASE ReceiveError
  <2>1. errCh \in Seq(Components) /\ errCh # <<>>
    BY <1>3 DEF ReceiveError, GoroutinesInv, GoroutinesTypeOK
  <2>2. Head(errCh) \in Components /\ Tail(errCh) \in Seq(Components)
    BY <2>1, HeadTailProperties
  <2> QED
    BY <1>3, <2>2
       DEF ReceiveError, GoroutinesInv, GoroutinesTypeOK, NoSendAfterClose, ClosedWhenDone
<1>4. CASE End
  BY <1>4 DEF End, GoroutinesInv, GoroutinesTypeOK, NoSendAfterClose, ClosedWhenDone
<1> QED
  BY <1>1, <1>2, <1>3, <1>4

-----------------------------------------------------------------------------
(* The messages *)

(* What is said of the messages depends on the producer's stage only.      *)
LEMMA OthersKeepMessages ==
  ASSUME MessagesInv, UNCHANGED producing, stage'[Producer] = stage[Producer]
  PROVE  MessagesInv'
<1>1. UNCHANGED <<sequence, queue, topic, events, reports, timedOut>>
  BY DEF producing
<1> QED
  BY <1>1 DEF MessagesInv, MessagesTypeOK, QueueIsTheProducers, EveryMessageIsSomewhere,
              SuccessIsWritten

(* Before it has produced, the producer may go to any stage of an error.    *)
LEMMA NothingProduced ==
  ASSUME MessagesInv, sequence = 0
  PROVE  queue = {} /\ events = {}
<1>1. 1..sequence = {}
  OBVIOUS
<1> QED
  BY <1>1 DEF MessagesInv, MessagesTypeOK

LEMMA EarlyStagesKeepMessages ==
  ASSUME MessagesInv, UNCHANGED producing,
         stage[Producer] \in {"starting", "failed", "sent"},
         stage'[Producer] \in {"running", "failed", "sent", "done"}
  PROVE  MessagesInv'
<1>1. UNCHANGED <<sequence, queue, topic, events, reports, timedOut>>
  BY DEF producing
<1>2. sequence = 0
  BY DEF MessagesInv, QueueIsTheProducers
<1>3. queue = {} /\ events = {}
  BY <1>2, NothingProduced
<1>4. QueueIsTheProducers'
  BY <1>1, <1>2, <1>3 DEF QueueIsTheProducers
<1> QED
  BY <1>1, <1>4 DEF MessagesInv, MessagesTypeOK, EveryMessageIsSomewhere, SuccessIsWritten


(* A tick: one message more, in the queue or with a report.                *)
LEMMA TickKeepsMessages ==
  ASSUME GoroutinesInv, MessagesInv, Produce \/ EnqueueFails
  PROVE  MessagesInv'
<1>1. /\ sequence \in Nat /\ MaxMessages \in Nat /\ sequence < MaxMessages
      /\ sequence' = sequence + 1
      /\ UNCHANGED <<stage, topic, events, timedOut>>
      /\ stage[Producer] = "running"
  <2>1. sequence \in Nat /\ MaxMessages \in Nat
    BY OrdersAppAssumption DEF MessagesInv, MessagesTypeOK
  <2> QED
    BY <2>1 DEF Produce, EnqueueFails, goroutines
<1>2. \/ queue' = queue \cup {sequence + 1} /\ reports' = reports
      \/ queue' = queue /\ reports' = reports \cup {<<sequence + 1, FALSE>>}
  BY DEF Produce, EnqueueFails
<1>3. /\ 1..sequence' = (1..sequence) \cup {sequence + 1}
      /\ sequence' \in 0..MaxMessages
      /\ sequence + 1 \notin 1..sequence
  BY <1>1
<1>4. MessagesTypeOK'
  <2>1. queue' \subseteq 1..sequence' /\ topic' \subseteq 1..sequence'
    BY <1>1, <1>2, <1>3 DEF MessagesInv, MessagesTypeOK
  <2>2. /\ events' \subseteq (1..sequence') \X BOOLEAN
        /\ reports' \subseteq (1..sequence') \X BOOLEAN
    <3>1. events \subseteq (1..sequence) \X BOOLEAN /\ reports \subseteq (1..sequence) \X BOOLEAN
      BY DEF MessagesInv, MessagesTypeOK
    <3>2. 1..sequence \subseteq 1..sequence' /\ sequence + 1 \in 1..sequence'
      BY <1>3
    <3>3. (1..sequence) \X BOOLEAN \subseteq (1..sequence') \X BOOLEAN
      BY <3>2
    <3>4. <<sequence + 1, FALSE>> \in (1..sequence') \X BOOLEAN
      BY <3>2
    <3>5. reports' = reports \/ reports' = reports \cup {<<sequence + 1, FALSE>>}
      BY <1>2
    <3>6. events' = events
      BY <1>1
    <3> QED
      BY <3>1, <3>3, <3>4, <3>5, <3>6, Zenon
  <2>3. timedOut' \in BOOLEAN
    BY <1>1 DEF MessagesInv, MessagesTypeOK
  <2> QED
    BY <1>3, <2>1, <2>2, <2>3 DEF MessagesTypeOK
<1>5. QueueIsTheProducers'
  BY <1>1 DEF QueueIsTheProducers
<1>6. EveryMessageIsSomewhere'
  <2> SUFFICES ASSUME ~timedOut, NEW n \in 1..sequence'
               PROVE  n \in queue' \/ \E ok \in BOOLEAN : <<n, ok>> \in events \cup reports'
    BY <1>1 DEF EveryMessageIsSomewhere
  <2>1. CASE n = sequence + 1
    BY <2>1, <1>2
  <2>2. CASE n \in 1..sequence
    BY <2>2, <1>2 DEF MessagesInv, EveryMessageIsSomewhere
  <2> QED
    BY <2>1, <2>2, <1>3
<1>7. SuccessIsWritten'
  <2> SUFFICES ASSUME NEW n \in 1..sequence', <<n, TRUE>> \in events \cup reports'
               PROVE  n \in topic
    BY <1>1 DEF SuccessIsWritten
  <2>1. <<n, TRUE>> \in events \cup reports
    <3>1. <<n, TRUE>> # <<sequence + 1, FALSE>>
      BY Zenon
    <3> QED
      BY <1>2, <3>1
  <2>2. n \in 1..sequence
    BY <2>1 DEF MessagesInv, MessagesTypeOK
  <2> QED
    BY <2>1, <2>2 DEF MessagesInv, SuccessIsWritten
<1> QED
  BY <1>4, <1>5, <1>6, <1>7 DEF MessagesInv

(* The brokers and the reader of the reports.                              *)
LEMMA DeliveryKeepsMessages ==
  ASSUME GoroutinesInv, MessagesInv,
         \/ \E n \in 1..MaxMessages : Write(n) \/ Deliver(n) \/ GiveUp(n)
         \/ \E e \in events : LogReport(e)
  PROVE  MessagesInv'
<1>1. UNCHANGED <<stage, sequence, timedOut>>
  BY DEF Write, Deliver, GiveUp, LogReport, goroutines
<1>2. ASSUME NEW n \in 1..MaxMessages, Write(n)
      PROVE  MessagesInv'
  <2>1. n \in queue /\ topic' = topic \cup {n} /\ UNCHANGED <<queue, events, reports>>
    BY <1>2 DEF Write
  <2>2. MessagesTypeOK'
    BY <1>1, <2>1 DEF MessagesInv, MessagesTypeOK
  <2>3. QueueIsTheProducers' /\ EveryMessageIsSomewhere' /\ SuccessIsWritten'
    BY <1>1, <2>1 DEF MessagesInv, QueueIsTheProducers, EveryMessageIsSomewhere, SuccessIsWritten
  <2> QED
    BY <2>2, <2>3 DEF MessagesInv
<1>3. ASSUME NEW n \in 1..MaxMessages, NEW ok \in BOOLEAN, n \in queue,
             ok => n \in topic, queue' = queue \ {n}, events' = events \cup {<<n, ok>>},
             UNCHANGED <<topic, reports>>
      PROVE  MessagesInv'
  <2>1. MessagesTypeOK'
    <3>1. queue \subseteq 1..sequence /\ events \subseteq (1..sequence) \X BOOLEAN
      BY DEF MessagesInv, MessagesTypeOK
    <3>2. <<n, ok>> \in (1..sequence) \X BOOLEAN
      BY <1>3, <3>1
    <3>3. queue' \subseteq 1..sequence /\ events' \subseteq (1..sequence) \X BOOLEAN
      BY <1>3, <3>1, <3>2
    <3>4. topic' = topic /\ reports' = reports /\ sequence' = sequence /\ timedOut' = timedOut
      BY <1>1, <1>3
    <3> QED
      BY <3>3, <3>4 DEF MessagesInv, MessagesTypeOK
  <2>2. QueueIsTheProducers'
    BY <1>1, <1>3 DEF MessagesInv, QueueIsTheProducers
  <2>3. EveryMessageIsSomewhere'
    <3> SUFFICES ASSUME ~timedOut, NEW k \in 1..sequence
                 PROVE  k \in queue' \/ \E b \in BOOLEAN : <<k, b>> \in events' \cup reports
      BY <1>1, <1>3 DEF EveryMessageIsSomewhere
    <3>1. CASE k = n
      BY <1>3, <3>1
    <3>2. CASE k # n
      BY <1>3, <3>2 DEF MessagesInv, EveryMessageIsSomewhere
    <3> QED
      BY <3>1, <3>2
  <2>4. SuccessIsWritten'
    <3> SUFFICES ASSUME NEW k \in 1..sequence, <<k, TRUE>> \in events' \cup reports
                 PROVE  k \in topic
      BY <1>1, <1>3 DEF SuccessIsWritten
    <3>1. CASE <<k, TRUE>> = <<n, ok>>
      BY <1>3, <3>1
    <3>2. CASE <<k, TRUE>> # <<n, ok>>
      BY <1>3, <3>2 DEF MessagesInv, SuccessIsWritten
    <3> QED
      BY <3>1, <3>2
  <2> QED
    BY <2>1, <2>2, <2>3, <2>4 DEF MessagesInv
<1>4. ASSUME NEW n \in 1..MaxMessages, Deliver(n)
      PROVE  MessagesInv'
  BY <1>3, <1>4 DEF Deliver
<1>5. ASSUME NEW n \in 1..MaxMessages, GiveUp(n)
      PROVE  MessagesInv'
  BY <1>3, <1>5 DEF GiveUp
<1>6. ASSUME NEW e \in events, LogReport(e)
      PROVE  MessagesInv'
  <2>1. /\ events' \cup reports' = events \cup reports
        /\ events' \subseteq events
        /\ UNCHANGED <<queue, topic>>
    BY <1>6 DEF LogReport
  <2>2. MessagesTypeOK'
    BY <1>1, <1>6, <2>1 DEF LogReport, MessagesInv, MessagesTypeOK
  <2>3. QueueIsTheProducers'
    BY <1>1, <2>1 DEF MessagesInv, QueueIsTheProducers
  <2>4. EveryMessageIsSomewhere' /\ SuccessIsWritten'
    BY <1>1, <2>1 DEF MessagesInv, EveryMessageIsSomewhere, SuccessIsWritten
  <2> QED
    BY <2>2, <2>3, <2>4 DEF MessagesInv
<1> QED
  BY <1>2, <1>4, <1>5, <1>6

(* The flush and the return of the producer.                               *)
LEMMA FlushKeepsMessages ==
  ASSUME GoroutinesInv, MessagesInv,
         StartFlush \/ Flushed \/ FlushTimesOut \/ ProducerReturns
  PROVE  MessagesInv'
<1>1. stage \in [Components -> Stages] /\ Producer \in Components
  BY ProducerFacts DEF GoroutinesInv, GoroutinesTypeOK
<1>2. CASE StartFlush
  <2>1. stage'[Producer] = "flushing" /\ UNCHANGED producing
    BY <1>1, <1>2 DEF StartFlush, Enter
  <2> QED
    BY <2>1 DEF producing, MessagesInv, MessagesTypeOK, QueueIsTheProducers,
                EveryMessageIsSomewhere, SuccessIsWritten
<1>3. CASE Flushed
  <2>1. stage'[Producer] = "closing" /\ UNCHANGED producing /\ queue = {}
    BY <1>1, <1>3 DEF Flushed, Enter
  <2> QED
    BY <2>1 DEF producing, MessagesInv, MessagesTypeOK, QueueIsTheProducers,
                EveryMessageIsSomewhere, SuccessIsWritten
<1>4. CASE FlushTimesOut
  <2>1. /\ stage'[Producer] = "closing" /\ queue' = {} /\ timedOut'
        /\ UNCHANGED <<sequence, topic, events, reports>>
    BY <1>1, <1>4 DEF FlushTimesOut, Enter
  <2>2. MessagesTypeOK'
    BY <2>1, <1>4 DEF FlushTimesOut, MessagesInv, MessagesTypeOK
  <2> QED
    BY <2>1, <2>2 DEF MessagesInv, QueueIsTheProducers, EveryMessageIsSomewhere, SuccessIsWritten
<1>5. CASE ProducerReturns
  <2>1. /\ stage'[Producer] = "done" /\ UNCHANGED producing
        /\ stage[Producer] = "closing" /\ events = {}
    BY <1>1, <1>5 DEF ProducerReturns, Enter
  <2> QED
    BY <2>1 DEF producing, MessagesInv, MessagesTypeOK, QueueIsTheProducers,
                EveryMessageIsSomewhere, SuccessIsWritten
<1> QED
  BY <1>2, <1>3, <1>4, <1>5

-----------------------------------------------------------------------------
(* The theorems *)

LEMMA InitEstablishes == Init => IInv
<1> SUFFICES ASSUME Init PROVE IInv
  OBVIOUS
<1>1. errCh \in Seq(Components) /\ stage \in [Components -> Stages]
  BY EmptySeq DEF Init, Stages
<1>2. \A c \in Components : stage[c] = "starting"
  BY DEF Init
<1>3. GoroutinesTypeOK /\ NoSendAfterClose /\ ClosedWhenDone
  <2>1. ~cancelled /\ ~errClosed /\ ~ended /\ received = {}
    BY DEF Init
  <2>2. \A c \in Consumers : stage[c] \notin {"flushing", "closing"}
    BY <1>2 DEF Components
  <2>3. cancelled \in BOOLEAN /\ errClosed \in BOOLEAN /\ ended \in BOOLEAN
    BY Zenon DEF Init
  <2>4. GoroutinesTypeOK
    BY <1>1, <2>1, <2>2, <2>3 DEF GoroutinesTypeOK
  <2> QED
    BY <2>1, <2>4 DEF NoSendAfterClose, ClosedWhenDone
<1>4. MessagesTypeOK
  <2>1. timedOut \in BOOLEAN
    BY Zenon DEF Init
  <2>2. sequence \in 0..MaxMessages
    BY OrdersAppAssumption DEF Init
  <2> QED
    BY <2>1, <2>2 DEF Init, MessagesTypeOK
<1>5. QueueIsTheProducers
  BY <1>2, ProducerFacts DEF Init, QueueIsTheProducers
<1>6. 1..sequence = {}
  BY DEF Init
<1>7. EveryMessageIsSomewhere /\ SuccessIsWritten
  BY <1>6 DEF EveryMessageIsSomewhere, SuccessIsWritten
<1> QED
  BY <1>3, <1>4, <1>5, <1>7, TwoStories DEF GoroutinesInv, MessagesInv

(* A component that fails or returns: the producer has made nothing yet, or *)
(* it is not the producer.                                                 *)
LEMMA ComponentKeepsInvariant ==
  ASSUME IInv, NEW c \in Components,
         FailToStart(c) \/ Started(c) \/ SendError(c) \/ StopOthers(c) \/ ConsumerReturns(c)
  PROVE  IInv'
<1>1. GoroutinesInv /\ MessagesInv
  BY TwoStories
<1>2. /\ stage \in [Components -> Stages]
      /\ errCh \in Seq(Components)
      /\ cancelled \in BOOLEAN
  BY <1>1 DEF GoroutinesInv, GoroutinesTypeOK
<1>3. /\ UNCHANGED <<errClosed, received, ended, producing>>
      /\ errCh' \in Seq(Components)
  <2>1. UNCHANGED <<errClosed, received, ended, producing>>
    BY DEF FailToStart, Started, SendError, StopOthers, ConsumerReturns
  <2>2. errCh' = errCh \/ errCh' = Append(errCh, c)
    BY DEF FailToStart, Started, SendError, StopOthers, ConsumerReturns
  <2>3. Append(errCh, c) \in Seq(Components)
    BY <1>2, AppendProperties
  <2> QED
    BY <2>1, <2>2, <2>3, <1>2
<1>4. cancelled' \in BOOLEAN
  BY <1>2 DEF FailToStart, Started, SendError, StopOthers, ConsumerReturns
<1>5. PICK s \in {"running", "failed", "sent", "done"} :
        /\ Enter(c, s)
        /\ stage[c] \in {"starting", "failed", "sent"} \/ (c \in Consumers /\ stage[c] = "running")
  BY DEF FailToStart, Started, SendError, StopOthers, ConsumerReturns
<1>6. GoroutinesInv'
  <2>1. s \in Stages /\ s \notin {"flushing", "closing"} /\ stage[c] # "done"
    BY <1>5 DEF Stages
  <2> QED
    BY <1>1, <1>3, <1>4, <1>5, <2>1, StageKeepsGoroutines
<1>7. MessagesInv'
  <2>1. CASE c = Producer
    <3>1. stage'[Producer] = s
      BY <1>2, <1>5, <2>1 DEF Enter
    <3>2. stage[Producer] \in {"starting", "failed", "sent"}
      BY <1>5, <2>1, ProducerFacts
    <3> QED
      BY <1>1, <1>3, <3>1, <3>2, EarlyStagesKeepMessages
  <2>2. CASE c # Producer
    <3>1. stage'[Producer] = stage[Producer]
      BY <1>2, <1>5, <2>2, ProducerFacts DEF Enter
    <3> QED
      BY <1>1, <1>3, <3>1, OthersKeepMessages
  <2> QED
    BY <2>1, <2>2
<1> QED
  BY <1>6, <1>7, TwoStoriesAfter

LEMMA NextPreserves == IInv /\ [Next]_vars => IInv'
<1> SUFFICES ASSUME IInv, [Next]_vars PROVE IInv'
  OBVIOUS
<1>1. GoroutinesInv /\ MessagesInv
  BY TwoStories
<1>2. GoroutinesInv' /\ MessagesInv' => IInv'
  BY TwoStoriesAfter
<1>3. UNCHANGED goroutines => GoroutinesInv'
  BY <1>1 DEF goroutines, GoroutinesInv, GoroutinesTypeOK, NoSendAfterClose, ClosedWhenDone
<1>4. ASSUME NEW c \in Components,
             FailToStart(c) \/ Started(c) \/ SendError(c) \/ StopOthers(c) \/ ConsumerReturns(c)
      PROVE  IInv'
  BY <1>4, ComponentKeepsInvariant
<1>5. CASE Signal \/ CloseErrors \/ ReceiveError \/ End
  <2>1. GoroutinesInv' /\ UNCHANGED <<stage, producing>>
    BY <1>1, <1>5, ChannelKeepsGoroutines
  <2> QED
    BY <1>1, <1>2, <2>1, OthersKeepMessages
<1>6. CASE Produce \/ EnqueueFails
  BY <1>1, <1>2, <1>3, <1>6, TickKeepsMessages DEF Produce, EnqueueFails
<1>7. CASE \/ \E n \in 1..MaxMessages : Write(n) \/ Deliver(n) \/ GiveUp(n)
           \/ \E e \in events : LogReport(e)
  <2>1. UNCHANGED goroutines
    BY <1>7 DEF Write, Deliver, GiveUp, LogReport
  <2> QED
    BY <1>1, <1>2, <1>3, <1>7, <2>1, DeliveryKeepsMessages
<1>8. CASE StartFlush \/ Flushed \/ FlushTimesOut \/ ProducerReturns
  <2>1. PICK s \in {"flushing", "closing", "done"} :
          Enter(Producer, s) /\ stage[Producer] # "done"
    BY <1>8 DEF StartFlush, Flushed, FlushTimesOut, ProducerReturns
  <2>2. UNCHANGED <<cancelled, errCh, errClosed, received, ended>>
    BY <1>8 DEF StartFlush, Flushed, FlushTimesOut, ProducerReturns
  <2>3. errCh' \in Seq(Components) /\ cancelled' \in BOOLEAN
    BY <1>1, <2>2 DEF GoroutinesInv, GoroutinesTypeOK
  <2>4. GoroutinesInv'
    <3>1. s \in Stages
      BY DEF Stages
    <3> QED
      BY <1>1, <2>1, <2>2, <2>3, <3>1, ProducerFacts, StageKeepsGoroutines
  <2> QED
    BY <1>1, <1>2, <1>8, <2>4, FlushKeepsMessages
<1>9. CASE UNCHANGED vars
  BY <1>1, <1>2, <1>3, <1>9, OthersKeepMessages DEF vars, goroutines
<1> QED
  BY <1>4, <1>5, <1>6, <1>7, <1>8, <1>9 DEF Next, Rest

(* The inductive invariant holds; with it no goroutine sends an error on    *)
(* the closed channel (main.go).                                           *)
THEOREM Invariance == Spec => []IInv
  BY InitEstablishes, NextPreserves, PTL DEF Spec

(* When main logs "shutdown completed" every component has returned, every  *)
(* error was read and no delivery report is left.                          *)
THEOREM ShutdownComplete == Spec => []ShutdownIsComplete
<1>1. IInv => ShutdownIsComplete
  BY ProducerFacts DEF IInv, ClosedWhenDone, QueueIsTheProducers, ShutdownIsComplete
<1> QED
  BY Invariance, <1>1, PTL

(* A message without a report is one that Flush gave up on (producer.go).   *)
THEOREM MessagesReported == Spec => []EveryMessageIsReported
<1>1. IInv => EveryMessageIsReported
  <2> SUFFICES ASSUME IInv, stage[Producer] = "done", ~timedOut, NEW n \in 1..sequence
               PROVE  \E ok \in BOOLEAN : <<n, ok>> \in reports
    BY DEF EveryMessageIsReported
  <2>1. queue = {} /\ events = {}
    BY DEF IInv, QueueIsTheProducers
  <2> QED
    BY <2>1 DEF IInv, EveryMessageIsSomewhere
<1> QED
  BY Invariance, <1>1, PTL
=============================================================================
