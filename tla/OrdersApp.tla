------------------------------- MODULE OrdersApp -----------------------------
(***************************************************************************)
(* One instance of practical_work_2: main.go starts a producer and two     *)
(* consumers as goroutines, collects their errors in a channel, cancels    *)
(* all when one fails or a signal comes, and ends when all have returned.   *)
(* The producer is modelled with its local queue and its delivery reports,  *)
(* the consumers only as goroutines: what they do is in BatchConsumer and   *)
(* SingleConsumer.                                                         *)
(***************************************************************************)
EXTENDS Naturals, Sequences, FiniteSets

CONSTANTS
  Consumers,    \* "single consumer" and "batch consumer"
  Producer,     \* "producer"
  ErrCapacity,  \* capacity of errCh, 3 in the code
  MaxMessages   \* bound: messages produced

Components == Consumers \cup {Producer}

ASSUME OrdersAppAssumption ==
  /\ Producer \notin Consumers /\ IsFiniteSet(Consumers)
  /\ ErrCapacity \in Nat /\ ErrCapacity >= Cardinality(Components)
  /\ MaxMessages \in Nat

VARIABLES
  stage,      \* component -> "starting", "running", "flushing", "closing" (producer only),
              \*   "failed" (fn returned an error), "sent" (it is in errCh), "done"
  cancelled,  \* the context: a signal, or stop()
  errCh,      \* the errors in the channel, by component
  errClosed,  \* close(errCh)
  received,   \* the components whose errors main has logged
  ended,      \* main has left its loop
  sequence,   \* messages produced
  queue,      \* those in the producer's local queue, sent or not
  topic,      \* those the topic holds
  events,     \* delivery reports not read yet: <<message, delivered>>
  reports,    \* delivery reports and enqueue errors logged (history)
  timedOut    \* Flush gave up (history)

goroutines == <<stage, cancelled, errCh, errClosed, received, ended>>
producing == <<sequence, queue, topic, events, reports, timedOut>>
vars == <<goroutines, producing>>

Init ==
  /\ stage = [c \in Components |-> "starting"]
  /\ cancelled = FALSE
  /\ errCh = <<>> /\ errClosed = FALSE
  /\ received = {}
  /\ ended = FALSE
  /\ sequence = 0
  /\ queue = {} /\ topic = {} /\ events = {} /\ reports = {}
  /\ timedOut = FALSE

Enter(c, s) == stage' = [stage EXCEPT ![c] = s]

-----------------------------------------------------------------------------
(* Mutated: mistakes the properties must tell from the code                *)

(* A failure does not cancel the others.                                   *)
DoneWithoutStop(c) ==
  /\ stage[c] = "sent"
  /\ Enter(c, "done")
  /\ UNCHANGED <<cancelled, errCh, errClosed, received, ended, producing>>

(* The channel is closed when the context is cancelled.                    *)
CloseErrorsEarly ==
  /\ ~errClosed
  /\ cancelled \/ \A c \in Components : stage[c] = "done"
  /\ errClosed' = TRUE
  /\ UNCHANGED <<stage, cancelled, errCh, received, ended, producing>>

(* Main ends as soon as the channel is closed, its errors unread.          *)
EndWithErrors ==
  /\ errClosed /\ ~ended
  /\ ended' = TRUE
  /\ UNCHANGED <<stage, cancelled, errCh, errClosed, received, producing>>

(* RunProducer closes the producer without a flush.                       *)
CloseWithoutFlush ==
  /\ stage[Producer] = "running" /\ cancelled
  /\ Enter(Producer, "closing")
  /\ queue' = {}
  /\ UNCHANGED <<cancelled, errCh, errClosed, received, ended>>
  /\ UNCHANGED <<sequence, topic, events, reports, timedOut>>

(* A message takes its number before the counter is raised.                *)
ProduceBeforeCount ==
  /\ stage[Producer] = "running"
  /\ sequence < MaxMessages
  /\ sequence' = sequence + 1
  /\ queue' = queue \cup {sequence}
  /\ UNCHANGED <<goroutines, topic, events, reports, timedOut>>

-----------------------------------------------------------------------------
(* The goroutines of the components *)

(* Creating the client, or subscribing, fails.                             *)
FailToStart(c) ==
  /\ stage[c] = "starting"
  /\ Enter(c, "failed")
  /\ UNCHANGED <<cancelled, errCh, errClosed, received, ended, producing>>

Started(c) ==
  /\ stage[c] = "starting"
  /\ Enter(c, "running")
  /\ UNCHANGED <<cancelled, errCh, errClosed, received, ended, producing>>

(* errCh <- err: blocks while the channel is full.                         *)
SendError(c) ==
  /\ stage[c] = "failed"
  /\ Len(errCh) < ErrCapacity
  /\ errCh' = Append(errCh, c)
  /\ Enter(c, "sent")
  /\ UNCHANGED <<cancelled, errClosed, received, ended, producing>>

(* stop() and the deferred wg.Done().                                      *)
StopOthers(c) ==
  /\ stage[c] = "sent"
  /\ cancelled' = TRUE
  /\ Enter(c, "done")
  /\ UNCHANGED <<errCh, errClosed, received, ended, producing>>

(* A consumer sees the cancelled context and returns nil.                  *)
ConsumerReturns(c) ==
  /\ c \in Consumers
  /\ stage[c] = "running" /\ cancelled
  /\ Enter(c, "done")
  /\ UNCHANGED <<cancelled, errCh, errClosed, received, ended, producing>>

(* SIGINT or SIGTERM.                                                      *)
Signal ==
  /\ ~cancelled /\ ~ended
  /\ cancelled' = TRUE
  /\ UNCHANGED <<stage, errCh, errClosed, received, ended, producing>>

(* The goroutine that waits for all of them.                               *)
CloseErrors ==
  /\ ~errClosed
  /\ \A c \in Components : stage[c] = "done"
  /\ errClosed' = TRUE
  /\ UNCHANGED <<stage, cancelled, errCh, received, ended, producing>>

(* main ranges over errCh ...                                              *)
ReceiveError ==
  /\ errCh # <<>> /\ ~ended
  /\ received' = received \cup {Head(errCh)}
  /\ errCh' = Tail(errCh)
  /\ UNCHANGED <<stage, cancelled, errClosed, ended, producing>>

(* ... until it is closed and empty.                                       *)
End ==
  /\ errClosed /\ errCh = <<>> /\ ~ended
  /\ ended' = TRUE
  /\ UNCHANGED <<stage, cancelled, errCh, errClosed, received, producing>>

-----------------------------------------------------------------------------
(* The producer *)

(* A tick: the next message is put in the local queue.  select may take the *)
(* tick when the context is cancelled already.                             *)
Produce ==
  /\ stage[Producer] = "running"
  /\ sequence < MaxMessages
  /\ sequence' = sequence + 1
  /\ queue' = queue \cup {sequence + 1}
  /\ UNCHANGED <<goroutines, topic, events, reports, timedOut>>

(* The local queue is full: the message is logged and gone.                *)
EnqueueFails ==
  /\ stage[Producer] = "running"
  /\ sequence < MaxMessages
  /\ sequence' = sequence + 1
  /\ reports' = reports \cup {<<sequence + 1, FALSE>>}
  /\ UNCHANGED <<goroutines, queue, topic, events, timedOut>>

(* The context is cancelled: RunProducer returns, its deferred Flush waits. *)
StartFlush ==
  /\ stage[Producer] = "running" /\ cancelled
  /\ Enter(Producer, "flushing")
  /\ UNCHANGED <<cancelled, errCh, errClosed, received, ended, producing>>

(* The replicas write a message; whether the answer arrives is another      *)
(* matter, and a retry writes it again.                                    *)
Write(n) ==
  /\ n \in queue
  /\ topic' = topic \cup {n}
  /\ UNCHANGED <<goroutines, sequence, queue, events, reports, timedOut>>

(* Their answer arrives (acks=all).                                        *)
Deliver(n) ==
  /\ n \in queue \cap topic
  /\ queue' = queue \ {n}
  /\ events' = events \cup {<<n, TRUE>>}
  /\ UNCHANGED <<goroutines, sequence, topic, reports, timedOut>>

(* Retries are used up, or the message is too old.                         *)
GiveUp(n) ==
  /\ n \in queue
  /\ queue' = queue \ {n}
  /\ events' = events \cup {<<n, FALSE>>}
  /\ UNCHANGED <<goroutines, sequence, topic, reports, timedOut>>

(* The goroutine that ranges over producer.Events().                       *)
LogReport(e) ==
  /\ e \in events
  /\ events' = events \ {e}
  /\ reports' = reports \cup {e}
  /\ UNCHANGED <<goroutines, sequence, queue, topic, timedOut>>

(* Flush returns: nothing is outstanding ...                               *)
Flushed ==
  /\ stage[Producer] = "flushing"
  /\ queue = {} /\ events = {}
  /\ Enter(Producer, "closing")
  /\ UNCHANGED <<cancelled, errCh, errClosed, received, ended, producing>>

(* ... or five seconds are over; Close drops what is left.                 *)
FlushTimesOut ==
  /\ stage[Producer] = "flushing"
  /\ queue # {} \/ events # {}
  /\ queue' = {}
  /\ timedOut' = TRUE
  /\ Enter(Producer, "closing")
  /\ UNCHANGED <<cancelled, errCh, errClosed, received, ended, sequence, topic, events, reports>>

(* deliveryWG.Wait(): the reports have been read.                          *)
ProducerReturns ==
  /\ stage[Producer] = "closing"
  /\ events = {}
  /\ Enter(Producer, "done")
  /\ UNCHANGED <<cancelled, errCh, errClosed, received, ended, producing>>

(* The process has ended.                                                  *)
Rest == ended /\ UNCHANGED vars

Next ==
  \/ \E c \in Components :
       FailToStart(c) \/ Started(c) \/ SendError(c) \/ StopOthers(c) \/ ConsumerReturns(c)
  \/ Signal \/ CloseErrors \/ ReceiveError \/ End
  \/ Produce \/ EnqueueFails \/ StartFlush \/ Flushed \/ FlushTimesOut \/ ProducerReturns
  \/ \E n \in 1..MaxMessages : Write(n) \/ Deliver(n) \/ GiveUp(n)
  \/ \E e \in events : LogReport(e)
  \/ Rest

(* Goroutines run, and starting either succeeds or fails; Flush returns in  *)
(* the end.  Nothing makes the brokers answer or a signal come.            *)
Fairness ==
  /\ \A c \in Components :
       /\ WF_vars(Started(c) \/ FailToStart(c)) /\ WF_vars(SendError(c))
       /\ WF_vars(StopOthers(c)) /\ WF_vars(ConsumerReturns(c))
  /\ WF_vars(CloseErrors) /\ WF_vars(ReceiveError) /\ WF_vars(End)
  /\ WF_vars(StartFlush) /\ WF_vars(Flushed \/ FlushTimesOut) /\ WF_vars(ProducerReturns)
  /\ WF_vars(\E e \in events : LogReport(e))

Spec == Init /\ [][Next]_vars
FairSpec == Spec /\ Fairness

-----------------------------------------------------------------------------
(* Properties *)

(* Every variable keeps its type.                                          *)
TypeOK ==
  /\ stage \in [Components ->
       {"starting", "running", "flushing", "closing", "failed", "sent", "done"}]
  /\ \A c \in Consumers : stage[c] \notin {"flushing", "closing"}
  /\ cancelled \in BOOLEAN /\ errClosed \in BOOLEAN /\ ended \in BOOLEAN
  /\ errCh \in Seq(Components)
  /\ received \subseteq Components
  /\ sequence \in 0..MaxMessages
  /\ queue \subseteq 1..sequence /\ topic \subseteq 1..sequence
  /\ events \subseteq (1..sequence) \X BOOLEAN
  /\ reports \subseteq (1..sequence) \X BOOLEAN
  /\ timedOut \in BOOLEAN

(* No error is sent on a closed channel, which would panic: it is closed    *)
(* only after every component has returned.                                *)
NoSendAfterClose ==
  errClosed => \A c \in Components : stage[c] \notin {"failed", "sent"}

(* "shutdown completed" is the truth: every component has returned, every    *)
(* error was logged, and no goroutine is left behind with a report to read. *)
ShutdownIsComplete ==
  ended => /\ \A c \in Components : stage[c] = "done"
           /\ errCh = <<>>
           /\ events = {}

(* No message vanishes without a trace: when the producer has returned,      *)
(* every message it produced has its report, unless Flush gave up and said  *)
(* how many remained.                                                      *)
EveryMessageIsReported ==
  stage[Producer] = "done" /\ ~timedOut =>
    \A n \in 1..sequence : \E ok \in BOOLEAN : <<n, ok>> \in reports

(* The channel is closed for good, and main leaves its loop after it is.   *)
ClosedWhenDone ==
  /\ errClosed => \A c \in Components : stage[c] = "done"
  /\ ended => errClosed /\ errCh = <<>>

(* A producer that has not run has produced nothing; once Flush has         *)
(* returned nothing is in the queue, and RunProducer returns when the       *)
(* reports have been read.                                                 *)
QueueIsTheProducers ==
  /\ stage[Producer] \in {"starting", "failed", "sent"} => sequence = 0
  /\ stage[Producer] \in {"closing", "done"} => queue = {}
  /\ stage[Producer] = "done" => events = {}

(* Unless Flush gave up, a message is in the queue or has a report.        *)
EveryMessageIsSomewhere ==
  ~timedOut => \A n \in 1..sequence :
    n \in queue \/ \E ok \in BOOLEAN : <<n, ok>> \in events \cup reports

(* A success is reported for messages in the topic only.                   *)
SuccessIsWritten ==
  \A n \in 1..sequence : <<n, TRUE>> \in events \cup reports => n \in topic

(* The inductive invariant.                                                *)
IInv ==
  /\ TypeOK
  /\ NoSendAfterClose
  /\ ClosedWhenDone
  /\ QueueIsTheProducers
  /\ EveryMessageIsSomewhere
  /\ SuccessIsWritten

(* Whether by a signal or by the failure of a component, a cancelled        *)
(* context ends the process, and the failure of a component cancels it.    *)
FailureEndsAll ==
  /\ \A c \in Components : stage[c] = "failed" ~> ended
  /\ cancelled ~> ended
=============================================================================
