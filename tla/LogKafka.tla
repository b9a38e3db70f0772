------------------------------ MODULE LogKafka ------------------------------
(***************************************************************************)
(* The life of the process (main.cc, logkafka.cc, signal_handler.cc,       *)
(* Manager::start, stop and ~Manager) and the producers that the tasks     *)
(* share (producer.cc, output_kafka.cc): where a line is between the log   *)
(* file and the broker, and what happens to it when the process ends.      *)
(*                                                                         *)
(* There is one producer for each codec that a task uses, made when the    *)
(* first such task is set up, with the brokers that Zookeeper knows at     *)
(* that moment.  librdkafka is external: rd_kafka_produce_batch takes as   *)
(* many lines as its queue has room for, its threads deliver them, and     *)
(* each line counts until rd_kafka_poll has served its delivery report.    *)
(* What a notification of a tail watcher reads, and how, is IOHandler's    *)
(* subject.                                                                *)
(***************************************************************************)
EXTENDS Integers, FiniteSets, FiniteSetsExt

CONSTANTS Tasks,    \* how many tasks: 1..Tasks, in the order of m_tails
          Codecs,   \* how many codecs: 1..Codecs, in the order of cc_map
          Brokers,  \* how many brokers are registered: 1..Brokers
          QueueMax, \* queue.buffering.max.messages
          MaxLines, \* bound: lines written, for all tasks together
          Faults    \* what may go wrong, a subset of AllFaults

(***************************************************************************)
(* "down"    a broker cannot be reached for a while                        *)
(* "gone"    a broker that is down need not come back                      *)
(* "partial" looking a broker up fails, after the list was emptied         *)
(* "failing" librdkafka refuses a line, or gives it up: its timeout, its   *)
(*           retries                                                       *)
(* "signal"  the process gets SIGINT, once it runs                         *)
(* "again"   and a second time while it ends                               *)
(* "blocked" a watcher of Zookeeper is at work while its handle is closed  *)
(***************************************************************************)
AllFaults == {"down", "gone", "partial", "failing", "signal", "again", "blocked"}

ASSUME LogKafkaAssumption ==
    /\ Tasks \in Nat \ {0} /\ Codecs \in Nat \ {0} /\ Brokers \in Nat \ {0}
    /\ QueueMax \in Nat \ {0} /\ MaxLines \in Nat
    /\ Faults \subseteq AllFaults

Task == 1..Tasks
Codec == 1..Codecs
Broker == 1..Brokers
Line == Task \X (1..MaxLines)

\* A line is not written yet, in the log file, in m_lines of an IOHandler, in
\* the queue of librdkafka, or delivered or given up by it with the report
\* still in its queue; or its report was served, or it was lost.
Place == {"unwritten", "file", "held", "queue", "delivered", "undelivered",
          "done", "failed", "lost"}

Phase == {"start", "running", "stopping", "blocked", "closing", "exited",
          "failed", "killed"}

VARIABLES
    phase,    \* where the main thread is
    codec,    \* compression_codec of each task
    tails,    \* the tasks that have a tail watcher
    urls,     \* m_broker_urls of Zookeeper
    made,     \* the codecs for which m_producer_map has a producer
    known,    \* the brokers that each producer knows
    up,       \* the brokers that can be reached
    where     \* the place of each line

vars == <<phase, codec, tails, urls, made, known, up, where>>

-----------------------------------------------------------------------------
Init ==
    /\ phase = "start"
    /\ codec \in [Task -> Codec]
    /\ tails = {}
    /\ urls = {}
    /\ made = {}
    /\ known = [c \in Codec |-> {}]
    /\ up = Broker
    /\ where = [l \in Line |-> "unwritten"]

\* LogKafka::start: the position file is open, the signal handler is installed
\* and the loop runs...
Start ==
    /\ phase = "start"
    /\ phase' = "running"
    /\ UNCHANGED <<codec, tails, urls, made, known, up, where>>

\* ...unless one of these fails: main returns at once.
StartFails ==
    /\ phase = "start"
    /\ phase' = "failed"
    /\ UNCHANGED <<codec, tails, urls, made, known, up, where>>

\* refreshBrokerUrls, by the threads of Zookeeper: all brokers...
RefreshBrokerUrls ==
    /\ phase \in {"start", "running"}
    /\ urls' = Broker
    /\ UNCHANGED <<phase, codec, tails, made, known, up, where>>

\* ...or those that were looked up before one could not be.
RefreshBrokerUrlsFails ==
    /\ "partial" \in Faults
    /\ phase \in {"start", "running"}
    /\ \E b \in Broker : urls' = 1..(b - 1)
    /\ UNCHANGED <<phase, codec, tails, made, known, up, where>>

\* Producer::init: rd_kafka_brokers_add finds no broker in an empty list.
producerInit(c) == urls # {} /\ known' = [known EXCEPT ![c] = urls]

\* A codec that has a producer keeps it.
MutInitProducer(c) ==
    /\ made' = IF urls = {} THEN made ELSE made \cup {c}
    /\ known' = [known EXCEPT ![c] = urls]
initProducer(c) ==
    \/ c \in made /\ UNCHANGED <<made, known>>
    \/ c \notin made /\ producerInit(c) /\ made' = made \cup {c}

\* refreshWatchers, startWatchers, setupWatcher: a task without a tail watcher
\* gets one if its producer is there or can be made, and is tried again by the
\* next refresh if not.
StartWatcher(t) ==
    /\ phase = "running"
    /\ t \notin tails
    /\ initProducer(codec[t])
    /\ tails' = tails \cup {t}
    /\ UNCHANGED <<phase, codec, urls, up, where>>

-----------------------------------------------------------------------------
At(places) == {l \in Line : where[l] \in places}
Of(c) == {l \in Line : codec[l[1]] = c}

\* rd_kafka_outq_len.
outq(c) == Of(c) \cap At({"queue", "delivered", "undelivered"})

room(c) == QueueMax - Cardinality(outq(c))

\* The lines that task t has to send, and the first n of a set of its lines.
batch(t) == {l \in At({"held", "file"}) : l[1] = t}
first(n, ls) == {l \in ls : Cardinality({k \in ls : k[2] < l[2]}) < n}

\* rd_kafka_poll serves the reports: msgDelivered only logs a failure.
reported(place) ==
    CASE place = "delivered" -> "done"
      [] place = "undelivered" -> "failed"
      [] OTHER -> place

\* Producer::send ends with a poll whatever was accepted.
MutPolls(taken) == taken # {}
polls(taken) == TRUE

\* What one notification of task t does: it offers the lines it holds and
\* those it reads, all of the file unless the queue has no room for some, which
\* go to the place rest.  A line that is refused for another reason (too large,
\* no such partition) is dropped by Producer::send.
notify(t, bad, rest) ==
    LET c == codec[t]
    IN  \E n \in 1..Cardinality(batch(t)) :
          LET offered == first(n, batch(t))
              taken == first(room(c), offered \ bad)
          IN  /\ bad \cup (batch(t) \cap At({"held"})) \subseteq offered
              /\ offered # batch(t) => taken # offered \ bad
              /\ where' = [l \in Line |->
                    IF l \in bad THEN "failed"
                    ELSE IF l \in taken THEN "queue"
                    ELSE IF l \in offered THEN rest
                    ELSE IF l \in Of(c) /\ polls(taken) THEN reported(where[l])
                    ELSE where[l]]

Refusable == IF "failing" \in Faults THEN SUBSET Line ELSE {{}}

\* The timer or the stat watcher of a tail watcher.
Notify(t, bad) ==
    /\ phase = "running"
    /\ t \in tails
    /\ notify(t, bad, "held")
    /\ UNCHANGED <<phase, codec, tails, urls, made, known, up>>

\* SIGINT: onSignal, close and stop.  The timers end.
Signal ==
    /\ "signal" \in Faults
    /\ phase = "running"
    /\ phase' = "stopping"
    /\ UNCHANGED <<codec, tails, urls, made, known, up, where>>

\* Manager::stop, stopWatchers in order: each tail watcher is notified a last
\* time; what is refused then is lost.
StopWatcher(t) ==
    /\ phase = "stopping"
    /\ tails # {} /\ t = Min(tails)
    /\ tails' = tails \ {t}
    /\ \/ \E bad \in Refusable : notify(t, bad, "lost")
       \/ batch(t) = {} /\ UNCHANGED where
    /\ UNCHANGED <<phase, codec, urls, made, known, up>>

\* m_zookeeper->close() returns, or waits for ever: for a watcher that waits for
\* m_zhandle_mutex (Close and Closing of Zookeeper).
closesZookeeper ==
    phase' \in IF "blocked" \in Faults THEN {"closing", "blocked"} ELSE {"closing"}

\* The rest of stop: ZooKeeper is closed, uv_stop ends the loop, main deletes
\* LogKafka and with it Manager, which ends with stopProducers.
LoopEnds ==
    /\ phase = "stopping"
    /\ tails = {}
    /\ closesZookeeper
    /\ UNCHANGED <<codec, tails, urls, made, known, up, where>>

\* Producer::close of the next codec: poll until the queue is empty.
closing(c) == phase = "closing" /\ c \in made /\ c = Min(made)

MutDrained(c) == Of(c) \cap At({"queue"}) = {}
drained(c) == outq(c) = {}

MutPollClosing(c) == UNCHANGED where
servesReports(c) ==
    where' = [l \in Line |-> IF l \in Of(c) THEN reported(where[l]) ELSE where[l]]

PollClosing(c) ==
    /\ closing(c)
    /\ ~drained(c)
    /\ servesReports(c)
    /\ UNCHANGED <<phase, codec, tails, urls, made, known, up>>

\* rd_kafka_destroy, and the producer is deleted.
DestroyProducer(c) ==
    /\ closing(c)
    /\ drained(c)
    /\ made' = made \ {c}
    /\ UNCHANGED <<phase, codec, tails, urls, known, up, where>>

Exit ==
    /\ phase = "closing"
    /\ made = {}
    /\ phase' = "exited"
    /\ UNCHANGED <<codec, tails, urls, made, known, up, where>>

\* What the main thread does after SIGINT, one after the other.
Ending ==
    \/ \E t \in Task : StopWatcher(t)
    \/ LoopEnds
    \/ \E c \in Codec : PollClosing(c) \/ DestroyProducer(c)
    \/ Exit

\* default_cb has stopped the signal handle: another SIGINT kills.  (While stop
\* is at work the handle is still there, and another SIGINT only waits.)
SignalAgain ==
    /\ "again" \in Faults
    /\ phase = "closing"
    /\ phase' = "killed"
    /\ UNCHANGED <<codec, tails, urls, made, known, up, where>>

-----------------------------------------------------------------------------
alive == phase \notin {"exited", "failed", "killed"}

\* librdkafka delivers a line to a broker, from which it also learns of all
\* the others.
Deliver(c) ==
    /\ alive /\ c \in made
    /\ known[c] \cap up # {}
    /\ \E l \in Of(c) \cap At({"queue"}) :
         where' = [where EXCEPT ![l] = "delivered"]
    /\ known' = [known EXCEPT ![c] = Broker]
    /\ UNCHANGED <<phase, codec, tails, urls, made, up>>

\* librdkafka gives a line up.
GiveUp(c) ==
    /\ "failing" \in Faults
    /\ alive /\ c \in made
    /\ \E l \in Of(c) \cap At({"queue"}) :
         where' = [where EXCEPT ![l] = "undelivered"]
    /\ UNCHANGED <<phase, codec, tails, urls, made, known, up>>

BrokerDown(b) ==
    /\ "down" \in Faults
    /\ alive
    /\ b \in up
    /\ up' = up \ {b}
    /\ UNCHANGED <<phase, codec, tails, urls, made, known, where>>

BrokerUp(b) ==
    /\ b \notin up
    /\ up' = up \cup {b}
    /\ UNCHANGED <<phase, codec, tails, urls, made, known, where>>

\* A line is appended to the log file of a task.
Write(t) ==
    /\ alive
    /\ Cardinality(Line \ At({"unwritten"})) < MaxLines
    /\ \E n \in 1..MaxLines :
         /\ where[<<t, n>>] = "unwritten"
         /\ \A k \in 1..(n - 1) : where[<<t, k>>] # "unwritten"
         /\ where' = [where EXCEPT ![<<t, n>>] = "file"]
    /\ UNCHANGED <<phase, codec, tails, urls, made, known, up>>

Next ==
    \/ Start \/ StartFails \/ RefreshBrokerUrls \/ RefreshBrokerUrlsFails
    \/ \E t \in Task : StartWatcher(t) \/ Write(t) \/ \E bad \in Refusable : Notify(t, bad)
    \/ Signal \/ Ending \/ SignalAgain
    \/ \E c \in Codec : Deliver(c) \/ GiveUp(c)
    \/ \E b \in Broker : BrokerDown(b) \/ BrokerUp(b)

Spec == Init /\ [][Next]_vars

\* Callbacks and timers run, main goes on; brokers are looked up again and
\* again and in the end found; a broker that is down comes back, and librdkafka
\* gets a line through to a broker that can be reached again and again.
Fairness ==
    /\ WF_vars(Start) /\ WF_vars(Ending)
    /\ WF_vars(RefreshBrokerUrls)
    /\ \A t \in Task : SF_vars(StartWatcher(t)) /\ WF_vars(Notify(t, {}))
    /\ \A c \in Codec : SF_vars(Deliver(c))
    /\ "gone" \notin Faults => \A b \in Broker : WF_vars(BrokerUp(b))

FairSpec == Spec /\ Fairness
-----------------------------------------------------------------------------
\* The type invariant; librdkafka's queue stays within its limit although the
\* tasks of a codec share it, and every tail watcher has a producer, which
\* OutputKafka::output uses without a check.
TypeOK ==
    /\ phase \in Phase
    /\ codec \in [Task -> Codec]
    /\ tails \subseteq Task
    /\ urls \subseteq Broker
    /\ made \subseteq Codec
    /\ known \in [Codec -> SUBSET Broker]
    /\ up \subseteq Broker
    /\ where \in [Line -> Place]
    /\ \A c \in Codec : Cardinality(outq(c)) <= QueueMax
    /\ \A t \in tails : codec[t] \in made

\* When the process has ended in order every line it has taken from a log file
\* was delivered or reported as failed, or was refused at the last
\* notification: none is left in a tail watcher or in the queue of a producer
\* that was destroyed (Manager::stop before stopProducers, Producer::close).
ExitDrained ==
    phase = "exited" => At({"held", "queue", "delivered", "undelivered"}) = {}

\* Unless the process is stopped or never starts, every line in a log file is
\* delivered or given up by librdkafka: once no more lines are written none is
\* left over.  A queue that is full of lines whose reports nobody has served, a
\* failing look-up of the brokers or a producer that could not be made at first
\* does not hold a line up for ever (Producer::send,
\* OutputKafka::initProducer, startWatchers).
EveryLineSent ==
    []<>(phase \in {"start", "running"} => At({"file", "held", "queue"}) = {})

\* After SIGINT the process ends, since brokers come back (Producer::close) and
\* no watcher is at work when Zookeeper is closed.
ShutdownEnds == phase = "stopping" ~> phase \in {"exited", "killed"}
=============================================================================
