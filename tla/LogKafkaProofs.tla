--------------------------- MODULE LogKafkaProofs ---------------------------
(***************************************************************************)
(* LogKafka for every number of tasks, codecs, brokers and lines and every *)
(* size of librdkafka's queue: the queue that tasks share never holds more *)
(* than its limit, every tail watcher has a producer, and a process that   *)
(* ends in order leaves no line behind in a tail watcher or a queue.       *)
(***************************************************************************)
EXTENDS LogKafka, FiniteSetTheorems, TLAPS

\* The places of a line that counts in rd_kafka_outq_len.
InQueue == {"queue", "delivered", "undelivered"}

\* Tail watchers are there between the first refresh and the last notification.
TailsWhen == phase \notin {"running", "stopping"} => tails = {}

\* A line that was refused is kept by the tail watcher of its task...
HeldByTail == \A l \in Line : where[l] = "held" => l[1] \in tails

\* ...and one that librdkafka took is in the queue of a producer that exists.
QueuedInProducer == \A l \in Line : where[l] \in InQueue => codec[l[1]] \in made

AllDestroyed == phase = "exited" => made = {}

IInv == TypeOK /\ TailsWhen /\ HeldByTail /\ QueuedInProducer /\ AllDestroyed
-----------------------------------------------------------------------------
\* A line is its task and its number.
LEMMA LineParts ==
    ASSUME NEW l \in Line
    PROVE  l[1] \in Task /\ l[2] \in 1..MaxLines /\ l = <<l[1], l[2]>>
BY DEF Line

\* There are finitely many lines, so they can be counted.
LEMMA LinesFinite ==
    ASSUME NEW S \in SUBSET Line
    PROVE  IsFiniteSet(S) /\ Cardinality(S) \in Nat
<1>1. IsFiniteSet(Task) /\ IsFiniteSet(1..MaxLines)
  BY FS_Interval, LogKafkaAssumption DEF Task
<1>2. IsFiniteSet(Line)
  BY <1>1, FS_Product DEF Line
<1> QED BY <1>2, FS_Subset, FS_CardinalityType

\* rd_kafka_produce_batch takes no more lines than it is given room for: the
\* first n lines of a task are at most n.
LEMMA FirstBound ==
    ASSUME NEW n \in Nat, NEW t \in Task, NEW S \in SUBSET Line,
           \A l \in S : l[1] = t
    PROVE  /\ first(n, S) \subseteq S
           /\ Cardinality(first(n, S)) <= n
<1> DEFINE before(l) == {k \in S : k[2] < l[2]}
           rank == [l \in first(n, S) |-> Cardinality(before(l))]
<1>1. \A l \in S : before(l) \in SUBSET Line
  OBVIOUS
<1>2. rank \in [first(n, S) -> 0..(n - 1)]
  <2> SUFFICES ASSUME NEW l \in first(n, S) PROVE Cardinality(before(l)) \in 0..(n - 1)
    OBVIOUS
  <2>1. l \in S /\ Cardinality(before(l)) < n
    BY DEF first
  <2>2. Cardinality(before(l)) \in Nat
    BY <1>1, <2>1, LinesFinite
  <2> HIDE DEF before
  <2> QED BY <2>1, <2>2
<1>3. ASSUME NEW k \in S, NEW l \in S, k[2] < l[2]
      PROVE  Cardinality(before(k)) # Cardinality(before(l))
  <2>1. \A m \in S : m[2] \in Int
    BY LineParts
  <2>2. before(k) \subseteq before(l)
    BY <1>3, <2>1
  <2>3. k \in before(l) /\ k \notin before(k)
    BY <1>3, <2>1
  <2>4. IsFiniteSet(before(l))
    BY <1>1, LinesFinite
  <2> HIDE DEF before
  <2> QED BY <2>2, <2>3, <2>4, FS_Subset
<1>4. ASSUME NEW k \in first(n, S), NEW l \in first(n, S), rank[k] = rank[l]
      PROVE  k = l
  <2>1. k \in S /\ l \in S
    BY DEF first
  <2>2. k[2] \in Int /\ l[2] \in Int /\ k = <<t, k[2]>> /\ l = <<t, l[2]>>
    BY <2>1, LineParts
  <2>3. Cardinality(before(k)) = Cardinality(before(l))
    BY <1>4
  <2> HIDE DEF before, rank
  <2>4. ~(k[2] < l[2]) /\ ~(l[2] < k[2])
    BY <1>3, <2>1, <2>3
  <2> QED BY <2>2, <2>4
<1>5. rank \in Injection(first(n, S), 0..(n - 1))
  BY <1>2, <1>4 DEF Injection, IsInjective
<1>6. IsFiniteSet(0..(n - 1)) /\ Cardinality(0..(n - 1)) = n
  BY FS_Interval
<1> HIDE DEF rank
<1>7. Cardinality(first(n, S)) <= n
  BY <1>5, <1>6, FS_Injection
<1> QED BY <1>7 DEF first

\* Lines that were taken on top of those in the queue.
LEMMA UnionBound ==
    ASSUME NEW S \in SUBSET Line, NEW T \in SUBSET Line, NEW U \in SUBSET (S \cup T),
           NEW n \in Nat, Cardinality(S) <= n, Cardinality(T) <= n - Cardinality(S)
    PROVE  Cardinality(U) <= n
<1>1. /\ IsFiniteSet(S) /\ IsFiniteSet(T) /\ IsFiniteSet(S \cup T)
      /\ Cardinality(S) \in Nat /\ Cardinality(T) \in Nat
      /\ Cardinality(S \cap T) \in Nat /\ Cardinality(U) \in Nat
      /\ Cardinality(S \cup T) \in Nat
  BY LinesFinite
<1>2. Cardinality(S \cup T) = Cardinality(S) + Cardinality(T) - Cardinality(S \cap T)
  BY <1>1, FS_Union
<1>3. Cardinality(U) <= Cardinality(S \cup T)
  BY <1>1, FS_Subset
<1> QED BY <1>1, <1>2, <1>3

\* What one notification does to the lines, of its task and of others: it
\* queues no more than there is room for, and keeps nothing but what it may.
LEMMA NotifyLines ==
    ASSUME TypeOK, NEW t \in Task, NEW bad \in SUBSET Line,
           NEW rest \in {"held", "lost"}, notify(t, bad, rest), codec' = codec
    PROVE  /\ where' \in [Line -> Place]
           /\ \A l \in Line :
                 /\ where'[l] = "held" => \/ l[1] = t /\ rest = "held"
                                          \/ l[1] # t /\ where[l] = "held"
                 /\ where'[l] \in InQueue => where[l] \in InQueue \/ l[1] = t
           /\ \A d \in Codec : Cardinality(outq(d)') <= QueueMax
<1> DEFINE c == codec[t]
           offered(n) == first(n, batch(t))
           taken(n) == first(room(c), offered(n) \ bad)
<1>1. PICK n \in 1..Cardinality(batch(t)) :
         /\ bad \cup (batch(t) \cap At({"held"})) \subseteq offered(n)
         /\ where' = [l \in Line |->
               IF l \in bad THEN "failed"
               ELSE IF l \in taken(n) THEN "queue"
               ELSE IF l \in offered(n) THEN rest
               ELSE IF l \in Of(c) /\ polls(taken(n)) THEN reported(where[l])
               ELSE where[l]]
  BY DEF notify
<1>2. c \in Codec /\ outq(c) \in SUBSET Line /\ Cardinality(outq(c)) <= QueueMax
  BY DEF TypeOK, outq, Of, At
<1>3. room(c) \in Nat /\ room(c) = QueueMax - Cardinality(outq(c))
  BY <1>2, LinesFinite, LogKafkaAssumption DEF room
<1>4. /\ batch(t) \in SUBSET Line /\ n \in Nat
      /\ \A l \in batch(t) : l[1] = t /\ where[l] \in {"held", "file"}
  BY <1>1 DEF batch, At
<1>5. /\ offered(n) \subseteq batch(t) /\ taken(n) \subseteq offered(n) \ bad
      /\ Cardinality(taken(n)) <= room(c)
  <2> DEFINE S == offered(n) \ bad
  <2>1. offered(n) \subseteq batch(t)
    BY DEF first
  <2>2. S \in SUBSET Line /\ \A l \in S : l[1] = t
    BY <1>4, <2>1
  <2> HIDE DEF S
  <2>3. first(room(c), S) \subseteq S /\ Cardinality(first(room(c), S)) <= room(c)
    BY <1>3, <2>2, FirstBound
  <2> QED BY <2>1, <2>3 DEF S
<1> HIDE DEF c, offered, taken
<1>6. ASSUME NEW l \in Line
      PROVE  /\ reported(where[l]) \in Place
             /\ reported(where[l]) = "held" <=> where[l] = "held"
             /\ reported(where[l]) \in InQueue => where[l] \in InQueue
             /\ where[l] \in Place
  BY DEF reported, Place, InQueue, TypeOK
<1>7. ASSUME NEW l \in Line
      PROVE  /\ where'[l] \in Place
             /\ where'[l] = "held" => \/ l[1] = t /\ rest = "held"
                                      \/ l[1] # t /\ where[l] = "held"
             /\ where'[l] \in InQueue => where[l] \in InQueue \/ l \in taken(n)
  <2>1. l \in batch(t) <=> l[1] = t /\ where[l] \in {"held", "file"}
    BY DEF batch, At
  <2>2. where[l] = "held" /\ l[1] = t => l \in offered(n)
    BY <1>1, <2>1 DEF At
  <2>3. l \in bad => l \in offered(n)
    BY <1>1
  <2>4. CASE l \in bad
    <3>1. where'[l] = "failed"
      BY <1>1, <2>4
    <3> QED BY <3>1 DEF Place, InQueue
  <2>5. CASE l \in taken(n)
    <3>1. where'[l] = "queue"
      BY <1>1, <1>5, <2>5
    <3> QED BY <2>5, <3>1 DEF Place, InQueue
  <2>6. CASE l \in offered(n) \ (bad \cup taken(n))
    <3>1. where'[l] = rest /\ l[1] = t
      BY <1>1, <1>4, <1>5, <2>6
    <3> QED BY <3>1 DEF Place, InQueue
  <2>7. CASE l \notin offered(n)
    <3>1. where'[l] \in {reported(where[l]), where[l]}
      BY <1>1, <1>5, <2>3, <2>7
    <3> QED BY <1>6, <2>2, <2>7, <3>1
  <2> QED BY <1>5, <2>3, <2>4, <2>5, <2>6, <2>7
<1>8. where' \in [Line -> Place]
  <2>1. where' = [l \in Line |-> where'[l]]
    BY <1>1
  <2> QED BY <1>7, <2>1
<1>9. ASSUME NEW d \in Codec
      PROVE  Cardinality(outq(d)') <= QueueMax
  <2>1. outq(d)' = {l \in Line : codec[l[1]] = d /\ where'[l] \in InQueue}
    BY DEF outq, Of, At, InQueue
  <2>2. outq(d) = {l \in Line : codec[l[1]] = d /\ where[l] \in InQueue}
    BY DEF outq, Of, At, InQueue
  <2>3. CASE d = c
    <3>1. outq(d)' \subseteq outq(d) \cup taken(n)
      BY <1>7, <2>1, <2>2
    <3>2. taken(n) \in SUBSET Line
      BY <1>4, <1>5
    <3> QED BY <1>2, <1>3, <1>5, <2>3, <3>1, <3>2, UnionBound, LogKafkaAssumption
  <2>4. CASE d # c
    <3>1. outq(d)' \subseteq outq(d)
      BY <1>4, <1>5, <1>7, <2>1, <2>2, <2>4 DEF c
    <3>2. outq(d) \in SUBSET Line /\ Cardinality(outq(d)) <= QueueMax
      BY <2>2 DEF TypeOK
    <3>3. Cardinality({}) = 0 /\ {} \in SUBSET Line
      BY FS_EmptySet
    <3>4. Cardinality(outq(d)) \in Nat
      BY <3>2, LinesFinite
    <3> QED BY <3>1, <3>2, <3>3, <3>4, UnionBound, LogKafkaAssumption
  <2> QED BY <2>3, <2>4
<1> QED BY <1>4, <1>5, <1>7, <1>8, <1>9

\* A step that queues no line keeps the queues within their limit.
LEMMA SmallerQueue ==
    ASSUME TypeOK, codec' = codec,
           \A l \in Line : where'[l] \in InQueue => where[l] \in InQueue
    PROVE  \A c \in Codec : Cardinality(outq(c)') <= QueueMax
<1> SUFFICES ASSUME NEW c \in Codec PROVE Cardinality(outq(c)') <= QueueMax
  OBVIOUS
<1>1. outq(c)' \subseteq outq(c) /\ outq(c) \in SUBSET Line
  BY DEF outq, Of, At, InQueue
<1>2. /\ IsFiniteSet(outq(c)) /\ Cardinality(outq(c)) \in Nat /\ Cardinality(outq(c)') \in Nat
      /\ Cardinality(outq(c)) <= QueueMax
  BY <1>1, LinesFinite DEF TypeOK
<1>3. Cardinality(outq(c)') <= Cardinality(outq(c))
  BY <1>1, <1>2, FS_Subset
<1> QED BY <1>2, <1>3, LogKafkaAssumption

\* Min of a set of tasks is one of them, so that stopWatchers stops each.
LEMMA SmallestTask ==
    ASSUME NEW S \in SUBSET Task, S # {}
    PROVE  Min(S) \in S
<1> DEFINE R == OpToRel(<, Nat)
<1>1. S \subseteq Nat
  BY DEF Task
<1>2. IsWellFoundedOn(R, Nat)
  BY NatLessThanWellFounded
<1>3. PICK x \in S : \A y \in S : ~(<<y, x>> \in R)
  <2> HIDE DEF R
  <2> QED BY <1>1, <1>2, WFMin
<1>4. \A y \in S : ~(y < x)
  BY <1>1, <1>3 DEF OpToRel
<1>5. \A y \in S : x =< y
  BY <1>1, <1>4
<1> QED BY <1>5 DEF Min

\* A report that is served takes a line out of the queue, and nothing else.
LEMMA Reported ==
    ASSUME NEW place \in Place
    PROVE  /\ reported(place) \in Place
           /\ reported(place) = "held" => place = "held"
           /\ reported(place) \in InQueue => place \in InQueue
BY DEF reported, Place, InQueue
-----------------------------------------------------------------------------
\* The initial states satisfy the invariant.
LEMMA InitInv == Init => IInv
<1> SUFFICES ASSUME Init PROVE IInv
  OBVIOUS
<1>1. \A l \in Line : where[l] = "unwritten"
  BY DEF Init
<1>2. \A c \in Codec : outq(c) = {}
  BY <1>1 DEF outq, At
<1>3. \A c \in Codec : Cardinality(outq(c)) <= QueueMax
  BY <1>2, FS_EmptySet, LogKafkaAssumption
<1>4. TypeOK
  BY <1>3 DEF Init, TypeOK, Phase, Place
<1> QED BY <1>1, <1>4 DEF Init, IInv, TailsWhen, HeldByTail, QueuedInProducer, AllDestroyed, InQueue

\* Every step preserves the invariant.
LEMMA NextInv == IInv /\ [Next]_vars => IInv'
<1> SUFFICES ASSUME IInv, [Next]_vars PROVE IInv'
  OBVIOUS
<1> USE LogKafkaAssumption
<1>t. TypeOK
  BY DEF IInv
\* Steps that leave the lines alone.
<1>1. ASSUME UNCHANGED <<codec, where>>,
             phase' \in Phase, tails' \subseteq Task, urls' \subseteq Broker,
             made' \subseteq Codec, known' \in [Codec -> SUBSET Broker], up' \subseteq Broker,
             \A t \in tails' : codec[t] \in made',
             TailsWhen', AllDestroyed', tails \subseteq tails',
             \A l \in Line : where[l] \in InQueue => codec[l[1]] \in made'
      PROVE  IInv'
  <2>1. \A c \in Codec : Cardinality(outq(c)') <= QueueMax
    BY <1>1, <1>t, SmallerQueue
  <2>2. TypeOK'
    BY <1>1, <2>1 DEF TypeOK, IInv
  <2> QED BY <1>1, <2>2 DEF IInv, HeldByTail, QueuedInProducer
<1>2. CASE Start \/ StartFails \/ Signal \/ LoopEnds \/ Exit \/ SignalAgain
  <2>1. /\ phase' \in Phase /\ UNCHANGED <<codec, tails, urls, made, known, up, where>>
        /\ TailsWhen' /\ AllDestroyed'
    BY <1>2 DEF Start, StartFails, Signal, LoopEnds, closesZookeeper, Exit, SignalAgain, Phase, TailsWhen,
       AllDestroyed, IInv
  <2> QED BY <1>1, <2>1 DEF IInv, TypeOK, QueuedInProducer
<1>3. CASE RefreshBrokerUrls \/ RefreshBrokerUrlsFails
  <2>1. urls' \subseteq Broker
    BY <1>3 DEF RefreshBrokerUrls, RefreshBrokerUrlsFails, Broker
  <2>2. UNCHANGED <<phase, codec, tails, made, known, up, where>>
    BY <1>3 DEF RefreshBrokerUrls, RefreshBrokerUrlsFails
  <2> QED BY <1>1, <2>1, <2>2 DEF IInv, TypeOK, QueuedInProducer, TailsWhen, AllDestroyed
<1>4. ASSUME NEW b \in Broker, BrokerDown(b) \/ BrokerUp(b)
      PROVE  IInv'
  <2>1. up' \subseteq Broker /\ UNCHANGED <<phase, codec, tails, urls, made, known, where>>
    BY <1>4 DEF BrokerDown, BrokerUp, IInv, TypeOK
  <2> QED BY <1>1, <2>1 DEF IInv, TypeOK, QueuedInProducer, TailsWhen, AllDestroyed
<1>5. ASSUME NEW t \in Task, StartWatcher(t)
      PROVE  IInv'
  <2>1. /\ phase = "running" /\ UNCHANGED <<phase, codec, urls, up, where>>
        /\ tails' = tails \cup {t} /\ initProducer(codec[t])
    BY <1>5 DEF StartWatcher
  <2>2. codec[t] \in Codec
    BY DEF IInv, TypeOK
  <2>3. made' = made \cup {codec[t]} /\ known' \in [Codec -> SUBSET Broker]
    BY <2>1, <2>2 DEF initProducer, producerInit, IInv, TypeOK
  <2>4. made' \subseteq Codec
    BY <2>2, <2>3 DEF IInv, TypeOK
  <2> QED BY <1>1, <2>1, <2>3, <2>4 DEF IInv, TypeOK, QueuedInProducer, TailsWhen, AllDestroyed
<1>6. ASSUME NEW c \in Codec, DestroyProducer(c)
      PROVE  IInv'
  <2>1. /\ phase = "closing" /\ made' = made \ {c} /\ outq(c) = {}
        /\ UNCHANGED <<phase, codec, tails, urls, known, up, where>>
    BY <1>6 DEF DestroyProducer, closing, drained
  <2>2. tails = {}
    BY <2>1 DEF IInv, TailsWhen
  <2>3. \A l \in Line : where[l] \in InQueue => codec[l[1]] \in made'
    BY <2>1 DEF IInv, QueuedInProducer, outq, Of, At, InQueue
  <2> QED BY <1>1, <2>1, <2>2, <2>3 DEF IInv, TypeOK, TailsWhen, AllDestroyed
\* Notifications.
<1>7. ASSUME NEW t \in Task, NEW bad \in Refusable, Notify(t, bad)
      PROVE  IInv'
  <2>1. /\ bad \in SUBSET Line /\ t \in tails /\ notify(t, bad, "held")
        /\ UNCHANGED <<phase, codec, tails, urls, made, known, up>>
    BY <1>7 DEF Notify, Refusable
  <2>2. /\ where' \in [Line -> Place]
        /\ \A l \in Line :
             /\ where'[l] = "held" => l[1] = t \/ where[l] = "held"
             /\ where'[l] \in InQueue => where[l] \in InQueue \/ l[1] = t
        /\ \A d \in Codec : Cardinality(outq(d)') <= QueueMax
    BY <1>t, <2>1, NotifyLines
  <2>3. TypeOK'
    BY <2>1, <2>2 DEF IInv, TypeOK
  <2>4. codec[t] \in made
    BY <2>1 DEF IInv, TypeOK
  <2> QED BY <2>1, <2>2, <2>3, <2>4
          DEF IInv, TailsWhen, HeldByTail, QueuedInProducer, AllDestroyed
<1>8. ASSUME NEW t \in Task, StopWatcher(t)
      PROVE  IInv'
  <2>1. /\ phase = "stopping" /\ tails' = tails \ {t}
        /\ UNCHANGED <<phase, codec, urls, made, known, up>>
    BY <1>8 DEF StopWatcher
  <2>2. /\ where' \in [Line -> Place]
        /\ \A l \in Line :
             /\ where'[l] = "held" => l[1] # t /\ where[l] = "held"
             /\ where'[l] \in InQueue => where[l] \in InQueue \/ (l[1] = t /\ t \in tails)
        /\ \A d \in Codec : Cardinality(outq(d)') <= QueueMax
    <3>1. CASE \E bad \in Refusable : notify(t, bad, "lost")
      <4>1. PICK bad \in SUBSET Line : notify(t, bad, "lost")
        BY <3>1 DEF Refusable
      <4>2. t \in tails
        BY <1>8, SmallestTask DEF StopWatcher, IInv, TypeOK
      <4> QED BY <1>t, <2>1, <4>1, <4>2, NotifyLines
    <3>2. CASE batch(t) = {} /\ UNCHANGED where
      <4>1. \A l \in Line : where[l] = "held" => l[1] # t
        BY <3>2 DEF batch, At
      <4> QED BY <1>t, <2>1, <3>2, <4>1, SmallerQueue DEF TypeOK
    <3> QED BY <1>8, <3>1, <3>2 DEF StopWatcher
  <2>3. TypeOK'
    BY <2>1, <2>2 DEF IInv, TypeOK
  <2>4. t \in tails => codec[t] \in made
    BY DEF IInv, TypeOK
  <2> QED BY <2>1, <2>2, <2>3, <2>4
          DEF IInv, TailsWhen, HeldByTail, QueuedInProducer, AllDestroyed
\* Steps of librdkafka, of the closing producer and of the writer: a line goes
\* to a place where it is not held, and enters no queue.
<1>9. ASSUME UNCHANGED <<phase, codec, tails, urls, made, up>>,
             known' \in [Codec -> SUBSET Broker], where' \in [Line -> Place],
             \A l \in Line : /\ where'[l] = "held" => where[l] = "held"
                             /\ where'[l] \in InQueue => where[l] \in InQueue
      PROVE  IInv'
  <2>1. \A c \in Codec : Cardinality(outq(c)') <= QueueMax
    BY <1>9, <1>t, SmallerQueue
  <2>2. TypeOK'
    BY <1>9, <2>1 DEF IInv, TypeOK
  <2> QED BY <1>9, <2>2 DEF IInv, TailsWhen, HeldByTail, QueuedInProducer, AllDestroyed
<1>10. ASSUME NEW c \in Codec, PollClosing(c)
       PROVE  IInv'
  <2>1. /\ UNCHANGED <<phase, codec, tails, urls, made, known, up>>
        /\ where' = [l \in Line |-> IF l \in Of(c) THEN reported(where[l]) ELSE where[l]]
    BY <1>10 DEF PollClosing, servesReports
  <2>2. \A l \in Line : where[l] \in Place
    BY DEF IInv, TypeOK
  <2>3. /\ where' \in [Line -> Place]
        /\ \A l \in Line : /\ where'[l] = "held" => where[l] = "held"
                           /\ where'[l] \in InQueue => where[l] \in InQueue
    BY <2>1, <2>2, Reported
  <2> QED BY <1>9, <2>1, <2>3 DEF IInv, TypeOK
<1>11. ASSUME NEW c \in Codec, Deliver(c) \/ GiveUp(c)
       PROVE  IInv'
  <2>1. PICK l \in Of(c) \cap At({"queue"}), place \in {"delivered", "undelivered"} :
            where' = [where EXCEPT ![l] = place]
    BY <1>11 DEF Deliver, GiveUp
  <2>2. UNCHANGED <<phase, codec, tails, urls, made, up>> /\ known' \in [Codec -> SUBSET Broker]
    BY <1>11 DEF Deliver, GiveUp, IInv, TypeOK
  <2>3. l \in Line /\ where[l] = "queue"
    BY <2>1 DEF At
  <2>4. /\ where' \in [Line -> Place]
        /\ \A k \in Line : /\ where'[k] = "held" => where[k] = "held"
                           /\ where'[k] \in InQueue => where[k] \in InQueue
    BY <2>1, <2>3 DEF IInv, TypeOK, Place, InQueue
  <2> QED BY <1>9, <2>2, <2>4
<1>12. ASSUME NEW t \in Task, Write(t)
       PROVE  IInv'
  <2>1. PICK n \in 1..MaxLines : where' = [where EXCEPT ![<<t, n>>] = "file"]
    BY <1>12 DEF Write
  <2>2. UNCHANGED <<phase, codec, tails, urls, made, known, up>>
    BY <1>12 DEF Write
  <2>3. /\ where' \in [Line -> Place]
        /\ \A k \in Line : /\ where'[k] = "held" => where[k] = "held"
                           /\ where'[k] \in InQueue => where[k] \in InQueue
    BY <2>1 DEF IInv, TypeOK, Place, InQueue
  <2> QED BY <1>9, <2>2, <2>3 DEF IInv, TypeOK
<1>13. CASE UNCHANGED vars
  BY <1>9, <1>13 DEF vars, IInv, TypeOK
<1> QED BY <1>2, <1>3, <1>4, <1>5, <1>6, <1>7, <1>8, <1>10, <1>11, <1>12, <1>13 DEF Next, Ending
-----------------------------------------------------------------------------
\* The type invariant: in particular librdkafka's queue stays within its limit
\* whatever the tasks of a codec send in whatever order, and the producer that
\* OutputKafka::output uses without a check is always there.
THEOREM TypeCorrect == Spec => []TypeOK
<1>1. IInv => TypeOK
  BY DEF IInv
<1> QED BY <1>1, InitInv, NextInv, PTL DEF Spec

\* A process that has ended in order has left no line in a tail watcher or in
\* the queue of a producer, for any number of tasks and producers, whatever
\* brokers were down and whatever librdkafka refused or gave up.
THEOREM ExitDrainedAlways == Spec => []ExitDrained
<1>1. IInv => ExitDrained
  BY DEF IInv, ExitDrained, TailsWhen, HeldByTail, QueuedInProducer, AllDestroyed, InQueue, At
<1> QED BY <1>1, InitInv, NextInv, PTL DEF Spec
=============================================================================
