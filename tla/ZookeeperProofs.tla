-------------------------- MODULE ZookeeperProofs --------------------------
(***************************************************************************)
(* Zookeeper for every number of sessions, versions and failing calls, and *)
(* with every fault: the steps a thread has left say which mutexes it      *)
(* holds, so no two threads read the configuration at the same time and an *)
(* old configuration never replaces a newer one; and as long as no call    *)
(* fails no change of the configuration is missed.                         *)
(***************************************************************************)
EXTENDS Zookeeper, SequenceTheorems, TLAPS

\* The steps taken while the mutex of the handle is held.
OnHandle == {"reconnect", "set watcher", "set children watcher", "get client",
             "create client", "closing"}

\* The step a thread takes next.
first(q) == IF q = <<>> THEN "none" ELSE q[1]

\* What the steps left of a thread look like: those that hold a mutex come
\* first, and a read is followed by the configuration.
Plan(q) ==
    /\ q \in Seq(Step)
    /\ \A k \in 1..Len(q) :
         /\ q[k] \in OnHandle \cup {"exists", "store", "close"} => k = 1
         /\ q[k] = "exists" => Len(q) >= 3 /\ q[2] = "read" /\ q[3] = "config"
         /\ q[k] = "read" => /\ k < Len(q) /\ q[k + 1] = "config"
                             /\ k = 1 \/ (k = 2 /\ q[1] = "exists")
         /\ q[k] = "store" => Len(q) >= 2 /\ q[2] = "config"

\* The thread with these steps left holds the mutex.
holds(q, m) ==
    \/ m = "zhandle" /\ first(q) \in OnHandle
    \/ m = "config" /\ first(q) \in {"exists", "read", "store"}

Plans == \A t \in Thread : Plan(todo[t])
Held == \A m \in Mutex, t \in Thread : mutex[m] = t <=> holds(todo[t], m)

\* The main thread waits once init has returned; a thread that connects has
\* reason to.
Life ==
    /\ run = "up" => idle(Main)
    /\ running => \A t \in Thread : first(todo[t]) = "reconnect" => mustConnect

\* Sessions are used one after the other; only the one of the handle lives, and
\* there is another one left when it must be replaced.
Sessions ==
    /\ \E n \in 0..MaxSessions : \A s \in Session : session[s] # "unused" <=> s <= n
    /\ m_zhandle # NULL => \A s \in Session : session[s] # "unused" <=> s <= m_zhandle
    /\ running /\ m_zhandle = NULL => session[MaxSessions] = "unused"
    /\ \A s \in Session : session[s] = "expired" => s < MaxSessions
    /\ \A s \in Session : session[s] = "live" => s = m_zhandle

\* What a thread has read is not older than what the process has.
ValueOf(t) ==
    /\ first(todo[t]) \notin {"read", "store"} => value[t] = 0
    /\ first(todo[t]) = "read" =>
         /\ value[t] \in 0..version["config"]
         /\ value[t] = 0 \/ of(cache["config"]) <= value[t]
    /\ first(todo[t]) = "store" =>
         /\ of(value[t]) <= version["config"]
         /\ of(cache["config"]) <= of(value[t])
         /\ value[t] < 0 => of(cache["config"]) < of(value[t])
Values == \A t \in Thread : ValueOf(t)

\* The part of the invariant about the threads and the mutexes.
Locking ==
    /\ todo \in [Thread -> Seq(Step)]
    /\ mutex \in [Mutex -> Thread \cup {Free}]
    /\ \A m \in Mutex : mutex[m] # Free => ~idle(mutex[m])
    /\ Plans /\ Held

IInv == TypeOK /\ Plans /\ Held /\ Life /\ Sessions /\ Values
-----------------------------------------------------------------------------
\* A step is done, and the next one is begun (goOn with no step).
LEMMA Popped ==
    ASSUME NEW q, Plan(q), q # <<>>
    PROVE  /\ Plan(<<>> \o Tail(q))
           /\ first(q) = "exists" => first(<<>> \o Tail(q)) = "read"
           /\ first(q) # "exists" =>
                first(<<>> \o Tail(q)) \notin OnHandle \cup {"exists", "read", "store", "close"}
<1> DEFINE r == <<>> \o Tail(q)
<1>1. /\ q \in Seq(Step) /\ Len(q) > 0
      /\ r \in Seq(Step) /\ Len(r) = Len(q) - 1
      /\ \A k \in 1..Len(r) : r[k] = q[k + 1]
      /\ first(q) = q[1]
  BY DEF Plan, first
<1> HIDE DEF r
<1>5. Len(q) = 1 => first(r) = "none"
  BY <1>1 DEF first
<1>6. Len(q) > 1 => r # <<>> /\ first(r) = q[2]
  BY <1>1 DEF first
<1>2. Plan(r)
  BY <1>1 DEF Plan
<1>3. first(q) = "exists" => first(r) = "read"
  <2>1. q[1] = "exists" => Len(q) >= 3 /\ q[2] = "read" /\ q[3] = "config"
    BY <1>1 DEF Plan
  <2> QED BY <1>1, <1>6, <2>1
<1>4. first(q) # "exists" =>
         first(r) \notin OnHandle \cup {"exists", "read", "store", "close"}
  <2>1. CASE Len(q) = 1
    BY <1>5, <2>1 DEF OnHandle
  <2>2. CASE Len(q) # 1
    <3>1. 2 \in 1..Len(q) /\ first(r) = q[2]
      BY <1>1, <1>6, <2>2
    <3>2. q[2] \notin OnHandle \cup {"exists", "store", "close"}
      BY <3>1 DEF Plan
    <3>3. q[2] = "read" => q[1] = "exists"
      BY <3>1 DEF Plan
    <3> QED BY <1>1, <3>1, <3>2, <3>3
  <2> QED BY <2>1, <2>2
<1> QED BY <1>2, <1>3, <1>4 DEF r

\* The mutex of the handle is taken, or kept for another step.
LEMMA Pushed ==
    ASSUME NEW q, Plan(q), q # <<>>, first(q) \notin {"exists", "read", "store"},
           NEW x \in OnHandle
    PROVE  Plan(<<x>> \o Tail(q)) /\ first(<<x>> \o Tail(q)) = x
<1> DEFINE r == <<x>> \o Tail(q)
<1>0. OnHandle \subseteq Step
  BY DEF OnHandle, Step
<1>1. /\ q \in Seq(Step) /\ Len(q) > 0
      /\ r \in Seq(Step) /\ Len(r) = Len(q)
      /\ r[1] = x /\ \A k \in 2..Len(r) : r[k] = q[k]
      /\ first(q) = q[1]
      /\ first(r) = x
  BY <1>0 DEF Plan, first
<1> HIDE DEF r
<1>2. x \notin {"exists", "read", "store"}
  BY DEF OnHandle
<1>3. Plan(r)
  BY <1>1, <1>2 DEF Plan
<1> QED BY <1>1, <1>3 DEF r

\* What was read is to be stored.
LEMMA ReadDone ==
    ASSUME NEW q, Plan(q), first(q) = "read"
    PROVE  /\ Plan(<<"store">> \o Tail(q)) /\ first(<<"store">> \o Tail(q)) = "store"
<1> DEFINE r == <<"store">> \o Tail(q)
<1>0. q # <<>> /\ "store" \in Step
  BY DEF first, Step
<1>1. /\ q \in Seq(Step) /\ Len(q) > 0
      /\ r \in Seq(Step) /\ Len(r) = Len(q)
      /\ r[1] = "store" /\ \A k \in 2..Len(r) : r[k] = q[k]
      /\ q[1] = "read"
      /\ first(r) = "store"
  BY <1>0 DEF Plan, first
<1> HIDE DEF r
<1>2. Len(q) >= 2 /\ q[2] = "config"
  BY <1>1 DEF Plan
<1>3. Plan(r)
  BY <1>1, <1>2 DEF Plan
<1> QED BY <1>1, <1>2, <1>3 DEF r

\* A thread begins to read.
LEMMA Prepended ==
    ASSUME NEW q, Plan(q), first(q) = "config"
    PROVE  /\ Plan(<<"exists", "read">> \o q)
           /\ first(<<"exists", "read">> \o q) = "exists"
<1> DEFINE r == <<"exists", "read">> \o q
<1>0. q # <<>> /\ "exists" \in Step /\ "read" \in Step
  BY DEF first, Step
<1>1. /\ q \in Seq(Step) /\ Len(q) > 0 /\ q[1] = "config"
  BY <1>0 DEF Plan, first
<1>2. /\ r \in Seq(Step) /\ Len(r) = Len(q) + 2
      /\ r[1] = "exists" /\ r[2] = "read" /\ r[3] = "config"
      /\ \A k \in 3..Len(r) : r[k] = q[k - 2]
      /\ first(r) = "exists"
  BY <1>0, <1>1 DEF first
<1> HIDE DEF r
<1>3. Plan(r)
  <2>1. \A k \in 1..Len(q) : q[k] \notin OnHandle \cup {"exists", "store", "close", "read"}
    BY <1>1 DEF Plan, OnHandle
  <2>2. \A k \in 3..Len(r) : r[k] \notin OnHandle \cup {"exists", "store", "close", "read"}
    BY <1>1, <1>2, <2>1
  <2>3. \A k \in 1..Len(r) : k = 1 \/ k = 2 \/ k \in 3..Len(r)
    BY <1>1, <1>2
  <2>4. r[1] \notin OnHandle /\ r[2] \notin OnHandle
    BY <1>2 DEF OnHandle
  <2> QED BY <1>1, <1>2, <2>2, <2>3, <2>4 DEF Plan
<1> QED BY <1>2, <1>3 DEF r

\* A thread has read or stored, and goes on after it.
LEMMA Dropped ==
    ASSUME NEW q, Plan(q), first(q) \in {"read", "store"}
    PROVE  /\ Plan(SubSeq(q, 3, Len(q)))
           /\ first(SubSeq(q, 3, Len(q))) \notin OnHandle \cup {"exists", "read", "store", "close"}
<1> DEFINE r == SubSeq(q, 3, Len(q))
<1>0. q # <<>>
  BY DEF first
<1>1. q \in Seq(Step) /\ Len(q) >= 2 /\ q[1] \in {"read", "store"} /\ q[2] = "config"
  BY <1>0 DEF Plan, first
<1>7. Len(q) \in Nat /\ (Len(q) # 2 => Len(q) > 2)
  <2>1. Len(q) \in Nat
    BY <1>1, LenProperties
  <2>2. \A n \in Nat : n >= 2 => (n # 2 => n > 2)
    OBVIOUS
  <2> QED BY <1>1, <2>1, <2>2
<1>2. /\ r \in Seq(Step) /\ Len(r) = Len(q) - 2
      /\ \A k \in 1..Len(r) : r[k] = q[k + 2]
  <2>1. CASE Len(q) = 2
    <3>1. r = <<>>
      BY <1>1, <2>1
    <3> QED BY <1>1, <2>1, <3>1
  <2>2. CASE Len(q) # 2
    <3>1. 3 \in 1..Len(q) /\ Len(q) \in 1..Len(q) /\ Len(q) \in Nat
      BY <1>7, <2>2
    <3> QED BY <1>1, <3>1, SubSeqProperties
  <2> QED BY <2>1, <2>2
<1> HIDE DEF r
<1>5. Len(q) = 2 => first(r) = "none"
  BY <1>1, <1>2 DEF first
<1>6. Len(q) > 2 => r # <<>> /\ first(r) = q[3]
  BY <1>1, <1>2 DEF first
<1>3. Plan(r)
  BY <1>1, <1>2 DEF Plan
<1>4. first(r) \notin OnHandle \cup {"exists", "read", "store", "close"}
  <2>1. CASE Len(q) = 2
    BY <1>5, <2>1 DEF OnHandle
  <2>2. CASE Len(q) # 2
    <3>1. 3 \in 1..Len(q) /\ first(r) = q[3]
      BY <1>6, <1>7, <2>2
    <3>2. q[3] \notin OnHandle \cup {"exists", "store", "close"} /\ q[3] # "read"
      BY <3>1 DEF Plan
    <3> QED BY <3>1, <3>2
  <2> QED BY <2>1, <2>2
<1> QED BY <1>1, <1>3, <1>4 DEF r

\* A thread begins: refresh, a watcher, or close; or it has nothing left.
LEMMA Begun ==
    ASSUME NEW q \in {refresh, <<"watchers">>, <<"watchers", "config">>,
                      <<"watchers", "brokers">>, <<"close">>, <<>>}
    PROVE  Plan(q) /\ first(q) \notin OnHandle \cup {"exists", "read", "store"}
<1> DEFINE Plain == {"connection", "brokers", "watchers", "config"}
<1>1. /\ Plain \subseteq Step /\ "close" \in Step
      /\ \A x \in Plain : x \notin OnHandle \cup {"exists", "store", "close", "read"}
  BY DEF Step, OnHandle
<1>2. ASSUME q \in Seq(Plain) PROVE Plan(q) /\ first(q) \notin OnHandle \cup {"exists", "read", "store"}
  <2> HIDE DEF Plain
  <2>1. q \in Seq(Step) /\ \A k \in 1..Len(q) : q[k] \in Plain
    BY <1>1, <1>2
  <2>2. Plan(q)
    BY <1>1, <2>1 DEF Plan
  <2>3. CASE q = <<>>
    BY <2>2, <2>3 DEF first, OnHandle
  <2>4. CASE q # <<>>
    <3>1. first(q) \in Plain
      BY <2>1, <2>4 DEF first
    <3> QED BY <1>1, <2>2, <3>1
  <2> QED BY <2>3, <2>4
<1>3. CASE q = <<"close">>
  <2>1. q \in Seq(Step) /\ Len(q) = 1 /\ q[1] = "close" /\ q # <<>>
    BY <1>1, <1>3
  <2>2. Plan(q)
    BY <2>1 DEF Plan, OnHandle
  <2> QED BY <2>1, <2>2 DEF first, OnHandle
<1>4. CASE q # <<"close">>
  <2>1. /\ refresh \in Seq(Plain) /\ <<"watchers">> \in Seq(Plain)
        /\ <<"watchers", "config">> \in Seq(Plain)
        /\ <<"watchers", "brokers">> \in Seq(Plain) /\ <<>> \in Seq(Plain)
    BY DEF refresh
  <2> QED BY <1>2, <1>4, <2>1
<1> QED BY <1>3, <1>4

\* A thread at work is at its first step.
LEMMA AtFirst ==
    ASSUME NEW t \in Thread, NEW x, x # "none"
    PROVE  at(t, x) => running /\ todo[t] # <<>> /\ first(todo[t]) = x
BY DEF at, first

\* Thread t takes a step; what it has left and the mutexes it holds change
\* together.
LEMMA Moves ==
    ASSUME IInv, running, NEW t \in Thread, NEW r, Plan(r),
           todo' = [todo EXCEPT ![t] = r],
           mutex' \in [Mutex -> Thread \cup {Free}],
           \A m \in Mutex : mutex'[m] = t <=> holds(r, m),
           \A m \in Mutex, u \in Thread : u # t => (mutex'[m] = u <=> mutex[m] = u)
    PROVE  Locking'
<1> USE DEF IInv
<1>1. /\ todo \in [Thread -> Seq(Step)]
      /\ todo' \in [Thread -> Seq(Step)]
      /\ todo'[t] = r /\ \A u \in Thread : u # t => todo'[u] = todo[u]
  BY DEF TypeOK, Plan
<1>2. Plans'
  BY <1>1 DEF Plans
<1>3. ASSUME NEW m \in Mutex, NEW u \in Thread PROVE mutex'[m] = u <=> holds(todo'[u], m)
  BY <1>1, <1>3 DEF Held
<1>4. ASSUME NEW m \in Mutex, mutex'[m] # Free PROVE todo'[mutex'[m]] # <<>>
  <2>1. mutex'[m] \in Thread
    BY <1>4
  <2>2. holds(todo'[mutex'[m]], m)
    BY <1>3, <2>1
  <2> QED BY <2>2 DEF holds, first, OnHandle
<1> QED BY <1>1, <1>2, <1>3, <1>4 DEF Locking, Held, idle

\* It neither changes the handle nor ends the process.
LEMMA MovesOn ==
    ASSUME IInv, running, NEW t \in Thread, NEW r, Plan(r),
           todo' = [todo EXCEPT ![t] = r],
           UNCHANGED <<m_zhandle, session>>,
           run' \in {run, "exited"},
           todo[t] # <<>> \/ t # Main,
           first(r) = "reconnect" => mustConnect
    PROVE  Life' /\ Sessions'
<1>1. /\ todo \in [Thread -> Seq(Step)] /\ Life /\ Sessions /\ Main \in Thread
      /\ todo'[t] = r /\ \A u \in Thread : u # t => todo'[u] = todo[u]
  BY ZookeeperAssumption DEF IInv, TypeOK, Main, Thread
<1>2. mustConnect' = mustConnect
  BY DEF mustConnect
<1>3. (run = "up" => idle(Main))'
  BY <1>1 DEF Life, idle
<1>4. \A u \in Thread : first(todo'[u]) = "reconnect" => mustConnect
  BY <1>1 DEF Life
<1>5. Life'
  BY <1>2, <1>3, <1>4 DEF Life
<1>6. Sessions'
  BY <1>1 DEF Sessions, running
<1> QED BY <1>5, <1>6

\* It reads and stores nothing.
LEMMA MovesAway ==
    ASSUME IInv, NEW t \in Thread, NEW r,
           todo' = [todo EXCEPT ![t] = r],
           UNCHANGED <<version, cache, value>>,
           first(todo[t]) \notin {"read", "store"},
           first(r) \notin {"read", "store"}
    PROVE  Values'
<1>1. /\ todo \in [Thread -> Seq(Step)] /\ Values
      /\ todo'[t] = r /\ \A u \in Thread : u # t => todo'[u] = todo[u]
  BY DEF IInv, TypeOK
<1>2. ASSUME NEW u \in Thread PROVE ValueOf(u)'
  <2>1. CASE u = t
    BY <1>1, <2>1 DEF Values, ValueOf
  <2>2. CASE u # t
    BY <1>1, <2>2 DEF Values, ValueOf
  <2> QED BY <2>1, <2>2
<1> QED BY <1>2 DEF Values
-----------------------------------------------------------------------------
\* The steps that hold no mutex.
Unlocked == Step \ (OnHandle \cup {"exists", "read", "store"})

\* Which mutexes a thread holds at its first step.
LEMMA HoldsAt ==
    ASSUME NEW q, NEW m \in Mutex
    PROVE  /\ first(q) \in Unlocked \cup {"none"} => ~holds(q, m)
           /\ first(q) \in OnHandle => (holds(q, m) <=> m = "zhandle")
           /\ first(q) \in {"exists", "read", "store"} => (holds(q, m) <=> m = "config")
BY DEF holds, OnHandle, Unlocked, Mutex

\* A thread takes the mutex of the handle.
LEMMA Takes ==
    ASSUME IInv, NEW t \in Thread, NEW s \in Unlocked, at(t, s), NEW x \in OnHandle,
           take(t, "zhandle"), goOn(t, <<x>>)
    PROVE  /\ Locking'
           /\ Plan(<<x>> \o Tail(todo[t])) /\ first(<<x>> \o Tail(todo[t])) = x
<1> DEFINE q == todo[t]
           r == <<x>> \o Tail(q)
<1>1. running /\ q # <<>> /\ first(q) = s /\ Plan(q) /\ s \notin {"exists", "read", "store"}
  BY AtFirst DEF IInv, Plans, Unlocked, Step
<1>2. Plan(r) /\ first(r) = x
  BY <1>1, Pushed
<1>3. todo' = [todo EXCEPT ![t] = r]
  BY DEF goOn
<1> HIDE DEF q, r
<1>4. /\ mutex' \in [Mutex -> Thread \cup {Free}]
      /\ mutex'["zhandle"] = t /\ mutex["zhandle"] = Free
      /\ \A m \in Mutex : m # "zhandle" => mutex'[m] = mutex[m]
  BY DEF take, IInv, TypeOK, Mutex
<1>5. Free \notin Thread
  BY ZookeeperAssumption DEF Free, Thread
<1>6. \A m \in Mutex : mutex'[m] = t <=> holds(r, m)
  BY <1>1, <1>2, <1>4, HoldsAt DEF q, Held, IInv
<1>7. \A m \in Mutex, u \in Thread : u # t => (mutex'[m] = u <=> mutex[m] = u)
  BY <1>4, <1>5
<1>8. Locking'
  BY <1>1, <1>2, <1>3, <1>4, <1>6, <1>7, Moves
<1> QED BY <1>2, <1>8 DEF r, q

\* It keeps it for the next step.
LEMMA Keeps ==
    ASSUME IInv, NEW t \in Thread, NEW s \in OnHandle, at(t, s), NEW x \in OnHandle,
           UNCHANGED mutex, goOn(t, <<x>>)
    PROVE  /\ Locking'
           /\ Plan(<<x>> \o Tail(todo[t])) /\ first(<<x>> \o Tail(todo[t])) = x
<1> DEFINE q == todo[t]
           r == <<x>> \o Tail(q)
<1>1. running /\ q # <<>> /\ first(q) = s /\ Plan(q) /\ s \notin {"exists", "read", "store"}
  BY AtFirst DEF IInv, Plans, OnHandle
<1>2. Plan(r) /\ first(r) = x
  BY <1>1, Pushed
<1>3. todo' = [todo EXCEPT ![t] = r]
  BY DEF goOn
<1> HIDE DEF q, r
<1>4. mutex' \in [Mutex -> Thread \cup {Free}]
  BY DEF IInv, TypeOK
<1>6. \A m \in Mutex : mutex'[m] = t <=> holds(r, m)
  BY <1>1, <1>2, HoldsAt DEF q, Held, IInv
<1>8. Locking'
  BY <1>1, <1>2, <1>3, <1>4, <1>6, Moves
<1> QED BY <1>2, <1>8 DEF r, q

\* It gives it up.
LEMMA Leaves ==
    ASSUME IInv, NEW t \in Thread, NEW s \in OnHandle, at(t, s), leave(t)
    PROVE  /\ Locking'
           /\ Plan(<<>> \o Tail(todo[t]))
           /\ first(<<>> \o Tail(todo[t])) \in Unlocked \cup {"none"}
           /\ todo' = [todo EXCEPT ![t] = <<>> \o Tail(todo[t])]
<1> DEFINE q == todo[t]
           r == <<>> \o Tail(q)
<1>1. running /\ q # <<>> /\ first(q) = s /\ Plan(q) /\ s # "exists"
  BY AtFirst DEF IInv, Plans, OnHandle
<1>2. Plan(r) /\ first(r) \notin OnHandle \cup {"exists", "read", "store"}
  BY <1>1, Popped
<1>3. todo' = [todo EXCEPT ![t] = r]
  BY DEF goOn, leave
<1> HIDE DEF q, r
<1>4. /\ mutex' \in [Mutex -> Thread \cup {Free}]
      /\ mutex'["zhandle"] = Free /\ mutex["zhandle"] = t
      /\ \A m \in Mutex : m # "zhandle" => mutex'[m] = mutex[m]
  BY <1>1, HoldsAt DEF leave, release, IInv, TypeOK, Mutex, Held, q
<1>5. Free \notin Thread
  BY ZookeeperAssumption DEF Free, Thread
<1>9. first(r) \in Unlocked \cup {"none"}
  BY <1>2 DEF Unlocked, Plan, first
<1>6. \A m \in Mutex : mutex'[m] = t <=> holds(r, m)
  BY <1>1, <1>9, <1>4, <1>5, HoldsAt DEF q, Held, IInv
<1>7. \A m \in Mutex, u \in Thread : u # t => (mutex'[m] = u <=> mutex[m] = u)
  BY <1>4, <1>5
<1>8. Locking'
  BY <1>1, <1>2, <1>3, <1>4, <1>6, <1>7, Moves
<1> QED BY <1>2, <1>3, <1>8, <1>9 DEF r, q

\* It goes on without a mutex.
LEMMA Skips ==
    ASSUME IInv, NEW t \in Thread, NEW s \in Unlocked, at(t, s),
           UNCHANGED mutex, goOn(t, <<>>)
    PROVE  /\ Locking'
           /\ Plan(<<>> \o Tail(todo[t]))
           /\ first(<<>> \o Tail(todo[t])) \in Unlocked \cup {"none"}
           /\ todo' = [todo EXCEPT ![t] = <<>> \o Tail(todo[t])]
<1> DEFINE q == todo[t]
           r == <<>> \o Tail(q)
<1>1. running /\ q # <<>> /\ first(q) = s /\ Plan(q) /\ s # "exists"
  BY AtFirst DEF IInv, Plans, Unlocked, Step
<1>2. Plan(r) /\ first(r) \notin OnHandle \cup {"exists", "read", "store"}
  BY <1>1, Popped
<1>3. todo' = [todo EXCEPT ![t] = r]
  BY DEF goOn
<1> HIDE DEF q, r
<1>4. mutex' \in [Mutex -> Thread \cup {Free}]
  BY DEF IInv, TypeOK
<1>9. first(r) \in Unlocked \cup {"none"}
  BY <1>2 DEF Unlocked, Plan, first
<1>6. \A m \in Mutex : mutex'[m] = t <=> holds(r, m)
  BY <1>1, <1>9, HoldsAt DEF q, Held, IInv
<1>8. Locking'
  BY <1>1, <1>2, <1>3, <1>4, <1>6, Moves
<1> QED BY <1>2, <1>3, <1>8, <1>9 DEF r, q

\* A thread that has nothing left begins.
LEMMA Begins ==
    ASSUME IInv, running, NEW t \in Thread,
           NEW q \in {refresh, <<"watchers">>, <<"watchers", "config">>,
                      <<"watchers", "brokers">>, <<"close">>},
           idle(t), todo' = [todo EXCEPT ![t] = q], UNCHANGED mutex
    PROVE  Locking' /\ Plan(q) /\ first(q) \notin OnHandle \cup {"exists", "read", "store"}
<1>1. Plan(q) /\ first(q) \notin OnHandle \cup {"exists", "read", "store"}
  BY Begun
<1>2. first(q) \in Unlocked \cup {"none"} /\ first(todo[t]) = "none"
  BY <1>1 DEF Unlocked, Plan, first, idle
<1>3. \A m \in Mutex : mutex'[m] = t <=> holds(q, m)
  BY <1>2, HoldsAt DEF Held, IInv
<1>4. mutex' \in [Mutex -> Thread \cup {Free}]
  BY DEF IInv, TypeOK
<1> QED BY <1>1, <1>3, <1>4, Moves
-----------------------------------------------------------------------------
\* refreshConnection and refreshWatchers: the mutex of the handle is taken when
\* there is work to do.
LEMMA ConnectionInv ==
    ASSUME IInv, NEW t \in Thread, Connection(t)
    PROVE  IInv'
<1>1. at(t, "connection") /\ "connection" \in Unlocked
  BY DEF Connection, Unlocked, Step, OnHandle
<1>2. running /\ todo[t] # <<>> /\ first(todo[t]) = "connection"
  BY <1>1, AtFirst
<1>3. PICK r : /\ todo' = [todo EXCEPT ![t] = r] /\ Locking' /\ Plan(r)
               /\ first(r) \notin {"read", "store"}
               /\ first(r) = "reconnect" => mustConnect
  <2>1. CASE mustConnect
    BY <1>1, <2>1, Takes DEF Connection, goOn, OnHandle
  <2>2. CASE ~mustConnect
    BY <1>1, <2>2, Skips DEF Connection, Unlocked, OnHandle
  <2> QED BY <2>1, <2>2
<1>4. Life' /\ Sessions'
  BY <1>2, <1>3, MovesOn DEF Connection, server, process
<1>5. Values'
  BY <1>2, <1>3, MovesAway DEF Connection, server, process
<1>6. TypeOK'
  BY <1>3 DEF Connection, server, process, TypeOK, Locking, IInv
<1> QED BY <1>3, <1>4, <1>5, <1>6 DEF IInv, Locking

\* refreshWatchers takes the mutex of the handle if there is one.
LEMMA WatchersInv ==
    ASSUME IInv, NEW t \in Thread, Watchers(t)
    PROVE  IInv'
<1>1. at(t, "watchers") /\ "watchers" \in Unlocked
  BY DEF Watchers, Unlocked, Step, OnHandle
<1>2. running /\ todo[t] # <<>> /\ first(todo[t]) = "watchers"
  BY <1>1, AtFirst
<1>3. PICK r : /\ todo' = [todo EXCEPT ![t] = r] /\ Locking' /\ Plan(r)
               /\ first(r) \notin {"read", "store", "reconnect"}
  <2>1. CASE m_zhandle # NULL
    BY <1>1, <2>1, Takes DEF Watchers, goOn, OnHandle
  <2>2. CASE m_zhandle = NULL
    BY <1>1, <2>2, Skips DEF Watchers, Unlocked, OnHandle
  <2> QED BY <2>1, <2>2
<1>4. Life' /\ Sessions'
  BY <1>2, <1>3, MovesOn DEF Watchers, server, process
<1>5. Values'
  BY <1>2, <1>3, MovesAway DEF Watchers, server, process
<1>6. TypeOK'
  BY <1>3 DEF Watchers, server, process, TypeOK, Locking, IInv
<1> QED BY <1>3, <1>4, <1>5, <1>6 DEF IInv, Locking

\* A call fails at most so often.
LEMMA Outcome ==
    ASSUME IInv, NEW s, succeeds(s) \/ fails(s)
    PROVE  losses' \in 0..MaxLosses /\ failed' \in BOOLEAN
<1>1. losses \in 0..MaxLosses /\ MaxLosses \in Nat /\ failed \in BOOLEAN
  BY ZookeeperAssumption DEF IInv, TypeOK
<1>2. losses' = losses \/ (losses < MaxLosses /\ losses' = losses + 1)
  BY DEF succeeds, fails
<1>3. failed' = failed \/ failed' = TRUE
  BY DEF succeeds, fails
<1>4. losses' \in 0..MaxLosses
  BY <1>1, <1>2
<1> QED BY <1>1, <1>3, <1>4

\* refreshWatchers sets the watches.
LEMMA SetWatchInv ==
    ASSUME IInv, NEW t \in Thread, NEW s \in OnHandle, NEW d \in Datum,
           NEW x \in OnHandle \ {"reconnect"}, SetWatch(t, s, d, <<x>>)
    PROVE  IInv'
<1>1. at(t, s) /\ s \notin {"none", "read", "store"}
  BY DEF SetWatch, OnHandle
<1>2. running /\ todo[t] # <<>> /\ first(todo[t]) = s
  BY <1>1, AtFirst
<1>3. PICK r : /\ todo' = [todo EXCEPT ![t] = r] /\ Locking' /\ Plan(r)
               /\ first(r) \notin {"read", "store", "reconnect"}
  <2>1. CASE goOn(t, <<x>>) /\ UNCHANGED mutex
    BY <1>1, <2>1, Keeps DEF goOn, OnHandle
  <2>2. CASE leave(t)
    BY <1>1, <2>2, Leaves DEF Unlocked, OnHandle
  <2> QED BY <2>1, <2>2 DEF SetWatch
<1>4. Life' /\ Sessions'
  BY <1>2, <1>3, MovesOn DEF SetWatch, process
<1>5. Values'
  BY <1>1, <1>2, <1>3, MovesAway DEF SetWatch, process
<1>6. TypeOK'
  <2>1. losses' \in 0..MaxLosses /\ failed' \in BOOLEAN
    BY Outcome DEF SetWatch
  <2>2. watches' \in [Session -> SUBSET Datum]
    <3>1. \/ watches' = [watches EXCEPT ![m_zhandle] = watches[m_zhandle] \cup {d}]
          \/ watches' = watches
      BY DEF SetWatch
    <3>2. CASE m_zhandle \in Session
      <4>1. watches[m_zhandle] \cup {d} \in SUBSET Datum /\ watches \in [Session -> SUBSET Datum]
        BY <3>2 DEF IInv, TypeOK
      <4> QED BY <3>1, <3>2, <4>1
    <3>3. CASE m_zhandle \notin Session
      BY <3>1, <3>3 DEF IInv, TypeOK
    <3> QED BY <3>2, <3>3
  <2> QED BY <1>3, <2>1, <2>2 DEF SetWatch, process, TypeOK, Locking, IInv
<1> QED BY <1>3, <1>4, <1>5, <1>6 DEF IInv, Locking

\* refreshWatchers looks for the znode of the client, and creates it.
LEMMA GetClientInv ==
    ASSUME IInv, NEW t \in Thread, GetClient(t)
    PROVE  IInv'
<1>1. at(t, "get client") /\ "get client" \in OnHandle
  BY DEF GetClient, OnHandle
<1>2. running /\ todo[t] # <<>> /\ first(todo[t]) = "get client"
  BY <1>1, AtFirst
<1>3. PICK r : /\ todo' = [todo EXCEPT ![t] = r] /\ Locking' /\ Plan(r)
               /\ first(r) \notin {"read", "store", "reconnect"}
  <2>1. CASE goOn(t, <<"create client">>) /\ UNCHANGED mutex
    BY <1>1, <2>1, Keeps DEF goOn, OnHandle
  <2>2. CASE leave(t)
    BY <1>1, <2>2, Leaves DEF Unlocked, OnHandle
  <2> QED BY <2>1, <2>2 DEF GetClient
<1>7. run' \in {run, "exited"}
  BY DEF GetClient
<1>4. Life' /\ Sessions'
  BY <1>2, <1>3, <1>7, MovesOn DEF GetClient, process
<1>5. Values'
  BY <1>1, <1>2, <1>3, MovesAway DEF GetClient, process
<1>6. TypeOK'
  <2>1. losses' \in 0..MaxLosses /\ failed' \in BOOLEAN
    BY Outcome DEF GetClient
  <2>2. node' \in Session \cup {NoNode, Persistent, OtherProcess}
    BY DEF GetClient, afterGet, unanswered, IInv, TypeOK
  <2> QED BY <1>3, <1>7, <2>1, <2>2 DEF GetClient, process, TypeOK, Locking, IInv
<1> QED BY <1>3, <1>4, <1>5, <1>6 DEF IInv, Locking

\* refreshWatchers creates the znode of the client and gives up the mutex.
LEMMA CreateClientInv ==
    ASSUME IInv, NEW t \in Thread, CreateClient(t)
    PROVE  IInv'
<1>1. at(t, "create client") /\ "create client" \in OnHandle
  BY DEF CreateClient, OnHandle
<1>2. running /\ todo[t] # <<>> /\ first(todo[t]) = "create client"
  BY <1>1, AtFirst
<1>3. PICK r : /\ todo' = [todo EXCEPT ![t] = r] /\ Locking' /\ Plan(r)
               /\ first(r) \notin {"read", "store", "reconnect"}
  BY <1>1, Leaves DEF CreateClient, Unlocked, OnHandle
<1>4. Life' /\ Sessions'
  BY <1>2, <1>3, MovesOn DEF CreateClient
<1>5. Values'
  BY <1>1, <1>2, <1>3, MovesAway DEF CreateClient
<1>6. TypeOK'
  <2>1. losses' \in 0..MaxLosses /\ failed' \in BOOLEAN
    <3>1. CASE node = NoNode
      BY <3>1, Outcome DEF CreateClient
    <3>2. CASE node # NoNode
      BY <3>2 DEF CreateClient, IInv, TypeOK
    <3> QED BY <3>1, <3>2
  <2>2. /\ node' \in Session \cup {NoNode, Persistent, OtherProcess}
        /\ m_registered' \in BOOLEAN
    BY DEF CreateClient, succeeds, unanswered, live, IInv, TypeOK
  <2> QED BY <1>3, <2>1, <2>2 DEF CreateClient, TypeOK, Locking, IInv
<1> QED BY <1>3, <1>4, <1>5, <1>6 DEF IInv, Locking

\* The sessions used so far are those up to the last one.
lastSession == Max({0} \cup {s \in Session : session[s] # "unused"})

\* Session numbers are given out in order, so the largest used one bounds them.
LEMMA LastSession ==
    ASSUME Sessions
    PROVE  /\ lastSession \in 0..MaxSessions
           /\ \A s \in Session : session[s] # "unused" <=> s <= lastSession
<1>1. PICK n \in 0..MaxSessions : \A s \in Session : session[s] # "unused" <=> s <= n
  BY DEF Sessions
<1> DEFINE S == {0} \cup {s \in Session : session[s] # "unused"}
<1>2. n \in S /\ \A x \in S : x \in Int /\ x <= n
  BY <1>1, ZookeeperAssumption DEF Session
<1>3. lastSession = CHOOSE x \in S : \A y \in S : x >= y
  BY DEF lastSession, Max
<1> HIDE DEF S
<1>4. \A x \in S : (\A y \in S : x >= y) => x = n
  BY <1>1, <1>2
<1>5. \E x \in S : \A y \in S : x >= y
  BY <1>1, <1>2
<1>6. lastSession \in S /\ \A y \in S : lastSession >= y
  BY <1>3, <1>5
<1>7. lastSession = n
  BY <1>4, <1>6
<1> QED BY <1>1, <1>7

\* connect: the next session is one of those that are left, and the only one
\* that lives.
LEMMA ReconnectInv ==
    ASSUME IInv, NEW t \in Thread, Reconnect(t)
    PROVE  IInv'
<1> USE DEF NULL
<1>1. at(t, "reconnect") /\ "reconnect" \in OnHandle
  BY DEF Reconnect, OnHandle
<1>2. running /\ todo[t] # <<>> /\ first(todo[t]) = "reconnect" /\ mustConnect
  BY <1>1, AtFirst DEF IInv, Life
<1>3. PICK r : /\ todo' = [todo EXCEPT ![t] = r] /\ Locking'
               /\ first(r) \notin {"read", "store", "reconnect"}
  <2>1. CASE m_zhandle' # NULL
    <3>1. leave(t)
      BY <2>1 DEF Reconnect, leave
    <3> QED BY <1>1, <3>1, Leaves DEF Unlocked, OnHandle
  <2>2. CASE m_zhandle' = NULL
    <3>1. todo' = [todo EXCEPT ![t] = <<>>] /\ Plan(<<>>) /\ first(<<>>) = "none"
      BY <2>2, Begun DEF Reconnect, first
    <3>2. /\ mutex' \in [Mutex -> Thread \cup {Free}]
          /\ mutex'["zhandle"] = Free /\ mutex["zhandle"] = t
          /\ \A m \in Mutex : m # "zhandle" => mutex'[m] = mutex[m]
      BY <1>1, <1>2, HoldsAt DEF Reconnect, release, IInv, TypeOK, Mutex, Held
    <3>3. Free \notin Thread
      BY ZookeeperAssumption DEF Free, Thread
    <3>4. \A m \in Mutex : mutex'[m] = t <=> holds(<<>>, m)
      BY <1>1, <1>2, <3>1, <3>2, <3>3, HoldsAt DEF Held, IInv
    <3>5. \A m \in Mutex, u \in Thread : u # t => (mutex'[m] = u <=> mutex[m] = u)
      BY <3>2, <3>3
    <3>6. Locking'
      BY <1>2, <3>1, <3>2, <3>4, <3>5, Moves
    <3> QED BY <3>1, <3>6
  <2> QED BY <2>1, <2>2
<1> DEFINE n == lastSession
<1>4. n \in 0..MaxSessions /\ \A s \in Session : session[s] # "unused" <=> s <= n
  BY LastSession DEF IInv
<1> HIDE DEF n
<1>5. n < MaxSessions /\ n \in Nat /\ MaxSessions \in Nat
  <2>1. MaxSessions \in Session /\ MaxSessions \in Nat /\ n \in Nat /\ n <= MaxSessions
    BY <1>4, ZookeeperAssumption DEF Session
  <2>2. CASE m_zhandle = NULL
    <3>1. session[MaxSessions] = "unused"
      BY <1>2, <2>2 DEF IInv, Sessions
    <3> QED BY <1>4, <2>1, <3>1
  <2>3. CASE m_zhandle # NULL
    <3>1. m_zhandle \in Session /\ m_zhandle < MaxSessions
      BY <1>2, <2>3 DEF IInv, Sessions, TypeOK, mustConnect
    <3>2. session[MaxSessions] = "unused"
      BY <2>1, <2>3, <3>1 DEF IInv, Sessions, Session
    <3> QED BY <1>4, <2>1, <3>2
  <2> QED BY <2>2, <2>3
<1>6. Max({0} \cup {s \in Session : session[s] # "unused"}) = n
  BY DEF lastSession, n
<1>7. /\ m_zhandle' \in {n + 1, NULL} /\ n + 1 \in Session
      /\ losses' \in 0..MaxLosses /\ failed' \in BOOLEAN
  <2>1. n + 1 \in Session
    BY <1>5 DEF Session
  <2>2. m_zhandle' \in {n + 1, NULL}
    BY <1>5, <1>6 DEF Reconnect, newHandle
  <2>3. losses \in 0..MaxLosses /\ MaxLosses \in Nat /\ failed \in BOOLEAN
    BY ZookeeperAssumption DEF IInv, TypeOK
  <2>4. losses' = losses \/ (losses < MaxLosses /\ losses' = losses + 1)
    BY DEF Reconnect, newHandle
  <2>5. failed' = failed \/ failed' = TRUE
    BY DEF Reconnect, newHandle
  <2>6. losses' \in 0..MaxLosses
    BY <2>3, <2>4
  <2> QED BY <2>1, <2>2, <2>3, <2>5, <2>6
<1>8. /\ session' \in [Session -> {"unused", "live", "expired", "closed"}]
      /\ \A s \in Session : s = m_zhandle' => session'[s] = "live"
      /\ \A s \in Session : s # m_zhandle' /\ s = m_zhandle => session'[s] = "closed"
      /\ \A s \in Session : s # m_zhandle' /\ s # m_zhandle => session'[s] = session[s]
  <2>1. session' = [s \in Session |-> IF s = m_zhandle' THEN "live"
                                      ELSE IF s = m_zhandle THEN "closed" ELSE session[s]]
    <3>1. m_zhandle \in Session => m_zhandle # n + 1
      <4>1. m_zhandle \in Session => session[m_zhandle] # "unused"
        BY <1>2 DEF mustConnect, Session
      <4> QED BY <1>4, <1>5, <1>7, <4>1
    <3>2. ASSUME NEW s \in Session PROVE session'[s] = IF s = m_zhandle' THEN "live"
                                      ELSE IF s = m_zhandle THEN "closed" ELSE session[s]
      <4>1. CASE s = m_zhandle'
        <5>1. s # m_zhandle
          BY <1>7, <3>1, <4>1 DEF Session
        <5> QED BY <4>1, <5>1 DEF Reconnect
      <4>2. CASE s # m_zhandle' /\ s = m_zhandle
        BY <4>2 DEF Reconnect
      <4>3. CASE s # m_zhandle' /\ s # m_zhandle
        BY <4>3 DEF Reconnect
      <4> QED BY <4>1, <4>2, <4>3
    <3> QED BY <3>2 DEF Reconnect
  <2>2. session \in [Session -> {"unused", "live", "expired", "closed"}]
    BY DEF IInv, TypeOK
  <2> QED BY <2>1, <2>2
<1>9. Sessions'
  <2>1. m_zhandle \in Session \cup {NULL} /\ NULL \notin Session /\ MaxSessions \in Session
    BY ZookeeperAssumption DEF IInv, TypeOK, Session
  <2>2. m_zhandle # NULL => m_zhandle <= n /\ m_zhandle < MaxSessions
    BY <1>2, <1>4, <2>1 DEF mustConnect, IInv, Sessions
  <2>3. CASE m_zhandle' = NULL
    <3>1. \A s \in Session : session'[s] # "unused" <=> s <= n
      BY <1>4, <1>8, <2>1, <2>2, <2>3
    <3>2. \A s \in Session : session'[s] = "expired" => s < MaxSessions
      BY <1>8, <2>1, <2>3 DEF IInv, Sessions
    <3>3. \A s \in Session : session'[s] # "live"
      BY <1>8, <2>1, <2>3 DEF IInv, Sessions
    <3>4. session'[MaxSessions] = "unused"
      BY <1>5, <2>1, <3>1
    <3> QED BY <1>4, <2>3, <3>1, <3>2, <3>3, <3>4 DEF Sessions
  <2>4. CASE m_zhandle' = n + 1
    <3>1. \A s \in Session : session'[s] # "unused" <=> s <= n + 1
      <4>1. \A s \in Session : s \in Int
        BY DEF Session
      <4> QED BY <1>4, <1>5, <1>8, <2>1, <2>2, <2>4, <4>1
    <3>2. \A s \in Session : session'[s] = "expired" => s < MaxSessions
      BY <1>8, <2>1, <2>4 DEF IInv, Sessions
    <3>3. \A s \in Session : session'[s] = "live" => s = m_zhandle'
      BY <1>8, <2>1, <2>4 DEF IInv, Sessions
    <3>4. n + 1 \in 0..MaxSessions /\ n + 1 # NULL
      BY <1>5
    <3> QED BY <2>4, <3>1, <3>2, <3>3, <3>4 DEF Sessions
  <2> QED BY <1>7, <2>3, <2>4
<1>10. Life'
  <2>1. /\ todo \in [Thread -> Seq(Step)] /\ Main \in Thread
        /\ todo'[t] = r /\ \A u \in Thread : u # t => todo'[u] = todo[u]
    BY <1>3, ZookeeperAssumption DEF IInv, TypeOK, Main, Thread
  <2>2. (run = "up" => idle(Main))'
    BY <1>2, <2>1 DEF IInv, Life, idle, Reconnect
  <2>3. ASSUME NEW u \in Thread, u # t PROVE first(todo'[u]) # "reconnect"
    <3>1. "zhandle" \in Mutex
      BY DEF Mutex
    <3>2. mutex["zhandle"] = t
      BY <1>1, <1>2, <3>1, HoldsAt DEF IInv, Held
    <3>3. ~holds(todo[u], "zhandle")
      BY <2>3, <3>1, <3>2 DEF IInv, Held
    <3> QED BY <1>1, <2>1, <2>3, <3>1, <3>3, HoldsAt
  <2>4. \A u \in Thread : first(todo'[u]) # "reconnect"
    BY <1>3, <2>1, <2>3
  <2> QED BY <2>2, <2>4 DEF Life
<1>11. Values'
  BY <1>2, <1>3, MovesAway DEF Reconnect
<1>12. TypeOK'
  <2>1. m_zhandle' \in Session \cup {NULL}
    BY <1>7
  <2>2. events' \in [Session -> SUBSET (Datum \cup {"expired", "session"})]
    BY DEF Reconnect, IInv, TypeOK
  <2> QED BY <1>3, <1>7, <1>8, <2>1, <2>2 DEF Reconnect, TypeOK, Locking, IInv
<1> QED BY <1>3, <1>9, <1>10, <1>11, <1>12 DEF IInv, Locking

\* refreshLogConfig: the mutex of the configuration is taken.
LEMMA StartReadingInv ==
    ASSUME IInv, NEW t \in Thread, StartReading(t)
    PROVE  IInv'
<1>1. at(t, "config") /\ "config" \in Unlocked /\ "config" \in Mutex
  BY DEF StartReading, Unlocked, Step, OnHandle, Mutex
<1>2. running /\ todo[t] # <<>> /\ first(todo[t]) = "config" /\ Plan(todo[t])
  BY <1>1, AtFirst DEF IInv, Plans
<1>3. PICK r : /\ todo' = [todo EXCEPT ![t] = r] /\ Locking' /\ Plan(r)
               /\ first(r) \notin {"read", "store", "reconnect"}
  <2>1. CASE m_zhandle = NULL
    BY <1>1, <2>1, Skips DEF StartReading, Unlocked, OnHandle
  <2>2. CASE m_zhandle # NULL
    <3> DEFINE r == <<"exists", "read">> \o todo[t]
    <3>1. Plan(r) /\ first(r) = "exists"
      BY <1>2, Prepended
    <3>2. todo' = [todo EXCEPT ![t] = r]
      BY <2>2 DEF StartReading
    <3> HIDE DEF r
    <3>3. /\ mutex' \in [Mutex -> Thread \cup {Free}]
          /\ mutex'["config"] = t /\ mutex["config"] = Free
          /\ \A m \in Mutex : m # "config" => mutex'[m] = mutex[m]
      BY <1>1, <2>2 DEF StartReading, locks, take, IInv, TypeOK
    <3>4. Free \notin Thread
      BY ZookeeperAssumption DEF Free, Thread
    <3>5. \A m \in Mutex : holds(r, m) <=> m = "config"
      BY <3>1, HoldsAt
    <3>6. \A m \in Mutex : mutex'[m] = t <=> holds(r, m)
      BY <1>1, <1>2, <3>3, <3>5, HoldsAt DEF Held, IInv
    <3>7. \A m \in Mutex, u \in Thread : u # t => (mutex'[m] = u <=> mutex[m] = u)
      BY <3>3, <3>4
    <3>8. Locking'
      BY <1>2, <3>1, <3>2, <3>3, <3>6, <3>7, Moves
    <3> QED BY <3>1, <3>2, <3>8
  <2> QED BY <2>1, <2>2
<1>4. Life' /\ Sessions'
  BY <1>2, <1>3, MovesOn DEF StartReading, server, process
<1>5. Values'
  BY <1>2, <1>3, MovesAway DEF StartReading, server, process
<1>6. TypeOK'
  BY <1>3 DEF StartReading, server, process, TypeOK, Locking, IInv
<1> QED BY <1>3, <1>4, <1>5, <1>6 DEF IInv, Locking

\* refreshBrokerUrls leaves the configuration alone.
LEMMA RefreshBrokerUrlsInv ==
    ASSUME IInv, NEW t \in Thread, RefreshBrokerUrls(t)
    PROVE  IInv'
<1>1. at(t, "brokers") /\ "brokers" \in Unlocked
  BY DEF RefreshBrokerUrls, Unlocked, Step, OnHandle
<1>2. running /\ todo[t] # <<>> /\ first(todo[t]) = "brokers"
  BY <1>1, AtFirst
<1>3. PICK r : /\ todo' = [todo EXCEPT ![t] = r] /\ Locking' /\ Plan(r)
               /\ first(r) \notin {"read", "store", "reconnect"}
  BY <1>1, Skips DEF RefreshBrokerUrls, Unlocked, OnHandle
<1>4. Life' /\ Sessions'
  BY <1>2, <1>3, MovesOn DEF RefreshBrokerUrls, server
<1>5. /\ DOMAIN cache' = Datum /\ version' = version /\ value' = value
      /\ cache'["config"] = cache["config"]
      /\ cache'["brokers"] \in {cache["brokers"], 0, version["brokers"]}
  BY DEF RefreshBrokerUrls, unreadable, server, IInv, TypeOK, Datum
<1>6. Values'
  <2>1. /\ todo \in [Thread -> Seq(Step)] /\ Values
        /\ todo'[t] = r /\ \A u \in Thread : u # t => todo'[u] = todo[u]
    BY <1>3 DEF IInv, TypeOK
  <2>2. ASSUME NEW u \in Thread PROVE ValueOf(u)'
    <3>1. CASE u = t
      BY <1>2, <1>3, <1>5, <2>1, <3>1 DEF Values, ValueOf
    <3>2. CASE u # t
      BY <1>5, <2>1, <3>2 DEF Values, ValueOf
    <3> QED BY <3>1, <3>2
  <2> QED BY <2>2 DEF Values
<1>7. TypeOK'
  <2>1. losses' \in 0..MaxLosses /\ failed' \in BOOLEAN
    BY Outcome DEF RefreshBrokerUrls
  <2>2. ASSUME NEW x \in Datum PROVE cache'[x] \in (-version'[x])..version'[x]
    <3>1. cache[x] \in (-version[x])..version[x] /\ version[x] \in Nat
      BY DEF IInv, TypeOK
    <3> QED BY <1>5, <3>1 DEF Datum
  <2> QED BY <1>3, <1>5, <2>1, <2>2 DEF RefreshBrokerUrls, server, TypeOK, Locking, IInv
<1> QED BY <1>3, <1>4, <1>6, <1>7 DEF IInv, Locking

\* The bounds of the cache.
LEMMA Bounded ==
    ASSUME IInv, NEW d \in Datum
    PROVE  /\ version[d] \in Nat /\ version[d] > 0
           /\ cache[d] \in Int /\ of(cache[d]) \in Nat /\ of(cache[d]) <= version[d]
BY DEF IInv, TypeOK, of

\* getZnodeData: the length of the configuration is asked for.
LEMMA ExistsInv ==
    ASSUME IInv, NEW t \in Thread, Exists(t)
    PROVE  IInv'
<1> DEFINE q == todo[t]
           r == <<>> \o Tail(q)
<1>1. running /\ q # <<>> /\ first(q) = "exists" /\ Plan(q)
  BY AtFirst DEF Exists, IInv, Plans
<1>2. Plan(r) /\ first(r) = "read"
  BY <1>1, Popped
<1>3. todo' = [todo EXCEPT ![t] = r]
  BY DEF Exists, goOn
<1> HIDE DEF r
<1>4. Locking'
  <2>1. mutex' \in [Mutex -> Thread \cup {Free}] /\ mutex' = mutex
    BY DEF IInv, TypeOK, Exists
  <2>2. \A m \in Mutex : mutex'[m] = t <=> holds(r, m)
    BY <1>1, <1>2, <2>1, HoldsAt DEF Held, IInv
  <2> QED BY <1>1, <1>2, <1>3, <2>1, <2>2, Moves
<1>5. Life' /\ Sessions'
  BY <1>1, <1>2, <1>3, MovesOn DEF Exists, server, process
<1>6. /\ value' \in [Thread -> Int] /\ value'[t] \in {0, version["config"]}
      /\ \A u \in Thread : u # t => value'[u] = value[u]
  <2>1. value \in [Thread -> Int] /\ version["config"] \in Int /\ value[t] = 0
    <3>1. version["config"] \in Int
      BY Bounded DEF Datum
    <3>2. value[t] = 0
      BY <1>1 DEF IInv, Values, ValueOf
    <3> QED BY <3>1, <3>2 DEF IInv, TypeOK
  <2>2. value' = value \/ value' = [value EXCEPT ![t] = version["config"]]
    BY DEF Exists
  <2> QED BY <2>1, <2>2
<1>7. Values'
  <2>1. /\ todo \in [Thread -> Seq(Step)] /\ version' = version /\ cache' = cache
        /\ todo'[t] = r /\ \A u \in Thread : u # t => todo'[u] = todo[u]
    BY <1>3 DEF IInv, TypeOK, Exists, server, process
  <2>2. ASSUME NEW u \in Thread PROVE ValueOf(u)'
    <3>1. CASE u = t
      <4>1. /\ version["config"] \in Nat /\ of(cache["config"]) <= version["config"]
            /\ "config" \in Datum
        BY Bounded DEF Datum
      <4>2. of(cache["config"])' = of(cache["config"])
        BY <2>1 DEF of
      <4>3. value'[t] \in 0..version["config"] /\ (value'[t] = 0 \/ of(cache["config"]) <= value'[t])
        BY <1>6, <4>1
      <4> QED BY <1>2, <2>1, <3>1, <4>2, <4>3 DEF ValueOf
    <3>2. CASE u # t
      BY <1>6, <2>1, <3>2 DEF IInv, Values, ValueOf
    <3> QED BY <3>1, <3>2
  <2> QED BY <2>2 DEF Values
<1>8. TypeOK'
  <2>1. losses' \in 0..MaxLosses /\ failed' \in BOOLEAN
    BY Outcome DEF Exists
  <2> QED BY <1>4, <1>6, <2>1 DEF Exists, server, process, TypeOK, Locking, IInv
<1> QED BY <1>4, <1>5, <1>7, <1>8 DEF IInv, Locking

\* Only one thread reads or stores the configuration.
LEMMA Alone ==
    ASSUME IInv, NEW t \in Thread, NEW u \in Thread, u # t,
           first(todo[t]) \in {"read", "store"}
    PROVE  first(todo[u]) \notin {"read", "store"}
<1>1. "config" \in Mutex
  BY DEF Mutex
<1>2. mutex["config"] = t
  BY <1>1, HoldsAt DEF IInv, Held
<1>3. ~holds(todo[u], "config")
  BY <1>1, <1>2 DEF IInv, Held
<1> QED BY <1>1, <1>3, HoldsAt

\* A thread has read or stored, and gives up the mutex.
LEMMA GivesUp ==
    ASSUME IInv, running, NEW t \in Thread, first(todo[t]) \in {"read", "store"},
           release("config"), goOnAfterConfig(t)
    PROVE  /\ Locking'
           /\ Plan(SubSeq(todo[t], 3, Len(todo[t])))
           /\ first(SubSeq(todo[t], 3, Len(todo[t]))) \in Unlocked \cup {"none"}
           /\ todo' = [todo EXCEPT ![t] = SubSeq(todo[t], 3, Len(todo[t]))]
<1> DEFINE q == todo[t]
           r == SubSeq(q, 3, Len(q))
<1>1. Plan(q)
  BY DEF IInv, Plans
<1>2. /\ Plan(r) /\ "config" \in Mutex
      /\ first(r) \notin OnHandle \cup {"exists", "read", "store", "close"}
  BY <1>1, Dropped DEF Mutex
<1>3. first(r) \in Unlocked \cup {"none"}
  <2> HIDE DEF r
  <2> QED BY <1>2 DEF Unlocked, Plan, first
<1>4. todo' = [todo EXCEPT ![t] = r]
  BY DEF goOnAfterConfig
<1>5. /\ mutex' \in [Mutex -> Thread \cup {Free}]
      /\ mutex'["config"] = Free /\ mutex["config"] = t
      /\ \A m \in Mutex : m # "config" => mutex'[m] = mutex[m]
  BY <1>2, HoldsAt DEF release, IInv, TypeOK, Held
<1> HIDE DEF r
<1>6. Free \notin Thread
  BY ZookeeperAssumption DEF Free, Thread
<1>7. \A m \in Mutex : mutex'[m] = t <=> holds(r, m)
  BY <1>2, <1>3, <1>5, <1>6, HoldsAt DEF Held, IInv
<1>8. \A m \in Mutex, u \in Thread : u # t => (mutex'[m] = u <=> mutex[m] = u)
  BY <1>5, <1>6
<1>9. Locking'
  BY <1>2, <1>4, <1>5, <1>7, <1>8, Moves
<1> QED BY <1>2, <1>3, <1>4, <1>9 DEF r

\* The other threads have read nothing.
LEMMA OthersKeep ==
    ASSUME IInv, NEW t \in Thread, first(todo[t]) \in {"read", "store"},
           NEW u \in Thread, u # t, value'[u] = value[u], todo'[u] = todo[u]
    PROVE  ValueOf(u)'
<1>1. ValueOf(u) /\ first(todo[u]) \notin {"read", "store"}
  BY Alone DEF IInv, Values
<1> QED BY <1>1 DEF ValueOf

\* getZnodeData: the data is read, or not.
LEMMA ReadInv ==
    ASSUME IInv, NEW t \in Thread, Read(t)
    PROVE  IInv'
<1> DEFINE d == "config"
<1>1. running /\ todo[t] # <<>> /\ first(todo[t]) = "read" /\ Plan(todo[t])
  BY AtFirst DEF Read, IInv, Plans
<1>2. d \in Datum /\ d \in Mutex
  BY DEF Datum, Mutex
<1>3. /\ version[d] \in Nat /\ version[d] > 0 /\ of(cache[d]) <= version[d]
      /\ value[t] \in 0..version[d]
      /\ value[t] = 0 \/ of(cache[d]) <= value[t]
      /\ of(cache[d]) \in Nat
  BY <1>1, <1>2, Bounded DEF IInv, Values, ValueOf
<1>4. cache' = cache /\ version' = version
  BY DEF Read, process, server
<1>5. losses' \in 0..MaxLosses /\ failed' \in BOOLEAN
  BY Outcome DEF Read
<1>6. CASE /\ \E v \in got(t) : value' = [value EXCEPT ![t] = v]
           /\ goOn(t, <<"store">>) /\ UNCHANGED mutex
  <2> DEFINE r == <<"store">> \o Tail(todo[t])
  <2>1. Plan(r) /\ first(r) = "store"
    BY <1>1, ReadDone
  <2>2. todo' = [todo EXCEPT ![t] = r]
    BY <1>6 DEF goOn
  <2> HIDE DEF r
  <2>3. Locking'
    <3>1. mutex' \in [Mutex -> Thread \cup {Free}] /\ mutex' = mutex
      BY <1>6 DEF IInv, TypeOK
    <3>2. \A m \in Mutex : mutex'[m] = t <=> holds(r, m)
      BY <1>1, <2>1, <3>1, HoldsAt DEF Held, IInv
    <3> QED BY <1>1, <2>1, <2>2, <3>1, <3>2, Moves
  <2>4. Life' /\ Sessions'
    BY <1>1, <2>1, <2>2, MovesOn DEF Read, server, process
  <2>5. PICK v \in got(t) : value' = [value EXCEPT ![t] = v]
    BY <1>6
  <2>6. /\ v \in Int /\ of(v) <= version[d] /\ of(cache[d]) <= of(v)
        /\ v < 0 => of(cache[d]) < of(v)
    <3>1. v = version[d] \/ (v = -version[d] /\ value[t] # 0 /\ value[t] # version[d])
      BY DEF got
    <3>2. CASE v = version[d]
      BY <1>3, <3>2 DEF of
    <3>3. CASE v = -version[d] /\ value[t] # 0 /\ value[t] # version[d]
      <4>1. of(v) = version[d] /\ v \in Int
        BY <1>3, <3>3 DEF of
      <4> QED BY <1>3, <3>3, <4>1
    <3> QED BY <3>1, <3>2, <3>3
  <2>7. /\ value' \in [Thread -> Int] /\ value'[t] = v
        /\ \A u \in Thread : u # t => value'[u] = value[u]
    BY <2>5, <2>6 DEF IInv, TypeOK
  <2>8. /\ todo \in [Thread -> Seq(Step)] /\ version' = version /\ cache' = cache
        /\ todo'[t] = r /\ \A u \in Thread : u # t => todo'[u] = todo[u]
    BY <1>4, <2>2 DEF IInv, TypeOK
  <2>9. Values'
    <3>1. ASSUME NEW u \in Thread PROVE ValueOf(u)'
      <4>1. CASE u = t
        <5>1. of(cache["config"])' = of(cache["config"])
          BY <2>8 DEF of
        <5>2. of(value[u])' = of(v)
          BY <2>7, <4>1 DEF of
        <5> QED BY <1>2, <2>1, <2>6, <2>7, <2>8, <4>1, <5>1, <5>2 DEF ValueOf
      <4>2. CASE u # t
        BY <1>1, <2>7, <2>8, <4>2, OthersKeep
      <4> QED BY <4>1, <4>2
    <3> QED BY <3>1 DEF Values
  <2>10. TypeOK'
    BY <1>4, <1>5, <2>3, <2>7, <2>8 DEF Read, server, process, TypeOK, Locking, IInv
  <2> QED BY <2>3, <2>4, <2>9, <2>10 DEF IInv, Locking
<1>7. CASE /\ value' = [value EXCEPT ![t] = 0]
           /\ goOnAfterConfig(t)
           /\ release("config")
  <2> DEFINE r == SubSeq(todo[t], 3, Len(todo[t]))
  <2>1. todo' = [todo EXCEPT ![t] = r]
    BY <1>1, <1>7, GivesUp
  <2>2. Locking' /\ Plan(r) /\ first(r) \in Unlocked \cup {"none"}
    BY <1>1, <1>7, GivesUp
  <2> HIDE DEF r
  <2>3. first(r) \notin {"read", "store", "reconnect"}
    BY <2>2 DEF Unlocked, OnHandle
  <2>4. Life' /\ Sessions'
    BY <1>1, <2>1, <2>2, <2>3, MovesOn DEF Read, server, process
  <2>5. /\ value' \in [Thread -> Int] /\ value'[t] = 0
        /\ \A u \in Thread : u # t => value'[u] = value[u]
    BY <1>7 DEF IInv, TypeOK
  <2>6. /\ todo \in [Thread -> Seq(Step)] /\ version' = version
        /\ todo'[t] = r /\ \A u \in Thread : u # t => todo'[u] = todo[u]
    BY <2>1 DEF IInv, TypeOK, Read, server
  <2>8. Values'
    <3>1. ASSUME NEW u \in Thread PROVE ValueOf(u)'
      <4>1. CASE u = t
        BY <2>3, <2>5, <2>6, <4>1 DEF ValueOf
      <4>2. CASE u # t
        BY <1>1, <2>5, <2>6, <4>2, OthersKeep
      <4> QED BY <4>1, <4>2
    <3> QED BY <3>1 DEF Values
  <2>9. TypeOK'
    BY <1>4, <1>5, <2>2, <2>5, <2>6 DEF Read, server, process, TypeOK, Locking, IInv
  <2> QED BY <2>2, <2>4, <2>8, <2>9 DEF IInv, Locking
<1> QED BY <1>6, <1>7 DEF Read

\* refreshLogConfig: what was read is stored.
LEMMA StoreInv ==
    ASSUME IInv, NEW t \in Thread, Store(t)
    PROVE  IInv'
<1> DEFINE d == "config"
           r == SubSeq(todo[t], 3, Len(todo[t]))
<1>1. running /\ todo[t] # <<>> /\ first(todo[t]) = "store" /\ Plan(todo[t])
  BY AtFirst DEF Store, IInv, Plans
<1>2. d \in Datum
  BY DEF Datum
<1>3. of(value[t]) <= version[d] /\ value[t] \in Int
  BY <1>1, <1>2 DEF IInv, Values, ValueOf, TypeOK
<1>4. todo' = [todo EXCEPT ![t] = r]
  BY <1>1, GivesUp DEF Store
<1>5. Locking' /\ Plan(r) /\ first(r) \in Unlocked \cup {"none"}
  BY <1>1, GivesUp DEF Store
<1> HIDE DEF r
<1>6. first(r) \notin {"read", "store", "reconnect"}
  BY <1>5 DEF Unlocked, OnHandle
<1>7. Life' /\ Sessions'
  BY <1>1, <1>4, <1>5, <1>6, MovesOn DEF Store, server
<1>8. /\ value' \in [Thread -> Int] /\ value'[t] = 0
      /\ \A u \in Thread : u # t => value'[u] = value[u]
  BY DEF Store, IInv, TypeOK
<1>9. /\ todo \in [Thread -> Seq(Step)] /\ version' = version
      /\ todo'[t] = r /\ \A u \in Thread : u # t => todo'[u] = todo[u]
  BY <1>4 DEF IInv, TypeOK, Store, server
<1>10. /\ DOMAIN cache' = Datum
       /\ \A x \in Datum : x # d => cache'[x] = cache[x]
       /\ cache'[d] = value[t]
  BY <1>2 DEF Store, IInv, TypeOK
<1>11. Values'
  <2>1. ASSUME NEW u \in Thread PROVE ValueOf(u)'
    <3>1. CASE u = t
      BY <1>6, <1>8, <1>9, <3>1 DEF ValueOf
    <3>2. CASE u # t
      BY <1>1, <1>8, <1>9, <3>2, OthersKeep
    <3> QED BY <3>1, <3>2
  <2> QED BY <2>1 DEF Values
<1>12. TypeOK'
  <2>1. ASSUME NEW x \in Datum PROVE cache'[x] \in (-version'[x])..version'[x]
    <3>1. cache[x] \in (-version[x])..version[x] /\ version[x] \in Nat
      BY DEF IInv, TypeOK
    <3>2. value[t] \in (-version[d])..version[d]
      BY <1>2, <1>3, Bounded DEF of
    <3> QED BY <1>9, <1>10, <3>1, <3>2
  <2> QED BY <1>5, <1>8, <1>9, <1>10, <2>1 DEF Store, server, TypeOK, Locking, IInv
<1> QED BY <1>5, <1>7, <1>11, <1>12 DEF IInv, Locking

\* Zookeeper::close.
LEMMA CloseInv ==
    ASSUME IInv, Close
    PROVE  IInv'
<1>1. Main \in Thread /\ at(Main, "close") /\ "close" \in Unlocked
  BY ZookeeperAssumption DEF Close, Unlocked, Step, OnHandle, Main, Thread
<1>2. running /\ todo[Main] # <<>> /\ first(todo[Main]) = "close"
  BY <1>1, AtFirst
<1>3. PICK r : /\ todo' = [todo EXCEPT ![Main] = r] /\ Locking' /\ Plan(r)
               /\ first(r) \notin {"read", "store", "reconnect"}
  BY <1>1, Takes DEF Close, goOn, OnHandle
<1>4. Life' /\ Sessions'
  BY <1>1, <1>2, <1>3, MovesOn DEF Close, server, process
<1>5. Values'
  BY <1>1, <1>2, <1>3, MovesAway DEF Close, server, process
<1>6. TypeOK'
  BY <1>3 DEF Close, server, process, TypeOK, Locking, IInv
<1> QED BY <1>3, <1>4, <1>5, <1>6 DEF IInv, Locking

\* close ends the last session, and the process stops.
LEMMA ClosingInv ==
    ASSUME IInv, Closing
    PROVE  IInv'
<1>1. Main \in Thread /\ at(Main, "closing") /\ "closing" \in OnHandle
  BY ZookeeperAssumption DEF Closing, OnHandle, Main, Thread
<1>2. running /\ todo[Main] # <<>> /\ first(todo[Main]) = "closing"
  BY <1>1, AtFirst
<1>3. PICK r : /\ todo' = [todo EXCEPT ![Main] = r] /\ Locking' /\ Plan(r)
               /\ first(r) \notin {"read", "store", "reconnect"}
  BY <1>1, Leaves DEF Closing, Unlocked, OnHandle
<1>4. Life'
  BY DEF Closing, Life, running
<1>5. /\ session' \in [Session -> {"unused", "live", "expired", "closed"}]
      /\ \A s \in Session : s = m_zhandle => session'[s] = "closed"
      /\ \A s \in Session : s # m_zhandle => session'[s] = session[s]
      /\ m_zhandle' = NULL /\ ~running'
  BY DEF Closing, IInv, TypeOK, running
<1>6. Sessions'
  <2>1. PICK n \in 0..MaxSessions : \A s \in Session : session[s] # "unused" <=> s <= n
    BY DEF IInv, Sessions
  <2>2. \A s \in Session : s = m_zhandle => session[s] # "unused"
    BY ZookeeperAssumption DEF IInv, Sessions, Session, NULL
  <2>3. \A s \in Session : session'[s] # "unused" <=> s <= n
    BY <1>5, <2>1, <2>2
  <2>4. \A s \in Session : session'[s] = "expired" => s < MaxSessions
    BY <1>5 DEF IInv, Sessions
  <2>5. \A s \in Session : session'[s] # "live"
    BY <1>5 DEF IInv, Sessions
  <2> QED BY <1>5, <2>3, <2>4, <2>5 DEF Sessions
<1>7. Values'
  BY <1>1, <1>2, <1>3, MovesAway DEF Closing
<1>8. TypeOK'
  BY <1>3, <1>5 DEF Closing, TypeOK, Locking, IInv
<1> QED BY <1>3, <1>4, <1>6, <1>7, <1>8 DEF IInv, Locking

\* The refresh timer fires, or a watcher is called.
LEMMA TimerFiresInv ==
    ASSUME IInv, TimerFires
    PROVE  IInv'
<1>1. Timer \in Thread /\ running /\ idle(Timer) /\ Timer # Main
  BY ZookeeperAssumption DEF TimerFires, timerDue, Timer, Main, Thread, running
<1>2. /\ todo' = [todo EXCEPT ![Timer] = refresh] /\ Locking' /\ Plan(refresh)
      /\ first(refresh) \notin {"read", "store", "reconnect"}
  BY <1>1, Begins DEF TimerFires, OnHandle
<1>3. first(todo[Timer]) = "none"
  BY <1>1 DEF idle, first
<1>4. Life' /\ Sessions'
  BY <1>1, <1>2, MovesOn DEF TimerFires, server, process
<1>5. Values'
  BY <1>1, <1>2, <1>3, MovesAway DEF TimerFires, server, process
<1>6. TypeOK'
  BY <1>2 DEF TimerFires, server, process, TypeOK, Locking, IInv
<1> QED BY <1>2, <1>4, <1>5, <1>6 DEF IInv, Locking

\* A completion thread calls a watcher.
LEMMA DeliverInv ==
    ASSUME IInv, NEW s \in Session, Deliver(s)
    PROVE  IInv'
<1>1. s \in Thread /\ running /\ idle(s) /\ s # Main
  BY ZookeeperAssumption DEF Deliver, Session, Main, Thread
<1>2. PICK e \in events[s] : /\ events' = [events EXCEPT ![s] = @ \ {e}]
                             /\ todo' = [todo EXCEPT ![s] = handler(e)]
  BY DEF Deliver
<1>3. e \in {"config", "brokers", "expired", "session"}
  BY DEF IInv, TypeOK, Datum
<1>4. handler(e) \in {refresh, <<"watchers">>, <<"watchers", "config">>, <<"watchers", "brokers">>}
  BY <1>3 DEF handler
<1>5. PICK q : /\ todo' = [todo EXCEPT ![s] = q] /\ Locking' /\ Plan(q)
               /\ first(q) \notin {"read", "store", "reconnect"}
  BY <1>1, <1>2, <1>4, Begins DEF Deliver, OnHandle
<1>6. first(todo[s]) = "none"
  BY <1>1 DEF idle, first
<1>7. Life' /\ Sessions'
  BY <1>1, <1>5, MovesOn DEF Deliver, server, process
<1>8. Values'
  BY <1>1, <1>5, <1>6, MovesAway DEF Deliver, server, process
<1>9. TypeOK'
  <2>1. events' \in [Session -> SUBSET (Datum \cup {"expired", "session"})]
    BY <1>2 DEF IInv, TypeOK
  <2> QED BY <1>5, <2>1 DEF Deliver, server, process, TypeOK, Locking, IInv
<1> QED BY <1>5, <1>7, <1>8, <1>9 DEF IInv, Locking

\* init returns; SIGINT.
LEMMA StartedInv ==
    ASSUME IInv, Started
    PROVE  IInv'
<1>1. /\ UNCHANGED <<version, node, session, watches, events, m_zhandle, cache,
                     m_registered, mutex, todo, value, losses, failed>>
      /\ run' = "up" /\ run = "init" /\ idle(Main)
  BY DEF Started, server, process, threads
<1>2. Plans' /\ Held' /\ Values'
  BY <1>1 DEF IInv, Plans, Held, Values, ValueOf
<1>3. Life' /\ Sessions'
  BY <1>1 DEF IInv, Life, Sessions, running, idle, mustConnect
<1>4. TypeOK'
  BY <1>1 DEF IInv, TypeOK, idle
<1> QED BY <1>2, <1>3, <1>4 DEF IInv

\* SIGINT gives the main thread the handle to close.
LEMMA StopInv ==
    ASSUME IInv, Stop
    PROVE  IInv'
<1>1. Main \in Thread /\ running /\ idle(Main)
  BY ZookeeperAssumption DEF Stop, Main, Thread, running, IInv, Life
<1>2. PICK q : /\ todo' = [todo EXCEPT ![Main] = q] /\ Locking' /\ Plan(q)
               /\ first(q) \notin {"read", "store", "reconnect"}
  BY <1>1, Begins DEF Stop, OnHandle
<1>3. first(todo[Main]) = "none"
  BY <1>1 DEF idle, first
<1>4. /\ todo \in [Thread -> Seq(Step)] /\ todo'[Main] = q
      /\ \A u \in Thread : u # Main => todo'[u] = todo[u]
  BY <1>1, <1>2 DEF IInv, TypeOK
<1>5. /\ UNCHANGED <<m_zhandle, session>> /\ run' = "closing"
  BY DEF Stop, server, process
<1>6. Life'
  <2>1. mustConnect' = mustConnect
    BY <1>5 DEF mustConnect
  <2>2. \A u \in Thread : first(todo'[u]) = "reconnect" => mustConnect
    BY <1>1, <1>2, <1>4 DEF IInv, Life
  <2> QED BY <1>5, <2>1, <2>2 DEF Life
<1>7. Sessions'
  BY <1>1, <1>5 DEF IInv, Sessions, running
<1>8. Values'
  BY <1>1, <1>2, <1>3, MovesAway DEF Stop, server, process
<1>9. TypeOK'
  BY <1>2 DEF Stop, server, process, TypeOK, Locking, IInv
<1> QED BY <1>2, <1>6, <1>7, <1>8, <1>9 DEF IInv, Locking

\* A znode changes.
LEMMA ChangeInv ==
    ASSUME IInv, NEW d \in Datum, Change(d)
    PROVE  IInv'
<1>1. /\ UNCHANGED <<node, session, m_zhandle, cache, m_registered, mutex, todo,
                     value, run, losses, failed>>
  BY DEF Change, process, threads
<1>2. Plans' /\ Held'
  BY <1>1 DEF IInv, Plans, Held
<1>3. Life' /\ Sessions'
  BY <1>1 DEF IInv, Life, Sessions, running, idle, mustConnect
<1>4. /\ version \in [Datum -> Nat \ {0}] /\ version' \in [Datum -> Nat \ {0}]
      /\ \A x \in Datum : version'[x] >= version[x]
  BY DEF Change, IInv, TypeOK
<1>5. Values'
  <2>1. ASSUME NEW u \in Thread PROVE ValueOf(u)'
    <3>1. ValueOf(u) /\ value[u] \in Int
      BY DEF IInv, Values, TypeOK
    <3>2. /\ \A x \in Datum : of(cache[x])' = of(cache[x]) /\ of(cache[x]) \in Nat
          /\ of(value[u])' = of(value[u]) /\ of(value[u]) \in Nat
      BY <1>1, <3>1, Bounded DEF of
    <3>3. \A x \in Datum : /\ version[x] \in Nat /\ version'[x] \in Nat
                           /\ version'[x] >= version[x]
      BY <1>4
    <3>4. "config" \in Datum
      BY DEF Datum
    <3> QED BY <1>1, <3>1, <3>2, <3>3, <3>4 DEF ValueOf
  <2> QED BY <2>1 DEF Values
<1>6. TypeOK'
  <2>1. watches' \in [Session -> SUBSET Datum]
    BY DEF Change, IInv, TypeOK
  <2>2. events' \in [Session -> SUBSET (Datum \cup {"expired", "session"})]
    BY DEF Change, IInv, TypeOK
  <2>3. ASSUME NEW x \in Datum PROVE cache'[x] \in (-version'[x])..version'[x]
    <3>1. /\ cache[x] \in (-version[x])..version[x] /\ version[x] \in Nat
          /\ version'[x] \in Nat /\ version'[x] >= version[x]
      BY <1>4 DEF IInv, TypeOK
    <3> QED BY <1>1, <3>1
  <2> QED BY <1>1, <1>4, <2>1, <2>2, <2>3 DEF IInv, TypeOK, idle
<1> QED BY <1>2, <1>3, <1>5, <1>6 DEF IInv

\* The session of the handle expires; there is another one left.
LEMMA ExpireInv ==
    ASSUME IInv, NEW s \in Session, Expire(s)
    PROVE  IInv'
<1>1. /\ UNCHANGED <<version, m_zhandle, cache, m_registered, mutex, todo,
                     value, run, losses, failed>>
      /\ s < MaxSessions /\ session[s] = "live"
  BY DEF Expire, process, threads
<1>2. Plans' /\ Held' /\ Values'
  BY <1>1 DEF IInv, Plans, Held, Values, ValueOf
<1>3. /\ session' \in [Session -> {"unused", "live", "expired", "closed"}]
      /\ session'[s] = "expired"
      /\ \A x \in Session : x # s => session'[x] = session[x]
  BY DEF Expire, IInv, TypeOK
<1>4. s = m_zhandle
  BY <1>1 DEF IInv, Sessions
<1>5. Life'
  <2>1. mustConnect'
    BY <1>1, <1>3, <1>4 DEF mustConnect
  <2> QED BY <1>1, <2>1 DEF IInv, Life, idle
<1>6. Sessions'
  <2>1. PICK n \in 0..MaxSessions : \A x \in Session : session[x] # "unused" <=> x <= n
    BY DEF IInv, Sessions
  <2>2. \A x \in Session : session'[x] # "unused" <=> session[x] # "unused"
    BY <1>1, <1>3
  <2>3. \A x \in Session : session'[x] # "unused" <=> x <= n
    BY <2>1, <2>2
  <2>4. m_zhandle' # NULL => \A x \in Session : session'[x] # "unused" <=> x <= m_zhandle'
    BY <1>1, <2>2 DEF IInv, Sessions
  <2>5. running' /\ m_zhandle' = NULL => session'[MaxSessions] = "unused"
    <3>1. running' = running
      BY <1>1 DEF running
    <3>2. MaxSessions \in Session
      BY ZookeeperAssumption DEF Session
    <3> QED BY <1>1, <2>2, <3>1, <3>2 DEF IInv, Sessions
  <2>6. \A x \in Session : session'[x] = "expired" => x < MaxSessions
    BY <1>1, <1>3 DEF IInv, Sessions
  <2>7. \A x \in Session : session'[x] = "live" => x = m_zhandle'
    BY <1>1, <1>3 DEF IInv, Sessions
  <2> QED BY <2>3, <2>4, <2>5, <2>6, <2>7 DEF Sessions
<1>7. TypeOK'
  <2>1. watches' \in [Session -> SUBSET Datum]
    BY DEF Expire, IInv, TypeOK
  <2>2. events' \in [Session -> SUBSET (Datum \cup {"expired", "session"})]
    BY DEF Expire, IInv, TypeOK
  <2>3. node' \in Session \cup {NoNode, Persistent, OtherProcess}
    BY DEF Expire, IInv, TypeOK
  <2> QED BY <1>1, <1>3, <2>1, <2>2, <2>3 DEF IInv, TypeOK, idle
<1> QED BY <1>2, <1>5, <1>6, <1>7 DEF IInv

\* Another process comes or goes.
LEMMA OtherInv ==
    ASSUME IInv, OtherComes \/ OtherGoes
    PROVE  IInv'
<1>1. /\ UNCHANGED <<version, session, watches, events, m_zhandle, cache,
                     m_registered, mutex, todo, value, run, losses, failed>>
      /\ node' \in {NoNode, OtherProcess}
  BY DEF OtherComes, OtherGoes, process, threads
<1>2. Plans' /\ Held' /\ Values'
  BY <1>1 DEF IInv, Plans, Held, Values, ValueOf
<1>3. Life' /\ Sessions'
  BY <1>1 DEF IInv, Life, Sessions, running, idle, mustConnect
<1>4. TypeOK'
  BY <1>1 DEF IInv, TypeOK, idle
<1> QED BY <1>2, <1>3, <1>4 DEF IInv

\* A step that changes nothing keeps the invariant.
LEMMA StutterInv ==
    ASSUME IInv, UNCHANGED vars
    PROVE  IInv'
<1>1. UNCHANGED <<version, node, session, watches, events, m_zhandle, cache,
                  m_registered, mutex, todo, value, run, losses, failed>>
  BY DEF vars, server, process, threads
<1>2. Plans' /\ Held' /\ Values'
  BY <1>1 DEF IInv, Plans, Held, Values, ValueOf
<1>3. Life' /\ Sessions'
  BY <1>1 DEF IInv, Life, Sessions, running, idle, mustConnect
<1>4. TypeOK'
  BY <1>1 DEF IInv, TypeOK, idle
<1> QED BY <1>2, <1>3, <1>4 DEF IInv

\* The initial states satisfy the invariant.
LEMMA InitInv == Init => IInv
<1> SUFFICES ASSUME Init PROVE IInv
  OBVIOUS
<1>1. /\ Main \in Thread /\ Free \notin Thread /\ MaxSessions \in Session
      /\ \A s \in Session : s \in Nat /\ s > 0
  BY ZookeeperAssumption DEF Main, Thread, Free, Session
<1>2. \A t \in Thread : /\ todo[t] \in {refresh, <<>>}
                        /\ Plan(todo[t]) /\ first(todo[t]) \notin OnHandle \cup {"exists", "read", "store"}
  BY Begun DEF Init
<1>3. \A t \in Thread : todo[t] \in Seq(Step)
  BY <1>2 DEF Plan
<1>4. \A t \in Thread : first(todo[t]) \in Unlocked \cup {"none"}
  BY <1>2, <1>3 DEF Unlocked, first
<1>5. Plans
  BY <1>2 DEF Plans
<1>6. Held
  BY <1>1, <1>4, HoldsAt DEF Held, Init
<1>7. Life
  BY <1>2 DEF Life, Init, OnHandle
<1>8. Sessions
  <2>1. \A s \in Session : session[s] = "unused" /\ ~(s <= 0)
    BY <1>1 DEF Init
  <2>2. 0 \in 0..MaxSessions
    BY ZookeeperAssumption
  <2> QED BY <1>1, <2>1, <2>2 DEF Sessions, Init
<1>9. Values
  BY <1>2 DEF Values, ValueOf, Init
<1>10. TypeOK
  <2>1. todo \in [Thread -> Seq(Step)]
    BY <1>3 DEF Init
  <2>2. \A d \in Datum : cache[d] \in (-version[d])..version[d]
    BY DEF Init
  <2>3. /\ version \in [Datum -> Nat \ {0}]
        /\ node \in Session \cup {NoNode, Persistent, OtherProcess}
        /\ session \in [Session -> {"unused", "live", "expired", "closed"}]
        /\ watches \in [Session -> SUBSET Datum]
        /\ events \in [Session -> SUBSET (Datum \cup {"expired", "session"})]
        /\ m_zhandle \in Session \cup {NULL}
    BY DEF Init
  <2>4. DOMAIN cache = Datum /\ m_registered \in BOOLEAN /\ failed \in BOOLEAN
    BY DEF Init
  <2>5. mutex \in [Mutex -> Thread \cup {Free}] /\ \A m \in Mutex : mutex[m] = Free
    BY DEF Init
  <2>6. value \in [Thread -> Int]
    BY DEF Init
  <2>7. losses \in 0..MaxLosses /\ run = "init"
    BY ZookeeperAssumption DEF Init
  <2> QED BY <2>1, <2>2, <2>3, <2>4, <2>5, <2>6, <2>7 DEF TypeOK
<1> QED BY <1>5, <1>6, <1>7, <1>8, <1>9, <1>10 DEF IInv

\* Every step keeps the invariant.
LEMMA Inductive == IInv /\ [Next]_vars => IInv'
<1> SUFFICES ASSUME IInv, [Next]_vars PROVE IInv'
  OBVIOUS
<1>1. ASSUME NEW t \in Thread, ThreadStep(t) PROVE IInv'
  <2>1. CASE SetWatcher(t)
    BY <2>1, SetWatchInv DEF SetWatcher, OnHandle, Datum
  <2>2. CASE SetChildrenWatcher(t)
    BY <2>2, SetWatchInv DEF SetChildrenWatcher, OnHandle, Datum
  <2> QED BY <1>1, <2>1, <2>2, ConnectionInv, ReconnectInv, WatchersInv,
             GetClientInv, CreateClientInv, RefreshBrokerUrlsInv,
             StartReadingInv, ExistsInv, ReadInv, StoreInv DEF ThreadStep
<1> QED BY <1>1, StartedInv, TimerFiresInv, StopInv, CloseInv, ClosingInv,
           DeliverInv, ExpireInv, ChangeInv, OtherInv, StutterInv DEF Next
-----------------------------------------------------------------------------
\* Every state is well typed, and a thread that holds a mutex is at work,
\* whatever sessions expire, calls fail and threads overlap.
THEOREM TypeCorrect == Spec => []TypeOK
<1>1. IInv => TypeOK
  BY DEF IInv
<1> QED BY <1>1, InitInv, Inductive, PTL DEF Spec

\* Only the thread with the mutex of the configuration writes m_log_config, and
\* what it has read is at least as new as what is there.
LEMMA Forward ==
    ASSUME IInv, [Next]_vars
    PROVE  /\ of(cache'["config"]) >= of(cache["config"])
           /\ cache["config"] > 0 => cache'["config"] # -cache["config"]
<1>0. "config" \in Datum
  BY DEF Datum
<1>1. cache["config"] \in Int /\ of(cache["config"]) \in Nat
  BY <1>0, Bounded
<1>2. CASE cache'["config"] = cache["config"]
  <2>1. of(cache'["config"]) = of(cache["config"])
    BY <1>2
  <2> QED BY <1>1, <1>2, <2>1
<1>3. ASSUME NEW t \in Thread, RefreshBrokerUrls(t) PROVE cache'["config"] = cache["config"]
  BY <1>0, <1>3 DEF RefreshBrokerUrls, unreadable, IInv, TypeOK
<1>4. ASSUME NEW t \in Thread, Store(t)
      PROVE  /\ of(cache'["config"]) >= of(cache["config"])
             /\ cache["config"] > 0 => cache'["config"] # -cache["config"]
  <2>1. first(todo[t]) = "store"
    BY <1>4, AtFirst DEF Store
  <2>2. /\ of(cache["config"]) <= of(value[t]) /\ value[t] \in Int
        /\ value[t] < 0 => of(cache["config"]) < of(value[t])
    BY <2>1 DEF IInv, Values, ValueOf, TypeOK
  <2>3. cache'["config"] = value[t]
    BY <1>0, <1>4 DEF Store, IInv, TypeOK
  <2> QED BY <1>1, <2>2, <2>3 DEF of
<1>5. ASSUME NEW t \in Thread, ThreadStep(t)
      PROVE  cache'["config"] = cache["config"] \/ Store(t)
  BY <1>3, <1>5 DEF ThreadStep, Connection, Reconnect, Watchers, SetWatcher,
     SetChildrenWatcher, SetWatch, GetClient, CreateClient, StartReading, Exists,
     Read, process
<1>6. cache' = cache \/ \E t \in Thread : ThreadStep(t)
  BY DEF Next, Started, TimerFires, Stop, Close, Closing, Deliver, Expire, Change,
     OtherComes, OtherGoes, process, vars
<1> QED BY <1>2, <1>4, <1>5, <1>6

\* An old configuration never replaces a newer one, and a whole one is not
\* replaced by the same one cut off, however many threads read at the same time
\* (refreshLogConfig, m_log_config_mutex).
THEOREM ConfigGoesForwardAlways == Spec => ConfigGoesForward
<1>1. IInv /\ [Next]_vars =>
         [/\ of(cache'["config"]) >= of(cache["config"])
          /\ cache["config"] > 0 => cache'["config"] # -cache["config"]]_vars
  BY Forward
<1> QED BY <1>1, InitInv, Inductive, PTL DEF Spec, ConfigGoesForward
-----------------------------------------------------------------------------
(***************************************************************************)
(* No change of the configuration is missed.  Until a call fails, either a *)
(* thread has yet to set the watch and to read after it, or an event that  *)
(* makes one do so is waiting; or the watch is set, and then the cache is  *)
(* current or a thread will read it.                                       *)
(***************************************************************************)
Watching == {"watchers", "set watcher"}
Reviving == {"connection", "reconnect"}
OnLive == {"set watcher", "set children watcher", "get client", "create client"}

\* The watch is yet to be set, and the configuration to be read after it; it is
\* to be read.
watching(q) ==
    \E j \in 1..Len(q), k \in 1..Len(q) : j < k /\ q[j] \in Watching /\ q[k] = "config"
reading(q) == \E k \in 1..Len(q) : q[k] = "config"

\* The configuration is read last, and a thread that connects sets the watch.
Ordered(q) ==
    /\ Len(q) <= 4
    /\ first(q) \in Reviving => watching(q)
    /\ \A k \in 1..Len(q) : q[k] = "config" => k = Len(q)
    /\ \A k \in 2..Len(q) : q[k] # "connection"

Order == \A t \in Thread : Ordered(todo[t])

\* The handle is not closed while it is the handle, and stays while it is used.
Handles ==
    running => /\ m_zhandle # NULL => session[m_zhandle] \in {"live", "expired"}
               /\ \A t \in Thread : first(todo[t]) \in OnLive => m_zhandle # NULL

\* Somebody connects when there is no live session.
Revived ==
    running /\ ~failed /\ mustConnect =>
        \/ m_zhandle # NULL /\ "expired" \in events[m_zhandle]
        \/ \E t \in Thread : first(todo[t]) \in Reviving

\* The thread reads the configuration, which has not changed since it began.
fresh(t) ==
    /\ reading(todo[t])
    /\ first(todo[t]) = "read" => value[t] \in {0, version["config"]}
    /\ first(todo[t]) = "store" => value[t] = version["config"]

Watched ==
    /\ m_zhandle # NULL
    /\ session[m_zhandle] = "live"
    /\ "config" \in watches[m_zhandle]
Due ==
    \/ \E t \in Thread : watching(todo[t])
    \/ \E s \in Session : session[s] # "closed" /\ events[s] \cap {"config", "expired"} # {}
Current == cache["config"] = version["config"]
Covered ==
    running /\ ~failed => \/ Due
                          \/ Watched /\ (Current \/ \E t \in Thread : fresh(t))

FInv == Order /\ Handles /\ Revived /\ Covered
-----------------------------------------------------------------------------
\* The next step is begun.
LEMMA PoppedOrder ==
    ASSUME NEW q, Plan(q), Ordered(q), q # <<>>
    PROVE  /\ Ordered(<<>> \o Tail(q))
           /\ first(q) \notin Watching /\ watching(q) => watching(<<>> \o Tail(q))
           /\ first(q) # "config" /\ reading(q) => reading(<<>> \o Tail(q))
           /\ first(q) = "config" => ~watching(q)
<1> DEFINE r == <<>> \o Tail(q)
<1>1. /\ q \in Seq(Step) /\ Len(q) > 0 /\ Len(q) \in Nat
      /\ r \in Seq(Step) /\ Len(r) = Len(q) - 1 /\ Len(r) \in Nat
      /\ \A k \in 1..Len(r) : r[k] = q[k + 1]
      /\ first(q) = q[1]
  BY DEF Plan, first
<1>2. first(r) \notin Reviving
  <2>1. first(r) # "reconnect"
    BY Popped DEF OnHandle
  <2>2. CASE Len(r) = 0
    <3> HIDE DEF r
    <3>1. r = <<>>
      BY <1>1, <2>2
    <3> QED BY <3>1 DEF first, Reviving
  <2>3. CASE Len(r) > 0
    <3> HIDE DEF r
    <3>1. first(r) = q[2] /\ 2 \in 2..Len(q)
      BY <1>1, <2>3 DEF first
    <3> QED BY <2>1, <3>1 DEF Ordered, Reviving
  <2> QED BY <1>1, <2>2, <2>3
<1> HIDE DEF r
<1>3. Ordered(r)
  <2>1. Len(r) <= 3 /\ \A k \in 1..Len(r) : k + 1 \in 2..Len(q) /\ k + 1 \in 1..Len(q)
    BY <1>1 DEF Ordered
  <2>2. \A k \in 1..Len(r) : r[k] = "config" => k = Len(r)
    BY <1>1, <2>1 DEF Ordered
  <2>3. \A k \in 1..Len(r) : r[k] # "connection"
    BY <1>1, <2>1 DEF Ordered
  <2> QED BY <1>1, <1>2, <2>1, <2>2, <2>3 DEF Ordered
<1>4. first(q) \notin Watching /\ watching(q) => watching(r)
  <2> SUFFICES ASSUME first(q) \notin Watching, watching(q) PROVE watching(r)
    OBVIOUS
  <2>1. PICK j \in 1..Len(q), k \in 1..Len(q) :
            j < k /\ q[j] \in Watching /\ q[k] = "config"
    BY DEF watching
  <2>2. j # 1
    BY <1>1, <2>1
  <2>3. j - 1 \in 1..Len(r) /\ k - 1 \in 1..Len(r) /\ j - 1 < k - 1
    BY <1>1, <2>1, <2>2
  <2>4. r[j - 1] = q[j] /\ r[k - 1] = q[k]
    BY <1>1, <2>3
  <2> QED BY <2>1, <2>3, <2>4 DEF watching
<1>5. first(q) # "config" /\ reading(q) => reading(r)
  <2> SUFFICES ASSUME first(q) # "config", reading(q) PROVE reading(r)
    OBVIOUS
  <2>1. PICK k \in 1..Len(q) : q[k] = "config"
    BY DEF reading
  <2>2. k - 1 \in 1..Len(r) /\ r[k - 1] = q[k]
    <3>1. k # 1
      BY <1>1, <2>1
    <3>2. k - 1 \in 1..Len(r)
      BY <1>1, <3>1
    <3> QED BY <1>1, <3>2
  <2> QED BY <2>1, <2>2 DEF reading
<1>6. first(q) = "config" => ~watching(q)
  <2> SUFFICES ASSUME first(q) = "config", watching(q) PROVE FALSE
    OBVIOUS
  <2>1. PICK j \in 1..Len(q), k \in 1..Len(q) : j < k /\ q[j] \in Watching
    BY DEF watching
  <2>2. 1 \in 1..Len(q) /\ q[1] = "config"
    BY <1>1
  <2>3. Len(q) = 1
    BY <2>2 DEF Ordered
  <2>4. ~(j < k)
    BY <2>3
  <2> QED BY <2>1, <2>4
<1> QED BY <1>3, <1>4, <1>5, <1>6 DEF r

\* A step takes the place of the first one.
LEMMA PushedOrder ==
    ASSUME NEW q, Plan(q), Ordered(q), q # <<>>, first(q) # "config",
           NEW x \in OnHandle \cup {"store"}, x = "reconnect" => first(q) = "connection"
    PROVE  /\ Ordered(<<x>> \o Tail(q))
           /\ watching(q) /\ (first(q) \notin Watching \/ x \in Watching) => watching(<<x>> \o Tail(q))
           /\ reading(q) => reading(<<x>> \o Tail(q))
<1> DEFINE r == <<x>> \o Tail(q)
<1>0. OnHandle \cup {"store"} \subseteq Step /\ x \notin {"config", "connection", "brokers"}
  BY DEF OnHandle, Step
<1>1. /\ q \in Seq(Step) /\ Len(q) > 0 /\ Len(q) \in Nat
      /\ r \in Seq(Step) /\ Len(r) = Len(q)
      /\ r[1] = x /\ \A k \in 2..Len(r) : r[k] = q[k]
      /\ first(q) = q[1]
      /\ first(r) = x
  BY <1>0 DEF Plan, first
<1> HIDE DEF r
<1>2. watching(q) /\ (first(q) \notin Watching \/ x \in Watching) => watching(r)
  <2> SUFFICES ASSUME watching(q), first(q) \notin Watching \/ x \in Watching
               PROVE  watching(r)
    OBVIOUS
  <2>1. PICK j \in 1..Len(q), k \in 1..Len(q) :
            j < k /\ q[j] \in Watching /\ q[k] = "config"
    BY DEF watching
  <2>2. k \in 2..Len(r) /\ r[k] = "config"
    BY <1>1, <2>1
  <2>3. r[j] \in Watching
    <3>1. CASE j = 1
      BY <1>1, <2>1, <3>1
    <3>2. CASE j # 1
      BY <1>1, <2>1, <3>2
    <3> QED BY <3>1, <3>2
  <2> QED BY <1>1, <2>1, <2>2, <2>3 DEF watching
<1>3. reading(q) => reading(r)
  <2> SUFFICES ASSUME reading(q) PROVE reading(r)
    OBVIOUS
  <2>1. PICK k \in 1..Len(q) : q[k] = "config"
    BY DEF reading
  <2>2. k \in 2..Len(r) /\ r[k] = "config"
    BY <1>1, <2>1
  <2> QED BY <1>1, <2>2 DEF reading
<1>4. Ordered(r)
  <2>1. first(r) \in Reviving => watching(r)
    <3> SUFFICES ASSUME first(r) \in Reviving PROVE watching(r)
      OBVIOUS
    <3>1. first(q) = "connection"
      BY <1>0, <1>1 DEF Reviving
    <3> QED BY <1>2, <3>1 DEF Ordered, Reviving, Watching
  <2>2. \A k \in 1..Len(r) : r[k] = "config" => k = Len(r)
    <3>1. \A k \in 1..Len(r) : k = 1 \/ k \in 2..Len(r)
      BY <1>1
    <3> QED BY <1>0, <1>1, <3>1 DEF Ordered
  <2>3. \A k \in 2..Len(r) : r[k] # "connection"
    BY <1>1 DEF Ordered
  <2>4. Len(r) <= 4 /\ first(r) # "brokers"
    BY <1>0, <1>1 DEF Ordered
  <2> QED BY <2>1, <2>2, <2>3, <2>4 DEF Ordered
<1> QED BY <1>2, <1>3, <1>4 DEF r

\* A thread begins to read.
LEMMA PrependedOrder ==
    ASSUME NEW q, Plan(q), Ordered(q), first(q) = "config"
    PROVE  Ordered(<<"exists", "read">> \o q) /\ reading(<<"exists", "read">> \o q)
<1> DEFINE r == <<"exists", "read">> \o q
<1>0. q # <<>>
  BY DEF first
<1>1. q \in Seq(Step) /\ Len(q) > 0 /\ Len(q) \in Nat /\ q[1] = "config"
  BY <1>0 DEF Plan, first
<1>2. Len(q) = 1
  <2>1. 1 \in 1..Len(q)
    BY <1>1
  <2> QED BY <1>1, <2>1 DEF Ordered
<1>3. /\ Len(r) = 3 /\ r[1] = "exists" /\ r[2] = "read" /\ r[3] = "config"
      /\ first(r) = "exists"
  <2>1. "exists" \in Step /\ "read" \in Step
    BY DEF Step
  <2>2. /\ r \in Seq(Step) /\ Len(r) = Len(q) + 2
        /\ r[1] = "exists" /\ r[2] = "read" /\ r[3] = "config"
        /\ first(r) = "exists"
    BY <1>1, <2>1 DEF first
  <2> HIDE DEF r
  <2> QED BY <1>2, <2>2
<1> HIDE DEF r
<1>4. \A k \in 1..3 : k = 1 \/ k = 2 \/ k = 3
  OBVIOUS
<1>5. Ordered(r) /\ reading(r)
  BY <1>3, <1>4 DEF Ordered, Reviving, reading
<1> QED BY <1>5 DEF r

\* A thread has read or stored.
LEMMA DroppedOrder ==
    ASSUME NEW q, Plan(q), Ordered(q), first(q) \in {"read", "store"}
    PROVE  /\ Ordered(SubSeq(q, 3, Len(q)))
           /\ ~watching(q)
<1> DEFINE r == SubSeq(q, 3, Len(q))
<1>0. q # <<>>
  BY DEF first
<1>1. q \in Seq(Step) /\ Len(q) >= 2 /\ q[1] \in {"read", "store"} /\ q[2] = "config"
  BY <1>0 DEF Plan, first
<1>2. Len(q) \in Nat
  BY <1>1, LenProperties
<1>3. /\ r \in Seq(Step) /\ Len(r) = Len(q) - 2
      /\ \A k \in 1..Len(r) : r[k] = q[k + 2]
  <2>1. \A i \in 3..Len(q) : q[i] \in Step
    BY <1>1, <1>2
  <2>2. 3 \in Int /\ Len(q) \in Int
    BY <1>2
  <2>3. /\ r \in Seq(Step) /\ Len(r) = IF 3 <= Len(q) THEN Len(q) - 3 + 1 ELSE 0
        /\ \A i \in 1..(Len(q) - 3 + 1) : r[i] = q[3 + i - 1]
    BY <2>1, <2>2, SubSeqProperties
  <2> HIDE DEF r
  <2>4. \A n \in Nat : n >= 2 => (IF 3 <= n THEN n - 3 + 1 ELSE 0) = n - 2
    OBVIOUS
  <2>5. Len(r) = Len(q) - 2
    BY <1>1, <1>2, <2>3, <2>4
  <2>6. \A k \in 1..Len(r) : k \in 1..(Len(q) - 3 + 1) /\ 3 + k - 1 = k + 2
    BY <1>2, <2>5
  <2> QED BY <2>3, <2>5, <2>6
<1>4. first(r) \notin Reviving
  <2>1. first(r) # "reconnect"
    BY Dropped DEF OnHandle
  <2> HIDE DEF r
  <2>2. CASE Len(r) = 0
    BY <1>3, <2>2 DEF first, Reviving
  <2>3. CASE Len(r) # 0
    <3>1. first(r) = q[3] /\ 3 \in 2..Len(q)
      BY <1>2, <1>3, <2>3 DEF first
    <3> QED BY <2>1, <3>1 DEF Ordered, Reviving
  <2> QED BY <2>2, <2>3
<1> HIDE DEF r
<1>5. \A k \in 1..Len(r) : k + 2 \in 2..Len(q) /\ k + 2 \in 1..Len(q)
  BY <1>2, <1>3
<1>6. Ordered(r)
  <2>1. Len(r) <= 2
    BY <1>2, <1>3 DEF Ordered
  <2>2. \A k \in 1..Len(r) : r[k] = "config" => k = Len(r)
    BY <1>2, <1>3, <1>5 DEF Ordered
  <2>3. \A k \in 1..Len(r) : r[k] # "connection"
    BY <1>3, <1>5 DEF Ordered
  <2>4. Len(r) \in Nat
    BY <1>3
  <2> QED BY <1>4, <2>1, <2>2, <2>3, <2>4 DEF Ordered
<1>7. ~watching(q)
  <2>1. 2 \in 1..Len(q)
    BY <1>1, <1>2
  <2>4. Len(q) = 2
    BY <1>1, <2>1 DEF Ordered
  <2> SUFFICES ASSUME watching(q) PROVE FALSE
    OBVIOUS
  <2>2. PICK j \in 1..Len(q), k \in 1..Len(q) : j < k /\ q[j] \in Watching
    BY DEF watching
  <2>3. j = 1
    BY <2>2, <2>4
  <2> QED BY <1>1, <2>2, <2>3 DEF Watching
<1> QED BY <1>6, <1>7 DEF r

\* A thread begins, or has nothing left.
LEMMA BegunOrder ==
    /\ \A q \in {refresh, <<"watchers">>, <<"watchers", "config">>,
                 <<"watchers", "brokers">>, <<"close">>, <<>>} : Ordered(q)
    /\ watching(refresh) /\ first(refresh) = "connection"
    /\ watching(<<"watchers", "config">>)
    /\ ~watching(<<>>) /\ ~reading(<<>>)
<1>1. watching(refresh) /\ first(refresh) = "connection"
  <2>1. /\ Len(refresh) = 4 /\ refresh[3] = "watchers" /\ refresh[4] = "config"
        /\ first(refresh) = "connection"
    BY DEF refresh, first
  <2>2. 3 \in 1..4 /\ 4 \in 1..4 /\ 3 < 4
    OBVIOUS
  <2> HIDE DEF refresh
  <2> QED BY <2>1, <2>2 DEF watching, Watching
<1>2. Ordered(refresh)
  <2>1. /\ Len(refresh) = 4 /\ refresh[1] = "connection" /\ refresh[2] = "brokers"
        /\ refresh[3] = "watchers" /\ refresh[4] = "config"
    BY DEF refresh
  <2>2. \A k \in 1..4 : k = 1 \/ k = 2 \/ k = 3 \/ k = 4
    OBVIOUS
  <2> QED BY <1>1, <2>1, <2>2 DEF Ordered
<1>3. watching(<<"watchers", "config">>)
  <2> DEFINE q == <<"watchers", "config">>
  <2>1. Len(q) = 2 /\ q[1] = "watchers" /\ q[2] = "config" /\ 1 \in 1..2 /\ 2 \in 1..2 /\ 1 < 2
    OBVIOUS
  <2> HIDE DEF q
  <2>2. watching(q)
    BY <2>1 DEF watching, Watching
  <2> QED BY <2>2 DEF q
<1>4. Ordered(<<"watchers">>) /\ Ordered(<<"close">>)
  BY DEF Ordered, first, Reviving
<1>5. Ordered(<<"watchers", "config">>) /\ Ordered(<<"watchers", "brokers">>)
  BY DEF Ordered, first, Reviving
<1>6. Ordered(<<>>) /\ ~watching(<<>>) /\ ~reading(<<>>)
  BY DEF Ordered, first, Reviving, watching, reading
<1> QED BY <1>1, <1>2, <1>3, <1>4, <1>5, <1>6
-----------------------------------------------------------------------------
\* A step of a thread that changes neither the handle nor what waits for the
\* completion threads.  A thread may forget to set the watch only when somebody
\* connects, or when it has set it.
LEMMA Quiet ==
    ASSUME IInv, FInv, running, NEW t \in Thread, NEW r,
           todo' = [todo EXCEPT ![t] = r], Ordered(r),
           UNCHANGED <<m_zhandle, session, events, version>>,
           \A s \in Session : watches[s] \subseteq watches'[s],
           \A u \in Thread : u # t => value'[u] = value[u],
           failed => failed',
           first(r) \in OnLive => m_zhandle # NULL,
           ~failed' /\ mustConnect /\ first(todo[t]) \in Reviving => first(r) \in Reviving,
           ~failed' /\ watching(todo[t]) => watching(r) \/ mustConnect \/ (Watched' /\ fresh(t)'),
           ~failed' /\ Watched /\ fresh(t) => fresh(t)' \/ Current',
           Current => Current'
    PROVE  FInv'
<1>1. /\ todo \in [Thread -> Seq(Step)]
      /\ todo'[t] = r /\ \A u \in Thread : u # t => todo'[u] = todo[u]
      /\ events' = events /\ session' = session /\ m_zhandle' = m_zhandle
      /\ m_zhandle \in Session \cup {NULL}
  BY DEF IInv, TypeOK
<1>2. Order /\ Handles /\ Revived /\ Covered
  BY DEF FInv
<1>3. Order'
  BY <1>1, <1>2 DEF Order
<1>4. Handles'
  BY <1>1, <1>2 DEF Handles
<1>5. Revived'
  <2>1. mustConnect' = mustConnect
    BY DEF mustConnect
  <2>2. CASE m_zhandle # NULL /\ "expired" \in events[m_zhandle]
    BY <1>1, <2>2 DEF Revived
  <2>3. ASSUME NEW u \in Thread, first(todo[u]) \in Reviving, ~failed', mustConnect
        PROVE  first(todo'[u]) \in Reviving
    BY <1>1, <2>3
  <2> QED BY <1>2, <2>1, <2>2, <2>3 DEF Revived
<1>6. Covered'
  <2> SUFFICES ASSUME running', ~failed'
               PROVE  Due' \/ (Watched' /\ (Current' \/ \E u \in Thread : fresh(u)'))
    BY DEF Covered
  <2>1. Watched => Watched'
    BY <1>1 DEF Watched, NULL
  <2>2. CASE mustConnect
    <3>1. mustConnect'
      BY <2>2 DEF mustConnect
    <3>2. CASE m_zhandle # NULL /\ "expired" \in events[m_zhandle]
      <4>1. m_zhandle \in Session /\ session'[m_zhandle] # "closed"
        BY <1>1, <1>2, <3>2 DEF Handles
      <4>2. "expired" \in events'[m_zhandle] \cap {"config", "expired"}
        BY <1>1, <3>2
      <4>3. events'[m_zhandle] \cap {"config", "expired"} # {}
        BY <4>2
      <4> QED BY <4>1, <4>3 DEF Due
    <3>3. CASE ~(m_zhandle # NULL /\ "expired" \in events[m_zhandle])
      <4>1. PICK u \in Thread : first(todo'[u]) \in Reviving
        BY <1>1, <1>5, <3>1, <3>3 DEF Revived
      <4>2. watching(todo'[u])
        BY <1>3, <4>1 DEF Order, Ordered
      <4> QED BY <4>2 DEF Due
    <3> QED BY <3>2, <3>3
  <2>3. CASE ~mustConnect /\ Due
    <3>1. CASE \E s \in Session : session[s] # "closed" /\ events[s] \cap {"config", "expired"} # {}
      BY <1>1, <3>1 DEF Due
    <3>2. ASSUME NEW u \in Thread, watching(todo[u])
          PROVE  Due' \/ (Watched' /\ fresh(t)')
      BY <1>1, <2>3, <3>2 DEF Due
    <3> QED BY <2>3, <3>1, <3>2 DEF Due
  <2>4. CASE ~mustConnect /\ ~Due
    <3>1. Watched /\ (Current \/ \E u \in Thread : fresh(u))
      BY <1>2, <2>4 DEF Covered
    <3>2. ASSUME NEW u \in Thread, u # t, fresh(u) PROVE fresh(u)'
      BY <1>1, <3>2 DEF fresh
    <3> QED BY <2>1, <3>1, <3>2
  <2> QED BY <2>2, <2>3, <2>4
<1> QED BY <1>3, <1>4, <1>5, <1>6 DEF FInv

\* The thread of a step that neither sets the watch nor reads.
LEMMA FreshKept ==
    ASSUME NEW t \in Thread, fresh(t), reading(todo'[t]),
           first(todo'[t]) \notin {"exists", "read", "store"}
    PROVE  fresh(t)'
BY DEF fresh

\* refreshConnection: whoever finds no live session goes on to connect.
LEMMA ConnectionF ==
    ASSUME IInv, FInv, NEW t \in Thread, Connection(t)
    PROVE  FInv'
<1> DEFINE q == todo[t]
<1>1. running /\ q # <<>> /\ first(q) = "connection" /\ Plan(q) /\ Ordered(q)
  BY AtFirst DEF Connection, IInv, Plans, FInv, Order
<1>2. PICK r : /\ todo' = [todo EXCEPT ![t] = r] /\ Ordered(r)
               /\ first(r) \notin OnLive \cup {"exists", "read", "store"}
               /\ mustConnect => first(r) \in Reviving
               /\ watching(q) => watching(r)
               /\ reading(q) => reading(r)
  <2>1. CASE mustConnect
    <3> DEFINE r == <<"reconnect">> \o Tail(q)
    <3>1. first(r) = "reconnect"
      BY <1>1, Pushed DEF OnHandle
    <3>2. Ordered(r) /\ (watching(q) => watching(r)) /\ (reading(q) => reading(r))
      BY <1>1, PushedOrder DEF OnHandle, Watching
    <3>3. todo' = [todo EXCEPT ![t] = r]
      BY <2>1 DEF Connection, goOn
    <3> HIDE DEF r
    <3> QED BY <3>1, <3>2, <3>3 DEF OnLive, Reviving
  <2>2. CASE ~mustConnect
    <3> DEFINE r == <<>> \o Tail(q)
    <3>1. first(r) \notin OnLive \cup {"exists", "read", "store"}
      BY <1>1, Popped DEF OnHandle, OnLive
    <3>2. Ordered(r) /\ (watching(q) => watching(r)) /\ (reading(q) => reading(r))
      BY <1>1, PoppedOrder DEF Watching
    <3>3. todo' = [todo EXCEPT ![t] = r]
      BY <2>2 DEF Connection, goOn
    <3> HIDE DEF r
    <3> QED BY <2>2, <3>1, <3>2, <3>3
  <2> QED BY <2>1, <2>2
<1>3. todo'[t] = r
  BY <1>2 DEF IInv, TypeOK
<1>4. fresh(t) => fresh(t)'
  BY <1>2, <1>3, FreshKept DEF fresh
<1>5. /\ UNCHANGED <<m_zhandle, session, events, version, value, watches, cache, failed>>
  BY DEF Connection, server, process
<1>6. Current => Current'
  BY <1>5 DEF Current
<1> QED BY <1>1, <1>2, <1>4, <1>5, <1>6, Quiet

\* refreshWatchers without a handle is left only while somebody connects.
LEMMA WatchersF ==
    ASSUME IInv, FInv, NEW t \in Thread, Watchers(t)
    PROVE  FInv'
<1> DEFINE q == todo[t]
<1>1. running /\ q # <<>> /\ first(q) = "watchers" /\ Plan(q) /\ Ordered(q)
  BY AtFirst DEF Watchers, IInv, Plans, FInv, Order
<1>2. PICK r : /\ todo' = [todo EXCEPT ![t] = r] /\ Ordered(r)
               /\ first(r) \in OnLive => m_zhandle # NULL
               /\ first(r) \notin {"exists", "read", "store"}
               /\ watching(q) => watching(r) \/ mustConnect
               /\ reading(q) => reading(r)
  <2>1. CASE m_zhandle # NULL
    <3> DEFINE r == <<"set watcher">> \o Tail(q)
    <3>1. first(r) = "set watcher"
      BY <1>1, Pushed DEF OnHandle
    <3>2. Ordered(r) /\ (watching(q) => watching(r)) /\ (reading(q) => reading(r))
      BY <1>1, PushedOrder DEF OnHandle, Watching
    <3>3. todo' = [todo EXCEPT ![t] = r]
      BY <2>1 DEF Watchers, goOn
    <3> HIDE DEF r
    <3> QED BY <2>1, <3>1, <3>2, <3>3
  <2>2. CASE m_zhandle = NULL
    <3> DEFINE r == <<>> \o Tail(q)
    <3>1. first(r) \notin OnLive \cup {"exists", "read", "store"}
      BY <1>1, Popped DEF OnHandle, OnLive
    <3>2. Ordered(r) /\ (reading(q) => reading(r))
      BY <1>1, PoppedOrder
    <3>3. todo' = [todo EXCEPT ![t] = r]
      BY <2>2 DEF Watchers, goOn
    <3> HIDE DEF r
    <3> QED BY <2>2, <3>1, <3>2, <3>3 DEF mustConnect
  <2> QED BY <2>1, <2>2
<1>3. todo'[t] = r
  BY <1>2 DEF IInv, TypeOK
<1>4. fresh(t) => fresh(t)'
  BY <1>2, <1>3, FreshKept DEF fresh
<1>5. /\ UNCHANGED <<m_zhandle, session, events, version, value, watches, cache, failed>>
  BY DEF Watchers, server, process
<1>6. Current => Current'
  BY <1>5 DEF Current
<1>7. first(q) \notin Reviving
  BY <1>1 DEF Reviving
<1> QED BY <1>1, <1>2, <1>4, <1>5, <1>6, <1>7, Quiet

\* A call that fails in a live session is remembered; in another one, somebody
\* connects.
LEMMA FailsF ==
    ASSUME IInv, FInv, running, m_zhandle # NULL, fails(m_zhandle), ~failed'
    PROVE  mustConnect
<1>1. session[m_zhandle] # "live"
  BY DEF fails, live
<1>2. session[m_zhandle] \in {"live", "expired"}
  BY DEF FInv, Handles
<1> QED BY <1>1, <1>2 DEF mustConnect

\* The watch is set before the configuration is read; when the call fails in an
\* expired session, somebody connects.
LEMMA SetWatcherF ==
    ASSUME IInv, FInv, NEW t \in Thread, SetWatcher(t)
    PROVE  FInv'
<1> DEFINE q == todo[t]
<1>0. SetWatch(t, "set watcher", "config", <<"set children watcher">>)
  BY DEF SetWatcher
<1>1. running /\ q # <<>> /\ first(q) = "set watcher" /\ Plan(q) /\ Ordered(q)
  BY <1>0, AtFirst DEF SetWatch, IInv, Plans, FInv, Order
<1>2. m_zhandle # NULL /\ m_zhandle \in Session
  BY <1>1 DEF FInv, Handles, OnLive, IInv, TypeOK
<1>3. /\ UNCHANGED <<m_zhandle, session, events, version, value, cache>>
  BY <1>0 DEF SetWatch, process
<1>5. CASE /\ succeeds(m_zhandle)
           /\ watches' = [watches EXCEPT ![m_zhandle] = @ \cup {"config"}]
           /\ goOn(t, <<"set children watcher">>)
  <2> DEFINE r == <<"set children watcher">> \o Tail(q)
  <2>1. first(r) = "set children watcher"
    BY <1>1, Pushed DEF OnHandle
  <2>2. Ordered(r) /\ (reading(q) => reading(r))
    BY <1>1, PushedOrder DEF OnHandle, Watching
  <2>3. todo' = [todo EXCEPT ![t] = r]
    BY <1>5 DEF goOn
  <2> HIDE DEF r
  <2>4. todo'[t] = r
    BY <2>3 DEF IInv, TypeOK
  <2>5. watching(q) => reading(q)
    BY DEF watching, reading
  <2>6. reading(q) => fresh(t)'
    BY <2>1, <2>2, <2>4 DEF fresh
  <2>7. fresh(t) => fresh(t)'
    BY <2>6 DEF fresh
  <2>8. Watched' /\ \A s \in Session : watches[s] \subseteq watches'[s]
    BY <1>2, <1>3, <1>5 DEF Watched, succeeds, live, IInv, TypeOK
  <2>9. failed => failed'
    BY <1>5 DEF succeeds
  <2>10. Current => Current'
    BY <1>3 DEF Current
  <2> QED BY <1>1, <1>2, <1>3, <2>1, <2>2, <2>3, <2>5, <2>6, <2>7, <2>8, <2>9,
             <2>10, Quiet DEF Reviving
<1>6. CASE fails(m_zhandle) /\ leave(t) /\ UNCHANGED watches
  <2> DEFINE r == <<>> \o Tail(q)
  <2>1. first(r) \notin OnLive \cup {"exists", "read", "store"}
    BY <1>1, Popped DEF OnHandle, OnLive
  <2>2. Ordered(r) /\ (reading(q) => reading(r))
    BY <1>1, PoppedOrder
  <2>3. todo' = [todo EXCEPT ![t] = r]
    BY <1>6 DEF leave, goOn
  <2> HIDE DEF r
  <2>4. todo'[t] = r
    BY <2>3 DEF IInv, TypeOK
  <2>5. fresh(t) => fresh(t)'
    BY <2>1, <2>2, <2>4, FreshKept DEF fresh
  <2>6. failed => failed'
    BY <1>6 DEF fails
  <2>7. ~failed' => mustConnect
    BY <1>1, <1>2, <1>6, FailsF
  <2>8. Current => Current'
    BY <1>3 DEF Current
  <2> QED BY <1>1, <1>2, <1>3, <1>6, <2>1, <2>2, <2>3, <2>5, <2>6, <2>7, <2>8, Quiet DEF Reviving
<1> QED BY <1>0, <1>5, <1>6 DEF SetWatch

\* The steps that come after the watch is set, and hold the mutex of the handle.
LEMMA AfterWatchF ==
    ASSUME IInv, FInv, NEW t \in Thread,
           SetChildrenWatcher(t) \/ GetClient(t) \/ CreateClient(t)
    PROVE  FInv'
<1> DEFINE q == todo[t]
<1>1. /\ running /\ q # <<>> /\ Plan(q) /\ Ordered(q)
      /\ first(q) \in {"set children watcher", "get client", "create client"}
  BY AtFirst DEF SetChildrenWatcher, SetWatch, GetClient, CreateClient, IInv, Plans, FInv, Order
<1>2. m_zhandle # NULL
  BY <1>1 DEF FInv, Handles, OnLive
<1>3. /\ UNCHANGED <<m_zhandle, session, events, version, value, cache>>
      /\ failed => failed'
  BY DEF SetChildrenWatcher, SetWatch, GetClient, CreateClient, process, succeeds, fails
<1>4. \A s \in Session : watches[s] \subseteq watches'[s]
  BY DEF SetChildrenWatcher, SetWatch, GetClient, CreateClient, IInv, TypeOK
<1>5. PICK r : /\ todo' = [todo EXCEPT ![t] = r] /\ Ordered(r)
               /\ first(r) \notin {"exists", "read", "store"}
               /\ watching(q) => watching(r)
               /\ reading(q) => reading(r)
  <2>1. ASSUME NEW x \in OnLive \ Watching, goOn(t, <<x>>)
        PROVE  \E r : /\ todo' = [todo EXCEPT ![t] = r] /\ Ordered(r)
                      /\ first(r) \notin {"exists", "read", "store"}
                      /\ watching(q) => watching(r)
                      /\ reading(q) => reading(r)
    <3> DEFINE r == <<x>> \o Tail(q)
    <3>0. x \in OnHandle /\ x # "reconnect" /\ x \notin {"exists", "read", "store"}
      BY <2>1 DEF OnLive, OnHandle
    <3>1. first(r) = x
      BY <1>1, <3>0, Pushed
    <3>2. Ordered(r) /\ (watching(q) => watching(r)) /\ (reading(q) => reading(r))
      BY <1>1, <3>0, PushedOrder DEF Watching
    <3>3. todo' = [todo EXCEPT ![t] = r]
      BY <2>1 DEF goOn
    <3> HIDE DEF r
    <3> QED BY <3>0, <3>1, <3>2, <3>3
  <2>2. CASE leave(t)
    <3> DEFINE r == <<>> \o Tail(q)
    <3>1. first(r) \notin {"exists", "read", "store"}
      BY <1>1, Popped
    <3>2. Ordered(r) /\ (watching(q) => watching(r)) /\ (reading(q) => reading(r))
      BY <1>1, PoppedOrder DEF Watching
    <3>3. todo' = [todo EXCEPT ![t] = r]
      BY <2>2 DEF leave, goOn
    <3> HIDE DEF r
    <3> QED BY <3>1, <3>2, <3>3
  <2>3. "create client" \in OnLive \ Watching /\ "get client" \in OnLive \ Watching
    BY DEF OnLive, Watching
  <2>4. leave(t) \/ goOn(t, <<"create client">>) \/ goOn(t, <<"get client">>)
    BY DEF SetChildrenWatcher, SetWatch, GetClient, CreateClient
  <2> QED BY <2>1, <2>2, <2>3, <2>4
<1>6. todo'[t] = r
  BY <1>5 DEF IInv, TypeOK
<1>7. fresh(t) => fresh(t)'
  BY <1>5, <1>6, FreshKept DEF fresh
<1>8. Current => Current'
  BY <1>3 DEF Current
<1> QED BY <1>1, <1>2, <1>3, <1>4, <1>5, <1>7, <1>8, Quiet DEF Reviving

\* The thread that connects has yet to set the watch.
LEMMA ReconnectF ==
    ASSUME IInv, FInv, NEW t \in Thread, Reconnect(t)
    PROVE  FInv'
<1> DEFINE q == todo[t]
<1>0. IInv'
  BY ReconnectInv
<1>1. running /\ q # <<>> /\ first(q) = "reconnect" /\ Plan(q) /\ Ordered(q) /\ watching(q)
  BY AtFirst DEF Reconnect, IInv, Plans, FInv, Order, Ordered, Reviving
<1>2. /\ todo \in [Thread -> Seq(Step)]
      /\ \A u \in Thread : u # t => todo'[u] = todo[u]
  BY DEF IInv, TypeOK, Reconnect, goOn
<1>3. ASSUME NEW u \in Thread, u # t PROVE first(todo'[u]) \notin OnLive
  <2>1. "zhandle" \in Mutex /\ OnLive \subseteq OnHandle /\ "reconnect" \in OnHandle
    BY DEF Mutex, OnLive, OnHandle
  <2>2. mutex["zhandle"] = t
    BY <1>1, <2>1, HoldsAt DEF IInv, Held
  <2>3. ~holds(todo[u], "zhandle")
    BY <1>3, <2>1, <2>2 DEF IInv, Held
  <2> QED BY <1>2, <1>3, <2>1, <2>3, HoldsAt
<1>4. m_zhandle' = NULL => failed' /\ todo'[t] = <<>>
  <2> SUFFICES ASSUME m_zhandle' = NULL PROVE failed' /\ todo'[t] = <<>>
    OBVIOUS
  <2>1. todo'[t] = <<>>
    BY <1>2 DEF Reconnect
  <2>2. m_zhandle' # 1 + Max({0} \cup {s \in Session : session[s] # "unused"})
    BY LastSession, ZookeeperAssumption DEF lastSession, NULL, IInv
  <2> QED BY <2>1, <2>2 DEF Reconnect, newHandle
<1>5. m_zhandle' # NULL => /\ todo'[t] = <<>> \o Tail(q)
                           /\ m_zhandle' \in Session /\ session'[m_zhandle'] = "live"
  <2> SUFFICES ASSUME m_zhandle' # NULL
               PROVE  /\ todo'[t] = <<>> \o Tail(q)
                      /\ m_zhandle' \in Session /\ session'[m_zhandle'] = "live"
    OBVIOUS
  <2>1. todo'[t] = <<>> \o Tail(q)
    BY <1>2 DEF Reconnect, goOn
  <2>2. m_zhandle' \in Session
    BY <1>0 DEF IInv, TypeOK
  <2>3. m_zhandle' # m_zhandle
    <3>1. mustConnect
      BY <1>1 DEF IInv, Life
    <3>2. CASE m_zhandle = NULL
      BY <3>2
    <3>3. CASE m_zhandle # NULL
      <4>1. session[m_zhandle] # "unused" /\ m_zhandle \in Session
        BY <3>1, <3>3 DEF mustConnect, IInv, TypeOK
      <4>2. m_zhandle' = 1 + lastSession
        BY DEF Reconnect, newHandle, lastSession
      <4>3. m_zhandle <= lastSession /\ lastSession \in Nat /\ m_zhandle \in Nat
        BY <4>1, LastSession DEF IInv, Session
      <4> QED BY <4>2, <4>3
    <3> QED BY <3>2, <3>3
  <2> QED BY <2>1, <2>2, <2>3 DEF Reconnect
<1>6. m_zhandle' # NULL => Ordered(todo'[t]) /\ watching(todo'[t]) /\ first(todo'[t]) \notin OnLive
  BY <1>1, <1>5, PoppedOrder, Popped DEF Watching, OnLive, OnHandle
<1>7. Ordered(todo'[t]) /\ first(todo'[t]) \notin OnLive
  <2>1. CASE m_zhandle' = NULL
    BY <1>4, <2>1, BegunOrder DEF first, OnLive
  <2> QED BY <1>6, <2>1
<1>8. Order'
  BY <1>2, <1>7 DEF FInv, Order
<1>9. Handles'
  BY <1>3, <1>5, <1>7 DEF Handles
<1>10. Revived'
  BY <1>4, <1>5 DEF Revived, mustConnect
<1>11. Covered'
  BY <1>4, <1>6 DEF Covered, Due
<1> QED BY <1>8, <1>9, <1>10, <1>11 DEF FInv

\* refreshBrokerUrls: nothing that the configuration depends on changes.
LEMMA RefreshBrokerUrlsF ==
    ASSUME IInv, FInv, NEW t \in Thread, RefreshBrokerUrls(t)
    PROVE  FInv'
<1> DEFINE q == todo[t]
           r == <<>> \o Tail(q)
<1>1. running /\ q # <<>> /\ first(q) = "brokers" /\ Plan(q) /\ Ordered(q)
  BY AtFirst DEF RefreshBrokerUrls, IInv, Plans, FInv, Order
<1>2. first(r) \notin OnLive \cup {"exists", "read", "store"}
  BY <1>1, Popped DEF OnHandle, OnLive
<1>3. Ordered(r) /\ (watching(q) => watching(r)) /\ (reading(q) => reading(r))
  BY <1>1, PoppedOrder DEF Watching
<1>4. todo' = [todo EXCEPT ![t] = r]
  BY DEF RefreshBrokerUrls, goOn
<1> HIDE DEF r
<1>5. todo'[t] = r
  BY <1>4 DEF IInv, TypeOK
<1>6. /\ UNCHANGED <<m_zhandle, session, events, version, value, watches>>
      /\ failed => failed'
  BY DEF RefreshBrokerUrls, server, succeeds, fails
<1>7. cache'["config"] = cache["config"]
  BY DEF RefreshBrokerUrls, unreadable, IInv, TypeOK, Datum
<1>8. fresh(t) => fresh(t)'
  BY <1>2, <1>3, <1>5, FreshKept DEF fresh
<1>9. Current => Current'
  BY <1>6, <1>7 DEF Current
<1>10. first(q) \notin Reviving
  BY <1>1 DEF Reviving
<1> QED BY <1>1, <1>2, <1>3, <1>4, <1>6, <1>8, <1>9, <1>10, Quiet

\* refreshLogConfig begins to read if there is a handle.
LEMMA StartReadingF ==
    ASSUME IInv, FInv, NEW t \in Thread, StartReading(t)
    PROVE  FInv'
<1> DEFINE q == todo[t]
<1>1. /\ running /\ q # <<>> /\ first(q) = "config" /\ Plan(q) /\ Ordered(q)
      /\ first(q) \notin Reviving
  BY AtFirst DEF StartReading, IInv, Plans, FInv, Order, Reviving
<1>2. ~watching(q)
  BY <1>1, PoppedOrder
<1>3. UNCHANGED <<m_zhandle, session, events, version, value, watches, cache, failed>>
  BY DEF StartReading, server, process
<1>4. Current => Current'
  BY <1>3 DEF Current
<1>5. CASE m_zhandle = NULL
  <2> DEFINE r == <<>> \o Tail(q)
  <2>1. first(r) \notin OnLive
    BY <1>1, Popped DEF OnHandle, OnLive
  <2>2. Ordered(r)
    BY <1>1, PoppedOrder
  <2>3. todo' = [todo EXCEPT ![t] = r]
    BY <1>5 DEF StartReading, goOn
  <2> HIDE DEF r
  <2>4. ~Watched
    BY <1>5 DEF Watched
  <2> QED BY <1>1, <1>2, <1>3, <1>4, <2>1, <2>2, <2>3, <2>4, Quiet
<1>6. CASE m_zhandle # NULL
  <2> DEFINE r == <<"exists", "read">> \o q
  <2>1. first(r) = "exists"
    BY <1>1, Prepended
  <2>2. Ordered(r) /\ reading(r)
    BY <1>1, PrependedOrder
  <2>3. todo' = [todo EXCEPT ![t] = r]
    BY <1>6 DEF StartReading
  <2> HIDE DEF r
  <2>4. todo'[t] = r
    BY <2>3 DEF IInv, TypeOK
  <2>5. fresh(t)'
    BY <2>1, <2>2, <2>4 DEF fresh
  <2>6. first(r) \notin OnLive
    BY <2>1 DEF OnLive
  <2> QED BY <1>1, <1>2, <1>3, <1>4, <2>2, <2>3, <2>5, <2>6, Quiet
<1> QED BY <1>5, <1>6

\* The length is asked for.
LEMMA ExistsF ==
    ASSUME IInv, FInv, NEW t \in Thread, Exists(t)
    PROVE  FInv'
<1> DEFINE q == todo[t]
           r == <<>> \o Tail(q)
<1>1. running /\ q # <<>> /\ first(q) = "exists" /\ Plan(q) /\ Ordered(q)
  BY AtFirst DEF Exists, IInv, Plans, FInv, Order
<1>2. first(r) = "read"
  BY <1>1, Popped
<1>3. Ordered(r) /\ (watching(q) => watching(r)) /\ (reading(q) => reading(r))
  BY <1>1, PoppedOrder DEF Watching
<1>4. todo' = [todo EXCEPT ![t] = r]
  BY DEF Exists, goOn
<1> HIDE DEF r
<1>5. todo'[t] = r
  BY <1>4 DEF IInv, TypeOK
<1>6. /\ UNCHANGED <<m_zhandle, session, events, version, watches, cache>>
      /\ failed => failed'
  BY DEF Exists, server, process, succeeds, fails
<1>7. value'[t] \in {0, version["config"]} /\ \A u \in Thread : u # t => value'[u] = value[u]
  <2>1. value[t] = 0 /\ value \in [Thread -> Int]
    BY <1>1 DEF IInv, Values, ValueOf, TypeOK
  <2>2. value' = value \/ value' = [value EXCEPT ![t] = version["config"]]
    BY DEF Exists
  <2> QED BY <2>1, <2>2
<1>8. fresh(t) => fresh(t)'
  BY <1>1, <1>2, <1>3, <1>5, <1>6, <1>7 DEF fresh
<1>9. Current => Current'
  BY <1>6 DEF Current
<1>10. first(r) \notin OnLive /\ first(q) \notin Reviving
  BY <1>1, <1>2 DEF OnLive, Reviving
<1> QED BY <1>1, <1>3, <1>4, <1>6, <1>7, <1>8, <1>9, <1>10, Quiet

\* What is read, when nothing has changed since, is the current configuration;
\* a call that fails in the session that watches is remembered.
LEMMA ReadF ==
    ASSUME IInv, FInv, NEW t \in Thread, Read(t)
    PROVE  FInv'
<1> DEFINE q == todo[t]
<1>1. /\ running /\ q # <<>> /\ first(q) = "read" /\ Plan(q) /\ Ordered(q)
      /\ first(q) \notin Reviving \cup Watching \cup {"config"}
  <2>1. running /\ q # <<>> /\ first(q) = "read" /\ Plan(q) /\ Ordered(q)
    BY AtFirst DEF Read, IInv, Plans, FInv, Order
  <2> QED BY <2>1 DEF Reviving, Watching
<1>2. /\ UNCHANGED <<m_zhandle, session, events, version, watches, cache>>
      /\ failed => failed'
      /\ \A u \in Thread : u # t => value'[u] = value[u]
  BY DEF Read, server, process, succeeds, fails, IInv, TypeOK
<1>3. Current => Current'
  BY <1>2 DEF Current
<1>4. ~watching(q)
  BY <1>1, DroppedOrder
<1>5. CASE /\ \E v \in got(t) : value' = [value EXCEPT ![t] = v]
           /\ goOn(t, <<"store">>)
  <2> DEFINE r == <<"store">> \o Tail(q)
  <2>1. first(r) = "store"
    BY <1>1, ReadDone
  <2>2. Ordered(r) /\ (reading(q) => reading(r))
    BY <1>1, PushedOrder
  <2>3. todo' = [todo EXCEPT ![t] = r]
    BY <1>5 DEF goOn
  <2> HIDE DEF r
  <2>4. todo'[t] = r
    BY <2>3 DEF IInv, TypeOK
  <2>5. PICK v \in got(t) : value'[t] = v
    BY <1>5 DEF IInv, TypeOK
  <2>6. fresh(t) => v = version["config"]
    BY <1>1, <2>5 DEF fresh, got
  <2>7. fresh(t) => fresh(t)'
    BY <1>2, <2>1, <2>2, <2>4, <2>5, <2>6 DEF fresh
  <2>8. first(r) \notin OnLive
    BY <2>1 DEF OnLive
  <2> QED BY <1>1, <1>2, <1>3, <1>4, <2>2, <2>3, <2>7, <2>8, Quiet
<1>6. CASE fails(m_zhandle) /\ goOnAfterConfig(t)
  <2> DEFINE r == SubSeq(q, 3, Len(q))
  <2>1. first(r) \notin OnLive
    BY <1>1, Dropped DEF OnLive, OnHandle
  <2>2. Ordered(r)
    BY <1>1, DroppedOrder
  <2>3. todo' = [todo EXCEPT ![t] = r]
    BY <1>6 DEF goOnAfterConfig
  <2> HIDE DEF r
  <2>4. Watched => failed'
    BY <1>6 DEF fails, live, Watched
  <2> QED BY <1>1, <1>2, <1>3, <1>4, <2>1, <2>2, <2>3, <2>4, Quiet
<1> QED BY <1>5, <1>6 DEF Read

\* What is stored is current, or older than what another thread will store.
LEMMA StoreF ==
    ASSUME IInv, FInv, NEW t \in Thread, Store(t)
    PROVE  FInv'
<1> DEFINE q == todo[t]
           r == SubSeq(q, 3, Len(q))
<1>1. /\ running /\ q # <<>> /\ first(q) = "store" /\ Plan(q) /\ Ordered(q)
      /\ first(q) \notin Reviving \cup Watching
  <2>1. running /\ q # <<>> /\ first(q) = "store" /\ Plan(q) /\ Ordered(q)
    BY AtFirst DEF Store, IInv, Plans, FInv, Order
  <2> QED BY <2>1 DEF Reviving, Watching
<1>2. /\ UNCHANGED <<m_zhandle, session, events, version, watches, failed>>
      /\ \A u \in Thread : u # t => value'[u] = value[u]
  BY DEF Store, server, IInv, TypeOK
<1>3. first(r) \notin OnLive
  BY <1>1, Dropped DEF OnLive, OnHandle
<1>4. Ordered(r) /\ ~watching(q)
  BY <1>1, DroppedOrder
<1>5. todo' = [todo EXCEPT ![t] = r]
  BY DEF Store, goOnAfterConfig
<1> HIDE DEF r
<1>6. cache'["config"] = value[t]
  BY DEF Store, IInv, TypeOK, Datum
<1>7. fresh(t) => Current'
  BY <1>1, <1>2, <1>6 DEF fresh, Current
<1>8. Current => Current'
  <2>1. /\ of(value[t]) <= version["config"] /\ of(cache["config"]) <= of(value[t])
        /\ value[t] < 0 => of(cache["config"]) < of(value[t])
        /\ value[t] \in Int
    BY <1>1 DEF IInv, Values, ValueOf, TypeOK
  <2>2. version["config"] \in Nat
    BY Bounded DEF Datum
  <2>3. Current => value[t] = version["config"]
    BY <2>1, <2>2 DEF Current, of
  <2> QED BY <1>2, <1>6, <2>3 DEF Current
<1> QED BY <1>1, <1>2, <1>3, <1>4, <1>5, <1>7, <1>8, Quiet

\* close.
LEMMA CloseF ==
    ASSUME IInv, FInv, Close
    PROVE  FInv'
<1> DEFINE q == todo[Main]
           r == <<"closing">> \o Tail(q)
<1>0. Main \in Thread
  BY ZookeeperAssumption DEF Main, Thread
<1>1. running /\ q # <<>> /\ first(q) = "close" /\ Plan(q) /\ Ordered(q)
  BY <1>0, AtFirst DEF Close, IInv, Plans, FInv, Order
<1>2. first(r) = "closing"
  BY <1>1, Pushed DEF OnHandle
<1>3. Ordered(r) /\ (watching(q) => watching(r)) /\ (reading(q) => reading(r))
  BY <1>1, PushedOrder DEF OnHandle, Watching
<1>4. todo' = [todo EXCEPT ![Main] = r]
  BY DEF Close, goOn
<1> HIDE DEF r
<1>5. todo'[Main] = r
  BY <1>0, <1>4 DEF IInv, TypeOK
<1>6. UNCHANGED <<m_zhandle, session, events, version, value, watches, cache, failed>>
  BY DEF Close, server, process
<1>7. fresh(Main) => fresh(Main)'
  BY <1>0, <1>2, <1>3, <1>5, FreshKept DEF fresh
<1>8. Current => Current'
  BY <1>6 DEF Current
<1>9. first(r) \notin OnLive /\ first(q) \notin Reviving
  BY <1>1, <1>2 DEF OnLive, Reviving
<1> QED BY <1>0, <1>1, <1>3, <1>4, <1>6, <1>7, <1>8, <1>9, Quiet

\* Once the process has stopped nothing is promised.
LEMMA ClosingF ==
    ASSUME IInv, FInv, Closing
    PROVE  FInv'
<1> DEFINE q == todo[Main]
           r == <<>> \o Tail(q)
<1>0. Main \in Thread
  BY ZookeeperAssumption DEF Main, Thread
<1>1. q # <<>> /\ Plan(q) /\ Ordered(q)
  BY <1>0, AtFirst DEF Closing, IInv, Plans, FInv, Order
<1>2. Ordered(r)
  BY <1>1, PoppedOrder
<1>3. todo' = [todo EXCEPT ![Main] = r]
  BY DEF Closing, leave, goOn
<1> HIDE DEF r
<1>4. Order'
  BY <1>2, <1>3 DEF IInv, TypeOK, FInv, Order
<1>5. ~running'
  BY DEF Closing, running
<1> QED BY <1>4, <1>5 DEF FInv, Handles, Revived, Covered

\* SIGINT.
LEMMA StopF ==
    ASSUME IInv, FInv, Stop
    PROVE  FInv'
<1>1. Main \in Thread /\ running /\ todo[Main] = <<>>
  BY ZookeeperAssumption DEF Stop, Main, Thread, running, IInv, Life, idle
<1>2. Ordered(<<"close">>) /\ ~watching(<<>>) /\ ~reading(<<>>)
  BY BegunOrder
<1>3. first(<<"close">>) = "close" /\ first(<<>>) = "none"
  BY DEF first
<1>4. UNCHANGED <<m_zhandle, session, events, version, value, watches, cache, failed>>
  BY DEF Stop, server, process
<1>5. todo' = [todo EXCEPT ![Main] = <<"close">>]
  BY DEF Stop
<1>6. Current => Current'
  BY <1>4 DEF Current
<1>7. ~fresh(Main) /\ ~watching(todo[Main])
  BY <1>1, <1>2 DEF fresh
<1>8. first(<<"close">>) \notin OnLive /\ first(todo[Main]) \notin Reviving
  BY <1>1, <1>3 DEF OnLive, Reviving
<1> QED BY <1>1, <1>2, <1>4, <1>5, <1>6, <1>7, <1>8, Quiet

\* The refresh timer makes a thread connect, set the watch and read.
LEMMA TimerFiresF ==
    ASSUME IInv, FInv, TimerFires
    PROVE  FInv'
<1>1. Timer \in Thread
  BY ZookeeperAssumption DEF Timer, Thread
<1>2. /\ todo'[Timer] = refresh
      /\ \A u \in Thread : u # Timer => todo'[u] = todo[u]
  BY <1>1 DEF TimerFires, IInv, TypeOK
<1>3. Ordered(refresh) /\ watching(refresh) /\ first(refresh) = "connection"
  BY BegunOrder
<1>4. /\ UNCHANGED <<m_zhandle, session>> /\ running
  BY DEF TimerFires, server, process, running
<1>5. Order'
  BY <1>2, <1>3 DEF FInv, Order
<1>6. Handles'
  BY <1>2, <1>3, <1>4 DEF FInv, Handles, OnLive
<1>7. first(todo'[Timer]) \in Reviving /\ watching(todo'[Timer])
  BY <1>2, <1>3 DEF Reviving
<1>8. Revived' /\ Covered'
  BY <1>1, <1>7 DEF Revived, Covered, Due
<1> QED BY <1>5, <1>6, <1>8 DEF FInv

\* A watcher is called: it does what the event stood for.
LEMMA DeliverF ==
    ASSUME IInv, FInv, NEW s \in Session, Deliver(s)
    PROVE  FInv'
<1>1. s \in Thread /\ running /\ todo[s] = <<>> /\ m_zhandle \in Session \cup {NULL}
  BY ZookeeperAssumption DEF Deliver, Session, Thread, idle, IInv, TypeOK
<1>2. PICK e \in events[s] : /\ events' = [events EXCEPT ![s] = @ \ {e}]
                             /\ todo' = [todo EXCEPT ![s] = handler(e)]
  BY DEF Deliver
<1>3. e \in {"config", "brokers", "expired", "session"}
  BY DEF IInv, TypeOK, Datum
<1>4. /\ e \in {"config", "expired"} => watching(handler(e))
      /\ e = "expired" => first(handler(e)) = "connection"
      /\ Ordered(handler(e)) /\ first(handler(e)) \notin OnLive
  <2>1. CASE e = "expired"
    BY <2>1, BegunOrder DEF handler, OnLive
  <2>2. CASE e = "config"
    BY <2>2, BegunOrder DEF handler, OnLive, first
  <2>3. CASE e \in {"brokers", "session"}
    BY <2>3, BegunOrder DEF handler, OnLive, first
  <2> QED BY <1>3, <2>1, <2>2, <2>3
<1>5. /\ todo'[s] = handler(e)
      /\ \A u \in Thread : u # s => todo'[u] = todo[u]
      /\ \A x \in Session : x # s => events'[x] = events[x]
      /\ events'[s] = events[s] \ {e}
  BY <1>1, <1>2 DEF IInv, TypeOK
<1>6. UNCHANGED <<m_zhandle, session, version, value, watches, cache, failed, run>>
  BY DEF Deliver, server, process
<1>7. Order'
  BY <1>4, <1>5 DEF FInv, Order
<1>8. Handles'
  BY <1>1, <1>4, <1>5, <1>6 DEF FInv, Handles
<1>9. \A u \in Thread : first(todo[u]) \in Reviving => first(todo'[u]) \in Reviving
  <2>1. first(todo[s]) \notin Reviving
    BY <1>1 DEF first, Reviving
  <2> QED BY <1>5, <2>1
<1>10. Revived'
  <2> SUFFICES ASSUME running', ~failed', mustConnect'
               PROVE  \/ m_zhandle' # NULL /\ "expired" \in events'[m_zhandle']
                      \/ \E t \in Thread : first(todo'[t]) \in Reviving
    BY DEF Revived
  <2>1. running /\ ~failed /\ mustConnect
    BY <1>1, <1>6 DEF mustConnect
  <2>2. CASE m_zhandle # NULL /\ "expired" \in events[m_zhandle]
    <3>1. CASE m_zhandle = s /\ e = "expired"
      BY <1>1, <1>4, <1>5, <3>1 DEF Reviving
    <3>2. CASE m_zhandle # s \/ e # "expired"
      BY <1>1, <1>5, <1>6, <2>2, <3>2
    <3> QED BY <3>1, <3>2
  <2>3. CASE \E t \in Thread : first(todo[t]) \in Reviving
    BY <1>9, <2>3
  <2> QED BY <2>1, <2>2, <2>3 DEF FInv, Revived
<1>11. Covered'
  <2> SUFFICES ASSUME running', ~failed'
               PROVE  Due' \/ (Watched' /\ (Current' \/ \E u \in Thread : fresh(u)'))
    BY DEF Covered
  <2>1. ~watching(todo[s]) /\ ~fresh(s)
    BY <1>1, BegunOrder DEF fresh
  <2>2. ASSUME NEW u \in Thread, watching(todo[u]) PROVE Due'
    BY <1>5, <2>1, <2>2 DEF Due
  <2>3. ASSUME NEW x \in Session, session[x] # "closed", events[x] \cap {"config", "expired"} # {}
        PROVE  Due'
    <3>1. CASE x = s /\ e \in {"config", "expired"}
      <4>1. watching(todo'[s])
        BY <1>4, <1>5, <3>1
      <4> QED BY <1>1, <4>1 DEF Due
    <3>2. CASE x # s \/ e \notin {"config", "expired"}
      <4>1. events'[x] \cap {"config", "expired"} # {}
        BY <1>5, <2>3, <3>2
      <4> QED BY <1>6, <2>3, <4>1 DEF Due
    <3> QED BY <3>1, <3>2
  <2>4. Watched => Watched'
    BY <1>6 DEF Watched
  <2>5. Current => Current'
    BY <1>6 DEF Current
  <2>6. ASSUME NEW u \in Thread, fresh(u) PROVE fresh(u)'
    <3>1. u # s
      BY <2>1, <2>6
    <3> QED BY <1>5, <1>6, <2>6, <3>1 DEF fresh
  <2>7. Due \/ (Watched /\ (Current \/ \E u \in Thread : fresh(u)))
    BY <1>1, <1>6 DEF FInv, Covered
  <2> QED BY <2>2, <2>3, <2>4, <2>5, <2>6, <2>7 DEF Due
<1> QED BY <1>7, <1>8, <1>10, <1>11 DEF FInv

\* A change fires the watch of the handle.
LEMMA ChangeF ==
    ASSUME IInv, FInv, NEW d \in Datum, Change(d)
    PROVE  FInv'
<1>1. UNCHANGED <<session, m_zhandle, cache, todo, value, run, failed>>
  BY DEF Change, process, threads
<1>2. /\ \A s \in Session : events[s] \subseteq events'[s]
      /\ \A s \in Session : d \in watches[s] => d \in events'[s]
      /\ \A s \in Session : watches'[s] = watches[s] \ {d}
      /\ \A x \in Datum : x # d => version'[x] = version[x]
      /\ m_zhandle \in Session \cup {NULL}
  BY DEF Change, IInv, TypeOK
<1>3. Order' /\ Handles'
  BY <1>1 DEF FInv, Order, Handles, running
<1>4. Revived'
  BY <1>1, <1>2 DEF FInv, Revived, running, mustConnect
<1>5. Covered'
  <2> SUFFICES ASSUME running', ~failed'
               PROVE  Due' \/ (Watched' /\ (Current' \/ \E u \in Thread : fresh(u)'))
    BY DEF Covered
  <2>1. Due \/ (Watched /\ (Current \/ \E u \in Thread : fresh(u)))
    BY <1>1 DEF FInv, Covered, running
  <2>2. CASE Due
    <3>1. CASE \E t \in Thread : watching(todo[t])
      BY <1>1, <3>1 DEF Due
    <3>2. ASSUME NEW s \in Session, session[s] # "closed", events[s] \cap {"config", "expired"} # {}
          PROVE  Due'
      <4>1. events'[s] \cap {"config", "expired"} # {}
        BY <1>2, <3>2
      <4> QED BY <1>1, <3>2, <4>1 DEF Due
    <3> QED BY <2>2, <3>1, <3>2 DEF Due
  <2>3. CASE Watched /\ d = "config"
    <3>1. m_zhandle \in Session /\ session'[m_zhandle] # "closed"
      BY <1>1, <1>2, <2>3 DEF Watched
    <3>2. "config" \in events'[m_zhandle] \cap {"config", "expired"}
      BY <1>2, <2>3, <3>1 DEF Watched
    <3>3. events'[m_zhandle] \cap {"config", "expired"} # {}
      BY <3>2
    <3> QED BY <3>1, <3>3 DEF Due
  <2>4. CASE d # "config" /\ ~Due
    <3>1. version'["config"] = version["config"] /\ "config" \in Datum
      BY <1>2, <2>4 DEF Datum
    <3>2. Watched'
      BY <1>1, <1>2, <2>1, <2>4 DEF Watched
    <3>3. Current => Current'
      BY <1>1, <3>1 DEF Current
    <3>4. ASSUME NEW u \in Thread, fresh(u) PROVE fresh(u)'
      BY <1>1, <3>1, <3>4 DEF fresh
    <3> QED BY <2>1, <2>4, <3>2, <3>3, <3>4
  <2> QED BY <2>1, <2>2, <2>3, <2>4
<1> QED BY <1>3, <1>4, <1>5 DEF FInv

\* The session expires, and its watcher is told.
LEMMA ExpireF ==
    ASSUME IInv, FInv, NEW s \in Session, Expire(s)
    PROVE  FInv'
<1>1. UNCHANGED <<m_zhandle, todo, run, failed>>
  BY DEF Expire, process, threads
<1>2. s = m_zhandle
  BY DEF Expire, IInv, Sessions
<1>3. "expired" \in events'[s] /\ session'[s] = "expired" /\ s # NULL
  BY ZookeeperAssumption DEF Expire, IInv, TypeOK, Session, NULL
<1>4. events'[s] \cap {"config", "expired"} # {}
  BY <1>3
<1>5. Order'
  BY <1>1 DEF FInv, Order
<1>6. Handles'
  BY <1>1, <1>2, <1>3 DEF Handles
<1>7. Revived'
  BY <1>1, <1>2, <1>3 DEF Revived
<1>8. Covered'
  BY <1>3, <1>4 DEF Covered, Due
<1> QED BY <1>5, <1>6, <1>7, <1>8 DEF FInv

\* init returns, another process comes or goes, or nothing happens.
LEMMA SameF ==
    ASSUME IInv, FInv, Started \/ OtherComes \/ OtherGoes \/ UNCHANGED vars
    PROVE  FInv'
<1>1. UNCHANGED <<version, session, watches, events, m_zhandle, cache, todo, value, failed>>
  BY DEF Started, OtherComes, OtherGoes, vars, server, process, threads
<1>2. running' = running
  BY DEF running, Started, OtherComes, OtherGoes, vars
<1>3. Order' /\ Handles' /\ Revived'
  BY <1>1, <1>2 DEF FInv, Order, Handles, Revived, mustConnect
<1>4. Covered'
  BY <1>1, <1>2 DEF FInv, Covered, Due, Watched, Current, fresh
<1> QED BY <1>3, <1>4 DEF FInv

\* At first the main thread has everything before it.
LEMMA InitF == Init => FInv
<1> SUFFICES ASSUME Init PROVE FInv
  OBVIOUS
<1>1. Main \in Thread /\ todo[Main] = refresh
  BY ZookeeperAssumption DEF Init, Main, Thread
<1>2. \A t \in Thread : todo[t] \in {refresh, <<>>}
  BY DEF Init
<1>3. Order
  BY <1>2, BegunOrder DEF Order
<1>4. \A t \in Thread : first(todo[t]) \notin OnLive
  BY <1>2, BegunOrder DEF first, OnLive
<1>5. Handles
  BY <1>4 DEF Handles, Init
<1>6. first(todo[Main]) \in Reviving /\ watching(todo[Main])
  BY <1>1, BegunOrder DEF Reviving
<1>7. Revived /\ Covered
  BY <1>1, <1>6 DEF Revived, Covered, Due
<1> QED BY <1>3, <1>5, <1>7 DEF FInv

\* Every step keeps what is due or current.
LEMMA InductiveF == IInv /\ FInv /\ [Next]_vars => FInv'
<1> SUFFICES ASSUME IInv, FInv, [Next]_vars PROVE FInv'
  OBVIOUS
<1>1. ASSUME NEW t \in Thread, ThreadStep(t) PROVE FInv'
  BY <1>1, ConnectionF, ReconnectF, WatchersF, SetWatcherF, AfterWatchF,
     RefreshBrokerUrlsF, StartReadingF, ExistsF, ReadF, StoreF DEF ThreadStep
<1> QED BY <1>1, SameF, TimerFiresF, StopF, CloseF, ClosingF,
           DeliverF, ExpireF, ChangeF DEF Next

\* Whatever is due, or under way, will read the configuration.
LEMMA CoveredReads ==
    ASSUME IInv, FInv
    PROVE  NoChangeMissed
<1> SUFFICES ASSUME running, ~failed PROVE Current \/ willRead
  BY DEF NoChangeMissed, Current
<1>0. \A t \in Thread : Ordered(todo[t]) /\ todo[t] \in Seq(Step) /\ Len(todo[t]) \in Nat
  BY DEF FInv, Order, IInv, TypeOK
<1>1. ASSUME NEW t \in Thread, NEW k \in 1..Len(todo[t]), todo[t][k] = "config",
             ~(k = 2 /\ todo[t][1] = "store" /\ value[t] < version["config"])
      PROVE  willRead
  <2>1. k \in 1..7 /\ k \in DOMAIN todo[t]
    BY <1>0 DEF Ordered
  <2> QED BY <1>1, <2>1 DEF willRead
<1>2. ASSUME NEW t \in Thread, watching(todo[t]) PROVE willRead
  <2>1. PICK j \in 1..Len(todo[t]), k \in 1..Len(todo[t]) :
            j < k /\ todo[t][j] \in Watching /\ todo[t][k] = "config"
    BY <1>2 DEF watching
  <2>2. ~(k = 2 /\ todo[t][1] = "store")
    <3>1. k = 2 => j = 1
      BY <1>0, <2>1
    <3> QED BY <2>1, <3>1 DEF Watching
  <2> QED BY <1>1, <2>1, <2>2
<1>3. ASSUME NEW t \in Thread, fresh(t) PROVE willRead
  <2>1. PICK k \in 1..Len(todo[t]) : todo[t][k] = "config"
    BY <1>3 DEF fresh, reading
  <2>2. ~(k = 2 /\ todo[t][1] = "store" /\ value[t] < version["config"])
    <3> SUFFICES ASSUME k = 2, todo[t][1] = "store" PROVE ~(value[t] < version["config"])
      OBVIOUS
    <3>1. todo[t] # <<>>
      BY <1>0, <2>1
    <3>2. first(todo[t]) = "store"
      BY <3>1 DEF first
    <3>3. value[t] = version["config"] /\ version["config"] \in Nat
      BY <1>3, <3>2, Bounded DEF fresh, Datum
    <3> QED BY <3>3
  <2> QED BY <1>1, <2>1, <2>2
<1>4. ASSUME NEW s \in Session, session[s] # "closed", events[s] \cap {"config", "expired"} # {}
      PROVE  willRead
  BY <1>4 DEF willRead
<1>5. Due \/ (Watched /\ (Current \/ \E t \in Thread : fresh(t)))
  BY DEF FInv, Covered
<1> QED BY <1>2, <1>3, <1>4, <1>5 DEF Due

\* As long as no call fails, no change of the configuration is missed, even
\* when the timer, the watchers of two sessions and close overlap: the process
\* has the current configuration, or something is under way that will read it.
THEOREM NoChangeMissedAlways == Spec => []NoChangeMissed
<1>1. IInv /\ FInv => NoChangeMissed
  BY CoveredReads
<1>2. Init => IInv /\ FInv
  BY InitInv, InitF
<1>3. IInv /\ FInv /\ [Next]_vars => IInv' /\ FInv'
  BY Inductive, InductiveF
<1> QED BY <1>1, <1>2, <1>3, PTL DEF Spec
=============================================================================
