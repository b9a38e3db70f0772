----------------------------- MODULE Zookeeper -----------------------------
(***************************************************************************)
(* The ZooKeeper client of logkafka (zookeeper.cc): how the configuration  *)
(* and the brokers are kept up to date by one-shot watches and a refresh   *)
(* timer, from several threads, across expired sessions and failing calls, *)
(* and how the process registers itself with an ephemeral znode.           *)
(*                                                                         *)
(* Threads: the main thread (init, close), the thread of the loop with the *)
(* refresh timer, and for each session the completion thread of the        *)
(* client library, which calls the watchers.  What a thread still has to   *)
(* do is a sequence of steps; a step is one call to the server with the    *)
(* local work around it, or waits for a mutex or another thread.  The      *)
(* library and the server are external: zookeeper_close joins the          *)
(* completion thread of the handle unless it runs in it; a read returns    *)
(* the current value.  The data of a znode is its version, with a minus    *)
(* sign when it was cut off at its end.                                    *)
(***************************************************************************)
EXTENDS Integers, Sequences, FiniteSetsExt

CONSTANTS MaxSessions, \* bound: sessions
          MaxVersion,  \* bound: versions of the configuration
          MaxBrokers,  \* bound: versions of the brokers
          MaxLosses,   \* bound: calls that fail although the session lives
          Faults       \* what may happen besides, a subset of AllFaults

(***************************************************************************)
(* "close"   the process gets SIGINT                                       *)
(* "overlap" a thread closes a handle while a watcher of that handle is    *)
(*           being called: the refresh timer finds a session expired at    *)
(*           the same time as the watcher of the session, or close meets a *)
(*           watcher                                                       *)
(***************************************************************************)
AllFaults == {"close", "overlap"}

ASSUME ZookeeperAssumption ==
    /\ MaxSessions \in Nat \ {0}
    /\ MaxVersion \in Nat \ {0}
    /\ MaxBrokers \in Nat \ {0}
    /\ MaxLosses \in Nat
    /\ Faults \subseteq AllFaults

Session == 1..MaxSessions
Timer == MaxSessions + 1
Main == MaxSessions + 2
Thread == 1..(MaxSessions + 2)
Datum == {"config", "brokers"}
lastVersion(d) == IF d = "config" THEN MaxVersion ELSE MaxBrokers
Mutex == {"zhandle", "config"}
Free == 0
NULL == 0

\* The znode client/<logkafka_id>: absent, or its owner.
NoNode == 0
Persistent == -1
OtherProcess == -2

VARIABLES
    version,      \* the data of the znodes, on the server
    node,         \* the client znode
    session,      \* the state of each session
    watches,      \* the data each session watches
    events,       \* the events that wait for each completion thread
    m_zhandle,    \* the session of the handle
    cache,        \* m_log_config and m_broker_urls
    m_registered,
    mutex,        \* who holds each mutex
    todo,         \* the steps each thread has left
    value,        \* what a reading thread has read
    run,          \* where the process is in its life
    losses,       \* a count for the bound
    failed        \* history: a call has failed since the last refresh began

server  == <<version, node, session, watches>>
process == <<m_zhandle, cache, m_registered>>
threads == <<mutex, todo, value>>
vars    == <<server, events, process, threads, run, losses, failed>>

\* refresh, and the watchers.  A session event makes the two change watchers
\* set the watches again.
MutRefresh == <<"connection", "brokers", "config", "watchers">>
refresh == <<"connection", "brokers", "watchers", "config">>

handler(e) ==
    CASE e = "expired" -> refresh
      [] e = "session" -> <<"watchers">>
      [] e = "config" -> <<"watchers", "config">>
      [] e = "brokers" -> <<"watchers", "brokers">>

Step == {"connection", "reconnect", "watchers", "set watcher",
         "set children watcher", "get client", "create client", "config",
         "brokers", "exists", "read", "store", "close", "closing"}
-----------------------------------------------------------------------------
\* init calls refresh before the thread with the timer is created.
Init ==
    /\ version = [d \in Datum |-> 1]
    /\ node \in {NoNode, Persistent, OtherProcess}
    /\ session = [s \in Session |-> "unused"]
    /\ watches = [s \in Session |-> {}]
    /\ events = [s \in Session |-> {}]
    /\ m_zhandle = NULL
    /\ cache = [d \in Datum |-> 0]
    /\ m_registered = FALSE
    /\ mutex = [m \in Mutex |-> Free]
    /\ todo = [t \in Thread |-> IF t = Main THEN refresh ELSE <<>>]
    /\ value = [t \in Thread |-> 0]
    /\ run = "init"
    /\ losses = 0
    /\ failed = FALSE

running == run \notin {"exited", "stopped"}
at(t, step) == running /\ todo[t] # <<>> /\ Head(todo[t]) = step
idle(t) == todo[t] = <<>>

\* Thread t goes on with these steps, then with the ones it had left.
goOn(t, steps) == todo' = [todo EXCEPT ![t] = steps \o Tail(@)]

take(t, m) == mutex[m] = Free /\ mutex' = [mutex EXCEPT ![m] = t]
release(m) == mutex' = [mutex EXCEPT ![m] = Free]

\* The scope that holds the mutex of the handle is left.
MutLeave(t) == goOn(t, <<>>) /\ UNCHANGED mutex
leave(t) == goOn(t, <<>>) /\ release("zhandle")

\* The outcome of a call to the server: it succeeds only in a live session.
live(s) == s # NULL /\ session[s] = "live"
succeeds(s) ==
    /\ live(s)
    /\ UNCHANGED <<losses, failed>>
fails(s) ==
    \/ ~live(s) /\ UNCHANGED <<losses, failed>>
    \/ /\ live(s)
       /\ losses < MaxLosses
       /\ losses' = losses + 1
       /\ failed' = TRUE

-----------------------------------------------------------------------------
\* zookeeper_close can return.
joined(t) == m_zhandle \notin {NULL, t} => idle(m_zhandle)

overlap == "overlap" \in Faults

\* refreshConnection: connect if there is no handle or its session expired.
mustConnect == m_zhandle = NULL \/ session[m_zhandle] = "expired"

Connection(t) ==
    /\ at(t, "connection")
    /\ mutex["zhandle"] = Free
    /\ overlap \/ (mustConnect => joined(t))
    /\ IF mustConnect
         THEN take(t, "zhandle") /\ goOn(t, <<"reconnect">>)
         ELSE goOn(t, <<>>) /\ UNCHANGED mutex
    /\ UNCHANGED <<server, events, process, value, run, losses, failed>>

\* The new handle: the next session, or NULL when zookeeper_init fails.
newHandle ==
    \/ /\ m_zhandle' = 1 + Max({0} \cup {s \in Session : session[s] # "unused"})
       /\ UNCHANGED <<losses, failed>>
    \/ /\ losses < MaxLosses
       /\ losses' = losses + 1
       /\ failed' = TRUE
       /\ m_zhandle' = NULL

\* connect: the old handle is closed, and a new one made; without one refresh
\* returns.
Reconnect(t) ==
    /\ at(t, "reconnect")
    /\ joined(t)
    /\ newHandle
    /\ session' = [s \in Session |-> CASE s = m_zhandle' -> "live"
                                       [] s = m_zhandle -> "closed"
                                       [] OTHER -> session[s]]
    /\ events' = [s \in Session |-> IF s = m_zhandle THEN {} ELSE events[s]]
    /\ release("zhandle")
    /\ IF m_zhandle' = NULL
         THEN todo' = [todo EXCEPT ![t] = <<>>] ELSE goOn(t, <<>>)
    /\ UNCHANGED <<version, node, watches, cache, m_registered, value, run>>

\* refreshWatchers.
Watchers(t) ==
    /\ at(t, "watchers")
    /\ mutex["zhandle"] = Free
    /\ IF m_zhandle = NULL
         THEN goOn(t, <<>>) /\ UNCHANGED mutex
         ELSE take(t, "zhandle") /\ goOn(t, <<"set watcher">>)
    /\ UNCHANGED <<server, events, process, value, run, losses, failed>>

\* zoo_wget and zoo_wget_children set a watch; if they fail refreshWatchers
\* returns.
SetWatch(t, step, d, next) ==
    /\ at(t, step)
    /\ \/ /\ succeeds(m_zhandle)
          /\ watches' = [watches EXCEPT ![m_zhandle] = @ \cup {d}]
          /\ goOn(t, next)
          /\ UNCHANGED mutex
       \/ /\ fails(m_zhandle)
          /\ leave(t)
          /\ UNCHANGED watches
    /\ UNCHANGED <<version, node, session, events, process, value, run>>

SetWatcher(t) ==
    SetWatch(t, "set watcher", "config", <<"set children watcher">>)
SetChildrenWatcher(t) ==
    SetWatch(t, "set children watcher", "brokers", <<"get client">>)

\* zoo_get of the client znode: if it is not there, or the call fails, it is
\* created next.  A persistent one is deleted.  An ephemeral one of another
\* process ends this one, unless this one has created it before.
mustQuit == node # Persistent /\ ~m_registered

MutAfterGet == node
afterGet == IF node = Persistent THEN NoNode ELSE node

\* A call that fails may have taken effect: its answer was lost.
unanswered(new) == IF live(m_zhandle) THEN {node, new} ELSE {node}

GetClient(t) ==
    /\ at(t, "get client")
    /\ \/ /\ fails(m_zhandle) \/ (node = NoNode /\ succeeds(m_zhandle))
          /\ goOn(t, <<"create client">>)
          /\ UNCHANGED <<node, mutex, run>>
       \/ /\ node # NoNode
          /\ succeeds(m_zhandle)
          /\ node' = afterGet
          /\ run' = IF mustQuit THEN "exited" ELSE run
          /\ leave(t)
       \/ /\ node = Persistent
          /\ fails(m_zhandle)
          /\ node' \in unanswered(NoNode)
          /\ leave(t)
          /\ UNCHANGED run
    /\ UNCHANGED <<version, session, watches, events, process, value>>

\* zoo_create of the ephemeral client znode.  If its answer is lost the process
\* has a znode that it takes for another's, and the next refresh ends it.
CreateClient(t) ==
    /\ at(t, "create client")
    /\ leave(t)
    /\ IF node = NoNode
         THEN \/ /\ succeeds(m_zhandle)
                 /\ node' = m_zhandle
                 /\ m_registered' = TRUE
              \/ /\ fails(m_zhandle)
                 /\ node' \in unanswered(m_zhandle)
                 /\ UNCHANGED m_registered
         ELSE UNCHANGED <<node, m_registered, losses, failed>>
    /\ UNCHANGED <<version, session, watches, events, m_zhandle, cache, value,
                   run>>

\* What a failing refreshBrokerUrls leaves: the old list; but it is cleared once
\* the ids of the brokers are known (getBrokerIds), before the brokers are read
\* one by one (getBrokerIpAndPort).  A part of the list is 0.
unreadable == {cache, [cache EXCEPT !["brokers"] = 0]}

\* refreshBrokerUrls.  It holds m_broker_urls_mutex, under which nobody waits for
\* anything else, and any of its calls may fail: it is one step, at the last
\* call that it makes.
RefreshBrokerUrls(t) ==
    /\ at(t, "brokers")
    /\ goOn(t, <<>>)
    /\ \/ /\ succeeds(m_zhandle)
          /\ cache' = [cache EXCEPT !["brokers"] = version["brokers"]]
       \/ /\ fails(m_zhandle)
          /\ cache' \in unreadable
    /\ UNCHANGED <<server, events, m_zhandle, m_registered, mutex, value, run>>

\* refreshLogConfig: it holds a mutex of its own and reads m_zhandle for each
\* call without holding its mutex.
MutLocks(t) == mutex["config"] = Free /\ UNCHANGED mutex
locks(t) == take(t, "config")

StartReading(t) ==
    /\ at(t, "config")
    /\ mutex["config"] = Free
    /\ IF m_zhandle = NULL
         THEN goOn(t, <<>>) /\ UNCHANGED mutex
         ELSE locks(t) /\ todo' = [todo EXCEPT ![t] = <<"exists", "read">> \o @]
    /\ UNCHANGED <<server, events, process, value, run, losses, failed>>

\* getZnodeData: zoo_exists tells how long the data is; if it fails the buffer
\* is large.
Exists(t) ==
    /\ at(t, "exists")
    /\ \/ /\ succeeds(m_zhandle)
          /\ value' = [value EXCEPT ![t] = version["config"]]
       \/ fails(m_zhandle) /\ UNCHANGED value
    /\ goOn(t, <<>>)
    /\ UNCHANGED <<server, events, process, mutex, run>>

\* zoo_get: data that has grown since is cut to the length it had.
got(t) ==
    {version["config"]} \cup
        IF value[t] \in {0, version["config"]} THEN {} ELSE {-version["config"]}

\* The two steps of refreshLogConfig that are left are done.
goOnAfterConfig(t) == todo' = [todo EXCEPT ![t] = SubSeq(@, 3, Len(@))]

Read(t) ==
    /\ at(t, "read")
    /\ \/ /\ succeeds(m_zhandle)
          /\ \E v \in got(t) : value' = [value EXCEPT ![t] = v]
          /\ goOn(t, <<"store">>)
          /\ UNCHANGED mutex
       \/ /\ fails(m_zhandle)
          /\ value' = [value EXCEPT ![t] = 0]
          /\ goOnAfterConfig(t)
          /\ release("config")
    /\ UNCHANGED <<server, events, process, run>>

Store(t) ==
    /\ at(t, "store")
    /\ cache' = [cache EXCEPT !["config"] = value[t]]
    /\ value' = [value EXCEPT ![t] = 0]
    /\ release("config")
    /\ goOnAfterConfig(t)
    /\ UNCHANGED <<server, events, m_zhandle, m_registered, run, losses, failed>>

\* Zookeeper::close.
Close ==
    /\ at(Main, "close")
    /\ take(Main, "zhandle")
    /\ goOn(Main, <<"closing">>)
    /\ UNCHANGED <<server, events, process, value, run, losses, failed>>

Closing ==
    /\ at(Main, "closing")
    /\ joined(Main)
    /\ leave(Main)
    /\ m_zhandle' = NULL
    /\ node' = IF m_zhandle # NULL /\ node = m_zhandle THEN NoNode ELSE node
    /\ session' = [s \in Session |->
                      IF s = m_zhandle THEN "closed" ELSE session[s]]
    /\ run' = "stopped"
    /\ UNCHANGED <<version, watches, events, cache, m_registered, value, losses,
                   failed>>

ThreadStep(t) ==
    \/ Connection(t) \/ Reconnect(t)
    \/ Watchers(t) \/ SetWatcher(t) \/ SetChildrenWatcher(t)
    \/ GetClient(t) \/ CreateClient(t)
    \/ RefreshBrokerUrls(t)
    \/ StartReading(t) \/ Exists(t) \/ Read(t) \/ Store(t)

-----------------------------------------------------------------------------
\* init returns, and the thread with the refresh timer runs.
Started ==
    /\ run = "init"
    /\ idle(Main)
    /\ run' = "up"
    /\ UNCHANGED <<server, events, process, threads, losses, failed>>

\* The refresh timer fires.
MutTimerDue == idle(Timer) /\ ~failed
timerDue == idle(Timer)

TimerFires ==
    /\ run = "up"
    /\ timerDue
    /\ todo' = [todo EXCEPT ![Timer] = refresh]
    /\ failed' = FALSE
    /\ UNCHANGED <<server, events, process, mutex, value, run, losses>>

\* The handle is about to be closed.
beingClosed == run = "closing" \/ \E t \in Thread : at(t, "reconnect")

\* A completion thread calls a watcher.
Deliver(s) ==
    /\ running
    /\ session[s] # "closed"
    /\ idle(s)
    /\ overlap \/ ~beingClosed
    /\ \E e \in events[s] :
         /\ events' = [events EXCEPT ![s] = @ \ {e}]
         /\ todo' = [todo EXCEPT ![s] = handler(e)]
    /\ UNCHANGED <<server, process, mutex, value, run, losses, failed>>

\* SIGINT: Manager::stop closes the timer, then the handle.
Stop ==
    /\ "close" \in Faults
    /\ run = "up"
    /\ (\A s \in Session : idle(s)) \/ overlap
    /\ run' = "closing"
    /\ todo' = [todo EXCEPT ![Main] = <<"close">>]
    /\ UNCHANGED <<server, events, process, mutex, value, losses, failed>>

\* The data of a znode changes: every session that watches it gets an event,
\* and its watch is gone.
Change(d) ==
    /\ version[d] < lastVersion(d)
    /\ version' = [version EXCEPT ![d] = @ + 1]
    /\ events' = [s \in Session |->
           events[s] \cup (IF d \in watches[s] THEN {d} ELSE {})]
    /\ watches' = [s \in Session |-> watches[s] \ {d}]
    /\ UNCHANGED <<node, session, process, threads, run, losses, failed>>

\* The server ends the session of the handle: its ephemeral znode is deleted,
\* and the watchers are told.
Expire(s) ==
    /\ s < MaxSessions
    /\ session[s] = "live"
    /\ session' = [session EXCEPT ![s] = "expired"]
    /\ node' = IF node = s THEN NoNode ELSE node
    /\ watches' = [watches EXCEPT ![s] = {}]
    /\ events' = [events EXCEPT ![s] = @ \cup {"expired", "session"}]
    /\ UNCHANGED <<version, process, threads, run, losses, failed>>

\* Another process with the same id registers, and goes, as often as it likes.
OtherComes ==
    /\ node = NoNode
    /\ node' = OtherProcess
    /\ UNCHANGED <<version, session, watches, events, process, threads, run,
                   losses, failed>>

OtherGoes ==
    /\ node = OtherProcess
    /\ node' = NoNode
    /\ UNCHANGED <<version, session, watches, events, process, threads, run,
                   losses, failed>>

Next ==
    \/ \E t \in Thread : ThreadStep(t)
    \/ Started \/ TimerFires \/ Stop \/ Close \/ Closing
    \/ \E s \in Session : Deliver(s) \/ Expire(s)
    \/ \E d \in Datum : Change(d)
    \/ OtherComes \/ OtherGoes

Spec == Init /\ [][Next]_vars

\* The threads run, mutexes are granted, timers fire, events are delivered.
Fairness ==
    /\ \A t \in Thread : SF_vars(ThreadStep(t))
    /\ WF_vars(Started)
    /\ WF_vars(TimerFires)
    /\ \A s \in Session : WF_vars(Deliver(s))
    /\ SF_vars(Close) /\ WF_vars(Closing)

FairSpec == Spec /\ Fairness
-----------------------------------------------------------------------------
\* The type invariant; a mutex is held by a thread that is at work.
TypeOK ==
    /\ version \in [Datum -> Nat \ {0}]
    /\ node \in Session \cup {NoNode, Persistent, OtherProcess}
    /\ session \in [Session -> {"unused", "live", "expired", "closed"}]
    /\ watches \in [Session -> SUBSET Datum]
    /\ events \in [Session -> SUBSET (Datum \cup {"expired", "session"})]
    /\ m_zhandle \in Session \cup {NULL}
    /\ \A d \in Datum : cache[d] \in (-version[d])..version[d]
    /\ m_registered \in BOOLEAN
    /\ DOMAIN cache = Datum
    /\ mutex \in [Mutex -> Thread \cup {Free}]
    /\ \A m \in Mutex : mutex[m] # Free => ~idle(mutex[m])
    /\ todo \in [Thread -> Seq(Step)]
    /\ value \in [Thread -> Int]
    /\ run \in {"init", "up", "closing", "exited", "stopped"}
    /\ losses \in 0..MaxLosses
    /\ failed \in BOOLEAN

\* Some thread will still read the configuration.
willRead ==
    \/ \E t \in Thread, k \in 1..7 :
           k \in DOMAIN todo[t] /\ todo[t][k] = "config"
              /\ ~(k = 2 /\ todo[t][1] = "store" /\ value[t] < version["config"])
    \/ \E s \in Session :
           session[s] # "closed" /\ events[s] \cap {"config", "expired"} # {}

\* No change of the configuration is missed: as long as no call fails, the
\* process has the current configuration or something is under way that will
\* read it.  The watch, which fires once, is set again before the
\* configuration is read, in every thread that does so (configChangeWatcher,
\* globalWatcher, refresh).
NoChangeMissed ==
    running /\ ~failed => cache["config"] = version["config"] \/ willRead

\* An old configuration never replaces a newer one, although two threads can
\* read it at the same time, and one that is whole is never replaced by the
\* same one cut off (refreshLogConfig, m_log_config_mutex, getZnodeData).
of(v) == IF v < 0 THEN -v ELSE v

ConfigGoesForward ==
    [][/\ of(cache'["config"]) >= of(cache["config"])
       /\ cache["config"] > 0 => cache'["config"] # -cache["config"]]_vars

\* "watch the node in zookeeper for configs changing": while the process runs
\* it comes to have the current configuration, whatever calls fail and whatever
\* sessions expire; the last of a series of changes arrives.
ConfigArrives ==
    []<>(cache["config"] = version["config"] \/ run \notin {"init", "up"})

\* The process makes itself known again whenever its znode is gone, unless
\* another process does: the znode never stays away (refreshWatchers).
Registers ==
    []<>(node \notin {NoNode, Persistent} \/ run \notin {"init", "up"})
=============================================================================
