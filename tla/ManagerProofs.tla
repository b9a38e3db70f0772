--------------------------- MODULE ManagerProofs ---------------------------
(***************************************************************************)
(* Manager for every number of tasks, edits and rotations: the tail        *)
(* watchers follow the configuration, also when producers cannot be made   *)
(* at first, and the main thread goes on, each as long as the faults that  *)
(* break it are left out.                                                  *)
(***************************************************************************)
EXTENDS Manager, TLAPS

Watched(p) == m_tails[p] \notin {None, NULL}

\* A tail watcher has the configuration of its task, and its timers run when
\* that is valid.
Follows(p) ==
    Watched(p) => /\ m_tails[p].conf = m_tasks[p]
                  /\ m_tails[p].timers = m_tails[p].conf.valid
                  /\ m_tails[p].conf.version \in m_producer_map

\* A tail watcher is closed and replaced only when it runs and goes on running.
ReplacesRunning(p) ==
    Watched(p) /\ log_config[p] # None /\ otherConf(p, log_config[p])
        => log_config[p].valid /\ m_tails[p].conf.valid

\* Only a missing producer keeps a task from its tail watcher, and a task that
\* waits for one is valid.
OnlyProducers(p) ==
    /\ m_tails[p] = None /\ log_config[p] # None => log_config[p].valid
    /\ ~Watched(p) => \/ m_tasks[p] = None
                      \/ m_tasks[p].version \notin m_producer_map

\* The next refresh neither makes a tail watcher NULL nor starts one whose file
\* was rotated.
NextIsSafe(p) ==
    /\ m_tails[p] # NULL
    /\ Watched(p) /\ log_config[p] # None =>
           /\ otherConf(p, log_config[p]) => log_config[p].version \notin UnknownCodecs
           /\ ~(enabled(p, log_config[p]) /\ rotated(p))

\* Which faults each part of the invariant excludes.
NotMixed == "mixed" \notin Faults
AlwaysValid == NotMixed /\ "invalid" \notin Faults
Safe == NotMixed /\ "codec" \notin Faults /\ "away" \notin Faults /\ "dated" \notin Faults

IInv ==
    /\ TypeOK
    /\ NotMixed => stray = {} /\ \A p \in Pattern : Follows(p) /\ ReplacesRunning(p)
    /\ AlwaysValid => \A p \in Pattern : OnlyProducers(p)
    /\ Safe => main = "loop" /\ \A p \in Pattern : NextIsSafe(p)
-----------------------------------------------------------------------------
\* NULL, no entry and a tail watcher, or a configuration, are told apart.
LEMMA Distinct ==
    /\ None # NULL
    /\ None \notin TaskConf /\ NULL \notin TaskConf
    /\ None \notin TailWatcher /\ NULL \notin TailWatcher
<1>1. None # NULL
  BY DEF None, NULL
<1>2. \A c \in TaskConf : DOMAIN c = {"valid", "version"}
  BY DEF TaskConf
<1>3. \A w \in TailWatcher : DOMAIN w = {"conf", "timers", "file"}
  BY DEF TailWatcher
<1>4. DOMAIN None = {"none"} /\ DOMAIN NULL = {"null"}
  BY DEF None, NULL
<1>5. "none" # "valid" /\ "null" # "valid" /\ "none" # "conf" /\ "null" # "conf"
  OBVIOUS
<1> QED BY <1>1, <1>2, <1>3, <1>4, <1>5

\* The types of the fields of a tail watcher.
LEMMA TailWatcherFields ==
    ASSUME NEW w \in TailWatcher
    PROVE  /\ w.conf \in TaskConf /\ w.timers \in BOOLEAN
           /\ w.file \in {NotOpened} \cup 1..(MaxRotations + 1)
BY DEF TailWatcher

\* The types of the fields of a configuration.
LEMMA TaskConfFields ==
    ASSUME NEW c \in TaskConf
    PROVE  c.valid \in BOOLEAN /\ c.version \in Version
BY DEF TaskConf

NoProducer(conf, failing) == conf.version \in (UnknownCodecs \cup failing) \ m_producer_map

\* What setupWatcher returns: a tail watcher that runs, unless there is no
\* producer for it.
LEMMA SetupWatcher ==
    ASSUME NEW c \in TaskConf, NEW failing
    PROVE  /\ setupWatcher(c, failing) \in TailWatcher \cup {NULL}
           /\ setupWatcher(c, failing) # None
           /\ setupWatcher(c, failing) = NULL <=> NoProducer(c, failing)
           /\ ~NoProducer(c, failing) =>
                  /\ setupWatcher(c, failing).conf = c
                  /\ setupWatcher(c, failing).timers = TRUE
                  /\ setupWatcher(c, failing).file = NotOpened
<1>1. [conf |-> c, timers |-> TRUE, file |-> NotOpened] \in TailWatcher
  BY DEF TailWatcher
<1> QED BY <1>1, Distinct DEF setupWatcher, NoProducer

\* The same of the configuration that a refresh brings.
LEMMA SetupConfigured ==
    ASSUME TypeOK, NEW failing, NEW p \in Pattern, log_config[p] # None
    PROVE  LET new == setupWatcher(log_config[p], failing)
           IN  /\ new \in TailWatcher \cup {NULL}
               /\ new # None
               /\ new = NULL <=> NoProducer(log_config[p], failing)
               /\ ~NoProducer(log_config[p], failing) =>
                      new.conf = log_config[p] /\ new.timers = TRUE
BY SetupWatcher DEF TypeOK

\* What refreshWatchers, when it returns, does to the tail watcher of a
\* pattern: the one of a deleted task is gone, a task without one gets one if
\* there is a producer, and one that is there is replaced or switched.
LEMMA RefreshedTail ==
    ASSUME TypeOK, NEW failing, refreshAll(failing), ~readsNULL, NEW p \in Pattern
    PROVE  /\ log_config[p] = None => m_tails'[p] = None
           /\ m_tails[p] = None /\ log_config[p] # None =>
                  \/ /\ m_tails'[p] = None
                     /\ \/ p \notin started(log_config)
                        \/ NoProducer(log_config[p], failing)
                  \/ /\ p \in started(log_config)
                     /\ ~NoProducer(log_config[p], failing)
                     /\ m_tails'[p] = setupWatcher(log_config[p], failing)
           /\ m_tails[p] # None /\ log_config[p] # None =>
                  m_tails'[p] = updateWatcher(p, log_config[p], failing)
<1>1. m_tails'[p] = CASE p \in stopped(log_config) -> None
                      [] p \in started(log_config) -> startWatcher(log_config[p], failing)
                      [] p \in keeped -> updateWatcher(p, log_config[p], failing)
                      [] OTHER -> m_tails[p]
  BY DEF refreshAll
<1>2. p \in stopped(log_config) <=> m_tails[p] # None /\ log_config[p] = None
  BY DEF stopped, Keys
<1>3. p \in keeped <=> m_tails[p] # None /\ log_config[p] # None
  BY DEF keeped, Keys
<1>4. p \in started(log_config) => m_tails[p] = None /\ log_config[p] # None
  BY DEF started, Keys
<1>5. CASE log_config[p] = None
  BY <1>1, <1>2, <1>3, <1>4, <1>5
<1>6. CASE m_tails[p] # None /\ log_config[p] # None
  BY <1>1, <1>2, <1>3, <1>4, <1>6
<1>7. CASE m_tails[p] = None /\ log_config[p] # None
  <2>1. log_config[p] \in TaskConf
    BY <1>7 DEF TypeOK
  <2>2. p \in started(log_config) => m_tails'[p] = startWatcher(log_config[p], failing)
    BY <1>1, <1>2, <1>3, <1>7
  <2>3. p \notin started(log_config) => m_tails'[p] = None
    BY <1>1, <1>2, <1>3, <1>7
  <2> QED BY <1>7, <2>1, <2>2, <2>3, SetupWatcher DEF startWatcher
<1> QED BY <1>5, <1>6, <1>7

\* The tail watcher that setEnabled, start and stop leave.
LEMMA Switched ==
    ASSUME TypeOK, NEW p \in Pattern, Watched(p), NEW c \in TaskConf,
           ~otherConf(p, c)
    PROVE  /\ switched(p, c) \in TailWatcher
           /\ switched(p, c).conf = c
           /\ switched(p, c).timers = c.valid
<1>1. m_tails[p] \in TailWatcher
  BY DEF TypeOK, Watched
<1>2. /\ m_tails[p].conf \in TaskConf
      /\ m_tails[p].file \in {NotOpened} \cup 1..(MaxRotations + 1)
      /\ inode[p] \in 1..(MaxRotations + 1)
  BY <1>1, TailWatcherFields DEF TypeOK
<1>3. [m_tails[p].conf EXCEPT !.valid = c.valid] = c
  BY <1>2 DEF otherConf, TaskConf
<1>4. switched(p, c) = [conf |-> c, timers |-> c.valid,
                        file |-> IF enabled(p, c) THEN inode[p] ELSE m_tails[p].file]
  BY <1>3 DEF switched
<1> QED BY <1>2, <1>4, TaskConfFields DEF TailWatcher

\* updateWatcher gives a tail watcher, or NULL when there is no producer.
LEMMA UpdateWatcher ==
    ASSUME TypeOK, NEW p \in Pattern, Watched(p), NEW c \in TaskConf, NEW failing
    PROVE  updateWatcher(p, c, failing) \in TailWatcher \cup {NULL}
<1>1. m_tails[p] \in TailWatcher
  BY DEF TypeOK, Watched
<1> QED BY <1>1, Switched, SetupWatcher DEF updateWatcher
-----------------------------------------------------------------------------
\* The initial states satisfy the invariant.
LEMMA InitInv == Init => IInv
<1> SUFFICES ASSUME Init PROVE IInv
  OBVIOUS
<1>1. TypeOK
  BY ManagerAssumption DEF Init, TypeOK, Keys
<1>2. \A p \in Pattern : ~Watched(p) /\ m_tails[p] = None /\ log_config[p] = None
                           /\ m_tasks[p] = None
  BY DEF Init, Watched
<1> QED BY <1>1, <1>2, Distinct DEF Init, IInv, Follows, ReplacesRunning, OnlyProducers, NextIsSafe

\* After a refresh a task that was set up has its producer, and one that could
\* not be set up has none.
LEMMA RefreshedProducer ==
    ASSUME TypeOK, NEW failing, refreshAll(failing), NEW p \in Pattern,
           log_config[p] # None
    PROVE  /\ m_producer_map \subseteq m_producer_map'
           /\ NoProducer(log_config[p], failing) => log_config[p].version \notin m_producer_map'
           /\ p \in setUp /\ ~NoProducer(log_config[p], failing) =>
                  log_config[p].version \in m_producer_map'
BY DEF refreshAll, NoProducer

\* A refresh that returns preserves the types...
LEMMA RefreshTypes ==
    ASSUME TypeOK, NEW failing, RefreshWith(failing)
    PROVE  TypeOK'
<1>1. CASE main' = "loop"
  <2>1. refreshAll(failing) /\ ~readsNULL /\ UNCHANGED <<log_config, inode, edits>>
    BY <1>1 DEF RefreshWith
  <2>2. ASSUME NEW p \in Pattern
        PROVE  /\ m_tails'[p] \in TailWatcher \cup {None, NULL}
               /\ log_config[p] = None => m_tails'[p] = None
    <3>1. log_config[p] \in TaskConf \cup {None}
      BY DEF TypeOK
    <3>2. m_tails[p] # NULL
      BY <2>1 DEF readsNULL
    <3>3. CASE log_config[p] = None
      BY <2>1, <3>3, RefreshedTail
    <3>4. CASE log_config[p] # None /\ m_tails[p] = None
      BY <2>1, <3>1, <3>4, RefreshedTail, SetupConfigured
    <3>5. CASE log_config[p] # None /\ m_tails[p] # None
      BY <2>1, <3>1, <3>2, <3>5, RefreshedTail, UpdateWatcher DEF Watched
    <3> QED BY <3>3, <3>4, <3>5
  <2>3. m_tails' \in [Pattern -> TailWatcher \cup {None, NULL}]
    <3>1. \E f : m_tails' = [p \in Pattern |-> f[p]]
      <4> DEFINE f == [p \in Pattern |->
               CASE p \in stopped(log_config) -> None
                 [] p \in started(log_config) -> startWatcher(log_config[p], failing)
                 [] p \in keeped -> updateWatcher(p, log_config[p], failing)
                 [] OTHER -> m_tails[p]]
      <4>1. m_tails' = f
        BY <2>1 DEF refreshAll
      <4> HIDE DEF f
      <4>2. f = [p \in Pattern |-> f[p]]
        BY DEF f
      <4> QED BY <4>1, <4>2
    <3> QED BY <2>2, <3>1
  <2>4. m_tasks' = log_config /\ m_tails_deleted' = {}
        /\ stray' = stray \cup {p \in keeped : strays(p, log_config[p])}
    BY <2>1 DEF refreshAll
  <2>5. keeped \subseteq Pattern
    BY DEF keeped, Keys
  <2>6. Keys(m_tails') \subseteq Keys(m_tasks')
    BY <2>2, <2>4 DEF Keys
  <2>7. m_producer_map' \subseteq Version \ UnknownCodecs
    <3>1. \A p \in setUp : log_config[p] \in TaskConf
      BY DEF setUp, started, keeped, Keys, TypeOK
    <3>2. \A p \in setUp : log_config[p].version \in Version
      BY <3>1, TaskConfFields
    <3> QED BY <2>1, <3>2 DEF refreshAll, TypeOK
  <2> QED BY <1>1, <2>1, <2>3, <2>4, <2>5, <2>6, <2>7 DEF TypeOK, Keys
<1>2. CASE main' # "loop"
  BY <1>2 DEF RefreshWith, TypeOK, Keys
<1> QED BY <1>1, <1>2

\* ...and the rest of the invariant: the tail watchers have the configuration
\* that has become that of the tasks.
LEMMA RefreshInv ==
    ASSUME IInv, NEW failing, RefreshWith(failing)
    PROVE  IInv'
<1>0. TypeOK'
  BY RefreshTypes DEF IInv
<1>1. CASE main' # "loop"
  <2>1. /\ UNCHANGED <<log_config, m_tasks, m_tails, stray, m_producer_map, inode>>
        /\ readsNULL \/ hangs
    BY <1>1 DEF RefreshWith
  <2>2. ~Safe
    <3>1. ASSUME Safe PROVE FALSE
      <4>1. \A p \in Pattern : NextIsSafe(p)
        BY <3>1 DEF IInv
      <4>2. ~readsNULL
        BY <4>1 DEF readsNULL, NextIsSafe
      <4>3. PICK p \in keeped : locksTwice(p, log_config[p])
        BY <2>1, <4>2 DEF hangs
      <4>4. p \in Pattern /\ Watched(p) /\ log_config[p] # None
        BY <4>1, <4>3 DEF keeped, Keys, Watched, NextIsSafe
      <4> QED BY <4>1, <4>3, <4>4 DEF NextIsSafe, locksTwice
    <3> QED BY <3>1
  <2> QED BY <1>0, <2>1, <2>2 DEF IInv, Follows, ReplacesRunning, OnlyProducers, Watched,
             otherConf, NotMixed, AlwaysValid, Safe
<1>2. CASE main' = "loop"
  <2>1. /\ refreshAll(failing) /\ ~readsNULL /\ UNCHANGED <<log_config, inode, edits>>
        /\ m_tasks' = log_config
        /\ stray' = stray \cup {p \in keeped : strays(p, log_config[p])}
    BY <1>2 DEF RefreshWith, refreshAll
  <2>2. ASSUME NEW p \in Pattern
        PROVE  log_config[p] \in TaskConf \cup {None} /\ m_tails[p] \in TailWatcher \cup {None}
    BY <2>1 DEF IInv, TypeOK, readsNULL
  <2>3. ASSUME NotMixed, NEW p \in Pattern
        PROVE  /\ Watched(p)' => /\ m_tails'[p].conf = log_config[p]
                                 /\ m_tails'[p].timers = log_config[p].valid
                                 /\ log_config[p].version \in m_producer_map'
                                 /\ log_config[p] # None
               /\ ~(p \in keeped /\ strays(p, log_config[p]))
    <3>1. Follows(p) /\ ReplacesRunning(p)
      BY <2>3 DEF IInv
    <3>2. CASE log_config[p] = None
      BY <2>1, <3>2, RefreshedTail DEF IInv, Watched, keeped, Keys
    <3>3. CASE log_config[p] # None /\ m_tails[p] = None
      <4>1. p \in started(log_config) => log_config[p].valid
        BY ManagerAssumption DEF started, Pattern
      <4>2. p \notin keeped
        BY <3>3 DEF keeped, Keys
      <4>3. p \in started(log_config) => p \in setUp
        BY DEF setUp
      <4>4. CASE m_tails'[p] = None
        BY <4>2, <4>4 DEF Watched
      <4>5. CASE m_tails'[p] # None
        <5>1. /\ p \in started(log_config)
              /\ ~NoProducer(log_config[p], failing)
              /\ m_tails'[p] = setupWatcher(log_config[p], failing)
          BY <2>1, <3>3, <4>5, RefreshedTail DEF IInv
        <5>2. log_config[p].version \in m_producer_map'
          BY <2>1, <3>3, <4>3, <5>1, RefreshedProducer DEF IInv
        <5>3. m_tails'[p].conf = log_config[p] /\ m_tails'[p].timers = TRUE
          BY <3>3, <5>1, SetupConfigured DEF IInv
        <5>4. log_config[p].valid = TRUE
          BY <2>2, <3>3, <4>1, <5>1, TaskConfFields
        <5> QED BY <3>3, <4>2, <5>2, <5>3, <5>4
      <4> QED BY <4>4, <4>5
    <3>4. CASE log_config[p] # None /\ m_tails[p] # None
      <4>1. Watched(p) /\ log_config[p] \in TaskConf /\ m_tails'[p] = updateWatcher(p, log_config[p], failing)
        BY <2>1, <2>2, <3>4, RefreshedTail, Distinct DEF IInv, Watched, readsNULL
      <4>2. CASE otherConf(p, log_config[p])
        <5>1. log_config[p].valid /\ m_tails[p].conf.valid
          BY <3>1, <3>4, <4>1, <4>2 DEF ReplacesRunning
        <5>2. m_tails'[p] = setupWatcher(log_config[p], failing)
          BY <4>1, <4>2 DEF updateWatcher
        <5>3. p \in setUp
          BY <3>4, <4>2 DEF setUp, keeped, Keys
        <5> QED BY <2>1, <3>4, <4>1, <5>1, <5>2, <5>3, RefreshedProducer, SetupConfigured
                DEF Watched, strays, enabled, IInv
      <4>3. CASE ~otherConf(p, log_config[p])
        <5>1. log_config[p].version \in m_producer_map'
          BY <2>1, <3>1, <3>4, <4>1, <4>3, RefreshedProducer DEF Follows, otherConf, IInv
        <5>2. CASE m_tails[p].conf.valid # log_config[p].valid
          BY <3>4, <4>1, <4>3, <5>1, <5>2, Switched DEF updateWatcher, strays, IInv
        <5>3. CASE m_tails[p].conf.valid = log_config[p].valid
          <6>1. m_tails[p] \in TailWatcher
            BY <2>2, <3>4
          <6>2. m_tails[p].conf = log_config[p]
            BY <4>1, <4>3, <5>3, <6>1, TailWatcherFields DEF otherConf, TaskConf
          <6> QED BY <3>1, <3>4, <4>1, <4>3, <5>1, <5>3, <6>2 DEF updateWatcher, strays, Follows
        <5> QED BY <5>2, <5>3
      <4> QED BY <4>2, <4>3
    <3> QED BY <3>2, <3>3, <3>4
  <2>4. NotMixed => stray' = {} /\ \A p \in Pattern : Follows(p)' /\ ReplacesRunning(p)'
    <3> SUFFICES ASSUME NotMixed
                 PROVE  stray' = {} /\ \A p \in Pattern : Follows(p)' /\ ReplacesRunning(p)'
      OBVIOUS
    <3>1. stray' = {}
      BY <2>1, <2>3 DEF IInv, keeped, Keys
    <3>2. ASSUME NEW p \in Pattern PROVE Follows(p)' /\ ReplacesRunning(p)'
      BY <2>1, <2>3, <3>2 DEF Follows, ReplacesRunning, Watched, otherConf
    <3> QED BY <3>1, <3>2
  <2>5. AlwaysValid => \A p \in Pattern : OnlyProducers(p)'
    <3> SUFFICES ASSUME AlwaysValid, NEW p \in Pattern PROVE OnlyProducers(p)'
      OBVIOUS
    <3>1. \A q \in Pattern : OnlyProducers(q) /\ Follows(q)
      BY DEF IInv, AlwaysValid
    <3>2. CASE log_config[p] = None
      BY <2>1, <3>2 DEF OnlyProducers, Watched
    <3>3. CASE log_config[p] # None /\ m_tails[p] = None
      <4>1. \A q \in Keys(log_config) \ Keys(m_tails) : log_config[q].valid
        BY <3>1 DEF OnlyProducers, Keys
      <4>2. p \in started(log_config)
        BY <3>3, <4>1 DEF started, Keys
      <4>3. log_config[p].valid
        BY <3>1, <3>3 DEF OnlyProducers
      <4> QED BY <2>1, <2>2, <3>3, <4>2, <4>3, RefreshedTail, RefreshedProducer,
                 SetupConfigured, Distinct DEF OnlyProducers, Watched, IInv
    <3>4. CASE log_config[p] # None /\ m_tails[p] # None
      <4>1. /\ Watched(p) /\ log_config[p] \in TaskConf /\ m_tails[p] \in TailWatcher
            /\ m_tails'[p] = updateWatcher(p, log_config[p], failing)
        BY <2>1, <2>2, <3>4, RefreshedTail DEF IInv, Watched, readsNULL
      <4>2. CASE otherConf(p, log_config[p])
        BY <2>1, <3>4, <4>1, <4>2, SetupConfigured, RefreshedProducer, Distinct
           DEF updateWatcher, OnlyProducers, Watched, IInv
      <4>3. CASE ~otherConf(p, log_config[p])
        <5>1. m_tails'[p] \in TailWatcher
          BY <4>1, <4>3, Switched DEF updateWatcher, IInv
        <5> QED BY <5>1, Distinct DEF OnlyProducers, Watched
      <4> QED BY <4>2, <4>3
    <3> QED BY <3>2, <3>3, <3>4
  <2>6. Safe => main' = "loop" /\ \A p \in Pattern : NextIsSafe(p)'
    <3> SUFFICES ASSUME Safe, NEW p \in Pattern PROVE NextIsSafe(p)'
      BY <1>2
    <3>1. NextIsSafe(p) /\ NotMixed /\ Follows(p)
      BY DEF IInv, Safe
    <3>2. m_tails'[p] # NULL
      <4>1. CASE log_config[p] = None
        BY <2>1, <4>1, RefreshedTail, Distinct DEF IInv
      <4>2. CASE log_config[p] # None /\ m_tails[p] = None
        BY <2>1, <2>2, <4>2, RefreshedTail, SetupConfigured, Distinct DEF IInv
      <4>3. CASE log_config[p] # None /\ m_tails[p] # None
        <5>1. /\ Watched(p) /\ log_config[p] \in TaskConf /\ m_tails[p] \in TailWatcher
              /\ m_tails'[p] = updateWatcher(p, log_config[p], failing)
          BY <2>1, <2>2, <4>3, RefreshedTail DEF IInv, Watched, readsNULL
        <5>2. CASE otherConf(p, log_config[p])
          <6>1. p \in keeped /\ keptSetUp(failing)
            BY <4>3 DEF keeped, Keys, RefreshWith, Safe
          <6>2. ~NoProducer(log_config[p], failing)
            BY <3>1, <4>3, <5>1, <5>2, <6>1 DEF NextIsSafe, NoProducer, keptSetUp, Watched
          <6> QED BY <4>3, <5>1, <5>2, <6>2, SetupConfigured DEF updateWatcher, IInv
        <5>3. CASE ~otherConf(p, log_config[p])
          BY <5>1, <5>3, Switched, Distinct DEF updateWatcher, IInv
        <5> QED BY <5>2, <5>3
      <4> QED BY <4>1, <4>2, <4>3
    <3>3. Watched(p)' => ~otherConf(p, log_config[p])' /\ ~enabled(p, log_config[p])'
      BY <2>1, <2>3, <3>1 DEF otherConf, enabled
    <3> QED BY <3>2, <3>3 DEF NextIsSafe
  <2> QED BY <1>0, <2>4, <2>5, <2>6 DEF IInv, NotMixed, AlwaysValid, Safe
<1> QED BY <1>1, <1>2

\* A tail watcher that runs opens the file that is there now.
LEMMA OpenFileInv ==
    ASSUME IInv, NEW p \in Pattern, OpenFile(p)
    PROVE  IInv'
<1>1. /\ Watched(p) /\ m_tails[p] \in TailWatcher /\ m_tails[p].timers
      /\ m_tails' = [m_tails EXCEPT ![p].file = inode[p]]
      /\ UNCHANGED <<log_config, m_tasks, m_tails_deleted, stray, m_producer_map, inode,
                     main, edits>>
  BY DEF OpenFile, notified, Watched, IInv, TypeOK
<1>2. /\ m_tails'[p] \in TailWatcher
      /\ m_tails'[p].conf = m_tails[p].conf /\ m_tails'[p].timers = m_tails[p].timers
      /\ m_tails'[p].file = inode[p]
      /\ \A q \in Pattern \ {p} : m_tails'[q] = m_tails[q]
      /\ m_tails' \in [Pattern -> TailWatcher \cup {None, NULL}]
  <2>1. inode[p] \in 1..(MaxRotations + 1)
    BY DEF IInv, TypeOK
  <2>2. m_tails'[p] = [m_tails[p] EXCEPT !.file = inode[p]]
    BY <1>1 DEF IInv, TypeOK
  <2> QED BY <1>1, <2>1, <2>2 DEF IInv, TypeOK, TailWatcher
<1>3. TypeOK'
  BY <1>1, <1>2, Distinct DEF IInv, TypeOK, Keys, Watched
<1>4. \A q \in Pattern : Watched(q)' <=> Watched(q)
  BY <1>1, <1>2, Distinct DEF Watched
<1>5. \A q \in Pattern : m_tails'[q] = NULL <=> m_tails[q] = NULL
  BY <1>1, <1>2, Distinct
<1>6. \A q \in Pattern : m_tails'[q] = None <=> m_tails[q] = None
  BY <1>1, <1>2, Distinct DEF Watched
<1>7. NotMixed => stray' = {} /\ \A q \in Pattern : Follows(q)' /\ ReplacesRunning(q)'
  BY <1>1, <1>2, <1>4 DEF IInv, Follows, ReplacesRunning, otherConf
<1>8. AlwaysValid => \A q \in Pattern : OnlyProducers(q)'
  BY <1>1, <1>4, <1>6 DEF IInv, OnlyProducers
<1>9. Safe => main' = "loop" /\ \A q \in Pattern : NextIsSafe(q)'
  BY <1>1, <1>2, <1>4, <1>5 DEF IInv, NextIsSafe, otherConf, enabled, rotated
<1> QED BY <1>3, <1>7, <1>8, <1>9 DEF IInv, NotMixed, AlwaysValid, Safe

\* A rotation replaces a tail watcher by one with the same configuration.
LEMMA RotateFileInv ==
    ASSUME IInv, NEW p \in Pattern, RotateFile(p)
    PROVE  IInv'
<1>1. /\ Watched(p) /\ m_tails[p] \in TailWatcher /\ m_tails[p].timers
      /\ m_tails[p].conf \in TaskConf /\ p \in Keys(m_tails)
      /\ UNCHANGED <<log_config, m_tasks, stray, m_producer_map, inode, edits>>
  BY TailWatcherFields DEF RotateFile, notified, Watched, IInv, TypeOK, Keys
<1>2. CASE foundByPath(p)
  <2> DEFINE new == setupWatcher(m_tails[p].conf, Version)
  <2>1. /\ m_tails' = [m_tails EXCEPT ![p] = new] /\ main' = main
        /\ m_tails_deleted' = m_tails_deleted \cup {p}
    BY <1>2 DEF RotateFile
  <2>2. /\ new \in TailWatcher \cup {NULL} /\ new # None
        /\ new = NULL <=> NoProducer(m_tails[p].conf, Version)
        /\ new # NULL => new.conf = m_tails[p].conf /\ new.timers = TRUE
                           /\ new.file = NotOpened
    BY <1>1, SetupWatcher
  <2> HIDE DEF new
  <2>3. m_tails'[p] = new /\ \A q \in Pattern \ {p} : m_tails'[q] = m_tails[q]
    BY <2>1 DEF IInv, TypeOK
  <2>4. TypeOK'
    <3>1. m_tails' \in [Pattern -> TailWatcher \cup {None, NULL}]
      BY <2>1, <2>2 DEF IInv, TypeOK
    <3>2. Keys(m_tails') \subseteq Keys(m_tasks')
      BY <1>1, <2>3 DEF IInv, TypeOK, Keys
    <3> QED BY <1>1, <2>1, <3>1, <3>2 DEF IInv, TypeOK, Keys
  <2>5. NotMixed => new # NULL /\ m_tails[p].conf.valid
    BY <1>1, <2>2 DEF IInv, Follows, NoProducer
  <2>6. NotMixed => stray' = {} /\ \A q \in Pattern : Follows(q)' /\ ReplacesRunning(q)'
    BY <1>1, <2>2, <2>3, <2>5 DEF IInv, Follows, ReplacesRunning, otherConf, Watched
  <2>7. AlwaysValid => \A q \in Pattern : OnlyProducers(q)'
    BY <1>1, <2>2, <2>3, <2>5 DEF IInv, AlwaysValid, OnlyProducers, Watched
  <2>8. Safe => main' = "loop" /\ \A q \in Pattern : NextIsSafe(q)'
    BY <1>1, <2>1, <2>2, <2>3, <2>5 DEF IInv, Safe, NextIsSafe, otherConf, enabled, rotated, Watched
  <2> QED BY <2>4, <2>6, <2>7, <2>8 DEF IInv, NotMixed, AlwaysValid, Safe
<1>3. CASE ~foundByPath(p)
  <2>1. UNCHANGED <<m_tails, m_tails_deleted>> /\ main' = "crashed"
    BY <1>3 DEF RotateFile
  <2>2. ~Safe
    BY <1>3 DEF foundByPath, Safe
  <2> QED BY <1>1, <2>1, <2>2 DEF IInv, TypeOK, Keys, NotMixed, AlwaysValid, Safe, Follows,
             ReplacesRunning, OnlyProducers, Watched, otherConf
<1> QED BY <1>2, <1>3

\* An edit leaves the tail watchers alone; what it may bring is told by
\* permitted.
LEMMA EditInv ==
    ASSUME IInv, Edit
    PROVE  IInv'
<1>1. PICK p \in Pattern, c \in TaskConf \cup {None} :
          permitted(p, c) /\ log_config' = [log_config EXCEPT ![p] = c]
  BY DEF Edit
<1>2. UNCHANGED <<m_tasks, m_tails, m_tails_deleted, stray, m_producer_map, inode, main>>
  BY DEF Edit
<1>3. log_config'[p] = c /\ \A q \in Pattern \ {p} : log_config'[q] = log_config[q]
  BY <1>1 DEF IInv, TypeOK
<1>4. TypeOK'
  BY <1>1, <1>2, ManagerAssumption DEF Edit, IInv, TypeOK, Keys
<1>5. NotMixed => stray' = {} /\ \A q \in Pattern : Follows(q)' /\ ReplacesRunning(q)'
  BY <1>1, <1>2, <1>3 DEF IInv, NotMixed, Follows, ReplacesRunning, otherConf, Watched, permitted
<1>6. AlwaysValid => \A q \in Pattern : OnlyProducers(q)'
  BY <1>1, <1>2, <1>3 DEF IInv, AlwaysValid, OnlyProducers, Watched, permitted
<1>7. Safe => main' = "loop" /\ \A q \in Pattern : NextIsSafe(q)'
  BY <1>1, <1>2, <1>3
     DEF IInv, Safe, NextIsSafe, otherConf, enabled, rotated, Watched, permitted
<1> QED BY <1>4, <1>5, <1>6, <1>7 DEF IInv, NotMixed, AlwaysValid, Safe

\* A file that is rotated while its tail watcher runs is not one that the next
\* refresh starts.
LEMMA RotateInv ==
    ASSUME IInv, Rotate
    PROVE  IInv'
<1>1. PICK p \in Pattern :
          /\ inode[p] <= MaxRotations
          /\ disabled(p) => "away" \in Faults
          /\ inode' = [inode EXCEPT ![p] = @ + 1]
          /\ UNCHANGED <<log_config, m_tasks, m_tails, m_tails_deleted, stray,
                         m_producer_map, main, edits>>
  BY DEF Rotate
<1>2. TypeOK'
  <2>1. inode' \in [Pattern -> 1..(MaxRotations + 1)]
    BY <1>1, ManagerAssumption DEF IInv, TypeOK
  <2> QED BY <1>1, <2>1 DEF IInv, TypeOK, Keys
<1>3. NotMixed => stray' = {} /\ \A q \in Pattern : Follows(q)' /\ ReplacesRunning(q)'
  BY <1>1 DEF IInv, Follows, ReplacesRunning, otherConf, Watched
<1>4. AlwaysValid => \A q \in Pattern : OnlyProducers(q)'
  BY <1>1 DEF IInv, OnlyProducers, Watched
<1>5. Safe => main' = "loop" /\ \A q \in Pattern : NextIsSafe(q)'
  <2> SUFFICES ASSUME Safe, NEW q \in Pattern PROVE NextIsSafe(q)'
    BY <1>1 DEF IInv
  <2>1. NextIsSafe(q) /\ Follows(q)
    BY DEF IInv, Safe
  <2>2. q # p => inode'[q] = inode[q]
    BY <1>1 DEF IInv, TypeOK
  <2>3. q = p => ~disabled(p)
    BY <1>1 DEF Safe
  <2> QED BY <1>1, <2>1, <2>2, <2>3
          DEF NextIsSafe, Follows, otherConf, enabled, rotated, Watched, disabled
<1> QED BY <1>2, <1>3, <1>4, <1>5 DEF IInv, NotMixed, AlwaysValid, Safe

\* Every step preserves the invariant.
LEMMA NextInv == IInv /\ [Next]_vars => IInv'
<1> SUFFICES ASSUME IInv, [Next]_vars PROVE IInv'
  OBVIOUS
<1>1. CASE UNCHANGED vars
  BY <1>1 DEF vars, IInv, TypeOK, Keys, NotMixed, AlwaysValid, Safe, Follows, ReplacesRunning,
     OnlyProducers, NextIsSafe, Watched, otherConf, enabled, rotated
<1> QED BY <1>1, RefreshInv, OpenFileInv, RotateFileInv, EditInv, RotateInv DEF Next, Refresh
-----------------------------------------------------------------------------
\* The type invariant, whatever goes wrong: in particular a tail watcher always
\* has a task, which updateWatcherRotate dereferences without a check.
THEOREM TypeCorrect == Spec => []TypeOK
<1>1. IInv => TypeOK
  BY DEF IInv
<1> QED BY <1>1, InitInv, NextInv, PTL DEF Spec

\* The tail watchers that run are those of the valid tasks whose codec has a
\* producer, and have their configuration, for any number of tasks and however
\* edits, refreshes and rotations follow each other; unless a task is created
\* that is not valid, or changes in another field when it is not, or when it
\* becomes valid or invalid.
THEOREM AppliedAlways ==
    ASSUME "mixed" \notin Faults, "invalid" \notin Faults
    PROVE  Spec => []Applied
<1>1. ASSUME IInv, NEW p \in Pattern
      PROVE  (Running(p) <=> Wanted(p)) /\ (Running(p) => m_tails[p].conf = m_tasks[p])
  <2>1. Follows(p) /\ OnlyProducers(p)
    BY <1>1 DEF IInv, NotMixed, AlwaysValid
  <2>2. CASE Watched(p)
    <3>1. m_tails[p] # None /\ m_tasks[p] # None
      BY <1>1, <2>2 DEF IInv, TypeOK, Keys, Watched
    <3>2. m_tails[p].timers = m_tasks[p].valid
      BY <2>1, <2>2 DEF Follows
    <3>3. m_tails[p] \in TailWatcher
      BY <1>1, <2>2 DEF IInv, TypeOK, Watched
    <3>4. m_tails[p].timers \in BOOLEAN
      BY <3>3, TailWatcherFields
    <3> QED BY <2>1, <2>2, <3>1, <3>2, <3>4 DEF Running, Wanted, Watched, Follows
  <2>3. CASE ~Watched(p)
    BY <2>1, <2>3 DEF Running, Wanted, Watched, OnlyProducers
  <2> QED BY <2>2, <2>3
<1>2. IInv => Applied
  BY <1>1 DEF Applied
<1> QED BY <1>2, InitInv, NextInv, PTL DEF Spec

\* A task that is not valid is not collected, neither by its tail watcher nor by
\* one that was replaced, unless a task that is not valid, or becomes valid or
\* invalid, changes in another field in the same refresh: the run
\* manager_invalid shows that it is then.
THEOREM InvalidNotCollectedAlways ==
    ASSUME "mixed" \notin Faults
    PROVE  Spec => []InvalidNotCollected
<1>1. ASSUME IInv PROVE InvalidNotCollected
  <2>1. stray = {} /\ \A p \in Pattern : Follows(p)
    BY <1>1 DEF IInv, NotMixed
  <2> QED BY <2>1 DEF InvalidNotCollected, Running, Follows, Watched
<1> QED BY <1>1, InitInv, NextInv, PTL DEF Spec

\* The main thread neither waits for m_tail_watchers_mutex, which it holds, nor
\* dereferences NULL, unless an existing task gets a codec that no producer can
\* be made for, valid is edited together with other fields, a file is rotated
\* while its task is disabled, or a pattern with a time format has its file
\* replaced; tasks may be created that are not valid.
THEOREM AliveAlways ==
    ASSUME Faults \subseteq {"invalid"}
    PROVE  Spec => []Alive
<1>1. Safe
  BY DEF Safe, NotMixed
<1>2. IInv => Alive
  BY <1>1 DEF IInv, Alive
<1> QED BY <1>2, InitInv, NextInv, PTL DEF Spec
=============================================================================
