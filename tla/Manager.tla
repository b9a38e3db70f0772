------------------------------ MODULE Manager ------------------------------
(***************************************************************************)
(* How Manager makes its tail watchers follow the configuration: the       *)
(* tasks, the tail watchers, and refreshWatchers, which a timer of the     *)
(* event loop calls, with rotations (updateWatcherRotate) in between.      *)
(*                                                                         *)
(* A path pattern is a number, in the order in which std::set iterates     *)
(* over the names; patterns here have no time format, so that the path of  *)
(* a task does not change (TaskPaths models how it does).  A configuration *)
(* is whether it is valid, and a version, which stands for all the fields  *)
(* that the comparison of TaskConf looks at besides; in particular it      *)
(* names a codec, so that each version has a Kafka producer of its own.    *)
(* refreshWatchers runs on the event loop and holds m_tail_watchers_mutex, *)
(* so it is one step.                                                      *)
(***************************************************************************)
EXTENDS Integers

CONSTANTS Patterns,      \* how many path patterns: 1..Patterns
          Versions,      \* bound: versions of a configuration
          UnknownCodecs, \* versions with a codec that is not in cc_map
          MaxEdits,      \* bound: edits of the configuration
          MaxRotations,  \* bound: rotations of the files
          Faults         \* what may happen besides, a subset of AllFaults

(***************************************************************************)
(* "mixed"   a task that is not valid, or becomes valid or invalid in the  *)
(*           same refresh, changes in another field                        *)
(* "invalid" a task is created that is not valid                           *)
(* "codec"   the codec of an existing task is set to one that is unknown,  *)
(*           or that no producer can be made for when it takes effect      *)
(* "away"    a disabled task is enabled after its file was rotated         *)
(* "dated"   the last pattern has a time format, so that it is not its own *)
(*           path, and yet its file is replaced                            *)
(***************************************************************************)
AllFaults == {"mixed", "invalid", "codec", "away", "dated"}

ASSUME ManagerAssumption ==
    /\ Patterns \in Nat \ {0}
    /\ Versions \in Nat \ {0}
    /\ UnknownCodecs \subseteq 1..Versions
    /\ MaxEdits \in Nat
    /\ MaxRotations \in Nat
    /\ Faults \subseteq AllFaults

VARIABLES
    log_config,      \* what m_zookeeper->getLogConfig() returns
    m_tasks,         \* the configuration of each task
    m_tails,         \* the tail watcher of each pattern
    m_tails_deleted, \* the patterns of the tail watchers to be deleted
    stray,           \* the patterns of tail watchers that nothing refers to
                     \* any more but whose timers run
    m_producer_map,  \* the versions whose codec has a producer: all tail
                     \* watchers share them, and none is ever deleted
    inode,           \* the file at each path
    main,            \* the main thread: in the event loop, hung or crashed
    edits            \* how often the configuration was edited

vars == <<log_config, m_tasks, m_tails, m_tails_deleted, stray, m_producer_map,
          inode, main, edits>>

Pattern == 1..Patterns
Version == 1..Versions
TaskConf == [valid : BOOLEAN, version : Version]

\* A pattern that has no configuration, task or tail watcher, and one that
\* m_tails maps to NULL.
None == [none |-> TRUE]
NULL == [null |-> TRUE]

\* timers: its timer and its stat watcher are running; file: the inode of the
\* file it has open.
NotOpened == 0
TailWatcher == [conf : TaskConf, timers : BOOLEAN,
                file : {NotOpened} \cup 1..(MaxRotations + 1)]

-----------------------------------------------------------------------------
Init ==
    /\ log_config = [p \in Pattern |-> None]
    /\ m_tasks = [p \in Pattern |-> None]
    /\ m_tails = [p \in Pattern |-> None]
    /\ m_tails_deleted = {}
    /\ stray = {}
    /\ m_producer_map = {}
    /\ inode = [p \in Pattern |-> 1]
    /\ main = "loop"
    /\ edits = 0

\* setupWatcher: NULL if the codec has no producer yet and none can be made: it
\* is unknown, or the list of brokers is empty (failing).  The timers of a tail
\* watcher are started by init, whether it is enabled or not.
setupWatcher(conf, failing) ==
    IF conf.version \in (UnknownCodecs \cup failing) \ m_producer_map
      THEN NULL
      ELSE [conf |-> conf, timers |-> TRUE, file |-> NotOpened]

Keys(map) == {p \in Pattern : map[p] # None}

\* stopWatchers: those whose task was deleted.
MutStopped(tasks) == {}
stopped(tasks) == Keys(m_tails) \ Keys(tasks)

\* startWatchers: in order, up to the first task that is not valid; a task whose
\* tail watcher could not be set up before is among them.
MutStarted(tasks) ==
    LET added == Keys(tasks) \ Keys(m_tasks)
    IN  {p \in added : \A q \in added : q <= p => tasks[q].valid}
started(tasks) ==
    LET added == Keys(tasks) \ Keys(m_tails)
    IN  {p \in added : \A q \in added : q <= p => tasks[q].valid}

\* A tail watcher that could not be set up is not entered into m_tails.
MutStartWatcher(conf, failing) == setupWatcher(conf, failing)
startWatcher(conf, failing) ==
    IF setupWatcher(conf, failing) = NULL THEN None ELSE setupWatcher(conf, failing)

otherConf(p, conf) == m_tails[p].conf.version # conf.version
enabled(p, conf) == conf.valid /\ ~m_tails[p].conf.valid

\* setEnabled and TailWatcher::stop(false) or start, which notifies at once.
switched(p, conf) ==
    [conf |-> [m_tails[p].conf EXCEPT !.valid = conf.valid],
     timers |-> conf.valid,
     file |-> IF enabled(p, conf) THEN inode[p] ELSE m_tails[p].file]

\* updateWatchers for one pattern: when another field than valid changed, the
\* tail watcher is closed and replaced.
MutUpdateWatcher(p, conf, failing) ==
    IF m_tails[p].conf.valid # conf.valid
      THEN switched(p, conf) ELSE m_tails[p]
updateWatcher(p, conf, failing) ==
    IF otherConf(p, conf) THEN setupWatcher(conf, failing)
    ELSE IF m_tails[p].conf.valid # conf.valid THEN switched(p, conf)
    ELSE m_tails[p]

\* What is then started or stopped is the tail watcher that was there before,
\* also when it was closed and replaced.
strays(p, conf) == otherConf(p, conf) /\ enabled(p, conf)

\* When the file of a tail watcher that is started was rotated, updateWatcher-
\* Rotate takes m_tail_watchers_mutex, which refreshWatchers holds.
rotated(p) == m_tails[p].file \notin {NotOpened, inode[p]}

locksTwice(p, conf) ==
    ~otherConf(p, conf) /\ enabled(p, conf) /\ rotated(p)

\* updateTaskPaths and stopWatchers dereference what m_tails holds.
readsNULL == \E p \in Pattern : m_tails[p] = NULL

keeped == Keys(m_tails) \cap Keys(log_config)
hangs == ~readsNULL /\ \E p \in keeped : locksTwice(p, log_config[p])

\* The patterns for which this refresh calls setupWatcher.
setUp == started(log_config) \cup {p \in keeped : otherConf(p, log_config[p])}

\* Tasks and then tail watchers are deleted, added, updated.
refreshAll(failing) ==
    /\ m_tasks' = log_config
    /\ m_tails_deleted' = {}
    /\ m_tails' = [p \in Pattern |->
           CASE p \in stopped(log_config) -> None
             [] p \in started(log_config) -> startWatcher(log_config[p], failing)
             [] p \in keeped -> updateWatcher(p, log_config[p], failing)
             [] OTHER -> m_tails[p]]
    /\ stray' = stray \cup {p \in keeped : strays(p, log_config[p])}
    /\ m_producer_map' = m_producer_map \cup
           ({log_config[p].version : p \in setUp} \ (UnknownCodecs \cup failing))

\* Without the fault no changed task is left without its producer.
keptSetUp(failing) ==
    \A p \in keeped :
        m_tails[p] # NULL /\ otherConf(p, log_config[p])
            => log_config[p].version \notin failing \ m_producer_map

\* refreshWatchers, when producers for the codecs of failing cannot be made (the
\* brokers are not known).  If it does not return, what it did before is not
\* followed up.  If refreshTaskConfs cannot parse what it gets, it returns at
\* once and changes nothing.
RefreshWith(failing) ==
    /\ main = "loop"
    /\ "codec" \in Faults \/ keptSetUp(failing)
    /\ main' = CASE readsNULL -> "crashed" [] hangs -> "hung" [] OTHER -> "loop"
    /\ IF main' = "loop"
         THEN refreshAll(failing)
         ELSE UNCHANGED <<m_tasks, m_tails, m_tails_deleted, stray, m_producer_map>>
    /\ UNCHANGED <<log_config, inode, edits>>

Refresh == \E failing \in SUBSET Version : RefreshWith(failing)

\* A tail watcher is notified by its timer or its stat watcher.
notified(p) ==
    /\ main = "loop"
    /\ m_tails[p] \notin {None, NULL}
    /\ m_tails[p].timers

\* The rotate handler opens the file.
OpenFile(p) ==
    /\ notified(p)
    /\ m_tails[p].file = NotOpened
    /\ m_tails' = [m_tails EXCEPT ![p].file = inode[p]]
    /\ UNCHANGED <<log_config, m_tasks, m_tails_deleted, stray, m_producer_map,
                   inode, main, edits>>

\* updateWatcherRotate looks the tail watcher up by its path, in a map that is
\* keyed by the pattern, and uses what it finds without a check.
foundByPath(p) == ~("dated" \in Faults /\ p = Patterns)

\* It finds another file, and the old one is not active any more:
\* updateWatcherRotate sets a new tail watcher up with the same configuration
\* and keeps the old one, whose callback this is, for the next refresh.  It
\* needs no brokers, since the codec has its producer already.
RotateFile(p) ==
    /\ notified(p)
    /\ rotated(p)
    /\ IF foundByPath(p)
         THEN /\ m_tails' = [m_tails EXCEPT ![p] = setupWatcher(m_tails[p].conf, Version)]
              /\ m_tails_deleted' = m_tails_deleted \cup {p}
              /\ UNCHANGED main
         ELSE main' = "crashed" /\ UNCHANGED <<m_tails, m_tails_deleted>>
    /\ UNCHANGED <<log_config, m_tasks, stray, m_producer_map, inode, edits>>

-----------------------------------------------------------------------------
\* A new configuration of a pattern, next to what its tail watcher has.
permitted(p, new) ==
    /\ new # None /\ m_tails[p] = None =>
           new.valid \/ "invalid" \in Faults
    /\ new # None /\ m_tails[p] \notin {None, NULL} /\ otherConf(p, new) =>
           /\ (new.valid /\ m_tails[p].conf.valid) \/ "mixed" \in Faults
           /\ new.version \notin UnknownCodecs \/ "codec" \in Faults
    /\ new # None /\ m_tails[p] \notin {None, NULL} =>
           ~enabled(p, new) \/ ~rotated(p) \/ "away" \in Faults

\* The configuration in ZooKeeper is edited (tools/log_config.php), and the
\* watch of the znode brings it here.
Edit ==
    /\ edits < MaxEdits
    /\ edits' = edits + 1
    /\ \E p \in Pattern, c \in TaskConf \cup {None} :
         /\ c # log_config[p]
         /\ permitted(p, c)
         /\ log_config' = [log_config EXCEPT ![p] = c]
    /\ UNCHANGED <<m_tasks, m_tails, m_tails_deleted, stray, m_producer_map, inode,
                   main>>

disabled(p) == m_tails[p] \notin {None, NULL} /\ ~m_tails[p].timers

\* Another file takes the place of the one at the path.
Rotate ==
    \E p \in Pattern :
        /\ inode[p] <= MaxRotations
        /\ disabled(p) => "away" \in Faults
        /\ inode' = [inode EXCEPT ![p] = @ + 1]
        /\ UNCHANGED <<log_config, m_tasks, m_tails, m_tails_deleted, stray,
                       m_producer_map, main, edits>>

Next ==
    \/ Refresh
    \/ \E p \in Pattern : OpenFile(p) \/ RotateFile(p)
    \/ Edit \/ Rotate

Spec == Init /\ [][Next]_vars

\* The timer of the loop calls refreshWatchers for ever, and sometimes when the
\* brokers are known.
FairSpec == Spec /\ WF_vars(RefreshWith({}))
-----------------------------------------------------------------------------
\* The type invariant; a tail watcher always has a task (updateWatcherRotate
\* dereferences m_tasks[path_pattern]).
TypeOK ==
    /\ log_config \in [Pattern -> TaskConf \cup {None}]
    /\ m_tasks \in [Pattern -> TaskConf \cup {None}]
    /\ m_tails \in [Pattern -> TailWatcher \cup {None, NULL}]
    /\ Keys(m_tails) \subseteq Keys(m_tasks)
    /\ m_tails_deleted \subseteq Pattern
    /\ stray \subseteq Pattern
    /\ m_producer_map \subseteq Version \ UnknownCodecs
    /\ inode \in [Pattern -> 1..(MaxRotations + 1)]
    /\ main \in {"loop", "hung", "crashed"}
    /\ edits \in 0..MaxEdits

Running(p) == m_tails[p] \notin {None, NULL} /\ m_tails[p].timers

Wanted(p) ==
    /\ m_tasks[p] # None
    /\ m_tasks[p].valid
    /\ m_tasks[p].version \in m_producer_map

\* After any sequence of edits, refreshes and rotations the tail watchers that
\* run are those of the valid tasks whose codec has a producer, with the
\* configuration of the task: none is left over, left out or left with an old
\* one (refreshTasks, startWatchers, stopWatchers, updateWatchers,
\* updateWatcherRotate).
Applied ==
    main = "loop" =>
        \A p \in Pattern :
            /\ Running(p) <=> Wanted(p)
            /\ Running(p) => m_tails[p].conf = m_tasks[p]

\* The main thread neither waits for a mutex that it holds itself nor uses a
\* tail watcher that is NULL (refreshWatchers, updateWatcherRotate).
Alive == main = "loop"

InEffect(p) ==
    LET conf == log_config[p]
    IN  IF conf # None /\ conf.valid /\ conf.version \notin UnknownCodecs
          THEN Running(p) /\ m_tails[p].conf = conf
          ELSE ~Running(p)

\* Once the configuration is left alone it takes effect: every task that is
\* valid comes to be collected as it says, also one whose tail watcher could
\* not be set up at first, and no other is (refreshWatchers, startWatchers).
ConfigTakesEffect == <>[](\A p \in Pattern : InEffect(p))

\* "if false, the log file will not be collected" (task_conf.h, TaskConf): the
\* task has no tail watcher that runs, nor one that was replaced and runs, which
\* opens the next file after a rotation.
InvalidNotCollected ==
    \A p \in Pattern :
        m_tasks[p] # None /\ ~m_tasks[p].valid => ~Running(p) /\ p \notin stray
=============================================================================
