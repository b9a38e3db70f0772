----------------------------- MODULE TaskPaths -----------------------------
(***************************************************************************)
(* How the files of one path pattern with a time format, one file for each *)
(* period, are collected one after the other and across restarts: Manager  *)
(* (refreshWatchers and what it calls), the path queue of Task, the        *)
(* PositionFile, and of TailWatcher what they depend on.                   *)
(*                                                                         *)
(* A path is the period it is expanded for: paths compare as strings the   *)
(* way periods compare as numbers.  The configuration of the task is valid *)
(* and does not change; follow_last and read_from_head have their defaults *)
(* (true).  What IOHandler does with a file is one step here: everything   *)
(* that is in the file is handed over and the position recorded.           *)
(***************************************************************************)
EXTENDS Integers, SequencesExt, FiniteSetsExt

CONSTANTS PathQueueMaxSize, \* path_queue_max_size
          MaxTime,          \* bound: periods
          MaxSize,          \* bound: lines in a file
          MaxCrashes,       \* bound: how often the process ends
          Faults            \* what may go wrong, a subset of AllFaults

(***************************************************************************)
(* "crash"  the process is killed between two callbacks                    *)
(* "torn"   with "crash": also while a callback or compact runs            *)
(* "stop"   it gets SIGINT                                                 *)
(* "delete" a file of an earlier period is deleted                         *)
(* "setup"  setupWatcher fails: the producer cannot be initialised         *)
(* "late"   a file is created so late in its period that no notification   *)
(*          finds it before the period ends                                *)
(***************************************************************************)
AllFaults == {"crash", "torn", "stop", "delete", "setup", "late"}

ASSUME BoundsAssumption ==
    /\ PathQueueMaxSize \in Nat \ {0}
    /\ MaxTime \in Nat \ {0}
    /\ MaxSize \in Nat
    /\ MaxCrashes \in Nat
    /\ Faults \subseteq AllFaults

VARIABLES
    now,         \* the current period: expandPath(path_pattern)
    exists,      \* the files that exist
    size,        \* the lines that were written to each file
    disk,        \* the lines of the position file, in file order
    kept,        \* existent_entries, while compact runs
    mapped,      \* m_pe_map: the lines of disk that have an entry
    pc,          \* where the process is
    first_update_paths,
    paths,       \* stat.paths, the path queue of the task
    tail,        \* the path of the tail watcher in m_tails, or NoPath
    entry,       \* its position entry: a line of disk
    fresh,       \* its timer, started with timeout 0, has not fired yet
    opened,      \* m_io_handler # NULL
    fpos,        \* how far it has read
    silent,      \* no I/O for m_stat_silent_max_ms
    refreshed,   \* refreshWatchers has run in this period
    crashes,     \* how often the process has ended
    got,         \* history: the lines of each file that were handed over
    twice        \* history: the lines that were handed over again

files    == <<exists, size>>
posfile  == <<disk, kept, mapped>>
task     == <<first_update_paths, paths>>
watcher  == <<tail, entry, fresh, opened, fpos, silent>>
vars     == <<now, files, posfile, pc, task, watcher, refreshed, crashes, got,
              twice>>

Path == 1..MaxTime
NoPath == 0

\* A line of the position file; the inode of a file is its period.
UNWATCHED_POSITION == -1
INO_NONE == 0
Entry == [path : Path, pos : {UNWATCHED_POSITION} \cup (0..MaxSize),
          inode : {INO_NONE} \cup Path]

running == pc \in {"idle", "stop", "start"}

-----------------------------------------------------------------------------
\* The process was started for the first time and has run refreshWatchers.
Init ==
    /\ now = 1
    /\ exists = {}
    /\ size = [p \in Path |-> 0]
    /\ disk = <<[path |-> 1, pos |-> 0, inode |-> INO_NONE]>>
    /\ kept = <<>>
    /\ mapped = {1}
    /\ pc = "idle"
    /\ first_update_paths = FALSE
    /\ paths = <<1>>
    /\ tail = 1 /\ entry = 1
    /\ fresh = TRUE /\ opened = FALSE /\ fpos = 0 /\ silent = FALSE
    /\ refreshed = TRUE
    /\ crashes = 0
    /\ got = [p \in Path |-> {}]
    /\ twice = {}

-----------------------------------------------------------------------------
\* Task::addPath.
MutAddPath(q, p) == IF q = <<>> \/ p # Last(q) THEN Append(q, p) ELSE q
addPath(q, p) ==
    IF q = <<>> \/ (p # Last(q) /\ Len(q) < PathQueueMaxSize)
      THEN Append(q, p)
      ELSE q

\* PositionFile::getPath: the largest path that has an entry.
lastPaths == {disk[k].path : k \in mapped}

\* The files that glob finds between the last path and the current one.
MutGlobed(last) == {p \in exists : p < now}
globed(last) == {p \in exists : last < p /\ p < now}

\* The first update adds the last path of the position file and the files
\* that came after it, as glob sorts them; the queue takes them up to its limit.
inOrder(S) == {s \in [1..Cardinality(S) -> S] :
                  Range(s) = S /\ \A i, j \in DOMAIN s : i < j => s[i] < s[j]}

newer ==
    IF first_update_paths /\ lastPaths # {} THEN globed(Max(lastPaths)) ELSE {}

firstPaths(sorted) ==
    IF first_update_paths /\ lastPaths # {}
      THEN LET q == addPath(paths, Max(lastPaths))
               room == PathQueueMaxSize - Len(q)
           IN  q \o SubSeq(sorted, 1, IF Len(sorted) < room THEN Len(sorted) ELSE room)
      ELSE paths

MutIsActive == opened
isActive == opened /\ ~silent

\* A path the queue is done with: its watcher is inactive, or it is not the
\* one that is watched and has no file, and will not get one.
MutExpired(p) == IF p = tail THEN ~isActive ELSE p < now
expired(p) == IF p = tail THEN ~isActive ELSE p \notin exists /\ p < now

removeExpired(q) ==
    LET done == {k \in 0..Len(q) : \A j \in 1..k : expired(q[j])}
    IN  SubSeq(q, Max(done) + 1, Len(q))

\* refreshWatchers: refreshTasks updates the paths of the task, then its tail
\* watcher is started if there is none, and replaced when the path changed.
\* The timer of a tail watcher is due before the next refresh (libuv fires
\* timers in the order in which they are due).
Refresh ==
    /\ pc = "idle"
    /\ ~fresh
    /\ \E sorted \in inOrder(newer) :
         paths' = addPath(removeExpired(firstPaths(sorted)), now)
    /\ first_update_paths' = FALSE
    /\ refreshed' = TRUE
    /\ pc' = IF tail = NoPath THEN "start"
             ELSE IF paths'[1] # tail THEN "stop" ELSE "idle"
    /\ UNCHANGED <<now, files, posfile, watcher, crashes, got, twice>>

\* IOHandler::onNotify from an offset: what is there is handed over, and the
\* position recorded in the entry of the watcher.
read(from) ==
    LET lines == (from + 1)..size[tail]
    IN  /\ got' = [got EXCEPT ![tail] = @ \cup lines]
        /\ twice' = twice \cup ({tail} \X (lines \cap got[tail]))

\* FilePositionEntry::update and updatePos, on the lines of a position file.
update(d, e, ino, pos) == [d EXCEPT ![e].inode = ino, ![e].pos = pos]
updatePos(d, e, pos) == [d EXCEPT ![e].pos = pos]

\* stopWatchers(deleted, true, true): a last read, if the file was ever
\* opened, the position marked as unwatched and the entry removed.
MutCloseIO == UNCHANGED <<got, twice>>
closeIO == IF opened THEN read(fpos) ELSE UNCHANGED <<got, twice>>

StopWatcher ==
    /\ pc = "stop"
    /\ closeIO
    /\ disk' = updatePos(disk, entry, UNWATCHED_POSITION)
    /\ mapped' = mapped \ {entry}
    /\ tail' = NoPath
    /\ opened' = FALSE
    /\ pc' = "start"
    /\ UNCHANGED <<now, files, kept, task, entry, fresh, fpos, silent,
                   refreshed, crashes>>

inode(p) == IF p \in exists THEN p ELSE INO_NONE

\* PositionFile::operator[]: the line of the entry of a path; if it has none
\* one is appended, with position and inode 0.
line(p) ==
    LET old == {k \in mapped : disk[k].path = p}
    IN  IF old # {} THEN Max(old) ELSE Len(disk) + 1
appended(p) ==
    IF line(p) \in DOMAIN disk
      THEN disk ELSE Append(disk, [path |-> p, pos |-> 0, inode |-> INO_NONE])

\* startWatchers: the entry of the path gets the inode if it has none; then
\* setupWatcher.
StartWatcher ==
    /\ pc = "start"
    /\ pc' = "idle"
    /\ LET p == Head(paths)
           e == line(p)
           d == appended(p)
       IN  /\ disk' = IF d[e].inode = INO_NONE
                        THEN update(d, e, inode(p), 0) ELSE d
           /\ mapped' = mapped \cup {e}
           /\ \/ /\ tail' = p
                 /\ entry' = e
                 /\ fresh' = TRUE
                 /\ silent' = FALSE
                 /\ UNCHANGED <<opened, fpos>>
              \/ "setup" \in Faults /\ UNCHANGED watcher
    /\ UNCHANGED <<now, files, kept, task, refreshed, crashes, got, twice>>

\* TailWatcher::onRotate, without a handler: where reading begins.
MutOpenPos == 0
openPos == IF disk[entry].inode = tail THEN disk[entry].pos ELSE 0

\* TailWatcher::onNotify: the rotate handler opens the file if it is there,
\* and the I/O handler reads it.
Notify ==
    /\ pc = "idle"
    /\ tail # NoPath
    /\ fresh' = FALSE
    /\ IF opened \/ tail \in exists
         THEN LET from == IF opened THEN fpos ELSE openPos
              IN  /\ read(from)
                  /\ fpos' = size[tail]
                  /\ opened' = TRUE
                  /\ silent' = (silent /\ opened /\ from = size[tail])
                  /\ disk' = update(disk, entry, tail, size[tail])
         ELSE UNCHANGED <<got, twice, fpos, opened, silent, disk>>
    /\ UNCHANGED <<now, files, kept, mapped, pc, task, tail, entry, refreshed,
                   crashes>>

-----------------------------------------------------------------------------
\* What is in memory is gone.
forget ==
    /\ pc' = "down"
    /\ kept' = <<>>
    /\ mapped' = {}
    /\ first_update_paths' = TRUE
    /\ paths' = <<>>
    /\ tail' = NoPath /\ entry' = 0
    /\ fresh' = FALSE /\ opened' = FALSE /\ fpos' = 0 /\ silent' = FALSE
    /\ refreshed' = FALSE
    /\ crashes' = crashes + 1

Crash ==
    /\ crashes < MaxCrashes
    /\ "crash" \in Faults
    /\ pc = "idle" \/ (pc # "down" /\ "torn" \in Faults)
    /\ forget
    /\ UNCHANGED <<now, files, disk, got, twice>>

\* Manager::stop on SIGINT: stopWatchers(all, true, false).
Stop ==
    /\ crashes < MaxCrashes
    /\ "stop" \in Faults
    /\ pc = "idle"
    /\ closeIO
    /\ disk' = IF opened THEN updatePos(disk, entry, size[tail]) ELSE disk
    /\ forget
    /\ UNCHANGED <<now, files>>

\* The line that compact keeps for the pattern: the last one that is watched.
watched == {k \in DOMAIN disk : disk[k].pos # UNWATCHED_POSITION}
survivor == IF watched = {} THEN <<>> ELSE <<disk[Max(watched)]>>

\* Manager::start.  compact reads the position file and truncates it...
Compact ==
    /\ pc = "down"
    /\ kept' = survivor
    /\ disk' = <<>>
    /\ pc' = "rewrite"
    /\ UNCHANGED <<now, files, mapped, task, watcher, refreshed, crashes, got,
                   twice>>

\* ...then writes what it kept back, and parse makes the entries.
Rewrite ==
    /\ pc = "rewrite"
    /\ disk' = kept
    /\ kept' = <<>>
    /\ mapped' = DOMAIN kept
    /\ pc' = "idle"
    /\ UNCHANGED <<now, files, task, watcher, refreshed, crashes, got, twice>>

-----------------------------------------------------------------------------
\* The program that writes the log: a line in the file of the period.
Write ==
    /\ size[now] < MaxSize
    /\ size' = [size EXCEPT ![now] = @ + 1]
    /\ exists' = exists \cup {now}
    /\ UNCHANGED <<now, posfile, pc, task, watcher, refreshed, crashes, got,
                   twice>>

\* Old files are cleaned up.
Delete ==
    /\ "delete" \in Faults
    /\ \E p \in exists :
         /\ p < now
         /\ exists' = exists \ {p}
    /\ UNCHANGED <<now, size, posfile, pc, task, watcher, refreshed, crashes,
                   got, twice>>

\* The next period begins.  A period is longer than the refresh interval, and
\* unless "late" is a fault a file that exists was found by its watcher.
NextPeriod ==
    /\ now < MaxTime
    /\ running => refreshed
    /\ "late" \in Faults \/ (tail = now /\ now \in exists => opened)
    /\ now' = now + 1
    /\ refreshed' = FALSE
    /\ UNCHANGED <<files, posfile, pc, task, watcher, crashes, got, twice>>

\* m_stat_silent_max_ms pass without I/O.
GoSilent ==
    /\ pc = "idle"
    /\ opened
    /\ ~silent
    /\ silent' = TRUE
    /\ UNCHANGED <<now, files, posfile, pc, task, tail, entry, fresh, opened,
                   fpos, refreshed, crashes, got, twice>>

Next ==
    \/ Refresh \/ StopWatcher \/ StartWatcher \/ Notify
    \/ Crash \/ Stop \/ Compact \/ Rewrite
    \/ Write \/ Delete \/ NextPeriod \/ GoSilent

Spec == Init /\ [][Next]_vars

\* The timers fire, callbacks return, a process that ended is started again,
\* the producer can be initialised in the end, and time passes for a file that
\* is no longer written to.
Fairness ==
    /\ WF_vars(Refresh)
    /\ WF_vars(StopWatcher)
    /\ WF_vars(StartWatcher)
    /\ SF_vars(StartWatcher /\ tail' # NoPath)
    /\ WF_vars(Notify)
    /\ WF_vars(Compact)
    /\ WF_vars(Rewrite)
    /\ SF_vars(GoSilent)

FairSpec == Spec /\ Fairness
-----------------------------------------------------------------------------
\* The type invariant; the queue of Task (task_conf.h) never exceeds its limit
\* and is never empty while its watcher is being started.
TypeOK ==
    /\ now \in Path
    /\ exists \subseteq Path
    /\ size \in [Path -> 0..MaxSize]
    /\ disk \in Seq(Entry) /\ kept \in Seq(Entry)
    /\ mapped \subseteq DOMAIN disk
    /\ pc \in {"idle", "stop", "start", "down", "rewrite"}
    /\ first_update_paths \in BOOLEAN
    /\ paths \in Seq(Path) /\ Len(paths) <= PathQueueMaxSize
    /\ pc = "start" => paths # <<>>
    /\ tail \in Path \cup {NoPath}
    /\ tail # NoPath => entry \in mapped
    /\ fresh \in BOOLEAN /\ opened \in BOOLEAN /\ silent \in BOOLEAN
    /\ fpos \in 0..MaxSize
    /\ refreshed \in BOOLEAN
    /\ crashes \in 0..MaxCrashes
    /\ got \in [Path -> SUBSET (1..MaxSize)]
    /\ twice \subseteq Path \X (1..MaxSize)

unread(p) == p \in exists /\ ~((1..size[p]) \subseteq got[p])

\* The files that a start of the process will find again.
recoverable ==
    {p \in Path : \E k \in DOMAIN kept : kept[k].path <= p}
        \cup IF pc = "rewrite" THEN {}
             ELSE {p \in Path : \E k \in watched : disk[k].path <= p}

\* "the log files will be collected chronologically" and, with follow_last, a
\* restart "will send all the messages": a file of an earlier period that has
\* lines nobody has collected is being collected, or waits in the path queue,
\* or will be found again from the position file when the process starts
\* (updateTaskPaths, startWatchers, stopWatchers, PositionFile::compact).
NoFileForgotten ==
    \A p \in Path :
        p < now /\ unread(p) =>
            IF running /\ ~first_update_paths
              THEN p = tail \/ p \in Range(paths)
              ELSE p \in recoverable

\* The queue is in the order of time, and so are the files that are watched:
\* one queued later never comes before one queued earlier, also when the queue
\* is filled from the position file and glob after a restart.
QueueInOrder ==
    /\ \A a, b \in DOMAIN paths : a < b => paths[a] < paths[b]
    /\ paths # <<>> /\ tail # NoPath => tail <= paths[1]

\* No line is handed over a second time when a file is left, found again
\* after a restart, or replaced in the position file.
NothingTwice == twice = {}

\* The chronological order as a step: no line of a file is handed over while
\* an earlier file has lines left that existed before the step.
Chronological ==
    [][\A p \in Path : got'[p] # got[p] =>
           \A q \in Path : q < p => ~unread(q)]_vars

\* Every file that is written is collected, unless it is deleted first: no
\* watcher keeps the queue from moving on.
FilesCollected == \A p \in Path : unread(p) ~> ~unread(p)
=============================================================================
