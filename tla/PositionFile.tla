---------------------------- MODULE PositionFile ----------------------------
(***************************************************************************)
(* The position file, which all path patterns share: PositionFile and      *)
(* FilePositionEntry, with what Manager and TailWatcher do to the entries. *)
(* Entries are lines that are updated in place.  A path that is no longer  *)
(* watched leaves a marked line behind, a line is torn when the process    *)
(* dies while it is appended, and a restart compacts the file.             *)
(*                                                                         *)
(* A path pattern, and a path, is a number in the order of the names; two  *)
(* patterns may expand to the same path.  Each file is its path's only     *)
(* one (TailWatcher models rotations), and read_from_head is true.  Which  *)
(* path a task has when is TaskPaths' subject: here any later one may      *)
(* follow.  Compacting is one step (TaskPaths lets it be interrupted).     *)
(***************************************************************************)
EXTENDS Integers, SequencesExt, FiniteSetsExt

CONSTANTS Patterns,   \* how many path patterns: 1..Patterns
          Paths,      \* how many paths: 1..Paths
          IntMax,     \* the largest int
          InoLimit,   \* 16^INO_SIZE: what an inode of a line is smaller than
          MaxSize,    \* bound: the size of a file
          MaxTotal,   \* bound: the size of all files together
          MaxLines,   \* bound: lines of the position file
          MaxEnds,    \* bound: how often the process ends
          Faults      \* what may go wrong, a subset of AllFaults

(***************************************************************************)
(* "setup" setupWatcher fails: the producer cannot be initialised          *)
(* "skip"  a task starts with another path than the position file names:   *)
(*         follow_last is off, or the file is gone                         *)
(* "rekey" the configuration and the path of a task change in one refresh  *)
(* "long"  files grow beyond IntMax                                        *)
(* "wide"  inodes are not smaller than InoLimit                            *)
(***************************************************************************)
AllFaults == {"setup", "skip", "rekey", "long", "wide"}

ASSUME PositionFileAssumption ==
    /\ Patterns \in Nat \ {0} /\ Paths \in Nat \ {0}
    /\ IntMax \in Nat /\ InoLimit \in Nat /\ InoLimit > Paths
    /\ MaxSize \in Nat \ {0} /\ MaxTotal \in Nat /\ MaxLines \in Nat /\ MaxEnds \in Nat
    /\ Faults \subseteq AllFaults

Pattern == 1..Patterns
Path == 1..Paths
Key == Pattern \X Path
UNWATCHED_POSITION == -1
INO_NONE == 0

\* A line, one that was not written to its end, and no line at all.
Line == [pattern : Pattern, path : Path,
         pos : {UNWATCHED_POSITION} \cup (0..MaxSize), inode : 0..(InoLimit - 1)]
Torn == [torn |-> TRUE]
None == [none |-> TRUE]

VARIABLES
    up,       \* the process runs
    disk,     \* the lines of the position file
    m_pe_map, \* the line of each entry, by pattern and path
    path,     \* the path of each task, or NoPath if there is no task
    tails,    \* the tail watcher of each pattern, or None
    size,     \* the size of the file at each path, 0 if there is none
    ends,     \* how often the process has ended
    said,     \* history: what was recorded last for each pattern, or None
    odd       \* history: the patterns that left a line behind that is watched

vars == <<up, disk, m_pe_map, path, tails, size, ends, said, odd>>

NoPath == 0

\* entry: m_position_entry, a line of the file; open: m_io_handler # NULL.
TailWatcher == [path : Path, entry : 1..MaxLines, open : BOOLEAN,
                fpos : Int]

Init ==
    /\ up = TRUE
    /\ disk = <<>>
    /\ m_pe_map = [k \in {} |-> 0]
    /\ path = [p \in Pattern |-> NoPath]
    /\ tails = [p \in Pattern |-> None]
    /\ size = [q \in Path |-> 0]
    /\ ends = 0
    /\ said = [p \in Pattern |-> None]
    /\ odd = {}

-----------------------------------------------------------------------------
\* The inode of the file at a path.
inode(q) ==
    IF size[q] = 0 THEN INO_NONE
    ELSE IF "wide" \in Faults THEN q + InoLimit ELSE q

\* FilePositionEntry::update: the inode is printed as an unsigned int.
\* updatePos leaves it.
update(d, e, ino, pos) == [d EXCEPT ![e].inode = ino % InoLimit, ![e].pos = pos]
updatePos(d, e, pos) == [d EXCEPT ![e].pos = pos]

\* PositionFile::operator[]: the line of an entry, appended if there is none.
MutLine(p, q) ==
    LET old == {k \in DOMAIN m_pe_map : k[2] = q}
    IN  IF old # {} THEN m_pe_map[CHOOSE k \in old : TRUE] ELSE Len(disk) + 1
line(p, q) ==
    IF <<p, q>> \in DOMAIN m_pe_map THEN m_pe_map[<<p, q>>] ELSE Len(disk) + 1

appended(p, q) ==
    IF line(p, q) \in DOMAIN disk THEN disk
    ELSE Append(disk, [pattern |-> p, path |-> q, pos |-> 0, inode |-> INO_NONE])

entered(p, q) ==
    [k \in DOMAIN m_pe_map \cup {<<p, q>>} |->
        IF k = <<p, q>> THEN line(p, q) ELSE m_pe_map[k]]

removed(k) == [j \in DOMAIN m_pe_map \ {k} |-> m_pe_map[j]]

\* PositionFile::getPath.
lastPaths(p) == {k[2] : k \in {j \in DOMAIN m_pe_map : j[1] = p}}

\* updateTaskPaths: the path of a task that has no tail watcher.
taskPath(p, q) ==
    \/ path[p] # NoPath /\ q = path[p]
    \/ path[p] = NoPath /\ lastPaths(p) = {}
    \/ path[p] = NoPath /\ lastPaths(p) # {} /\ q = Max(lastPaths(p))
    \/ "skip" \in Faults /\ lastPaths(p) # {} /\ q > Max(lastPaths(p))

\* startWatchers: the entry of the path gets the inode of the file if it has
\* none; then setupWatcher.
StartWatcher(p, q) ==
    /\ up
    /\ tails[p] = None
    /\ taskPath(p, q)
    /\ line(p, q) <= MaxLines
    /\ LET e == line(p, q)
           d == appended(p, q)
           new == said[p] = None \/ said[p].path # q
       IN  /\ disk' = IF d[e].inode = INO_NONE
                        THEN update(d, e, inode(q), 0) ELSE d
           /\ m_pe_map' = entered(p, q)
           /\ said' = IF new \/ said[p].inode = INO_NONE
                        THEN [said EXCEPT ![p] = [pattern |-> p, path |-> q,
                                                  pos |-> 0, inode |-> inode(q)]]
                        ELSE said
           /\ \/ tails' = [tails EXCEPT ![p] = [path |-> q, entry |-> e,
                                                open |-> FALSE, fpos |-> 0]]
              \/ "setup" \in Faults /\ UNCHANGED tails
    /\ path' = [path EXCEPT ![p] = q]
    /\ UNCHANGED <<up, size, ends, odd>>

\* The recorded position goes through an int.
toInt(pos) == ((pos + IntMax + 1) % (2 * (IntMax + 1))) - (IntMax + 1)

\* TailWatcher::onRotate, without a handler.
MutOpenPos(p) == 0
openPos(p) ==
    IF disk[tails[p].entry].inode = inode(tails[p].path)
      THEN toInt(disk[tails[p].entry].pos) ELSE 0

Open(p) ==
    /\ up
    /\ tails[p] # None
    /\ ~tails[p].open
    /\ LET q == tails[p].path
           e == tails[p].entry
       IN  /\ size[q] > 0
           /\ tails' = [tails EXCEPT ![p].open = TRUE, ![p].fpos = openPos(p)]
           /\ IF disk[e].inode = inode(q)
                THEN UNCHANGED <<disk, said>>
                ELSE /\ disk' = update(disk, e, inode(q), 0)
                     /\ said' = [said EXCEPT ![p].inode = inode(q), ![p].pos = 0]
    /\ UNCHANGED <<up, m_pe_map, path, size, ends, odd>>

\* IOHandler::onNotify, all there is.
recorded(d, p) ==
    IF tails[p].open THEN updatePos(d, tails[p].entry, size[tails[p].path]) ELSE d
saidOf(p) ==
    IF tails[p].open THEN [said[p] EXCEPT !.pos = size[tails[p].path]] ELSE said[p]

Notify(p) ==
    /\ up
    /\ tails[p] # None
    /\ tails[p].open
    /\ tails' = [tails EXCEPT ![p].fpos = size[tails[p].path]]
    /\ disk' = recorded(disk, p)
    /\ said' = [said EXCEPT ![p] = saidOf(p)]
    /\ UNCHANGED <<up, m_pe_map, path, size, ends, odd>>

\* The lines of a pattern that a restart will read as watched.
watched(d, p) ==
    {k \in DOMAIN d : d[k] # Torn /\ d[k].pattern = p /\ d[k].pos # UNWATCHED_POSITION}

\* stopWatchers and closeWatcher when the path of a task changes, or the task
\* is deleted (next = NoPath): a last read, then the entry of the pattern and
\* the path of the tail watcher is marked and removed.
unwatched(d, e) == updatePos(d, e, UNWATCHED_POSITION)

StopWatcher(p, next) ==
    /\ up
    /\ tails[p] # None
    /\ next = NoPath \/ next > tails[p].path
    /\ LET q == tails[p].path
           e == line(p, q)
       IN  /\ e <= MaxLines
           /\ disk' = unwatched(recorded(appended(p, q), p), e)
           /\ m_pe_map' = removed(<<p, q>>)
    /\ tails' = [tails EXCEPT ![p] = None]
    /\ path' = [path EXCEPT ![p] = next]
    /\ said' = [said EXCEPT ![p] = None]
    /\ odd' = IF watched(disk', p) # {} THEN odd \cup {p} ELSE odd
    /\ UNCHANGED <<up, size, ends>>

\* deleteTasks, for a task whose tail watcher could not be set up.
DeleteTask(p) ==
    /\ up
    /\ tails[p] = None
    /\ path[p] # NoPath
    /\ path' = [path EXCEPT ![p] = NoPath]
    /\ UNCHANGED <<up, disk, m_pe_map, tails, size, ends, said, odd>>

\* updateWatchers, for another configuration: the old tail watcher is closed
\* and the new one gets the entry of the old one's path.
Reconfigure(p, q) ==
    /\ up
    /\ tails[p] # None
    /\ q = tails[p].path \/ ("rekey" \in Faults /\ q > tails[p].path)
    /\ LET e == line(p, tails[p].path)
       IN  /\ e <= MaxLines
           /\ disk' = recorded(appended(p, tails[p].path), p)
           /\ m_pe_map' = entered(p, tails[p].path)
           /\ tails' = [tails EXCEPT ![p] = [path |-> q, entry |-> e,
                                             open |-> FALSE, fpos |-> 0]]
    /\ path' = [path EXCEPT ![p] = q]
    /\ said' = [said EXCEPT ![p] = saidOf(p)]
    /\ odd' = IF q # tails[p].path THEN odd \cup {p} ELSE odd
    /\ UNCHANGED <<up, size, ends>>

-----------------------------------------------------------------------------
\* What is in memory is gone.
forget ==
    /\ up
    /\ ends < MaxEnds
    /\ ends' = ends + 1
    /\ up' = FALSE
    /\ m_pe_map' = [k \in {} |-> 0]
    /\ path' = [p \in Pattern |-> NoPath]
    /\ tails' = [p \in Pattern |-> None]
    /\ UNCHANGED <<size, odd>>

\* Manager::stop: stopWatchers(all, true, false); each tail watcher has an entry
\* of its own.
Stop ==
    /\ forget
    /\ disk' = [e \in DOMAIN disk |->
                   LET own == {p \in Pattern : tails[p] # None /\ tails[p].entry = e}
                   IN  IF own = {} THEN disk[e]
                       ELSE recorded(disk, CHOOSE p \in own : TRUE)[e]]
    /\ said' = [p \in Pattern |-> IF tails[p] = None THEN said[p] ELSE saidOf(p)]

\* The process is killed between two steps, or while operator[] appends.
Crash ==
    /\ forget
    /\ disk' \in {disk, Append(disk, Torn)}
    /\ UNCHANGED said

\* compact: the last line of each pattern that is watched.
MutSurvivor(p) == disk[Min(watched(disk, p))]
survivor(p) == disk[Max(watched(disk, p))]

\* Manager::start: compact writes the lines back in the order of the patterns,
\* and parse makes an entry for each.
inOrder(S) == {s \in [1..Cardinality(S) -> S] :
                  Range(s) = S /\ \A i, j \in DOMAIN s : i < j => s[i] < s[j]}

Restart ==
    /\ ~up
    /\ up' = TRUE
    /\ \E kept \in inOrder({p \in Pattern : watched(disk, p) # {}}) :
         /\ disk' = [i \in DOMAIN kept |-> survivor(kept[i])]
         /\ m_pe_map' = [k \in {<<disk'[i].pattern, disk'[i].path>> : i \in DOMAIN disk'}
                           |-> CHOOSE i \in DOMAIN disk' : disk'[i].pattern = k[1]]
    /\ UNCHANGED <<path, tails, size, ends, said, odd>>

\* A file is created or grows.
Grow(q) ==
    /\ size[q] < MaxSize /\ MapThenSumSet(LAMBDA r : size[r], Path) < MaxTotal
    /\ size[q] < IntMax \/ "long" \in Faults
    /\ size' = [size EXCEPT ![q] = @ + 1]
    /\ UNCHANGED <<up, disk, m_pe_map, path, tails, ends, said, odd>>

Next ==
    \/ \E p \in Pattern :
         \/ \E q \in Path : StartWatcher(p, q) \/ Reconfigure(p, q)
         \/ \E next \in Path \cup {NoPath} : StopWatcher(p, next)
         \/ Open(p) \/ Notify(p) \/ DeleteTask(p)
    \/ Stop \/ Crash \/ Restart
    \/ \E q \in Path : Grow(q)

Spec == Init /\ [][Next]_vars
-----------------------------------------------------------------------------
\* The type invariant; every entry in m_pe_map is the line of its own pattern
\* and path, so that no two write to the same line, and the entry of a tail
\* watcher is in the map (operator[], parse, remove).
TypeOK ==
    /\ up \in BOOLEAN
    /\ disk \in Seq(Line \cup {Torn}) /\ Len(disk) <= MaxLines + 1
    /\ DOMAIN m_pe_map \subseteq Key
    /\ \A k \in DOMAIN m_pe_map :
          /\ m_pe_map[k] \in DOMAIN disk
          /\ disk[m_pe_map[k]] \in Line
          /\ <<disk[m_pe_map[k]].pattern, disk[m_pe_map[k]].path>> = k
    /\ path \in [Pattern -> Path \cup {NoPath}]
    /\ \A p \in Pattern :
          tails[p] # None =>
              /\ tails[p] \in TailWatcher
              /\ \E k \in DOMAIN m_pe_map :
                    k[1] = p /\ m_pe_map[k] = tails[p].entry
    /\ size \in [Path -> 0..MaxSize]
    /\ ends \in 0..MaxEnds
    /\ odd \subseteq Pattern

\* Whatever is started, stopped, deleted and killed in between, and whatever
\* the other patterns do to the file, the entry of a pattern says what was
\* recorded for it last, also after a restart has compacted the file; and a
\* pattern that is no longer watched has none (compact, parse, operator[],
\* closeWatcher).  A pattern that was started with another path than the file
\* names, or whose entry has passed to another path, may find an older one.
RecordIsFound ==
    up => \A p \in Pattern \ odd :
        IF said[p] = None
          THEN lastPaths(p) = {}
          ELSE /\ said[p].path \in lastPaths(p)
               /\ disk[m_pe_map[<<p, said[p].path>>]] = said[p]

\* A tail watcher goes on reading where the last one of its pattern, which had
\* the same file, has recorded that it stopped, and at the head of any other
\* file (TailWatcher::onRotate, FilePositionEntry::readPos and readInode).
ResumesWhereRecorded ==
    [][\A p \in Pattern \ odd :
           tails[p] # None /\ ~tails[p].open /\ tails'[p] # None /\ tails'[p].open =>
               tails'[p].fpos =
                   IF said[p].inode = inode(tails[p].path) THEN said[p].pos ELSE 0]_vars
=============================================================================
