---------------------------- MODULE TailWatcher ----------------------------
(***************************************************************************)
(* Rotation and truncation of a log path without a time format: the        *)
(* RotateHandler and TailWatcher::onNotify, onRotate, with the part of     *)
(* Manager they call back (updateWatcherRotate) and the position entry.    *)
(*                                                                         *)
(* A file is its inode, the lines written to it are numbered in the order  *)
(* they are written, across all files.  Inodes are not used again.  What   *)
(* IOHandler does in one notification is one step here, ReadFile: it hands *)
(* over everything between its position and the end of the file and        *)
(* records the position.                                                   *)
(***************************************************************************)
EXTENDS Integers, Sequences

CONSTANTS MaxFiles, \* bound: files that are created at the path
          MaxLines, \* bound: lines that are written in all
          Faults    \* what may go wrong, a subset of AllFaults

(***************************************************************************)
(* "crash"    the process is killed, at any point                          *)
(* "truncate" the file at the path is truncated (copytruncate)             *)
(* "race"     the file is replaced between stat and the first fopen        *)
(* "unseen"   the file is truncated while the process does not have it     *)
(*            open, or the process is killed before it has read the        *)
(*            truncated file                                               *)
(* "hasty"    the file that is read is renamed, truncated or grows beyond  *)
(*            its old size before the last such change was noticed, or is  *)
(*            truncated between stat and fopen                             *)
(***************************************************************************)
AllFaults == {"crash", "truncate", "race", "unseen", "hasty"}

ASSUME BoundsAssumption ==
    /\ MaxFiles \in Nat \ {0}
    /\ MaxLines \in Nat
    /\ Faults \subseteq AllFaults

VARIABLES
    path_inode, \* the file at the path, or INO_NONE
    winode,     \* the file the writer has open
    data,       \* the lines of each file
    files,      \* how many files were created
    written,    \* how many lines were written
    read_from_head, \* the setting of the task
    entry,      \* the position entry: survives a crash
    pc,         \* where onNotify is
    st,         \* what stat returned in RotateHandler::onNotify
    m_inode, m_fsize, \* the rotate handler
    hinode,     \* the file of m_io_handler, INO_NONE when that is NULL
    fpos,       \* its position
    silent,     \* no I/O for m_stat_silent_max_ms
    got,        \* history: the lines handed over
    twice,      \* history: the lines handed over again
    raced,      \* history: the lines handed over while the rotate handler
                \*          took the file for another one
    gone        \* history: the lines that nobody can read any more

disk    == <<path_inode, winode, data, files, written>>
rotate  == <<m_inode, m_fsize>>
handler == <<hinode, fpos, silent>>
history == <<got, twice, raced, gone>>
vars    == <<disk, read_from_head, entry, pc, st, rotate, handler, history>>

INO_NONE == 0
Inode == 1..MaxFiles

LinesOf(s) == {s[k] : k \in DOMAIN s}

-----------------------------------------------------------------------------
\* startWatchers: an entry without an inode gets that of the file at the path,
\* if there is one, when the task reads from the head.
startedEntry(e, head, inode) ==
    IF head /\ e.inode = INO_NONE THEN [inode |-> inode, pos |-> 0] ELSE e

\* The first start, with or without a file at the path: the tail watcher
\* (TailWatcher::init, RotateHandler::init) has not been notified yet.
Init ==
    /\ files \in {0, 1}
    /\ path_inode = files /\ winode = files
    /\ data = [n \in Inode |-> <<>>]
    /\ written = 0
    /\ read_from_head \in BOOLEAN
    /\ entry = startedEntry([inode |-> INO_NONE, pos |-> 0], read_from_head,
                            path_inode)
    /\ pc = "idle"
    /\ st = [inode |-> INO_NONE, size |-> 0]
    /\ m_inode = INO_NONE /\ m_fsize = -1
    /\ hinode = INO_NONE /\ fpos = 0 /\ silent = FALSE
    /\ got = {} /\ twice = {} /\ raced = {} /\ gone = {}

-----------------------------------------------------------------------------
\* The file changed: another inode, or the same one and smaller than it was.
MutChanged(s) == m_inode # s.inode
changed(s) == m_inode # s.inode \/ s.size < m_fsize

\* RotateHandler::onNotify: stat.
Stat ==
    /\ pc = "idle"
    /\ st' = IF path_inode = INO_NONE
               THEN [inode |-> INO_NONE, size |-> 0]
               ELSE [inode |-> path_inode, size |-> Len(data[path_inode])]
    /\ pc' = IF changed(st') THEN "open" ELSE "io"
    /\ m_fsize' = IF ~changed(st') /\ st'.size > m_fsize
                    THEN st'.size ELSE m_fsize
    /\ UNCHANGED <<disk, read_from_head, entry, m_inode, handler, history>>

\* fopen fails: the path is gone.
OpenFails ==
    /\ pc = "open"
    /\ path_inode = INO_NONE
    /\ pc' = "io"
    /\ UNCHANGED <<disk, read_from_head, entry, st, rotate, handler, history>>

\* The rotate handler takes over what stat said when onRotate succeeds, also
\* when the file opened is another one.
rotateDone ==
    /\ m_inode' = st.inode
    /\ m_fsize' = st.size
    /\ pc' = "io"

\* A file that is the first of its task, which does not read from the head.
skipsHead == entry.inode = INO_NONE /\ ~read_from_head

\* onRotate without a handler: the recorded position if the file is the one
\* in the position entry, the head of the file if not, or its end.
MutStartAtHead == 0
startPos ==
    CASE path_inode = entry.inode -> entry.pos
      [] skipsHead -> Len(data[path_inode])
      [] OTHER -> 0

MutOpened == entry
openedEntry == [inode |-> path_inode, pos |-> startPos]

FirstOpen ==
    /\ pc = "open"
    /\ path_inode # INO_NONE
    /\ hinode = INO_NONE
    /\ hinode' = path_inode
    /\ fpos' = startPos
    /\ silent' = FALSE
    /\ entry' = openedEntry
    /\ rotateDone
    /\ gone' = IF skipsHead THEN gone \cup LinesOf(data[path_inode]) ELSE gone
    /\ UNCHANGED <<disk, read_from_head, st, got, twice, raced>>

\* onRotate on the file that is being read: it was truncated, or is not the
\* one the last stat saw.  The size is recorded as the position, and a new
\* handler begins at the head.
MutHead == Len(data[path_inode])
head == 0

Truncated ==
    /\ pc = "open"
    /\ path_inode = entry.inode
    /\ hinode # INO_NONE
    /\ hinode' = path_inode
    /\ fpos' = head
    /\ silent' = FALSE
    /\ entry' = [entry EXCEPT !.pos = Len(data[path_inode])]
    /\ rotateDone
    /\ UNCHANGED <<disk, read_from_head, st, history>>

isActive == ~silent

anotherFile ==
    /\ pc = "open"
    /\ path_inode \notin {INO_NONE, entry.inode}
    /\ hinode # INO_NONE

\* updateWatcherRotate gives up while the old file is active.
StillActive ==
    /\ anotherFile
    /\ isActive
    /\ pc' = "io"
    /\ UNCHANGED <<disk, read_from_head, entry, st, rotate, handler, history>>

\* What IOHandler::onNotify hands over.
unreadLines == {data[hinode][k] : k \in (fpos + 1)..Len(data[hinode])}

handOver ==
    /\ got' = got \cup unreadLines
    /\ twice' = twice \cup (got \cap unreadLines)
    /\ raced' = IF m_inode = hinode THEN raced ELSE raced \cup unreadLines
    /\ UNCHANGED gone

\* closeWatcher(tw, true, false): stop reads the file once more.
MutCloseIO == UNCHANGED history
closeIO == handOver

\* updateWatcherRotate: the old tail watcher is closed, the position set to 0,
\* and a new tail watcher set up, which has not been notified.
Rotated ==
    /\ anotherFile
    /\ ~isActive
    /\ closeIO
    /\ entry' = [entry EXCEPT !.pos = 0]
    /\ hinode' = INO_NONE
    /\ fpos' = 0
    /\ silent' = FALSE
    /\ m_inode' = INO_NONE
    /\ m_fsize' = -1
    /\ pc' = "idle"
    /\ UNCHANGED <<disk, read_from_head, st>>

\* The second half of TailWatcher::onNotify: m_io_handler->onNotify.
ReadFile ==
    /\ pc = "io"
    /\ pc' = "idle"
    /\ IF hinode # INO_NONE /\ fpos < Len(data[hinode])
         THEN /\ handOver
              /\ fpos' = Len(data[hinode])
              /\ entry' = [entry EXCEPT !.pos = fpos']
              /\ silent' = FALSE
         ELSE UNCHANGED <<history, fpos, entry, silent>>
    /\ UNCHANGED <<disk, read_from_head, st, rotate, hinode>>

OnNotify ==
    \/ Stat \/ OpenFails \/ FirstOpen \/ Truncated
    \/ StillActive \/ Rotated \/ ReadFile

-----------------------------------------------------------------------------
\* A file no one will open again: the lines of it that were not handed over
\* are lost ("the uncollected content of .bak will be lost").
abandon(n) == gone' = gone \cup (LinesOf(data[n]) \ got)

\* A truncation that the position entry does not reflect: no notification has
\* seen it yet, or the size was recorded as the position and not yet read to.
truncationOpen ==
    /\ hinode # INO_NONE
    /\ \/ hinode = path_inode /\ hinode = m_inode /\ Len(data[hinode]) < m_fsize
       \/ entry.pos # fpos

\* The process is killed.
Crash ==
    /\ "crash" \in Faults
    /\ pc # "down"
    /\ truncationOpen => "unseen" \in Faults
    /\ pc' = "down"
    /\ st' = [inode |-> INO_NONE, size |-> 0]
    /\ m_inode' = INO_NONE /\ m_fsize' = -1
    /\ hinode' = INO_NONE /\ fpos' = 0 /\ silent' = FALSE
    /\ IF hinode \notin {INO_NONE, path_inode}
         THEN abandon(hinode) ELSE UNCHANGED gone
    /\ UNCHANGED <<disk, read_from_head, entry, got, twice, raced>>

\* It is started again: a new tail watcher for the same entry.
Restart ==
    /\ pc = "down"
    /\ pc' = "idle"
    /\ entry' = startedEntry(entry, read_from_head, path_inode)
    /\ UNCHANGED <<disk, read_from_head, st, rotate, handler, history>>

\* A notification has seen the last change of the file at the path, and the
\* handler has read as much of it as the rotate handler knows of.
noticed ==
    /\ hinode = path_inode
    /\ m_inode = path_inode
    /\ m_fsize = fpos
    /\ m_fsize <= Len(data[path_inode])

\* When the file may be renamed or truncated: while it is not open at all, or
\* when the last change of it was noticed.
calm ==
    \/ hinode = INO_NONE /\ pc # "open"
    \/ noticed
    \/ "hasty" \in Faults

\* stat was called, and the file is not open yet.
betweenStatAndOpen == hinode = INO_NONE /\ pc = "open"

\* The writer appends a line to the file it has open.
Write ==
    /\ written < MaxLines
    /\ winode # INO_NONE
    /\ \/ "hasty" \in Faults
       \/ winode # m_inode
       \/ Len(data[winode]) >= m_fsize \/ Len(data[winode]) + 1 < m_fsize
    /\ written' = written + 1
    /\ data' = [data EXCEPT ![winode] = Append(@, written')]
    /\ gone' = IF winode \in {path_inode, hinode}
                 THEN gone ELSE gone \cup {written'}
    /\ UNCHANGED <<path_inode, winode, files, read_from_head, entry, pc, st,
                   rotate, handler, got, twice, raced>>

\* logrotate renames the file...
Rename ==
    /\ path_inode # INO_NONE
    /\ files < MaxFiles
    /\ calm \/ ("race" \in Faults /\ betweenStatAndOpen)
    /\ path_inode' = INO_NONE
    /\ IF hinode # path_inode THEN abandon(path_inode) ELSE UNCHANGED gone
    /\ UNCHANGED <<winode, data, files, written, read_from_head, entry, pc,
                   st, rotate, handler, got, twice, raced>>

\* ...and creates a new one...
Create ==
    /\ path_inode = INO_NONE
    /\ files' = files + 1
    /\ path_inode' = files'
    /\ UNCHANGED <<winode, data, written, read_from_head, entry, pc, st, rotate,
                   handler, history>>

\* ...which the writer turns to, sooner or later.
Reopen ==
    /\ path_inode \notin {INO_NONE, winode}
    /\ winode' = path_inode
    /\ UNCHANGED <<path_inode, data, files, written, read_from_head, entry, pc,
                   st, rotate, handler, history>>

Truncate ==
    /\ "truncate" \in Faults
    /\ path_inode # INO_NONE
    /\ data[path_inode] # <<>>
    /\ calm
    /\ hinode = INO_NONE => "unseen" \in Faults
    /\ abandon(path_inode)
    /\ data' = [data EXCEPT ![path_inode] = <<>>]
    /\ UNCHANGED <<path_inode, winode, files, written, read_from_head, entry,
                   pc, st, rotate, handler, got, twice, raced>>

\* m_stat_silent_max_ms pass without I/O.
GoSilent ==
    /\ pc = "idle"
    /\ hinode # INO_NONE
    /\ ~silent
    /\ silent' = TRUE
    /\ UNCHANGED <<disk, read_from_head, entry, pc, st, rotate, hinode, fpos,
                   history>>

Next ==
    \/ OnNotify \/ Crash \/ Restart \/ GoSilent
    \/ Write \/ Rename \/ Create \/ Reopen \/ Truncate

Spec == Init /\ [][Next]_vars

\* The timer and the stat watcher fire, a process that was killed is started
\* again, the writer creates the next file, and time passes for a file that is
\* no longer written to.
Fairness ==
    /\ WF_vars(OnNotify)
    /\ WF_vars(Restart)
    /\ WF_vars(Create)
    /\ SF_vars(GoSilent)

FairSpec == Spec /\ Fairness
-----------------------------------------------------------------------------
\* The type invariant; a handler never reads a file other than the one its
\* position entry names.
TypeOK ==
    /\ path_inode \in Inode \cup {INO_NONE}
    /\ winode \in Inode \cup {INO_NONE}
    /\ data \in [Inode -> Seq(1..MaxLines)]
    /\ files \in 0..MaxFiles
    /\ written \in 0..MaxLines
    /\ read_from_head \in BOOLEAN
    /\ entry \in [inode : Inode \cup {INO_NONE}, pos : 0..MaxLines]
    /\ pc \in {"idle", "open", "io", "down"}
    /\ st \in [inode : Inode \cup {INO_NONE}, size : 0..MaxLines]
    /\ m_inode \in Inode \cup {INO_NONE}
    /\ m_fsize \in -1..MaxLines
    /\ hinode \in {INO_NONE, entry.inode}
    /\ fpos \in 0..MaxLines
    /\ silent \in BOOLEAN
    /\ got \subseteq 1..MaxLines
    /\ twice \subseteq got
    /\ raced \subseteq got
    /\ gone \subseteq 1..MaxLines

\* Where the reader of file n continues: a truncation that no notification
\* has seen yet takes it back to the head, and so does a rotate handler that
\* knows of another file.
resumesAt(n) ==
    IF hinode = n
      THEN IF n = path_inode /\ (m_inode # n \/ Len(data[n]) < m_fsize)
             THEN 0 ELSE fpos
      ELSE IF hinode = INO_NONE /\ entry.inode = n THEN entry.pos ELSE 0

\* The lines that are still to be handed over.
ahead ==
    UNION {{data[n][k] : k \in (resumesAt(n) + 1)..Len(data[n])} :
             n \in {path_inode, hinode} \ {INO_NONE}}

\* "original log path will be reopened until .bak was totally collected": no
\* line is passed over when the file is renamed, created anew, truncated, or
\* the process restarted.  Lines are excused only where the documentation says
\* so, when a renamed file is no longer open, when they were truncated, and
\* when they were in the first file of a task that does not read from the head
\* (RotateHandler::onNotify, onRotate, updateWatcherRotate).
NothingMissed == 1..written \subseteq got \cup gone \cup ahead

\* No line is handed over twice: a new handler on a rotated, truncated or
\* reopened file never begins before what was read already.  When the file is
\* replaced between stat and the first fopen (rotate_handler.cc:61, :72), the
\* rotate handler keeps the inode of the file before and the next notification
\* takes the new file for a truncated one: only the lines that the first
\* notification read of it are handed over again.
NothingTwice == twice \subseteq raced

\* A file is left only when all of it was handed over (closeWatcher in
\* updateWatcherRotate, manager.cc), unless the process is killed.
LeftWhenCollected ==
    [][hinode # INO_NONE /\ hinode' # hinode /\ pc' # "down" =>
           LinesOf(data[hinode]) \subseteq got' \cup gone']_vars

\* Unless the process is killed again and again, every line is handed over in
\* the end or is gone: giving up a rotation while the old file is active does
\* not keep the new file waiting for ever (manager.cc:770).
EveryLineArrives ==
    <>[](pc # "down") =>
        \A n \in 1..MaxLines : (written >= n) ~> (n \in got \cup gone)

=============================================================================
