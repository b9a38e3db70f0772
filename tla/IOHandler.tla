----------------------------- MODULE IOHandler -----------------------------
(***************************************************************************)
(* The collector of one log file: IOHandler (io_handler.cc) with the part  *)
(* of TailWatcher that drives it (the notification timer, stop, isActive)  *)
(* and the position entry it records its progress in.                      *)
(*                                                                         *)
(* A byte is known by its offset in the file, counted from 0, and is a     *)
(* delimiter or not.  A line is the interval of bytes it was cut from.     *)
(* onNotify runs on the event loop; what can happen between two of its     *)
(* steps is an append by the program that writes the log, a crash, and     *)
(* that time passes.                                                       *)
(* Elapsed times are counted in the whole seconds the code compares        *)
(* (tv_sec) and saturate one above the limit they are compared with.       *)
(***************************************************************************)
EXTENDS Integers, Sequences

CONSTANTS MaxLineAtOnce,  \* m_max_line_at_once: the batchsize of the task
          LineMaxBytes,   \* m_line_max_bytes
          BufferMaxBytes, \* m_buffer_max_bytes: read.max.bytes
          StuckMax,       \* m_buffer_stuck_max_ms, in seconds
          SilentMax,      \* m_stat_silent_max_ms, in seconds
          NotifyGap,      \* most seconds from one notification to the next
          MaxFileLen,     \* bound: bytes the writer appends in all
          Faults          \* what may go wrong: "crash", "stop", "clock"

\* config.cc:152 refuses a read.max.bytes below line.max.bytes, and
\* isStateSilentMaxMsValid a silent time within the notification interval; the
\* note in io_handler.cc:215-222 asks for a silent time that also covers the
\* time spent in callbacks.  Nothing refuses a batchsize of 0.
ASSUME ConfigAssumption ==
    /\ MaxLineAtOnce \in Nat
    /\ LineMaxBytes \in Nat \ {0}
    /\ BufferMaxBytes \in Nat /\ LineMaxBytes <= BufferMaxBytes
    /\ NotifyGap \in Nat \ {0}
    /\ StuckMax \in Nat
    /\ SilentMax \in Nat /\ NotifyGap <= SilentMax
    /\ MaxFileLen \in Nat
    /\ Faults \subseteq {"crash", "stop", "clock"}

VARIABLES
    file,         \* the bytes of the log file
    pos,          \* the position entry: survives a crash
    open,         \* m_file # NULL
    fpos,         \* ftell(m_file)
    buf,          \* the offset of the byte in m_buffer[0]
    buffer_len,   \* m_buffer_len
    last_segment, \* m_buffer_last_segment
    lines,        \* m_lines
    io_age,       \* seconds since m_last_io_time
    stuck_age,    \* seconds since m_last_buffer_stuck_time
    pc,           \* where onNotify is
    i, cur_buf_pos, read_len, read_more, unsent_lines, \* its locals
    stopping,     \* onNotify was called by TailWatcher::stop
    waited,       \* seconds since the last notification began
    received,     \* history: lines receive_func has taken
    lost          \* history: lines given up although pos is beyond them

code    == <<open, fpos, buf, buffer_len, last_segment, lines>>
locals  == <<i, cur_buf_pos, read_len, read_more, unsent_lines>>
ages    == <<io_age, stuck_age>>
history == <<received, lost>>
vars    == <<file, pos, code, ages, pc, locals, stopping, waited, history>>

Byte == {"delimiter", "other"}

\* A line cut at a delimiter, at the length limit, or from a stuck buffer.
Line == [from : Nat, to : Nat, cut : {"delimiter", "max", "stuck"}]

PC == {"idle", "begin", "resend", "resent", "read", "scan", "send", "sent"}

Range(s) == {s[k] : k \in DOMAIN s}

Smaller(a, b) == IF a <= b THEN a ELSE b

\* One second more on an age that is only compared with limit.
Older(age, limit) == IF age > limit THEN age ELSE age + 1

\* (cur.tv_sec - last.tv_sec) * 1000UL > max: a negative difference is
\* converted to unsigned, and is then larger than any limit.
Expired(age, limit) == age < 0 \/ age > limit

isBufferStuck == Expired(stuck_age, StuckMax)

isActive == open /\ ~Expired(io_age, SilentMax)

-----------------------------------------------------------------------------
\* The constructor leaves m_last_buffer_stuck_time at 0, long ago; init sets
\* m_last_io_time to now.
Init ==
    /\ file = <<>>
    /\ pos = 0
    /\ open = TRUE
    /\ fpos = 0
    /\ buf = 0
    /\ buffer_len = 0
    /\ last_segment = FALSE
    /\ lines = <<>>
    /\ io_age = 0
    /\ stuck_age = StuckMax + 1
    /\ pc = "idle"
    /\ i = 0 /\ cur_buf_pos = 0 /\ read_len = 0
    /\ read_more = FALSE /\ unsent_lines = <<>>
    /\ stopping = FALSE
    /\ waited = 0
    /\ received = {}
    /\ lost = {}

\* updateLastIOTime.
MutNoIOTime == UNCHANGED io_age
updateLastIOTime == io_age' = 0

\* getFilePos() - m_buffer_len, what updatePos records.
MutFilePos == fpos
recordedPos == fpos - buffer_len

\* The end of onNotify: after TailWatcher::stop called it, the file is closed
\* and the handler deleted, with the lines left in it.
Return(rest) ==
    /\ pc' = "idle"
    /\ stopping' = FALSE
    /\ IF stopping
         THEN /\ open' = FALSE
              /\ lines' = <<>>
              /\ buffer_len' = 0
              /\ lost' = lost \cup Range(rest)
         ELSE /\ lines' = rest
              /\ UNCHANGED <<open, buffer_len, lost>>

\* The timer or the stat watcher of the tail watcher fires.
Notify ==
    /\ pc = "idle"
    /\ open
    /\ pc' = "begin"
    /\ waited' = 0
    /\ UNCHANGED <<file, pos, code, ages, locals, stopping, history>>

\* TailWatcher::stop(true): a last onNotify, then close.
Stop ==
    /\ "stop" \in Faults
    /\ pc = "idle"
    /\ open
    /\ pc' = "begin"
    /\ stopping' = TRUE
    /\ waited' = 0
    /\ UNCHANGED <<file, pos, code, ages, locals, history>>

\* A partial line nothing was added to for StuckMax seconds is taken as it is.
takeStuck ==
    /\ buffer_len # 0
    /\ Len(lines) < MaxLineAtOnce
    /\ isBufferStuck
    /\ last_segment

MutUncleaned == TRUE
uncleaned == buffer_len # 0

\* Handle last uncleaned buffer: a buffer that is stuck becomes a line.
HandleUncleanedBuffer ==
    /\ pc = "begin"
    /\ pc' = "resend"
    /\ IF uncleaned THEN updateLastIOTime ELSE UNCHANGED io_age
    /\ IF takeStuck
         THEN /\ lines' = Append(lines, [from |-> buf, to |-> buf + buffer_len,
                                         cut |-> "stuck"])
              /\ buf' = buf + buffer_len
              /\ buffer_len' = 0
         ELSE UNCHANGED <<lines, buf, buffer_len>>
    /\ UNCHANGED <<file, pos, open, fpos, last_segment, stuck_age, locals,
                   stopping, waited, history>>

\* The strictly increasing selections of indices of a sequence of length n.
Selections(n) ==
    UNION {{f \in [1..k -> 1..n] : \A a, b \in 1..k : a < b => f[a] < f[b]} :
             k \in 0..n}

\* The lines of m_lines that librdkafka refused with QUEUE_FULL.
MutQueueFull(kept) == <<>>
MutReversed(kept) == [k \in DOMAIN kept |-> lines[kept[Len(kept) + 1 - k]]]
queueFull(kept) == [k \in DOMAIN kept |-> lines[kept[k]]]

\* receive_func on m_lines: librdkafka may refuse any of them with QUEUE_FULL,
\* which are the unsent lines; the others are queued, filtered out or dropped
\* and never offered again.  It always returns true.
receiveLines ==
    /\ updateLastIOTime
    /\ \E kept \in Selections(Len(lines)) :
         /\ unsent_lines' = queueFull(kept)
         /\ received' = received \cup
                {lines[k] : k \in (1..Len(lines)) \ Range(kept)}

\* Handle last unreceived lines: hand over what the last call could not.
ResendLines ==
    /\ pc = "resend"
    /\ lines # <<>>
    /\ receiveLines
    /\ pc' = "resent"
    /\ UNCHANGED <<file, pos, code, stuck_age, i, cur_buf_pos, read_len,
                   read_more, stopping, waited, lost>>

NothingToResend ==
    /\ pc = "resend"
    /\ lines = <<>>
    /\ pc' = "read"
    /\ read_more' = FALSE
    /\ UNCHANGED <<file, pos, code, ages, i, cur_buf_pos, read_len,
                   unsent_lines, stopping, waited, history>>

\* The position is recorded and the unsent lines kept; if there are any the
\* call ends here.
RecordResent ==
    /\ pc = "resent"
    /\ pos' = recordedPos
    /\ unsent_lines' = <<>>
    /\ IF unsent_lines # <<>>
         THEN Return(unsent_lines) /\ UNCHANGED read_more
         ELSE /\ pc' = "read"
              /\ lines' = <<>>
              /\ read_more' = FALSE
              /\ UNCHANGED <<open, buffer_len, stopping, lost>>
    /\ UNCHANGED <<file, fpos, buf, last_segment, ages, i, cur_buf_pos,
                   read_len, waited, received>>

MutRoom == BufferMaxBytes
room == BufferMaxBytes - buffer_len

\* fread fills the buffer up with what the file has.  An empty buffer is not
\* scanned.
ReadChunk ==
    /\ pc = "read"
    /\ read_len' = Smaller(room, Len(file) - fpos)
    /\ fpos' = fpos + read_len'
    /\ buffer_len' = buffer_len + read_len'
    /\ i' = 0
    /\ cur_buf_pos' = 0
    /\ pc' = IF buffer_len' # 0 THEN "scan" ELSE "send"
    /\ last_segment' = (last_segment /\ buffer_len' = 0)
    /\ UNCHANGED <<file, pos, open, buf, lines, ages, read_more, unsent_lines,
                   stopping, waited, history>>

\* The length of the line that would end with m_buffer[i].
cur_line_len == i + 1 - cur_buf_pos

MutTooLong == cur_line_len > LineMaxBytes
tooLong == cur_line_len >= LineMaxBytes

MutNextLine == i
nextLine == i + 1

cutHere(why) ==
    /\ lines' = Append(lines, [from |-> buf + cur_buf_pos, to |-> buf + i + 1,
                               cut |-> why])
    /\ cur_buf_pos' = nextLine

\* One turn of the scan over m_buffer.
ScanByte ==
    /\ pc = "scan"
    /\ i < buffer_len
    /\ Len(lines) < MaxLineAtOnce
    /\ IF file[buf + i + 1] = "delimiter"
         THEN cutHere("delimiter")
         ELSE IF tooLong
                THEN cutHere("max")
                ELSE UNCHANGED <<lines, cur_buf_pos>>
    /\ i' = i + 1
    /\ UNCHANGED <<file, pos, open, fpos, buf, buffer_len, last_segment, ages,
                   pc, read_len, read_more, unsent_lines, stopping, waited,
                   history>>

\* The scan ends: what is left moves to the head of the buffer, and another
\* chunk is read unless there was nothing to read or there are lines enough.
EndScan ==
    /\ pc = "scan"
    /\ i = buffer_len \/ Len(lines) >= MaxLineAtOnce
    /\ last_segment' = (i = buffer_len)
    /\ buf' = buf + cur_buf_pos
    /\ buffer_len' = buffer_len - cur_buf_pos
    /\ stuck_age' = IF buffer_len' > 0 THEN 0 ELSE stuck_age
    /\ read_more' = (\/ read_more
                     \/ i < buffer_len
                     \/ read_len # 0 /\ Len(lines) >= MaxLineAtOnce)
    /\ pc' = IF read_len = 0 \/ Len(lines) >= MaxLineAtOnce
               THEN "send" ELSE "read"
    /\ i' = 0
    /\ cur_buf_pos' = 0
    /\ UNCHANGED <<file, pos, open, fpos, lines, io_age, read_len,
                   unsent_lines, stopping, waited, history>>

SendLines ==
    /\ pc = "send"
    /\ lines # <<>>
    /\ receiveLines
    /\ pc' = "sent"
    /\ UNCHANGED <<file, pos, code, stuck_age, i, cur_buf_pos, read_len,
                   read_more, stopping, waited, lost>>

MutStartLoop(more) == read_more' = more
startLoop(more) == read_more' = FALSE

\* while (read_more), with the reset at the top of the loop.
LoopOrReturn(more, rest) ==
    /\ startLoop(more)
    /\ IF more
         THEN /\ pc' = "read"
              /\ lines' = rest
              /\ UNCHANGED <<open, buffer_len, stopping, lost>>
         ELSE Return(rest)

NothingToSend ==
    /\ pc = "send"
    /\ lines = <<>>
    /\ LoopOrReturn(read_more, lines)
    /\ UNCHANGED <<file, pos, fpos, buf, last_segment, ages, i, cur_buf_pos,
                   read_len, unsent_lines, waited, received>>

RecordSent ==
    /\ pc = "sent"
    /\ pos' = recordedPos
    /\ unsent_lines' = <<>>
    /\ LoopOrReturn(read_more /\ unsent_lines = <<>>, unsent_lines)
    /\ UNCHANGED <<file, fpos, buf, last_segment, ages, i, cur_buf_pos,
                   read_len, waited, received>>

OnNotify ==
    \/ HandleUncleanedBuffer
    \/ ResendLines \/ NothingToResend \/ RecordResent
    \/ ReadChunk \/ ScanByte \/ EndScan
    \/ SendLines \/ NothingToSend \/ RecordSent

-----------------------------------------------------------------------------
\* A new handler on the same file: TailWatcher::onRotate finds the inode in
\* the position entry and seeks to the position recorded there.
Reopen ==
    /\ ~open
    /\ open' = TRUE
    /\ fpos' = pos
    /\ buf' = pos
    /\ buffer_len' = 0
    /\ last_segment' = FALSE
    /\ io_age' = 0
    /\ stuck_age' = StuckMax + 1
    /\ waited' = 0
    /\ UNCHANGED <<file, pos, lines, pc, locals, stopping, history>>

\* The lines of this handler that nobody has taken yet.
Pending == Range(IF pc \in {"resent", "sent"} THEN unsent_lines ELSE lines)

\* The process is killed; the file and the position entry are left.
Crash ==
    /\ "crash" \in Faults
    /\ open
    /\ open' = FALSE
    /\ pc' = "idle"
    /\ stopping' = FALSE
    /\ lines' = <<>>
    /\ buffer_len' = 0
    /\ i' = 0 /\ cur_buf_pos' = 0 /\ read_len' = 0
    /\ read_more' = FALSE /\ unsent_lines' = <<>>
    /\ lost' = lost \cup {l \in Pending : l.to <= pos}
    /\ UNCHANGED <<file, pos, fpos, buf, last_segment, ages, waited, received>>

\* The program that writes the log appends a byte.
Write ==
    /\ Len(file) < MaxFileLen
    /\ \E b \in Byte : file' = Append(file, b)
    /\ UNCHANGED <<pos, code, ages, pc, locals, stopping, waited, history>>

\* Time passes between two callbacks and, in one, during receive_func.
timePasses == pc \in {"idle", "resent", "sent"}

\* A second passes; no more than NotifyGap of them from one notification to the
\* next.
Tick ==
    /\ timePasses
    /\ waited < NotifyGap \/ ~open
    /\ waited' = IF open THEN waited + 1 ELSE waited
    /\ io_age' = Older(io_age, SilentMax)
    /\ stuck_age' = Older(stuck_age, StuckMax)
    /\ UNCHANGED <<file, pos, code, pc, locals, stopping, history>>

\* gettimeofday is not monotonic: the clock is set back.
SetClockBack ==
    /\ "clock" \in Faults
    /\ timePasses
    /\ io_age' \in -1..io_age
    /\ stuck_age' \in -1..stuck_age
    /\ UNCHANGED <<file, pos, code, pc, locals, stopping, waited, history>>

Next ==
    \/ Notify \/ Stop \/ OnNotify
    \/ Reopen \/ Crash \/ Write \/ Tick \/ SetClockBack

Spec == Init /\ [][Next]_vars

\* The event loop runs its callbacks and its timers, a stopped file is opened
\* again, time passes between the notifications (a few of them a second at
\* most), and librdkafka, whose threads drain its queue, does not refuse for
\* ever.
Fairness ==
    /\ WF_vars(OnNotify)
    /\ WF_vars(Reopen)
    /\ WF_vars(Notify)
    /\ SF_vars(Tick)
    /\ SF_vars((ResendLines \/ SendLines) /\ unsent_lines' = <<>>)

FairSpec == Spec /\ Fairness
-----------------------------------------------------------------------------
LineTypes ==
    /\ file \in Seq(Byte)
    /\ lines \in Seq(Line)
    /\ unsent_lines \in Seq(Line)
    /\ received \subseteq Line
    /\ lost \subseteq Line

NumberTypes ==
    /\ pos \in Nat
    /\ fpos \in 0..Len(file) /\ Len(file) <= MaxFileLen
    /\ buf \in Nat
    /\ buffer_len \in 0..BufferMaxBytes
    /\ io_age \in -1..(SilentMax + 1)
    /\ stuck_age \in -1..(StuckMax + 1)
    /\ i \in 0..buffer_len
    /\ cur_buf_pos \in 0..i
    /\ read_len \in Nat
    /\ waited \in 0..NotifyGap

FlagTypes ==
    /\ open \in BOOLEAN
    /\ last_segment \in BOOLEAN
    /\ pc \in PC
    /\ read_more \in BOOLEAN
    /\ stopping \in BOOLEAN

\* The type invariant; the length of the buffer never exceeds the size it was
\* allocated with (io_handler.cc:67), although fread appends to what a scan
\* has left there.
TypeOK == LineTypes /\ NumberTypes /\ FlagTypes

Covers(l, b) == l.from <= b /\ b < l.to

\* How far the file has been cut into lines.
Boundary == IF open THEN buf + cur_buf_pos ELSE pos

\* Every byte before the point the reader has reached, and after a restart
\* before the point it resumes from, was taken by receive_func, waits in
\* m_lines, or was given up with the handler: the moving of the rest of the
\* buffer, the early return on unsent lines, the stuck buffer and the recorded
\* position (io_handler.cc:101-237) never leave a byte of the file out.
NoByteSkipped ==
    \A b \in 0..(Boundary - 1) :
        \E l \in received \cup lost \cup Pending : Covers(l, b)

\* As long as the process is not killed no byte is in two lines, whatever is
\* resent, stopped and reopened: a message is handed over exactly once.
ExactlyOnce ==
    "crash" \notin Faults =>
        /\ \A k, m \in received \cup lost \cup Pending :
               k = m \/ k.to <= m.from \/ m.to <= k.from
        /\ received \cap (lost \cup Pending) = {}

\* A message is a whole line or, when the line is too long, LineMaxBytes of
\* it, and nothing of the next line, wherever the chunks that fread returned
\* began and ended; a partial line is taken only when it is stuck.
LinesAreCutRight ==
    \A l \in received \cup lost \cup Pending :
        /\ l.from < l.to /\ l.to <= Len(file)
        /\ \A b \in l.from..(l.to - 2) : file[b + 1] # "delimiter"
        /\ (l.cut = "delimiter") = (file[l.to] = "delimiter")
        /\ l.to - l.from <= LineMaxBytes
        /\ l.cut = "max" => l.to - l.from = LineMaxBytes

\* What a complete scan leaves in the buffer is shorter than a line may be,
\* so that the next fread has room and the reader cannot wedge on a full
\* buffer without a delimiter.
BufferNeverWedges ==
    open /\ last_segment /\ pc # "scan" =>
        buffer_len < LineMaxBytes /\ buffer_len < BufferMaxBytes

\* Between two notifications the recorded position is exactly where the lines
\* cut so far end: resuming there neither repeats nor skips a line, and what
\* is in the buffer will be read again.
ResumesAtBoundary == open /\ pc = "idle" => pos = buf /\ buf + buffer_len = fpos

\* A batch never has more than batchsize lines, and the lines stay in the
\* order of the file, also when some are resent.
BatchInOrder ==
    /\ Len(lines) <= MaxLineAtOnce
    /\ \A a, b \in DOMAIN lines : a < b => lines[a].to <= lines[b].from

\* A tail watcher that counts as inactive, and may be closed for the next file
\* (updateTaskPaths, updateWatcherRotate), has no line left to resend: with the
\* clock running forward each attempt to send keeps it active long enough for
\* the next one.
InactiveIsDrained ==
    "clock" \notin Faults =>
        (open /\ pc = "idle" /\ ~isActive => lines = <<>>)

-----------------------------------------------------------------------------
\* onNotify returns to the event loop.
NotifyReturns == pc # "idle" ~> pc = "idle"

\* Every line that the writer finished is taken by receive_func, unless a stop
\* gave it up.
FinishedLinesReceived ==
    \A n \in 1..MaxFileLen :
        (n <= Len(file) /\ file[n] = "delimiter")
            ~> (\E l \in received \cup lost : l.to = n)

\* When the writer has finished, with a finished line, and nobody stops it any
\* more, the tail watcher becomes inactive, and the next file of the path
\* pattern gets its turn.
FinishedFileBecomesInactive ==
    /\ <>[](file = <<>> \/ file[Len(file)] = "delimiter")
    /\ <>[]~stopping
    => <>[]~isActive

-----------------------------------------------------------------------------
\* Data is lost only when the process crashes or a file is deleted before it
\* is collected (docs/FAQ.md:3-25): here neither happens.
NothingLost == lost = {}

-----------------------------------------------------------------------------
\* The bytes of a set of lines.
BytesOf(ls) == UNION {l.from..(l.to - 1) : l \in ls}

\* The refinement mapping: what was cut is how far the scan has come, what is
\* held is what nobody has taken yet, the mark is the position entry.
Delivery == INSTANCE LogDelivery WITH
    MaxLen <- MaxFileLen,
    len <- Len(file),
    at <- Boundary,
    mark <- pos,
    held <- BytesOf(Pending),
    delivered <- BytesOf(received),
    given_up <- BytesOf(lost)

\* IOHandler implements LogDelivery: each step of onNotify, of a stop, a crash
\* and a reopening (io_handler.cc:83-238, tail_watcher.cc:166-199, 276-286) is
\* one step of at-least-once delivery in order, or none.
ImplementsDelivery == Delivery!DSpec
=============================================================================
