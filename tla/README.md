# A TLA+ model of logkafka

logkafka collects log files and sends their lines to Kafka. This directory holds TLA+
modules that model how it does so, TLC configurations that check them on small
instances, an abstract specification that the core module is shown to implement, and TLAPS
proofs, for every value of the constants, of that refinement and of the safety properties of
all seven modules. Paths below are relative to the repository.

## 1. The system

One process, a few kinds of threads:

* the **main thread** runs a libuv loop. All of `Manager`, `TailWatcher`, `RotateHandler`,
  `IOHandler` and `PositionFile` happens in its callbacks: a refresh timer
  (`Manager::refreshWatchers`), per tail watcher a 3 s timer and a 1 s stat watcher
  (`TailWatcher::onNotify`), an upload timer, and the SIGINT handler.
* the **zookeeper loop thread** runs `Zookeeper::refresh` from a timer of its own.
* the **completion thread** of each zookeeper handle calls the three watchers
  (`globalWatcher`, `brokerChangeWatcher`, `configChangeWatcher`); an expired session is
  replaced by a new handle with new threads.
* librdkafka's threads drain its message queues.

Outside the process: the programs that write, rotate, truncate and delete the log files,
the ZooKeeper server, `tools/log_config.php`, other logkafka processes, and whoever kills
and restarts this one.

### Inventory

| component | state | operations | what is hard | properties |
|---|---|---|---|---|
| `IOHandler` | file offset, buffer and its length, last-segment flag, the batch `m_lines`, two clocks | `onNotify` (stuck buffer, resend, read, cut, send, record), `close` | early returns, a resend across calls, the rest of a chunk moved to the head, position versus what is only in memory, `gettimeofday` jumping | no byte skipped or repeated, lines cut right, no wedge, resumable position, every finished line gets through |
| `TailWatcher`, `RotateHandler` | inode and size seen last, the handler, the position entry | `onNotify`, `onRotate`, `start`, `stop`, `isActive` | stat and open are two steps, renames, truncations, giving up a rotation while the old file is active, crash in between | nothing missed, nothing twice, a file is left only when collected |
| `Task` (path queue) | queue of paths, `first_update_paths` | `addPath`, `delFirstPath` | full queue, order after a restart | bounded, in the order of time |
| `PositionFile` | entries, lines on disk | `compact`, `parse`, `operator[]`, `remove`, `getPath`, updates of an entry | crash between two writes, unwatched and torn lines, several patterns in one file, truncate-then-rewrite, fixed widths | entries stay apart, a restart finds what was recorded last and reading goes on there |
| `Manager` | tasks, tail watchers, watchers to delete | `refreshWatchers` and all it calls, `updateWatcherRotate`, `start`, `stop` | configuration changes against rotations, a failing set-up in the middle, locking twice | watchers follow the configuration, which takes effect in the end, the loop stays alive |
| `Zookeeper` | handle, cached configuration and brokers, registration, three mutexes | `init`, `connect`, `refresh`, watchers, `close` | four kinds of threads, one-shot watches, expiry, failing calls, join under a lock | no change missed or undone, every change arrives, registration comes back |
| `Producer`, `OutputKafka` | shared producers per codec, their brokers, librdkafka's queue | `init`, `send`, `msgDelivered`, `close`, `initProducer`, `stopProducers` | a queue shared by tasks, reports that are served only by a poll, a partial broker list, closing | every line gets through, nothing is left in a queue at the end |
| `Filter` | a regular expression | match | - | - |
| lifecycle (`main`, `LogKafka`, signals) | the phase of the process | start, SIGINT, stop, close, destructors | the order of the shutdown, brokers that are away, a second SIGINT | the process ends, and in order |
| `Config`, options | settings | read once | - | what it refuses is an assumption of the models |

`PROJECT.json` lists the hazards at their lines, with the properties aimed at each.

## 2. The modules

Every module has an `MC` module that only extends it; the `.cfg` files give the constants.
Each has a constant `Faults`: which of the things that may go wrong do happen in a run.

### IOHandler (`io_handler.cc`, and of `tail_watcher.cc` the timer, `stop`, `isActive`)

A byte is its offset and whether it is a delimiter; a line is the interval of bytes it was
cut from and why. `onNotify` is a sequence of actions, one per block of the function, with
`pc` between them: `HandleUncleanedBuffer`, `ResendLines`/`NothingToResend`/`RecordResent`,
`ReadChunk`, `ScanByte`, `EndScan`, `SendLines`/`NothingToSend`/`RecordSent`. The writer may
append, and the process be killed, between any two of them. `receiveLines` may be refused
any selection of lines (QUEUE_FULL). Clocks are ages in the whole seconds the code compares;
a clock set back gives a negative age, which `Expired` treats as the unsigned comparison
in the code does. `Tick` lets at most `NotifyGap` seconds pass from one notification to the
next, between two callbacks and, in `onNotify`, during `receive_func` (`timePasses`), the call
whose length the note at `io_handler.cc:215-222` warns of. `isStateSilentMaxMsValid` refuses
only a silent time within the interval of the timer; the note asks for one that also covers
the callbacks, and `ConfigAssumption` is both together. A second that passes at
another place of `onNotify` adds nothing: the ages are read at the start of a call and after
it, so that second is undone by a reset that follows, or is as good as one after the return.

Nothing refuses a batch size of 0, so neither does `ConfigAssumption`; the runs have 1 or
more (see "left out" below).

### LogDelivery (abstract)

What the collector of one file promises, in bytes: pieces are cut one directly behind the
other, delivered at least once, the recorded position is never beyond what was cut, and only
what is held when the collector is stopped, or was held before the recorded position when it
is killed, can be given up. IOHandler implements it (`ImplementsDelivery`) under the mapping
in `Delivery == INSTANCE LogDelivery WITH ...`: `at` is the end of the lines cut so far, `mark`
the position entry, `held` the bytes of the lines that wait, `delivered` and `given_up` those
of `received` and `lost`. Reading, scanning without a cut, clocks and notifications stutter.

### TaskPaths (`manager.cc`, `task_conf.h`, `position_file.cc`)

One pattern with a time format, one file per period; a path is the number of its period.
`Refresh` is `refreshWatchers` up to the tail watchers, then `StopWatcher` and
`StartWatcher` are steps of their own since a crash may fall between them. `disk` is the
position file line by line; `Compact` and `Rewrite` are the two halves of
`PositionFile::compact`. Reading a file is one step, `Notify`: what IOHandler does inside is
the other module's subject. `GoSilent` may happen whenever the file is open, also when
there are lines left to read, so the model covers more than the code's clock allows.
`Refresh` waits for the first notification of a new tail watcher: its timer has timeout 0,
and libuv fires timers in the order in which they are due. `follow_last` and
`read_from_head` have their default, true.

### PositionFile (`position_file.cc`, `file_position_entry.cc`, and who uses them)

Several patterns, which may expand to the same path, in one file. `disk` is the file line by
line, `m_pe_map` the line of each entry: an entry is updated in place (`update`, `updatePos`), a
missing one is appended (`line`, `appended`), a path that is given up leaves a marked line
(`StopWatcher`), a kill while a line is appended leaves a torn one (`Crash`), and `Restart` is
`compact` and `parse`. The widths are constants: an inode is cut to `InoLimit`
(`file_position_entry.cc:42`), a position read back goes through an `int` (`toInt`,
`tail_watcher.cc:167`). `said` is what a reader of the code expects to find for a pattern;
`odd` holds the patterns that left a watched line behind, either by the fault `rekey` or by
being stopped after a start with another path than the file names (`skip`): for those
alone the properties promise nothing.

### TailWatcher (`rotate_handler.cc`, `tail_watcher.cc`, `updateWatcherRotate`)

One path without a time format, with or without a file at the start, read from its head or
not. `Stat` and the opening of the file (`OpenFails`, `FirstOpen`, `Truncated`, `StillActive`,
`Rotated`) are separate steps, then `ReadFile`. Lines are numbered as they are written, so a
line read twice or passed over is visible whatever file it was in. `gone` holds the lines that
the documentation gives up: those of a renamed file that the process no longer has open,
those truncated unread, and those skipped because `read_from_head` is off.

A rotation is three steps of others: `Rename`, `Create`, and `Reopen`, by which the writer turns
to the new file; until then it goes on appending to the renamed one. The fault `race`, which
the run has, replaces the file between `stat` and the first `fopen` (`rotate_handler.cc:61`,
`:72`): the rotate handler then keeps the inode and size of the file before, and the next
notification takes the new file for a truncated one. `raced` holds the lines that were handed
over in that state: these alone may be handed over twice, which `NothingTwice` says.

### Manager (`manager.cc`)

Several tasks, each with its `valid` flag and a version for all other fields.
`Refresh` is `refreshWatchers`: it holds `m_tail_watchers_mutex` on the main thread, hence
one step. `main` is "hung" when the mutex is taken a second time (`base/mutex.h` is a
default, non-recursive pthread mutex) and "crashed" when a NULL tail watcher is used.
`stray` holds tail watchers that were replaced and then started again; their reading is not
followed further. `m_producer_map` holds the versions whose codec has a producer. A refresh has
an input `failing`, the versions for which no producer can be made now (an empty broker list,
`producer.cc:126`): a new task is then set up by a later refresh, a changed one gets NULL, which
is the fault `codec`. `Edit` is the administrator's (external); it stands for what
`refreshTaskConfs` makes of the JSON, field by field, and for its `isLegal` filter: a task that is
filtered out is one that is not there. A configuration that cannot be parsed makes
`refreshTaskConfs` fail, which changes nothing and is a stuttering step.

### LogKafka (`main.cc`, `logkafka.cc`, `signal_handler.cc`, `producer.cc`, `output_kafka.cc`)

The life of the process and the way of each line: unwritten, in the file, held by a tail
watcher, in librdkafka's queue, delivered or given up there with the report unserved, and
reported. One producer per codec, made with the brokers Zookeeper knows at that moment
(`initProducer`, `producerInit`); `notify` is one batch of a notification, with the lines the
queue has no room for held back and those refused otherwise dropped as `Producer::send`
does; every send ends with a poll, which serves the reports. After SIGINT the tail watchers
are notified a last time in order, ZooKeeper is closed, which may wait for ever (`closesZookeeper`,
phase "blocked", with the fault of that name), the loop ends, and `~Manager` closes one producer
after the other, each polling until its queue is empty. Brokers and librdkafka's threads are
external.

### Zookeeper (`zookeeper.cc`)

Each thread has the sequence of steps it still has to do, `todo`; a step is one call to the
server with the local work around it, or waits for a mutex or for `zookeeper_close` to join
a completion thread. The server (versions of the data, sessions, one-shot watches, the
ephemeral znode) is external. The configuration is read as the code does, its length first
(`Exists`) and then the data (`Read`), which is cut off when it has grown in between;
`ensurePathExist` is part of the call that follows it. Every call reads `m_zhandle` again, as
the code does, and fails when there is no handle or its session is not live. A call that
fails may have taken effect all the same (`unanswered`): when the answer to `zoo_create` is lost
the process ends itself at its next refresh, taking its own znode for another's
(`zookeeper.cc:258`). `refreshBrokerUrls` is one step, since nobody waits for anything else
under its mutex. A session may expire, the timer fire and another process come and go at
any moment. The history variable `failed` remembers that a call failed although the session
was alive, until the next refresh begins.

### How they fit

IOHandler justifies the one-step reads of TaskPaths and TailWatcher: `NoByteSkipped`,
`ResumesAtBoundary` and `InactiveIsDrained` are what those two assume of a read, a recorded
position and an inactive watcher. TaskPaths (paths with a time format) and TailWatcher
(without) are the two ways in which a tail watcher is replaced for an unchanged
configuration; Manager has the changed one; Zookeeper is where its `log_config` comes from.
PositionFile shows for many patterns what TaskPaths and TailWatcher rely on for one: that
the entry of a watcher is its own and a restart finds it. LogKafka puts the other end under
IOHandler: that librdkafka takes lines again and again, IOHandler's strong fairness, follows
there from brokers that come back (`EveryLineSent`).

## 3. The runs

Two workers, each below four minutes. `PROJECT.json` has a mutant of the code for each
property of each passing run that makes TLC find it violated.

| run | checks | shows |
|---|---|---|
| `io_crash` | `TypeOK`, `NoByteSkipped`, `LinesAreCutRight`, `ResumesAtBoundary`, `BatchInOrder`, `BufferNeverWedges`, `ImplementsDelivery` | crashes and stops at any step, clock set back: no byte is left out, lines are right across chunks, a restart resumes at the end of a line cut; LogDelivery is implemented |
| `io_live` | `ExactlyOnce`, `InactiveIsDrained`, `NotifyReturns`, `FinishedLinesReceived`, `FinishedFileBecomesInactive` | with stops but no crash no byte is in two messages and an inactive watcher has nothing to resend; the read loop ends, every finished line arrives, a finished file gives way to the next |
| `io_stop_loses` | `NothingLost` - violated | see findings |
| `paths` | `TypeOK`, `NoFileForgotten`, `QueueInOrder`, `NothingTwice`, `Chronological`, `FilesCollected` | three periods, two restarts, deletions, failing set-ups: files are collected once, in order, all of them |
| `paths_queue_full` | `NoFileForgotten` - violated | see findings |
| `positions` | `TypeOK`, `RecordIsFound`, `ResumesWhereRecorded` | two patterns in one file, kills, stops, torn lines, reconfigurations, skipped and changed paths: a restart finds what was recorded last, and reading goes on there |
| `rotate` | `TypeOK`, `NothingMissed`, `NothingTwice`, `LeftWhenCollected`, `EveryLineArrives` | three files, renames, also between `stat` and the first `fopen`, a writer that stays with the renamed file, truncations and a crash at any step |
| `manager_apply` | `TypeOK`, `Applied`, `Alive`, `ConfigTakesEffect` | two tasks, six edits, rotations, producers that cannot be made at first: the watchers are those of the tasks, and the last configuration takes effect |
| `manager_invalid` | `InvalidNotCollected` - violated | see findings |
| `zk_watch` | `TypeOK`, `NoChangeMissed`, `ConfigGoesForward`, `ConfigArrives`, `Registers` | a session that expires at any step, a failing call, a lost answer, a configuration cut off, another process, SIGINT |
| `zk_overlap` | `ConfigArrives` - violated | see findings |
| `lifecycle` | `TypeOK`, `ExitDrained`, `EveryLineSent`, `ShutdownEnds` | two tasks that share producers or not, brokers that come and go, failing look-ups, refused lines, one or two SIGINTs |

**Bounds.** IOHandler: files of up to 4 or 5 bytes with a buffer of 2 or 3 and lines of 2 or
3 have lines across two chunks, a buffer that fills without a delimiter, full batches with
bytes left over, and a second notification after each; the proofs cover all sizes.
TaskPaths: three periods and a queue of two let the queue fill up and still keep the file
of every earlier period (a fourth period overflows it, `paths_queue_full`); two lines in a
file let one be written after its file was opened, for the last read of `stop`; two
restarts allow one during the catching up after another. TailWatcher: three files allow a
rotation while the previous one is unfinished; four lines put some in each. Manager: two
tasks are the least in which the order of `std::set` matters; six edits add, change, disable,
enable, delete and add again; one version of three has an unknown codec. Zookeeper: two
sessions are one expiry with its reconnection, one version change is enough for an old value
to overtake a new one and for data that grew while it was read, one loss for a watch that
was not set. PositionFile: three lines are two patterns and a line left behind, two paths
let a path follow another, two ends are a restart from a compacted file, the files
grow by two in all, so that each has something or one is read on; `IntMax` and
`InoLimit` are scaled down, the properties only tell apart what fits from what does not.
LogKafka: a queue of one message fills at once, also for the other task of a codec; two
lines are one for each task or two of one; two brokers make a partial list. The lines are
bounded in all, so that "again and again no line waits" says that each one gets through; in
the same way `ConfigArrives` speaks of the last of finitely many changes.
`CHECK_DEADLOCK FALSE` is said in the last three: a process that ended does nothing more, and
the bounds are reached.

**How far some properties reach.** `LinesAreCutRight` and `BatchInOrder` allow a cut of a
buffer that was stuck, so a cut made too early is not a violation of them. `NotifyReturns`
is checked with a writer that stops and a batch size of 1 or more.
`FinishedFileBecomesInactive` is about files that end with a delimiter: a file that ends
within a line stays active. The strong fairness of `GoSilent` in TaskPaths and TailWatcher,
hence `FilesCollected` and `EveryLineArrives`, is for the same reason about files whose last
line is finished. `Alive` is checked with no fault, where it is about set-ups that fail and
edits in any order; which faults end the loop is in the table below. `ShutdownEnds`
is about a `Zookeeper::close` that returns.

**Fairness.** Callbacks of the event loop return and timers fire (weak fairness of
`OnNotify`, `Notify`, `Refresh`, `TimerFires` and the steps of a callback), events are
delivered by the client library. Strong fairness is used for: the passing of time (`Tick`,
`GoSilent`: notifications keep disabling it for a moment, a few times a second); librdkafka
accepting a whole batch again and again (its threads drain the queue while a broker can be
reached); the set-up of a producer in the end succeeding; and a thread of Zookeeper getting
a mutex that is released again and again. In LogKafka weak fairness also says that brokers
that are down come back and are looked up, and strong fairness that librdkafka delivers to a
broker it can reach again and again: with `message_timeout_ms = 0`, the default, it never
gives up (`docs/FAQ.md:7`), so `GiveUp` has none. In TailWatcher a process that was killed is
started again; `EveryLineArrives` is about behaviours in which it stays up in the end. In Manager
a refresh for which every producer can be made is weakly fair (`RefreshWith({})`): the timer
fires for ever, and the broker list does not stay empty (`ConfigArrives` of Zookeeper is the
like for the configuration). The writer, the crashes, the failing calls and
the edits have no fairness. In `io_live` the writer stops at `MaxFileLen`.

**What the passing runs leave out, on purpose.** Some faults break a property of this code;
they are in the models and left out of `Faults` in the passing runs. Adding one to the `.cfg`
makes TLC show the behaviour:

| module | fault | what TLC then shows |
|---|---|---|
| TaskPaths | `late` | a file created after the last notification of its period is never opened: a watcher without a handler counts as inactive (`tail_watcher.cc:308`) and its path is dropped |
| TaskPaths | `torn` | a crash between marking one path as unwatched and appending the next (`manager.cc:694`), or inside `compact` (`position_file.cc:269`), leaves no path to continue from |
| TailWatcher | `unseen` | a file truncated while the process does not have it open, or before a kill and not yet read, is continued at the old position (`tail_watcher.cc:175`, `:209`) |
| TailWatcher | `hasty` | a file that is rotated in and out while the one before it is active is never opened (`manager.cc:770`); a truncated file that outgrows its old size between two notifications is taken for the old one; a file truncated between `stat` and `fopen` is read from a wrong place |
| Manager | `mixed` | see the finding of `manager_invalid`; the replaced watcher may also run next to its successor |
| Manager | `invalid` | `startWatchers` returns at the first task that is not valid; later tasks are not started (`manager.cc:633`) |
| Manager | `codec` | a codec for an existing task that is unknown, or that no producer can be made for at that moment (`producer.cc:126`), puts NULL into `m_tails`, which the next refresh dereferences |
| Manager | `away` | enabling a task whose file was rotated locks `m_tail_watchers_mutex` twice (`manager.cc:743`, `:763`) |
| Manager | `dated` | a file of a pattern with a time format that is replaced ends in a call on a null pointer: the watcher is looked up by its path (`manager.cc:765`) |
| PositionFile | `long` (with `MaxSize = 3`, `MaxTotal = 3`) | beyond `IntMax` (2 GB) a restart seeks to a wrong offset (`tail_watcher.cc:167`) |
| PositionFile | `wide` | an inode of more than 32 bits is not recognised after a restart, and the file is read from its head (`file_position_entry.cc:42`) |
| LogKafka | `blocked` | `Manager::stop` waits in `Zookeeper::close` for a watcher that waits for the mutex (`manager.cc:304`): the process does not end |
| LogKafka | `gone` | when no broker comes back `Producer::close` polls for ever and the process does not end (`producer.cc:137`) |
| IOHandler | `MaxLineAtOnce = 0` | a batch size of 0, which nothing refuses (`manager.cc:187`), is complete before its first line: `onNotify` never returns |
| Zookeeper | `overlap` | a thread closes a handle while a watcher of that handle is being called: see the finding of `zk_overlap`; likewise `close` against a watcher |

**Findings** (details in `PROJECT.json`):

* `io_stop_loses`: the position is recorded behind lines that librdkafka refused and only
  `m_lines` holds (`io_handler.cc:227`); an orderly stop with a full queue loses them, which
  `docs/FAQ.md:3` does not name among the causes of data loss.
* `paths_queue_full`: a path that finds the queue full is dropped and its file never
  collected (`task_conf.h:249`); not named there either.
* `manager_invalid`: a task that is not valid is collected after another of its fields
  changed (`manager.cc:734`), against `task_conf.h:182`.
* `zk_overlap`: `zookeeper_close` under `m_zhandle_mutex` waits for a watcher that waits for
  the mutex (`zookeeper.cc:126`), and no configuration arrives any more, against
  `README.md:33`.

## 4. The proofs

Eight modules of theorems, each beside the module it extends. What they prove holds for every
value of the constants that satisfies the module's `ASSUME`: any number of files, lines,
tasks, edits, sessions, versions and any size of batch, line, buffer and queue, where the
runs have a few. `Faults` is a constant too; a theorem that does not mention it holds with
every fault, the others name in an `ASSUME` the faults that break them, which are those of
the table in section 3. Every invariant below was checked by TLC on the run's instance
before it was proved.

### IOHandler

From `ConfigAssumption` (what `config.cc` and `isStateSilentMaxMsValid` refuse; a batch size
of 0 is covered), with crashes, stops and clock jumps: `TypeCorrect`,
`ResumesAtBoundaryAlways`, `NoByteSkippedAlways`, `BatchInOrderAlways`,
`BufferNeverWedgesAlways`, `LinesAreCutRightAlways`, `ExactlyOnceAlways` (the property itself
says "without a kill"), `InactiveIsDrainedAlways` ("unless the clock is set back") and
`ImplementsDeliveryAlways`: `Spec => Delivery!DSpec`, the refinement.

None of these is inductive alone. `IInv` adds to `TypeOK`

* `Shape`: the buffer is the part of the file that ends at the file's offset, the recorded
  position is not beyond the head of the buffer, and which locals are 0 or empty at each `pc`;
* `Resume`: while nothing waits to be sent, the recorded position is where the lines cut so
  far end;
* `Straight(lines)`, `Straight(unsent_lines)`: a line that waits ends before the boundary and
  does not straddle the recorded position. So a crash, which falls back to `pos`, either
  finds a waiting line wholly behind `pos`, where it will be read again, or wholly before it,
  where it is counted as lost; without this no byte of a line cut in two by `pos` would be
  accounted for.

On top of it each property has its own strengthening: `Batch` (both lists of lines are short
enough and in order, since a line appended begins where the last one ended or later),
`Clean` (what the scan has passed, and what a complete scan left, has no delimiter and is
shorter than a line), `CutRight` for every line there is, `Once` (no line ends beyond the
boundary, so a new one is apart from all others) and `Recent` (lines that wait were offered
at the last notification, no longer ago than that notification began). The lemma `StepKinds` sorts the actions by what they do to the
lines: `Quiet`, `CutLine`, `Take`, `KeepUnsent`, `GiveUp`, `Killed`. The refinement maps each
kind to one step of LogDelivery or a stutter.

### LogDelivery

`AtLeastOnceAlways`: `DSpec => []AtLeastOnce`, every byte before the point the collector has
reached was delivered, is held or was given up, for files of every length. The invariant that
goes with it is `Places`: the recorded position is never beyond that point, which is what
makes a kill harmless. With the refinement it is a promise of IOHandler.

### TaskPaths

With every fault, `TypeCorrect` and `QueueInOrderAlways`; without `torn`, `NothingTwiceAlways`;
without `torn` and `late`, and as long as the queue refuses no path (`NoneRefused`),
`NoFileForgottenAlways` and `ChronologicalAlways` (an action property).

`NoneRefused` is a condition on the behaviour: the files that a first update finds fit into
the queue, and the path of a period is in it before the next period begins. Without it the property is
false, which is what `paths_queue_full` shows. `NoneRefusedAlways` proves that it holds, with
every fault, for the first `PathQueueMaxSize + 1` periods: the paths in the queue are different
and earlier than the current one, so there are not enough of them to fill it. The instance of
the run `paths` is of this kind; that of `paths_queue_full` has one period more.

The invariants build on each other:

* `TInv`: `TypeOK`, `Shapes` (what is in memory at each `pc`) and `Mapped` (while the process
  runs, the lines that are watched are those that have an entry; after a start there is at
  most one);
* `QInv`: `QueueInOrder`, `Past` (nothing is queued or recorded that is yet to come) and
  `Sorted` (the lines that are watched are in the order of time and end with the path that is
  being collected). So the last line, which `compact` keeps, is also the latest one;
* `OInv`: what was handed over of a file is before the position of its line, or the queue and
  the lines are beyond the file (`Placed`), and an open file goes on behind what was handed
  over (`Reading`). A kill inside `compact` leaves neither, hence `torn`;
* `Behind`, the converse: everything before a position was handed over;
* `FInv`: there is a line to go on from except while a watcher is being replaced, a watcher
  that has not opened its file by the end of the period has none to open (hence `late`), and a
  file with lines left is watched, in the queue, or not before any line (`Waiting`).

`Refresh` sorts what glob finds by choosing the sequence that is in order (`inOrder`), instead
of calling a sort: there is exactly one, and the proofs need nothing but its order.

### TailWatcher

`TypeCorrect` with every fault; `NothingTwiceAlways` without `hasty`; `NothingMissedAlways` and
`LeftWhenCollectedAlways` (an action property) without `hasty` and `unseen`. All of them allow
`race`. `TInv` says which inodes exist and that every line has its own number. `HInv` says what
the rotate handler knows of the file that is read: unless it is `Mistaken`, which only happens to
the file at the path, they are at the same file, and one found shrunk was read up to the size
seen last (`Handler`); and what `stat` returned is still true when the file is opened, or, for a
first opening, the file is a later one than any that `stat` or the entry names (`Seen`); this is
where `hasty` is excluded. `Fresh`: a line beyond the place where reading goes on was not handed
over, or in a mistaken state. `MInv`: that place is inside the file (`Within`, where `unseen` is
excluded), a line not handed over is behind it (`Accounted`), and what a mistaken handler has
passed was handed over (`Behind`).

### PositionFile

`TypeCorrect` with every fault; `RecordIsFoundAlways` without `wide`;
`ResumesWhereRecordedAlways` (an action property) without `wide` and `long`. `TInv` is `TypeOK` with `Shapes`
(only a process that was killed leaves a torn line, and one that does not run has nothing in
memory) and `Mapped`: while the process runs, the lines that are watched are exactly those
that have an entry in `m_pe_map`. This is what keeps two patterns with the same path apart.
`RInv` says for each pattern that has not been started astray that the last of its lines
that is watched says what was recorded and that the earlier ones have earlier paths (`Recorded`),
and that its tail watcher has that line (`Owned`). Hence `compact`, which keeps the last line
of a pattern, keeps the right one, and `getPath` finds its path. `wide` is excluded where an
inode is cut to the width of a line, `long` by `Fits`: what is recorded fits into an int. That
a set of lines has a last one, which `compact` relies on, is proved from the well-foundedness
of `<` (`MaxIsLast`).

### Manager

`TypeCorrect` with every fault; `InvalidNotCollectedAlways` without `mixed`; `AppliedAlways` without `mixed` and `invalid`; `AliveAlways` with `invalid` only. Each part of `IInv` names
the faults it excludes, so one induction serves all: `Follows` (a watcher has its task's
configuration, runs when that is valid, and has its producer), `ReplacesRunning` (a watcher is replaced only
while it runs and goes on running), `OnlyProducers` (only a missing producer keeps a task from its
watcher), `NextIsSafe` (the next refresh neither stores NULL nor starts a watcher whose file is
away). `InvalidNotCollected` is what `manager_invalid` shows violated with `mixed`: the theorem
says that `mixed` is the only way.

### LogKafka

`TypeCorrect` (with it: the queue shared by tasks stays within its limit) and
`ExitDrainedAlways`, with every fault. A refused line is held by a tail watcher that exists (`HeldByTail`), a
queued one is in a producer that exists (`QueuedInProducer`), and the shutdown takes away the
tail watchers before the producers (`TailsWhen`, `AllDestroyed`). The proof found that
the new place of a line in `notify` was a `CASE` whose arms overlapped (a line that is refused or
offered also belongs to the codec that is polled), of which TLA+ may choose any and TLC takes
the first; it is a chain of `IF`s now.

### Zookeeper

With every fault, `overlap` included: `TypeCorrect`, `ConfigGoesForwardAlways` (an action property) and
`NoChangeMissedAlways`. So the deadlock that `zk_overlap` shows stops the configuration from
arriving, but neither undoes it nor loses the reason to read it again. The
inductive invariant is about the threads: `Plans` says what the steps a thread has left look
like, `Held` that it holds a mutex exactly when its next step is one taken under that mutex,
hence mutual exclusion; `Sessions` and `Life` that sessions are used one after the other;
`Values` that what a thread has read of the configuration is not older than what the process
has. For `NoChangeMissed` `Order`, `Handles` and `Revived` add who connects and that the watch is set
before the configuration is read, and `Covered` is the argument: either somebody will still
set the watch and read, or an event is waiting, or the live handle has its watch and the
cache is current or a thread will read it, or is reading a version that is still the last.

### Only model-checked

Liveness, which is out of the prover's reach: `NotifyReturns`, `FinishedLinesReceived`,
`FinishedFileBecomesInactive`, `FilesCollected`, `EveryLineArrives`, `ConfigTakesEffect`,
`ConfigArrives`, `Registers`, `EveryLineSent`, `ShutdownEnds`. Every invariant and every action property that
the passing runs check is also proved. That the readings of a file can be one step in
TaskPaths and TailWatcher is argued in section 2 from IOHandler's properties, not proved.

## 5. Not modelled, and the plan

Not modelled: the upload of the state (`uploadCollectingState`, `setLogState`: it only reports,
and nothing here reads it back), the reading of settings, command line and JSON field by
field, regular expressions, logging, the property templates, the branch of
`TailWatcher::onRotate` for a handler that was closed and is started again (only the strays of
Manager reach it), `swapState` and `MemoryPositionEntry`, which nobody calls, the PHP tools.
`PROJECT.json` has a reason for each. What a call on a ZooKeeper handle does that another
thread frees during the call is undefined; in the model each call is one step on the handle
that `m_zhandle` is at that moment, and fails when there is none.

Nine tenths of the C and C++ lines of the repository are vendored (the two copies of
googletest under `unittest/lib`, easylogging): they are third-party code and not part of this
system, so the share of all lines that the models cover stays small although every component
of logkafka's own core has a module.

Next: nothing of the plan is left to model; what could be added to the proofs is the converse of
the fault exclusions, that each fault left out of a theorem does break it, which TLC shows
on instances (the table in section 3).
