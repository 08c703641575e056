# Crashpad: a TLA+ model of its capture protocols, its crash report store and the threads that work on it

Crashpad captures crashes of a client process in a handler process, writes a
minidump for each into a *crash report database*, and uploads the reports to a
collection server. Several processes use one database at once (handlers, the
client application that changes settings or asks for uploads, and
`crashpad_database_util`), without a server between them: the file system is the
only shared state. What is hard to test there is what this project models: the
interleavings of several processes' file system calls, processes that die
between two of them, locks that outlive their owners, decisions taken on
metadata that has changed since, and threads that must wake up and stop. So is what
comes before: threads that crash at once, the protocols between a dying client and a
handler that may die too, and data that is read while it is half written.

Paths in this file are relative to the repository; file names without a
directory are modules of this project.

## 1. Inventory

| Component | State | Operations | Hard behaviour | What makes it correct |
|---|---|---|---|---|
| Generic database (`client/crash_report_database_generic.cc`, `client/crash_report_database.cc`) | `new/`, `pending/`, `completed/`, `attachments/`: report, metadata and lock files | prepare, finish, look up, list, get for uploading, record, skip, delete, request, clean | many processes, one step per file call; crashes; lock files with a time to live; cleaning of what looks broken | exclusion; no report lost, uploaded twice or left half-moved; stages in order; locks of the dead reclaimed |
| Settings (`client/settings.cc`) | one file: client id, uploads enabled, last attempt | initialize, getters, setters, recovery | creation race, truncate-then-write, recovery under a second lock | one client id for ever; no lost update; nobody waits for ever |
| Upload thread (`handler/crash_report_upload_thread.cc`) | known reports, the pass it is in | report pending, pass over known and scanned reports, consent, rate limit, upload, skip | stale snapshots, several handlers, clock set back, Stop() in a pass | consent, rate limit, one uploader per report, every report handled, prompt stop |
| Prune thread (`client/prune_crash_reports.cc`, `handler/prune_crash_reports_thread.cc`) | a condition that lives as long as the thread | daily clean and prune | reports that move between two listings, state kept between passes | what stays fits, the oldest go first, nothing goes that need not |
| Worker thread (`util/thread/worker_thread.cc`, `util/synchronization/semaphore_posix.cc`) | `running_`, `do_work_now_`, a semaphore | Start, Stop, DoWorkNow, ThreadMain | unsynchronised flags, wake-ups, join | no lost wake-up, Stop() returns |
| Handler main (`handler/handler_main.cc`) | options, the two threads | start and stop | order of stopping | threads are stopped after the server has returned |
| Windows database (`client/crash_report_database_win.cc`) | one metadata file with a record per report, `reports/`, `attachments/` | the same interface | one lock for all, truncate-then-write in a destructor, which reports no failure; states left by the dead | no record or file lost, one uploader per report, attachments stay with their report |
| macOS and iOS database (`client/crash_report_database_mac.mm`) | files with extended attributes, `flock()`ed or, on iOS, with a start time | the same interface | paths that change under an operation, a record of several calls, any of which may fail | not uploaded twice, attachments stay with their report |
| Linux client (`client/crashpad_client_linux.cc`, `util/linux/exception_handler_client.cc`) | `exception_information_`, `disabled_`, the futex, PR_SET_DUMPABLE | crash signal, DumpWithoutCrash(), CrashWithoutDump(), waits with timeouts, re-raise | several threads at once, shared unlocked state, late answers, a dead handler | the process dies after its dump, the dump is of the thread that asked, nobody waits for ever |
| Linux exception handler server (`handler/linux/exception_handler_server.cc`, `handler/linux/crash_report_exception_handler.cc`) | clients, the request being served, attached threads | credentials, request, strategy, capture, dump done | clients that die, strategies that fail, a shared socket | every request is answered or its wait ends; nothing stays stopped |
| Ptrace broker (`util/linux/ptrace_broker.cc`, `ptrace_client.cc`) | a socket without framing, the memory file | attach, thread info, read memory and files, list, exit | three readers of one stream, errors in the middle of an answer | in step, nobody waiting for one another |
| Ring buffer (`client/length_delimited_ring_buffer.h`, `client/ring_buffer_annotation.h`) | array, data range, write offset | push, pop | wrap-around, varints, a reader that comes in the middle of a push | the newest buffers that fit, whole |
| Annotation list (`client/annotation_list.cc`, `client/annotation.cc`) | a lock-free singly linked list | register, set, clear, walk | compare-and-swap races, a walk at any moment | the walk ends and meets what was added |
| Crash loop detection (`util/backtrace/crash_loop_detection.cc`) | a file with the last runs | append, set crashed, count | client and handlers rewrite it without a lock; the handler is not told whether a dump is of a crash | consecutive crashes are counted |
| Windows client and server (`client/crashpad_client_win.cc`, `util/win/exception_handler_server.cc`) | events, clients, thread pool waits, completion port | register, dump, crash, end, stop | callbacks against the deletion of their client, auto-reset events | every request is seen and is of its own thread |
| Minidump writers, snapshots, Mach handlers, HTTP, dictionaries, utilities, tools | see PROJECT.json | | | |

How they interact. The exception handler prepares a report, writes it, finishes
it and calls the upload thread's `ReportPending()`, which pushes the UUID and
calls `WorkerThread::DoWorkNow()`. The upload thread drains the UUIDs, looks the
reports up, lists `pending/` for others, reads the settings, takes a report with
its lock, uploads it and records the result in the database and in the settings.
The prune thread calls `CleanDatabase()` and deletes reports through the same
database. Other processes call the database's interface at any time. In front of
the exception handler is the client: a thread that crashes leaves the address of
its context in its process, sends a request (a message on Linux, an event on
Windows), waits for the answer (a signal or a message on Linux, an event or its own
death on Windows) and dies or goes on. The handler reads the client's memory,
annotations and ring buffers while the client stands still, wherever its threads
are then.

## 2. Modules

| Module | Models | Checked by | Proved in |
|---|---|---|---|
| `CrashReportDatabase` | the generic database, one step per file system call | `MCDatabase`, `MCLiveness` | `CrashReportDatabaseProofs` |
| `ReportLifecycle` | what the database promises of a report (abstract specification) | as `ImplementsLifecycle` | `CrashReportDatabaseProofs` |
| `WinDatabase`, `MacDatabase` | the databases of Windows and of macOS and iOS | `MCComponents`, `MCWinDatabase` | `WindowsProofs`, `MacDatabaseProofs` |
| `WorkerThread` | the worker thread and its semaphore | `MCLiveness` | `ComponentsProofs` |
| `CrashReportUploadThread` | upload threads of several handlers and what runs beside them; a database call is one step | `MCUploadThread` | `CrashReportUploadThreadProofs` |
| `PruneCrashReports` | the prune thread and its default condition | `MCPrune`, `MCComponents` | `PruneCrashReportsProofs` |
| `Settings` | the settings file under `flock()` | `MCLiveness` | `SettingsProofs` |
| `SignalHandler` | the threads of Linux clients from a crash or a dump request to its end | through `LinuxCapture` | `LinuxCaptureProofs` |
| `LinuxCapture` | the handler's server on the socket that clients share; composes with `SignalHandler` | `MCLinuxCapture` | `LinuxCaptureProofs` |
| `PtraceStrategy` | how the server decides to reach a client; used by the next and the last one | | |
| `PtraceBroker` | handler, client and broker on a socket of their own | `MCComponents` | `ComponentsProofs` |
| `AnnotationList` | the list that the client leaves for the handler to read | `MCComponents` | `ComponentsProofs` |
| `RingBuffer` | the ring buffer that it leaves | `MCComponents`, `MCRingBuffer` | `ComponentsProofs` |
| `CrashLoopDetection` | the file of runs | `MCComponents`, `MCCrashLoop` | `ComponentsProofs` |
| `WinCapture` | clients and server on Windows | `MCComponents` | `WindowsProofs` |

**CrashReportDatabase.** `loc[u]` says in which directory `<u>.dmp` is,
`meta[d][u]` what `<d>/<u>.meta` holds (absent, torn or whole, and its two
flags), `lock[d][u]` the lock file and who made it, `att[u]` the attachments.
A process has `op` (the function it is in), `at` (the position in the function's
`Script`, the sequence of its file system calls), `cur`, `dir`, `rep` (the local
`Report`) and `own` (its live `ScopedLockFile` objects). Each call is an action;
what a failing call leads to is an operation of its own (`Purge` after
`CleaningReadMetadata()` failed, `Drop` for `~NewReport()`, `Failure` for
`~LockfileUploadReport()` and then `~UploadReport()`, `Return` for the lock files'
destructors). `FailCall` lets a call fail, `Crash` lets a process die: its lock
files stay, owned by `Crashed`. A lock file expires (`Expired`) if its time was
written and its creator died; `StallPossible` adds that a creator may outlive the
time to live of three days. Directory listings are the precondition of `Begin`: a
scan comes to a report at some time at which it is listed. `sent` counts what the
server accepted and is not part of the program.

**ReportLifecycle.** A report's stage (unborn, new, pending, completed, dropped,
gone) and whether it is recorded as uploaded; a step moves one report along an
edge of the life cycle, and an uploaded report goes nowhere but away. The mapping
is `stage <- loc` and "uploaded" from the completed metadata.

**WorkerThread.** Start(), Stop() (three steps), DoWorkNow() (three steps) and
ThreadMain() (one step per access of a flag or the semaphore). `running_` and
`do_work_now_` are plain variables used by two threads; accesses are atomic and in
program order, which is what the compilers make of them next to the calls of the
semaphore. `asked` is a history variable.

**CrashReportUploadThread.** Per handler: the finished report that is about to be
made known (`fresh`, `ring`), the vector of known reports, the drained copy, the
listing, and where the thread is in ProcessPendingReports() and
ProcessPendingReport(). Shared: each report's state, request flag and lock holder,
the settings and the clock. A report that is read is a snapshot (`Read`) and may
be stale when it is used. `Event`s are what happens beside: requests, changes of
the setting, other processes' locks, the clock set back, and failing settings or
database calls, a listing that fails (`ListFailed`) among them. The worker thread is reduced to `wake` and `running`; that this is
what WorkerThread does is `RequestSeen` and `WorkServed`.

**PruneCrashReports.** The two listings of a pass, the evaluation of all reports,
newest first, by "size OR age", and the state the condition keeps. A listing that
fails ends the pass (`ListingFailed`). Ticks of the clock are fractions of a day; time does not pass a due pass.

**Settings.** One step each for open, lock, read, truncate, write and unlock: `method`
is what a process executes, `point` how far it is. `Die` lets it die, which unlocks.
`data` is the local `Data`, `given` and `wanted` record what GetClientID() has
returned and what was set last.

**WinDatabase.** `held` is the `Metadata` object of the operation that has the file
locked: its records in memory, and whether its destructor has truncated the file.
An operation that changes a record is an action that sets `held`; truncating and
writing are steps of their own, and a process can be killed, or the call fail, at
each: where the file cannot be rewound or truncated the old records stay, where it
cannot be written it stays empty, and the operation's caller learns of neither.
`unmarked` is a history variable, the reports that were handed out for uploading
although the old record, pending, stayed. `uploadReport` outlives the operation that
made it. When
UploadReport::Initialize() fails, the destructor wants the lock its caller holds,
and `held` stays with a user that waits for itself.

**MacDatabase.** The order of LocateCrashReport(), the lock, the reads and writes of
attributes, and the rename; `ios` chooses between the two builds. A path that was
located may be gone when it is used (`PathGone`). Any call may fail, and what the
operation has done so far stays, as if the process was killed there (`Interrupt`). The
end of an upload is recorded call by call; that of a failed one without the lock, which
`UploadReportMac` gives up before `~UploadReport()` records it. `unrecorded` is a
history variable, the reports whose state no longer says what became of their upload
(`LosesRecord`).

**SignalHandler and LinuxCapture.** `proc[p]` has what the threads of a process
share, `thread[t]` what a thread has for itself. An address into a thread's stack
is the thread. The server attaches to the threads one by one, reads the exception
information once they stand, writes the dump and sends kDumpDoneSignal to the
requesting thread or, if it does not know it, to all. `Killed` ends the handler
anywhere; `Run()` ends when a strategy is an error, as in the code, and the socket
is then closed for all. `loose` and `overlap` are history variables: a wait timed
out or a signal was broadcast, and two requests of one process overlapped.

**PtraceBroker.** What one side writes in one call and the other reads in one call
is one token; `Answers` lists the token sequences that an answer can be, `Expected`
the tokens that the reader takes at its place. Each side reads, counts and gives up
on its own. A client that returns from RequestCrashDump() closes its end.

**RingBuffer.** Bytes are kept, the varint base is smaller than 128 so that lengths
of two bytes occur, and Push() is cut where a crash leaves something else for the
reader. The reader's copy is the annotation's `size_` bytes of the array, the rest
zero.

**AnnotationList.** One step per atomic access of Register() and Add(); a list's
tail is the list itself. `Walk` is the handler's walk, of the state as it is.

**CrashLoopDetection.** `writer[0]` is the client, `writer[w]` the handler of run w,
from the request to its load of the file, its truncation and its write, with the lines
it has loaded. `crashed` has the runs that crashed, `dumped` those that HandleException()
was called for: the request of a crash and that of DumpWithoutCrash() are the same to
it. A dump that is refused, or made through a broker, leaves the run unmarked
(`LeaveUnmarked`). The append of StartHandler() is modelled as evaluated, though it
stands inside a DCHECK (`client/crashpad_client_linux.cc:476`).

**WinCapture.** The events are auto-reset; a callback begins (`BeginCallback`), gets
the client's lock (`LockClient`) and ends in one of the three On...() functions.
Deleting a client waits until its callbacks have ended (`Quiet`). The delegate is
reduced to the suspension of the client while it runs.

PROJECT.json maps every definition to the lines it stands for.

## 3. Runs

All passing runs together take every action. Deadlock checking is off: in every run
the bounds, or a process that has nothing left to do, end a behaviour. That nobody
waits for ever is stated by properties (`StopReturns`, `MethodsReturn`, `HandlerLeft`,
`NobodyStuck`).

| Run | Shows |
|---|---|
| `database_all` | 2 processes, one of them the cleaner, 1 report, all operations but `LookUp` (its calls are the first four of `Upload`, and `database_locked` has it), 1 crash, 1 failing call. `LockHeldByOwner`: the lock files exclude. `FlagsMatchState`: the flags are where the header says they can be. `ImplementsLifecycle`: the code implements `ReportLifecycle`. |
| `database_locked` | 3 processes, 1 crash, all operations but RequestUpload() and failing uploads. `NoReportLost`, `AttachmentsKept`, `UploadedOnce`, `LockedChanges`, and `CleanWhenQuiet`: nothing is left half done. |
| `database_request` (violation) | RequestUpload() loses a report, see below. |
| `liveness` | `StampedLockReclaimed`: dead processes' lock files are removed, with 2 crashes. `RequestSeen`, `StopReturns`, `WorkServed` with an indefinite interval, the case in which only signals wake the thread. Settings: 2 processes, 7 calls; `OneClientID`, `SettingsKept` until a process dies, and `MethodsReturn` with one dying anywhere. |
| `upload_one` | one handler, two reports: `RateLimited`, `StopPrompt`, `PendingProcessed`. |
| `upload_two` | two handlers and everything that may fail: `UploadedWithConsent`, `UploadsExclusive`, `TriedOncePerPass`. |
| `prune_daily` (violation) | the second pass deletes reports that fit. |
| `crash_loop` (violation) | a run that asked for a dump and ended normally is counted as a crash. |
| `linux_capture` | two threads of one client, one of which may ask for dumps before the other crashes, the handler dying anywhere. `DiesAfterDump`: the process does not die under a dump of its crash. `ReportNamesRequester`, `TraceableWhileAsked` for requests that do not overlap. `HandlerLeft`: every thread leaves the signal handler. |
| `ring_buffer` (violation) | a buffer of more than half of the capacity is not written. |
| `win_attachments` (violation) | cleaning removes the attachments of reports that exist. |
| `components` | eight components that share no state, see below. |

`components` and `liveness` check several components in one run: the variable
`active` names the one whose steps a behaviour takes, the others stay in an initial
state (`MCComponents`, `MCLiveness`). Every state that a component has by itself is
reached so, and no product of components is built. A component that stands still
does not help another one's liveness: in `liveness` no fair action of a component is
enabled in its initial state. The properties of `components`:

* `PassEnforcesLimits`, `NewestKept` (prune, two passes, three reports): what a pass
  leaves of the reports it found fits and is young enough, the oldest go first, and
  the first undisturbed pass deletes nothing that could stay.
* `InStep`, `NobodyStuck` (broker): every reader finds what it expects, and
  somebody can always go on until the client has returned. Four calls in any order,
  with every piece an answer can have, errors and kills.
* `RingHoldsNewest` (ring buffer): between calls, and wherever a Push() is cut off,
  the reader gets the newest buffers that fit. With lengths of up to 4 of a capacity
  of 9, the lengths for which the code does so.
* `AnnotationsReachable` (list): two threads, three annotations, two lists.
* `DumpsCounted` (crash loop): three runs, two lines. What the next start reads is the
  number of last consecutive runs that HandleException() was called for, while writes
  are neither cut off nor mixed up; and whatever happens to them, the file is no longer
  than it may be, in order, and marks no other run. That those runs have *crashed* is
  not so, see `crash_loop`.
* `WinDumpsServed` (Windows capture): two clients, three threads, two dumps each.
* `WinUploadedOnce`, `WinReportsKept`; `MacUploadedOnce`, `MacAttachmentsKept`: two
  users, and a kill or a failing call anywhere. `WinReportsKept` is about the time
  before. The two others have no such condition: they excuse the reports (`unmarked`,
  `unrecorded`) whose upload the failure has left without a trace, and no others.

Bounds and why they are enough. The generic database's operations work on one report
and share nothing between reports, so one report with two or three processes has all
of their conflicts; a third process is needed for a lock that is broken and taken
again. On Windows the reports share a file, and there are two. One crash and one
failing call reach every recovery path, two crashes the crash of the recovering
process. The semaphore's bound of 3 exceeds what Stop() and one request need. Two
reports in `upload_one` give the rate limit something to limit; an hour is two ticks,
so an attempt can be too early by one. Three reports let one fit, one not, and one be
in between, with sizes of half a kilobyte and one and a half; the passes are two
because state is kept between them. Two threads of a client have every race for the
shared fields; a third one would wait as the second does. Five pushes fill the ring
and go around its end with each length. Three runs of an application with two lines in
the file let a line drop out. `components` uses the symmetry of the prune thread's
reports, about which only invariants and an action property are checked.

Fairness. `WF` of a thread's own steps: the operating system runs it, finite waits
end (the 5 seconds of sigtimedwait() and of the futex in the Linux client), uploads
have a timeout (`kUploadReportTimeoutSeconds`), and `flock()` gives a free lock to
one that waits. Locks that other processes have taken are released. `SF` of the
cleaning of a lock file in `liveness`: the prune thread makes a pass every day and
lists all of them, and the time to live passes; cleaning a lock is only now and then
possible because the cleaner is busy with others. Nothing is assumed of what users
do, nor that the handler lives.

Every property has a mutant: a plausible mistake in one of the modelled functions
with which TLC finds it violated. They stand before the definition they change.

## 4. Where code and documentation disagree

Five violation runs state what a comment says and show a behaviour of the code
that does not do it (PROJECT.json quotes the lines):

* `database_request`: RequestUpload() moves a completed report to `pending/`
  holding only `completed/`'s lock, and writes the metadata afterwards. A scan in
  between finds a report without metadata and deletes it.
* `prune_daily`: `measured_size_in_kb_` is never reset, and the prune thread uses
  one condition for all of its passes: after some days every report is over the
  limit.
* `ring_buffer`: WriteBytesToRingBuffer() compares a length with the capacity less
  the room that was made for it, refuses what is longer, and Push() does not look at
  the result.
* `win_attachments`: the Windows database looks for `<uuid>dmp` when it decides
  whether attachments are orphaned.
* `crash_loop`: ConsecutiveCrashesCount() is to count "the number of last consecutive
  runs having crashed"; the handler marks a run for DumpWithoutCrash() as well, and the
  application may be put into safe mode by runs that ended normally.

Other limits of the code, which the properties' conditions spell out:

* Generic database: a lock file whose creator died before it wrote the time is never
  reclaimed (`StampedLockReclaimed` is for stamped ones); with two cleaners an expired
  lock can be removed twice, the second time from a live process (`LockHeldByOwner` is
  for one); a failed upload is recorded after its lock is released, and
  RequestUpload() writes without `pending/`'s lock (`LockedChanges`, `AttachmentsKept`
  are without them). Two failing calls lose the record of an upload: reading the
  metadata fails, so the report is to be purged; removing the report fails, too; then
  its metadata is removed, and a completed report that was uploaded no longer says so.
  TLC finds `ImplementsLifecycle` violated so with `MaxFaults = 2`; the run and the
  theorem are for at most one failing call.
* Settings: a process that dies between the truncation and the write loses the client
  id and the settings (`OneClientID`, `SettingsKept` are until somebody dies).
* Threads: a DoWorkNow() during DoWork() is dropped if Stop() follows (`WorkServed`);
  two handlers can both pass the rate limit (`RateLimited` is for one); without
  `watch_pending_reports` a known report that is busy for a moment stays pending
  (`PendingProcessed` is with it); the age limit is that of the handler's start, and a
  report that moves between the two listings is counted twice (`NewestKept` is of an
  undisturbed first pass).
* Linux capture: threads whose DumpWithoutCrash() overlap share one
  `exception_information_` and one dumpable flag (`overlap`); a timeout, or a signal
  that is broadcast because the requesting thread is unknown, may end a wait before
  its dump is done (`loose`).
* Annotations: two threads that register a list at the same moment make two, and the
  annotations of one are lost.
* Crash loop file: overlapping writes lose an entry or leave the file empty for a
  reader (`disturbed`); what then remains true is the second half of `DumpsCounted`. A run whose crash is
  refused by the ptrace strategy, or captured through a broker, is not counted.
* Windows: a client whose handler leaves waits for its DumpWithoutCrash() for ever;
  a kill or a failing write while the metadata is being written loses all records
  (`WinReportsKept` is without faults); a report in state kUploading stays so when its
  handler dies; and when the file does not truncate while GetReportForUploading() returns,
  the report is handed out and still pending, for others to upload too (`unmarked`).
  `~NewReport()` removes nothing on Windows, against
  `client/crash_report_database.h:290-292`: the removers are destroyed before the writers
  have closed the files, which are not open for deletion. The cleaning removes them later;
  no run is about it.
* macOS and iOS: on macOS an uploader that is killed, or one of whose calls fails, between
  the server's answer and the end of RecordUploadAttempt() leaves a report that is
  uploaded again; on iOS, where upload_start_time stays, so does a SkipReportUpload() that
  stops half way, and a RequestUpload() during an upload (`unrecorded`, `requests`).
  RequestUpload() moves a report back while the cleaning of attachments looks for it
  (`MacUploadedOnce`, `MacAttachmentsKept`).

## 5. Proofs

The theorems hold for every value of the constants that satisfies the modules'
ASSUMEs: any number of processes, threads, reports, operations, crashes and failing
calls. A theorem that needs more says so in its own ASSUME, and the runs' instances
satisfy it. Every inductive invariant has the type invariant as its first part.

**The generic database** (`CrashReportDatabaseProofs`).

* `TypeCorrect` — `TypeOK`. The strengthening says that every process stands inside
  its script (`at <= Len(Script[op])`), which needs facts about the scripts
  (`ScriptOrder`, `CallOrder`).
* `FlagsCorrect` — `FlagsMatchState`, with `RequestsNotUploaded`: past the read, a
  RequestUpload() has metadata that does not say uploaded. That is why writing
  without the lock still does no harm to the flags.
* `LockCorrect` — `LockHeldByOwner`, assuming one cleaner and no stalls
  (`OneCleaner`). The inductive invariant `LockInv` adds that a process past its
  acquire owns the lock file (`LockedAfterAcquire`), that idle processes own none,
  and that the lock being broken is a dead process's until it is removed
  (`BreaksDeadLocks`); the last is what a second cleaner would invalidate.
* `DatabaseImplementsLifecycle` — `Spec` implements `ReportLifecycle` under the mapping
  of section 2, assuming `OneCleaner` and at most one failing call (`FewFaults`, see
  section 4). `RefInv` adds to the locks which of them each operation has at each place
  (`HoldsLocks`); that a record "uploaded" is only of a report in `completed/` or
  removed from it (`RecordsPlaced`); and that what a process has found out under the
  lock is still so (`Known`), e.g. that the report whose metadata CleanMeta is about to
  remove is not there. `Exclusive` is the lemma that makes `Known` inductive: no two
  processes may use one directory's files of a report. Each file system call is then
  shown to be a stutter, a move of one report along an edge, or a record.

**The generic database used under its locks** (`CrashReportDatabaseProofs`), for what
the run `database_locked` checks: all operations but the two that write to `pending/`
without its lock (`LockedOnly`), and `OneCleaner`.

* `AcceptedOnce` (`UploadedOnce`) and `ChangesAreLocked` (`LockedChanges`, with no
  failing calls at all: a failing one can leave a report where its operation does not
  expect it). `LockedInv` says that a lock file is its owner's, a dead process's or not
  there (`LockFiles`); what each process does not own yet (`Owns`) and has found under
  the lock (`Found`); that a report is never behind the directory somebody looks in
  (`Forward`); that `completed/` has something of a pending report only from the owner
  of its lock in `pending/` (`Ahead`); that a new report has one writer; and that an
  accepted report has left `pending/`, is with its uploader, or under a dead one's lock
  (`Sent`).
* `QuietIsClean` (`CleanWhenQuiet`), `OnlyDeletedIsLost` (`NoReportLost`),
  `AttachmentsStay` (`AttachmentsKept`). `OrderInv` adds, until something crashes or
  fails, what the owner of a lock has left in the directory at each place of its script
  (`Contents`), that a report and its metadata are together where nobody has the lock
  (`Tidy`), and that neither cleaners nor readers find anything to remove (`Orderly`).

**The other databases.**

* `WindowsProofs!WinTypes`, `WinUploads` (`WinUploadedOnce`): `UploadInv` says that a
  report being uploaded is marked kUploading in memory and, unless its uploader is just
  writing, on the disk (`Marked`), and that the records of accepted reports offer them
  to nobody (`AcceptedClosed`), both for the reports that are not `unmarked`. `WinReportsStay` (`WinReportsKept`): `Kept` is about the
  records that the next user will find, those in memory while the file is locked.
* `MacDatabaseProofs!MacTypes`, `MacAttachmentsStay` (`MacAttachmentsKept`): a report is
  not in a directory that the cleaning has already looked in (`Passed`). `MacUploads`
  (`MacUploadedOnce`): on macOS the lock of the uploader (`HasLock`, `LockedReport`), on
  iOS the mark that it has left unless somebody is just moving the report
  (`MarkedReport`); an accepted report is not offered again unless it is `unrecorded`.

**Threads and settings.**

* `CrashReportUploadThreadProofs!UploadThreadTypes`; `UploadsDoNotOverlap`
  (`UploadsExclusive`): who uploads is the holder (`Locked`). `StopIsPrompt`
  (`StopPrompt`): a thread that has begun one report after Stop() is on its way to the
  end (`Stopped`). `ConsentIsNeeded` (`UploadedWithConsent`): consent is there wherever
  a decision can be based on it, in snapshots too (`Consented`, with `Born`).
  `TriedOnce` (`TriedOncePerPass`): what is still to come in a pass was not tried, and
  what the scan lists again is known (`TriedPassed`, with `ToldOnce`).
  `UploadsThrottled` (`RateLimited`), assuming one handler whose clock, settings and
  database nobody disturbs (`OneCalmHandler`): whoever has passed the limit has the last
  attempt an hour behind (`HourPassed`).
* `ComponentsProofs!WorkerTypeCorrect`, `RequestAlwaysSeen` (`RequestSeen`) — for any
  number of callers no request can be slept through; needs only that running_ is false
  while Stop() is under way. `StopNeverStuck` — `StopNotStuck`, if only the owner calls
  DoWorkNow(). The invariant `StopInv` counts signals: while Stop() joins, the thread has
  one more than a request made before will use up (`JoinSignals`).
* `PruneCrashReportsProofs!PruneTypeCorrect`, `PassAlwaysEnforces`
  (`PassEnforcesLimits`), `NewestAlwaysKept` (`NewestKept`), for any finite set of
  reports, any sizes and limits and any number of passes. `PruneInv` says of a pass that
  is under way that all_reports has what was listed (`Listing`), that what is still to
  come is no newer than what is done with (`NewestFirst`), that what was left so far fits
  and is counted in `measured_size_in_kb_` (`Enforced`), and of the first one that every
  report is counted once (`FirstPass`). The facts about sums over finite sets that this
  needs are proved from the library's definition of a fold: `SubsetInduction` takes a
  least counterexample instead of an induction over an operator, `SumsExist` and
  `SumsAgree` make the sum one that can be reasoned about, and `SumAdd`, `SumMore` and
  `SumTimes` say how it grows.
* `SettingsProofs!SettingsTypeCorrect`, `ClientIDStable` (`OneClientID`) and
  `NoUpdateLost` (`SettingsKept`). The invariant `IDInv` says that where a process
  is tells its lock, that an exclusive lock excludes all others, that one id is in
  the file and in everything about to be written or returned, and that the file is
  invalid only while somebody writes it; `KeptInv` that what is about to be written
  differs from what is wanted in the setting being set only. Both are carried until
  the first death.

**Capture.**

* `LinuxCaptureProofs!LinuxCaptureTypes` (`TypeOK`), `CrashIsDumped` (`DiesAfterDump`),
  `ReportIsTheRequesters` (`ReportNamesRequester`), `WaitingIsTraceable`
  (`TraceableWhileAsked`), for any number of processes and threads. The invariant
  counts the requests of a thread (`AskedBound`), has them served in the order they were
  sent (`InOrder`), lets one thread crash at a time (`OneCrasher`), has a thread wait
  for the request it sent last until something times out (`InStepWithServer`), and has
  the shared fields belong to the thread being served until requests overlap
  (`OneRequester`).
* `ComponentsProofs!BrokerTypeCorrect`, `AlwaysInStep` (`InStep`), for any number of
  calls and pieces. `BrokerInv` says where the broker can be, given the client and the
  handler (`Parties`), what the first and the last message under way are (`HeadFits`,
  `LastFits`), that messages follow one another as calls do (`InOrder`), and that what
  the handler has read of an answer, what is under way and what the broker has still to
  write are together one answer that the handler can read (`Underway`). That every
  answer of `Answers` is such a `WellFormed` one is proved of its definition.
* `ComponentsProofs!NeverStuck` (`NobodyStuck`). Who waits is said by what each reads and
  what is under way (`ClientWaits`, `BrokerWaits`, `HandlerWaits`); `StuckInv` adds to
  `BrokerInv` that a handler waits for the next request only once it has told the client
  how this one ended (`Told`).
* `ComponentsProofs!ListTypeCorrect`, `AlwaysReachable` (`AnnotationsReachable`), for any
  annotations, lists and threads. `ListInv` has each list be a chain without repetition
  (`InChain` has the chain as a witness), every annotation whose insertion is done be in
  one, and each that is claimed and not inserted be one thread's (`SetterOK`). The walk
  then goes along the chain, which is no longer than there are annotations.
* `ComponentsProofs!RingTypeCorrect`, `RingAlwaysHoldsNewest` (`RingHoldsNewest`), for any
  capacity, varint base and bytes and any number of pushes, assuming that the lengths are
  such that WriteBytesToRingBuffer() writes what Push() has made room for
  (`WholeBuffers`). The code needs that: the run `ring_buffer` adds one length for which
  it is not so, and TLC finds the property violated; those of the run `components`
  satisfy it. `RingInv`, kept by `RingLayoutKept`, sees the array as the last bytes of an
  endless one in which every buffer has a position (`Layout`): the range goes from the
  oldest buffer for which there is room to the newest, every buffer that is to stay is
  there as its varint and its bytes, and a Push() has written what its place says
  (`Pushing`). `ReadsVarint` says that decoding is the inverse of encoding, for every
  length; `PopsItems` and `MakesRoom`, that the reader and Push() go from position to
  position; `NewestIs`, that those positions are the ones of the specification. The
  model's loops are recursive functions; `RecursionExists` and `StepByStep`, by least
  counterexample, say that there is such a function and what its last value is.
* `WindowsProofs!WinCaptureTypes`, `DumpsAreServed` (`WinDumpsServed`): until the server
  leaves it watches every client that knows of it (`Watched`); a signalled crash stays
  with its thread (`CrashServed`); a dump request is in exactly one place (event set,
  callback begun, answered) and is the one of the lock's holder (`DumpServed`).
* `ComponentsProofs!LoopTypeCorrect`, `LoopCounted` (`DumpsCounted`), for any number of
  runs and lines. `LoopInv` says that the lines in the file and those that each writer
  is going to write are `Sound`, and `Complete` until writes are cut off or meet; the
  file's lines alone would not be inductive, as a writer replaces them by what it
  loaded earlier.

Only model-checked:

* liveness (`StampedLockReclaimed`, `StopReturns`, `WorkServed`, `PendingProcessed`,
  `MethodsReturn`, `HandlerLeft`), which is beyond the prover;
* `RingHoldsNewest` for lengths outside `WholeBuffers`, of which it is not true;
* `TypesOK` of `MCComponents` as a whole; each of its parts is a theorem of its own.

## 6. Not modelled

* The lock file variant of Settings and failing file calls there; the iOS retry path
  of the upload thread. In CrashReportUploadThread a failed attempt is recorded as its
  lock is released, in one step; the code releases the lock first, which
  CrashReportDatabase has call by call.
* On macOS and iOS, a look of the cleaning of attachments (IsRegularFile(), or the
  attribute that LocateCrashReport() reads) that fails although the report is there.
* LaunchAtCrashHandler of the Linux client (a fork and an exec at the crash), signal
  stacks, and paths that are too long for the broker's buffer.
* Windows error reporting, DumpAndCrashTargetProcess(), and how the handler's process
  is started in the background: the model knows whether it started.
* The Mach handlers, the iOS in-process handler and the child port handshake: they
  need a model of Mach ports that the repository gives little of.
* Minidump writers and snapshots, which are most of the repository's lines: they
  compute, parse and lay out data in one thread. HTTP, dictionaries, file and string
  utilities, and the command line tools.

Contents of reports and attachments, logging and metrics are abstracted everywhere.
PROJECT.json gives the reason for each component.

## 7. State of the plan

Done: the databases of all platforms, the generic one with its abstract
specification; worker, upload and prune threads; settings; capture on Linux (shared
and own sockets, the broker) and Windows; ring buffer, annotation list and crash loop
file; the refinement of `ReportLifecycle` and the safety properties of all modules,
for every value of the constants. What a continuation would take up:

1. the components of section 6 that keep state over several calls, the Mach handlers
   first;
2. shorter proofs: lemmas that two proof modules share, such as frames for a step of
   one process.
