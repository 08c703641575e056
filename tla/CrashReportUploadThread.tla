---------------------- MODULE CrashReportUploadThread ----------------------
(***************************************************************************)
(* handler/crash_report_upload_thread.cc: the threads that upload pending  *)
(* crash reports, one in every handler process that shares a database, and *)
(* what runs beside them: each handler's exception-handling thread, the    *)
(* users of the database's interface and the clock.                        *)
(*                                                                         *)
(* Every call of the database is one step here; what happens inside one is *)
(* CrashReportDatabase's subject.  The thread's loop is WorkerThread's: a  *)
(* handler is told by wake that it was asked to DoWorkNow().               *)
(***************************************************************************)
EXTENDS Naturals, Sequences, FiniteSets

CONSTANTS
    Handlers,  \* the handler processes
    Reports,   \* the UUIDs of the reports that may be made
    Watch,     \* options_.watch_pending_reports
    RateLimit, \* options_.rate_limit
    Hour,      \* kUploadAttemptIntervalSeconds, in ticks of the clock
    Day,       \* kBackwardsClockTolerance, in ticks of the clock
    MaxClock,  \* bound: the last time of the clock
    MaxEvents, \* bound: how often something of Events happens
    Events,    \* what happens beside the handlers' work
    MayStop,   \* do handlers stop?
    Free, Other \* who has a report's lock: nobody; a process without upload thread

ASSUME UploadAssumption ==
    /\ Watch \in BOOLEAN /\ RateLimit \in BOOLEAN /\ MayStop \in BOOLEAN
    /\ Hour \in Nat \ {0} /\ Day \in Nat /\ MaxClock \in Nat /\ MaxEvents \in Nat
    /\ Hour <= MaxClock
    /\ Reports # {}
    /\ Free \notin Handlers /\ Other \notin Handlers /\ Free # Other

VARIABLES
    place,     \* place[u]: "unborn", or the state of report u
    requested, \* the reports with upload_explicitly_requested
    holder,    \* holder[u]: who has the lock of u
    enabled,   \* Settings: uploads are enabled
    last,      \* Settings: last_upload_attempt_time
    clock,     \* the time
    fresh,     \* fresh[h]: the report that h's exception handler has finished
    ring,      \* ring[h]: h's exception handler is about to call DoWorkNow()
    queue,     \* queue[h]: known_pending_report_uuids_
    wake,      \* wake[h]: DoWorkNow() was called and no pass has begun since
    running,   \* running[h]: thread_.is_running()
    pc,        \* pc[h]: where h's upload thread is
    known,     \* known[h]: known_report_uuids, drained when the pass began
    todo,      \* todo[h]: those of them not yet come to
    unread,    \* unread[h]: what GetPendingReports() lists and has not read yet
    scan,      \* scan[h]: the reports it returned that are not yet come to
    item,      \* item[h]: the Report that is being processed
    events,    \* how many Events happened
    consent,   \* the reports whose upload was allowed at some time
    begun,     \* when the last upload attempt began; 0 if there was none
    tried,     \* tried[h]: the reports h tried to upload in this pass
    late       \* late[h]: how many reports h has begun to process since Stop()

dbVars == <<place, requested, holder>>
settings == <<enabled, last>>
handing == <<fresh, ring, queue, wake>>
pass == <<known, todo, unread, scan, item>>
ghosts == <<consent, begun, tried, late>>
vars == <<dbVars, settings, clock, handing, running, pc, pass, events, ghosts>>

\* A Report as it was read: its metadata may have changed since.
Snapshot == [uuid : Reports, requested : BOOLEAN]
Read(u) == [uuid |-> u, requested |-> u \in requested]

TypeOK ==
    /\ place \in [Reports -> {"unborn", "pending", "skipped", "uploaded"}]
    /\ requested \subseteq Reports
    /\ holder \in [Reports -> Handlers \cup {Free, Other}]
    /\ enabled \in BOOLEAN
    /\ last \in 0..MaxClock
    /\ clock \in 0..MaxClock
    /\ fresh \in [Handlers -> SUBSET Reports]
    /\ ring \in [Handlers -> BOOLEAN]
    /\ queue \in [Handlers -> Seq(Reports)]
    /\ wake \in [Handlers -> BOOLEAN]
    /\ running \in [Handlers -> BOOLEAN]
    /\ pc \in [Handlers -> {"wait", "known", "open", "list", "scan", "process", "limit",
                            "get", "upload", "complete", "destroy", "skip", "next", "exit"}]
    /\ known \in [Handlers -> Seq(Reports)]
    /\ todo \in [Handlers -> Seq(Reports)]
    /\ unread \in [Handlers -> SUBSET Reports]
    /\ scan \in [Handlers -> SUBSET Snapshot]
    /\ item \in [Handlers -> Snapshot]
    /\ events \in 0..MaxEvents
    /\ consent \subseteq Reports
    /\ begun \in 0..MaxClock
    /\ tried \in [Handlers -> SUBSET Reports]
    /\ late \in [Handlers -> 0..2]

\* last_upload_attempt_time is 0 at first, which is long ago.
Init ==
    /\ place = [u \in Reports |-> "unborn"]
    /\ requested = {}
    /\ holder = [u \in Reports |-> Free]
    /\ enabled \in BOOLEAN
    /\ last = 0
    /\ clock = Hour
    /\ fresh = [h \in Handlers |-> {}]
    /\ ring = [h \in Handlers |-> FALSE]
    /\ queue = [h \in Handlers |-> <<>>]
    /\ wake = [h \in Handlers |-> FALSE]
    /\ running = [h \in Handlers |-> TRUE]
    /\ pc = [h \in Handlers |-> "wait"]
    /\ known = [h \in Handlers |-> <<>>]
    /\ todo = [h \in Handlers |-> <<>>]
    /\ unread = [h \in Handlers |-> {}]
    /\ scan = [h \in Handlers |-> {}]
    /\ item \in [Handlers -> {[uuid |-> CHOOSE u \in Reports : TRUE, requested |-> FALSE]}]
    /\ events = 0
    /\ consent = {}
    /\ begun = 0
    /\ tried = [h \in Handlers |-> {}]
    /\ late = [h \in Handlers |-> 0]

----------------------------------------------------------------------------
(***************************************************************************)
(* Beside the upload threads.                                              *)
(***************************************************************************)

\* One of the bounded things that happen happens.
Event(e) ==
    /\ e \in Events
    /\ events < MaxEvents
    /\ events' = events + 1

\* FinishedWritingCrashReport(), called by h's exception handler.
FinishReport(h, u) ==
    /\ running[h]
    /\ fresh[h] = {} /\ ~ring[h]
    /\ place[u] = "unborn"
    /\ place' = [place EXCEPT ![u] = "pending"]
    /\ fresh' = [fresh EXCEPT ![h] = {u}]
    /\ consent' = IF enabled THEN consent \cup {u} ELSE consent
    /\ UNCHANGED <<requested, holder, settings, clock, ring, queue, wake, running, pc, pass,
                   events, begun, tried, late>>

\* ReportPending(): the report is made known ...
PushBack(h) ==
    /\ \E u \in fresh[h] : queue' = [queue EXCEPT ![h] = Append(@, u)]
    /\ fresh' = [fresh EXCEPT ![h] = {}]
    /\ ring' = [ring EXCEPT ![h] = TRUE]
    /\ UNCHANGED <<dbVars, settings, clock, wake, running, pc, pass, events, ghosts>>

\* ... and the thread is asked to work, if it is running.
AskToWork(h) ==
    /\ ring[h]
    /\ ring' = [ring EXCEPT ![h] = FALSE]
    /\ wake' = [wake EXCEPT ![h] = running[h]]
    /\ UNCHANGED <<dbVars, settings, clock, fresh, queue, running, pc, pass, events, ghosts>>

\* Stop(), called once the exception handler server has returned.
Stop(h) ==
    /\ MayStop
    /\ running[h]
    /\ fresh[h] = {} /\ ~ring[h]
    /\ running' = [running EXCEPT ![h] = FALSE]
    /\ UNCHANGED <<dbVars, settings, clock, handing, pc, pass, events, ghosts>>

\* CrashReportDatabase::RequestUpload(): an uploaded report is refused.
RequestUpload(u) ==
    /\ Event("request")
    /\ holder[u] = Free
    /\ place[u] \in {"pending", "skipped"}
    /\ place' = [place EXCEPT ![u] = "pending"]
    /\ requested' = requested \cup {u}
    /\ consent' = consent \cup {u}
    /\ UNCHANGED <<holder, settings, clock, handing, running, pc, pass, begun, tried, late>>

\* Settings::SetUploadsEnabled().
SetUploadsEnabled ==
    /\ Event("enable")
    /\ enabled' = ~enabled
    /\ consent' = IF enabled THEN consent ELSE consent \cup {u \in Reports : place[u] # "unborn"}
    /\ UNCHANGED <<dbVars, last, clock, handing, running, pc, pass, begun, tried, late>>

\* Another process works on a report for a while, and changes nothing.
OtherLocks(u) ==
    /\ Event("lock")
    /\ place[u] = "pending" /\ holder[u] = Free
    /\ holder' = [holder EXCEPT ![u] = Other]
    /\ UNCHANGED <<place, requested, settings, clock, handing, running, pc, pass, ghosts>>

OtherUnlocks(u) ==
    /\ holder[u] = Other
    /\ holder' = [holder EXCEPT ![u] = Free]
    /\ UNCHANGED <<place, requested, settings, clock, handing, running, pc, pass, events, ghosts>>

\* Time passes.
Tick ==
    /\ clock < MaxClock
    /\ clock' = clock + 1
    /\ UNCHANGED <<dbVars, settings, handing, running, pc, pass, events, ghosts>>

\* Somebody sets the clock back.
SetBack ==
    /\ Event("clock")
    /\ clock' \in 0..clock
    /\ UNCHANGED <<dbVars, settings, handing, running, pc, pass, ghosts>>

----------------------------------------------------------------------------
(***************************************************************************)
(* ProcessPendingReports().                                                *)
(***************************************************************************)

\* h's upload thread goes on at l.
Goto(h, l) == pc' = [pc EXCEPT ![h] = l]

\* ThreadMain() calls DoWork(): the interval is over or DoWorkNow() was called.
\* The reports made known since the last pass are drained.
BeginPass(h) ==
    /\ pc[h] = "wait"
    /\ wake[h] \/ (running[h] /\ Watch)
    /\ wake' = [wake EXCEPT ![h] = FALSE]
    /\ known' = [known EXCEPT ![h] = queue[h]]
    /\ todo' = [todo EXCEPT ![h] = queue[h]]
    /\ queue' = [queue EXCEPT ![h] = <<>>]
    /\ tried' = [tried EXCEPT ![h] = {}]
    /\ Goto(h, "known")
    /\ UNCHANGED <<dbVars, settings, clock, fresh, ring, running, unread, scan, item,
                   events, consent, begun, late>>

\* The thread has been stopped and was not asked to work again: it ends.
ExitThread(h) ==
    /\ pc[h] = "wait"
    /\ ~running[h] /\ ~wake[h]
    /\ Goto(h, "exit")
    /\ UNCHANGED <<dbVars, settings, clock, handing, running, pass, events, ghosts>>

\* DoWork() returns and do_work_now_ is cleared; that does not matter to a
\* thread that is running, which has been signalled as well.
EndPass(h) ==
    /\ Goto(h, "wait")
    /\ known' = [known EXCEPT ![h] = <<>>]
    /\ todo' = [todo EXCEPT ![h] = <<>>]
    /\ unread' = [unread EXCEPT ![h] = {}]
    /\ scan' = [scan EXCEPT ![h] = {}]
    /\ wake' = [wake EXCEPT ![h] = @ /\ running[h]]

\* A call of ProcessPendingReport(): late is counted for StopPrompt.
Process(h, report) ==
    /\ item' = [item EXCEPT ![h] = report]
    /\ late' = [late EXCEPT ![h] = IF running[h] \/ @ = 2 THEN @ ELSE @ + 1]
    /\ Goto(h, "process")

\* The next report that was made known is looked up and processed.  A report
\* that is not found, or whose lock somebody else has, is passed over.
LookUpKnown(h) ==
    /\ pc[h] = "known"
    /\ todo[h] # <<>>
    /\ todo' = [todo EXCEPT ![h] = Tail(@)]
    /\ LET u == Head(todo[h])
       IN  IF holder[u] = Free
             THEN Process(h, Read(u))
             ELSE UNCHANGED <<item, late, pc>>
    /\ UNCHANGED <<dbVars, settings, clock, handing, running, known, unread, scan, events,
                   consent, begun, tried>>

\* Mutant: the known reports are all that is ever processed.
KnownDoneMutant(h) ==
    /\ pc[h] = "known"
    /\ todo[h] = <<>>
    /\ EndPass(h)
    /\ UNCHANGED <<dbVars, settings, clock, fresh, ring, queue, running, item, events, ghosts>>

\* All of them have been come to.
KnownDone(h) ==
    /\ pc[h] = "known"
    /\ todo[h] = <<>>
    /\ IF Watch
         THEN Goto(h, "open") /\ UNCHANGED <<known, todo, unread, scan, wake>>
         ELSE EndPass(h)
    /\ UNCHANGED <<dbVars, settings, clock, fresh, ring, queue, running, item, events, ghosts>>

\* GetPendingReports() lists the directory ...
ListPending(h) ==
    /\ pc[h] = "open"
    /\ unread' = [unread EXCEPT ![h] = {u \in Reports : place[u] = "pending"}]
    /\ Goto(h, "list")
    /\ UNCHANGED <<dbVars, settings, clock, handing, running, known, todo, scan, item,
                   events, ghosts>>

\* ... or cannot: "The database is sick", and may be better at the next pass ...
ListFailed(h) ==
    /\ pc[h] = "open"
    /\ Event("database")
    /\ EndPass(h)
    /\ UNCHANGED <<dbVars, settings, clock, fresh, ring, queue, running, item, ghosts>>

\* ... and reads the reports, one by one, passing over the locked ones.
ReadPending(h, u) ==
    /\ pc[h] = "list"
    /\ u \in unread[h]
    /\ unread' = [unread EXCEPT ![h] = @ \ {u}]
    /\ scan' = IF holder[u] = Free /\ place[u] = "pending"
                 THEN [scan EXCEPT ![h] = @ \cup {Read(u)}]
                 ELSE scan
    /\ UNCHANGED <<dbVars, settings, clock, handing, running, pc, known, todo, item,
                   events, ghosts>>

ListDone(h) ==
    /\ pc[h] = "list"
    /\ unread[h] = {}
    /\ Goto(h, "scan")
    /\ UNCHANGED <<dbVars, settings, clock, handing, running, pass, events, ghosts>>

\* Mutant: reports that were known before are not told apart.
ScanNextMutant(h) ==
    /\ pc[h] = "scan"
    /\ \E report \in scan[h] :
         /\ scan' = [scan EXCEPT ![h] = @ \ {report}]
         /\ Process(h, report)
    /\ UNCHANGED <<dbVars, settings, clock, handing, running, known, todo, unread, events,
                   consent, begun, tried>>

\* The next report of the scan is processed, unless it was known before.
ScanNext(h) ==
    /\ pc[h] = "scan"
    /\ \E report \in scan[h] :
         /\ scan' = [scan EXCEPT ![h] = @ \ {report}]
         /\ IF \E i \in DOMAIN known[h] : known[h][i] = report.uuid
              THEN UNCHANGED <<item, late, pc>>
              ELSE Process(h, report)
    /\ UNCHANGED <<dbVars, settings, clock, handing, running, known, todo, unread, events,
                   consent, begun, tried>>

ScanDone(h) ==
    /\ pc[h] = "scan"
    /\ scan[h] = {}
    /\ EndPass(h)
    /\ UNCHANGED <<dbVars, settings, clock, fresh, ring, queue, running, item, events, ghosts>>

\* Mutant: Stop() is respected after the scan only.
NextReportMutant(h) ==
    /\ pc[h] = "next"
    /\ Goto(h, IF item[h].uuid \in {known[h][i] : i \in DOMAIN known[h]} THEN "known" ELSE "scan")
    /\ UNCHANGED <<dbVars, settings, clock, handing, running, pass, events, ghosts>>

\* A report has been processed.  "Respect Stop() being called after at least
\* one attempt to process a report."
NextReport(h) ==
    /\ pc[h] = "next"
    /\ IF running[h]
         THEN /\ Goto(h, IF item[h].uuid \in {known[h][i] : i \in DOMAIN known[h]}
                           THEN "known" ELSE "scan")
              /\ UNCHANGED <<known, todo, unread, scan, wake>>
         ELSE EndPass(h)
    /\ UNCHANGED <<dbVars, settings, clock, fresh, ring, queue, running, item, events, ghosts>>

----------------------------------------------------------------------------
(***************************************************************************)
(* ProcessPendingReport().                                                 *)
(***************************************************************************)

\* Mutant: settings that cannot be read count as a yes.
CheckEnabledMutant(h) ==
    /\ pc[h] = "process"
    /\ \/ /\ Goto(h, IF item[h].requested THEN "get" ELSE IF enabled THEN "limit" ELSE "skip")
          /\ UNCHANGED events
       \/ Event("settings") /\ Goto(h, "limit")
    /\ UNCHANGED <<dbVars, settings, clock, handing, running, pass, ghosts>>

\* Are uploads allowed?  Settings that cannot be read count as a no.
CheckEnabled(h) ==
    /\ pc[h] = "process"
    /\ \/ /\ Goto(h, IF item[h].requested THEN "get" ELSE IF enabled THEN "limit" ELSE "skip")
          /\ UNCHANGED events
       \/ /\ ~item[h].requested
          /\ Event("settings")
          /\ Goto(h, "skip")
    /\ UNCHANGED <<dbVars, settings, clock, handing, running, pass, ghosts>>

\* The last attempt is too recent, or a little way in the future.
TooSoon ==
    IF clock >= last THEN clock - last < Hour ELSE last - clock < Day

\* ShouldRateLimitUpload(): settings that cannot be read count as a no.
ShouldRateLimitUpload(h) ==
    /\ pc[h] = "limit"
    /\ \/ /\ Goto(h, IF RateLimit /\ TooSoon THEN "skip" ELSE "get")
          /\ UNCHANGED events
       \/ /\ RateLimit
          /\ Event("settings")
          /\ Goto(h, "get")
    /\ UNCHANGED <<dbVars, settings, clock, handing, running, pass, ghosts>>

\* Mutant: a report that is busy is uploaded as well.
GetReportForUploadingMutant(h) ==
    /\ pc[h] = "get"
    /\ IF place[item[h].uuid] = "pending"
         THEN holder' = [holder EXCEPT ![item[h].uuid] = h] /\ Goto(h, "upload")
         ELSE Goto(h, "next") /\ UNCHANGED holder
    /\ UNCHANGED <<place, requested, settings, clock, handing, running, pass, events, ghosts>>

\* GetReportForUploading(): somebody else may have the report, or have finished
\* with it.  If the database fails, the report is to be skipped.
GetReportForUploading(h) ==
    /\ pc[h] = "get"
    /\ LET u == item[h].uuid
       IN  \/ /\ holder[u] = Free /\ place[u] = "pending"
              /\ holder' = [holder EXCEPT ![u] = h]
              /\ Goto(h, "upload")
              /\ UNCHANGED events
           \/ /\ holder[u] # Free \/ place[u] # "pending"
              /\ Goto(h, "next")
              /\ UNCHANGED <<holder, events>>
           \/ /\ Event("database")
              /\ Goto(h, "skip")
              /\ UNCHANGED holder
    /\ UNCHANGED <<place, requested, settings, clock, handing, running, pass, ghosts>>

\* UploadReport(): the attempt begins, and ends in success or not.
UploadReport(h) ==
    /\ pc[h] = "upload"
    /\ begun' = clock
    /\ tried' = [tried EXCEPT ![h] = @ \cup {item[h].uuid}]
    /\ \E l \in {"complete", "destroy"} : Goto(h, l)
    /\ UNCHANGED <<dbVars, settings, clock, handing, running, pass, events, consent, late>>

\* Mutant: the time at which the next attempt is due is recorded.
RecordUploadCompleteMutant(h) ==
    /\ pc[h] = "complete"
    /\ holder' = [holder EXCEPT ![item[h].uuid] = Free]
    /\ place' = [place EXCEPT ![item[h].uuid] = "uploaded"]
    /\ requested' = requested \ {item[h].uuid}
    /\ last' = clock + Hour
    /\ Goto(h, "next")
    /\ UNCHANGED <<enabled, clock, handing, running, pass, events, ghosts>>

\* RecordUploadComplete().  If it fails before the report is moved the report
\* stays pending, and the time is not recorded.
RecordUploadComplete(h) ==
    /\ pc[h] = "complete"
    /\ holder' = [holder EXCEPT ![item[h].uuid] = Free]
    /\ \/ /\ place' = [place EXCEPT ![item[h].uuid] = "uploaded"]
          /\ requested' = requested \ {item[h].uuid}
          /\ last' = clock
          /\ UNCHANGED events
       \/ /\ Event("database")
          /\ UNCHANGED <<place, requested, last>>
    /\ Goto(h, "next")
    /\ UNCHANGED <<enabled, clock, handing, running, pass, ghosts>>

\* Mutant: an attempt that failed is not recorded.
DestroyUploadReportMutant(h) ==
    /\ pc[h] = "destroy"
    /\ holder' = [holder EXCEPT ![item[h].uuid] = Free]
    /\ Goto(h, "skip")
    /\ UNCHANGED <<place, requested, settings, clock, handing, running, pass, events, ghosts>>

\* The UploadReport is destroyed: the lock is released and the attempt recorded.
DestroyUploadReport(h) ==
    /\ pc[h] = "destroy"
    /\ holder' = [holder EXCEPT ![item[h].uuid] = Free]
    /\ \/ last' = clock /\ UNCHANGED events
       \/ Event("database") /\ UNCHANGED last
    /\ Goto(h, "skip")
    /\ UNCHANGED <<place, requested, enabled, clock, handing, running, pass, ghosts>>

\* SkipReportUpload(): the report is completed without having been uploaded, if
\* it is still there and nobody has its lock.
SkipReportUpload(h) ==
    /\ pc[h] = "skip"
    /\ LET u == item[h].uuid
       IN  IF holder[u] = Free /\ place[u] = "pending"
             THEN /\ place' = [place EXCEPT ![u] = "skipped"]
                  /\ requested' = requested \ {u}
             ELSE UNCHANGED <<place, requested>>
    /\ Goto(h, "next")
    /\ UNCHANGED <<holder, settings, clock, handing, running, pass, events, ghosts>>

----------------------------------------------------------------------------
UploadStep(h) ==
    \/ BeginPass(h) \/ ExitThread(h) \/ LookUpKnown(h) \/ KnownDone(h)
    \/ ListPending(h) \/ ListFailed(h) \/ (\E u \in Reports : ReadPending(h, u)) \/ ListDone(h)
    \/ ScanNext(h) \/ ScanDone(h) \/ NextReport(h)
    \/ CheckEnabled(h) \/ ShouldRateLimitUpload(h) \/ GetReportForUploading(h)
    \/ UploadReport(h) \/ RecordUploadComplete(h) \/ DestroyUploadReport(h)
    \/ SkipReportUpload(h)

HandlerStep(h) ==
    \/ \E u \in Reports : FinishReport(h, u)
    \/ PushBack(h) \/ AskToWork(h) \/ Stop(h)

Environment ==
    \/ \E u \in Reports : RequestUpload(u) \/ OtherLocks(u) \/ OtherUnlocks(u)
    \/ SetUploadsEnabled \/ Tick \/ SetBack

Next == Environment \/ \E h \in Handlers : UploadStep(h) \/ HandlerStep(h)

Spec == Init /\ [][Next]_vars

\* The scheduler runs the threads, finite waits and uploads end, and locks that
\* other processes have taken are released.
Fairness ==
    /\ \A h \in Handlers : WF_vars(UploadStep(h)) /\ WF_vars(PushBack(h)) /\ WF_vars(AskToWork(h))
    /\ \A u \in Reports : WF_vars(OtherUnlocks(u))

FairSpec == Spec /\ Fairness

----------------------------------------------------------------------------
(***************************************************************************)
(* Properties.                                                             *)
(***************************************************************************)

\* "By default uploads are throttled to one per hour": while nobody asks for an
\* upload, an attempt begins only an hour after the attempt before it began.
RateLimited ==
    [][\A h \in Handlers :
         pc[h] = "upload" /\ pc'[h] # "upload" /\ ~item[h].requested /\ begun # 0 =>
           clock - begun >= Hour]_vars

\* "Allow upload if it has been explicitly requested by the user, otherwise,
\* respect the upload-enabled state": a report is uploaded only if its upload
\* was allowed at some time since it exists, whatever is read when.
UploadedWithConsent ==
    \A h \in Handlers : pc[h] = "upload" => item[h].uuid \in consent

\* "Don't retry it immediately, it can wait until at least the next pass": no
\* report is tried twice in a pass, although it may be known, and be listed by
\* the scan, and have stayed pending.
TriedOncePerPass ==
    [][\A h \in Handlers :
         pc[h] = "upload" /\ pc'[h] # "upload" => item[h].uuid \notin tried[h]]_vars

\* "Respect Stop() being called after at least one attempt to process a report":
\* a stopped thread begins to process one more report at the most.
StopPrompt == \A h \in Handlers : late[h] <= 1

\* Two handlers never upload the same report at once, although each of them
\* took the decision to upload it without a lock.
UploadsExclusive ==
    \A h, i \in Handlers :
      /\ h # i
      /\ {pc[h], pc[i]} \subseteq {"upload", "complete", "destroy"}
      => item[h].uuid # item[i].uuid

\* Every pending report is uploaded or skipped in the end, if the handlers go on
\* and scan for the reports they have not been told of: one that is busy, or that
\* is made known at a bad time, is come to again.
PendingProcessed ==
    \A u \in Reports :
      place[u] = "pending" ~> place[u] # "pending" \/ \A h \in Handlers : ~running[h]
=============================================================================
