------------------- MODULE CrashReportUploadThreadProofs -------------------
(***************************************************************************)
(* Proofs about CrashReportUploadThread, for any number of handlers and    *)
(* reports.                                                                *)
(***************************************************************************)
EXTENDS CrashReportUploadThread, TLAPS

----------------------------------------------------------------------------
(***************************************************************************)
(* Types.                                                                  *)
(***************************************************************************)

\* A pass that ends leaves the variables of the pass well-typed.
LEMMA EndPassTypes ==
    ASSUME NEW h \in Handlers, TypeOK, EndPass(h)
    PROVE  /\ pc' \in [Handlers -> {"wait", "known", "open", "list", "scan", "process",
                                    "limit", "get", "upload", "complete", "destroy",
                                    "skip", "next", "exit"}]
           /\ known' \in [Handlers -> Seq(Reports)]
           /\ todo' \in [Handlers -> Seq(Reports)]
           /\ unread' \in [Handlers -> SUBSET Reports]
           /\ scan' \in [Handlers -> SUBSET Snapshot]
           /\ wake' \in [Handlers -> BOOLEAN]
<1>1. <<>> \in Seq(Reports)
  OBVIOUS
<1>2. (wake[h] /\ running[h]) \in BOOLEAN
  OBVIOUS
<1> QED
  BY <1>1, <1>2 DEF TypeOK, EndPass, Goto

\* Nor does beginning to process a report.
LEMMA ProcessTypes ==
    ASSUME NEW h \in Handlers, NEW report \in Snapshot, TypeOK, Process(h, report)
    PROVE  /\ pc' \in [Handlers -> {"wait", "known", "open", "list", "scan", "process",
                                    "limit", "get", "upload", "complete", "destroy",
                                    "skip", "next", "exit"}]
           /\ item' \in [Handlers -> Snapshot]
           /\ late' \in [Handlers -> 0..2]
<1>1. late[h] \in 0..2
  BY DEF TypeOK
<1>2. (IF running[h] \/ late[h] = 2 THEN late[h] ELSE late[h] + 1) \in 0..2
  BY <1>1
<1> QED
  BY <1>2 DEF TypeOK, Process, Goto

LEMMA ReadType == \A u \in Reports : Read(u) \in Snapshot
  BY DEF Read, Snapshot

LEMMA InitTypes == Init => TypeOK
<1> SUFFICES ASSUME Init PROVE TypeOK
  OBVIOUS
<1>1. (CHOOSE u \in Reports : TRUE) \in Reports
  BY UploadAssumption
<1>2. [uuid |-> CHOOSE u \in Reports : TRUE, requested |-> FALSE] \in Snapshot
  BY <1>1 DEF Snapshot
<1>3. item \in [Handlers -> Snapshot]
  BY <1>2 DEF Init
<1>4. <<>> \in Seq(Reports)
  OBVIOUS
<1>5. clock \in 0..MaxClock /\ events \in 0..MaxEvents /\ last \in 0..MaxClock
      /\ begun \in 0..MaxClock
  BY UploadAssumption DEF Init
<1> QED
  BY <1>3, <1>4, <1>5 DEF Init, TypeOK

\* The steps beside the upload threads keep the types.
LEMMA EnvironmentTypes ==
    ASSUME TypeOK, Environment
    PROVE  TypeOK'
<1> USE DEF dbVars, settings, handing, pass, ghosts
<1> USE UploadAssumption
<1>1. ASSUME NEW u \in Reports, RequestUpload(u)
      PROVE  TypeOK'
  BY <1>1 DEF TypeOK, RequestUpload, Event
<1>2. ASSUME NEW u \in Reports, OtherLocks(u)
      PROVE  TypeOK'
  BY <1>2 DEF TypeOK, OtherLocks, Event
<1>3. ASSUME NEW u \in Reports, OtherUnlocks(u)
      PROVE  TypeOK'
  BY <1>3 DEF TypeOK, OtherUnlocks
<1>4. CASE SetUploadsEnabled
  BY <1>4 DEF TypeOK, SetUploadsEnabled, Event
<1>5. CASE Tick
  BY <1>5 DEF TypeOK, Tick
<1>6. CASE SetBack
  BY <1>6 DEF TypeOK, SetBack, Event
<1> QED
  BY <1>1, <1>2, <1>3, <1>4, <1>5, <1>6 DEF Environment

\* So do those of a handler's exception handling thread.
LEMMA HandlerTypes ==
    ASSUME TypeOK, NEW h \in Handlers, HandlerStep(h)
    PROVE  TypeOK'
<1> USE DEF dbVars, settings, handing, pass, ghosts
<1>1. ASSUME NEW u \in Reports, FinishReport(h, u)
      PROVE  TypeOK'
  BY <1>1 DEF TypeOK, FinishReport
<1>2. CASE PushBack(h)
  <2>1. PICK u \in fresh[h] : queue' = [queue EXCEPT ![h] = Append(@, u)]
    BY <1>2 DEF PushBack
  <2>2. u \in Reports /\ Append(queue[h], u) \in Seq(Reports)
    BY <2>1 DEF TypeOK
  <2>3. queue' \in [Handlers -> Seq(Reports)]
    BY <2>1, <2>2 DEF TypeOK
  <2> QED
    BY <1>2, <2>3 DEF TypeOK, PushBack
<1>3. CASE AskToWork(h)
  BY <1>3 DEF TypeOK, AskToWork
<1>4. CASE Stop(h)
  BY <1>4 DEF TypeOK, Stop
<1> QED
  BY <1>1, <1>2, <1>3, <1>4 DEF HandlerStep

\* And those of its upload thread.
LEMMA UploadTypes ==
    ASSUME TypeOK, NEW h \in Handlers, UploadStep(h)
    PROVE  TypeOK'
<1> USE DEF dbVars, settings, handing, pass, ghosts
<1>1. CASE BeginPass(h)
  BY <1>1 DEF TypeOK, BeginPass, Goto
<1>2. CASE ExitThread(h)
  BY <1>2 DEF TypeOK, ExitThread, Goto
<1>3. CASE LookUpKnown(h)
  <2>1. todo[h] \in Seq(Reports) /\ todo[h] # <<>>
    BY <1>3 DEF TypeOK, LookUpKnown
  <2>2. Head(todo[h]) \in Reports /\ Tail(todo[h]) \in Seq(Reports)
    BY <2>1
  <2>3. todo' \in [Handlers -> Seq(Reports)]
    BY <1>3, <2>2 DEF TypeOK, LookUpKnown
  <2>4. CASE holder[Head(todo[h])] = Free
    <3>1. Process(h, Read(Head(todo[h])))
      BY <1>3, <2>4 DEF LookUpKnown
    <3>2. Read(Head(todo[h])) \in Snapshot
      BY <2>2, ReadType
    <3> QED
      BY <1>3, <2>3, <3>1, <3>2, ProcessTypes DEF TypeOK, LookUpKnown
  <2>5. CASE holder[Head(todo[h])] # Free
    BY <1>3, <2>3, <2>5 DEF TypeOK, LookUpKnown
  <2> QED
    BY <2>4, <2>5
<1>4. CASE KnownDone(h)
  <2>1. CASE Watch
    BY <1>4, <2>1 DEF TypeOK, KnownDone, Goto
  <2>2. CASE ~Watch
    BY <1>4, <2>2, EndPassTypes DEF TypeOK, KnownDone
  <2> QED
    BY <2>1, <2>2
<1>5. CASE ListPending(h)
  BY <1>5 DEF TypeOK, ListPending, Goto
<1>6. ASSUME NEW u \in Reports, ReadPending(h, u)
      PROVE  TypeOK'
  <2>1. Read(u) \in Snapshot
    BY ReadType
  <2>2. scan' \in [Handlers -> SUBSET Snapshot]
    BY <1>6, <2>1 DEF TypeOK, ReadPending
  <2> QED
    BY <1>6, <2>2 DEF TypeOK, ReadPending
<1>7. CASE ListDone(h)
  BY <1>7 DEF TypeOK, ListDone, Goto
<1>8. CASE ScanNext(h)
  <2>1. PICK report \in scan[h] :
          /\ scan' = [scan EXCEPT ![h] = @ \ {report}]
          /\ IF \E i \in DOMAIN known[h] : known[h][i] = report.uuid
               THEN UNCHANGED <<item, late, pc>>
               ELSE Process(h, report)
    BY <1>8 DEF ScanNext
  <2>2. report \in Snapshot /\ scan' \in [Handlers -> SUBSET Snapshot]
    BY <2>1 DEF TypeOK
  <2>3. CASE \E i \in DOMAIN known[h] : known[h][i] = report.uuid
    BY <1>8, <2>1, <2>2, <2>3 DEF TypeOK, ScanNext
  <2>4. CASE ~ \E i \in DOMAIN known[h] : known[h][i] = report.uuid
    BY <1>8, <2>1, <2>2, <2>4, ProcessTypes DEF TypeOK, ScanNext
  <2> QED
    BY <2>3, <2>4
<1>9. CASE ScanDone(h)
  BY <1>9, EndPassTypes DEF TypeOK, ScanDone
<1>10. CASE NextReport(h)
  <2>1. CASE running[h]
    BY <1>10, <2>1 DEF TypeOK, NextReport, Goto
  <2>2. CASE ~running[h]
    BY <1>10, <2>2, EndPassTypes DEF TypeOK, NextReport
  <2> QED
    BY <2>1, <2>2
<1>11. CASE CheckEnabled(h)
  <2>1. events' = events \/ Event("settings") \/ Event("database")
    BY <1>11 DEF CheckEnabled
  <2>2. events' \in 0..MaxEvents
    BY <2>1, UploadAssumption DEF TypeOK, Event
  <2> QED
    BY <1>11, <2>2 DEF TypeOK, CheckEnabled, Goto
<1>12. CASE ShouldRateLimitUpload(h)
  <2>1. events' = events \/ Event("settings") \/ Event("database")
    BY <1>12 DEF ShouldRateLimitUpload
  <2>2. events' \in 0..MaxEvents
    BY <2>1, UploadAssumption DEF TypeOK, Event
  <2> QED
    BY <1>12, <2>2 DEF TypeOK, ShouldRateLimitUpload, Goto
<1>13. CASE GetReportForUploading(h)
  <2>1. events' = events \/ Event("settings") \/ Event("database")
    BY <1>13 DEF GetReportForUploading
  <2>2. events' \in 0..MaxEvents
    BY <2>1, UploadAssumption DEF TypeOK, Event
  <2>3. \E l \in {"upload", "next", "skip"} : Goto(h, l)
    BY <1>13 DEF GetReportForUploading
  <2>4. holder' = holder \/ holder' = [holder EXCEPT ![item[h].uuid] = h]
    BY <1>13 DEF GetReportForUploading
  <2>5. holder' \in [Reports -> Handlers \cup {Free, Other}]
    BY <2>4 DEF TypeOK
  <2> QED
    BY <1>13, <2>2, <2>3, <2>5 DEF TypeOK, GetReportForUploading, Goto
<1>14. CASE UploadReport(h)
  <2>1. item[h].uuid \in Reports
    BY DEF TypeOK, Snapshot
  <2> QED
    BY <1>14, <2>1 DEF TypeOK, UploadReport, Goto
<1>15. CASE RecordUploadComplete(h)
  <2>1. events' = events \/ Event("settings") \/ Event("database")
    BY <1>15 DEF RecordUploadComplete
  <2>2. events' \in 0..MaxEvents
    BY <2>1, UploadAssumption DEF TypeOK, Event
  <2> QED
    BY <1>15, <2>2 DEF TypeOK, RecordUploadComplete, Goto
<1>16. CASE DestroyUploadReport(h)
  <2>1. events' = events \/ Event("settings") \/ Event("database")
    BY <1>16 DEF DestroyUploadReport
  <2>2. events' \in 0..MaxEvents
    BY <2>1, UploadAssumption DEF TypeOK, Event
  <2> QED
    BY <1>16, <2>2 DEF TypeOK, DestroyUploadReport, Goto
<1>17. CASE SkipReportUpload(h)
  BY <1>17 DEF TypeOK, SkipReportUpload, Goto
<1>18. CASE ListFailed(h)
  <2>1. events' \in 0..MaxEvents
    BY <1>18, UploadAssumption DEF TypeOK, ListFailed, Event
  <2> QED
    BY <1>18, <2>1, EndPassTypes DEF TypeOK, ListFailed
<1> QED
  BY <1>1, <1>2, <1>3, <1>4, <1>5, <1>6, <1>7, <1>8, <1>9, <1>10, <1>11, <1>12, <1>13,
     <1>14, <1>15, <1>16, <1>17, <1>18 DEF UploadStep

LEMMA NextTypes == TypeOK /\ [Next]_vars => TypeOK'
<1>1. ASSUME TypeOK, UNCHANGED vars
      PROVE  TypeOK'
  BY <1>1 DEF TypeOK, vars, dbVars, settings, handing, pass, ghosts
<1> QED
  BY <1>1, EnvironmentTypes, HandlerTypes, UploadTypes DEF Next

\* Whatever the upload threads, the exception handling threads, the users of the
\* database and the clock do, in whatever order, the state keeps its type.
THEOREM UploadThreadTypes == Spec => []TypeOK
  BY InitTypes, NextTypes, PTL DEF Spec

----------------------------------------------------------------------------
(***************************************************************************)
(* The inductive invariants.                                               *)
(***************************************************************************)

\* A report is being processed; it is being uploaded.
Processing == {"process", "limit", "get", "upload", "complete", "destroy", "skip", "next"}
Uploading == {"upload", "complete", "destroy"}

\* Who uploads a report has its lock.
Locked == \A h \in Handlers : pc[h] \in Uploading => holder[item[h].uuid] = h

\* What a handler knows of, it knows of because it was made.
Born ==
    \A h \in Handlers :
      /\ \A u \in fresh[h] \cup unread[h] : place[u] # "unborn"
      /\ \A i \in DOMAIN queue[h] : place[queue[h][i]] # "unborn"
      /\ \A i \in DOMAIN todo[h] : place[todo[h][i]] # "unborn"
      /\ \A report \in scan[h] : place[report.uuid] # "unborn"
      /\ pc[h] \in Processing => place[item[h].uuid] # "unborn"

\* Consent is there whenever a decision to upload can be based on it: for a
\* request, in the database or in a Report that was read from it, for all reports
\* while uploads are enabled, and for a report that has passed CheckEnabled.
Consented ==
    /\ requested \subseteq consent
    /\ enabled => \A u \in Reports : place[u] # "unborn" => u \in consent
    /\ \A h \in Handlers :
         /\ \A report \in scan[h] : report.requested => report.uuid \in consent
         /\ item[h].requested => item[h].uuid \in consent
         /\ pc[h] \in {"limit", "get", "upload"} => item[h].uuid \in consent

\* A thread that was stopped is not asked to work any more, and one that has begun
\* to process a report since is on the way to its end.
Stopped ==
    \A h \in Handlers :
      /\ running[h] => late[h] = 0
      /\ ~running[h] => fresh[h] = {} /\ ~ring[h]
      /\ late[h] # 0 =>
           /\ late[h] = 1
           /\ pc[h] \in Processing \cup {"exit", "wait"}
           /\ pc[h] = "wait" => ~wake[h]

\* s has no element twice.
Distinct(s) == \A i, j \in DOMAIN s : s[i] = s[j] => i = j
\* u is an element of s.
In(u, s) == \E i \in DOMAIN s : s[i] = u

\* A report is told to a handler once, by the exception handler that made it.
ToldOnce ==
    \A h \in Handlers : Distinct(queue[h]) /\ \A u \in fresh[h] : ~In(u, queue[h])

\* What is still to be come to among the known reports has not been tried, what the
\* scan has come by has not either unless it is known, and nothing comes by twice.
TriedBy(h) ==
    /\ Distinct(todo[h])
    /\ \A i \in DOMAIN todo[h] : In(todo[h][i], known[h]) /\ todo[h][i] \notin tried[h]
    /\ \A s, t \in scan[h] : s.uuid = t.uuid => s = t
    /\ \A s \in scan[h] :
         /\ s.uuid \notin unread[h]
         /\ s.uuid \in tried[h] => In(s.uuid, known[h])
    /\ pc[h] \in {"wait", "known", "open"} => scan[h] = {}
    /\ pc[h] \in {"known", "open", "list"} => \A u \in tried[h] : In(u, known[h])
    /\ pc[h] \in Processing =>
         /\ \A i \in DOMAIN todo[h] : todo[h][i] # item[h].uuid
         /\ \A s \in scan[h] : s.uuid # item[h].uuid
         /\ In(item[h].uuid, known[h]) =>
              scan[h] = {} /\ \A u \in tried[h] : In(u, known[h])
    /\ pc[h] \in {"process", "limit", "get", "upload"} => item[h].uuid \notin tried[h]

TriedPassed == \A h \in Handlers : TriedBy(h)

\* With one handler and a clock that only goes forward, the time recorded of the
\* last attempt is not before it began, except while the attempt is being made,
\* and whoever has passed the limit has it an hour behind.
HourPassed ==
    /\ begun <= clock /\ last <= clock
    /\ \A h \in Handlers :
         /\ pc[h] \notin {"complete", "destroy"} => begun <= last
         /\ pc[h] \in {"get", "upload"} /\ ~item[h].requested => clock - last >= Hour

----------------------------------------------------------------------------
(***************************************************************************)
(* A report is uploaded by one handler at a time.                          *)
(***************************************************************************)

USE UploadAssumption

\* The steps beside the upload threads keep the uploaders' locks.
LEMMA LockedEnvironment ==
    ASSUME TypeOK, Locked, Environment
    PROVE  Locked'
<1> USE DEF dbVars, settings, handing, pass, ghosts
<1>1. ASSUME NEW u \in Reports, RequestUpload(u)
      PROVE  Locked'
  BY <1>1 DEF TypeOK, Snapshot, Locked, Uploading, RequestUpload
<1>2. ASSUME NEW u \in Reports, OtherLocks(u)
      PROVE  Locked'
  BY <1>2 DEF TypeOK, Snapshot, Locked, Uploading, OtherLocks
<1>3. ASSUME NEW u \in Reports, OtherUnlocks(u)
      PROVE  Locked'
  BY <1>3 DEF TypeOK, Snapshot, Locked, Uploading, OtherUnlocks
<1>4. CASE SetUploadsEnabled
  BY <1>4 DEF TypeOK, Snapshot, Locked, Uploading, SetUploadsEnabled
<1>5. CASE Tick
  BY <1>5 DEF TypeOK, Snapshot, Locked, Uploading, Tick
<1>6. CASE SetBack
  BY <1>6 DEF TypeOK, Snapshot, Locked, Uploading, SetBack
<1> QED
  BY <1>1, <1>2, <1>3, <1>4, <1>5, <1>6 DEF Environment

\* So do those of a handler's exception handling thread.
LEMMA LockedHandler ==
    ASSUME TypeOK, Locked, NEW h \in Handlers, HandlerStep(h)
    PROVE  Locked'
<1> USE DEF dbVars, settings, handing, pass, ghosts
<1>1. ASSUME NEW u \in Reports, FinishReport(h, u)
      PROVE  Locked'
  BY <1>1 DEF TypeOK, Snapshot, Locked, Uploading, FinishReport
<1>2. CASE PushBack(h)
  BY <1>2 DEF TypeOK, Snapshot, Locked, Uploading, PushBack
<1>3. CASE AskToWork(h)
  BY <1>3 DEF TypeOK, Snapshot, Locked, Uploading, AskToWork
<1>4. CASE Stop(h)
  BY <1>4 DEF TypeOK, Snapshot, Locked, Uploading, Stop
<1> QED
  BY <1>1, <1>2, <1>3, <1>4 DEF HandlerStep

\* And those of its upload thread.
LEMMA LockedUpload ==
    ASSUME TypeOK, Locked, NEW h \in Handlers, UploadStep(h)
    PROVE  Locked'
<1> USE DEF dbVars, settings, handing, pass, ghosts
<1>1. CASE BeginPass(h)
  BY <1>1 DEF TypeOK, Snapshot, Locked, Uploading, BeginPass, Goto
<1>2. CASE ExitThread(h)
  BY <1>2 DEF TypeOK, Snapshot, Locked, Uploading, ExitThread, Goto
<1>3. CASE LookUpKnown(h)
  BY <1>3 DEF TypeOK, Snapshot, Locked, Uploading, LookUpKnown, Process, Read, Goto
<1>4. CASE KnownDone(h)
  BY <1>4 DEF TypeOK, Snapshot, Locked, Uploading, KnownDone, EndPass, Goto
<1>5. CASE ListPending(h)
  BY <1>5 DEF TypeOK, Snapshot, Locked, Uploading, ListPending, Goto
<1>6. ASSUME NEW u \in Reports, ReadPending(h, u)
      PROVE  Locked'
  BY <1>6 DEF TypeOK, Snapshot, Locked, Uploading, ReadPending, Read
<1>7. CASE ListDone(h)
  BY <1>7 DEF TypeOK, Snapshot, Locked, Uploading, ListDone, Goto
<1>8. CASE ScanNext(h)
  BY <1>8 DEF TypeOK, Snapshot, Locked, Uploading, ScanNext, Process, Goto
<1>9. CASE ScanDone(h)
  BY <1>9 DEF TypeOK, Snapshot, Locked, Uploading, ScanDone, EndPass, Goto
<1>10. CASE NextReport(h)
  BY <1>10 DEF TypeOK, Snapshot, Locked, Uploading, NextReport, EndPass, Goto
<1>11. CASE CheckEnabled(h)
  BY <1>11 DEF TypeOK, Snapshot, Locked, Uploading, CheckEnabled, Goto
<1>12. CASE ShouldRateLimitUpload(h)
  BY <1>12 DEF TypeOK, Snapshot, Locked, Uploading, ShouldRateLimitUpload, Goto
<1>13. CASE GetReportForUploading(h)
  BY <1>13 DEF TypeOK, Snapshot, Locked, Uploading, GetReportForUploading, Goto
<1>14. CASE UploadReport(h)
  BY <1>14 DEF TypeOK, Snapshot, Locked, Uploading, UploadReport, Goto
<1>15. CASE RecordUploadComplete(h)
  BY <1>15 DEF TypeOK, Snapshot, Locked, Uploading, RecordUploadComplete, Goto
<1>16. CASE DestroyUploadReport(h)
  BY <1>16 DEF TypeOK, Snapshot, Locked, Uploading, DestroyUploadReport, Goto
<1>17. CASE SkipReportUpload(h)
  BY <1>17 DEF TypeOK, Snapshot, Locked, Uploading, SkipReportUpload, Goto
<1>18. CASE ListFailed(h)
  BY <1>18 DEF TypeOK, Snapshot, Locked, Uploading, ListFailed, EndPass, Goto
<1> QED
  BY <1>1, <1>2, <1>3, <1>4, <1>5, <1>6, <1>7, <1>8, <1>9, <1>10, <1>11, <1>12, <1>13,
     <1>14, <1>15, <1>16, <1>17, <1>18 DEF UploadStep

LEMMA LockedNext == TypeOK /\ Locked /\ [Next]_vars => Locked'
<1>1. ASSUME Locked, UNCHANGED vars
      PROVE  Locked'
  BY <1>1 DEF Locked, vars, dbVars, pass
<1> QED
  BY <1>1, LockedEnvironment, LockedHandler, LockedUpload DEF Next

\* Two handlers that have both decided to upload a report, neither of them with a
\* lock, never upload it at once: GetReportForUploading() gives it to one of them,
\* and nobody takes it away until it is recorded or given up.
THEOREM UploadsDoNotOverlap == Spec => []UploadsExclusive
<1>1. Init => Locked
  BY DEF Init, Locked, Uploading
<1>2. TypeOK /\ Locked => UploadsExclusive
  BY DEF TypeOK, Snapshot, Locked, Uploading, UploadsExclusive
<1> QED
  BY <1>1, <1>2, InitTypes, NextTypes, LockedNext, PTL DEF Spec

----------------------------------------------------------------------------
(***************************************************************************)
(* What the two actions that others are made of do, handler by handler.    *)
(***************************************************************************)

LEMMA EndPassEffect ==
    ASSUME NEW h \in Handlers, TypeOK, EndPass(h)
    PROVE  /\ pc'[h] = "wait" /\ known'[h] = <<>> /\ todo'[h] = <<>>
           /\ unread'[h] = {} /\ scan'[h] = {}
           /\ wake'[h] => wake[h] /\ running[h]
           /\ \A i \in Handlers \ {h} :
                /\ pc'[i] = pc[i] /\ known'[i] = known[i] /\ todo'[i] = todo[i]
                /\ unread'[i] = unread[i] /\ scan'[i] = scan[i] /\ wake'[i] = wake[i]
  BY DEF TypeOK, EndPass, Goto

LEMMA ProcessEffect ==
    ASSUME NEW h \in Handlers, NEW report, TypeOK, Process(h, report)
    PROVE  /\ pc'[h] = "process" /\ item'[h] = report
           /\ running[h] => late'[h] = late[h]
           /\ ~running[h] /\ late[h] = 0 => late'[h] = 1
           /\ \A i \in Handlers \ {h} :
                pc'[i] = pc[i] /\ item'[i] = item[i] /\ late'[i] = late[i]
  BY DEF TypeOK, Process, Goto

----------------------------------------------------------------------------
(***************************************************************************)
(* Stop() is respected.                                                    *)
(***************************************************************************)

\* The steps beside the upload threads keep what Stop() leads to.
LEMMA StoppedEnvironment ==
    ASSUME TypeOK, Stopped, Environment
    PROVE  Stopped'
<1> USE DEF dbVars, settings, handing, pass, ghosts
<1>1. ASSUME NEW u \in Reports, RequestUpload(u)
      PROVE  Stopped'
  BY <1>1 DEF TypeOK, Stopped, Processing, RequestUpload
<1>2. ASSUME NEW u \in Reports, OtherLocks(u)
      PROVE  Stopped'
  BY <1>2 DEF TypeOK, Stopped, Processing, OtherLocks
<1>3. ASSUME NEW u \in Reports, OtherUnlocks(u)
      PROVE  Stopped'
  BY <1>3 DEF TypeOK, Stopped, Processing, OtherUnlocks
<1>4. CASE SetUploadsEnabled
  BY <1>4 DEF TypeOK, Stopped, Processing, SetUploadsEnabled
<1>5. CASE Tick
  BY <1>5 DEF TypeOK, Stopped, Processing, Tick
<1>6. CASE SetBack
  BY <1>6 DEF TypeOK, Stopped, Processing, SetBack
<1> QED
  BY <1>1, <1>2, <1>3, <1>4, <1>5, <1>6 DEF Environment

\* So do those of a handler's exception handling thread.
LEMMA StoppedHandler ==
    ASSUME TypeOK, Stopped, NEW h \in Handlers, HandlerStep(h)
    PROVE  Stopped'
<1> USE DEF dbVars, settings, handing, pass, ghosts
<1>1. ASSUME NEW u \in Reports, FinishReport(h, u)
      PROVE  Stopped'
  BY <1>1 DEF TypeOK, Stopped, Processing, FinishReport
<1>2. CASE PushBack(h)
  BY <1>2 DEF TypeOK, Stopped, Processing, PushBack
<1>3. CASE AskToWork(h)
  BY <1>3 DEF TypeOK, Stopped, Processing, AskToWork
<1>4. CASE Stop(h)
  BY <1>4 DEF TypeOK, Stopped, Processing, Stop
<1> QED
  BY <1>1, <1>2, <1>3, <1>4 DEF HandlerStep

\* And those of its upload thread.
LEMMA StoppedUpload ==
    ASSUME TypeOK, Stopped, NEW h \in Handlers, UploadStep(h)
    PROVE  Stopped'
<1> USE DEF dbVars, settings, handing, pass, ghosts
<1>1. CASE BeginPass(h)
  BY <1>1 DEF TypeOK, Stopped, Processing, BeginPass, Goto
<1>2. CASE ExitThread(h)
  BY <1>2 DEF TypeOK, Stopped, Processing, ExitThread, Goto
<1>3. CASE LookUpKnown(h)
  <2>1. CASE holder[Head(todo[h])] = Free
    <3>1. Process(h, Read(Head(todo[h])))
      BY <1>3, <2>1 DEF LookUpKnown
    <3>2. late[h] = 0 /\ pc[h] = "known"
      BY <1>3 DEF LookUpKnown, Stopped, Processing
    <3> QED
      BY <1>3, <3>1, <3>2, ProcessEffect DEF Stopped, Processing, LookUpKnown
  <2>2. CASE holder[Head(todo[h])] # Free
    BY <1>3, <2>2 DEF Stopped, LookUpKnown
  <2> QED
    BY <2>1, <2>2
<1>4. CASE KnownDone(h)
  <2>1. CASE Watch
    BY <1>4, <2>1 DEF TypeOK, Stopped, Processing, KnownDone, EndPass, Goto
  <2>2. CASE ~Watch
    BY <1>4, <2>2 DEF TypeOK, Stopped, Processing, KnownDone, EndPass, Goto
  <2> QED
    BY <2>1, <2>2
<1>5. CASE ListPending(h)
  BY <1>5 DEF TypeOK, Stopped, Processing, ListPending, Goto
<1>6. ASSUME NEW u \in Reports, ReadPending(h, u)
      PROVE  Stopped'
  BY <1>6 DEF TypeOK, Stopped, Processing, ReadPending, Read
<1>7. CASE ListDone(h)
  BY <1>7 DEF TypeOK, Stopped, Processing, ListDone, Goto
<1>8. CASE ScanNext(h)
  BY <1>8 DEF TypeOK, Stopped, Processing, ScanNext, Process, Goto
<1>9. CASE ScanDone(h)
  BY <1>9 DEF TypeOK, Stopped, Processing, ScanDone, EndPass, Goto
<1>10. CASE NextReport(h)
  BY <1>10 DEF TypeOK, Stopped, Processing, NextReport, EndPass, Goto
<1>11. CASE CheckEnabled(h)
  BY <1>11 DEF TypeOK, Stopped, Processing, CheckEnabled, Goto
<1>12. CASE ShouldRateLimitUpload(h)
  BY <1>12 DEF TypeOK, Stopped, Processing, ShouldRateLimitUpload, Goto
<1>13. CASE GetReportForUploading(h)
  BY <1>13 DEF TypeOK, Stopped, Processing, GetReportForUploading, Goto
<1>14. CASE UploadReport(h)
  BY <1>14 DEF TypeOK, Stopped, Processing, UploadReport, Goto
<1>15. CASE RecordUploadComplete(h)
  BY <1>15 DEF TypeOK, Stopped, Processing, RecordUploadComplete, Goto
<1>16. CASE DestroyUploadReport(h)
  BY <1>16 DEF TypeOK, Stopped, Processing, DestroyUploadReport, Goto
<1>17. CASE SkipReportUpload(h)
  BY <1>17 DEF TypeOK, Stopped, Processing, SkipReportUpload, Goto
<1>18. CASE ListFailed(h)
  BY <1>18 DEF TypeOK, Stopped, Processing, ListFailed, EndPass, Goto
<1> QED
  BY <1>1, <1>2, <1>3, <1>4, <1>5, <1>6, <1>7, <1>8, <1>9, <1>10, <1>11, <1>12, <1>13,
     <1>14, <1>15, <1>16, <1>17, <1>18 DEF UploadStep

LEMMA StoppedNext == TypeOK /\ Stopped /\ [Next]_vars => Stopped'
<1>1. ASSUME Stopped, UNCHANGED vars
      PROVE  Stopped'
  BY <1>1 DEF Stopped, vars, handing, ghosts
<1> QED
  BY <1>1, StoppedEnvironment, StoppedHandler, StoppedUpload DEF Next

\* A thread that was stopped begins to process at most one more report, wherever it
\* was when Stop() came: it checks is_running() after every report, and the request
\* to work that may still be there when it does is cleared with the pass.
THEOREM StopIsPrompt == Spec => []StopPrompt
<1>1. Init => Stopped
  BY DEF Init, Stopped
<1>2. TypeOK /\ Stopped => StopPrompt
  <2> SUFFICES ASSUME Stopped, NEW h \in Handlers
               PROVE  late[h] <= 1
    BY DEF StopPrompt
  <2>1. late[h] = 0 \/ late[h] = 1
    BY DEF Stopped
  <2> QED
    BY <2>1
<1> QED
  BY <1>1, <1>2, InitTypes, NextTypes, StoppedNext, PTL DEF Spec

----------------------------------------------------------------------------
(***************************************************************************)
(* Nothing is uploaded without consent.                                    *)
(***************************************************************************)

\* The steps beside the upload threads keep what is known to exist.
LEMMA BornEnvironment ==
    ASSUME TypeOK, Born, Environment
    PROVE  Born'
<1> USE DEF dbVars, settings, handing, pass, ghosts
<1>1. ASSUME NEW u \in Reports, RequestUpload(u)
      PROVE  Born'
  BY <1>1 DEF TypeOK, Snapshot, Born, Processing, RequestUpload
<1>2. ASSUME NEW u \in Reports, OtherLocks(u)
      PROVE  Born'
  BY <1>2 DEF TypeOK, Snapshot, Born, Processing, OtherLocks
<1>3. ASSUME NEW u \in Reports, OtherUnlocks(u)
      PROVE  Born'
  BY <1>3 DEF TypeOK, Snapshot, Born, Processing, OtherUnlocks
<1>4. CASE SetUploadsEnabled
  BY <1>4 DEF TypeOK, Snapshot, Born, Processing, SetUploadsEnabled
<1>5. CASE Tick
  BY <1>5 DEF TypeOK, Snapshot, Born, Processing, Tick
<1>6. CASE SetBack
  BY <1>6 DEF TypeOK, Snapshot, Born, Processing, SetBack
<1> QED
  BY <1>1, <1>2, <1>3, <1>4, <1>5, <1>6 DEF Environment

\* So do those of a handler's exception handling thread.
LEMMA BornHandler ==
    ASSUME TypeOK, Born, NEW h \in Handlers, HandlerStep(h)
    PROVE  Born'
<1> USE DEF dbVars, settings, handing, pass, ghosts
<1>1. ASSUME NEW u \in Reports, FinishReport(h, u)
      PROVE  Born'
  BY <1>1 DEF TypeOK, Snapshot, Born, Processing, FinishReport
<1>2. CASE PushBack(h)
  BY <1>2 DEF TypeOK, Snapshot, Born, Processing, PushBack
<1>3. CASE AskToWork(h)
  BY <1>3 DEF TypeOK, Snapshot, Born, Processing, AskToWork
<1>4. CASE Stop(h)
  BY <1>4 DEF TypeOK, Snapshot, Born, Processing, Stop
<1> QED
  BY <1>1, <1>2, <1>3, <1>4 DEF HandlerStep

\* And those of its upload thread.
LEMMA BornUpload ==
    ASSUME TypeOK, Born, NEW h \in Handlers, UploadStep(h)
    PROVE  Born'
<1> USE DEF dbVars, settings, handing, pass, ghosts
<1>1. CASE BeginPass(h)
  BY <1>1 DEF TypeOK, Snapshot, Born, Processing, BeginPass, Goto
<1>2. CASE ExitThread(h)
  BY <1>2 DEF TypeOK, Snapshot, Born, Processing, ExitThread, Goto
<1>3. CASE LookUpKnown(h)
  BY <1>3 DEF TypeOK, Snapshot, Born, Processing, LookUpKnown, Process, Read, Goto
<1>4. CASE KnownDone(h)
  <2>1. CASE Watch
    BY <1>4, <2>1 DEF TypeOK, Snapshot, Born, Processing, KnownDone, EndPass, Goto
  <2>2. CASE ~Watch
    BY <1>4, <2>2 DEF TypeOK, Snapshot, Born, Processing, KnownDone, EndPass, Goto
  <2> QED
    BY <2>1, <2>2
<1>5. CASE ListPending(h)
  BY <1>5 DEF TypeOK, Snapshot, Born, Processing, ListPending, Goto
<1>6. ASSUME NEW u \in Reports, ReadPending(h, u)
      PROVE  Born'
  BY <1>6 DEF TypeOK, Snapshot, Born, Processing, ReadPending, Read
<1>7. CASE ListDone(h)
  BY <1>7 DEF TypeOK, Snapshot, Born, Processing, ListDone, Goto
<1>8. CASE ScanNext(h)
  BY <1>8 DEF TypeOK, Snapshot, Born, Processing, ScanNext, Process, Goto
<1>9. CASE ScanDone(h)
  BY <1>9 DEF TypeOK, Snapshot, Born, Processing, ScanDone, EndPass, Goto
<1>10. CASE NextReport(h)
  BY <1>10 DEF TypeOK, Snapshot, Born, Processing, NextReport, EndPass, Goto
<1>11. CASE CheckEnabled(h)
  BY <1>11 DEF TypeOK, Snapshot, Born, Processing, CheckEnabled, Goto
<1>12. CASE ShouldRateLimitUpload(h)
  BY <1>12 DEF TypeOK, Snapshot, Born, Processing, ShouldRateLimitUpload, Goto
<1>13. CASE GetReportForUploading(h)
  BY <1>13 DEF TypeOK, Snapshot, Born, Processing, GetReportForUploading, Goto
<1>14. CASE UploadReport(h)
  BY <1>14 DEF TypeOK, Snapshot, Born, Processing, UploadReport, Goto
<1>15. CASE RecordUploadComplete(h)
  BY <1>15 DEF TypeOK, Snapshot, Born, Processing, RecordUploadComplete, Goto
<1>16. CASE DestroyUploadReport(h)
  BY <1>16 DEF TypeOK, Snapshot, Born, Processing, DestroyUploadReport, Goto
<1>17. CASE SkipReportUpload(h)
  BY <1>17 DEF TypeOK, Snapshot, Born, Processing, SkipReportUpload, Goto
<1>18. CASE ListFailed(h)
  BY <1>18 DEF TypeOK, Snapshot, Born, Processing, ListFailed, EndPass, Goto
<1> QED
  BY <1>1, <1>2, <1>3, <1>4, <1>5, <1>6, <1>7, <1>8, <1>9, <1>10, <1>11, <1>12, <1>13,
     <1>14, <1>15, <1>16, <1>17, <1>18 DEF UploadStep

LEMMA BornNext == TypeOK /\ Born /\ [Next]_vars => Born'
<1>1. ASSUME Born, UNCHANGED vars
      PROVE  Born'
  BY <1>1 DEF Born, vars, dbVars, handing, pass
<1> QED
  BY <1>1, BornEnvironment, BornHandler, BornUpload DEF Next

\* The steps beside the upload threads keep the consent that decisions are based on.
LEMMA ConsentEnvironment ==
    ASSUME TypeOK, Born, Consented, Environment
    PROVE  Consented'
<1> USE DEF dbVars, settings, handing, pass, ghosts
<1>1. ASSUME NEW u \in Reports, RequestUpload(u)
      PROVE  Consented'
  BY <1>1 DEF TypeOK, Snapshot, Born, Processing, Consented, RequestUpload
<1>2. ASSUME NEW u \in Reports, OtherLocks(u)
      PROVE  Consented'
  BY <1>2 DEF TypeOK, Snapshot, Born, Processing, Consented, OtherLocks
<1>3. ASSUME NEW u \in Reports, OtherUnlocks(u)
      PROVE  Consented'
  BY <1>3 DEF TypeOK, Snapshot, Born, Processing, Consented, OtherUnlocks
<1>4. CASE SetUploadsEnabled
  BY <1>4 DEF TypeOK, Snapshot, Born, Processing, Consented, SetUploadsEnabled
<1>5. CASE Tick
  BY <1>5 DEF TypeOK, Snapshot, Born, Processing, Consented, Tick
<1>6. CASE SetBack
  BY <1>6 DEF TypeOK, Snapshot, Born, Processing, Consented, SetBack
<1> QED
  BY <1>1, <1>2, <1>3, <1>4, <1>5, <1>6 DEF Environment

\* So do those of a handler's exception handling thread.
LEMMA ConsentHandler ==
    ASSUME TypeOK, Born, Consented, NEW h \in Handlers, HandlerStep(h)
    PROVE  Consented'
<1> USE DEF dbVars, settings, handing, pass, ghosts
<1>1. ASSUME NEW u \in Reports, FinishReport(h, u)
      PROVE  Consented'
  BY <1>1 DEF TypeOK, Snapshot, Born, Processing, Consented, FinishReport
<1>2. CASE PushBack(h)
  BY <1>2 DEF TypeOK, Snapshot, Born, Processing, Consented, PushBack
<1>3. CASE AskToWork(h)
  BY <1>3 DEF TypeOK, Snapshot, Born, Processing, Consented, AskToWork
<1>4. CASE Stop(h)
  BY <1>4 DEF TypeOK, Snapshot, Born, Processing, Consented, Stop
<1> QED
  BY <1>1, <1>2, <1>3, <1>4 DEF HandlerStep

\* And those of its upload thread.
LEMMA ConsentUpload ==
    ASSUME TypeOK, Born, Consented, NEW h \in Handlers, UploadStep(h)
    PROVE  Consented'
<1> USE DEF dbVars, settings, handing, pass, ghosts
<1>1. CASE BeginPass(h)
  BY <1>1 DEF TypeOK, Snapshot, Born, Processing, Consented, BeginPass, Goto
<1>2. CASE ExitThread(h)
  BY <1>2 DEF TypeOK, Snapshot, Born, Processing, Consented, ExitThread, Goto
<1>3. CASE LookUpKnown(h)
  <2>1. CASE holder[Head(todo[h])] = Free
    <3>1. Process(h, Read(Head(todo[h])))
      BY <1>3, <2>1 DEF LookUpKnown
    <3>2. Head(todo[h]) \in Reports
      BY <1>3 DEF TypeOK, LookUpKnown
    <3>3. Read(Head(todo[h])).requested => Read(Head(todo[h])).uuid \in consent
      BY <3>2 DEF Read, Consented
    <3> QED
      BY <1>3, <3>1, <3>3, ProcessEffect DEF Consented, LookUpKnown
  <2>2. CASE holder[Head(todo[h])] # Free
    BY <1>3, <2>2 DEF Consented, LookUpKnown
  <2> QED
    BY <2>1, <2>2
<1>4. CASE KnownDone(h)
  <2>1. CASE Watch
    BY <1>4, <2>1 DEF TypeOK, Consented, KnownDone, Goto
  <2>2. CASE ~Watch
    BY <1>4, <2>2, EndPassEffect DEF Consented, KnownDone
  <2> QED
    BY <2>1, <2>2
<1>5. CASE ListPending(h)
  BY <1>5 DEF TypeOK, Snapshot, Born, Processing, Consented, ListPending, Goto
<1>6. ASSUME NEW u \in Reports, ReadPending(h, u)
      PROVE  Consented'
  BY <1>6 DEF TypeOK, Snapshot, Born, Processing, Consented, ReadPending, Read
<1>7. CASE ListDone(h)
  BY <1>7 DEF TypeOK, Snapshot, Born, Processing, Consented, ListDone, Goto
<1>8. CASE ScanNext(h)
  BY <1>8 DEF TypeOK, Snapshot, Born, Processing, Consented, ScanNext, Process, Goto
<1>9. CASE ScanDone(h)
  BY <1>9 DEF TypeOK, Snapshot, Born, Processing, Consented, ScanDone, EndPass, Goto
<1>10. CASE NextReport(h)
  <2>1. CASE running[h]
    BY <1>10, <2>1 DEF TypeOK, Consented, NextReport, Goto
  <2>2. CASE ~running[h]
    BY <1>10, <2>2, EndPassEffect DEF Consented, NextReport
  <2> QED
    BY <2>1, <2>2
<1>11. CASE CheckEnabled(h)
  BY <1>11 DEF TypeOK, Snapshot, Born, Processing, Consented, CheckEnabled, Goto
<1>12. CASE ShouldRateLimitUpload(h)
  BY <1>12 DEF TypeOK, Snapshot, Born, Processing, Consented, ShouldRateLimitUpload, Goto
<1>13. CASE GetReportForUploading(h)
  BY <1>13 DEF TypeOK, Snapshot, Born, Processing, Consented, GetReportForUploading, Goto
<1>14. CASE UploadReport(h)
  BY <1>14 DEF TypeOK, Snapshot, Born, Processing, Consented, UploadReport, Goto
<1>15. CASE RecordUploadComplete(h)
  BY <1>15 DEF TypeOK, Snapshot, Born, Processing, Consented, RecordUploadComplete, Goto
<1>16. CASE DestroyUploadReport(h)
  BY <1>16 DEF TypeOK, Snapshot, Born, Processing, Consented, DestroyUploadReport, Goto
<1>17. CASE SkipReportUpload(h)
  BY <1>17 DEF TypeOK, Snapshot, Born, Processing, Consented, SkipReportUpload, Goto
<1>18. CASE ListFailed(h)
  BY <1>18 DEF TypeOK, Snapshot, Born, Processing, Consented, ListFailed, EndPass, Goto
<1> QED
  BY <1>1, <1>2, <1>3, <1>4, <1>5, <1>6, <1>7, <1>8, <1>9, <1>10, <1>11, <1>12, <1>13,
     <1>14, <1>15, <1>16, <1>17, <1>18 DEF UploadStep

LEMMA ConsentNext == TypeOK /\ Born /\ Consented /\ [Next]_vars => Consented'
<1>1. ASSUME Consented, UNCHANGED vars
      PROVE  Consented'
  BY <1>1 DEF Consented, vars, dbVars, settings, pass, ghosts
<1> QED
  BY <1>1, ConsentEnvironment, ConsentHandler, ConsentUpload DEF Next

\* No report is uploaded that was neither asked for nor there while uploads were
\* enabled: neither the Report read before the decision nor a decision that is old
\* when it is acted on says yes to a report that never had a yes.
THEOREM ConsentIsNeeded == Spec => []UploadedWithConsent
<1>1. Init => Born /\ Consented
  BY DEF Init, Born, Consented, Processing
<1>2. Consented => UploadedWithConsent
  BY DEF Consented, UploadedWithConsent
<1> QED
  BY <1>1, <1>2, InitTypes, NextTypes, BornNext, ConsentNext, PTL DEF Spec

----------------------------------------------------------------------------
(***************************************************************************)
(* A report is tried once in a pass.                                       *)
(***************************************************************************)

\* The steps beside the upload threads keep what is told once.
LEMMA ToldEnvironment ==
    ASSUME TypeOK, Born, ToldOnce, Environment
    PROVE  ToldOnce'
<1> USE DEF dbVars, settings, handing, pass, ghosts
<1>1. ASSUME NEW u \in Reports, RequestUpload(u)
      PROVE  ToldOnce'
  BY <1>1 DEF TypeOK, Snapshot, Born, ToldOnce, Distinct, In, RequestUpload
<1>2. ASSUME NEW u \in Reports, OtherLocks(u)
      PROVE  ToldOnce'
  BY <1>2 DEF TypeOK, Snapshot, Born, ToldOnce, Distinct, In, OtherLocks
<1>3. ASSUME NEW u \in Reports, OtherUnlocks(u)
      PROVE  ToldOnce'
  BY <1>3 DEF TypeOK, Snapshot, Born, ToldOnce, Distinct, In, OtherUnlocks
<1>4. CASE SetUploadsEnabled
  BY <1>4 DEF TypeOK, Snapshot, Born, ToldOnce, Distinct, In, SetUploadsEnabled
<1>5. CASE Tick
  BY <1>5 DEF TypeOK, Snapshot, Born, ToldOnce, Distinct, In, Tick
<1>6. CASE SetBack
  BY <1>6 DEF TypeOK, Snapshot, Born, ToldOnce, Distinct, In, SetBack
<1> QED
  BY <1>1, <1>2, <1>3, <1>4, <1>5, <1>6 DEF Environment

\* So do those of a handler's exception handling thread.
LEMMA ToldHandler ==
    ASSUME TypeOK, Born, ToldOnce, NEW h \in Handlers, HandlerStep(h)
    PROVE  ToldOnce'
<1> USE DEF dbVars, settings, handing, pass, ghosts
<1>1. ASSUME NEW u \in Reports, FinishReport(h, u)
      PROVE  ToldOnce'
  BY <1>1 DEF TypeOK, Snapshot, Born, ToldOnce, Distinct, In, FinishReport
<1>2. CASE PushBack(h)
  <2>1. PICK u \in fresh[h] : queue' = [queue EXCEPT ![h] = Append(@, u)]
    BY <1>2 DEF PushBack
  <2>2. u \in Reports /\ queue[h] \in Seq(Reports) /\ Distinct(queue[h]) /\ ~In(u, queue[h])
    BY <2>1 DEF TypeOK, ToldOnce
  <2>3. Distinct(Append(queue[h], u))
    BY <2>2 DEF Distinct, In
  <2>4. queue'[h] = Append(queue[h], u) /\ fresh'[h] = {}
    BY <1>2, <2>1 DEF TypeOK, PushBack
  <2>5. \A i \in Handlers \ {h} : queue'[i] = queue[i] /\ fresh'[i] = fresh[i]
    BY <1>2, <2>1 DEF TypeOK, PushBack
  <2> QED
    BY <2>3, <2>4, <2>5 DEF ToldOnce
<1>3. CASE AskToWork(h)
  BY <1>3 DEF TypeOK, Snapshot, Born, ToldOnce, Distinct, In, AskToWork
<1>4. CASE Stop(h)
  BY <1>4 DEF TypeOK, Snapshot, Born, ToldOnce, Distinct, In, Stop
<1> QED
  BY <1>1, <1>2, <1>3, <1>4 DEF HandlerStep

\* And those of its upload thread.
LEMMA ToldUpload ==
    ASSUME TypeOK, Born, ToldOnce, NEW h \in Handlers, UploadStep(h)
    PROVE  ToldOnce'
<1> USE DEF dbVars, settings, handing, pass, ghosts
<1>1. CASE BeginPass(h)
  BY <1>1 DEF TypeOK, Snapshot, Born, ToldOnce, Distinct, In, BeginPass, Goto
<1>2. CASE ExitThread(h)
  BY <1>2 DEF TypeOK, Snapshot, Born, ToldOnce, Distinct, In, ExitThread, Goto
<1>3. CASE LookUpKnown(h)
  BY <1>3 DEF TypeOK, Snapshot, Born, ToldOnce, Distinct, In, LookUpKnown, Process, Read, Goto
<1>4. CASE KnownDone(h)
  BY <1>4 DEF TypeOK, Snapshot, Born, ToldOnce, Distinct, In, KnownDone, EndPass, Goto
<1>5. CASE ListPending(h)
  BY <1>5 DEF TypeOK, Snapshot, Born, ToldOnce, Distinct, In, ListPending, Goto
<1>6. ASSUME NEW u \in Reports, ReadPending(h, u)
      PROVE  ToldOnce'
  BY <1>6 DEF TypeOK, Snapshot, Born, ToldOnce, Distinct, In, ReadPending, Read
<1>7. CASE ListDone(h)
  BY <1>7 DEF TypeOK, Snapshot, Born, ToldOnce, Distinct, In, ListDone, Goto
<1>8. CASE ScanNext(h)
  BY <1>8 DEF TypeOK, Snapshot, Born, ToldOnce, Distinct, In, ScanNext, Process, Goto
<1>9. CASE ScanDone(h)
  BY <1>9 DEF TypeOK, Snapshot, Born, ToldOnce, Distinct, In, ScanDone, EndPass, Goto
<1>10. CASE NextReport(h)
  BY <1>10 DEF TypeOK, Snapshot, Born, ToldOnce, Distinct, In, NextReport, EndPass, Goto
<1>11. CASE CheckEnabled(h)
  BY <1>11 DEF TypeOK, Snapshot, Born, ToldOnce, Distinct, In, CheckEnabled, Goto
<1>12. CASE ShouldRateLimitUpload(h)
  BY <1>12 DEF TypeOK, Snapshot, Born, ToldOnce, Distinct, In, ShouldRateLimitUpload, Goto
<1>13. CASE GetReportForUploading(h)
  BY <1>13 DEF TypeOK, Snapshot, Born, ToldOnce, Distinct, In, GetReportForUploading, Goto
<1>14. CASE UploadReport(h)
  BY <1>14 DEF TypeOK, Snapshot, Born, ToldOnce, Distinct, In, UploadReport, Goto
<1>15. CASE RecordUploadComplete(h)
  BY <1>15 DEF TypeOK, Snapshot, Born, ToldOnce, Distinct, In, RecordUploadComplete, Goto
<1>16. CASE DestroyUploadReport(h)
  BY <1>16 DEF TypeOK, Snapshot, Born, ToldOnce, Distinct, In, DestroyUploadReport, Goto
<1>17. CASE SkipReportUpload(h)
  BY <1>17 DEF TypeOK, Snapshot, Born, ToldOnce, Distinct, In, SkipReportUpload, Goto
<1>18. CASE ListFailed(h)
  BY <1>18 DEF TypeOK, Snapshot, Born, ToldOnce, Distinct, In, ListFailed, EndPass, Goto
<1> QED
  BY <1>1, <1>2, <1>3, <1>4, <1>5, <1>6, <1>7, <1>8, <1>9, <1>10, <1>11, <1>12, <1>13,
     <1>14, <1>15, <1>16, <1>17, <1>18 DEF UploadStep

LEMMA ToldNext == TypeOK /\ Born /\ ToldOnce /\ [Next]_vars => ToldOnce'
<1>1. ASSUME ToldOnce, UNCHANGED vars
      PROVE  ToldOnce'
  BY <1>1 DEF ToldOnce, vars, handing
<1> QED
  BY <1>1, ToldEnvironment, ToldHandler, ToldUpload DEF Next

\* Going on with a report changes nothing of it.
LEMMA GoOn ==
    ASSUME TypeOK, TriedPassed, NEW h \in Handlers, NEW l \in Processing, Goto(h, l),
           UNCHANGED <<known, todo, unread, scan, item, tried>>, pc[h] \in Processing,
           l \in {"process", "limit", "get", "upload"} =>
             pc[h] \in {"process", "limit", "get", "upload"}
    PROVE  TriedPassed'
<1>1. pc'[h] = l /\ \A i \in Handlers \ {h} : pc'[i] = pc[i]
  BY DEF TypeOK, Goto
<1> QED
  BY <1>1 DEF TriedPassed, TriedBy, Processing

\* The steps beside the upload threads keep what has been tried apart from what is to come.
LEMMA TriedEnvironment ==
    ASSUME TypeOK, ToldOnce, TriedPassed, Environment
    PROVE  TriedPassed'
<1> USE DEF dbVars, settings, handing, pass, ghosts
<1>1. ASSUME NEW u \in Reports, RequestUpload(u)
      PROVE  TriedPassed'
  BY <1>1 DEF TypeOK, Snapshot, Distinct, In, Processing, TriedPassed, TriedBy, RequestUpload
<1>2. ASSUME NEW u \in Reports, OtherLocks(u)
      PROVE  TriedPassed'
  BY <1>2 DEF TypeOK, Snapshot, Distinct, In, Processing, TriedPassed, TriedBy, OtherLocks
<1>3. ASSUME NEW u \in Reports, OtherUnlocks(u)
      PROVE  TriedPassed'
  BY <1>3 DEF TypeOK, Snapshot, Distinct, In, Processing, TriedPassed, TriedBy, OtherUnlocks
<1>4. CASE SetUploadsEnabled
  BY <1>4 DEF TypeOK, Snapshot, Distinct, In, Processing, TriedPassed, TriedBy, SetUploadsEnabled
<1>5. CASE Tick
  BY <1>5 DEF TypeOK, Snapshot, Distinct, In, Processing, TriedPassed, TriedBy, Tick
<1>6. CASE SetBack
  BY <1>6 DEF TypeOK, Snapshot, Distinct, In, Processing, TriedPassed, TriedBy, SetBack
<1> QED
  BY <1>1, <1>2, <1>3, <1>4, <1>5, <1>6 DEF Environment

\* So do those of a handler's exception handling thread.
LEMMA TriedHandler ==
    ASSUME TypeOK, ToldOnce, TriedPassed, NEW h \in Handlers, HandlerStep(h)
    PROVE  TriedPassed'
<1> USE DEF dbVars, settings, handing, pass, ghosts
<1>1. ASSUME NEW u \in Reports, FinishReport(h, u)
      PROVE  TriedPassed'
  BY <1>1 DEF TypeOK, Snapshot, Distinct, In, Processing, TriedPassed, TriedBy, FinishReport
<1>2. CASE PushBack(h)
  BY <1>2 DEF TypeOK, Snapshot, Distinct, In, Processing, TriedPassed, TriedBy, PushBack
<1>3. CASE AskToWork(h)
  BY <1>3 DEF TypeOK, Snapshot, Distinct, In, Processing, TriedPassed, TriedBy, AskToWork
<1>4. CASE Stop(h)
  BY <1>4 DEF TypeOK, Snapshot, Distinct, In, Processing, TriedPassed, TriedBy, Stop
<1> QED
  BY <1>1, <1>2, <1>3, <1>4 DEF HandlerStep

\* And those of its upload thread.
LEMMA TriedUpload ==
    ASSUME TypeOK, ToldOnce, TriedPassed, NEW h \in Handlers, UploadStep(h)
    PROVE  TriedPassed'
<1> USE DEF dbVars, settings, handing, pass, ghosts
<1>1. CASE BeginPass(h)
  <2>1. Distinct(queue[h]) /\ scan[h] = {} /\ queue[h] \in Seq(Reports)
    BY <1>1 DEF TypeOK, BeginPass, ToldOnce, TriedPassed, TriedBy
  <2>2. /\ pc'[h] = "known" /\ known'[h] = queue[h] /\ todo'[h] = queue[h]
        /\ tried'[h] = {} /\ scan' = scan /\ unread' = unread /\ item' = item
    BY <1>1 DEF TypeOK, BeginPass, Goto
  <2>3. \A i \in Handlers \ {h} :
          /\ pc'[i] = pc[i] /\ known'[i] = known[i] /\ todo'[i] = todo[i]
          /\ tried'[i] = tried[i]
    BY <1>1 DEF TypeOK, BeginPass, Goto
  <2>4. TriedBy(h)'
    BY <2>1, <2>2 DEF TriedBy, In, Processing
  <2>5. ASSUME NEW i \in Handlers \ {h}
        PROVE  TriedBy(i)'
    BY <2>2, <2>3 DEF TriedBy, TriedPassed
  <2> QED
    BY <2>4, <2>5 DEF TriedPassed
<1>2. CASE ExitThread(h)
  BY <1>2 DEF TypeOK, Snapshot, Distinct, In, Processing, TriedPassed, TriedBy, ExitThread, Goto
<1>3. CASE LookUpKnown(h)
  <2>1. todo[h] \in Seq(Reports) /\ todo[h] # <<>> /\ pc[h] = "known" /\ TriedBy(h)
    BY <1>3 DEF TypeOK, LookUpKnown, TriedPassed
  <2>2. /\ todo'[h] = Tail(todo[h])
        /\ \A i \in Handlers \ {h} : todo'[i] = todo[i]
    BY <1>3 DEF TypeOK, LookUpKnown
  <2>3. Distinct(Tail(todo[h])) /\ ~In(Head(todo[h]), Tail(todo[h]))
    BY <2>1 DEF TriedBy, Distinct, In
  <2>4. \A i \in DOMAIN Tail(todo[h]) :
          \E j \in DOMAIN todo[h] : Tail(todo[h])[i] = todo[h][j]
    BY <2>1
  <2>5. Head(todo[h]) \notin tried[h] /\ In(Head(todo[h]), known[h])
    BY <2>1 DEF TriedBy
  <2>6. \A i \in DOMAIN todo'[h] : In(todo'[h][i], known[h]) /\ todo'[h][i] \notin tried[h]
    BY <2>1, <2>2, <2>4 DEF TriedBy
  <2>7. CASE holder[Head(todo[h])] = Free
    <3>1. Process(h, Read(Head(todo[h])))
      BY <1>3, <2>7 DEF LookUpKnown
    <3>2. /\ pc'[h] = "process" /\ item'[h].uuid = Head(todo[h])
          /\ \A i \in Handlers \ {h} : pc'[i] = pc[i] /\ item'[i] = item[i]
      BY <3>1, ProcessEffect DEF Read
    <3>3. TriedBy(h)'
      BY <1>3, <2>1, <2>2, <2>3, <2>5, <2>6, <3>2 DEF LookUpKnown, TriedBy, In
    <3>4. ASSUME NEW i \in Handlers \ {h}
          PROVE  TriedBy(i)'
      BY <1>3, <2>2, <3>2 DEF LookUpKnown, TriedPassed, TriedBy
    <3> QED
      BY <3>3, <3>4 DEF TriedPassed
  <2>8. CASE holder[Head(todo[h])] # Free
    <3>1. TriedBy(h)'
      BY <1>3, <2>1, <2>2, <2>3, <2>6, <2>8 DEF LookUpKnown, TriedBy, Processing
    <3>2. ASSUME NEW i \in Handlers \ {h}
          PROVE  TriedBy(i)'
      BY <1>3, <2>2, <2>8 DEF LookUpKnown, TriedPassed, TriedBy
    <3> QED
      BY <3>1, <3>2 DEF TriedPassed
  <2> QED
    BY <2>7, <2>8
<1>4. CASE KnownDone(h)
  <2>1. CASE Watch
    <3>1. pc'[h] = "open" /\ \A i \in Handlers \ {h} : pc'[i] = pc[i]
      BY <1>4, <2>1 DEF TypeOK, KnownDone, Goto
    <3> QED
      BY <1>4, <2>1, <3>1 DEF KnownDone, TriedPassed, TriedBy, Processing
  <2>2. CASE ~Watch
    <3>1. TriedBy(h)'
      BY <1>4, <2>2, EndPassEffect DEF KnownDone, TriedBy, Distinct, Processing
    <3>2. ASSUME NEW i \in Handlers \ {h}
          PROVE  TriedBy(i)'
      BY <1>4, <2>2, EndPassEffect DEF KnownDone, TriedBy, TriedPassed
    <3> QED
      BY <3>1, <3>2 DEF TriedPassed
  <2> QED
    BY <2>1, <2>2
<1>5. CASE ListPending(h)
  BY <1>5 DEF TypeOK, Snapshot, Distinct, In, Processing, TriedPassed, TriedBy, ListPending, Goto
<1>6. ASSUME NEW u \in Reports, ReadPending(h, u)
      PROVE  TriedPassed'
  BY <1>6 DEF TypeOK, Snapshot, Distinct, In, Processing, TriedPassed, TriedBy, ReadPending, Read
<1>7. CASE ListDone(h)
  BY <1>7 DEF TypeOK, Snapshot, Distinct, In, Processing, TriedPassed, TriedBy, ListDone, Goto
<1>8. CASE ScanNext(h)
  BY <1>8 DEF TypeOK, Snapshot, Distinct, In, Processing, TriedPassed, TriedBy, ScanNext, Process,
     Goto
<1>9. CASE ScanDone(h)
  BY <1>9 DEF TypeOK, Snapshot, Distinct, In, Processing, TriedPassed, TriedBy, ScanDone, EndPass,
     Goto
<1>10. CASE NextReport(h)
  <2>1. CASE running[h]
    <3>1. /\ pc[h] = "next"
          /\ pc'[h] = IF In(item[h].uuid, known[h]) THEN "known" ELSE "scan"
          /\ \A i \in Handlers \ {h} : pc'[i] = pc[i]
      BY <1>10, <2>1 DEF TypeOK, NextReport, Goto, In
    <3> QED
      BY <1>10, <2>1, <3>1 DEF NextReport, TriedPassed, TriedBy, Processing
  <2>2. CASE ~running[h]
    <3>1. TriedBy(h)'
      BY <1>10, <2>2, EndPassEffect DEF NextReport, TriedBy, Distinct, Processing
    <3>2. ASSUME NEW i \in Handlers \ {h}
          PROVE  TriedBy(i)'
      BY <1>10, <2>2, EndPassEffect DEF NextReport, TriedBy, TriedPassed
    <3> QED
      BY <3>1, <3>2 DEF TriedPassed
  <2> QED
    BY <2>1, <2>2
<1>11. CASE CheckEnabled(h)
  <2>1. pc[h] \in {"process"}
    BY <1>11 DEF CheckEnabled
  <2>2. PICK l \in {"get", "limit", "skip"} : Goto(h, l)
    BY <1>11 DEF CheckEnabled
  <2>3. UNCHANGED <<known, todo, unread, scan, item, tried>>
    BY <1>11 DEF CheckEnabled
  <2> QED
    BY <2>1, <2>2, <2>3, GoOn DEF Processing
<1>12. CASE ShouldRateLimitUpload(h)
  <2>1. pc[h] \in {"limit"}
    BY <1>12 DEF ShouldRateLimitUpload
  <2>2. PICK l \in {"get", "skip"} : Goto(h, l)
    BY <1>12 DEF ShouldRateLimitUpload
  <2>3. UNCHANGED <<known, todo, unread, scan, item, tried>>
    BY <1>12 DEF ShouldRateLimitUpload
  <2> QED
    BY <2>1, <2>2, <2>3, GoOn DEF Processing
<1>13. CASE GetReportForUploading(h)
  <2>1. pc[h] \in {"get"}
    BY <1>13 DEF GetReportForUploading
  <2>2. PICK l \in {"upload", "next", "skip"} : Goto(h, l)
    BY <1>13 DEF GetReportForUploading
  <2>3. UNCHANGED <<known, todo, unread, scan, item, tried>>
    BY <1>13 DEF GetReportForUploading
  <2> QED
    BY <2>1, <2>2, <2>3, GoOn DEF Processing
<1>14. CASE UploadReport(h)
  <2>1. /\ pc[h] = "upload" /\ pc'[h] \in {"complete", "destroy"}
        /\ tried'[h] = tried[h] \cup {item[h].uuid}
        /\ \A i \in Handlers \ {h} : pc'[i] = pc[i] /\ tried'[i] = tried[i]
    BY <1>14 DEF TypeOK, UploadReport, Goto
  <2>2. TriedBy(h)'
    BY <1>14, <2>1 DEF UploadReport, TriedPassed, TriedBy, Processing
  <2>3. ASSUME NEW i \in Handlers \ {h}
        PROVE  TriedBy(i)'
    BY <1>14, <2>1 DEF UploadReport, TriedPassed, TriedBy
  <2> QED
    BY <2>2, <2>3 DEF TriedPassed
<1>15. CASE RecordUploadComplete(h)
  BY <1>15 DEF TypeOK, Snapshot, Distinct, In, Processing, TriedPassed, TriedBy,
     RecordUploadComplete, Goto
<1>16. CASE DestroyUploadReport(h)
  BY <1>16 DEF TypeOK, Snapshot, Distinct, In, Processing, TriedPassed, TriedBy,
     DestroyUploadReport, Goto
<1>17. CASE SkipReportUpload(h)
  <2>1. pc[h] \in {"skip"}
    BY <1>17 DEF SkipReportUpload
  <2>2. PICK l \in {"next"} : Goto(h, l)
    BY <1>17 DEF SkipReportUpload
  <2>3. UNCHANGED <<known, todo, unread, scan, item, tried>>
    BY <1>17 DEF SkipReportUpload
  <2> QED
    BY <2>1, <2>2, <2>3, GoOn DEF Processing
<1>18. CASE ListFailed(h)
  BY <1>18 DEF TypeOK, Snapshot, Distinct, In, Processing, TriedPassed, TriedBy, ListFailed,
     EndPass, Goto
<1> QED
  BY <1>1, <1>2, <1>3, <1>4, <1>5, <1>6, <1>7, <1>8, <1>9, <1>10, <1>11, <1>12, <1>13,
     <1>14, <1>15, <1>16, <1>17, <1>18 DEF UploadStep

LEMMA TriedNext == TypeOK /\ ToldOnce /\ TriedPassed /\ [Next]_vars => TriedPassed'
<1>1. ASSUME TriedPassed, UNCHANGED vars
      PROVE  TriedPassed'
  BY <1>1 DEF TriedPassed, TriedBy, vars, pass, ghosts
<1> QED
  BY <1>1, TriedEnvironment, TriedHandler, TriedUpload DEF Next

\* No pass tries a report twice, although one that is tried in vain may stay pending
\* and is then among those the scan finds: the exception handler makes each report
\* known once, and the scan passes over the ones that were known.
THEOREM TriedOnce == Spec => TriedOncePerPass
<1>1. Init => Born /\ ToldOnce /\ TriedPassed
  BY DEF Init, Born, ToldOnce, TriedPassed, TriedBy, Distinct, In,
     Processing
<1>2. TriedPassed /\ [Next]_vars =>
        [\A h \in Handlers :
           pc[h] = "upload" /\ pc'[h] # "upload" => item[h].uuid \notin tried[h]]_vars
  BY DEF TriedPassed, TriedBy
<1> QED
  BY <1>1, <1>2, InitTypes, NextTypes, BornNext, ToldNext, TriedNext, PTL
  DEF Spec, TriedOncePerPass

----------------------------------------------------------------------------
(***************************************************************************)
(* Uploads are an hour apart.                                              *)
(***************************************************************************)

\* What the throttling needs: that it is on, that the database is not shared (its
\* handlers do not lock between reading the time and recording it), that the clock
\* is not set back, and that the time can be read and written.
OneCalmHandler ==
    /\ RateLimit
    /\ \A h, i \in Handlers : h = i
    /\ Events \cap {"clock", "settings", "database"} = {}

\* The steps beside the upload threads keep the hour that has passed.
LEMMA HourEnvironment ==
    ASSUME OneCalmHandler, TypeOK, HourPassed, Environment
    PROVE  HourPassed'
<1> USE DEF dbVars, settings, handing, pass, ghosts
<1>1. ASSUME NEW u \in Reports, RequestUpload(u)
      PROVE  HourPassed'
  BY <1>1 DEF TypeOK, HourPassed, OneCalmHandler, RequestUpload, Event
<1>2. ASSUME NEW u \in Reports, OtherLocks(u)
      PROVE  HourPassed'
  BY <1>2 DEF TypeOK, HourPassed, OneCalmHandler, OtherLocks, Event
<1>3. ASSUME NEW u \in Reports, OtherUnlocks(u)
      PROVE  HourPassed'
  BY <1>3 DEF TypeOK, HourPassed, OneCalmHandler, OtherUnlocks
<1>4. CASE SetUploadsEnabled
  BY <1>4 DEF TypeOK, HourPassed, OneCalmHandler, SetUploadsEnabled, Event
<1>5. CASE Tick
  BY <1>5 DEF TypeOK, HourPassed, OneCalmHandler, Tick
<1>6. CASE SetBack
  BY <1>6 DEF TypeOK, HourPassed, OneCalmHandler, SetBack, Event
<1> QED
  BY <1>1, <1>2, <1>3, <1>4, <1>5, <1>6 DEF Environment

\* So do those of a handler's exception handling thread.
LEMMA HourHandler ==
    ASSUME OneCalmHandler, TypeOK, HourPassed, NEW h \in Handlers, HandlerStep(h)
    PROVE  HourPassed'
<1> USE DEF dbVars, settings, handing, pass, ghosts
<1>1. ASSUME NEW u \in Reports, FinishReport(h, u)
      PROVE  HourPassed'
  BY <1>1 DEF TypeOK, HourPassed, OneCalmHandler, FinishReport
<1>2. CASE PushBack(h)
  BY <1>2 DEF TypeOK, HourPassed, OneCalmHandler, PushBack
<1>3. CASE AskToWork(h)
  BY <1>3 DEF TypeOK, HourPassed, OneCalmHandler, AskToWork
<1>4. CASE Stop(h)
  BY <1>4 DEF TypeOK, HourPassed, OneCalmHandler, Stop
<1> QED
  BY <1>1, <1>2, <1>3, <1>4 DEF HandlerStep

\* And those of its upload thread.
LEMMA HourUpload ==
    ASSUME OneCalmHandler, TypeOK, HourPassed, NEW h \in Handlers, UploadStep(h)
    PROVE  HourPassed'
<1> USE DEF dbVars, settings, handing, pass, ghosts
<1>1. CASE BeginPass(h)
  BY <1>1 DEF TypeOK, HourPassed, OneCalmHandler, BeginPass, Goto
<1>2. CASE ExitThread(h)
  BY <1>2 DEF TypeOK, HourPassed, OneCalmHandler, ExitThread, Goto
<1>3. CASE LookUpKnown(h)
  BY <1>3 DEF TypeOK, HourPassed, OneCalmHandler, LookUpKnown, Process, Read, Goto
<1>4. CASE KnownDone(h)
  <2>1. CASE Watch
    BY <1>4, <2>1 DEF TypeOK, HourPassed, KnownDone, Goto
  <2>2. CASE ~Watch
    BY <1>4, <2>2, EndPassEffect DEF HourPassed, KnownDone
  <2> QED
    BY <2>1, <2>2
<1>5. CASE ListPending(h)
  BY <1>5 DEF TypeOK, HourPassed, OneCalmHandler, ListPending, Goto
<1>6. ASSUME NEW u \in Reports, ReadPending(h, u)
      PROVE  HourPassed'
  BY <1>6 DEF TypeOK, HourPassed, OneCalmHandler, ReadPending, Read
<1>7. CASE ListDone(h)
  BY <1>7 DEF TypeOK, HourPassed, OneCalmHandler, ListDone, Goto
<1>8. CASE ScanNext(h)
  BY <1>8 DEF TypeOK, HourPassed, OneCalmHandler, ScanNext, Process, Goto
<1>9. CASE ScanDone(h)
  BY <1>9 DEF TypeOK, HourPassed, OneCalmHandler, ScanDone, EndPass, Goto
<1>10. CASE NextReport(h)
  BY <1>10 DEF TypeOK, HourPassed, OneCalmHandler, NextReport, EndPass, Goto
<1>11. CASE CheckEnabled(h)
  BY <1>11 DEF TypeOK, HourPassed, OneCalmHandler, CheckEnabled, Goto, Event
<1>12. CASE ShouldRateLimitUpload(h)
  BY <1>12 DEF TypeOK, HourPassed, OneCalmHandler, ShouldRateLimitUpload, Goto, Event, TooSoon
<1>13. CASE GetReportForUploading(h)
  BY <1>13 DEF TypeOK, HourPassed, OneCalmHandler, GetReportForUploading, Goto, Event
<1>14. CASE UploadReport(h)
  BY <1>14 DEF TypeOK, HourPassed, OneCalmHandler, UploadReport, Goto
<1>15. CASE RecordUploadComplete(h)
  BY <1>15 DEF TypeOK, HourPassed, OneCalmHandler, RecordUploadComplete, Goto, Event
<1>16. CASE DestroyUploadReport(h)
  BY <1>16 DEF TypeOK, HourPassed, OneCalmHandler, DestroyUploadReport, Goto, Event
<1>17. CASE SkipReportUpload(h)
  BY <1>17 DEF TypeOK, HourPassed, OneCalmHandler, SkipReportUpload, Goto
<1>18. CASE ListFailed(h)
  BY <1>18 DEF TypeOK, HourPassed, OneCalmHandler, ListFailed, EndPass, Goto
<1> QED
  BY <1>1, <1>2, <1>3, <1>4, <1>5, <1>6, <1>7, <1>8, <1>9, <1>10, <1>11, <1>12, <1>13,
     <1>14, <1>15, <1>16, <1>17, <1>18 DEF UploadStep

LEMMA HourNext ==
    ASSUME OneCalmHandler
    PROVE  TypeOK /\ HourPassed /\ [Next]_vars => HourPassed'
<1>1. ASSUME HourPassed, UNCHANGED vars
      PROVE  HourPassed'
  BY <1>1 DEF HourPassed, vars, settings, pass, ghosts
<1> QED
  BY <1>1, HourEnvironment, HourHandler, HourUpload DEF Next

\* "By default uploads are throttled to one per hour": a lone handler begins an
\* attempt that nobody asked for only an hour after the attempt before it, also
\* after one that took its time, that failed or that was asked for.
THEOREM UploadsThrottled ==
    ASSUME OneCalmHandler
    PROVE  Spec => RateLimited
<1>1. Init => HourPassed
  BY DEF Init, HourPassed
<1>2. TypeOK /\ HourPassed /\ [Next]_vars =>
        [\A h \in Handlers :
           pc[h] = "upload" /\ pc'[h] # "upload" /\ ~item[h].requested /\ begun # 0 =>
             clock - begun >= Hour]_vars
  <2>1. ASSUME TypeOK, HourPassed, NEW h \in Handlers, pc[h] = "upload", ~item[h].requested
        PROVE  clock - begun >= Hour
    <3>1. clock \in Nat /\ last \in Nat /\ begun \in Nat
      BY <2>1 DEF TypeOK
    <3>2. begun <= last /\ clock - last >= Hour
      BY <2>1 DEF HourPassed
    <3> QED
      BY <3>1, <3>2
  <2> QED
    BY <2>1
<1> QED
  BY <1>1, <1>2, InitTypes, NextTypes, HourNext, PTL DEF Spec, RateLimited
=============================================================================
