---------------------------- MODULE WindowsProofs ----------------------------
(***************************************************************************)
(* Proofs about what is Windows' own: WinDatabase, for any processes,      *)
(* reports and faults, and WinCapture, for any clients with any threads.   *)
(***************************************************************************)
EXTENDS WinDatabase, WinCapture, TLAPS

----------------------------------------------------------------------------
(***************************************************************************)
(* The database.                                                           *)
(***************************************************************************)

\* Nothing is in memory while the file is not locked, and nothing on the disk while it is
\* being written.
LockShape ==
    /\ held.by = NoUser => held = Free
    /\ held.stage = "truncated" => onDisk = Empty

\* A UUID that was not made is not used anywhere.
Fresh ==
    \A u \in WinReports \ made :
      /\ onDisk[u] = NoRecord /\ held.recs[u] = NoRecord
      /\ \A p \in DatabaseUsers : newReport[p] # u /\ uploadReport[p].report # u

\* A report that is being written is its writer's alone, and nobody knows of it yet.
Unfinished ==
    \A p \in DatabaseUsers : newReport[p] # NoReport =>
      /\ newReport[p] \notin finished /\ newReport[p] \notin accepted
      /\ onDisk[newReport[p]] = NoRecord /\ held.recs[newReport[p]] = NoRecord
      /\ \A q \in DatabaseUsers :
           /\ uploadReport[q].report # newReport[p]
           /\ q # p => newReport[q] # newReport[p]

\* A report that is being uploaded is marked so, or its record is gone: in memory, and on
\* the disk unless its uploader is just about to write the mark.  Only one whose mark could
\* not be written is not.
Marked ==
    \A p \in DatabaseUsers :
      LET u == uploadReport[p].report
      IN u # NoReport /\ u \notin unmarked =>
           /\ held.recs[u].state \in {"uploading", "none"}
           /\ \/ onDisk[u].state \in {"uploading", "none"}
              \/ held.by = p /\ onDisk[u].state = "pending" /\ held.recs[u].state = "uploading"

\* A record of a report that the server has does not offer it for uploading: it is not
\* pending, and RequestUpload() does not make it so.
Closed(record) ==
    /\ record.state # "pending"
    /\ record.state = "completed" => record.uploaded

AcceptedClosed ==
    \A u \in accepted \ unmarked : Closed(onDisk[u]) /\ Closed(held.recs[u])

UploadInv ==
    /\ WinDatabaseTypeOK /\ LockShape /\ Fresh /\ Unfinished /\ Marked /\ AcceptedClosed
    /\ WinUploadedOnce

USE WinDatabaseAssumption

\* What the constants are.
LEMMA Records ==
    /\ NoRecord \in Record /\ NewRecord \in Record
    /\ NoRecord.state = "none" /\ NewRecord.state = "pending" /\ NewRecord # NoRecord
    /\ Empty \in [WinReports -> Record]
    /\ \A u \in WinReports : Empty[u] = NoRecord
    /\ Free.by = NoUser /\ Free.recs = Empty
    /\ Free \in [by : DatabaseUsers \cup {NoUser}, recs : [WinReports -> Record],
                 stage : {"none", "dirty", "truncated", "stuck"}]
    /\ NoUpload \in [report : WinReports \cup {NoReport}, requested : BOOLEAN, sent : BOOLEAN]
    /\ NoUpload.report = NoReport
BY DEF NoRecord, NewRecord, Record, Empty, Free, NoUpload

\* The initial state.
LEMMA UploadInit == WinDatabaseInit => UploadInv
<1> SUFFICES ASSUME WinDatabaseInit PROVE UploadInv
  OBVIOUS
<1>1. WinDatabaseTypeOK
  BY Records DEF WinDatabaseInit, WinDatabaseTypeOK
<1>2. LockShape /\ Fresh /\ Unfinished /\ Marked /\ AcceptedClosed /\ WinUploadedOnce
  BY Records DEF WinDatabaseInit, LockShape, Fresh, Unfinished, Marked, AcceptedClosed,
     WinUploadedOnce
<1> QED
  BY <1>1, <1>2 DEF UploadInv

\* The types of the lock and of an UploadReport.
Held == [by : DatabaseUsers \cup {NoUser}, recs : [WinReports -> Record],
         stage : {"none", "dirty", "truncated", "stuck"}]
Upload == [report : WinReports \cup {NoReport}, requested : BOOLEAN, sent : BOOLEAN]

\* What Change() makes of the metadata in memory.
LEMMA Changed ==
    ASSUME WinDatabaseTypeOK, NEW p \in DatabaseUsers, NEW u \in WinReports,
           NEW record \in Record, Change(p, u, record)
    PROVE  /\ held' \in Held
           /\ held'.by = p /\ held'.stage = "dirty"
           /\ held'.recs[u] = record
           /\ \A v \in WinReports \ {u} : held'.recs[v] = onDisk[v]
BY DEF Change, WinDatabaseTypeOK, Held

\* The parts of the invariant that are not types.
Parts == LockShape /\ Fresh /\ Unfinished /\ Marked /\ AcceptedClosed /\ WinUploadedOnce

\* An operation that only changes the record of a known report to one that is neither
\* pending nor completed where it must not be.
LEMMA RecordChange ==
    ASSUME UploadInv, NEW p \in DatabaseUsers, NEW u \in WinReports, NEW record \in Record,
           held.by = NoUser, Change(p, u, record), UNCHANGED onDisk,
           UNCHANGED <<newReport, uploadReport, made, accepted, unmarked>>,
           finished' \subseteq finished,
           onDisk[u] # NoRecord,
           u \in accepted \ unmarked => Closed(record),
           u \notin unmarked => \A q \in DatabaseUsers :
             uploadReport[q].report = u => record.state \in {"uploading", "none"}
    PROVE  Parts'
<1>1. /\ held'.by = p /\ held'.stage = "dirty" /\ held'.recs[u] = record
      /\ \A v \in WinReports \ {u} : held'.recs[v] = onDisk[v]
  BY Changed DEF UploadInv
<1>2. NoUser # p /\ accepted \subseteq WinReports
  BY DEF UploadInv, WinDatabaseTypeOK
<1>3. LockShape' /\ Fresh'
  BY <1>1, <1>2 DEF UploadInv, LockShape, Fresh
<1>4. Unfinished'
  BY <1>1, <1>2 DEF UploadInv, Unfinished, WinDatabaseTypeOK
<1>5. Marked'
  BY <1>1, <1>2 DEF UploadInv, Marked, WinDatabaseTypeOK
<1>6. AcceptedClosed'
  BY <1>1, <1>2 DEF UploadInv, AcceptedClosed
<1>7. WinUploadedOnce'
  BY DEF UploadInv, WinUploadedOnce
<1> QED
  BY <1>3, <1>4, <1>5, <1>6, <1>7 DEF Parts

\* Every operation keeps the types.
LEMMA TypeStep == UploadInv /\ [WinDatabaseNext]_winDatabaseVars => WinDatabaseTypeOK'
<1> SUFFICES ASSUME UploadInv, [WinDatabaseNext]_winDatabaseVars PROVE WinDatabaseTypeOK'
  OBVIOUS
<1>t. WinDatabaseTypeOK /\ Fresh
  BY DEF UploadInv
<1>d. /\ onDisk \in [WinReports -> Record] /\ held \in Held
      /\ uploadReport \in [DatabaseUsers -> Upload]
      /\ \A u \in WinReports : onDisk[u] \in Record
  BY <1>t DEF WinDatabaseTypeOK, Held, Upload
<1>0. CASE UNCHANGED winDatabaseVars
  BY <1>t, <1>0 DEF WinDatabaseTypeOK, winDatabaseVars
<1>1. ASSUME NEW p \in DatabaseUsers, TruncateMetadata(p) PROVE WinDatabaseTypeOK'
  BY <1>t, <1>1, Records DEF WinDatabaseTypeOK, TruncateMetadata, fileVars, objectVars, resultVars
<1>2. ASSUME NEW p \in DatabaseUsers, WriteMetadata(p) PROVE WinDatabaseTypeOK'
  BY <1>t, <1>2, Records DEF WinDatabaseTypeOK, WriteMetadata, fileVars, objectVars, resultVars
<1>3. ASSUME NEW p \in DatabaseUsers, KillUser(p) PROVE WinDatabaseTypeOK'
  BY <1>t, <1>3, Records DEF WinDatabaseTypeOK, KillUser, fileVars, resultVars
<1>4. ASSUME NEW p \in DatabaseUsers, DropNewReport(p) PROVE WinDatabaseTypeOK'
  BY <1>t, <1>4 DEF WinDatabaseTypeOK, DropNewReport, fileVars, resultVars
<1>5. ASSUME NEW p \in DatabaseUsers, FinishedWritingCrashReport(p) PROVE WinDatabaseTypeOK'
  BY <1>t, <1>5, Records
     DEF WinDatabaseTypeOK, FinishedWritingCrashReport, Change, fileVars, Fresh
<1>6. ASSUME NEW p \in DatabaseUsers, SendReport(p) PROVE WinDatabaseTypeOK'
  <2>1. uploadReport[p].report \in made
    BY <1>t, <1>d, <1>6 DEF SendReport, Fresh, Upload
  <2>2. uploadReport' \in [DatabaseUsers -> Upload]
    BY <1>d, <1>6 DEF SendReport, Upload
  <2> QED
    BY <1>t, <1>6, <2>1, <2>2 DEF WinDatabaseTypeOK, SendReport, Upload, fileVars
<1>7. ASSUME NEW p \in DatabaseUsers, RecordUploadAttempt(p) PROVE WinDatabaseTypeOK'
  <2>1. held' \in Held
    <3>1. CASE Verified(uploadReport[p].report, {"uploading"})
      <4> DEFINE record == IF uploadReport[p].sent
                             THEN [state |-> "completed", uploaded |-> TRUE,
                                   requested |-> FALSE]
                             ELSE [state |-> "pending", uploaded |-> FALSE,
                                   requested |-> uploadReport[p].requested]
      <4>1. record \in Record /\ uploadReport[p].report \in WinReports
        BY <1>d, <1>7 DEF RecordUploadAttempt, Record, Upload
      <4>2. Change(p, uploadReport[p].report, record)
        BY <1>7, <3>1 DEF RecordUploadAttempt
      <4> QED
        BY ONLY <1>t, <4>1, <4>2, Changed
    <3>2. CASE ~Verified(uploadReport[p].report, {"uploading"})
      BY <1>d, <1>7, <3>2 DEF RecordUploadAttempt
    <3> QED
      BY <3>1, <3>2
  <2>2. uploadReport' \in [DatabaseUsers -> Upload]
    BY <1>d, <1>7, Records DEF RecordUploadAttempt, Upload
  <2> QED
    BY <1>t, <1>7, <2>1, <2>2
       DEF WinDatabaseTypeOK, RecordUploadAttempt, Held, Upload, fileVars, resultVars
<1>8. ASSUME NEW p \in DatabaseUsers, CleanDatabase(p) PROVE WinDatabaseTypeOK'
  <2>1. PICK old \in SUBSET {u \in dmp : onDisk[u] = NoRecord /\ ~Opened(u)} :
          LET recs == [u \in WinReports |-> IF u \in dmp \ old THEN onDisk[u] ELSE NoRecord]
          IN /\ dmp' = dmp \ old
             /\ attached' = CleanOrphanedAttachments(attached \ old)
             /\ held' = IF recs = onDisk THEN held
                        ELSE [by |-> p, recs |-> recs, stage |-> "dirty"]
    BY <1>8 DEF CleanDatabase
  <2> DEFINE recs == [u \in WinReports |-> IF u \in dmp \ old THEN onDisk[u] ELSE NoRecord]
  <2>2. recs \in [WinReports -> Record]
    BY <1>d, Records
  <2>3. held' \in Held
    <3> HIDE DEF recs
    <3>1. held' = IF recs = onDisk THEN held ELSE [by |-> p, recs |-> recs, stage |-> "dirty"]
      BY <2>1 DEF recs
    <3> QED
      BY <1>d, <2>2, <3>1 DEF Held
  <2>4. attached' \subseteq attached
    BY <2>1 DEF CleanOrphanedAttachments
  <2> QED
    BY <1>t, <1>8, <2>1, <2>3, <2>4
       DEF WinDatabaseTypeOK, CleanDatabase, Held, objectVars, resultVars
<1>9. ASSUME NEW p \in DatabaseUsers, NEW u \in WinReports, PrepareNewCrashReport(p, u)
      PROVE  WinDatabaseTypeOK'
  BY <1>t, <1>9 DEF WinDatabaseTypeOK, PrepareNewCrashReport
<1>10. ASSUME NEW p \in DatabaseUsers, NEW u \in WinReports, GetReportForUploading(p, u)
       PROVE  WinDatabaseTypeOK'
  <2>1. [onDisk[u] EXCEPT !.state = "uploading"] \in Record
    BY <1>d DEF Record
  <2>2. held' \in Held
    BY ONLY <1>t, <1>10, <2>1, Changed DEF GetReportForUploading
  <2>3. uploadReport' \in [DatabaseUsers -> Upload]
    BY <1>d, <1>10 DEF GetReportForUploading, Upload, Record
  <2> QED
    BY <1>t, <1>10, <2>2, <2>3
       DEF WinDatabaseTypeOK, GetReportForUploading, Held, Upload, fileVars, resultVars
<1>11. ASSUME NEW p \in DatabaseUsers, NEW u \in WinReports, OpeningFails(p, u)
       PROVE  WinDatabaseTypeOK'
  <2>1. held' \in Held
    <3>1. [onDisk[u] EXCEPT !.state = "uploading"] \in Record
      BY <1>d DEF Record
    <3> QED
      BY <1>d, <1>11, <3>1 DEF OpeningFails, Held
  <2> QED
    BY <1>t, <1>11, <2>1
       DEF WinDatabaseTypeOK, OpeningFails, Held, fileVars, objectVars, resultVars
<1>12. ASSUME NEW p \in DatabaseUsers, NEW u \in WinReports, SkipReportUpload(p, u)
       PROVE  WinDatabaseTypeOK'
  <2>1. [onDisk[u] EXCEPT !.state = "completed", !.requested = FALSE] \in Record
    BY <1>d DEF Record
  <2>2. held' \in Held
    BY ONLY <1>t, <1>12, <2>1, Changed DEF SkipReportUpload
  <2> QED
    BY <1>t, <1>12, <2>2
       DEF WinDatabaseTypeOK, SkipReportUpload, Held, fileVars, objectVars, resultVars
<1>13. ASSUME NEW p \in DatabaseUsers, NEW u \in WinReports, RequestUpload(p, u)
       PROVE  WinDatabaseTypeOK'
  <2>1. (IF onDisk[u].uploaded THEN onDisk[u]
         ELSE [onDisk[u] EXCEPT !.state = "pending", !.requested = TRUE]) \in Record
    BY <1>d DEF Record
  <2>2. held' \in Held
    BY ONLY <1>t, <1>13, <2>1, Changed DEF RequestUpload
  <2> QED
    BY <1>t, <1>13, <2>2
       DEF WinDatabaseTypeOK, RequestUpload, Held, fileVars, objectVars, resultVars
<1>14. ASSUME NEW p \in DatabaseUsers, NEW u \in WinReports, DeleteReportWin(p, u)
       PROVE  WinDatabaseTypeOK'
  BY <1>t, <1>14, Records DEF WinDatabaseTypeOK, DeleteReportWin, Change, objectVars
<1> QED
  BY <1>0, <1>1, <1>2, <1>3, <1>4, <1>5, <1>6, <1>7, <1>8, <1>9, <1>10, <1>11, <1>12, <1>13, <1>14
     DEF WinDatabaseNext

\* Writing the file: the truncation forgets every record, and so does a write that fails.
\* A file that does not truncate keeps its records, and what was to be marked is excused.
LEMMA WritingStep ==
    ASSUME UploadInv, NEW p \in DatabaseUsers, TruncateMetadata(p) \/ WriteMetadata(p)
    PROVE  Parts'
<1>0. /\ accepted \subseteq WinReports /\ made \subseteq WinReports
      /\ \A u \in WinReports : onDisk[u] \in Record /\ held.recs[u] \in Record
      /\ \A q \in DatabaseUsers :
           /\ uploadReport[q].report \in WinReports \cup {NoReport}
           /\ newReport[q] \in WinReports \cup {NoReport}
  BY DEF UploadInv, WinDatabaseTypeOK
<1>i. LockShape /\ Fresh /\ Unfinished /\ Marked /\ AcceptedClosed /\ WinUploadedOnce
  BY DEF UploadInv
<1>1. /\ UNCHANGED <<newReport, uploadReport, made, finished, accepted>>
      /\ \A u \in WinReports : onDisk'[u] \in {NoRecord, held.recs[u], onDisk[u]}
      /\ \A u \in WinReports : held'.recs[u] \in {NoRecord, held.recs[u]}
      /\ held'.by = NoUser => held' = Free
      /\ held'.stage = "truncated" => onDisk' = Empty
      /\ held.by = p /\ unmarked \subseteq unmarked'
  <2>1. CASE TruncateMetadata(p)
    BY <2>1, Records DEF UploadInv, WinDatabaseTypeOK, TruncateMetadata, objectVars, Free
  <2>2. CASE WriteMetadata(p)
    BY <2>2, Records DEF UploadInv, LockShape, WriteMetadata, objectVars, resultVars, Free
  <2> QED
    BY <2>1, <2>2
<1>2. ASSUME NEW u \in WinReports \ unmarked', held.recs[u].state = "uploading"
      PROVE  onDisk'[u].state # "pending"
  <2>1. CASE TruncateMetadata(p)
    BY <1>2, <2>1, Records DEF TruncateMetadata
  <2>2. CASE WriteMetadata(p)
    BY <1>0, <1>1, <1>2, <1>i, <2>2, Records
       DEF WriteMetadata, LockShape
  <2> QED
    BY <2>1, <2>2
<1>3. LockShape' /\ Fresh'
  BY <1>0, <1>i, <1>1, Records DEF LockShape, Fresh
<1>4. Unfinished'
  BY <1>0, <1>i, <1>1, Records DEF Unfinished
<1>5. AcceptedClosed'
  BY <1>0, <1>i, <1>1, Records DEF AcceptedClosed, Closed
<1>6. WinUploadedOnce'
  BY <1>i, <1>1 DEF WinUploadedOnce
<1>7. Marked'
  <2> SUFFICES ASSUME NEW q \in DatabaseUsers, NEW u \in WinReports \ unmarked',
                      uploadReport[q].report = u
               PROVE  /\ held'.recs[u].state \in {"uploading", "none"}
                      /\ onDisk'[u].state \in {"uploading", "none"}
    BY <1>0, <1>1 DEF Marked
  <2>1. /\ held.recs[u].state \in {"uploading", "none"}
        /\ \/ onDisk[u].state \in {"uploading", "none"}
           \/ onDisk[u].state = "pending" /\ held.recs[u].state = "uploading"
    BY <1>i, <1>0, <1>1 DEF Marked
  <2>2. CASE onDisk'[u] # onDisk[u]
    BY <1>1, <2>1, <2>2, Records
  <2>3. CASE onDisk'[u] = onDisk[u] /\ onDisk[u].state \notin {"uploading", "none"}
    BY <1>2, <2>1, <2>3
  <2> QED
    BY <1>1, <2>1, <2>2, <2>3, Records
<1> QED
  BY <1>3, <1>4, <1>5, <1>6, <1>7 DEF Parts

\* The operations of a user that has a NewReport or an UploadReport, and its death.
LEMMA ObjectStep ==
    ASSUME UploadInv, NEW p \in DatabaseUsers,
           \/ KillUser(p) \/ DropNewReport(p) \/ FinishedWritingCrashReport(p)
           \/ SendReport(p) \/ RecordUploadAttempt(p)
    PROVE  Parts'
<1>t. /\ WinDatabaseTypeOK /\ accepted \subseteq made /\ made \subseteq WinReports
      /\ finished \subseteq made /\ p # NoUser
      /\ newReport \in [DatabaseUsers -> WinReports \cup {NoReport}]
      /\ uploadReport \in [DatabaseUsers -> Upload]
      /\ \A q \in DatabaseUsers : uploadReport[q].report \in WinReports \cup {NoReport}
  BY DEF UploadInv, WinDatabaseTypeOK, Upload
<1>i. LockShape /\ Fresh /\ Unfinished /\ Marked /\ AcceptedClosed /\ WinUploadedOnce
  BY DEF UploadInv
<1>1. CASE KillUser(p)
  <2>1. /\ UNCHANGED <<onDisk, made, finished, accepted, unmarked>>
        /\ held' = IF held.by = p THEN Free ELSE held
        /\ \A q \in DatabaseUsers :
             /\ newReport'[q] = IF q = p THEN NoReport ELSE newReport[q]
             /\ uploadReport'[q] = IF q = p THEN NoUpload ELSE uploadReport[q]
    BY <1>t, <1>1 DEF KillUser, resultVars
  <2>2. LockShape' /\ Fresh'
    BY <1>t, <1>i, <2>1, Records DEF LockShape, Fresh, Free
  <2>3. Unfinished'
    BY <1>t, <1>i, <2>1, Records DEF Unfinished
  <2>4. Marked' /\ WinUploadedOnce'
    BY <1>t, <1>i, <2>1, Records DEF Marked, WinUploadedOnce
  <2>5. AcceptedClosed'
    BY <1>t, <1>i, <2>1, Records DEF AcceptedClosed, Closed
  <2> QED
    BY <2>2, <2>3, <2>4, <2>5 DEF Parts
<1>2. CASE DropNewReport(p)
  <2>1. /\ UNCHANGED <<onDisk, held, uploadReport, made, finished, accepted, unmarked>>
        /\ \A q \in DatabaseUsers : newReport'[q] = IF q = p THEN NoReport ELSE newReport[q]
    BY <1>t, <1>2 DEF DropNewReport, resultVars
  <2>2. LockShape' /\ Fresh' /\ Unfinished'
    BY <1>t, <1>i, <2>1 DEF LockShape, Fresh, Unfinished
  <2>3. Marked' /\ WinUploadedOnce' /\ AcceptedClosed'
    BY <1>i, <2>1 DEF Marked, WinUploadedOnce, AcceptedClosed
  <2> QED
    BY <2>2, <2>3 DEF Parts
<1>3. CASE FinishedWritingCrashReport(p)
  <2> DEFINE u == newReport[p]
  <2>1. /\ UNCHANGED <<onDisk, uploadReport, made, accepted, unmarked>>
        /\ u \in WinReports /\ held.by = NoUser
        /\ finished' = finished \cup {u}
        /\ \A q \in DatabaseUsers : newReport'[q] = IF q = p THEN NoReport ELSE newReport[q]
    BY <1>t, <1>3 DEF FinishedWritingCrashReport, AcquireMetadata
  <2>2. Change(p, u, NewRecord)
    BY <1>3 DEF FinishedWritingCrashReport
  <2>3. /\ held'.by = p /\ held'.stage = "dirty" /\ held'.recs[u] = NewRecord
        /\ \A v \in WinReports \ {u} : held'.recs[v] = onDisk[v]
    BY ONLY <1>t, <2>1, <2>2, Records, Changed
  <2>4. u \in made /\ u \notin accepted /\ \A q \in DatabaseUsers : uploadReport[q].report # u
    BY <1>t, <1>i, <2>1 DEF Fresh, Unfinished
  <2>5. LockShape' /\ Fresh'
    BY <1>t, <1>i, <2>1, <2>3, <2>4 DEF LockShape, Fresh
  <2>6. Unfinished'
    BY <1>t, <1>i, <2>1, <2>3, <2>4 DEF Unfinished
  <2>7. Marked' /\ WinUploadedOnce'
    BY <1>t, <1>i, <2>1, <2>3, <2>4 DEF Marked, WinUploadedOnce
  <2>8. AcceptedClosed'
    BY <1>t, <1>i, <2>1, <2>3, <2>4 DEF AcceptedClosed
  <2> QED
    BY <2>5, <2>6, <2>7, <2>8 DEF Parts
<1>4. CASE SendReport(p)
  <2> DEFINE u == uploadReport[p].report
  <2>1. /\ UNCHANGED <<onDisk, held, newReport, made, finished, unmarked>>
        /\ u \in WinReports /\ held.by # p
        /\ accepted' = accepted \cup {u}
        /\ \A q \in DatabaseUsers :
             /\ uploadReport'[q].report = uploadReport[q].report
             /\ q # p => uploadReport'[q] = uploadReport[q]
             /\ uploadReport'[p].sent
    BY <1>t, <1>4 DEF SendReport, Upload
  <2>2. \A q \in DatabaseUsers : newReport[q] # u
    BY <1>i, <2>1 DEF Unfinished
  <2>3. u \notin unmarked => Closed(onDisk[u]) /\ Closed(held.recs[u])
    BY <1>i, <2>1 DEF Marked, Closed
  <2>4. LockShape' /\ Fresh'
    BY <1>t, <1>i, <2>1 DEF LockShape, Fresh
  <2>5. Unfinished'
    BY <1>t, <1>i, <2>1, <2>2 DEF Unfinished
  <2>6. Marked'
    BY <1>t, <1>i, <2>1 DEF Marked
  <2>7. AcceptedClosed'
    BY <1>t, <1>i, <2>1, <2>3 DEF AcceptedClosed
  <2>8. WinUploadedOnce'
    BY <1>t, <1>i, <2>1 DEF WinUploadedOnce
  <2> QED
    BY <2>4, <2>5, <2>6, <2>7, <2>8 DEF Parts
<1>5. CASE RecordUploadAttempt(p)
  <2> DEFINE u == uploadReport[p].report
             record == IF uploadReport[p].sent
                         THEN [state |-> "completed", uploaded |-> TRUE, requested |-> FALSE]
                         ELSE [state |-> "pending", uploaded |-> FALSE,
                               requested |-> uploadReport[p].requested]
  <2>1. /\ UNCHANGED <<onDisk, newReport, made, finished, accepted, unmarked>>
        /\ u \in WinReports /\ held.by = NoUser
        /\ \A q \in DatabaseUsers : uploadReport'[q] = IF q = p THEN NoUpload ELSE uploadReport[q]
    BY <1>t, <1>5 DEF RecordUploadAttempt, AcquireMetadata, resultVars
  <2>2. /\ u \notin unmarked => \A q \in DatabaseUsers \ {p} : uploadReport[q].report # u
        /\ \A q \in DatabaseUsers : newReport[q] # u
        /\ u \in made
    BY <1>i, <2>1 DEF WinUploadedOnce, Unfinished, Fresh
  <2>3. /\ UNCHANGED held
        \/ /\ held'.by = p /\ held'.stage = "dirty" /\ held'.recs[u] = record
           /\ \A v \in WinReports \ {u} : held'.recs[v] = onDisk[v]
    <3>1. UNCHANGED held \/ Change(p, u, record)
      BY <1>5 DEF RecordUploadAttempt
    <3>2. record \in Record
      BY <1>t DEF Record, Upload
    <3> HIDE DEF record, u
    <3> QED
      BY ONLY <1>t, <2>1, <3>1, <3>2, Changed
  <2>4. u \in accepted \ unmarked => Closed(record)
    BY <1>i, <2>1 DEF WinUploadedOnce, Closed
  <2> HIDE DEF record
  <2>5. LockShape' /\ Fresh'
    BY <1>t, <1>i, <2>1, <2>2, <2>3, Records DEF LockShape, Fresh
  <2>6. Unfinished'
    BY <1>t, <1>i, <2>1, <2>2, <2>3, Records DEF Unfinished
  <2>7. Marked'
    BY <1>t, <1>i, <2>1, <2>2, <2>3, Records DEF Marked
  <2>8. WinUploadedOnce'
    BY <1>t, <1>i, <2>1, <2>2, Records DEF WinUploadedOnce
  <2>9. AcceptedClosed'
    BY <1>t, <1>i, <2>1, <2>3, <2>4 DEF AcceptedClosed
  <2> QED
    BY <2>5, <2>6, <2>7, <2>8, <2>9 DEF Parts
<1> QED
  BY <1>1, <1>2, <1>3, <1>4, <1>5

\* The operations on a report that is named by its UUID, and CleanDatabase().
LEMMA ReportStep ==
    ASSUME UploadInv, NEW p \in DatabaseUsers,
           \/ CleanDatabase(p)
           \/ \E u \in WinReports :
                \/ PrepareNewCrashReport(p, u) \/ GetReportForUploading(p, u)
                \/ OpeningFails(p, u) \/ SkipReportUpload(p, u) \/ RequestUpload(p, u)
                \/ DeleteReportWin(p, u)
    PROVE  Parts'
<1>t. /\ WinDatabaseTypeOK /\ accepted \subseteq made /\ made \subseteq WinReports
      /\ finished \subseteq made /\ p # NoUser
      /\ newReport \in [DatabaseUsers -> WinReports \cup {NoReport}]
      /\ uploadReport \in [DatabaseUsers -> Upload]
      /\ \A q \in DatabaseUsers : uploadReport[q].report \in WinReports \cup {NoReport}
      /\ \A u \in WinReports : onDisk[u] \in Record
  BY DEF UploadInv, WinDatabaseTypeOK, Upload
<1>i. LockShape /\ Fresh /\ Unfinished /\ Marked /\ AcceptedClosed /\ WinUploadedOnce
  BY DEF UploadInv
<1>u. \A u \in WinReports : held.by = NoUser /\ onDisk[u].state \in {"pending", "completed"} =>
        /\ onDisk[u] # NoRecord
        /\ \A q \in DatabaseUsers : newReport[q] # u
        /\ u \notin unmarked => \A q \in DatabaseUsers : uploadReport[q].report # u
  BY <1>t, <1>i, Records DEF Marked, Unfinished
<1>1. CASE CleanDatabase(p)
  <2>1. PICK old \in SUBSET {u \in dmp : onDisk[u] = NoRecord /\ ~Opened(u)} :
          held' = LET recs == [u \in WinReports |-> IF u \in dmp \ old THEN onDisk[u]
                                                    ELSE NoRecord]
                  IN IF recs = onDisk THEN held
                     ELSE [by |-> p, recs |-> recs, stage |-> "dirty"]
    BY <1>1 DEF CleanDatabase
  <2>2. \/ UNCHANGED held
        \/ /\ held'.by = p /\ held'.stage = "dirty"
           /\ \A u \in WinReports : held'.recs[u] \in {onDisk[u], NoRecord}
    BY <2>1
  <2>3. /\ UNCHANGED <<onDisk, newReport, uploadReport, made, finished, accepted, unmarked>>
        /\ held.by = NoUser
    BY <1>1 DEF CleanDatabase, AcquireMetadata, objectVars, resultVars
  <2>4. LockShape' /\ Fresh'
    BY <1>t, <1>i, <2>2, <2>3 DEF LockShape, Fresh
  <2>5. Unfinished'
    BY <1>t, <1>i, <2>2, <2>3 DEF Unfinished
  <2>6. Marked' /\ WinUploadedOnce'
    BY <1>t, <1>i, <2>2, <2>3, Records DEF Marked, WinUploadedOnce
  <2>7. AcceptedClosed'
    BY <1>t, <1>i, <2>2, <2>3, Records DEF AcceptedClosed, Closed
  <2> QED
    BY <2>4, <2>5, <2>6, <2>7 DEF Parts
<1>2. ASSUME NEW u \in WinReports, PrepareNewCrashReport(p, u) PROVE Parts'
  <2>1. /\ UNCHANGED <<onDisk, held, uploadReport, finished, accepted, unmarked>>
        /\ made' = made \cup {u} /\ u \notin made
        /\ \A q \in DatabaseUsers : newReport'[q] = IF q = p THEN u ELSE newReport[q]
    BY <1>t, <1>2 DEF PrepareNewCrashReport
  <2>2. LockShape' /\ Fresh'
    BY <1>t, <1>i, <2>1 DEF LockShape, Fresh
  <2>3. Unfinished'
    BY <1>t, <1>i, <2>1 DEF Unfinished, Fresh
  <2>4. Marked' /\ WinUploadedOnce' /\ AcceptedClosed'
    BY <1>i, <2>1 DEF Marked, WinUploadedOnce, AcceptedClosed
  <2> QED
    BY <2>2, <2>3, <2>4 DEF Parts
<1>3. ASSUME NEW u \in WinReports, GetReportForUploading(p, u) PROVE Parts'
  <2> DEFINE record == [onDisk[u] EXCEPT !.state = "uploading"]
  <2>1. /\ UNCHANGED <<onDisk, newReport, made, finished, accepted, unmarked>>
        /\ held.by = NoUser /\ onDisk[u].state = "pending"
        /\ uploadReport'[p].report = u /\ ~uploadReport'[p].sent
        /\ \A q \in DatabaseUsers \ {p} : uploadReport'[q] = uploadReport[q]
    BY <1>t, <1>3 DEF GetReportForUploading, AcquireMetadata, Verified, resultVars
  <2>2. record \in Record /\ record.state = "uploading"
    BY <1>t DEF Record
  <2>3. Change(p, u, record)
    BY <1>3 DEF GetReportForUploading
  <2> HIDE DEF record
  <2>4. /\ held'.by = p /\ held'.stage = "dirty" /\ held'.recs[u] = record
        /\ \A v \in WinReports \ {u} : held'.recs[v] = onDisk[v]
    BY ONLY <1>t, <2>2, <2>3, Changed
  <2>5. /\ u \in made /\ u \notin accepted \ unmarked
        /\ \A q \in DatabaseUsers : newReport[q] # u
        /\ u \notin unmarked => \A q \in DatabaseUsers : uploadReport[q].report # u
    BY <1>t, <1>i, <1>u, <2>1, Records DEF AcceptedClosed, Closed, Fresh
  <2>6. LockShape' /\ Fresh'
    BY <1>t, <1>i, <2>1, <2>4, <2>5 DEF LockShape, Fresh
  <2>7. Unfinished'
    BY <1>t, <1>i, <2>1, <2>4, <2>5 DEF Unfinished
  <2>8. Marked'
    BY <1>t, <1>i, <2>1, <2>2, <2>4, <2>5 DEF Marked
  <2>9. WinUploadedOnce'
    BY <1>t, <1>i, <2>1, <2>5 DEF WinUploadedOnce
  <2>10. AcceptedClosed'
    BY <1>t, <1>i, <2>1, <2>4, <2>5 DEF AcceptedClosed
  <2> QED
    BY <2>6, <2>7, <2>8, <2>9, <2>10 DEF Parts
<1>4. ASSUME NEW u \in WinReports, OpeningFails(p, u) PROVE Parts'
  <2>1. /\ UNCHANGED <<onDisk, newReport, uploadReport, made, finished, accepted, unmarked>>
        /\ held.by = NoUser /\ onDisk[u].state = "pending"
        /\ held'.by = p /\ held'.stage = "stuck" /\ held'.recs[u].state = "uploading"
        /\ \A v \in WinReports \ {u} : held'.recs[v] = onDisk[v]
    BY <1>t, <1>4
       DEF OpeningFails, AcquireMetadata, Verified, objectVars, resultVars, WinDatabaseTypeOK,
    Record
  <2>2. u \in made /\ u \notin accepted \ unmarked
    BY <1>t, <1>i, <2>1, Records DEF Fresh, AcceptedClosed, Closed
  <2>3. LockShape' /\ Fresh'
    BY <1>t, <1>i, <2>1, <2>2 DEF LockShape, Fresh
  <2>4. Unfinished'
    BY <1>t, <1>i, <1>u, <2>1, <2>2 DEF Unfinished
  <2>5. Marked' /\ WinUploadedOnce'
    BY <1>t, <1>i, <1>u, <2>1 DEF Marked, WinUploadedOnce
  <2>6. AcceptedClosed'
    BY <1>t, <1>i, <2>1, <2>2 DEF AcceptedClosed
  <2> QED
    BY <2>3, <2>4, <2>5, <2>6 DEF Parts
<1>5. ASSUME NEW u \in WinReports, SkipReportUpload(p, u) PROVE Parts'
  <2> DEFINE record == [onDisk[u] EXCEPT !.state = "completed", !.requested = FALSE]
  <2>1. /\ held.by = NoUser /\ onDisk[u].state = "pending" /\ Change(p, u, record)
        /\ UNCHANGED <<onDisk, newReport, uploadReport, made, finished, accepted, unmarked>>
    BY <1>5 DEF SkipReportUpload, AcquireMetadata, Verified, objectVars, resultVars
  <2>2. u \notin accepted \ unmarked /\ record \in Record
    BY <1>t, <1>i, <2>1 DEF AcceptedClosed, Closed, Record
  <2> HIDE DEF record
  <2> QED
    BY <1>u, <2>1, <2>2, RecordChange
<1>6. ASSUME NEW u \in WinReports, RequestUpload(p, u) PROVE Parts'
  <2> DEFINE record == IF onDisk[u].uploaded THEN onDisk[u]
                       ELSE [onDisk[u] EXCEPT !.state = "pending", !.requested = TRUE]
  <2>1. /\ held.by = NoUser /\ onDisk[u].state \in {"pending", "completed"}
        /\ Change(p, u, record)
        /\ UNCHANGED <<onDisk, newReport, uploadReport, made, finished, accepted, unmarked>>
    BY <1>6 DEF RequestUpload, AcquireMetadata, Verified, objectVars, resultVars
  <2>2. u \in accepted \ unmarked => Closed(record)
    BY <1>t, <1>i, <2>1 DEF AcceptedClosed, Closed
  <2>3. record \in Record
    BY <1>t DEF Record
  <2> HIDE DEF record
  <2> QED
    BY <1>u, <2>1, <2>2, <2>3, RecordChange
<1>7. ASSUME NEW u \in WinReports, DeleteReportWin(p, u) PROVE Parts'
  <2>1. /\ held.by = NoUser /\ onDisk[u] # NoRecord /\ Change(p, u, NoRecord)
        /\ UNCHANGED <<onDisk, newReport, uploadReport, made, accepted, unmarked>>
        /\ finished' \subseteq finished
    BY <1>7 DEF DeleteReportWin, AcquireMetadata, objectVars
  <2>2. Closed(NoRecord)
    BY Records DEF Closed
  <2> QED
    BY <2>1, <2>2, Records, RecordChange
<1> QED
  BY <1>1, <1>2, <1>3, <1>4, <1>5, <1>6, <1>7

\* UploadInv is inductive.
LEMMA UploadNext == UploadInv /\ [WinDatabaseNext]_winDatabaseVars => UploadInv'
<1> SUFFICES ASSUME UploadInv, [WinDatabaseNext]_winDatabaseVars PROVE UploadInv'
  OBVIOUS
<1>1. ASSUME UNCHANGED winDatabaseVars PROVE Parts'
  BY <1>1 DEF winDatabaseVars, UploadInv, Parts, LockShape, Fresh, Unfinished, Marked,
     AcceptedClosed, WinUploadedOnce
<1>2. ASSUME WinDatabaseNext PROVE Parts'
  <2>1. PICK p \in DatabaseUsers :
          \/ TruncateMetadata(p) \/ WriteMetadata(p)
          \/ KillUser(p) \/ DropNewReport(p) \/ FinishedWritingCrashReport(p)
          \/ SendReport(p) \/ RecordUploadAttempt(p)
          \/ CleanDatabase(p)
          \/ \E u \in WinReports :
               \/ PrepareNewCrashReport(p, u) \/ GetReportForUploading(p, u)
               \/ OpeningFails(p, u) \/ SkipReportUpload(p, u) \/ RequestUpload(p, u)
               \/ DeleteReportWin(p, u)
    BY <1>2 DEF WinDatabaseNext
  <2> QED
    BY <2>1, WritingStep, ObjectStep, ReportStep
<1>3. Parts'
  BY <1>1, <1>2
<1> QED
  BY <1>3, TypeStep DEF Parts, UploadInv

\* In every behaviour of the database, UploadInv holds.
LEMMA UploadAlways == WinDatabaseSpec => []UploadInv
BY UploadInit, UploadNext, PTL DEF WinDatabaseSpec

\* Every variable of the Windows database keeps its type, whatever the users do and
\* whatever fails.
THEOREM WinTypes == WinDatabaseSpec => []WinDatabaseTypeOK
<1>1. UploadInv => WinDatabaseTypeOK
  BY DEF UploadInv
<1> QED
  BY <1>1, UploadAlways, PTL

\* Whoever is killed, and whichever write fails and leaves the metadata file empty or as it
\* was, no two uploaders have a report at a time, and none has one that the server was known
\* to have taken, unless it was handed out by a GetReportForUploading() whose record could
\* not be written: GetReportForUploading(), RecordUploadAttempt() and RequestUpload().
THEOREM WinUploads == WinDatabaseSpec => []WinUploadedOnce
<1>1. UploadInv => WinUploadedOnce
  BY DEF UploadInv
<1> QED
  BY <1>1, UploadAlways, PTL

----------------------------------------------------------------------------
\* The records that the next user of the database will find, unless a write fails.
Current == IF held.by = NoUser THEN onDisk ELSE held.recs

\* A report that is being written has its file, and while nothing fails a finished one has
\* its file and its record.
Kept ==
    /\ \A p \in DatabaseUsers : newReport[p] # NoReport => newReport[p] \in dmp
    /\ winFaults = 0 => \A u \in finished : Current[u] # NoRecord /\ u \in dmp

\* An operation that locks the file, and leaves every file and every record of a finished
\* report where it is, keeps Kept.
LEMMA LockingKeeps ==
    ASSUME UploadInv, Kept, NEW p \in DatabaseUsers, NEW u \in WinReports,
           NEW record \in Record, held.by = NoUser, Change(p, u, record), record # NoRecord,
           UNCHANGED <<dmp, newReport, finished, winFaults>>
    PROVE  Kept'
<1>1. /\ held'.by = p /\ held'.recs[u] = record
      /\ \A v \in WinReports \ {u} : held'.recs[v] = onDisk[v]
  BY Changed DEF UploadInv
<1>2. p # NoUser /\ finished \subseteq WinReports
  BY DEF UploadInv, WinDatabaseTypeOK
<1> QED
  BY <1>1, <1>2 DEF Kept, Current

\* Kept is inductive, given UploadInv.
LEMMA KeptNext == UploadInv /\ Kept /\ [WinDatabaseNext]_winDatabaseVars => Kept'
<1> SUFFICES ASSUME UploadInv, Kept, [WinDatabaseNext]_winDatabaseVars PROVE Kept'
  OBVIOUS
<1>t. /\ WinDatabaseTypeOK /\ finished \subseteq WinReports /\ winFaults \in Nat
      /\ newReport \in [DatabaseUsers -> WinReports \cup {NoReport}]
      /\ \A u \in WinReports : onDisk[u] \in Record
      /\ \A p \in DatabaseUsers : p # NoUser
      /\ LockShape /\ Unfinished
  BY DEF UploadInv, WinDatabaseTypeOK
<1>0. CASE UNCHANGED winDatabaseVars
  BY <1>0 DEF winDatabaseVars, Kept, Current
<1>1. ASSUME NEW p \in DatabaseUsers, TruncateMetadata(p) PROVE Kept'
  BY <1>t, <1>1
     DEF TruncateMetadata, Kept, Current, fileVars, objectVars, resultVars, WinDatabaseTypeOK
<1>2. ASSUME NEW p \in DatabaseUsers, WriteMetadata(p) PROVE Kept'
  BY <1>t, <1>2, Records DEF WriteMetadata, Kept, Current, fileVars, objectVars, resultVars
<1>3. ASSUME NEW p \in DatabaseUsers, KillUser(p) PROVE Kept'
  BY <1>t, <1>3 DEF KillUser, Kept, fileVars
<1>4. ASSUME NEW p \in DatabaseUsers, DropNewReport(p) PROVE Kept'
  BY <1>t, <1>4 DEF DropNewReport, Kept, Current, fileVars, resultVars, Unfinished
<1>5. ASSUME NEW p \in DatabaseUsers, FinishedWritingCrashReport(p) PROVE Kept'
  <2> DEFINE u == newReport[p]
  <2>1. /\ UNCHANGED <<dmp, onDisk, winFaults>> /\ u \in WinReports /\ held.by = NoUser
        /\ finished' = finished \cup {u} /\ Change(p, u, NewRecord)
        /\ \A q \in DatabaseUsers : newReport'[q] = IF q = p THEN NoReport ELSE newReport[q]
    BY <1>t, <1>5 DEF FinishedWritingCrashReport, AcquireMetadata, fileVars
  <2>2. u \in dmp
    BY <1>5 DEF Kept, FinishedWritingCrashReport
  <2>3. /\ held'.by = p /\ held'.recs[u] = NewRecord
        /\ \A v \in WinReports \ {u} : held'.recs[v] = onDisk[v]
    BY ONLY <1>t, <2>1, Records, Changed
  <2> QED
    BY <1>t, <2>1, <2>2, <2>3, Records DEF Kept, Current
<1>6. ASSUME NEW p \in DatabaseUsers, SendReport(p) PROVE Kept'
  BY <1>6 DEF SendReport, Kept, Current, fileVars
<1>7. ASSUME NEW p \in DatabaseUsers, RecordUploadAttempt(p) PROVE Kept'
  <2> DEFINE u == uploadReport[p].report
             record == IF uploadReport[p].sent
                         THEN [state |-> "completed", uploaded |-> TRUE, requested |-> FALSE]
                         ELSE [state |-> "pending", uploaded |-> FALSE,
                               requested |-> uploadReport[p].requested]
  <2>1. /\ UNCHANGED <<dmp, onDisk, newReport, finished, winFaults>>
        /\ u \in WinReports /\ held.by = NoUser
        /\ UNCHANGED held \/ Change(p, u, record)
    BY <1>t, <1>7
       DEF RecordUploadAttempt, AcquireMetadata, fileVars, resultVars, WinDatabaseTypeOK
  <2>2. record \in Record /\ record # NoRecord
    BY <1>t, Records DEF Record, WinDatabaseTypeOK
  <2> HIDE DEF u, record
  <2>3. CASE UNCHANGED held
    BY <2>1, <2>3 DEF Kept, Current
  <2>4. CASE Change(p, u, record)
    BY <2>1, <2>2, <2>4, LockingKeeps
  <2> QED
    BY <2>1, <2>3, <2>4
<1>8. ASSUME NEW p \in DatabaseUsers, CleanDatabase(p) PROVE Kept'
  <2>1. PICK old \in SUBSET {u \in dmp : onDisk[u] = NoRecord /\ ~Opened(u)} :
          /\ dmp' = dmp \ old
          /\ held' = LET recs == [u \in WinReports |-> IF u \in dmp \ old THEN onDisk[u]
                                                       ELSE NoRecord]
                     IN IF recs = onDisk THEN held
                        ELSE [by |-> p, recs |-> recs, stage |-> "dirty"]
    BY <1>8 DEF CleanDatabase
  <2>2. \/ UNCHANGED held
        \/ /\ held'.by = p
           /\ \A u \in WinReports :
                held'.recs[u] = IF u \in dmp \ old THEN onDisk[u] ELSE NoRecord
    BY <2>1
  <2>3. /\ UNCHANGED <<onDisk, newReport, finished, winFaults>> /\ held.by = NoUser
    BY <1>8 DEF CleanDatabase, AcquireMetadata, objectVars, resultVars
  <2>4. \A q \in DatabaseUsers : newReport[q] \notin old
    BY <2>1 DEF Opened
  <2> QED
    BY <1>t, <2>1, <2>2, <2>3, <2>4 DEF Kept, Current
<1>9. ASSUME NEW p \in DatabaseUsers, NEW u \in WinReports, PrepareNewCrashReport(p, u)
      PROVE  Kept'
  BY <1>t, <1>9 DEF PrepareNewCrashReport, Kept, Current
<1>10. ASSUME NEW p \in DatabaseUsers, NEW u \in WinReports, GetReportForUploading(p, u)
       PROVE  Kept'
  <2> DEFINE record == [onDisk[u] EXCEPT !.state = "uploading"]
  <2>1. record \in Record /\ record # NoRecord
    BY <1>t, Records DEF Record
  <2>2. held.by = NoUser /\ Change(p, u, record) /\ UNCHANGED <<dmp, newReport, finished, winFaults>>
    BY <1>10 DEF GetReportForUploading, AcquireMetadata, fileVars, resultVars
  <2> HIDE DEF record
  <2> QED
    BY <2>1, <2>2, LockingKeeps
<1>11. ASSUME NEW p \in DatabaseUsers, NEW u \in WinReports, OpeningFails(p, u) PROVE Kept'
  BY <1>t, <1>11 DEF OpeningFails, Kept, fileVars, objectVars
<1>12. ASSUME NEW p \in DatabaseUsers, NEW u \in WinReports, SkipReportUpload(p, u) PROVE Kept'
  <2> DEFINE record == [onDisk[u] EXCEPT !.state = "completed", !.requested = FALSE]
  <2>1. record \in Record /\ record.state = "completed"
    BY <1>t DEF Record
  <2>2. held.by = NoUser /\ Change(p, u, record) /\ UNCHANGED <<dmp, newReport, finished, winFaults>>
    BY <1>12 DEF SkipReportUpload, AcquireMetadata, fileVars, objectVars, resultVars
  <2> HIDE DEF record
  <2> QED
    BY <2>1, <2>2, LockingKeeps, Records
<1>13. ASSUME NEW p \in DatabaseUsers, NEW u \in WinReports, RequestUpload(p, u) PROVE Kept'
  <2> DEFINE record == IF onDisk[u].uploaded THEN onDisk[u]
                       ELSE [onDisk[u] EXCEPT !.state = "pending", !.requested = TRUE]
  <2>1. onDisk[u].state \in {"completed", "pending"}
    BY <1>13 DEF RequestUpload, Verified
  <2>2. record \in Record /\ record.state \in {"completed", "pending"}
    BY <1>t, <2>1 DEF Record
  <2>3. held.by = NoUser /\ Change(p, u, record) /\ UNCHANGED <<dmp, newReport, finished, winFaults>>
    BY <1>13 DEF RequestUpload, AcquireMetadata, fileVars, objectVars, resultVars
  <2> HIDE DEF record
  <2> QED
    BY <2>2, <2>3, LockingKeeps, Records
<1>14. ASSUME NEW p \in DatabaseUsers, NEW u \in WinReports, DeleteReportWin(p, u) PROVE Kept'
  <2>1. /\ held.by = NoUser /\ onDisk[u] # NoRecord /\ Change(p, u, NoRecord)
        /\ UNCHANGED <<newReport, winFaults>>
        /\ finished' = finished \ {u} /\ dmp \ {u} \subseteq dmp'
    BY <1>14 DEF DeleteReportWin, AcquireMetadata, objectVars
  <2>2. /\ held'.by = p
        /\ \A v \in WinReports \ {u} : held'.recs[v] = onDisk[v]
    BY ONLY <1>t, <2>1, Records, Changed
  <2>3. \A q \in DatabaseUsers : newReport[q] # u
    BY <1>t, <2>1 DEF Unfinished
  <2> QED
    BY <1>t, <2>1, <2>2, <2>3 DEF Kept, Current
<1> QED
  BY <1>0, <1>1, <1>2, <1>3, <1>4, <1>5, <1>6, <1>7, <1>8, <1>9, <1>10, <1>11, <1>12, <1>13, <1>14
     DEF WinDatabaseNext

\* While nothing fails, a report that FinishedWritingCrashReport() returned for has its
\* record and its file until it is deleted: neither CleanDatabase() nor any other operation
\* of another user takes them.
THEOREM WinReportsStay == WinDatabaseSpec => []WinReportsKept
<1>1. WinDatabaseInit => Kept
  BY DEF WinDatabaseInit, Kept
<1>2. Kept => WinReportsKept
  BY Records DEF Kept, WinReportsKept, Current
<1> QED
  BY <1>1, <1>2, UploadAlways, KeptNext, PTL DEF WinDatabaseSpec

----------------------------------------------------------------------------
(***************************************************************************)
(* The capture: what is invariant.                                         *)
(***************************************************************************)

\* The records of a client, in its process and in the handler, and where its threads are.
WinClient ==
    [alive : BOOLEAN, startup : {"NotReady", "Succeeded", "Failed"}, crashed : BOOLEAN,
     lock : WinThreads \cup {Nobody}, crash : WinThreads \cup {Nobody},
     non : WinThreads \cup {Nobody}, dumps : Nat]
ClientData ==
    [listed : BOOLEAN, armed : BOOLEAN, begun : SUBSET {"crash", "non", "end"},
     running : {"none", "crash", "non", "end"}, ended : BOOLEAN]
ThreadPlaces == {"run", "parked", "crashing", "asleep", "locked", "dumping", "ended"}

\* Every variable has its type.
CaptureTypes ==
    /\ winProc \in [WinProcesses -> WinClient]
    /\ winThread \in [WinThreads -> ThreadPlaces]
    /\ winEvents \in [WinProcesses -> SUBSET {"crash", "non", "done"}]
    /\ winData \in [WinProcesses -> ClientData]
    /\ winPipe \in [WinProcesses -> {"none", "inserted", "replied"}]
    /\ winPort \in Seq(WinProcesses \cup {Nobody})
    /\ winMain \in {"loop", "stopping", "leaving", "gone"} \cup WinProcesses

\* The callback that has the client's lock was begun, the one for the end of the process only
\* after it, and the client is to be deleted only then.
Callbacks(p) ==
    /\ winData[p].running # "none" => winData[p].running \in winData[p].begun
    /\ "end" \in winData[p].begun => ~winProc[p].alive
    /\ \A i \in DOMAIN winPort : winPort[i] = p => ~winProc[p].alive \/ p = Nobody

\* Until the server leaves, the thread pool waits for every client that knows of it.
Watched(p) ==
    /\ winProc[p].startup = "Succeeded" \/ p = InitialClient => winPipe[p] = "replied"
    /\ winProc[p].alive /\ winPipe[p] # "none" /\ winMain \notin {"leaving", "gone"} =>
         winData[p].armed

\* A thread asks only a handler that has started.
Asks(t) ==
    LET p == WinProcessOf[t]
    IN winThread[t] \in {"crashing", "asleep", "locked", "dumping"} =>
         winProc[p].startup = "Succeeded"

\* A crash that was signalled stays with its thread until the process ends.
CrashServed(p) ==
    winProc[p].alive =>
      /\ "crash" \in winEvents[p] \cup winData[p].begun =>
           \E t \in WinThreads : /\ WinProcessOf[t] = p /\ winProc[p].crash = t
                                 /\ winThread[t] = "asleep"
      /\ \A t \in WinThreads : WinProcessOf[t] = p /\ winThread[t] = "asleep" =>
           "crash" \in winEvents[p] \cup winData[p].begun

\* g_non_crash_dump_lock: the thread that asked is the one that holds it, and its request is in
\* one place.
DumpServed(p) ==
    winProc[p].alive =>
      /\ \A t \in WinThreads : WinProcessOf[t] = p =>
           /\ winThread[t] \in {"locked", "dumping"} => winProc[p].lock = t
           /\ winThread[t] = "dumping" =>
                "non" \in winEvents[p] \cup winData[p].begun \/ "done" \in winEvents[p]
      /\ "non" \in winEvents[p] \cup winData[p].begun \/ "done" \in winEvents[p] =>
           \E t \in WinThreads : /\ WinProcessOf[t] = p /\ winProc[p].non = t
                                 /\ winThread[t] = "dumping"
      /\ ~("non" \in winEvents[p] /\ "non" \in winData[p].begun)
      /\ ~("done" \in winEvents[p] /\ "non" \in winEvents[p] \cup winData[p].begun)

\* All of it together is inductive.
CaptureInv ==
    /\ CaptureTypes
    /\ \A p \in WinProcesses : Callbacks(p) /\ Watched(p) /\ CrashServed(p) /\ DumpServed(p)
    /\ \A t \in WinThreads : Asks(t)
----------------------------------------------------------------------------
(***************************************************************************)
(* What the steps do to the records.                                       *)
(***************************************************************************)

\* A function with one value replaced.
LEMMA Put ==
    ASSUME NEW f, NEW P, NEW S, f \in [P -> S], NEW p \in P, NEW r \in S, NEW g,
           g = [f EXCEPT ![p] = r]
    PROVE  g \in [P -> S] /\ g[p] = r /\ \A q \in P \ {p} : g[q] = f[q]
OBVIOUS

\* A thread signals its crash,
LEMMA SignalCrashEffect ==
    ASSUME CaptureTypes, NEW t \in WinThreads, NEW p \in WinProcesses, p = WinProcessOf[t],
           SignalCrash(t)
    PROVE  /\ CaptureTypes'
           /\ winThread[t] = "crashing"
           /\ winThread'[t] = "asleep"
           /\ \A u \in WinThreads \ {t} : winThread'[u] = winThread[u]
           /\ winProc'[p].alive = winProc[p].alive
           /\ winProc'[p].startup = winProc[p].startup
           /\ winProc'[p].lock = winProc[p].lock /\ winProc'[p].crash = t
           /\ winProc'[p].non = winProc[p].non
           /\ \A q \in WinProcesses \ {p} : winProc'[q] = winProc[q]
           /\ winEvents'[p] = winEvents[p] \cup {"crash"}
           /\ \A q \in WinProcesses \ {p} : winEvents'[q] = winEvents[q]
           /\ UNCHANGED serverVars
<1>1. p \in WinProcesses /\ winProc[p] \in WinClient /\ winData[p] \in ClientData
  BY WinAssumption DEF CaptureTypes, WinAssumption
<1> DEFINE r == [winProc[p] EXCEPT !.crash = t]
<1>2. r \in WinClient
  BY <1>1, WinAssumption DEF WinClient, WinAssumption
<1>3. /\ r.alive = winProc[p].alive
      /\ r.startup = winProc[p].startup
      /\ r.lock = winProc[p].lock
      /\ r.crash = t
      /\ r.non = winProc[p].non
  BY <1>1 DEF WinClient
<1>4. winProc' = [winProc EXCEPT ![p] = r]
  BY <1>1 DEF SignalCrash, Step, CaptureTypes
<1>5. /\ winProc' \in [WinProcesses -> WinClient] /\ winProc'[p] = r
      /\ \A q \in WinProcesses \ {p} : winProc'[q] = winProc[q]
  BY <1>1, <1>2, <1>4, Put DEF CaptureTypes
<1> QED
  BY <1>1, <1>3, <1>5, WinAssumption
  DEF SignalCrash, Step, CaptureTypes, ThreadPlaces, WinAssumption, serverVars, clientVars, poolVars

\* takes the lock,
LEMMA LockDumpEffect ==
    ASSUME CaptureTypes, NEW t \in WinThreads, NEW p \in WinProcesses, p = WinProcessOf[t],
           LockDump(t)
    PROVE  /\ CaptureTypes'
           /\ winThread[t] = "run" /\ winProc[p].lock = Nobody
           /\ winProc[p].startup = "Succeeded"
           /\ winThread'[t] = "locked"
           /\ \A u \in WinThreads \ {t} : winThread'[u] = winThread[u]
           /\ winProc'[p].alive = winProc[p].alive
           /\ winProc'[p].startup = winProc[p].startup /\ winProc'[p].lock = t
           /\ winProc'[p].crash = winProc[p].crash /\ winProc'[p].non = winProc[p].non
           /\ \A q \in WinProcesses \ {p} : winProc'[q] = winProc[q]
           /\ UNCHANGED <<winEvents, serverVars>>
<1>1. p \in WinProcesses /\ winProc[p] \in WinClient /\ winData[p] \in ClientData
  BY WinAssumption DEF CaptureTypes, WinAssumption
<1> DEFINE r == [winProc[p] EXCEPT !.lock = t, !.dumps = @ + 1]
<1>2. winProc[p].dumps + 1 \in Nat
  BY <1>1 DEF WinClient
<1>3. r \in WinClient
  BY <1>1, <1>2, WinAssumption DEF WinClient, WinAssumption
<1>4. /\ r.alive = winProc[p].alive
      /\ r.startup = winProc[p].startup
      /\ r.lock = t
      /\ r.crash = winProc[p].crash
      /\ r.non = winProc[p].non
  BY <1>1, <1>2 DEF WinClient
<1>5. winProc' = [winProc EXCEPT ![p] = r]
  BY <1>1, <1>2 DEF LockDump, Step, CaptureTypes
<1>6. /\ winProc' \in [WinProcesses -> WinClient] /\ winProc'[p] = r
      /\ \A q \in WinProcesses \ {p} : winProc'[q] = winProc[q]
  BY <1>1, <1>2, <1>3, <1>5, Put DEF CaptureTypes
<1> QED
  BY <1>1, <1>4, <1>6, WinAssumption
  DEF LockDump, Step, CaptureTypes, ThreadPlaces, WinAssumption, serverVars, clientVars, poolVars

\* gives it back,
LEMMA FirstChanceDumpEffect ==
    ASSUME CaptureTypes, NEW t \in WinThreads, NEW p \in WinProcesses, p = WinProcessOf[t],
           FirstChanceDump(t)
    PROVE  /\ CaptureTypes'
           /\ winThread[t] = "locked"
           /\ winThread'[t] = "run"
           /\ \A u \in WinThreads \ {t} : winThread'[u] = winThread[u]
           /\ winProc'[p].alive = winProc[p].alive
           /\ winProc'[p].startup = winProc[p].startup /\ winProc'[p].lock = Nobody
           /\ winProc'[p].crash = winProc[p].crash /\ winProc'[p].non = winProc[p].non
           /\ \A q \in WinProcesses \ {p} : winProc'[q] = winProc[q]
           /\ UNCHANGED <<winEvents, serverVars>>
<1>1. p \in WinProcesses /\ winProc[p] \in WinClient /\ winData[p] \in ClientData
  BY WinAssumption DEF CaptureTypes, WinAssumption
<1> DEFINE r == [winProc[p] EXCEPT !.lock = Nobody]
<1>2. r \in WinClient
  BY <1>1, WinAssumption DEF WinClient, WinAssumption
<1>3. /\ r.alive = winProc[p].alive
      /\ r.startup = winProc[p].startup
      /\ r.lock = Nobody
      /\ r.crash = winProc[p].crash
      /\ r.non = winProc[p].non
  BY <1>1 DEF WinClient
<1>4. winProc' = [winProc EXCEPT ![p] = r]
  BY <1>1 DEF FirstChanceDump, Step, CaptureTypes
<1>5. /\ winProc' \in [WinProcesses -> WinClient] /\ winProc'[p] = r
      /\ \A q \in WinProcesses \ {p} : winProc'[q] = winProc[q]
  BY <1>1, <1>2, <1>4, Put DEF CaptureTypes
<1> QED
  BY <1>1, <1>3, <1>5, WinAssumption
  DEF FirstChanceDump, Step, CaptureTypes, ThreadPlaces, WinAssumption, serverVars, clientVars,
    poolVars

\* asks for a dump
LEMMA SignalDumpEffect ==
    ASSUME CaptureTypes, NEW t \in WinThreads, NEW p \in WinProcesses, p = WinProcessOf[t],
           SignalDump(t)
    PROVE  /\ CaptureTypes'
           /\ winThread[t] = "locked"
           /\ winThread'[t] = "dumping"
           /\ \A u \in WinThreads \ {t} : winThread'[u] = winThread[u]
           /\ winProc'[p].alive = winProc[p].alive
           /\ winProc'[p].startup = winProc[p].startup
           /\ winProc'[p].lock = winProc[p].lock /\ winProc'[p].crash = winProc[p].crash
           /\ winProc'[p].non = t
           /\ \A q \in WinProcesses \ {p} : winProc'[q] = winProc[q]
           /\ winEvents'[p] = winEvents[p] \cup {"non"}
           /\ \A q \in WinProcesses \ {p} : winEvents'[q] = winEvents[q]
           /\ UNCHANGED serverVars
<1>1. p \in WinProcesses /\ winProc[p] \in WinClient /\ winData[p] \in ClientData
  BY WinAssumption DEF CaptureTypes, WinAssumption
<1> DEFINE r == [winProc[p] EXCEPT !.non = t]
<1>2. r \in WinClient
  BY <1>1, WinAssumption DEF WinClient, WinAssumption
<1>3. /\ r.alive = winProc[p].alive
      /\ r.startup = winProc[p].startup
      /\ r.lock = winProc[p].lock
      /\ r.crash = winProc[p].crash
      /\ r.non = t
  BY <1>1 DEF WinClient
<1>4. winProc' = [winProc EXCEPT ![p] = r]
  BY <1>1 DEF SignalDump, Step, CaptureTypes
<1>5. /\ winProc' \in [WinProcesses -> WinClient] /\ winProc'[p] = r
      /\ \A q \in WinProcesses \ {p} : winProc'[q] = winProc[q]
  BY <1>1, <1>2, <1>4, Put DEF CaptureTypes
<1> QED
  BY <1>1, <1>3, <1>5, WinAssumption
  DEF SignalDump, Step, CaptureTypes, ThreadPlaces, WinAssumption, serverVars, clientVars, poolVars

\* and has got it.
LEMMA DumpCompletedEffect ==
    ASSUME CaptureTypes, NEW t \in WinThreads, NEW p \in WinProcesses, p = WinProcessOf[t],
           DumpCompleted(t)
    PROVE  /\ CaptureTypes'
           /\ winThread[t] = "dumping" /\ "done" \in winEvents[p]
           /\ winThread'[t] = "run"
           /\ \A u \in WinThreads \ {t} : winThread'[u] = winThread[u]
           /\ winProc'[p].alive = winProc[p].alive
           /\ winProc'[p].startup = winProc[p].startup /\ winProc'[p].lock = Nobody
           /\ winProc'[p].crash = winProc[p].crash /\ winProc'[p].non = winProc[p].non
           /\ \A q \in WinProcesses \ {p} : winProc'[q] = winProc[q]
           /\ winEvents'[p] = winEvents[p] \ {"done"}
           /\ \A q \in WinProcesses \ {p} : winEvents'[q] = winEvents[q]
           /\ UNCHANGED serverVars
<1>1. p \in WinProcesses /\ winProc[p] \in WinClient /\ winData[p] \in ClientData
  BY WinAssumption DEF CaptureTypes, WinAssumption
<1> DEFINE r == [winProc[p] EXCEPT !.lock = Nobody]
<1>2. r \in WinClient
  BY <1>1, WinAssumption DEF WinClient, WinAssumption
<1>3. /\ r.alive = winProc[p].alive
      /\ r.startup = winProc[p].startup
      /\ r.lock = Nobody
      /\ r.crash = winProc[p].crash
      /\ r.non = winProc[p].non
  BY <1>1 DEF WinClient
<1>4. winProc' = [winProc EXCEPT ![p] = r]
  BY <1>1 DEF DumpCompleted, Step, CaptureTypes
<1>5. /\ winProc' \in [WinProcesses -> WinClient] /\ winProc'[p] = r
      /\ \A q \in WinProcesses \ {p} : winProc'[q] = winProc[q]
  BY <1>1, <1>2, <1>4, Put DEF CaptureTypes
<1> QED
  BY <1>1, <1>3, <1>5, WinAssumption
  DEF DumpCompleted, Step, CaptureTypes, ThreadPlaces, WinAssumption, serverVars, clientVars,
    poolVars

\* A client is entered, and told so.
LEMMA RegisterClientEffect ==
    ASSUME CaptureTypes, NEW p \in WinProcesses, RegisterClient(p)
    PROVE  /\ CaptureTypes'
           /\ winPipe[p] = "none" /\ winMain \in {"loop", "stopping"}
           /\ winPipe'[p] = "inserted"
           /\ winData'[p].armed = TRUE /\ winData'[p].begun = winData[p].begun
           /\ winData'[p].running = winData[p].running
           /\ \A q \in WinProcesses \ {p} : winData'[q] = winData[q]
           /\ UNCHANGED <<winProc, winThread, winEvents, winPort, winMain>>
           /\ (\A q \in WinProcesses \ {p} : winPipe'[q] = winPipe[q])
<1>1. p \in WinProcesses /\ winProc[p] \in WinClient /\ winData[p] \in ClientData
  BY WinAssumption DEF CaptureTypes, WinAssumption
<1> DEFINE d == [winData[p] EXCEPT !.listed = TRUE, !.armed = TRUE]
<1>2. d \in ClientData
  BY <1>1 DEF ClientData
<1>3. /\ d.armed = TRUE
      /\ d.begun = winData[p].begun
      /\ d.running = winData[p].running
  BY <1>1 DEF ClientData
<1>4. winData' = [winData EXCEPT ![p] = d]
  BY <1>1 DEF RegisterClient, CaptureTypes
<1>5. /\ winData' \in [WinProcesses -> ClientData] /\ winData'[p] = d
      /\ \A q \in WinProcesses \ {p} : winData'[q] = winData[q]
  BY <1>1, <1>2, <1>4, Put DEF CaptureTypes
<1> QED
  BY <1>1, <1>3, <1>5, WinAssumption
  DEF RegisterClient, CaptureTypes, ThreadPlaces, WinAssumption, serverVars, clientVars, poolVars

\* It is told.
LEMMA ReplyToClientEffect ==
    ASSUME CaptureTypes, NEW p \in WinProcesses, ReplyToClient(p)
    PROVE  /\ CaptureTypes'
           /\ winPipe[p] = "inserted" /\ winPipe'[p] = "replied"
           /\ winProc'[p].alive = winProc[p].alive
           /\ winProc'[p].startup = IF winProc[p].alive THEN "Succeeded" ELSE winProc[p].startup
           /\ winProc'[p].lock = winProc[p].lock /\ winProc'[p].crash = winProc[p].crash
           /\ winProc'[p].non = winProc[p].non
           /\ \A q \in WinProcesses \ {p} : winProc'[q] = winProc[q]
           /\ UNCHANGED <<winThread, winEvents, winData, winPort, winMain>>
           /\ (\A q \in WinProcesses \ {p} : winPipe'[q] = winPipe[q])
<1>1. p \in WinProcesses /\ winProc[p] \in WinClient /\ winData[p] \in ClientData
  BY WinAssumption DEF CaptureTypes, WinAssumption
<1> DEFINE r == [winProc[p] EXCEPT !.startup = IF winProc[p].alive THEN "Succeeded" ELSE @]
<1>2. r \in WinClient
  BY <1>1, WinAssumption DEF WinClient, WinAssumption
<1>3. /\ r.alive = winProc[p].alive
      /\ r.startup = IF winProc[p].alive THEN "Succeeded" ELSE winProc[p].startup
      /\ r.lock = winProc[p].lock
      /\ r.crash = winProc[p].crash
      /\ r.non = winProc[p].non
  BY <1>1 DEF WinClient
<1>4. winProc' = [winProc EXCEPT ![p] = r]
  BY <1>1 DEF ReplyToClient, CaptureTypes
<1>5. /\ winProc' \in [WinProcesses -> WinClient] /\ winProc'[p] = r
      /\ \A q \in WinProcesses \ {p} : winProc'[q] = winProc[q]
  BY <1>1, <1>2, <1>4, Put DEF CaptureTypes
<1> QED
  BY <1>1, <1>3, <1>5, WinAssumption
  DEF ReplyToClient, CaptureTypes, ThreadPlaces, WinAssumption, serverVars, clientVars, poolVars

\* A callback begins,
LEMMA BeginCallbackEffect ==
    ASSUME CaptureTypes, NEW p \in WinProcesses, NEW e \in {"crash", "non", "end"},
           BeginCallback(p, e)
    PROVE  /\ CaptureTypes'
           /\ (IF e = "end" THEN ~winProc[p].alive ELSE e \in winEvents[p])
           /\ winEvents'[p] = winEvents[p] \ {e}
           /\ \A q \in WinProcesses \ {p} : winEvents'[q] = winEvents[q]
           /\ winData'[p].armed = winData[p].armed
           /\ winData'[p].begun = winData[p].begun \cup {e}
           /\ winData'[p].running = winData[p].running
           /\ \A q \in WinProcesses \ {p} : winData'[q] = winData[q]
           /\ UNCHANGED <<winProc, winThread, winPort, clientVars>>
<1>1. p \in WinProcesses /\ winProc[p] \in WinClient /\ winData[p] \in ClientData
  BY WinAssumption DEF CaptureTypes, WinAssumption
<1> DEFINE d == [winData[p] EXCEPT !.begun = @ \cup {e}, !.ended = @ \/ e = "end"]
<1>2. d \in ClientData
  BY <1>1 DEF ClientData
<1>3. /\ d.armed = winData[p].armed
      /\ d.begun = winData[p].begun \cup {e}
      /\ d.running = winData[p].running
  BY <1>1 DEF ClientData
<1>4. winData' = [winData EXCEPT ![p] = d]
  BY <1>1 DEF BeginCallback, CaptureTypes
<1>5. /\ winData' \in [WinProcesses -> ClientData] /\ winData'[p] = d
      /\ \A q \in WinProcesses \ {p} : winData'[q] = winData[q]
  BY <1>1, <1>2, <1>4, Put DEF CaptureTypes
<1> QED
  BY <1>1, <1>3, <1>5, WinAssumption
  DEF BeginCallback, CaptureTypes, ThreadPlaces, WinAssumption, serverVars, clientVars, poolVars

\* gets the lock,
LEMMA LockClientEffect ==
    ASSUME CaptureTypes, NEW p \in WinProcesses, NEW e \in {"crash", "non", "end"}, LockClient(p, e)
    PROVE  /\ CaptureTypes'
           /\ e \in winData[p].begun
           /\ winData'[p].armed = winData[p].armed
           /\ winData'[p].begun = winData[p].begun /\ winData'[p].running = e
           /\ \A q \in WinProcesses \ {p} : winData'[q] = winData[q]
           /\ UNCHANGED <<winProc, winThread, winEvents, winPort, clientVars>>
<1>1. p \in WinProcesses /\ winProc[p] \in WinClient /\ winData[p] \in ClientData
  BY WinAssumption DEF CaptureTypes, WinAssumption
<1> DEFINE d == [winData[p] EXCEPT !.running = e]
<1>2. d \in ClientData
  BY <1>1 DEF ClientData
<1>3. /\ d.armed = winData[p].armed
      /\ d.begun = winData[p].begun
      /\ d.running = e
  BY <1>1 DEF ClientData
<1>4. winData' = [winData EXCEPT ![p] = d]
  BY <1>1 DEF LockClient, CaptureTypes
<1>5. /\ winData' \in [WinProcesses -> ClientData] /\ winData'[p] = d
      /\ \A q \in WinProcesses \ {p} : winData'[q] = winData[q]
  BY <1>1, <1>2, <1>4, Put DEF CaptureTypes
<1> QED
  BY <1>1, <1>3, <1>5, WinAssumption
  DEF LockClient, CaptureTypes, ThreadPlaces, WinAssumption, serverVars, clientVars, poolVars

\* lets the client go on
LEMMA OnNonCrashDumpEventEffect ==
    ASSUME CaptureTypes, NEW p \in WinProcesses, OnNonCrashDumpEvent(p)
    PROVE  /\ CaptureTypes'
           /\ winData[p].running = "non"
           /\ winEvents'[p] = winEvents[p] \cup {"done"}
           /\ \A q \in WinProcesses \ {p} : winEvents'[q] = winEvents[q]
           /\ winData'[p].armed = winData[p].armed
           /\ winData'[p].begun = winData[p].begun \ {"non"}
           /\ winData'[p].running = "none"
           /\ \A q \in WinProcesses \ {p} : winData'[q] = winData[q]
           /\ UNCHANGED <<winProc, winThread, winPort, clientVars>>
<1>1. p \in WinProcesses /\ winProc[p] \in WinClient /\ winData[p] \in ClientData
  BY WinAssumption DEF CaptureTypes, WinAssumption
<1> DEFINE d == [winData[p] EXCEPT !.running = "none", !.begun = @ \ {"non"}]
<1>2. d \in ClientData
  BY <1>1 DEF ClientData
<1>3. /\ d.armed = winData[p].armed
      /\ d.begun = winData[p].begun \ {"non"}
      /\ d.running = "none"
  BY <1>1 DEF ClientData
<1>4. winData' = [winData EXCEPT ![p] = d]
  BY <1>1 DEF OnNonCrashDumpEvent, CaptureTypes
<1>5. /\ winData' \in [WinProcesses -> ClientData] /\ winData'[p] = d
      /\ \A q \in WinProcesses \ {p} : winData'[q] = winData[q]
  BY <1>1, <1>2, <1>4, Put DEF CaptureTypes
<1> QED
  BY <1>1, <1>3, <1>5, WinAssumption
  DEF OnNonCrashDumpEvent, CaptureTypes, ThreadPlaces, WinAssumption, serverVars, clientVars,
    poolVars

\* or posts its end.
LEMMA OnProcessEndEffect ==
    ASSUME CaptureTypes, NEW p \in WinProcesses, OnProcessEnd(p)
    PROVE  /\ CaptureTypes'
           /\ winData[p].running = "end"
           /\ winData'[p].armed = winData[p].armed
           /\ winData'[p].begun = winData[p].begun \ {"end"}
           /\ winData'[p].running = "none"
           /\ \A q \in WinProcesses \ {p} : winData'[q] = winData[q]
           /\ winPort' = Append(winPort, p)
           /\ UNCHANGED <<winProc, winThread, winEvents, clientVars>>
<1>1. p \in WinProcesses /\ winProc[p] \in WinClient /\ winData[p] \in ClientData
  BY WinAssumption DEF CaptureTypes, WinAssumption
<1> DEFINE d == [winData[p] EXCEPT !.running = "none", !.begun = @ \ {"end"}]
<1>2. d \in ClientData
  BY <1>1 DEF ClientData
<1>3. /\ d.armed = winData[p].armed
      /\ d.begun = winData[p].begun \ {"end"}
      /\ d.running = "none"
  BY <1>1 DEF ClientData
<1>4. winData' = [winData EXCEPT ![p] = d]
  BY <1>1 DEF OnProcessEnd, CaptureTypes
<1>5. /\ winData' \in [WinProcesses -> ClientData] /\ winData'[p] = d
      /\ \A q \in WinProcesses \ {p} : winData'[q] = winData[q]
  BY <1>1, <1>2, <1>4, Put DEF CaptureTypes
<1> QED
  BY <1>1, <1>3, <1>5, WinAssumption
  DEF OnProcessEnd, CaptureTypes, ThreadPlaces, WinAssumption, serverVars, clientVars, poolVars

\* The end of a process.
LEMMA TerminateEffect ==
    ASSUME CaptureTypes, NEW p \in WinProcesses, Terminate(p)
    PROVE  /\ winProc' \in [WinProcesses -> WinClient]
           /\ ~winProc'[p].alive /\ winProc'[p].startup = winProc[p].startup
           /\ \A q \in WinProcesses \ {p} : winProc'[q] = winProc[q]
           /\ winThread' \in [WinThreads -> ThreadPlaces]
           /\ \A u \in WinThreads :
                winThread'[u] = IF WinProcessOf[u] = p THEN "ended" ELSE winThread[u]
<1> DEFINE r == [winProc[p] EXCEPT !.alive = FALSE, !.lock = Nobody, !.crash = Nobody,
                                   !.non = Nobody, !.dumps = 0]
<1>1. winProc[p] \in WinClient
  BY DEF CaptureTypes
<1>2. r \in WinClient /\ r.alive = FALSE /\ r.startup = winProc[p].startup
  BY <1>1 DEF WinClient
<1>3. winProc' = [winProc EXCEPT ![p] = r]
  BY <1>1 DEF Terminate, CaptureTypes
<1>4. /\ winProc' \in [WinProcesses -> WinClient] /\ winProc'[p] = r
      /\ \A q \in WinProcesses \ {p} : winProc'[q] = winProc[q]
  BY <1>1, <1>2, <1>3, Put DEF CaptureTypes
<1> QED
  BY <1>2, <1>4 DEF Terminate, CaptureTypes, ThreadPlaces

\* The first thread that crashes goes on, the others are parked, if the handler has started.
LEMMA ExceptionEffect ==
    ASSUME CaptureTypes, NEW t \in WinThreads, NEW p \in WinProcesses, p = WinProcessOf[t],
           UnhandledExceptionHandler(t), ~Terminate(p)
    PROVE  /\ CaptureTypes'
           /\ winThread[t] = "run" /\ winThread'[t] \in {"parked", "crashing"}
           /\ \A u \in WinThreads \ {t} : winThread'[u] = winThread[u]
           /\ winProc[p].startup = "Succeeded"
           /\ winProc'[p].alive = winProc[p].alive /\ winProc'[p].startup = "Succeeded"
           /\ winProc'[p].lock = winProc[p].lock /\ winProc'[p].crash = winProc[p].crash
           /\ winProc'[p].non = winProc[p].non
           /\ \A q \in WinProcesses \ {p} : winProc'[q] = winProc[q]
           /\ UNCHANGED <<winEvents, serverVars>>
<1> DEFINE r == [winProc[p] EXCEPT !.crashed = TRUE]
<1>1. winProc[p] \in WinClient
  BY DEF CaptureTypes
<1>2. winProc[p].startup = "Succeeded"
  BY <1>1 DEF UnhandledExceptionHandler, WinClient
<1>3. /\ r \in WinClient /\ r.alive = winProc[p].alive /\ r.startup = winProc[p].startup
      /\ r.lock = winProc[p].lock /\ r.crash = winProc[p].crash /\ r.non = winProc[p].non
  BY <1>1 DEF WinClient
<1>4. winProc' = [winProc EXCEPT ![p] = r]
  BY <1>1, <1>2 DEF UnhandledExceptionHandler, CaptureTypes
<1>5. /\ winProc' \in [WinProcesses -> WinClient] /\ winProc'[p] = r
      /\ \A q \in WinProcesses \ {p} : winProc'[q] = winProc[q]
  BY <1>1, <1>3, <1>4, Put DEF CaptureTypes
<1> QED
  BY <1>2, <1>3, <1>5
  DEF UnhandledExceptionHandler, Step, CaptureTypes, ThreadPlaces, serverVars

\* The handler has started, or has not.
LEMMA StartEffect ==
    ASSUME CaptureTypes, StartHandlerProcess
    PROVE  /\ CaptureTypes'
           /\ winProc[InitialClient].startup = "NotReady"
           /\ \A q \in WinProcesses :
                /\ winProc'[q].alive = winProc[q].alive /\ winProc'[q].lock = winProc[q].lock
                /\ winProc'[q].crash = winProc[q].crash /\ winProc'[q].non = winProc[q].non
                /\ q # InitialClient => winProc'[q] = winProc[q]
           /\ UNCHANGED <<winThread, winEvents, serverVars>>
<1>0. InitialClient \in WinProcesses /\ winProc[InitialClient] \in WinClient
  BY WinAssumption DEF CaptureTypes, WinAssumption
<1>1. PICK s \in {"Succeeded", "Failed"} :
        winProc' = [winProc EXCEPT ![InitialClient] = [@ EXCEPT !.startup = s]]
  BY DEF StartHandlerProcess
<1> DEFINE r == [winProc[InitialClient] EXCEPT !.startup = s]
<1>2. /\ r \in WinClient /\ r.alive = winProc[InitialClient].alive
      /\ r.lock = winProc[InitialClient].lock /\ r.crash = winProc[InitialClient].crash
      /\ r.non = winProc[InitialClient].non
  BY <1>0 DEF WinClient
<1>3. /\ winProc' \in [WinProcesses -> WinClient] /\ winProc'[InitialClient] = r
      /\ \A q \in WinProcesses \ {InitialClient} : winProc'[q] = winProc[q]
  BY <1>0, <1>1, <1>2, Put DEF CaptureTypes
<1> QED
  BY <1>0, <1>2, <1>3 DEF StartHandlerProcess, CaptureTypes, serverVars

\* The callback for a crash ends with the process.
LEMMA OnCrashEffect ==
    ASSUME CaptureTypes, NEW p \in WinProcesses, OnCrashDumpEvent(p)
    PROVE  /\ Terminate(p) /\ UNCHANGED <<winEvents, winPort, clientVars>>
           /\ winData' \in [WinProcesses -> ClientData]
           /\ winData'[p].armed = winData[p].armed /\ winData'[p].running = "none"
           /\ winData'[p].begun = winData[p].begun \ {"crash"}
           /\ \A q \in WinProcesses \ {p} : winData'[q] = winData[q]
<1> DEFINE d == [winData[p] EXCEPT !.running = "none", !.begun = @ \ {"crash"}]
<1>1. winData[p] \in ClientData
  BY DEF CaptureTypes
<1>2. /\ d \in ClientData /\ d.armed = winData[p].armed /\ d.running = "none"
      /\ d.begun = winData[p].begun \ {"crash"}
  BY <1>1 DEF ClientData
<1>3. winData' = [winData EXCEPT ![p] = d]
  BY <1>1 DEF OnCrashDumpEvent, CaptureTypes
<1> QED
  BY <1>1, <1>2, <1>3, Put DEF CaptureTypes, OnCrashDumpEvent

\* Callbacks no longer begin for a client that is deleted.
LEMMA TakePostEffect ==
    ASSUME CaptureTypes, TakePost
    PROVE  /\ CaptureTypes'
           /\ winPort # <<>> /\ winPort' = Tail(winPort) /\ winMain = "loop"
           /\ \A q \in WinProcesses :
                /\ winData'[q].begun = winData[q].begun
                /\ winData'[q].running = winData[q].running
                /\ q # winPort[1] \/ q = Nobody => winData'[q].armed = winData[q].armed
           /\ 1 \in DOMAIN winPort
           /\ \A i \in DOMAIN winPort' : i + 1 \in DOMAIN winPort /\ winPort'[i] = winPort[i + 1]
           /\ UNCHANGED poolVars
<1>0. /\ 1 \in DOMAIN winPort
      /\ \A i \in DOMAIN winPort' : i + 1 \in DOMAIN winPort /\ winPort'[i] = winPort[i + 1]
  BY DEF TakePost, CaptureTypes
<1>1. /\ winPort # <<>> /\ Tail(winPort) \in Seq(WinProcesses \cup {Nobody})
      /\ winPort[1] = Head(winPort) /\ Head(winPort) \in WinProcesses \cup {Nobody}
  BY DEF TakePost, CaptureTypes
<1>2. CASE Head(winPort) = Nobody
  BY <1>0, <1>1, <1>2 DEF TakePost, CaptureTypes, poolVars, ClientData
<1>3. CASE Head(winPort) # Nobody
  <2> DEFINE p == Head(winPort)
             d == [winData[p] EXCEPT !.listed = FALSE, !.armed = FALSE]
  <2>1. p \in WinProcesses /\ winData[p] \in ClientData
    BY <1>1, <1>3 DEF CaptureTypes
  <2>2. /\ d \in ClientData /\ d.begun = winData[p].begun /\ d.running = winData[p].running
    BY <2>1 DEF ClientData
  <2>3. winData' = [winData EXCEPT ![p] = d] /\ winMain' = p
    BY <1>3, <2>1 DEF TakePost, CaptureTypes
  <2>4. /\ winData' \in [WinProcesses -> ClientData] /\ winData'[p] = d
        /\ \A q \in WinProcesses \ {p} : winData'[q] = winData[q]
    BY <2>1, <2>2, <2>3, Put DEF CaptureTypes
  <2>5. CaptureTypes'
    BY <1>1, <2>1, <2>3, <2>4 DEF TakePost, CaptureTypes, poolVars
  <2> QED
    BY <1>0, <1>1, <1>3, <2>2, <2>4, <2>5 DEF TakePost, poolVars
<1> QED
  BY <1>2, <1>3

\* The clients that are left.
LEMMA DeleteClientsEffect ==
    ASSUME CaptureTypes, DeleteClients
    PROVE  /\ CaptureTypes'
           /\ \A q \in WinProcesses :
                /\ winData'[q].begun = winData[q].begun /\ winData'[q].running = winData[q].running
           /\ winMain' = "leaving" /\ UNCHANGED <<poolVars, winPort>>
<1>1. \A q \in WinProcesses : winData[q] \in ClientData
  BY DEF CaptureTypes
<1>2. ASSUME NEW q \in WinProcesses
      PROVE  LET d == [winData[q] EXCEPT !.listed = FALSE, !.armed = FALSE]
             IN d \in ClientData /\ d.begun = winData[q].begun /\ d.running = winData[q].running
  BY <1>1 DEF ClientData
<1>3. winData' = [q \in WinProcesses |-> [winData[q] EXCEPT !.listed = FALSE, !.armed = FALSE]]
  BY DEF DeleteClients
<1>4. winData' \in [WinProcesses -> ClientData]
  BY <1>2, <1>3
<1> QED
  BY <1>2, <1>3, <1>4 DEF DeleteClients, CaptureTypes, poolVars

----------------------------------------------------------------------------
(***************************************************************************)
(* The invariant.                                                          *)
(***************************************************************************)

\* It is enough to look at one process and one thread.
LEMMA CaptureParts ==
    ASSUME CaptureTypes',
           \A q \in WinProcesses : Callbacks(q)' /\ Watched(q)' /\ CrashServed(q)' /\ DumpServed(q)',
           \A u \in WinThreads : Asks(u)'
    PROVE  CaptureInv'
BY DEF CaptureInv

\* A crash is signalled.
LEMMA SignalCrashInv ==
    ASSUME CaptureInv, NEW t \in WinThreads, NEW p \in WinProcesses, p = WinProcessOf[t],
           SignalCrash(t)
    PROVE  CaptureInv'
<1>0. /\ CaptureTypes /\ WinAssumption
      /\ \A q \in WinProcesses : Callbacks(q) /\ Watched(q) /\ CrashServed(q) /\ DumpServed(q)
      /\ \A u \in WinThreads : Asks(u)
      /\ \A u \in WinThreads : WinProcessOf[u] \in WinProcesses
  BY WinAssumption DEF CaptureInv, WinAssumption
<1>1. CaptureTypes'
  BY <1>0, SignalCrashEffect DEF CaptureTypes, serverVars
<1>2. ASSUME NEW q \in WinProcesses
      PROVE  Callbacks(q)' /\ Watched(q)' /\ CrashServed(q)' /\ DumpServed(q)'
  <2>1. Callbacks(q)'
    BY <1>0, SignalCrashEffect DEF Callbacks, serverVars
  <2>2. Watched(q)'
    BY <1>0, SignalCrashEffect DEF Watched, serverVars
  <2>3. CrashServed(q)'
    BY <1>0, SignalCrashEffect DEF CrashServed, serverVars
  <2>4. DumpServed(q)'
    BY <1>0, SignalCrashEffect DEF DumpServed, serverVars
  <2> QED
    BY <2>1, <2>2, <2>3, <2>4
<1>3. ASSUME NEW u \in WinThreads PROVE Asks(u)'
  BY <1>0, SignalCrashEffect DEF Asks, serverVars
<1> QED
  BY <1>1, <1>2, <1>3, CaptureParts

\* The lock of the dumps is free, so nobody waits for one.
LEMMA LockDumpInv ==
    ASSUME CaptureInv, NEW t \in WinThreads, NEW p \in WinProcesses, p = WinProcessOf[t],
           LockDump(t)
    PROVE  CaptureInv'
<1>0. /\ CaptureTypes /\ WinAssumption
      /\ \A q \in WinProcesses : Callbacks(q) /\ Watched(q) /\ CrashServed(q) /\ DumpServed(q)
      /\ \A u \in WinThreads : Asks(u)
      /\ \A u \in WinThreads : WinProcessOf[u] \in WinProcesses
  BY WinAssumption DEF CaptureInv, WinAssumption
<1>1. CaptureTypes'
  BY <1>0, LockDumpEffect DEF CaptureTypes, serverVars
<1>2. ASSUME NEW q \in WinProcesses
      PROVE  Callbacks(q)' /\ Watched(q)' /\ CrashServed(q)' /\ DumpServed(q)'
  <2>1. Callbacks(q)'
    BY <1>0, LockDumpEffect DEF Callbacks, serverVars
  <2>2. Watched(q)'
    BY <1>0, LockDumpEffect DEF Watched, serverVars
  <2>3. CrashServed(q)'
    BY <1>0, LockDumpEffect DEF CrashServed, serverVars
  <2>4. DumpServed(q)'
    BY <1>0, LockDumpEffect DEF DumpServed, serverVars
  <2> QED
    BY <2>1, <2>2, <2>3, <2>4
<1>3. ASSUME NEW u \in WinThreads PROVE Asks(u)'
  BY <1>0, LockDumpEffect DEF Asks, serverVars
<1> QED
  BY <1>1, <1>2, <1>3, CaptureParts

\* It is given back.
LEMMA FirstChanceDumpInv ==
    ASSUME CaptureInv, NEW t \in WinThreads, NEW p \in WinProcesses, p = WinProcessOf[t],
           FirstChanceDump(t)
    PROVE  CaptureInv'
<1>0. /\ CaptureTypes /\ WinAssumption
      /\ \A q \in WinProcesses : Callbacks(q) /\ Watched(q) /\ CrashServed(q) /\ DumpServed(q)
      /\ \A u \in WinThreads : Asks(u)
      /\ \A u \in WinThreads : WinProcessOf[u] \in WinProcesses
  BY WinAssumption DEF CaptureInv, WinAssumption
<1>1. CaptureTypes'
  BY <1>0, FirstChanceDumpEffect DEF CaptureTypes, serverVars
<1>2. ASSUME NEW q \in WinProcesses
      PROVE  Callbacks(q)' /\ Watched(q)' /\ CrashServed(q)' /\ DumpServed(q)'
  <2>1. Callbacks(q)'
    BY <1>0, FirstChanceDumpEffect DEF Callbacks, serverVars
  <2>2. Watched(q)'
    BY <1>0, FirstChanceDumpEffect DEF Watched, serverVars
  <2>3. CrashServed(q)'
    BY <1>0, FirstChanceDumpEffect DEF CrashServed, serverVars
  <2>4. DumpServed(q)'
    BY <1>0, FirstChanceDumpEffect DEF DumpServed, serverVars
  <2> QED
    BY <2>1, <2>2, <2>3, <2>4
<1>3. ASSUME NEW u \in WinThreads PROVE Asks(u)'
  BY <1>0, FirstChanceDumpEffect DEF Asks, serverVars
<1> QED
  BY <1>1, <1>2, <1>3, CaptureParts

\* The holder of the lock asks, and no request is left over.
LEMMA SignalDumpInv ==
    ASSUME CaptureInv, NEW t \in WinThreads, NEW p \in WinProcesses, p = WinProcessOf[t],
           SignalDump(t)
    PROVE  CaptureInv'
<1>0. /\ CaptureTypes /\ WinAssumption
      /\ \A q \in WinProcesses : Callbacks(q) /\ Watched(q) /\ CrashServed(q) /\ DumpServed(q)
      /\ \A u \in WinThreads : Asks(u)
      /\ \A u \in WinThreads : WinProcessOf[u] \in WinProcesses
  BY WinAssumption DEF CaptureInv, WinAssumption
<1>1. CaptureTypes'
  BY <1>0, SignalDumpEffect DEF CaptureTypes, serverVars
<1>2. ASSUME NEW q \in WinProcesses
      PROVE  Callbacks(q)' /\ Watched(q)' /\ CrashServed(q)' /\ DumpServed(q)'
  <2>1. Callbacks(q)'
    BY <1>0, SignalDumpEffect DEF Callbacks, serverVars
  <2>2. Watched(q)'
    BY <1>0, SignalDumpEffect DEF Watched, serverVars
  <2>3. CrashServed(q)'
    BY <1>0, SignalDumpEffect DEF CrashServed, serverVars
  <2>4. DumpServed(q)'
    BY <1>0, SignalDumpEffect DEF DumpServed, serverVars
  <2> QED
    BY <2>1, <2>2, <2>3, <2>4
<1>3. ASSUME NEW u \in WinThreads PROVE Asks(u)'
  BY <1>0, SignalDumpEffect DEF Asks, serverVars
<1> QED
  BY <1>1, <1>2, <1>3, CaptureParts

\* The answer is the holder's.
LEMMA DumpCompletedInv ==
    ASSUME CaptureInv, NEW t \in WinThreads, NEW p \in WinProcesses, p = WinProcessOf[t],
           DumpCompleted(t)
    PROVE  CaptureInv'
<1>0. /\ CaptureTypes /\ WinAssumption
      /\ \A q \in WinProcesses : Callbacks(q) /\ Watched(q) /\ CrashServed(q) /\ DumpServed(q)
      /\ \A u \in WinThreads : Asks(u)
      /\ \A u \in WinThreads : WinProcessOf[u] \in WinProcesses
  BY WinAssumption DEF CaptureInv, WinAssumption
<1>1. CaptureTypes'
  BY <1>0, DumpCompletedEffect DEF CaptureTypes, serverVars
<1>2. ASSUME NEW q \in WinProcesses
      PROVE  Callbacks(q)' /\ Watched(q)' /\ CrashServed(q)' /\ DumpServed(q)'
  <2>1. Callbacks(q)'
    BY <1>0, DumpCompletedEffect DEF Callbacks, serverVars
  <2>2. Watched(q)'
    BY <1>0, DumpCompletedEffect DEF Watched, serverVars
  <2>3. CrashServed(q)'
    BY <1>0, DumpCompletedEffect DEF CrashServed, serverVars
  <2>4. DumpServed(q)'
    BY <1>0, DumpCompletedEffect DEF DumpServed, serverVars
  <2> QED
    BY <2>1, <2>2, <2>3, <2>4
<1>3. ASSUME NEW u \in WinThreads PROVE Asks(u)'
  BY <1>0, DumpCompletedEffect DEF Asks, serverVars
<1> QED
  BY <1>1, <1>2, <1>3, CaptureParts

\* A client that registers is waited for.
LEMMA RegisterClientInv ==
    ASSUME CaptureInv, NEW p \in WinProcesses, RegisterClient(p)
    PROVE  CaptureInv'
<1>0. /\ CaptureTypes /\ WinAssumption
      /\ \A q \in WinProcesses : Callbacks(q) /\ Watched(q) /\ CrashServed(q) /\ DumpServed(q)
      /\ \A u \in WinThreads : Asks(u)
      /\ \A u \in WinThreads : WinProcessOf[u] \in WinProcesses
  BY WinAssumption DEF CaptureInv, WinAssumption
<1>e. /\ \A q \in WinProcesses : winData'[q].begun = winData[q].begun
      /\ UNCHANGED <<winProc, winThread, winEvents>>
  BY <1>0, RegisterClientEffect
<1>1. CaptureTypes'
  BY <1>0, RegisterClientEffect DEF CaptureTypes
<1>2. ASSUME NEW q \in WinProcesses
      PROVE  Callbacks(q)' /\ Watched(q)' /\ CrashServed(q)' /\ DumpServed(q)'
  <2>1. Callbacks(q)'
    BY <1>0, RegisterClientEffect DEF Callbacks
  <2>2. Watched(q)'
    BY <1>0, RegisterClientEffect DEF Watched
  <2>3. CrashServed(q)'
    BY <1>0, <1>e DEF CrashServed
  <2>4. DumpServed(q)'
    BY <1>0, <1>e DEF DumpServed
  <2> QED
    BY <2>1, <2>2, <2>3, <2>4
<1>3. ASSUME NEW u \in WinThreads PROVE Asks(u)'
  BY <1>0, RegisterClientEffect DEF Asks
<1> QED
  BY <1>1, <1>2, <1>3, CaptureParts

\* Only then does it know of the handler.
LEMMA ReplyToClientInv ==
    ASSUME CaptureInv, NEW p \in WinProcesses, ReplyToClient(p)
    PROVE  CaptureInv'
<1>0. /\ CaptureTypes /\ WinAssumption
      /\ \A q \in WinProcesses : Callbacks(q) /\ Watched(q) /\ CrashServed(q) /\ DumpServed(q)
      /\ \A u \in WinThreads : Asks(u)
      /\ \A u \in WinThreads : WinProcessOf[u] \in WinProcesses
  BY WinAssumption DEF CaptureInv, WinAssumption
<1>1. CaptureTypes'
  BY <1>0, ReplyToClientEffect DEF CaptureTypes
<1>2. ASSUME NEW q \in WinProcesses
      PROVE  Callbacks(q)' /\ Watched(q)' /\ CrashServed(q)' /\ DumpServed(q)'
  <2>1. Callbacks(q)'
    BY <1>0, ReplyToClientEffect DEF Callbacks
  <2>2. Watched(q)'
    BY <1>0, ReplyToClientEffect DEF Watched
  <2>3. CrashServed(q)'
    BY <1>0, ReplyToClientEffect DEF CrashServed
  <2>4. DumpServed(q)'
    BY <1>0, ReplyToClientEffect DEF DumpServed
  <2> QED
    BY <2>1, <2>2, <2>3, <2>4
<1>3. ASSUME NEW u \in WinThreads PROVE Asks(u)'
  BY <1>0, ReplyToClientEffect DEF Asks
<1> QED
  BY <1>1, <1>2, <1>3, CaptureParts

\* The request becomes the answer.
LEMMA OnNonCrashDumpEventInv ==
    ASSUME CaptureInv, NEW p \in WinProcesses, OnNonCrashDumpEvent(p)
    PROVE  CaptureInv'
<1>0. /\ CaptureTypes /\ WinAssumption
      /\ \A q \in WinProcesses : Callbacks(q) /\ Watched(q) /\ CrashServed(q) /\ DumpServed(q)
      /\ \A u \in WinThreads : Asks(u)
      /\ \A u \in WinThreads : WinProcessOf[u] \in WinProcesses
  BY WinAssumption DEF CaptureInv, WinAssumption
<1>1. CaptureTypes'
  BY <1>0, OnNonCrashDumpEventEffect DEF CaptureTypes, clientVars
<1>2. ASSUME NEW q \in WinProcesses
      PROVE  Callbacks(q)' /\ Watched(q)' /\ CrashServed(q)' /\ DumpServed(q)'
  <2>1. Callbacks(q)'
    BY <1>0, OnNonCrashDumpEventEffect DEF Callbacks, clientVars
  <2>2. Watched(q)'
    BY <1>0, OnNonCrashDumpEventEffect DEF Watched, clientVars
  <2>3. CrashServed(q)'
    BY <1>0, OnNonCrashDumpEventEffect DEF CrashServed, clientVars
  <2>4. DumpServed(q)'
    BY <1>0, OnNonCrashDumpEventEffect DEF DumpServed, Callbacks, clientVars
  <2> QED
    BY <2>1, <2>2, <2>3, <2>4
<1>3. ASSUME NEW u \in WinThreads PROVE Asks(u)'
  BY <1>0, OnNonCrashDumpEventEffect DEF Asks, clientVars
<1> QED
  BY <1>1, <1>2, <1>3, CaptureParts

\* A client is posted for deletion once it has ended.
LEMMA OnProcessEndInv ==
    ASSUME CaptureInv, NEW p \in WinProcesses, OnProcessEnd(p)
    PROVE  CaptureInv'
<1>0. /\ CaptureTypes /\ WinAssumption
      /\ \A q \in WinProcesses : Callbacks(q) /\ Watched(q) /\ CrashServed(q) /\ DumpServed(q)
      /\ \A u \in WinThreads : Asks(u)
      /\ \A u \in WinThreads : WinProcessOf[u] \in WinProcesses
  BY WinAssumption DEF CaptureInv, WinAssumption
<1>1. CaptureTypes'
  BY <1>0, OnProcessEndEffect DEF CaptureTypes, clientVars
<1>2. ASSUME NEW q \in WinProcesses
      PROVE  Callbacks(q)' /\ Watched(q)' /\ CrashServed(q)' /\ DumpServed(q)'
  <2>1. Callbacks(q)'
    BY <1>0, OnProcessEndEffect DEF Callbacks, clientVars
  <2>2. Watched(q)'
    BY <1>0, OnProcessEndEffect DEF Watched, clientVars
  <2>3. CrashServed(q)'
    BY <1>0, OnProcessEndEffect DEF CrashServed, clientVars
  <2>4. DumpServed(q)'
    BY <1>0, OnProcessEndEffect DEF DumpServed, clientVars
  <2> QED
    BY <2>1, <2>2, <2>3, <2>4
<1>3. ASSUME NEW u \in WinThreads PROVE Asks(u)'
  BY <1>0, OnProcessEndEffect DEF Asks, clientVars
<1> QED
  BY <1>1, <1>2, <1>3, CaptureParts

\* The event becomes a callback.
LEMMA BeginCallbackInv ==
    ASSUME CaptureInv, NEW p \in WinProcesses, NEW e \in {"crash", "non", "end"},
           BeginCallback(p, e)
    PROVE  CaptureInv'
<1>0. /\ CaptureTypes /\ WinAssumption
      /\ \A q \in WinProcesses : Callbacks(q) /\ Watched(q) /\ CrashServed(q) /\ DumpServed(q)
      /\ \A u \in WinThreads : Asks(u)
      /\ \A u \in WinThreads : WinProcessOf[u] \in WinProcesses
  BY WinAssumption DEF CaptureInv, WinAssumption
<1>1. CaptureTypes'
  BY <1>0, BeginCallbackEffect DEF CaptureTypes, clientVars
<1>2. ASSUME NEW q \in WinProcesses
      PROVE  Callbacks(q)' /\ Watched(q)' /\ CrashServed(q)' /\ DumpServed(q)'
  <2>1. Callbacks(q)'
    BY <1>0, BeginCallbackEffect DEF Callbacks, clientVars
  <2>2. Watched(q)'
    BY <1>0, BeginCallbackEffect DEF Watched, clientVars
  <2>3. CrashServed(q)'
    BY <1>0, BeginCallbackEffect DEF CrashServed, clientVars
  <2>4. DumpServed(q)'
    BY <1>0, BeginCallbackEffect DEF DumpServed, clientVars
  <2> QED
    BY <2>1, <2>2, <2>3, <2>4
<1>3. ASSUME NEW u \in WinThreads PROVE Asks(u)'
  BY <1>0, BeginCallbackEffect DEF Asks, clientVars
<1> QED
  BY <1>1, <1>2, <1>3, CaptureParts

\* A callback that has begun gets the lock.
LEMMA LockClientInv ==
    ASSUME CaptureInv, NEW p \in WinProcesses, NEW e \in {"crash", "non", "end"}, LockClient(p, e)
    PROVE  CaptureInv'
<1>0. /\ CaptureTypes /\ WinAssumption
      /\ \A q \in WinProcesses : Callbacks(q) /\ Watched(q) /\ CrashServed(q) /\ DumpServed(q)
      /\ \A u \in WinThreads : Asks(u)
      /\ \A u \in WinThreads : WinProcessOf[u] \in WinProcesses
  BY WinAssumption DEF CaptureInv, WinAssumption
<1>1. CaptureTypes'
  BY <1>0, LockClientEffect DEF CaptureTypes, clientVars
<1>2. ASSUME NEW q \in WinProcesses
      PROVE  Callbacks(q)' /\ Watched(q)' /\ CrashServed(q)' /\ DumpServed(q)'
  <2>1. Callbacks(q)'
    BY <1>0, LockClientEffect DEF Callbacks, clientVars
  <2>2. Watched(q)'
    BY <1>0, LockClientEffect DEF Watched, clientVars
  <2>3. CrashServed(q)'
    BY <1>0, LockClientEffect DEF CrashServed, clientVars
  <2>4. DumpServed(q)'
    BY <1>0, LockClientEffect DEF DumpServed, clientVars
  <2> QED
    BY <2>1, <2>2, <2>3, <2>4
<1>3. ASSUME NEW u \in WinThreads PROVE Asks(u)'
  BY <1>0, LockClientEffect DEF Asks, clientVars
<1> QED
  BY <1>1, <1>2, <1>3, CaptureParts

\* A thread crashes in a process whose handler has started.
LEMMA ExceptionInv ==
    ASSUME CaptureInv, NEW t \in WinThreads, NEW p \in WinProcesses, p = WinProcessOf[t],
           UnhandledExceptionHandler(t), ~Terminate(p)
    PROVE  CaptureInv'
<1>0. /\ CaptureTypes /\ WinAssumption
      /\ \A q \in WinProcesses : Callbacks(q) /\ Watched(q) /\ CrashServed(q) /\ DumpServed(q)
      /\ \A u \in WinThreads : Asks(u)
      /\ \A u \in WinThreads : WinProcessOf[u] \in WinProcesses
  BY WinAssumption DEF CaptureInv, WinAssumption
<1>1. CaptureTypes'
  BY <1>0, ExceptionEffect DEF CaptureTypes, serverVars
<1>2. ASSUME NEW q \in WinProcesses
      PROVE  Callbacks(q)' /\ Watched(q)' /\ CrashServed(q)' /\ DumpServed(q)'
  <2>1. Callbacks(q)'
    BY <1>0, ExceptionEffect DEF Callbacks, serverVars
  <2>2. Watched(q)'
    BY <1>0, ExceptionEffect DEF Watched, serverVars
  <2>3. CrashServed(q)'
    BY <1>0, ExceptionEffect DEF CrashServed, serverVars
  <2>4. DumpServed(q)'
    BY <1>0, ExceptionEffect DEF DumpServed, serverVars
  <2> QED
    BY <2>1, <2>2, <2>3, <2>4
<1>3. ASSUME NEW u \in WinThreads PROVE Asks(u)'
  BY <1>0, ExceptionEffect DEF Asks, serverVars
<1> QED
  BY <1>1, <1>2, <1>3, CaptureParts

\* The handler of the initial client has started, or has not.
LEMMA StartInv ==
    ASSUME CaptureInv, StartHandlerProcess
    PROVE  CaptureInv'
<1>0. /\ CaptureTypes /\ WinAssumption
      /\ \A q \in WinProcesses : Callbacks(q) /\ Watched(q) /\ CrashServed(q) /\ DumpServed(q)
      /\ \A u \in WinThreads : Asks(u)
      /\ \A u \in WinThreads : WinProcessOf[u] \in WinProcesses
  BY WinAssumption DEF CaptureInv, WinAssumption
<1>1. CaptureTypes'
  BY <1>0, StartEffect DEF CaptureTypes, serverVars
<1>2. ASSUME NEW q \in WinProcesses
      PROVE  Callbacks(q)' /\ Watched(q)' /\ CrashServed(q)' /\ DumpServed(q)'
  <2>1. Callbacks(q)'
    BY <1>0, StartEffect DEF Callbacks, serverVars
  <2>2. Watched(q)'
    BY <1>0, StartEffect DEF Watched, serverVars
  <2>3. CrashServed(q)'
    BY <1>0, StartEffect DEF CrashServed, serverVars
  <2>4. DumpServed(q)'
    BY <1>0, StartEffect DEF DumpServed, serverVars
  <2> QED
    BY <2>1, <2>2, <2>3, <2>4
<1>3. ASSUME NEW u \in WinThreads PROVE Asks(u)'
  BY <1>0, StartEffect DEF Asks, serverVars
<1> QED
  BY <1>1, <1>2, <1>3, CaptureParts

\* A client that is no longer waited for has ended.
LEMMA TakePostInv ==
    ASSUME CaptureInv, TakePost
    PROVE  CaptureInv'
<1>0. /\ CaptureTypes /\ WinAssumption
      /\ \A q \in WinProcesses : Callbacks(q) /\ Watched(q) /\ CrashServed(q) /\ DumpServed(q)
      /\ \A u \in WinThreads : Asks(u)
      /\ \A u \in WinThreads : WinProcessOf[u] \in WinProcesses
  BY WinAssumption DEF CaptureInv, WinAssumption
<1>1. CaptureTypes'
  BY <1>0, TakePostEffect DEF CaptureTypes, poolVars
<1>2. ASSUME NEW q \in WinProcesses
      PROVE  Callbacks(q)' /\ Watched(q)' /\ CrashServed(q)' /\ DumpServed(q)'
  <2>1. Callbacks(q)'
    BY <1>0, TakePostEffect DEF Callbacks, poolVars
  <2>2. Watched(q)'
    BY <1>0, TakePostEffect DEF Watched, Callbacks, poolVars
  <2>3. CrashServed(q)'
    BY <1>0, TakePostEffect DEF CrashServed, poolVars
  <2>4. DumpServed(q)'
    BY <1>0, TakePostEffect DEF DumpServed, poolVars
  <2> QED
    BY <2>1, <2>2, <2>3, <2>4
<1>3. ASSUME NEW u \in WinThreads PROVE Asks(u)'
  BY <1>0, TakePostEffect DEF Asks, poolVars
<1> QED
  BY <1>1, <1>2, <1>3, CaptureParts

\* The server leaves.
LEMMA DeleteClientsInv ==
    ASSUME CaptureInv, DeleteClients
    PROVE  CaptureInv'
<1>0. /\ CaptureTypes /\ WinAssumption
      /\ \A q \in WinProcesses : Callbacks(q) /\ Watched(q) /\ CrashServed(q) /\ DumpServed(q)
      /\ \A u \in WinThreads : Asks(u)
      /\ \A u \in WinThreads : WinProcessOf[u] \in WinProcesses
  BY WinAssumption DEF CaptureInv, WinAssumption
<1>1. CaptureTypes'
  BY <1>0, DeleteClientsEffect DEF CaptureTypes, poolVars
<1>2. ASSUME NEW q \in WinProcesses
      PROVE  Callbacks(q)' /\ Watched(q)' /\ CrashServed(q)' /\ DumpServed(q)'
  <2>1. Callbacks(q)'
    BY <1>0, DeleteClientsEffect DEF Callbacks, poolVars
  <2>2. Watched(q)'
    BY <1>0, DeleteClientsEffect DEF Watched, poolVars
  <2>3. CrashServed(q)'
    BY <1>0, DeleteClientsEffect DEF CrashServed, poolVars
  <2>4. DumpServed(q)'
    BY <1>0, DeleteClientsEffect DEF DumpServed, poolVars
  <2> QED
    BY <2>1, <2>2, <2>3, <2>4
<1>3. ASSUME NEW u \in WinThreads PROVE Asks(u)'
  BY <1>0, DeleteClientsEffect DEF Asks, poolVars
<1> QED
  BY <1>1, <1>2, <1>3, CaptureParts

\* A process ends, and its threads with it.
LEMMA TerminateInv ==
    ASSUME CaptureInv, NEW p \in WinProcesses, Terminate(p), UNCHANGED <<winEvents, serverVars>>
    PROVE  CaptureInv'
<1>0. /\ CaptureTypes /\ WinAssumption
      /\ \A q \in WinProcesses : Callbacks(q) /\ Watched(q) /\ CrashServed(q) /\ DumpServed(q)
      /\ \A u \in WinThreads : Asks(u)
      /\ \A u \in WinThreads : WinProcessOf[u] \in WinProcesses
  BY WinAssumption DEF CaptureInv, WinAssumption
<1>1. CaptureTypes'
  BY <1>0, TerminateEffect DEF CaptureTypes, serverVars
<1>2. ASSUME NEW q \in WinProcesses
      PROVE  Callbacks(q)' /\ Watched(q)' /\ CrashServed(q)' /\ DumpServed(q)'
  <2>1. Callbacks(q)'
    BY <1>0, TerminateEffect DEF Callbacks, serverVars
  <2>2. Watched(q)'
    BY <1>0, TerminateEffect DEF Watched, serverVars
  <2>3. CrashServed(q)'
    BY <1>0, TerminateEffect DEF CrashServed, serverVars
  <2>4. DumpServed(q)'
    BY <1>0, TerminateEffect DEF DumpServed, serverVars
  <2> QED
    BY <2>1, <2>2, <2>3, <2>4
<1>3. ASSUME NEW u \in WinThreads PROVE Asks(u)'
  BY <1>0, TerminateEffect DEF Asks, serverVars
<1> QED
  BY <1>1, <1>2, <1>3, CaptureParts

\* The crash was dumped.
LEMMA OnCrashInv ==
    ASSUME CaptureInv, NEW p \in WinProcesses, OnCrashDumpEvent(p)
    PROVE  CaptureInv'
<1>0. /\ CaptureTypes /\ WinAssumption
      /\ \A q \in WinProcesses : Callbacks(q) /\ Watched(q) /\ CrashServed(q) /\ DumpServed(q)
      /\ \A u \in WinThreads : Asks(u)
      /\ \A u \in WinThreads : WinProcessOf[u] \in WinProcesses
  BY WinAssumption DEF CaptureInv, WinAssumption
<1>e. /\ ~winProc'[p].alive /\ winProc'[p].startup = winProc[p].startup
      /\ winData'[p].armed = winData[p].armed /\ winData'[p].running = "none"
      /\ \A q \in WinProcesses \ {p} : winProc'[q] = winProc[q] /\ winData'[q] = winData[q]
      /\ \A u \in WinThreads :
           winThread'[u] = IF WinProcessOf[u] = p THEN "ended" ELSE winThread[u]
      /\ UNCHANGED <<winEvents, winPort, winPipe, winMain>>
  BY <1>0, OnCrashEffect, TerminateEffect DEF clientVars
<1>1. CaptureTypes'
  BY <1>0, TerminateEffect, OnCrashEffect DEF OnCrashDumpEvent, CaptureTypes, clientVars
<1>2. ASSUME NEW q \in WinProcesses
      PROVE  Callbacks(q)' /\ Watched(q)' /\ CrashServed(q)' /\ DumpServed(q)'
  <2>1. Callbacks(q)'
    BY <1>0, <1>e DEF Callbacks
  <2>2. Watched(q)'
    BY <1>0, <1>e DEF Watched
  <2>3. CrashServed(q)'
    BY <1>0, <1>e DEF CrashServed
  <2>4. DumpServed(q)'
    BY <1>0, <1>e DEF DumpServed
  <2> QED
    BY <2>1, <2>2, <2>3, <2>4
<1>3. ASSUME NEW u \in WinThreads PROVE Asks(u)'
  BY <1>0, <1>e DEF Asks
<1> QED
  BY <1>1, <1>2, <1>3, CaptureParts

\* Stop() posts Nobody.
LEMMA StopServerInv ==
    ASSUME CaptureInv, StopServer
    PROVE  CaptureInv'
<1>0. /\ CaptureTypes /\ WinAssumption
      /\ \A q \in WinProcesses : Callbacks(q) /\ Watched(q) /\ CrashServed(q) /\ DumpServed(q)
      /\ \A u \in WinThreads : Asks(u)
      /\ \A u \in WinThreads : WinProcessOf[u] \in WinProcesses
  BY WinAssumption DEF CaptureInv, WinAssumption
<1>1. CaptureTypes'
  BY <1>0 DEF StopServer, CaptureTypes, poolVars
<1>2. ASSUME NEW q \in WinProcesses
      PROVE  Callbacks(q)' /\ Watched(q)' /\ CrashServed(q)' /\ DumpServed(q)'
  <2>1. Callbacks(q)'
    BY <1>0 DEF Callbacks, StopServer, poolVars
  <2>2. Watched(q)'
    BY <1>0 DEF Watched, StopServer, poolVars
  <2>3. CrashServed(q)'
    BY <1>0 DEF CrashServed, StopServer, poolVars
  <2>4. DumpServed(q)'
    BY <1>0 DEF DumpServed, StopServer, poolVars
  <2> QED
    BY <2>1, <2>2, <2>3, <2>4
<1>3. ASSUME NEW u \in WinThreads PROVE Asks(u)'
  BY <1>0 DEF Asks, StopServer, poolVars
<1> QED
  BY <1>1, <1>2, <1>3, CaptureParts

\* The deletion of a client is over.
LEMMA DeleteClientInv ==
    ASSUME CaptureInv, DeleteClient
    PROVE  CaptureInv'
<1>0. /\ CaptureTypes /\ WinAssumption
      /\ \A q \in WinProcesses : Callbacks(q) /\ Watched(q) /\ CrashServed(q) /\ DumpServed(q)
      /\ \A u \in WinThreads : Asks(u)
      /\ \A u \in WinThreads : WinProcessOf[u] \in WinProcesses
  BY WinAssumption DEF CaptureInv, WinAssumption
<1>1. CaptureTypes'
  BY <1>0 DEF DeleteClient, WinAssumption, CaptureTypes, poolVars
<1>2. ASSUME NEW q \in WinProcesses
      PROVE  Callbacks(q)' /\ Watched(q)' /\ CrashServed(q)' /\ DumpServed(q)'
  <2>1. Callbacks(q)'
    BY <1>0 DEF Callbacks, DeleteClient, WinAssumption, poolVars
  <2>2. Watched(q)'
    BY <1>0 DEF Watched, DeleteClient, WinAssumption, poolVars
  <2>3. CrashServed(q)'
    BY <1>0 DEF CrashServed, DeleteClient, WinAssumption, poolVars
  <2>4. DumpServed(q)'
    BY <1>0 DEF DumpServed, DeleteClient, WinAssumption, poolVars
  <2> QED
    BY <2>1, <2>2, <2>3, <2>4
<1>3. ASSUME NEW u \in WinThreads PROVE Asks(u)'
  BY <1>0 DEF Asks, DeleteClient, WinAssumption, poolVars
<1> QED
  BY <1>1, <1>2, <1>3, CaptureParts

\* Run() returns.
LEMMA LeaveRunInv ==
    ASSUME CaptureInv, LeaveRun
    PROVE  CaptureInv'
<1>0. /\ CaptureTypes /\ WinAssumption
      /\ \A q \in WinProcesses : Callbacks(q) /\ Watched(q) /\ CrashServed(q) /\ DumpServed(q)
      /\ \A u \in WinThreads : Asks(u)
      /\ \A u \in WinThreads : WinProcessOf[u] \in WinProcesses
  BY WinAssumption DEF CaptureInv, WinAssumption
<1>1. CaptureTypes'
  BY <1>0 DEF LeaveRun, WinAssumption, CaptureTypes, poolVars
<1>2. ASSUME NEW q \in WinProcesses
      PROVE  Callbacks(q)' /\ Watched(q)' /\ CrashServed(q)' /\ DumpServed(q)'
  <2>1. Callbacks(q)'
    BY <1>0 DEF Callbacks, LeaveRun, WinAssumption, poolVars
  <2>2. Watched(q)'
    BY <1>0 DEF Watched, LeaveRun, WinAssumption, poolVars
  <2>3. CrashServed(q)'
    BY <1>0 DEF CrashServed, LeaveRun, WinAssumption, poolVars
  <2>4. DumpServed(q)'
    BY <1>0 DEF DumpServed, LeaveRun, WinAssumption, poolVars
  <2> QED
    BY <2>1, <2>2, <2>3, <2>4
<1>3. ASSUME NEW u \in WinThreads PROVE Asks(u)'
  BY <1>0 DEF Asks, LeaveRun, WinAssumption, poolVars
<1> QED
  BY <1>1, <1>2, <1>3, CaptureParts

\* Nothing has been asked for.
LEMMA CaptureInit == WinInit => CaptureInv
<1> SUFFICES ASSUME WinInit PROVE CaptureInv
  OBVIOUS
<1>1. CaptureTypes
  BY WinAssumption
  DEF WinInit, CaptureTypes, WinClient, ClientData, ThreadPlaces, WinAssumption
<1>2. ASSUME NEW p \in WinProcesses
      PROVE  Callbacks(p) /\ Watched(p) /\ CrashServed(p) /\ DumpServed(p)
  <2>1. Callbacks(p)
    BY DEF WinInit, Callbacks
  <2>2. Watched(p)
    BY WinAssumption DEF WinInit, Watched, WinAssumption
  <2>3. CrashServed(p) /\ DumpServed(p)
    BY DEF WinInit, CrashServed, DumpServed
  <2> QED
    BY <2>1, <2>2, <2>3
<1>3. ASSUME NEW t \in WinThreads PROVE Asks(t)
  BY <1>1 DEF WinInit, Asks
<1> QED
  BY <1>1, <1>2, <1>3 DEF CaptureInv

\* Every step keeps the invariant.
LEMMA CaptureNext == CaptureInv /\ [WinNext]_winVars => CaptureInv'
<1> SUFFICES ASSUME CaptureInv, [WinNext]_winVars PROVE CaptureInv'
  OBVIOUS
<1>1. CASE UNCHANGED winVars
  BY <1>1 DEF winVars, CaptureInv, CaptureTypes, Callbacks, Watched, CrashServed, DumpServed, Asks
<1>2. ASSUME NEW t \in WinThreads,
             \/ UnhandledExceptionHandler(t) \/ FirstChanceHandled(t) \/ SignalCrash(t)
             \/ CrashTimeout(t) \/ LockDump(t) \/ FirstChanceDump(t) \/ SignalDump(t)
             \/ DumpCompleted(t)
      PROVE  CaptureInv'
  <2> DEFINE p == WinProcessOf[t]
  <2>1. p \in WinProcesses
    BY WinAssumption DEF WinAssumption
  <2>2. CASE \/ UnhandledExceptionHandler(t) /\ Terminate(p)
             \/ FirstChanceHandled(t) \/ CrashTimeout(t)
    BY <2>1, <2>2, TerminateInv DEF UnhandledExceptionHandler, FirstChanceHandled, CrashTimeout
  <2>3. CASE UnhandledExceptionHandler(t) /\ ~Terminate(p)
    BY <2>1, <2>3, ExceptionInv
  <2> QED
    BY <1>2, <2>1, <2>2, <2>3, SignalCrashInv, LockDumpInv, FirstChanceDumpInv, SignalDumpInv,
       DumpCompletedInv
<1>3. ASSUME NEW p \in WinProcesses,
             \/ ExitProcess(p) \/ RegisterClient(p) \/ ReplyToClient(p)
             \/ OnCrashDumpEvent(p) \/ OnNonCrashDumpEvent(p) \/ OnProcessEnd(p)
      PROVE  CaptureInv'
  <2>1. CASE ExitProcess(p)
    BY <2>1, TerminateInv DEF ExitProcess
  <2> QED
    BY <1>3, <2>1, RegisterClientInv, ReplyToClientInv, OnCrashInv, OnNonCrashDumpEventInv,
       OnProcessEndInv
<1>4. ASSUME NEW p \in WinProcesses, NEW e \in {"crash", "non", "end"},
             BeginCallback(p, e) \/ LockClient(p, e)
      PROVE  CaptureInv'
  BY <1>4, BeginCallbackInv, LockClientInv
<1> QED
  BY <1>1, <1>2, <1>3, <1>4, StartInv, StopServerInv, TakePostInv, DeleteClientInv,
     DeleteClientsInv, LeaveRunInv DEF WinNext

\* Clients, events, callbacks and the completion port stay well typed, for any clients with
\* any threads.
THEOREM WinCaptureTypes == WinSpec => []WinTypeOK
<1>1. CaptureInv => WinTypeOK
  BY DEF CaptureInv, CaptureTypes, WinTypeOK, WinClient, ClientData
<1> QED
  BY <1>1, CaptureInit, CaptureNext, PTL DEF WinSpec

\* Every dump is of the thread that asked for it, which waits meanwhile, and no request is
\* forgotten before the server leaves: the auto-reset events, the callbacks and the deletion
\* of clients cannot lose one, in whichever order they come.
THEOREM DumpsAreServed == WinSpec => []WinDumpsServed
<1>1. CaptureInv => WinReportNamesRequester
  <2> SUFFICES ASSUME CaptureInv, NEW p \in WinProcesses
               PROVE  /\ winProc[p].alive /\ winData[p].running = "crash" =>
                           \E t \in WinThreads : winProc[p].crash = t /\ winThread[t] = "asleep"
                      /\ winProc[p].alive /\ winData[p].running = "non" =>
                           \E t \in WinThreads : winProc[p].non = t /\ winThread[t] = "dumping"
    BY DEF WinReportNamesRequester
  <2> QED
    BY DEF CaptureInv, Callbacks, CrashServed, DumpServed
<1>2. CaptureInv => WinNobodyForgotten
  <2> SUFFICES ASSUME CaptureInv, winMain \notin {"stopping", "leaving", "gone"},
                      NEW t \in WinThreads, NEW p, p = WinProcessOf[t], winProc[p].alive,
                      winThread[t] \in {"asleep", "dumping"},
                      NEW e, e = IF winThread[t] = "asleep" THEN "crash" ELSE "non"
               PROVE  \/ winData[p].armed /\ e \in winEvents[p]
                      \/ e \in winData[p].begun
                      \/ e = "non" /\ "done" \in winEvents[p]
    BY DEF WinNobodyForgotten
  <2>1. p \in WinProcesses
    BY WinAssumption DEF WinAssumption
  <2>2. winData[p].armed
    BY <2>1 DEF CaptureInv, Watched, Asks
  <2> QED
    BY <2>1, <2>2 DEF CaptureInv, CrashServed, DumpServed
<1> QED
  BY <1>1, <1>2, CaptureInit, CaptureNext, PTL DEF WinSpec, WinDumpsServed
==============================================================================
