---------------------------- MODULE WinDatabase ----------------------------
(***************************************************************************)
(* The Windows crash report database, client/crash_report_database_win.cc: *)
(* one metadata file holds the records of all the reports.  An operation   *)
(* locks it, reads it, changes the records in memory, and the destructor   *)
(* of Metadata truncates the file, writes it and unlocks it.  The system   *)
(* unlocks it when the process dies.                                       *)
(*                                                                         *)
(* A file that is open is not removed: no handle shares the deletion.      *)
(* Operations that find nothing to change are left out.                    *)
(***************************************************************************)
EXTENDS Naturals, FiniteSets

CONSTANTS
    DatabaseUsers, \* the processes that have the database open
    WinReports,    \* the UUIDs of the reports that may be made
    NoUser,        \* no process
    NoReport,      \* no report
    MaxWinFaults   \* bound: processes killed, writes and openings that fail

ASSUME WinDatabaseAssumption ==
    NoUser \notin DatabaseUsers /\ NoReport \notin WinReports /\ MaxWinFaults \in Nat

VARIABLES
    onDisk,      \* onDisk[u]: u's record in the metadata file
    held,        \* who has the file locked, the records it has in memory, and whether it
                 \* is to write them, has truncated the file, or waits for itself
    dmp,         \* the reports whose files are there
    attached,    \* the reports that have attachments
    newReport,   \* newReport[p]: the NewReport of p
    uploadReport,\* uploadReport[p]: the UploadReport of p, and whether it was sent
    made,        \* the UUIDs that were made
    finished,    \* the reports finished, and not deleted
    given,       \* those of them that were finished with attachments
    accepted,    \* the reports that the server is known to have
    unmarked,    \* those that were handed out for uploading although the record that says
                 \* so could not be written
    winFaults    \* how often something has failed

winDatabaseVars == <<onDisk, held, dmp, attached, newReport, uploadReport, made, finished,
                     given, accepted, unmarked, winFaults>>

\* ReportDisk; "none" is no record.
Record == [state : {"none", "pending", "uploading", "completed"}, uploaded : BOOLEAN,
           requested : BOOLEAN]
NoRecord == [state |-> "none", uploaded |-> FALSE, requested |-> FALSE]
NewRecord == [NoRecord EXCEPT !.state = "pending"]

Empty == [u \in WinReports |-> NoRecord]
Free == [by |-> NoUser, recs |-> Empty, stage |-> "none"]
NoUpload == [report |-> NoReport, requested |-> FALSE, sent |-> FALSE]

WinDatabaseTypeOK ==
    /\ onDisk \in [WinReports -> Record]
    /\ held \in [by : DatabaseUsers \cup {NoUser}, recs : [WinReports -> Record],
                 stage : {"none", "dirty", "truncated", "stuck"}]
    /\ dmp \subseteq WinReports /\ attached \subseteq WinReports
    /\ newReport \in [DatabaseUsers -> WinReports \cup {NoReport}]
    /\ uploadReport \in [DatabaseUsers -> [report : WinReports \cup {NoReport},
                                           requested : BOOLEAN, sent : BOOLEAN]]
    /\ made \subseteq WinReports /\ finished \subseteq made /\ given \subseteq made /\ accepted \subseteq made
    /\ unmarked \subseteq WinReports
    /\ winFaults \in 0 .. MaxWinFaults

WinDatabaseInit ==
    /\ onDisk = Empty
    /\ held = Free
    /\ dmp = {} /\ attached = {}
    /\ newReport = [p \in DatabaseUsers |-> NoReport]
    /\ uploadReport = [p \in DatabaseUsers |-> NoUpload]
    /\ made = {} /\ finished = {} /\ given = {} /\ accepted = {} /\ unmarked = {}
    /\ winFaults = 0

----------------------------------------------------------------------------
(***************************************************************************)
(* Metadata.                                                               *)
(***************************************************************************)

fileVars == <<dmp, attached>>
objectVars == <<newReport, uploadReport>>
resultVars == <<made, finished, given, accepted, unmarked>>

\* Mutant: the lock is shared.
AcquireMetadataMutant(p) == held.by # p

\* LockFileEx() returns once nobody has the lock; Read() then finds what is on the disk.
AcquireMetadata(p) == held.by = NoUser

\* The record of u is changed in memory, and marked dirty.
Change(p, u, record) ==
    held' = [by |-> p, recs |-> [onDisk EXCEPT ![u] = record], stage |-> "dirty"]

\* Write() truncates the file, so that it reads as an empty database, or cannot: the old
\* records stay, and the operation goes on as if they were written.
TruncateMetadata(p) ==
    /\ held.by = p /\ held.stage = "dirty"
    /\ \/ /\ held' = [held EXCEPT !.stage = "truncated"]
          /\ onDisk' = Empty
          /\ UNCHANGED <<unmarked, winFaults>>
       \/ /\ winFaults < MaxWinFaults
          /\ winFaults' = winFaults + 1
          /\ held' = Free
          /\ unmarked' = unmarked \cup {u \in WinReports : /\ held.recs[u].state = "uploading"
                                                           /\ onDisk[u].state = "pending"}
          /\ UNCHANGED onDisk
    /\ UNCHANGED <<fileVars, objectVars, made, finished, given, accepted>>

\* It writes the truncated file.  A write that fails leaves it empty.
WriteMetadata(p) ==
    /\ held.by = p /\ held.stage = "truncated"
    /\ \/ onDisk' = held.recs /\ UNCHANGED winFaults
       \/ winFaults < MaxWinFaults /\ winFaults' = winFaults + 1 /\ UNCHANGED onDisk
    /\ held' = Free
    /\ UNCHANGED <<fileVars, objectVars, resultVars>>

\* p is killed.
KillUser(p) ==
    /\ winFaults < MaxWinFaults
    /\ winFaults' = winFaults + 1
    /\ held' = IF held.by = p THEN Free ELSE held
    /\ newReport' = [newReport EXCEPT ![p] = NoReport]
    /\ uploadReport' = [uploadReport EXCEPT ![p] = NoUpload]
    /\ UNCHANGED <<onDisk, fileVars, resultVars>>

----------------------------------------------------------------------------
(***************************************************************************)
(* The operations.                                                         *)
(***************************************************************************)

\* VerifyReport(): u has a record in one of the states, and its file.
Verified(u, states) == onDisk[u].state \in states /\ u \in dmp

\* Some process has the file of u open.
Opened(u) == \E p \in DatabaseUsers : newReport[p] = u \/ uploadReport[p].report = u

\* PrepareNewCrashReport(), and AddAttachment() or not.  The UUID is a new one.
PrepareNewCrashReport(p, u) ==
    /\ newReport[p] = NoReport /\ held.by # p
    /\ u \notin made
    /\ made' = made \cup {u}
    /\ newReport' = [newReport EXCEPT ![p] = u]
    /\ dmp' = dmp \cup {u}
    /\ attached' \in {attached, attached \cup {u}}
    /\ UNCHANGED <<onDisk, held, uploadReport, finished, given, accepted, unmarked, winFaults>>

\* ~NewReport(): the removers are destroyed before the writers, whose files are still open.
\* They take nothing away, and the files stay without a record.
DropNewReport(p) ==
    /\ newReport[p] # NoReport /\ held.by # p
    /\ newReport' = [newReport EXCEPT ![p] = NoReport]
    /\ UNCHANGED <<onDisk, held, fileVars, uploadReport, resultVars, winFaults>>

FinishedWritingCrashReport(p) ==
    LET u == newReport[p]
    IN /\ u # NoReport
       /\ AcquireMetadata(p)
       /\ Change(p, u, NewRecord)
       /\ newReport' = [newReport EXCEPT ![p] = NoReport]
       /\ finished' = finished \cup {u}
       /\ given' = IF u \in attached THEN given \cup {u} ELSE given
       /\ UNCHANGED <<onDisk, fileVars, uploadReport, made, accepted, unmarked, winFaults>>

\* Mutant: the record stays pending.
GetReportForUploadingMutant(p, u) ==
    /\ uploadReport[p] = NoUpload
    /\ AcquireMetadata(p)
    /\ Verified(u, {"pending"})
    /\ Change(p, u, onDisk[u])
    /\ uploadReport' = [uploadReport EXCEPT ![p] = [report |-> u, sent |-> FALSE,
                                                    requested |-> onDisk[u].requested]]
    /\ UNCHANGED <<onDisk, fileVars, newReport, resultVars, winFaults>>

\* The file of the report opens.
GetReportForUploading(p, u) ==
    /\ uploadReport[p] = NoUpload
    /\ AcquireMetadata(p)
    /\ Verified(u, {"pending"})
    /\ Change(p, u, [onDisk[u] EXCEPT !.state = "uploading"])
    /\ uploadReport' = [uploadReport EXCEPT ![p] = [report |-> u, sent |-> FALSE,
                                                    requested |-> onDisk[u].requested]]
    /\ UNCHANGED <<onDisk, fileVars, newReport, resultVars, winFaults>>

\* Or it does not: ~UploadReport() calls RecordUploadAttempt(), which waits for the lock
\* that its own thread has until GetReportForUploading() returns.
OpeningFails(p, u) ==
    /\ uploadReport[p] = NoUpload
    /\ AcquireMetadata(p)
    /\ Verified(u, {"pending"})
    /\ winFaults < MaxWinFaults
    /\ winFaults' = winFaults + 1
    /\ held' = [by |-> p, stage |-> "stuck",
                recs |-> [onDisk EXCEPT ![u].state = "uploading"]]
    /\ UNCHANGED <<onDisk, fileVars, objectVars, resultVars>>

\* The server takes the report, and the uploader learns of it.
SendReport(p) ==
    /\ uploadReport[p].report # NoReport /\ ~uploadReport[p].sent /\ held.by # p
    /\ uploadReport' = [uploadReport EXCEPT ![p].sent = TRUE]
    /\ accepted' = accepted \cup {uploadReport[p].report}
    /\ UNCHANGED <<onDisk, held, fileVars, newReport, made, finished, given, unmarked, winFaults>>

\* RecordUploadAttempt(), for RecordUploadComplete() or ~UploadReport().  The report may
\* have been deleted.
RecordUploadAttempt(p) ==
    LET u == uploadReport[p].report
    IN /\ u # NoReport
       /\ AcquireMetadata(p)
       /\ IF Verified(u, {"uploading"})
            THEN Change(p, u, IF uploadReport[p].sent
                                THEN [state |-> "completed", uploaded |-> TRUE,
                                      requested |-> FALSE]
                                ELSE [state |-> "pending", uploaded |-> FALSE,
                                      requested |-> uploadReport[p].requested])
            ELSE UNCHANGED held
       /\ uploadReport' = [uploadReport EXCEPT ![p] = NoUpload]
       /\ UNCHANGED <<onDisk, fileVars, newReport, resultVars, winFaults>>

SkipReportUpload(p, u) ==
    /\ AcquireMetadata(p)
    /\ Verified(u, {"pending"})
    /\ Change(p, u, [onDisk[u] EXCEPT !.state = "completed", !.requested = FALSE])
    /\ UNCHANGED <<onDisk, fileVars, objectVars, resultVars, winFaults>>

RequestUpload(p, u) ==
    /\ AcquireMetadata(p)
    /\ Verified(u, {"completed", "pending"})
    /\ Change(p, u, IF onDisk[u].uploaded THEN onDisk[u]
                    ELSE [onDisk[u] EXCEPT !.state = "pending", !.requested = TRUE])
    /\ UNCHANGED <<onDisk, fileVars, objectVars, resultVars, winFaults>>

\* A report in any state, and its files unless one is uploading them.
DeleteReportWin(p, u) ==
    /\ AcquireMetadata(p)
    /\ onDisk[u] # NoRecord
    /\ Change(p, u, NoRecord)
    /\ dmp' = IF Opened(u) THEN dmp ELSE dmp \ {u}
    /\ attached' = IF Opened(u) \/ u \notin dmp THEN attached ELSE attached \ {u}
    /\ finished' = finished \ {u}
    /\ given' = given \ {u}
    /\ UNCHANGED <<onDisk, objectVars, made, accepted, unmarked, winFaults>>

\* CleanOrphanedAttachments() removes the attachments of every report whose file it does
\* not see.  The name it looks for has no dot before the extension: it sees none.
CleanOrphanedAttachments(old) == {u \in old : Opened(u)}

\* CleanDatabase(): files that are old and have no record, records that have no file, and
\* attachments.  It writes what has changed.
CleanDatabase(p) ==
    /\ AcquireMetadata(p)
    /\ \E old \in SUBSET {u \in dmp : onDisk[u] = NoRecord /\ ~Opened(u)} :
         LET recs == [u \in WinReports |-> IF u \in dmp \ old THEN onDisk[u] ELSE NoRecord]
         IN /\ dmp' = dmp \ old
            /\ attached' = CleanOrphanedAttachments(attached \ old)
            /\ held' = IF recs = onDisk THEN held ELSE [by |-> p, recs |-> recs, stage |-> "dirty"]
    /\ UNCHANGED <<onDisk, objectVars, resultVars, winFaults>>

WinDatabaseNext ==
    \E p \in DatabaseUsers :
      \/ TruncateMetadata(p) \/ WriteMetadata(p) \/ KillUser(p)
      \/ DropNewReport(p) \/ FinishedWritingCrashReport(p)
      \/ SendReport(p) \/ RecordUploadAttempt(p) \/ CleanDatabase(p)
      \/ \E u \in WinReports :
           \/ PrepareNewCrashReport(p, u) \/ GetReportForUploading(p, u) \/ OpeningFails(p, u)
           \/ SkipReportUpload(p, u) \/ RequestUpload(p, u) \/ DeleteReportWin(p, u)

WinDatabaseSpec == WinDatabaseInit /\ [][WinDatabaseNext]_winDatabaseVars

----------------------------------------------------------------------------
(***************************************************************************)
(* Properties.                                                             *)
(***************************************************************************)

\* No two uploaders have a report at a time, and none has one that the server was known to
\* have taken: whoever is killed, and whichever write leaves the file empty or fails to
\* record what became of the report.  Excused is a report whose being handed out could not
\* be recorded because the file did not truncate, at GetReportForUploading(): it stays
\* pending, and is handed out again.
WinUploadedOnce ==
    \A p \in DatabaseUsers :
      LET u == uploadReport[p].report
      IN u # NoReport /\ u \notin unmarked =>
           /\ \A q \in DatabaseUsers \ {p} : uploadReport[q].report # u
           /\ ~uploadReport[p].sent => u \notin accepted

\* While nothing fails, a report that FinishedWritingCrashReport() returned for has its
\* record and its file until it is deleted, whatever the other users do.
WinReportsKept ==
    winFaults = 0 /\ held = Free => \A u \in finished : onDisk[u] # NoRecord /\ u \in dmp

\* "Cleans any attachments that have no associated report", and no others.
WinAttachmentsKept == winFaults = 0 /\ held = Free => given \subseteq attached
=============================================================================
