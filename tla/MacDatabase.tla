---------------------------- MODULE MacDatabase ----------------------------
(***************************************************************************)
(* The macOS and iOS crash report database,                                *)
(* client/crash_report_database_mac.mm: a report is a file in new/,        *)
(* pending/ or completed/, with its metadata in extended attributes.  Its  *)
(* lock is an open file descriptor, which goes with the file when it is    *)
(* renamed and with the process when it dies; calls that use a path fail   *)
(* once the file is elsewhere.  Any other call may fail too: the operation *)
(* then returns, and leaves what it has done so far, as if it was killed.  *)
(*                                                                         *)
(* On macOS an uploader keeps the lock.  On iOS it leaves a time in        *)
(* upload_start_time instead, which others respect for five minutes.       *)
(***************************************************************************)
EXTENDS Naturals, Sequences

CONSTANTS
    MacUsers,     \* the processes and threads that use the database
    MacReports,   \* the UUIDs of the reports that may be made
    NoMacUser,    \* no process
    NoMacReport,  \* no report
    MaxMacFaults  \* bound: users killed, calls that fail, and uploads given up after five
                  \* minutes

ASSUME MacAssumption ==
    NoMacUser \notin MacUsers /\ NoMacReport \notin MacReports /\ MaxMacFaults \in Nat

VARIABLES
    ios,       \* BUILDFLAG(IS_IOS)
    macDir,    \* macDir[u]: the directory of u, or that it is not yet or no longer there
    xattr,     \* xattr[u]: the attributes uploaded, upload_explicitly_requested, and whether
               \* there is an upload_start_time
    macLock,   \* macLock[u]: who has u locked
    macOp,     \* macOp[p]: what p does, to which report, how far it is, and the number of
               \* the directory it looks in
    macAtt,    \* the reports that have attachments
    macGiven,  \* those that were finished with attachments
    macServer, \* the reports that the server is known to have
    requests,  \* has RequestUpload() been called?
    unrecorded,\* the reports whose state does not say what became of an upload of them
    macFaults  \* how often a process was killed, a call failed or an upload was given up

macVars == <<ios, macDir, xattr, macLock, macOp, macAtt, macGiven, macServer, requests,
             unrecorded, macFaults>>

\* Mutant: completed/ is looked at first.
SearchedMutant(name) ==
    CASE name \in {"Upload", "Skip"} -> <<"pending">>
      [] name = "Request" -> <<"pending", "completed">>
      [] name \in {"LookUp", "Delete", "CleanAttachments"} -> <<"completed", "new", "pending">>

\* The directories that LocateCrashReport() looks in for an operation, in its order.
Searched(name) ==
    CASE name \in {"Upload", "Skip"} -> <<"pending">>
      [] name = "Request" -> <<"pending", "completed">>
      [] name \in {"LookUp", "Delete", "CleanAttachments"} -> <<"new", "pending", "completed">>

MacNames == {"LookUp", "Upload", "Skip", "Delete", "Request", "CleanAttachments"}
Idle == [name |-> "none", u |-> NoMacReport, pc |-> "idle", dir |-> 1]

MacTypeOK ==
    /\ macDir \in [MacReports -> {"unborn", "new", "pending", "completed", "gone"}]
    /\ xattr \in [MacReports -> [uploaded : BOOLEAN, requested : BOOLEAN, started : BOOLEAN]]
    /\ macLock \in [MacReports -> MacUsers \cup {NoMacUser}]
    /\ macAtt \subseteq MacReports /\ macGiven \subseteq MacReports
    /\ macServer \subseteq MacReports /\ unrecorded \subseteq MacReports
    /\ macFaults \in 0 .. MaxMacFaults
    /\ \A p \in MacUsers : macOp[p].dir \in 1 .. 3 /\ (macOp[p] = Idle \/ macOp[p].u \in MacReports)

MacInit ==
    /\ ios \in BOOLEAN
    /\ macDir = [u \in MacReports |-> "unborn"]
    /\ xattr = [u \in MacReports |-> [uploaded |-> FALSE, requested |-> FALSE, started |-> FALSE]]
    /\ macLock = [u \in MacReports |-> NoMacUser]
    /\ macOp = [p \in MacUsers |-> Idle]
    /\ macAtt = {} /\ macGiven = {} /\ macServer = {}
    /\ requests = FALSE /\ unrecorded = {} /\ macFaults = 0

----------------------------------------------------------------------------
(***************************************************************************)
(* Steps.                                                                  *)
(***************************************************************************)

ghostVars == <<ios, macServer, requests, unrecorded, macFaults>>

MacAt(p, pc) == macOp[p].pc = pc
Goto(p, pc) == macOp' = [macOp EXCEPT ![p].pc = pc]

\* The locks of p are closed.
Release(p) == macLock' = [u \in MacReports |-> IF macLock[u] = p THEN NoMacUser ELSE macLock[u]]

\* The operation returns.
Return(p) == macOp' = [macOp EXCEPT ![p] = Idle] /\ Release(p)

\* PrepareNewCrashReport(), and AddAttachment() or not.
PrepareMac(p, u) ==
    /\ macOp[p] = Idle
    /\ macDir[u] = "unborn"
    /\ macDir' = [macDir EXCEPT ![u] = "new"]
    /\ macAtt' \in {macAtt, macAtt \cup {u}}
    /\ macOp' = [macOp EXCEPT ![p] = [name |-> "Finish", u |-> u, pc |-> "write", dir |-> 1]]
    /\ UNCHANGED <<xattr, macLock, macGiven, ghostVars>>

\* FinishedWritingCrashReport() renames the report, without a lock, or ~NewReport()
\* removes it: the cleaning may have done so.
FinishMac(p) ==
    LET u == macOp[p].u
    IN /\ MacAt(p, "write")
       /\ \/ /\ macDir[u] = "new"
             /\ macDir' = [macDir EXCEPT ![u] = "pending"]
             /\ macGiven' = macGiven \cup ({u} \cap macAtt)
             /\ UNCHANGED macAtt
          \/ /\ macDir' = [macDir EXCEPT ![u] = "gone"]
             /\ macAtt' = macAtt \ {u}
             /\ UNCHANGED macGiven
       /\ Return(p)
       /\ UNCHANGED <<xattr, ghostVars>>

\* An operation is called.  The UUID is known once FinishedWritingCrashReport() has
\* returned it; the cleaning has it from the name of the directory of attachments.
BeginMac(p, name, u) ==
    /\ macOp[p] = Idle
    /\ IF name = "CleanAttachments" THEN u \in macAtt ELSE macDir[u] \notin {"unborn", "new"}
    /\ macOp' = [macOp EXCEPT ![p] = [name |-> name, u |-> u, pc |-> "locate", dir |-> 1]]
    /\ requests' = (requests \/ name = "Request")
    /\ UNCHANGED <<ios, macDir, xattr, macLock, macAtt, macGiven, macServer, unrecorded, macFaults>>

\* LocateCrashReport() looks in one directory.  CleanOrphanedAttachments() takes the
\* attachments away when it was the last one, too.
LocateCrashReport(p) ==
    LET u == macOp[p].u
        name == macOp[p].name
        found == macDir[u] = Searched(name)[macOp[p].dir]
        last == macOp[p].dir = Len(Searched(name))
    IN /\ MacAt(p, "locate")
       /\ IF ~found /\ ~last THEN macOp' = [macOp EXCEPT ![p].dir = @ + 1] /\ UNCHANGED macLock
          ELSE IF found /\ name # "CleanAttachments" THEN Goto(p, "lock") /\ UNCHANGED macLock
          ELSE Return(p)
       /\ macAtt' = IF last /\ ~found /\ name = "CleanAttachments" THEN macAtt \ {u} ELSE macAtt
       /\ UNCHANGED <<macDir, xattr, macGiven, ghostVars>>

\* Mutant: the lock is not exclusive.
LockableMutant(u) == TRUE

\* O_EXLOCK | O_NONBLOCK: nobody has it locked.
Lockable(u) == macLock[u] = NoMacUser

\* The file is still where it was found.
AtPath(p) == macDir[macOp[p].u] = Searched(macOp[p].name)[macOp[p].dir]

\* ObtainReportLock(): the file is no longer there, or is locked, or is ours.
ObtainReportLock(p) ==
    LET u == macOp[p].u
    IN /\ MacAt(p, "lock")
       /\ IF Lockable(u) /\ AtPath(p)
            THEN Goto(p, "locked") /\ macLock' = [macLock EXCEPT ![u] = p]
            ELSE Return(p)
       /\ UNCHANGED <<macDir, xattr, macAtt, macGiven, ghostVars>>

Locked(p, name) == MacAt(p, "locked") /\ macOp[p].name = name /\ AtPath(p)

\* The uploader of iOS, which has no lock, has moved it: the next call on the path fails.
PathGone(p) ==
    /\ MacAt(p, "locked") /\ ~AtPath(p)
    /\ Return(p)
    /\ UNCHANGED <<macDir, xattr, macAtt, macGiven, ghostVars>>

\* LookUpCrashReport(), and ReportsInDirectory() for every report.
ReadLocked(p) ==
    /\ Locked(p, "LookUp")
    /\ Return(p)
    /\ UNCHANGED <<macDir, xattr, macAtt, macGiven, ghostVars>>

\* DeleteReport(): the file, and then the attachments.
Unlink(p) ==
    /\ Locked(p, "Delete")
    /\ macDir' = [macDir EXCEPT ![macOp[p].u] = "gone"]
    /\ macGiven' = macGiven \ {macOp[p].u}
    /\ Goto(p, "attachments")
    /\ UNCHANGED <<xattr, macLock, macAtt, ghostVars>>

RemoveAttachments(p) ==
    /\ MacAt(p, "attachments")
    /\ macAtt' = macAtt \ {macOp[p].u}
    /\ Return(p)
    /\ UNCHANGED <<macDir, xattr, macGiven, ghostVars>>

\* SkipReportUpload(): MarkReportCompletedLocked() with its attribute removed first.
SkipMac(p) ==
    /\ Locked(p, "Skip")
    /\ xattr' = [xattr EXCEPT ![macOp[p].u].requested = FALSE,
                              ![macOp[p].u].started = IF ios THEN FALSE ELSE @]
    /\ Goto(p, "rename")
    /\ UNCHANGED <<macDir, macLock, macAtt, macGiven, ghostVars>>

\* RequestUpload() of a report that was not uploaded yet.
RequestMac(p) ==
    LET u == macOp[p].u
    IN /\ Locked(p, "Request")
       /\ IF xattr[u].uploaded THEN Return(p) /\ UNCHANGED xattr
          ELSE /\ xattr' = [xattr EXCEPT ![u].requested = TRUE]
               /\ Goto(p, "rename")
               /\ UNCHANGED macLock
       /\ UNCHANGED <<macDir, macAtt, macGiven, ghostVars>>

\* The rename of either, from the path that was located.
RenameMac(p) ==
    LET u == macOp[p].u
    IN /\ MacAt(p, "rename")
       /\ macDir' = [macDir EXCEPT ![u] =
                       IF ~AtPath(p) THEN @
                       ELSE IF macOp[p].name = "Skip" THEN "completed" ELSE "pending"]
       /\ Return(p)
       /\ UNCHANGED <<xattr, macAtt, macGiven, ghostVars>>

\* GetReportForUploading(): macOS keeps the lock.  iOS looks at upload_start_time, and
\* releases it; an upload that began five minutes ago is skipped.
StartUpload(p) ==
    LET u == macOp[p].u
    IN /\ Locked(p, "Upload")
       /\ \/ ~ios /\ Goto(p, "upload") /\ UNCHANGED <<xattr, macLock, macFaults>>
          \/ /\ ios /\ ~xattr[u].started
             /\ xattr' = [xattr EXCEPT ![u].started = TRUE]
             /\ Goto(p, "upload")
             /\ macLock' = [macLock EXCEPT ![u] = NoMacUser]
             /\ UNCHANGED macFaults
          \/ ios /\ xattr[u].started /\ Return(p) /\ UNCHANGED <<xattr, macFaults>>
          \/ /\ ios /\ xattr[u].started
             /\ macFaults < MaxMacFaults
             /\ macFaults' = macFaults + 1
             /\ macOp' = [macOp EXCEPT ![p].name = "Skip", ![p].pc = "locate"]
             /\ macLock' = [macLock EXCEPT ![u] = NoMacUser]
             /\ UNCHANGED xattr
       /\ UNCHANGED <<ios, macDir, macAtt, macGiven, macServer, requests, unrecorded>>

\* The server takes it, or not, or it cannot be read: lock_fd is closed before
\* ~UploadReport() records that.
SendMac(p) ==
    /\ MacAt(p, "upload")
    /\ \/ /\ Goto(p, "sent") /\ UNCHANGED macLock
          /\ macServer' = macServer \cup {macOp[p].u}
       \/ /\ Goto(p, IF ios THEN "unmark" ELSE "failed") /\ Release(p)
          /\ UNCHANGED macServer
    /\ UNCHANGED <<ios, macDir, xattr, macAtt, macGiven, requests, unrecorded, macFaults>>

\* RecordUploadAttempt(), one call after another, each on the path of a directory.
RecordStep(p, pc, dir, next, change) ==
    LET u == macOp[p].u
    IN /\ MacAt(p, pc)
       /\ IF macDir[u] # dir THEN Return(p) /\ UNCHANGED <<macDir, xattr>>
          ELSE /\ change
               /\ IF next = "done" THEN Return(p) ELSE Goto(p, next) /\ UNCHANGED macLock
       /\ UNCHANGED <<macAtt, macGiven, ghostVars>>

\* Of a failure: upload_start_time is removed, on iOS,
RemoveStartFailed(p) ==
    RecordStep(p, "unmark", "pending", "failed",
        xattr' = [xattr EXCEPT ![macOp[p].u].started = FALSE] /\ UNCHANGED macDir)

\* and uploaded is written.
RecordFailure(p) ==
    RecordStep(p, "failed", "pending", "done",
        xattr' = [xattr EXCEPT ![macOp[p].u].uploaded = FALSE] /\ UNCHANGED macDir)

\* Of a success: the request is removed,
RemoveRequest(p) ==
    RecordStep(p, "sent", "pending", "move",
        xattr' = [xattr EXCEPT ![macOp[p].u].requested = FALSE] /\ UNCHANGED macDir)

\* the report is completed,
MarkCompleted(p) ==
    RecordStep(p, "move", "pending", IF ios THEN "start" ELSE "flag",
        macDir' = [macDir EXCEPT ![macOp[p].u] = "completed"] /\ UNCHANGED xattr)

\* upload_start_time is removed,
RemoveStart(p) ==
    RecordStep(p, "start", "completed", "flag",
        xattr' = [xattr EXCEPT ![macOp[p].u].started = FALSE] /\ UNCHANGED macDir)

\* and uploaded is written.
WriteUploaded(p) ==
    RecordStep(p, "flag", "completed", "done",
        xattr' = [xattr EXCEPT ![macOp[p].u].uploaded = TRUE] /\ UNCHANGED macDir)

\* CleanDatabase(): a report in new/ is removed once it is old.
CleanNewMac(u) ==
    /\ macDir[u] = "new"
    /\ macDir' = [macDir EXCEPT ![u] = "gone"]
    /\ UNCHANGED <<xattr, macLock, macOp, macAtt, macGiven, ghostVars>>

\* If p stops here, nothing says that the server has its report; or, on iOS, that somebody
\* may be uploading it.
LosesRecord(p) ==
    \/ ~ios /\ macOp[p].pc \in {"sent", "move", "flag"}
    \/ ios /\ macOp[p].name = "Skip" /\ macOp[p].pc = "rename"

\* A process is killed, or a call of it fails and the operation returns.
Interrupt(p) ==
    /\ macOp[p] # Idle
    /\ macFaults < MaxMacFaults
    /\ macFaults' = macFaults + 1
    /\ Return(p)
    /\ unrecorded' = unrecorded \cup {u \in MacReports : macOp[p].u = u /\ LosesRecord(p)}
    /\ UNCHANGED <<ios, macDir, xattr, macAtt, macGiven, macServer, requests>>

MacNext ==
    \/ \E p \in MacUsers :
         \/ FinishMac(p) \/ LocateCrashReport(p) \/ ObtainReportLock(p) \/ PathGone(p) \/ ReadLocked(p)
         \/ Unlink(p) \/ RemoveAttachments(p) \/ SkipMac(p) \/ RequestMac(p) \/ RenameMac(p)
         \/ StartUpload(p) \/ SendMac(p) \/ RemoveStartFailed(p) \/ RecordFailure(p)
         \/ RemoveRequest(p) \/ MarkCompleted(p) \/ RemoveStart(p) \/ WriteUploaded(p)
         \/ Interrupt(p)
         \/ \E u \in MacReports :
              PrepareMac(p, u) \/ \E name \in MacNames : BeginMac(p, name, u)
    \/ \E u \in MacReports : CleanNewMac(u)

MacSpec == MacInit /\ [][MacNext]_macVars

----------------------------------------------------------------------------
(***************************************************************************)
(* Properties.                                                             *)
(***************************************************************************)

\* Nobody sends a report that the server was known to have, and no two send one at a time,
\* whoever is killed, whatever call fails and however long an upload takes.  Excused are: on
\* macOS a report whose success RecordUploadAttempt() could not record, on iOS one that was
\* skipped by halves; and on iOS, where the record of a success has no lock, all of it once
\* RequestUpload() is called.
MacUploadedOnce ==
    (ios => ~requests) =>
      \A p \in MacUsers : MacAt(p, "upload") /\ macOp[p].u \notin unrecorded =>
        /\ macOp[p].u \notin macServer
        /\ \A q \in MacUsers \ {p} : ~(MacAt(q, "upload") /\ macOp[q].u = macOp[p].u)

\* A report keeps its attachments until it is deleted, though the cleaning looks for it
\* while it moves, whoever is killed: the directories are looked at in the order it
\* moves through them.  RequestUpload() moves it back.
MacAttachmentsKept == ~requests => macGiven \subseteq macAtt
=============================================================================
