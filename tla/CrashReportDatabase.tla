------------------------ MODULE CrashReportDatabase ------------------------
(***************************************************************************)
(* The generic (Linux, Android, Fuchsia) crash report database:            *)
(* client/crash_report_database_generic.cc and the shared part in          *)
(* client/crash_report_database.cc.                                        *)
(*                                                                         *)
(* The database is a directory tree.  A report is <uuid>.dmp, first in     *)
(* new/, then in pending/, then in completed/; <uuid>.meta beside it holds *)
(* its metadata and <uuid>.lock, created with O_EXCL and removed by a      *)
(* destructor, is its lock.  attachments/<uuid>/ holds its attachments.    *)
(* Any number of processes use the tree at once, with no lock but the lock *)
(* files, and any of them may die between two file system calls.           *)
(*                                                                         *)
(* A process runs one operation at a time.  An operation is the sequence   *)
(* of file system calls its function makes (Script); each call is one      *)
(* step.  The path taken by a failing call is an operation of its own      *)
(* (Purge, Drop, Orphan, Failure, Return).                                 *)
(***************************************************************************)
EXTENDS Naturals, Sequences

CONSTANTS
    Procs,        \* the processes (and threads) that have the database open
    Reports,      \* the UUIDs of the crash reports that may be made
    Cleaners,     \* the processes that call CleanDatabase()
    Ops,          \* the operations the processes call
    StallPossible,\* may a live process outlast the lock file's time to live?
    MaxCrashes,   \* bound: how many processes die
    MaxFaults,    \* bound: how many file system calls fail
    NoOwner,      \* the owner of a lock file that does not exist
    Crashed       \* the owner of a lock file whose creator died

ASSUME ProcsAssumption ==
    /\ Reports # {}
    /\ Cleaners \subseteq Procs
    /\ NoOwner \notin Procs
    /\ Crashed \notin Procs
    /\ NoOwner # Crashed
    /\ StallPossible \in BOOLEAN
    /\ MaxCrashes \in Nat
    /\ MaxFaults \in Nat

VARIABLES
    loc,     \* loc[u]: the directory that holds <u>.dmp
    att,     \* att[u]: attachments/<u>/ is absent, an empty directory, or full
    meta,    \* meta[d][u]: the contents of <d>/<u>.meta
    lock,    \* lock[d][u]: the lock file <d>/<u>.lock and who created it
    sent,    \* sent[u]: how often the collection server accepted u (0, 1, many)
    op,      \* op[p]: the operation p is executing
    at,      \* at[p]: the position in Script[op[p]] of its next call
    cur,     \* cur[p]: the report it works on
    dir,     \* dir[p]: the directory it looks for the report in
    rep,     \* rep[p]: the metadata it read (CrashReportDatabase::Report)
    own,     \* own[p]: the directories whose lock files it will remove
    crashes, \* how many processes died
    faults   \* how many calls failed

fsVars == <<loc, att, meta, lock>>
procVars == <<op, at, cur, dir, rep, own>>
vars == <<loc, att, meta, lock, sent, op, at, cur, dir, rep, own, crashes, faults>>

----------------------------------------------------------------------------
(***************************************************************************)
(* The file system.                                                        *)
(***************************************************************************)

\* The searchable report states, each a directory.
Dirs == {"pending", "completed"}

\* "unborn": no report was made under the UUID; "dropped": it was removed before
\* it was finished; "gone": it was removed later, when its UUID was known.
Places == {"unborn", "new", "dropped", "gone"} \cup Dirs

\* ReportMetadata: absent, created or truncated but not yet written, or whole.
Metadata == [st : {"none", "torn", "valid"}, uploaded : BOOLEAN, requested : BOOLEAN]

NoMeta == [st |-> "none", uploaded |-> FALSE, requested |-> FALSE]
TornMeta == [st |-> "torn", uploaded |-> FALSE, requested |-> FALSE]
ValidMeta(uploaded, requested) ==
    [st |-> "valid", uploaded |-> uploaded, requested |-> requested]

\* A lock file; stamped once its creation time was written into it.
LockFile == [owner : Procs \cup {NoOwner, Crashed}, stamped : BOOLEAN]
NoLock == [owner |-> NoOwner, stamped |-> FALSE]

----------------------------------------------------------------------------
(***************************************************************************)
(* The operations, as the file system calls they make, in order.           *)
(***************************************************************************)

Script == [
    Idle     |-> <<"none">>,
    Writing  |-> <<"none">>,
    \* FinishedWritingCrashReport()
    Finish   |-> <<"lock", "stamp", "create", "write", "move">>,
    \* LookUpCrashReport()
    LookUp   |-> <<"lock", "stamp", "check", "read">>,
    \* ReportsInState(), for one of the reports the directory lists
    Visit    |-> <<"lock", "stamp", "read">>,
    \* GetReportForUploading(), and the upload itself
    Upload   |-> <<"lock", "stamp", "check", "read", "open", "send">>,
    \* RecordUploadAttempt(successful = true)
    Success  |-> <<"lock2", "stamp2", "move", "rmMeta", "truncate", "write">>,
    \* ~LockfileUploadReport() removes the lock file, then ~UploadReport()
    \* calls RecordUploadAttempt(successful = false)
    Failure  |-> <<"unlock", "truncate", "write">>,
    \* SkipReportUpload()
    Skip     |-> <<"lock", "stamp", "check", "read", "lock2", "stamp2",
                   "truncate", "write", "move", "rmMeta">>,
    \* DeleteReport()
    Delete   |-> <<"lock", "stamp", "check", "rmReport", "rmMeta", "rmAttachments">>,
    \* RequestUpload()
    Request  |-> <<"lock", "stamp", "check", "read", "move", "truncate",
                   "write", "rmMeta">>,
    \* CleanReportsInState(), for a file it lists: a report, metadata, a lock
    CleanReport |-> <<"lock", "stamp", "noMeta", "rmReport", "rmAttachments">>,
    CleanMeta   |-> <<"lock", "stamp", "noReport", "rmMeta", "rmAttachments">>,
    CleanLock   |-> <<"rmReport", "rmMeta", "rmLock", "rmAttachments">>,
    \* CleanOrphanedAttachments(), for a directory it lists
    CleanAttachments |-> <<"lock", "stamp", "check">>,
    Orphan   |-> <<"rmAttachments">>,
    \* CleaningReadMetadata() when the metadata cannot be read
    Purge    |-> <<"rmReport", "rmMeta">>,
    \* FinishedWritingCrashReport() failed: ~ScopedLockFile(), ~NewReport()
    Drop     |-> <<"unlock", "rmNew">>,
    \* the function returns: its ScopedLockFile objects are destroyed
    Return   |-> <<"unlock">> ]

\* Mutant: orphaned attachments are decided by looking at pending/ only.
SearchingMutant == {"LookUp", "Delete", "Request"}

\* The operations that look for a report in pending/ and then in completed/.
Searching == {"LookUp", "Delete", "Request", "CleanAttachments"}

\* The part of CleanDatabase() a cleaner executes; anyone may execute the rest.
Cleaning == {"CleanReport", "CleanMeta", "CleanLock", "CleanAttachments"}

\* What a client calls with the UUID of a report it knows of.
ByUUID == {"LookUp", "Upload", "Skip", "Delete", "Request"}

TypeOK ==
    /\ loc \in [Reports -> Places]
    /\ att \in [Reports -> {"none", "empty", "files"}]
    /\ meta \in [Dirs -> [Reports -> Metadata]]
    /\ lock \in [Dirs -> [Reports -> LockFile]]
    /\ sent \in [Reports -> 0..2]
    /\ op \in [Procs -> DOMAIN Script]
    /\ at \in [Procs -> 1..10]
    /\ cur \in [Procs -> Reports]
    /\ dir \in [Procs -> Dirs]
    /\ rep \in [Procs -> Metadata]
    /\ own \in [Procs -> SUBSET Dirs]
    /\ crashes \in 0..MaxCrashes
    /\ faults \in 0..MaxFaults

Init ==
    /\ loc = [u \in Reports |-> "unborn"]
    /\ att = [u \in Reports |-> "none"]
    /\ meta = [d \in Dirs |-> [u \in Reports |-> NoMeta]]
    /\ lock = [d \in Dirs |-> [u \in Reports |-> NoLock]]
    /\ sent = [u \in Reports |-> 0]
    /\ op = [p \in Procs |-> "Idle"]
    /\ at = [p \in Procs |-> 1]
    /\ cur \in [Procs -> {CHOOSE u \in Reports : TRUE}]
    /\ dir = [p \in Procs |-> "pending"]
    /\ rep = [p \in Procs |-> NoMeta]
    /\ own = [p \in Procs |-> {}]
    /\ crashes = 0
    /\ faults = 0

----------------------------------------------------------------------------
(***************************************************************************)
(* Control flow inside an operation.                                       *)
(***************************************************************************)

\* p's next call is s.
At(p, s) == Script[op[p]][at[p]] = s

\* Continue with operation o.
Goto(p, o) ==
    /\ op' = [op EXCEPT ![p] = o]
    /\ at' = [at EXCEPT ![p] = 1]

\* The call succeeded: go on to the next one, or return.
Advance(p) ==
    IF at[p] < Len(Script[op[p]])
      THEN /\ at' = [at EXCEPT ![p] = @ + 1]
           /\ UNCHANGED op
      ELSE Goto(p, "Return")

\* The call failed: return early, dropping the NewReport if there is one.
Abort(p) == Goto(p, IF op[p] = "Finish" THEN "Drop" ELSE "Return")

----------------------------------------------------------------------------
(***************************************************************************)
(* Starting an operation.                                                  *)
(***************************************************************************)

\* PrepareNewCrashReport(): NewReport::Initialize() makes a fresh UUID and
\* creates new/<uuid>.dmp.
PrepareNewCrashReport(p, u) ==
    /\ op[p] = "Idle"
    /\ loc[u] = "unborn"
    /\ loc' = [loc EXCEPT ![u] = "new"]
    /\ cur' = [cur EXCEPT ![p] = u]
    /\ Goto(p, "Writing")
    /\ UNCHANGED <<att, meta, lock, sent, dir, rep, own, crashes, faults>>

\* NewReport::AddAttachment().
AddAttachment(p) ==
    /\ op[p] = "Writing"
    /\ att' = [att EXCEPT ![cur[p]] = "files"]
    /\ UNCHANGED <<loc, meta, lock, sent, procVars, crashes, faults>>

\* The writer hands its NewReport to FinishedWritingCrashReport(), or gives up
\* and destroys it.
CloseNewReport(p, o) ==
    /\ op[p] = "Writing"
    /\ o \in {"Finish", "Drop"} \cap Ops
    /\ dir' = [dir EXCEPT ![p] = "pending"]
    /\ Goto(p, o)
    /\ UNCHANGED <<fsVars, sent, cur, rep, own, crashes, faults>>

\* ScopedLockFile::IsExpired().  The time to live is days, so a lock file that
\* is old enough was left by a process that died, or by one that was suspended.
Expired(d, u) ==
    /\ lock[d][u].stamped
    /\ lock[d][u].owner = Crashed \/ (StallPossible /\ lock[d][u].owner # NoOwner)

\* What the caller of operation o, or the directory listing it works on, has
\* seen of u in directory d when it starts.
MayBegin(o, u, d) ==
    \/ o \in ByUUID /\ d = "pending" /\ loc[u] \in Dirs \cup {"gone"}
    \/ o \in {"Visit", "CleanReport"} /\ loc[u] = d
    \/ o = "CleanMeta" /\ meta[d][u].st # "none"
    \/ o = "CleanLock" /\ Expired(d, u)
    \/ o = "CleanAttachments" /\ d = "pending" /\ att[u] # "none" /\ loc[u] # "new"

\* p calls o for report u, or comes to u in its scan of directory d.
Begin(p, o, u, d) ==
    /\ op[p] = "Idle"
    /\ o \in Cleaning => p \in Cleaners
    /\ MayBegin(o, u, d)
    /\ cur' = [cur EXCEPT ![p] = u]
    /\ dir' = [dir EXCEPT ![p] = d]
    /\ Goto(p, o)
    /\ UNCHANGED <<fsVars, sent, rep, own, crashes, faults>>

\* CleanDatabase() removes a report left in new/ by a writer that died.
CleanNew(p, u) ==
    /\ "CleanNew" \in Ops
    /\ p \in Cleaners
    /\ op[p] = "Idle"
    /\ loc[u] = "new"
    /\ StallPossible \/ \A q \in Procs : cur[q] = u => op[q] \notin {"Writing", "Finish", "Drop"}
    /\ loc' = [loc EXCEPT ![u] = "dropped"]
    /\ UNCHANGED <<att, meta, lock, sent, procVars, crashes, faults>>

----------------------------------------------------------------------------
(***************************************************************************)
(* The calls.                                                              *)
(***************************************************************************)

\* The directory whose lock file ResetAcquire() is creating.
LockDir(p) == IF At(p, "lock") \/ At(p, "stamp") THEN dir[p] ELSE "completed"

\* Mutant: kTruncateOrCreate in the place of kCreateOrFail.
ResetAcquireMutant(p) ==
    /\ At(p, "lock") \/ At(p, "lock2")
    /\ lock' = [lock EXCEPT ![LockDir(p)][cur[p]] = [owner |-> p, stamped |-> FALSE]]
    /\ own' = [own EXCEPT ![p] = @ \cup {LockDir(p)}]
    /\ Advance(p)
    /\ UNCHANGED <<loc, att, meta, sent, cur, dir, rep, crashes, faults>>

\* Mutant: what ResetAcquire() returns is ignored.
UncheckedAcquireMutant(p) ==
    /\ At(p, "lock") \/ At(p, "lock2")
    /\ LET d == LockDir(p)
       IN  IF lock[d][cur[p]].owner = NoOwner
             THEN /\ lock' = [lock EXCEPT ![d][cur[p]] = [owner |-> p, stamped |-> FALSE]]
                  /\ own' = [own EXCEPT ![p] = @ \cup {d}]
             ELSE UNCHANGED <<lock, own>>
    /\ Advance(p)
    /\ UNCHANGED <<loc, att, meta, sent, cur, dir, rep, crashes, faults>>

\* ScopedLockFile::ResetAcquire(), the O_EXCL open: busy if the file exists.
ResetAcquire(p) ==
    /\ At(p, "lock") \/ At(p, "lock2")
    /\ LET d == LockDir(p)
           u == cur[p]
       IN  IF lock[d][u].owner = NoOwner
             THEN /\ lock' = [lock EXCEPT ![d][u] = [owner |-> p, stamped |-> FALSE]]
                  /\ own' = [own EXCEPT ![p] = @ \cup {d}]
                  /\ Advance(p)
             ELSE /\ Abort(p)
                  /\ UNCHANGED <<lock, own>>
    /\ UNCHANGED <<loc, att, meta, sent, cur, dir, rep, crashes, faults>>

\* ScopedLockFile::ResetAcquire(), the write of the current time.
StampLock(p) ==
    /\ At(p, "stamp") \/ At(p, "stamp2")
    /\ lock' = [lock EXCEPT ![LockDir(p)][cur[p]] =
                    IF @.owner = p THEN [owner |-> p, stamped |-> TRUE] ELSE @]
    /\ Advance(p)
    /\ UNCHANGED <<loc, att, meta, sent, cur, dir, rep, own, crashes, faults>>

\* LocateAndLockReport(), once it has the lock: is the report here?  If not,
\* the lock is dropped before the next directory is tried.
LocateReport(p) ==
    /\ At(p, "check")
    /\ IF loc[cur[p]] = dir[p]
         THEN /\ IF op[p] = "CleanAttachments" THEN Goto(p, "Return") ELSE Advance(p)
              /\ UNCHANGED <<lock, own, dir>>
         ELSE /\ lock' = [lock EXCEPT ![dir[p]][cur[p]] = NoLock]
              /\ own' = [own EXCEPT ![p] = @ \ {dir[p]}]
              /\ IF op[p] \in Searching /\ dir[p] = "pending"
                   THEN /\ dir' = [dir EXCEPT ![p] = "completed"]
                        /\ Goto(p, op[p])
                   ELSE /\ Goto(p, IF op[p] = "CleanAttachments" THEN "Orphan" ELSE "Return")
                        /\ UNCHANGED dir
    /\ UNCHANGED <<loc, att, meta, sent, cur, rep, crashes, faults>>

\* Mutant: an uploaded report may be requested again.
CleaningReadMetadataMutant(p) ==
    /\ At(p, "read")
    /\ rep' = [rep EXCEPT ![p] = meta[dir[p]][cur[p]]]
    /\ IF meta[dir[p]][cur[p]].st = "valid" THEN Advance(p) ELSE Goto(p, "Purge")
    /\ UNCHANGED <<fsVars, sent, cur, dir, own, crashes, faults>>

\* CleaningReadMetadata(), and RequestUpload()'s refusal of an uploaded report.
CleaningReadMetadata(p) ==
    /\ At(p, "read")
    /\ LET m == meta[dir[p]][cur[p]]
       IN  IF m.st = "valid"
             THEN /\ rep' = [rep EXCEPT ![p] = m]
                  /\ IF op[p] = "Request" /\ m.uploaded
                       THEN Goto(p, "Return")
                       ELSE Advance(p)
             ELSE /\ Goto(p, "Purge")
                  /\ UNCHANGED rep
    /\ UNCHANGED <<fsVars, sent, cur, dir, own, crashes, faults>>

\* UploadReport::Initialize() opens the report for reading.
OpenReport(p) ==
    /\ At(p, "open")
    /\ IF loc[cur[p]] = dir[p] THEN Advance(p) ELSE Goto(p, "Failure")
    /\ UNCHANGED <<fsVars, sent, cur, dir, rep, own, crashes, faults>>

\* The caller uploads the report and calls RecordUploadComplete(), or destroys
\* the UploadReport.
SendReport(p, o) ==
    /\ At(p, "send")
    /\ o \in {"Success", "Failure"} \cap Ops
    /\ sent' = IF o = "Success" /\ sent[cur[p]] < 2
                 THEN [sent EXCEPT ![cur[p]] = @ + 1]
                 ELSE sent
    /\ Goto(p, o)
    /\ UNCHANGED <<fsVars, cur, dir, rep, own, crashes, faults>>

\* The directory whose metadata file an operation writes.
WriteDir(p) == IF op[p] \in {"Success", "Skip"} THEN "completed" ELSE "pending"

\* WriteNewMetadata()'s kCreateOrFail open and WriteMetadata()'s
\* kTruncateOrCreate open.
OpenMetadata(p) ==
    /\ At(p, "create") \/ At(p, "truncate")
    /\ IF At(p, "create") /\ meta[WriteDir(p)][cur[p]].st # "none"
         THEN /\ Abort(p)
              /\ UNCHANGED meta
         ELSE /\ meta' = [meta EXCEPT ![WriteDir(p)][cur[p]] = TornMeta]
              /\ Advance(p)
    /\ UNCHANGED <<loc, att, lock, sent, cur, dir, rep, own, crashes, faults>>

\* Mutant: SkipReportUpload() does not clear upload_explicitly_requested.
NewContentsMutant(p) ==
    CASE op[p] = "Success" -> ValidMeta(TRUE, FALSE)
      [] op[p] \in {"Failure", "Skip"} -> ValidMeta(rep[p].uploaded, rep[p].requested)
      [] op[p] = "Request" -> ValidMeta(rep[p].uploaded, TRUE)
      [] OTHER             -> ValidMeta(FALSE, FALSE)

\* The metadata an operation writes.
NewContents(p) ==
    CASE op[p] = "Success" -> ValidMeta(TRUE, FALSE)
      [] op[p] = "Failure" -> ValidMeta(FALSE, rep[p].requested)
      [] op[p] = "Skip"    -> ValidMeta(rep[p].uploaded, FALSE)
      [] op[p] = "Request" -> ValidMeta(rep[p].uploaded, TRUE)
      [] OTHER             -> ValidMeta(FALSE, FALSE)

\* WriteNewMetadata() and WriteMetadata(), the write.  The file may have been
\* unlinked since it was opened: the write then goes to no path.
WriteMetadata(p) ==
    /\ At(p, "write")
    /\ meta' = IF meta[WriteDir(p)][cur[p]].st = "none"
                 THEN meta
                 ELSE [meta EXCEPT ![WriteDir(p)][cur[p]] = NewContents(p)]
    /\ Advance(p)
    /\ UNCHANGED <<loc, att, lock, sent, cur, dir, rep, own, crashes, faults>>

\* MoveFileOrDirectory(): where the report comes from, and where it goes.
Source(p) == IF op[p] = "Finish" THEN "new" ELSE dir[p]
Target(p) == IF op[p] \in {"Finish", "Request"} THEN "pending" ELSE "completed"

MoveReport(p) ==
    /\ At(p, "move")
    /\ IF loc[cur[p]] = Source(p)
         THEN /\ loc' = [loc EXCEPT ![cur[p]] = Target(p)]
              /\ Advance(p)
         ELSE /\ Abort(p)
              /\ UNCHANGED loc
    /\ UNCHANGED <<att, meta, lock, sent, cur, dir, rep, own, crashes, faults>>

\* Mutant: an expired lock is removed only together with a report.
TolerantMutant == {"Purge", "Success"}

\* The operations that do not mind if there is nothing to remove.
Tolerant == {"Purge", "CleanLock", "Success"}

\* LoggingRemoveFile() of the report.
RemoveReport(p) ==
    /\ At(p, "rmReport")
    /\ IF loc[cur[p]] = dir[p]
         THEN loc' = [loc EXCEPT ![cur[p]] = "gone"] /\ Advance(p)
         ELSE /\ UNCHANGED loc
              /\ IF op[p] \in Tolerant THEN Advance(p) ELSE Abort(p)
    /\ UNCHANGED <<att, meta, lock, sent, cur, dir, rep, own, crashes, faults>>

\* Mutant: SkipReportUpload() leaves the pending metadata behind.
RemoveMetadataMutant(p) ==
    /\ At(p, "rmMeta")
    /\ meta' = IF op[p] = "Skip" \/ (op[p] = "Request" /\ dir[p] = "pending")
                 THEN meta
                 ELSE [meta EXCEPT ![dir[p]][cur[p]] = NoMeta]
    /\ Advance(p)
    /\ UNCHANGED <<loc, att, lock, sent, cur, dir, rep, own, crashes, faults>>

\* LoggingRemoveFile() of the metadata.  RequestUpload() of a report that was
\* pending already keeps the file it has just written.
RemoveMetadata(p) ==
    /\ At(p, "rmMeta")
    /\ IF op[p] = "Request" /\ dir[p] = "pending"
         THEN Advance(p) /\ UNCHANGED meta
         ELSE IF meta[dir[p]][cur[p]].st # "none"
           THEN /\ meta' = [meta EXCEPT ![dir[p]][cur[p]] = NoMeta]
                /\ Advance(p)
           ELSE /\ UNCHANGED meta
                /\ IF op[p] \in Tolerant THEN Advance(p) ELSE Abort(p)
    /\ UNCHANGED <<loc, att, lock, sent, cur, dir, rep, own, crashes, faults>>

\* Mutant: a report is taken for one without metadata while it has some.
CheckLoneMutant(p) ==
    /\ At(p, "noMeta") \/ At(p, "noReport")
    /\ IF At(p, "noReport") => loc[cur[p]] # dir[p] THEN Advance(p) ELSE Goto(p, "Return")
    /\ UNCHANGED <<fsVars, sent, cur, dir, rep, own, crashes, faults>>

\* CleanReportsInState(): go on only if the other file is missing.
CheckLone(p) ==
    /\ At(p, "noMeta") \/ At(p, "noReport")
    /\ IF (At(p, "noMeta") => meta[dir[p]][cur[p]].st = "none")
          /\ (At(p, "noReport") => loc[cur[p]] # dir[p])
         THEN Advance(p)
         ELSE Goto(p, "Return")
    /\ UNCHANGED <<fsVars, sent, cur, dir, rep, own, crashes, faults>>

\* RemoveAttachmentsByUUID().
RemoveAttachmentsByUUID(p) ==
    /\ At(p, "rmAttachments")
    /\ att' = [att EXCEPT ![cur[p]] = "none"]
    /\ Advance(p)
    /\ UNCHANGED <<loc, meta, lock, sent, cur, dir, rep, own, crashes, faults>>

\* CleanReportsInState() removes the lock file it found expired.
RemoveExpiredLock(p) ==
    /\ At(p, "rmLock")
    /\ IF lock[dir[p]][cur[p]].owner # NoOwner THEN Advance(p) ELSE Abort(p)
    /\ lock' = [lock EXCEPT ![dir[p]][cur[p]] = NoLock]
    /\ UNCHANGED <<loc, att, meta, sent, cur, dir, rep, own, crashes, faults>>

\* ~NewReport(): the removers of the report and of its attachments' files.
RemoveNewReport(p) ==
    /\ At(p, "rmNew")
    /\ loc' = [loc EXCEPT ![cur[p]] = IF @ = "new" THEN "dropped" ELSE @]
    /\ att' = [att EXCEPT ![cur[p]] = IF @ = "files" THEN "empty" ELSE @]
    /\ Advance(p)
    /\ UNCHANGED <<meta, lock, sent, cur, dir, rep, own, crashes, faults>>

\* ~ScopedLockFile(): remove the lock file at the path, the last acquired first.
ReleaseLock(p) ==
    /\ At(p, "unlock")
    /\ own[p] # {}
    /\ LET d == IF "completed" \in own[p] THEN "completed" ELSE "pending"
       IN  /\ lock' = [lock EXCEPT ![d][cur[p]] = NoLock]
           /\ own' = [own EXCEPT ![p] = @ \ {d}]
    /\ UNCHANGED <<loc, att, meta, sent, op, at, cur, dir, rep, crashes, faults>>

\* All locks are released: the operation ends, or goes on without them.
Unlocked(p) ==
    /\ At(p, "unlock")
    /\ own[p] = {}
    /\ IF op[p] = "Return"
         THEN /\ Goto(p, "Idle")
              /\ rep' = [rep EXCEPT ![p] = NoMeta]
              /\ dir' = [dir EXCEPT ![p] = "pending"]
         ELSE /\ Advance(p)
              /\ UNCHANGED <<rep, dir>>
    /\ UNCHANGED <<fsVars, sent, cur, own, crashes, faults>>

----------------------------------------------------------------------------
(***************************************************************************)
(* Failures.                                                               *)
(***************************************************************************)

\* The calls that can fail, and change nothing then.  A write that fails
\* leaves the file empty.
Fallible == {"lock", "stamp", "lock2", "stamp2", "create", "truncate", "write", "read",
             "open", "move", "rmReport", "rmMeta", "rmLock"}

\* A file system call fails.
FailCall(p) ==
    /\ faults < MaxFaults
    /\ faults' = faults + 1
    /\ \E s \in Fallible :
         /\ At(p, s)
         /\ CASE s = "read" -> Goto(p, "Purge")
              [] s = "open" -> Goto(p, "Failure")
              [] s \in {"rmReport", "rmMeta"} /\ op[p] \in {"Purge", "Success"} -> Advance(p)
              [] OTHER -> Abort(p)
    /\ UNCHANGED <<fsVars, sent, cur, dir, rep, own, crashes>>

\* p's process dies.  Its lock files stay.
Crash(p) ==
    /\ crashes < MaxCrashes
    /\ op[p] # "Idle"
    /\ crashes' = crashes + 1
    /\ lock' = [d \in Dirs |-> [u \in Reports |->
                  IF lock[d][u].owner = p
                    THEN [lock[d][u] EXCEPT !.owner = Crashed]
                    ELSE lock[d][u]]]
    /\ own' = [own EXCEPT ![p] = {}]
    /\ rep' = [rep EXCEPT ![p] = NoMeta]
    /\ dir' = [dir EXCEPT ![p] = "pending"]
    /\ Goto(p, "Idle")
    /\ UNCHANGED <<loc, att, meta, sent, cur, faults>>

----------------------------------------------------------------------------
\* p starts something.
Start(p) ==
    \/ \E u \in Reports : PrepareNewCrashReport(p, u) \/ CleanNew(p, u)
    \/ \E o \in Ops \cap (ByUUID \cup Cleaning \cup {"Visit"}), u \in Reports, d \in Dirs :
         Begin(p, o, u, d)

\* p's operation makes its next call, and the call does what it is for.
Call(p) ==
    \/ ResetAcquire(p) \/ StampLock(p) \/ LocateReport(p) \/ CleaningReadMetadata(p)
    \/ OpenReport(p) \/ OpenMetadata(p) \/ WriteMetadata(p) \/ MoveReport(p)
    \/ RemoveReport(p) \/ RemoveMetadata(p) \/ CheckLone(p)
    \/ RemoveAttachmentsByUUID(p) \/ RemoveExpiredLock(p) \/ RemoveNewReport(p)
    \/ ReleaseLock(p) \/ Unlocked(p)
    \/ \E o \in {"Success", "Failure"} : SendReport(p, o)

\* p, between PrepareNewCrashReport() and FinishedWritingCrashReport().
Write(p) ==
    \/ AddAttachment(p)
    \/ \E o \in {"Finish", "Drop"} : CloseNewReport(p, o)

Next == \E p \in Procs : Start(p) \/ Call(p) \/ Write(p) \/ FailCall(p) \/ Crash(p)

Spec == Init /\ [][Next]_vars

----------------------------------------------------------------------------
(***************************************************************************)
(* Properties.                                                             *)
(***************************************************************************)

\* The lock protects: a process that will remove a lock file is the one that
\* created it, so no two processes are ever between ResetAcquire() and
\* ~ScopedLockFile() for the same report in the same directory.
LockHeldByOwner ==
    \A p \in Procs : \A d \in own[p] : lock[d][cur[p]].owner = p

\* "upload_explicitly_requested ... can be true only if report is in the
\* 'pending' state" and an uploaded report is never in pending/ again: the flag
\* pairs that SkipReportUpload(), RequestUpload() and RecordUploadAttempt()
\* write, with metadata that was read earlier, under another lock or none.
FlagsMatchState ==
    \A u \in Reports :
      /\ ~meta["completed"][u].requested
      /\ ~meta["pending"][u].uploaded

\* p is the process that made the step.
Acts(p) == <<op[p], at[p], own[p]>>' # <<op[p], at[p], own[p]>>

\* "A lock held while using database resources": a process changes what
\* pending/ or completed/ holds of a report only while it has the lock of the
\* report in that directory, or while it breaks an expired lock.
LockedChanges ==
    [][\A p \in Procs, d \in Dirs, u \in Reports :
         /\ Acts(p)
         /\ meta[d][u]' # meta[d][u] \/ (loc[u] = d) # (loc[u] = d)'
         => /\ cur[p] = u
            /\ d \in own[p] \/ op[p] = "CleanLock"]_vars

\* While no process dies and no call fails, the only finished reports that
\* disappear are the ones DeleteReport() was called for: no scan, look-up or
\* cleaning takes a report that is in transit for a broken one.
NoReportLost ==
    [][crashes' + faults' = 0 =>
         \A u \in Reports : loc[u] # "gone" /\ loc[u]' = "gone" =>
           \E p \in Procs : cur[p] = u /\ op[p] = "Delete" /\ Acts(p)]_vars

\* A report that is not itself being removed keeps its attachments.
AttachmentsKept ==
    [][crashes' + faults' = 0 =>
         \A u \in Reports : att[u] = "files" /\ att[u]' # "files" =>
           loc[u]' \in {"gone", "dropped"}]_vars

\* Whenever every process is idle, and none has died and no call has failed,
\* the tree is clean: every report has whole metadata beside it, there is no
\* other metadata, no lock file, and no attachment without a report.
CleanWhenQuiet ==
    (\A p \in Procs : op[p] = "Idle") /\ crashes + faults = 0 =>
      \A u \in Reports :
        /\ \A d \in Dirs : /\ meta[d][u].st = (IF loc[u] = d THEN "valid" ELSE "none")
                           /\ lock[d][u] = NoLock
        /\ att[u] = "files" => loc[u] \in Dirs

\* A report the collection server accepted is not uploaded again, as long as no
\* call fails: neither a crash nor another process's lock leaves an accepted
\* report in pending/ for the next pass of the upload thread.
UploadedOnce == faults = 0 => \A u \in Reports : sent[u] < 2

\* The promise of the database's interface, kept through every interleaving,
\* crash and failing call: where <uuid>.dmp is, and what completed/<uuid>.meta
\* says while the report is there, goes through the stages in order.
Lifecycle == INSTANCE ReportLifecycle WITH
    stage <- loc,
    uploaded <- {u \in Reports : loc[u] = "completed" /\ meta["completed"][u].uploaded}

ImplementsLifecycle == Lifecycle!Spec

----------------------------------------------------------------------------
\* A running process makes its next call; the prune thread's daily passes list
\* every lock file, and the time to live passes.
Fairness ==
    /\ \A p \in Procs : WF_vars(Call(p)) /\ WF_vars(Write(p))
    /\ \A p \in Cleaners, u \in Reports, d \in Dirs :
         SF_vars(Begin(p, "CleanLock", u, d))

FairSpec == Spec /\ Fairness

\* The lock file of a dead process does not outlast the next cleaning for ever,
\* if the process lived long enough to write the time into it.
StampedLockReclaimed ==
    \A u \in Reports, d \in Dirs :
      lock[d][u].owner = Crashed /\ lock[d][u].stamped ~> lock[d][u].owner # Crashed
=============================================================================
