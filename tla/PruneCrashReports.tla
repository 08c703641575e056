------------------------- MODULE PruneCrashReports -------------------------
(***************************************************************************)
(* client/prune_crash_reports.cc and the thread that runs it once a day,   *)
(* handler/prune_crash_reports_thread.cc, while other processes and        *)
(* threads add reports to the database and move them between its states.   *)
(*                                                                         *)
(* One PruneCondition, the default one, lives as long as the thread does.  *)
(***************************************************************************)
EXTENDS Integers, FiniteSets, Functions

CONSTANTS
    Reports,    \* the UUIDs of the reports that may be made
    Sizes,      \* the values of total_size
    Kilobyte,   \* how many bytes are a kilobyte
    MaxSizeKB,  \* max_size_in_kb
    Day,        \* kSecondsInDay, in ticks of the clock
    MaxAgeDays, \* max_age_in_days
    StartTime,  \* when the condition is constructed
    MaxClock,   \* bound: the last time of the clock
    MaxPasses,  \* bound: how many passes are made
    MaxDisturbances \* bound: how often a report is moved or locked meanwhile

ASSUME PruneAssumption ==
    /\ IsFiniteSet(Reports) /\ Sizes \subseteq Nat
    /\ Kilobyte \in Nat \ {0} /\ Day \in Nat \ {0}
    /\ MaxSizeKB \in Nat /\ MaxAgeDays \in Nat
    /\ StartTime \in Nat /\ MaxClock \in Nat /\ StartTime <= MaxClock
    /\ MaxPasses \in Nat /\ MaxDisturbances \in Nat

VARIABLES
    place,    \* place[u]: "unborn", the state of report u, or "gone"
    created,  \* created[u]: its creation_time
    size,     \* size[u]: its total_size
    clock,    \* the time
    oldest,   \* oldest_report_time_ of the AgePruneCondition
    measured, \* measured_size_in_kb_ of the DatabaseSizePruneCondition
    pc,       \* where the prune thread is
    copies,   \* copies[u]: how often u is in the part of all_reports to come
    passes,   \* how many passes were begun
    disturbances, \* how often a report was moved or locked
    began,    \* when the pass began
    listed,   \* the reports that the pass found
    failed    \* DeleteReport() failed in this pass

reports == <<place, created, size>>
condition == <<oldest, measured>>
pruneVars == <<reports, clock, condition, pc, copies, passes, disturbances, began, listed, failed>>

PruneTypeOK ==
    /\ place \in [Reports -> {"unborn", "pending", "completed", "gone"}]
    /\ created \in [Reports -> 0..MaxClock]
    /\ size \in [Reports -> Sizes]
    /\ clock \in 0..MaxClock
    /\ oldest \in Int
    /\ measured \in Nat
    /\ pc \in {"wait", "completed", "evaluate"}
    /\ copies \in [Reports -> 0..2]
    /\ passes \in 0..MaxPasses
    /\ disturbances \in 0..MaxDisturbances
    /\ began \in 0..MaxClock
    /\ listed \subseteq Reports
    /\ failed \in BOOLEAN

\* Round down to a whole day.
DayOf(t) == (t \div Day) * Day

\* The handler starts with the reports that are there, and constructs the
\* condition: AgePruneCondition() and DatabaseSizePruneCondition().
PruneInit ==
    /\ place \in [Reports -> {"unborn", "pending", "completed"}]
    /\ created \in [Reports -> 0..StartTime]
    /\ \A u \in Reports : place[u] = "unborn" => created[u] = 0
    /\ size \in [Reports -> Sizes]
    /\ clock = StartTime
    /\ oldest = DayOf(StartTime - MaxAgeDays * Day)
    /\ measured = 0
    /\ pc = "wait"
    /\ copies = [u \in Reports |-> 0]
    /\ passes = 0
    /\ disturbances = 0
    /\ began = 0
    /\ listed = {}
    /\ failed = FALSE

----------------------------------------------------------------------------
(***************************************************************************)
(* Beside the prune thread.                                                *)
(***************************************************************************)

\* The thread's next pass: the first ten minutes after its start, which is no
\* tick of this clock, then one every day.
Due == StartTime + passes * Day

\* Time passes, but not while a pass is due.
Tick ==
    /\ clock < MaxClock
    /\ pc = "wait" /\ passes < MaxPasses => clock < Due
    /\ clock' = clock + 1
    /\ UNCHANGED <<reports, condition, pc, copies, passes, disturbances, began, listed, failed>>

Disturb ==
    /\ disturbances < MaxDisturbances
    /\ disturbances' = disturbances + 1

\* FinishedWritingCrashReport().
AddReport(u) ==
    /\ place[u] = "unborn"
    /\ place' = [place EXCEPT ![u] = "pending"]
    /\ created' = [created EXCEPT ![u] = clock]
    /\ UNCHANGED <<size, clock, condition, pc, copies, passes, disturbances, began, listed, failed>>

\* The upload thread completes a report, or RequestUpload() is called for one.
Move(u) ==
    /\ Disturb
    /\ place[u] \in {"pending", "completed"}
    /\ place' = [place EXCEPT ![u] = IF @ = "pending" THEN "completed" ELSE "pending"]
    /\ UNCHANGED <<created, size, clock, condition, pc, copies, passes, began, listed, failed>>

----------------------------------------------------------------------------
(***************************************************************************)
(* PruneCrashReportDatabase().                                             *)
(***************************************************************************)

\* What ReportsInState() returns: a report whose lock somebody has is left out.
ReportsInState(state, found) ==
    \/ found = {u \in Reports : place[u] = state} /\ UNCHANGED disturbances
    \/ Disturb /\ \E u \in Reports : place[u] = state
                     /\ found = {v \in Reports \ {u} : place[v] = state}

\* The prune thread's DoWork(): GetPendingReports() ...
GetPendingReports ==
    /\ pc = "wait"
    /\ passes < MaxPasses
    /\ clock >= Due
    /\ passes' = passes + 1
    /\ began' = clock
    /\ failed' = FALSE
    /\ \E found \in SUBSET Reports :
         /\ ReportsInState("pending", found)
         /\ listed' = found
         /\ copies' = [u \in Reports |-> IF u \in found THEN 1 ELSE 0]
    /\ pc' = "completed"
    /\ UNCHANGED <<reports, clock, condition>>

\* ... and GetCompletedReports(), appended to it.
GetCompletedReports ==
    /\ pc = "completed"
    /\ \E found \in SUBSET Reports :
         /\ ReportsInState("completed", found)
         /\ listed' = listed \cup found
         /\ copies' = [u \in Reports |-> IF u \in found THEN copies[u] + 1 ELSE copies[u]]
    /\ pc' = "evaluate"
    /\ UNCHANGED <<reports, clock, condition, passes, began, failed>>

\* Either listing may fail, which ends the pass and leaves nothing of all_reports.
ListingFailed ==
    /\ pc = "completed"
    /\ Disturb
    /\ listed' = {}
    /\ copies' = [u \in Reports |-> 0]
    /\ pc' = "wait"
    /\ UNCHANGED <<reports, clock, condition, passes, began, failed>>

\* Mutant: fractions of a kilobyte are not counted.
SizeInKBMutant(u) == size[u] \div Kilobyte

\* Round up to whole kilobytes.
SizeInKB(u) == (size[u] + Kilobyte - 1) \div Kilobyte

\* Mutant: the end of all_reports is missed.
PastEndMutant(u) == \A v \in Reports : copies[v] > 0 => created[v] <= created[u]

\* Mutant: the oldest report comes first.
IsNextMutant(u) ==
    /\ copies[u] > 0
    /\ \A v \in Reports : copies[v] > 0 => created[v] >= created[u]

\* u comes next: all_reports is sorted, the newest report first.
IsNext(u) ==
    /\ copies[u] > 0
    /\ \A v \in Reports : copies[v] > 0 => created[v] <= created[u]

\* BinaryPruneCondition::ShouldPruneReport(): OR of the size, which the sizes of
\* the reports evaluated before add to, and the age.
ShouldPruneReport(u) == measured + SizeInKB(u) > MaxSizeKB \/ created[u] < oldest

\* DeleteReport(): the report may be gone already, or somebody has its lock.
DeleteReport(u) ==
    \/ /\ place' = [place EXCEPT ![u] = "gone"]
       /\ UNCHANGED <<disturbances, failed>>
    \/ /\ place[u] # "gone"
       /\ Disturb
       /\ failed' = TRUE
       /\ UNCHANGED place

\* One report is evaluated, and deleted if the condition says so.  The size is
\* the left-hand side, so it is added up whatever the age.
EvaluateReport(u) ==
    /\ pc = "evaluate"
    /\ IsNext(u)
    /\ copies' = [copies EXCEPT ![u] = @ - 1]
    /\ measured' = measured + SizeInKB(u)
    /\ IF ShouldPruneReport(u)
         THEN DeleteReport(u)
         ELSE UNCHANGED <<place, disturbances, failed>>
    /\ UNCHANGED <<created, size, clock, oldest, pc, passes, began, listed>>

\* The pass is over.
EndPass ==
    /\ pc = "evaluate"
    /\ \A u \in Reports : copies[u] = 0
    /\ pc' = "wait"
    /\ UNCHANGED <<reports, clock, condition, copies, passes, disturbances, began, listed, failed>>

----------------------------------------------------------------------------
PruneNext ==
    \/ Tick
    \/ GetPendingReports \/ GetCompletedReports \/ ListingFailed \/ EndPass
    \/ \E u \in Reports : AddReport(u) \/ Move(u) \/ EvaluateReport(u)

PruneSpec == PruneInit /\ [][PruneNext]_pruneVars

----------------------------------------------------------------------------
(***************************************************************************)
(* Properties.                                                             *)
(***************************************************************************)

\* A pass has just ended.
PassOver == pc = "wait" /\ passes > 0

sizesInKB == [u \in Reports |-> SizeInKB(u)]

\* u is too old, or does not fit together with the reports no older than it.
MayGo(u) ==
    \/ created[u] < DayOf(began - MaxAgeDays * Day)
    \/ SumFunctionOnSet(sizesInKB, {v \in listed : created[v] >= created[u]}) > MaxSizeKB

\* u is deleted in this step.
Deleted(u) == place[u] # "gone" /\ place'[u] = "gone"

\* The handler's first pass, if nobody moves or locks a report meanwhile, deletes
\* only reports that have to go, however the ages and sizes fall.
NewestKept ==
    [][passes = 1 /\ disturbances' = 0 => \A u \in Reports : Deleted(u) => MayGo(u)]_pruneVars

\* "Keep newer reports, until the sum of the size of all reports is not smaller
\* than max_size_in_kb": so does every pass.
NewestKeptDaily == [][\A u \in Reports : Deleted(u) => MayGo(u)]_pruneVars

\* A pass deletes older reports before newer ones, whatever moves meanwhile: if
\* it deleted a report then it deleted all that were older.
OldestGoFirst ==
    \A u, v \in listed : created[u] < created[v] /\ place[v] = "gone" => place[u] = "gone"

\* "The maximum number of kilobytes that all crash reports should consume": what
\* is left of the reports a pass has found fits, to the byte.
SizeKept ==
    SumFunctionOnSet(size, {u \in listed : place[u] # "gone"}) <= MaxSizeKB * Kilobyte

\* "Reports created more than this many days ago will be deleted" by the pass after
\* the handler's start, a day being granted to the rounding.
ExpiredPruned ==
    passes = 1 => \A u \in listed : place[u] # "gone" => created[u] > began - (MaxAgeDays + 1) * Day

\* After a pass in which no deletion failed, whatever was added, moved or locked during
\* it, the limits hold for what is left of the reports it found.
PassEnforcesLimits == PassOver /\ ~failed => OldestGoFirst /\ SizeKept /\ ExpiredPruned
=============================================================================
