--------------------- MODULE CrashReportDatabaseProofs ---------------------
(***************************************************************************)
(* Proofs about CrashReportDatabase, for any set of processes and reports, *)
(* any operations and any number of crashes and failing calls.             *)
(***************************************************************************)
EXTENDS CrashReportDatabase, TLAPS

----------------------------------------------------------------------------
(***************************************************************************)
(* The scripts.                                                            *)
(***************************************************************************)

\* The operations are the scripts' names.
LEMMA ScriptNames ==
    DOMAIN Script =
      {"Idle", "Writing", "Finish", "LookUp", "Visit", "Upload", "Success", "Failure",
       "Skip", "Delete", "Request", "CleanReport", "CleanMeta", "CleanLock",
       "CleanAttachments", "Orphan", "Purge", "Drop", "Return"}
BY DEF Script

\* The calls of each operation, one equation per script.
LEMMA ScriptCalls ==
    /\ Script["Idle"] = <<"none">>
    /\ Script["Writing"] = <<"none">>
    /\ Script["Finish"] = <<"lock", "stamp", "create", "write", "move">>
    /\ Script["LookUp"] = <<"lock", "stamp", "check", "read">>
    /\ Script["Visit"] = <<"lock", "stamp", "read">>
    /\ Script["Upload"] = <<"lock", "stamp", "check", "read", "open", "send">>
    /\ Script["Success"] = <<"lock2", "stamp2", "move", "rmMeta", "truncate", "write">>
    /\ Script["Failure"] = <<"unlock", "truncate", "write">>
    /\ Script["Skip"] = <<"lock", "stamp", "check", "read", "lock2", "stamp2", "truncate",
                          "write", "move", "rmMeta">>
    /\ Script["Delete"] = <<"lock", "stamp", "check", "rmReport", "rmMeta", "rmAttachments">>
    /\ Script["Request"] = <<"lock", "stamp", "check", "read", "move", "truncate", "write",
                             "rmMeta">>
    /\ Script["CleanReport"] = <<"lock", "stamp", "noMeta", "rmReport", "rmAttachments">>
    /\ Script["CleanMeta"] = <<"lock", "stamp", "noReport", "rmMeta", "rmAttachments">>
    /\ Script["CleanLock"] = <<"rmReport", "rmMeta", "rmLock", "rmAttachments">>
    /\ Script["CleanAttachments"] = <<"lock", "stamp", "check">>
    /\ Script["Orphan"] = <<"rmAttachments">>
    /\ Script["Purge"] = <<"rmReport", "rmMeta">>
    /\ Script["Drop"] = <<"unlock", "rmNew">>
    /\ Script["Return"] = <<"unlock">>
BY DEF Script

\* Where a call can stand in the script s of operation o: the facts about the
\* control flow that the invariants need.
WellOrdered(o, s) ==
    /\ Len(s) \in 1..10
    /\ \A i \in 1..Len(s) :
         /\ s[i] \in {"stamp", "check"} => i > 1 /\ s[1] = "lock"
         /\ s[i] = "lock" => i = 1
         /\ s[i] = "lock2" => s[1] # "lock" \/ i > 1
         /\ s[i] = "unlock" => i = 1 /\ o \in {"Return", "Drop", "Failure"}
         /\ s[i] = "rmLock" => i = 3 /\ o = "CleanLock"
         /\ s[i] = "write" => o \in {"Finish", "Success", "Failure", "Skip", "Request"}
         /\ s[i] = "write" => o # "Request" \/ i > 4
         /\ s[i] # "none" => o \notin {"Idle", "Writing"}
         /\ s[i] \notin {"rmReport", "rmMeta", "rmLock", "rmAttachments"} => o # "CleanLock"
    /\ o = "Request" => s[4] = "read"

\* Every script is well ordered.
LEMMA ScriptOrder == \A o \in DOMAIN Script : WellOrdered(o, Script[o])
<1>1. WellOrdered("Idle", Script["Idle"])
  BY ScriptCalls DEF WellOrdered
<1>2. WellOrdered("Writing", Script["Writing"])
  BY ScriptCalls DEF WellOrdered
<1>3. WellOrdered("Finish", Script["Finish"])
  BY ScriptCalls DEF WellOrdered
<1>4. WellOrdered("LookUp", Script["LookUp"])
  BY ScriptCalls DEF WellOrdered
<1>5. WellOrdered("Visit", Script["Visit"])
  BY ScriptCalls DEF WellOrdered
<1>6. WellOrdered("Upload", Script["Upload"])
  BY ScriptCalls DEF WellOrdered
<1>7. WellOrdered("Success", Script["Success"])
  BY ScriptCalls DEF WellOrdered
<1>8. WellOrdered("Failure", Script["Failure"])
  BY ScriptCalls DEF WellOrdered
<1>9. WellOrdered("Skip", Script["Skip"])
  BY ScriptCalls DEF WellOrdered
<1>10. WellOrdered("Delete", Script["Delete"])
  BY ScriptCalls DEF WellOrdered
<1>11. WellOrdered("Request", Script["Request"])
  BY ScriptCalls DEF WellOrdered
<1>12. WellOrdered("CleanReport", Script["CleanReport"])
  BY ScriptCalls DEF WellOrdered
<1>13. WellOrdered("CleanMeta", Script["CleanMeta"])
  BY ScriptCalls DEF WellOrdered
<1>14. WellOrdered("CleanLock", Script["CleanLock"])
  BY ScriptCalls DEF WellOrdered
<1>15. WellOrdered("CleanAttachments", Script["CleanAttachments"])
  BY ScriptCalls DEF WellOrdered
<1>16. WellOrdered("Orphan", Script["Orphan"])
  BY ScriptCalls DEF WellOrdered
<1>17. WellOrdered("Purge", Script["Purge"])
  BY ScriptCalls DEF WellOrdered
<1>18. WellOrdered("Drop", Script["Drop"])
  BY ScriptCalls DEF WellOrdered
<1>19. WellOrdered("Return", Script["Return"])
  BY ScriptCalls DEF WellOrdered
<1> QED
  BY ScriptNames, <1>1, <1>2, <1>3, <1>4, <1>5, <1>6, <1>7, <1>8, <1>9, <1>10, <1>11, <1>12, <1>13, <1>14, <1>15, <1>16, <1>17, <1>18, <1>19

----------------------------------------------------------------------------
(***************************************************************************)
(* Type correctness.                                                       *)
(***************************************************************************)

\* How many calls operation o makes.
Size(o) == Len(Script[o])

\* No operation makes more than ten calls.
LEMMA SizeBound == \A o \in DOMAIN Script : Size(o) \in 1..10
BY ScriptOrder DEF WellOrdered, Size

\* Every process is at a call of its operation's script.
InScript == \A p \in Procs : at[p] \in 1..Size(op[p])

TypeInv == TypeOK /\ InScript

\* What the control-flow operators need and keep.
ControlOK ==
    /\ op \in [Procs -> DOMAIN Script]
    /\ at \in [Procs -> 1..10]
    /\ InScript

\* ScriptOrder, for the call that p is about to make.
LEMMA CallOrder ==
    ASSUME ControlOK, NEW p \in Procs
    PROVE  /\ At(p, "stamp") \/ At(p, "check") => at[p] > 1 /\ Script[op[p]][1] = "lock"
           /\ Script[op[p]][1] = "lock" /\ at[p] = 1 => At(p, "lock")
           /\ At(p, "lock") => at[p] = 1
           /\ At(p, "lock2") => Script[op[p]][1] # "lock" \/ at[p] > 1
           /\ At(p, "unlock") => at[p] = 1 /\ op[p] \in {"Return", "Drop", "Failure"}
           /\ At(p, "rmLock") => at[p] = 3 /\ op[p] = "CleanLock"
           /\ op[p] = "Request" /\ at[p] = 4 => At(p, "read")
           /\ At(p, "write") => op[p] \in {"Finish", "Success", "Failure", "Skip", "Request"}
           /\ At(p, "write") /\ op[p] = "Request" => at[p] > 4
           /\ op[p] \in {"Idle", "Writing"} => At(p, "none")
           /\ op[p] = "CleanLock" =>
                At(p, "rmReport") \/ At(p, "rmMeta") \/ At(p, "rmLock") \/ At(p, "rmAttachments")
<1>1. op[p] \in DOMAIN Script /\ at[p] \in 1..Len(Script[op[p]])
  BY DEF ControlOK, InScript, Size
<1>2. WellOrdered(op[p], Script[op[p]])
  BY <1>1, ScriptOrder
<1> DEFINE s == Script[op[p]]
           i == at[p]
<1> HIDE DEF s, i
<1>3. WellOrdered(op[p], s) /\ i \in 1..Len(s)
  BY <1>1, <1>2 DEF s, i
<1>4. /\ s[i] \in {"stamp", "check"} => i > 1 /\ s[1] = "lock"
      /\ s[i] = "lock" => i = 1
      /\ s[i] = "lock2" => s[1] # "lock" \/ i > 1
  BY <1>3 DEF WellOrdered
<1>5. /\ s[i] = "unlock" => i = 1 /\ op[p] \in {"Return", "Drop", "Failure"}
      /\ s[i] = "rmLock" => i = 3 /\ op[p] = "CleanLock"
  BY <1>3 DEF WellOrdered
<1>6. /\ s[i] = "write" => op[p] \in {"Finish", "Success", "Failure", "Skip", "Request"}
      /\ s[i] = "write" /\ op[p] = "Request" => i > 4
  BY <1>3 DEF WellOrdered
<1>7. op[p] = "Request" /\ i = 4 => s[i] = "read"
  BY <1>3 DEF WellOrdered
<1>8. /\ op[p] \in {"Idle", "Writing"} => s[i] = "none"
      /\ op[p] = "CleanLock" => s[i] \in {"rmReport", "rmMeta", "rmLock", "rmAttachments"}
  BY <1>3 DEF WellOrdered
<1> QED
  BY <1>4, <1>5, <1>6, <1>7, <1>8 DEF s, i, At

\* Starting another operation leaves its process at that operation's first call.
LEMMA GotoControl ==
    ASSUME ControlOK, NEW p \in Procs, NEW o \in DOMAIN Script, Goto(p, o)
    PROVE  ControlOK' /\ op'[p] = o /\ at'[p] = 1
BY SizeBound DEF ControlOK, InScript, Goto

\* An early return leaves the process at the first call of Drop or Return.
LEMMA AbortControl ==
    ASSUME ControlOK, NEW p \in Procs, Abort(p)
    PROVE  ControlOK' /\ op'[p] \in {"Drop", "Return"} /\ at'[p] = 1
BY GotoControl, ScriptNames DEF Abort

\* Going on to the next call never leaves the script.
LEMMA AdvanceControl ==
    ASSUME ControlOK, NEW p \in Procs, Advance(p)
    PROVE  /\ ControlOK'
           /\ \/ op' = op /\ at' = [at EXCEPT ![p] = @ + 1]
              \/ op'[p] = "Return" /\ at'[p] = 1
<1>1. IF at[p] < Size(op[p])
        THEN at' = [at EXCEPT ![p] = @ + 1] /\ op' = op
        ELSE Goto(p, "Return")
  BY DEF Advance, Size
<1>2. CASE at[p] < Size(op[p])
  BY <1>1, <1>2, SizeBound DEF ControlOK, InScript
<1>3. CASE ~(at[p] < Size(op[p]))
  BY <1>1, <1>3, GotoControl, ScriptNames
<1> QED
  BY <1>2, <1>3

\* The values the file system variables take.
LEMMA Values ==
    /\ NoMeta \in Metadata
    /\ TornMeta \in Metadata
    /\ \A a, b \in BOOLEAN : ValidMeta(a, b) \in Metadata
    /\ NoLock \in LockFile
    /\ \A p \in Procs, b \in BOOLEAN : [owner |-> p, stamped |-> b] \in LockFile
    /\ \A m \in Metadata : m.uploaded \in BOOLEAN /\ m.requested \in BOOLEAN
BY DEF NoMeta, TornMeta, ValidMeta, NoLock, Metadata, LockFile

\* Changing one file keeps the tree's type.
LEMMA LockUpdate ==
    ASSUME TypeOK, NEW d \in Dirs, NEW u \in Reports, NEW l \in LockFile
    PROVE  [lock EXCEPT ![d][u] = l] \in [Dirs -> [Reports -> LockFile]]
BY DEF TypeOK

\* Writing one metadata file leaves metadata in every file.
LEMMA MetaUpdate ==
    ASSUME TypeOK, NEW d \in Dirs, NEW u \in Reports, NEW m \in Metadata
    PROVE  [meta EXCEPT ![d][u] = m] \in [Dirs -> [Reports -> Metadata]]
BY DEF TypeOK

\* The directory and the report a process works on.
LEMMA Local ==
    ASSUME TypeOK, NEW p \in Procs
    PROVE  cur[p] \in Reports /\ dir[p] \in Dirs /\ WriteDir(p) \in Dirs /\ LockDir(p) \in Dirs
BY DEF TypeOK, WriteDir, LockDir, Dirs

\* The empty database is well typed.
LEMMA TypeInit == Init => TypeInv
<1> SUFFICES ASSUME Init PROVE TypeInv
  OBVIOUS
<1>1. (CHOOSE u \in Reports : TRUE) \in Reports
  BY ProcsAssumption
<1>2. "Idle" \in DOMAIN Script
  BY ScriptNames
<1>3. InScript
  <2> SUFFICES ASSUME NEW p \in Procs PROVE at[p] \in 1..Size(op[p])
    BY DEF InScript
  <2>1. op[p] \in DOMAIN Script /\ at[p] = 1
    BY <1>2 DEF Init
  <2>2. Size(op[p]) \in 1..10
    BY <2>1, SizeBound
  <2> QED
    BY <2>1, <2>2
<1> QED
  BY <1>1, <1>2, <1>3, Values, ProcsAssumption DEF Init, TypeInv, TypeOK, Dirs, Places

\* The control state is part of the type invariant.
LEMMA ControlType == TypeInv => ControlOK
BY DEF TypeInv, TypeOK, ControlOK

\* Every call, crash and failure keeps the types and stays inside its script.
LEMMA TypeNext == TypeInv /\ [Next]_vars => TypeInv'
<1> SUFFICES ASSUME TypeInv, [Next]_vars PROVE TypeInv'
  OBVIOUS
<1> USE DEF TypeInv
<1>0. ControlOK
  BY ControlType
<1>1. CASE UNCHANGED vars
  BY <1>1 DEF vars, TypeOK, InScript
<1>2. ASSUME NEW p \in Procs, NEW u \in Reports, PrepareNewCrashReport(p, u)
      PROVE  TypeInv'
  BY <1>0, <1>2, GotoControl, ScriptNames DEF PrepareNewCrashReport, TypeOK, ControlOK, Places
<1>3. ASSUME NEW p \in Procs, NEW u \in Reports, CleanNew(p, u)
      PROVE  TypeInv'
  BY <1>3 DEF CleanNew, TypeOK, InScript, Places, procVars
<1>4. ASSUME NEW p \in Procs, NEW o \in Ops \cap (ByUUID \cup Cleaning \cup {"Visit"}),
             NEW u \in Reports, NEW d \in Dirs, Begin(p, o, u, d)
      PROVE  TypeInv'
  <2>1. o \in DOMAIN Script
    BY <1>4, ScriptNames DEF ByUUID, Cleaning
  <2> QED
    BY <1>0, <1>4, <2>1, GotoControl DEF Begin, TypeOK, ControlOK, fsVars
<1>5. ASSUME NEW p \in Procs, AddAttachment(p) PROVE TypeInv'
  BY <1>5 DEF AddAttachment, TypeOK, InScript, procVars
<1>6. ASSUME NEW p \in Procs, NEW o \in {"Finish", "Drop"}, CloseNewReport(p, o)
      PROVE  TypeInv'
  BY <1>0, <1>6, GotoControl, ScriptNames DEF CloseNewReport, TypeOK, ControlOK, fsVars, Dirs
<1>7. ASSUME NEW p \in Procs, ResetAcquire(p) PROVE TypeInv'
  <2>1. LockDir(p) \in Dirs
    BY Local
  <2>2. ControlOK'
    BY <1>0, <1>7, AdvanceControl, AbortControl DEF ResetAcquire
  <2>3. lock' \in [Dirs -> [Reports -> LockFile]] /\ own' \in [Procs -> SUBSET Dirs]
    <3>1. [lock EXCEPT ![LockDir(p)][cur[p]] = [owner |-> p, stamped |-> FALSE]]
            \in [Dirs -> [Reports -> LockFile]]
      BY Values, Local, LockUpdate
    <3>2. own' \in [Procs -> SUBSET Dirs]
      <4>1. own' = own \/ own' = [own EXCEPT ![p] = @ \cup {LockDir(p)}]
        BY <1>7 DEF ResetAcquire
      <4> QED
        BY <2>1, <4>1 DEF TypeOK
    <3>3. lock \in [Dirs -> [Reports -> LockFile]]
      BY DEF TypeOK
    <3>4. \/ lock' = lock
          \/ lock' = [lock EXCEPT ![LockDir(p)][cur[p]] = [owner |-> p, stamped |-> FALSE]]
      BY <1>7 DEF ResetAcquire
    <3> QED
      BY <3>1, <3>2, <3>3, <3>4, Zenon
  <2> QED
    BY <1>7, <2>2, <2>3 DEF ResetAcquire, TypeOK, ControlOK
<1>8. ASSUME NEW p \in Procs, StampLock(p) PROVE TypeInv'
  <2>1. LockDir(p) \in Dirs
    BY Local
  <2>2. ControlOK'
    BY <1>0, <1>8, AdvanceControl DEF StampLock
  <2>3. lock' \in [Dirs -> [Reports -> LockFile]]
    <3> DEFINE l == lock[LockDir(p)][cur[p]]
               new == IF l.owner = p THEN [owner |-> p, stamped |-> TRUE] ELSE l
    <3>1. new \in LockFile
      BY <2>1, Values DEF TypeOK
    <3>2. lock' = [lock EXCEPT ![LockDir(p)][cur[p]] = new]
      BY <1>8, <2>1 DEF StampLock, TypeOK
    <3> QED
      BY <2>1, <3>1, <3>2, Local, LockUpdate
  <2> QED
    BY <1>8, <2>2, <2>3 DEF StampLock, TypeOK, ControlOK
<1>9. ASSUME NEW p \in Procs, LocateReport(p) PROVE TypeInv'
  <2>1. ControlOK'
    BY <1>0, <1>9, AdvanceControl, GotoControl, ScriptNames DEF LocateReport, ControlOK
  <2>2. lock' \in [Dirs -> [Reports -> LockFile]] /\ own' \in [Procs -> SUBSET Dirs]
    <3>1. [lock EXCEPT ![dir[p]][cur[p]] = NoLock] \in [Dirs -> [Reports -> LockFile]]
      BY Values, Local, LockUpdate
    <3>2. own' \in [Procs -> SUBSET Dirs]
      BY <1>9 DEF LocateReport, TypeOK
    <3>3. lock \in [Dirs -> [Reports -> LockFile]]
      BY DEF TypeOK
    <3>4. lock' = lock \/ lock' = [lock EXCEPT ![dir[p]][cur[p]] = NoLock]
      BY <1>9 DEF LocateReport
    <3> QED
      BY <3>1, <3>2, <3>3, <3>4, Zenon
  <2>3. dir' \in [Procs -> Dirs]
    BY <1>9 DEF LocateReport, TypeOK, Dirs
  <2> QED
    BY <1>9, <2>1, <2>2, <2>3 DEF LocateReport, TypeOK, ControlOK
<1>10. ASSUME NEW p \in Procs, CleaningReadMetadata(p) PROVE TypeInv'
  <2>1. ControlOK'
    BY <1>0, <1>10, AdvanceControl, GotoControl, ScriptNames DEF CleaningReadMetadata
  <2>2. rep' \in [Procs -> Metadata]
    <3>1. meta[dir[p]][cur[p]] \in Metadata
      BY DEF TypeOK
    <3> QED
      BY <1>10, <3>1 DEF CleaningReadMetadata, TypeOK
  <2> QED
    BY <1>10, <2>1, <2>2 DEF CleaningReadMetadata, TypeOK, ControlOK, fsVars
<1>11. ASSUME NEW p \in Procs, OpenReport(p) PROVE TypeInv'
  <2>1. ControlOK'
    BY <1>0, <1>11, AdvanceControl, GotoControl, ScriptNames DEF OpenReport
  <2> QED
    BY <1>11, <2>1 DEF OpenReport, TypeOK, ControlOK, fsVars
<1>12. ASSUME NEW p \in Procs, NEW o \in {"Success", "Failure"}, SendReport(p, o)
       PROVE  TypeInv'
  <2>1. ControlOK'
    BY <1>0, <1>12, GotoControl, ScriptNames DEF SendReport
  <2>2. sent' \in [Reports -> 0..2]
    BY <1>12 DEF SendReport, TypeOK
  <2> QED
    BY <1>12, <2>1, <2>2 DEF SendReport, TypeOK, ControlOK, fsVars
<1>13. ASSUME NEW p \in Procs, OpenMetadata(p) PROVE TypeInv'
  <2>1. ControlOK'
    BY <1>0, <1>13, AdvanceControl, AbortControl DEF OpenMetadata
  <2>2. meta' \in [Dirs -> [Reports -> Metadata]]
    <3>1. [meta EXCEPT ![WriteDir(p)][cur[p]] = TornMeta] \in [Dirs -> [Reports -> Metadata]]
      BY Values, Local, MetaUpdate
    <3> QED
      BY <1>13, <3>1 DEF OpenMetadata, TypeOK
  <2> QED
    BY <1>13, <2>1, <2>2 DEF OpenMetadata, TypeOK, ControlOK
<1>14. ASSUME NEW p \in Procs, WriteMetadata(p) PROVE TypeInv'
  <2>1. ControlOK'
    BY <1>0, <1>14, AdvanceControl DEF WriteMetadata
  <2>2. NewContents(p) \in Metadata
    BY Values DEF NewContents, TypeOK
  <2>3. meta' \in [Dirs -> [Reports -> Metadata]]
    BY <1>14, <2>2 DEF WriteMetadata, WriteDir, TypeOK, Dirs
  <2> QED
    BY <1>14, <2>1, <2>3 DEF WriteMetadata, TypeOK, ControlOK
<1>15. ASSUME NEW p \in Procs, MoveReport(p) PROVE TypeInv'
  <2>1. ControlOK'
    BY <1>0, <1>15, AdvanceControl, AbortControl DEF MoveReport
  <2>2. loc' \in [Reports -> Places]
    BY <1>15 DEF MoveReport, Target, TypeOK, Places, Dirs
  <2> QED
    BY <1>15, <2>1, <2>2 DEF MoveReport, TypeOK, ControlOK
<1>16. ASSUME NEW p \in Procs, RemoveReport(p) PROVE TypeInv'
  <2>1. ControlOK'
    BY <1>0, <1>16, AdvanceControl, AbortControl DEF RemoveReport
  <2>2. loc' \in [Reports -> Places]
    BY <1>16 DEF RemoveReport, TypeOK, Places
  <2> QED
    BY <1>16, <2>1, <2>2 DEF RemoveReport, TypeOK, ControlOK
<1>17. ASSUME NEW p \in Procs, RemoveMetadata(p) PROVE TypeInv'
  <2>1. ControlOK'
    BY <1>0, <1>17, AdvanceControl, AbortControl DEF RemoveMetadata
  <2>2. meta' \in [Dirs -> [Reports -> Metadata]]
    <3>1. [meta EXCEPT ![dir[p]][cur[p]] = NoMeta] \in [Dirs -> [Reports -> Metadata]]
      BY Values, Local, MetaUpdate
    <3> QED
      BY <1>17, <3>1 DEF RemoveMetadata, TypeOK
  <2> QED
    BY <1>17, <2>1, <2>2 DEF RemoveMetadata, TypeOK, ControlOK
<1>18. ASSUME NEW p \in Procs, CheckLone(p) PROVE TypeInv'
  <2>1. ControlOK'
    BY <1>0, <1>18, AdvanceControl, GotoControl, ScriptNames DEF CheckLone
  <2> QED
    BY <1>18, <2>1 DEF CheckLone, TypeOK, ControlOK, fsVars
<1>19. ASSUME NEW p \in Procs, RemoveAttachmentsByUUID(p) PROVE TypeInv'
  <2>1. ControlOK'
    BY <1>0, <1>19, AdvanceControl DEF RemoveAttachmentsByUUID
  <2> QED
    BY <1>19, <2>1 DEF RemoveAttachmentsByUUID, TypeOK, ControlOK
<1>20. ASSUME NEW p \in Procs, RemoveExpiredLock(p) PROVE TypeInv'
  <2>1. ControlOK'
    BY <1>0, <1>20, AdvanceControl, AbortControl DEF RemoveExpiredLock
  <2>2. lock' \in [Dirs -> [Reports -> LockFile]]
    BY <1>20, Values DEF RemoveExpiredLock, TypeOK
  <2> QED
    BY <1>20, <2>1, <2>2 DEF RemoveExpiredLock, TypeOK, ControlOK
<1>21. ASSUME NEW p \in Procs, RemoveNewReport(p) PROVE TypeInv'
  <2>1. ControlOK'
    BY <1>0, <1>21, AdvanceControl DEF RemoveNewReport
  <2>2. loc' \in [Reports -> Places] /\ att' \in [Reports -> {"none", "empty", "files"}]
    BY <1>21 DEF RemoveNewReport, TypeOK, Places
  <2> QED
    BY <1>21, <2>1, <2>2 DEF RemoveNewReport, TypeOK, ControlOK
<1>22. ASSUME NEW p \in Procs, ReleaseLock(p) PROVE TypeInv'
  <2>1. lock' \in [Dirs -> [Reports -> LockFile]] /\ own' \in [Procs -> SUBSET Dirs]
    BY <1>22, Values DEF ReleaseLock, TypeOK, Dirs
  <2> QED
    BY <1>22, <2>1 DEF ReleaseLock, TypeOK, InScript
<1>23. ASSUME NEW p \in Procs, Unlocked(p) PROVE TypeInv'
  <2>1. ControlOK'
    BY <1>0, <1>23, AdvanceControl, GotoControl, ScriptNames DEF Unlocked
  <2>2. rep' \in [Procs -> Metadata] /\ dir' \in [Procs -> Dirs]
    <3>1. [rep EXCEPT ![p] = NoMeta] \in [Procs -> Metadata]
      BY Values DEF TypeOK
    <3>2. [dir EXCEPT ![p] = "pending"] \in [Procs -> Dirs]
      BY DEF TypeOK, Dirs
    <3> QED
      BY <1>23, <3>1, <3>2 DEF Unlocked, TypeOK
  <2> QED
    BY <1>23, <2>1, <2>2 DEF Unlocked, TypeOK, ControlOK, fsVars
<1>24. ASSUME NEW p \in Procs, FailCall(p) PROVE TypeInv'
  <2>1. Goto(p, "Purge") \/ Goto(p, "Failure") \/ Advance(p) \/ Abort(p)
    BY <1>24 DEF FailCall
  <2>2. ControlOK'
    BY <1>0, <2>1, AdvanceControl, AbortControl, GotoControl, ScriptNames
  <2>3. faults' \in 0..MaxFaults
    BY <1>24, ProcsAssumption DEF FailCall, TypeOK
  <2> QED
    BY <1>24, <2>2, <2>3 DEF FailCall, TypeOK, ControlOK, fsVars
<1>25. ASSUME NEW p \in Procs, Crash(p) PROVE TypeInv'
  <2>1. ControlOK'
    BY <1>0, <1>25, GotoControl, ScriptNames DEF Crash
  <2>2. lock' \in [Dirs -> [Reports -> LockFile]]
    <3>1. ASSUME NEW l \in LockFile PROVE [l EXCEPT !.owner = Crashed] \in LockFile
      BY DEF LockFile
    <3> QED
      BY <1>25, <3>1 DEF Crash, TypeOK
  <2>3. crashes' \in 0..MaxCrashes
    BY <1>25, ProcsAssumption DEF Crash, TypeOK
  <2> QED
    BY <1>25, <2>1, <2>2, <2>3, Values DEF Crash, TypeOK, ControlOK, Dirs
<1> QED
  BY <1>1, <1>2, <1>3, <1>4, <1>5, <1>6, <1>7, <1>8, <1>9, <1>10, <1>11, <1>12, <1>13,
     <1>14, <1>15, <1>16, <1>17, <1>18, <1>19, <1>20, <1>21, <1>22, <1>23, <1>24, <1>25
  DEF Next, Start, Call, Write

\* Type correctness, with every process inside its operation's script: no path
\* through any function, whatever fails, runs off its end.
THEOREM TypeCorrect == Spec => []TypeOK
<1>1. TypeInv /\ [Next]_vars => TypeInv'
  BY TypeNext
<1>2. TypeInv => TypeOK
  BY DEF TypeInv
<1> QED
  BY TypeInit, <1>1, <1>2, PTL DEF Spec

----------------------------------------------------------------------------
(***************************************************************************)
(* The flags match the state.                                              *)
(***************************************************************************)

\* RequestUpload() goes on only with metadata that does not say "uploaded".
RequestsNotUploaded ==
    \A p \in Procs : op[p] = "Request" /\ at[p] > 4 => ~rep[p].uploaded

FlagsInv == TypeInv /\ FlagsMatchState /\ RequestsNotUploaded

\* p begins something else: it has not read anything yet.
LEMMA RequestGoto ==
    ASSUME TypeInv, RequestsNotUploaded, NEW p \in Procs, NEW o \in DOMAIN Script, Goto(p, o),
           \A q \in Procs \ {p} : rep'[q] = rep[q]
    PROVE  RequestsNotUploaded'
<1>0. ControlOK
  BY ControlType
<1> QED
  BY <1>0 DEF RequestsNotUploaded, ControlOK, Goto

\* p makes a call that is not the read, and keeps what it read.
LEMMA RequestAdvance ==
    ASSUME TypeInv, RequestsNotUploaded, NEW p \in Procs, ~At(p, "read"), rep' = rep,
           Advance(p) \/ Abort(p)
    PROVE  RequestsNotUploaded'
<1>0. ControlOK
  BY ControlType
<1>1. CASE Advance(p)
  <2>1. ~(op[p] = "Request" /\ at[p] = 4)
    BY <1>0, CallOrder
  <2>2. \/ op' = op /\ at' = [at EXCEPT ![p] = @ + 1]
        \/ Goto(p, "Return")
    BY <1>1 DEF Advance
  <2> QED
    BY <1>0, <2>1, <2>2 DEF RequestsNotUploaded, ControlOK, Goto
<1>2. CASE Abort(p)
  BY <1>0, <1>2 DEF RequestsNotUploaded, ControlOK, Goto, Abort
<1> QED
  BY <1>1, <1>2

\* One metadata file is rewritten.
LEMMA FlagUpdate ==
    ASSUME TypeOK, FlagsMatchState, NEW d \in Dirs, NEW u \in Reports, NEW m,
           meta' = [meta EXCEPT ![d][u] = m],
           d = "completed" => ~m.requested,
           d = "pending" => ~m.uploaded
    PROVE  FlagsMatchState'
<1> SUFFICES ASSUME NEW v \in Reports
             PROVE  ~meta'["completed"][v].requested /\ ~meta'["pending"][v].uploaded
  BY DEF FlagsMatchState
<1>1. \A e \in Dirs : meta'[e][v] = IF e = d /\ v = u THEN m ELSE meta[e][v]
  BY DEF TypeOK
<1>2. "completed" \in Dirs /\ "pending" \in Dirs
  BY DEF Dirs
<1> QED
  BY <1>1, <1>2 DEF FlagsMatchState

\* Every step keeps the flags in agreement with the directory that holds them.
LEMMA FlagsNext == FlagsInv /\ [Next]_vars => FlagsInv'
<1> SUFFICES ASSUME FlagsInv, [Next]_vars PROVE FlagsInv'
  OBVIOUS
<1> USE DEF FlagsInv
<1>0. TypeInv' /\ TypeOK
  BY TypeNext DEF TypeInv
<1>1. CASE UNCHANGED vars
  BY <1>0, <1>1 DEF vars, FlagsMatchState, RequestsNotUploaded
<1>2. ASSUME NEW p \in Procs, NEW u \in Reports, PrepareNewCrashReport(p, u)
      PROVE  FlagsInv'
  BY <1>0, <1>2, RequestGoto, ScriptNames DEF PrepareNewCrashReport, FlagsMatchState
<1>3. ASSUME NEW p \in Procs, NEW u \in Reports, CleanNew(p, u)
      PROVE  FlagsInv'
  BY <1>0, <1>3 DEF CleanNew, procVars, FlagsMatchState, RequestsNotUploaded
<1>4. ASSUME NEW p \in Procs, NEW o \in Ops \cap (ByUUID \cup Cleaning \cup {"Visit"}),
             NEW u \in Reports, NEW d \in Dirs, Begin(p, o, u, d)
      PROVE  FlagsInv'
  <2>1. o \in DOMAIN Script
    BY <1>4, ScriptNames DEF ByUUID, Cleaning
  <2> QED
    BY <1>0, <1>4, <2>1, RequestGoto DEF Begin, fsVars, FlagsMatchState
<1>5. ASSUME NEW p \in Procs, AddAttachment(p) PROVE FlagsInv'
  BY <1>0, <1>5 DEF AddAttachment, procVars, FlagsMatchState, RequestsNotUploaded
<1>6. ASSUME NEW p \in Procs, NEW o \in {"Finish", "Drop"}, CloseNewReport(p, o)
      PROVE  FlagsInv'
  BY <1>0, <1>6, RequestGoto, ScriptNames DEF CloseNewReport, fsVars, FlagsMatchState
<1>7. ASSUME NEW p \in Procs, ResetAcquire(p) \/ StampLock(p) PROVE FlagsInv'
  <2>1. Advance(p) \/ Abort(p)
    BY <1>7 DEF ResetAcquire, StampLock
  <2>2. ~At(p, "read") /\ rep' = rep /\ meta' = meta
    BY <1>7 DEF ResetAcquire, StampLock, At
  <2> QED
    BY <1>0, <2>1, <2>2, RequestAdvance DEF FlagsMatchState
<1>8. ASSUME NEW p \in Procs, LocateReport(p) PROVE FlagsInv'
  <2>1. Advance(p) \/ \E o \in DOMAIN Script : Goto(p, o)
    BY <1>0, <1>8, ScriptNames DEF LocateReport, TypeOK
  <2>2. ~At(p, "read") /\ rep' = rep /\ meta' = meta
    BY <1>8 DEF LocateReport, At
  <2> QED
    BY <1>0, <2>1, <2>2, RequestAdvance, RequestGoto DEF FlagsMatchState
<1>9. ASSUME NEW p \in Procs, CleaningReadMetadata(p) PROVE FlagsInv'
  <2>1. FlagsMatchState'
    BY <1>9 DEF CleaningReadMetadata, fsVars, FlagsMatchState
  <2>2. CASE \E o \in DOMAIN Script : Goto(p, o)
    <3>1. \A q \in Procs \ {p} : rep'[q] = rep[q]
      BY <1>0, <1>9 DEF CleaningReadMetadata, TypeOK
    <3> QED
      BY <1>0, <2>1, <2>2, <3>1, RequestGoto
  <2>3. CASE /\ Advance(p)
             /\ rep' = [rep EXCEPT ![p] = meta[dir[p]][cur[p]]]
             /\ op[p] = "Request" => ~meta[dir[p]][cur[p]].uploaded
    <3>1. \/ op' = op /\ at' = [at EXCEPT ![p] = @ + 1]
          \/ Goto(p, "Return")
      BY <2>3 DEF Advance
    <3> QED
      BY <1>0, <2>1, <2>3, <3>1 DEF RequestsNotUploaded, TypeOK, Goto
  <2> QED
    BY <1>9, <2>2, <2>3, ScriptNames DEF CleaningReadMetadata
<1>10. ASSUME NEW p \in Procs, OpenReport(p) \/ CheckLone(p) PROVE FlagsInv'
  <2>1. Advance(p) \/ \E o \in DOMAIN Script : Goto(p, o)
    BY <1>10, ScriptNames DEF OpenReport, CheckLone
  <2>2. ~At(p, "read") /\ rep' = rep /\ meta' = meta
    BY <1>10 DEF OpenReport, CheckLone, fsVars, At
  <2> QED
    BY <1>0, <2>1, <2>2, RequestAdvance, RequestGoto DEF FlagsMatchState
<1>11. ASSUME NEW p \in Procs, NEW o \in {"Success", "Failure"}, SendReport(p, o)
       PROVE  FlagsInv'
  BY <1>0, <1>11, RequestGoto, ScriptNames DEF SendReport, fsVars, FlagsMatchState
<1>12. ASSUME NEW p \in Procs, OpenMetadata(p) \/ RemoveMetadata(p) PROVE FlagsInv'
  <2>1. (Advance(p) \/ Abort(p)) /\ ~At(p, "read") /\ rep' = rep
    BY <1>12 DEF OpenMetadata, RemoveMetadata, At
  <2>2. \/ meta' = meta
        \/ \E d \in Dirs : meta' = [meta EXCEPT ![d][cur[p]] = TornMeta]
        \/ \E d \in Dirs : meta' = [meta EXCEPT ![d][cur[p]] = NoMeta]
    BY <1>0, <1>12, Local DEF OpenMetadata, RemoveMetadata
  <2>3. FlagsMatchState'
    BY <1>0, <2>2, Local, FlagUpdate DEF FlagsMatchState, TornMeta, NoMeta
  <2> QED
    BY <1>0, <2>1, <2>3, RequestAdvance
<1>13. ASSUME NEW p \in Procs, WriteMetadata(p) PROVE FlagsInv'
  <2>1. Advance(p) /\ ~At(p, "read") /\ rep' = rep
    BY <1>13 DEF WriteMetadata, At
  <2>2. op[p] \in {"Finish", "Success", "Failure", "Skip", "Request"} /\ (op[p] = "Request" => at[p] > 4)
    BY <1>13, ControlType, CallOrder DEF WriteMetadata
  <2>3. IF op[p] \in {"Success", "Skip"}
          THEN WriteDir(p) = "completed" /\ ~NewContents(p).requested
          ELSE WriteDir(p) = "pending" /\ ~NewContents(p).uploaded
    BY <2>2 DEF WriteDir, NewContents, ValidMeta, RequestsNotUploaded
  <2>4. \/ meta' = meta
        \/ meta' = [meta EXCEPT ![WriteDir(p)][cur[p]] = NewContents(p)]
    BY <1>13 DEF WriteMetadata
  <2>5. FlagsMatchState'
    BY <1>0, <2>3, <2>4, Local, FlagUpdate DEF FlagsMatchState
  <2> QED
    BY <1>0, <2>1, <2>5, RequestAdvance
<1>14. ASSUME NEW p \in Procs, MoveReport(p) \/ RemoveReport(p) PROVE FlagsInv'
  <2>1. (Advance(p) \/ Abort(p)) /\ ~At(p, "read") /\ rep' = rep /\ meta' = meta
    BY <1>14 DEF MoveReport, RemoveReport, At
  <2> QED
    BY <1>0, <2>1, RequestAdvance DEF FlagsMatchState
<1>15. ASSUME NEW p \in Procs,
              RemoveAttachmentsByUUID(p) \/ RemoveExpiredLock(p) \/ RemoveNewReport(p)
       PROVE  FlagsInv'
  <2>1. (Advance(p) \/ Abort(p)) /\ ~At(p, "read") /\ rep' = rep /\ meta' = meta
    BY <1>15 DEF RemoveAttachmentsByUUID, RemoveExpiredLock, RemoveNewReport, At
  <2> QED
    BY <1>0, <2>1, RequestAdvance DEF FlagsMatchState
<1>16. ASSUME NEW p \in Procs, ReleaseLock(p) PROVE FlagsInv'
  BY <1>0, <1>16 DEF ReleaseLock, FlagsMatchState, RequestsNotUploaded
<1>17. ASSUME NEW p \in Procs, Unlocked(p) PROVE FlagsInv'
  <2>1. FlagsMatchState'
    BY <1>17 DEF Unlocked, fsVars, FlagsMatchState
  <2>2. CASE Goto(p, "Idle") /\ rep' = [rep EXCEPT ![p] = NoMeta]
    BY <1>0, <2>1, <2>2, RequestGoto, ScriptNames DEF TypeOK
  <2>3. CASE Advance(p) /\ rep' = rep
    <3>1. ~At(p, "read")
      BY <1>17 DEF Unlocked, At
    <3> QED
      BY <1>0, <2>1, <2>3, <3>1, RequestAdvance
  <2> QED
    BY <1>17, <2>2, <2>3 DEF Unlocked
<1>18. ASSUME NEW p \in Procs, FailCall(p) PROVE FlagsInv'
  <2>1. \/ Goto(p, "Purge") \/ Goto(p, "Failure") \/ Abort(p)
        \/ Advance(p) /\ ~At(p, "read")
    BY <1>18 DEF FailCall, At
  <2>2. rep' = rep /\ FlagsMatchState'
    BY <1>18 DEF FailCall, fsVars, FlagsMatchState
  <2>3. Abort(p) => \E o \in DOMAIN Script : Goto(p, o)
    BY ScriptNames DEF Abort
  <2> QED
    BY <1>0, <2>1, <2>2, <2>3, RequestAdvance, RequestGoto, ScriptNames
<1>19. ASSUME NEW p \in Procs, Crash(p) PROVE FlagsInv'
  BY <1>0, <1>19, RequestGoto, ScriptNames DEF Crash, FlagsMatchState, TypeOK
<1> QED
  BY <1>1, <1>2, <1>3, <1>4, <1>5, <1>6, <1>7, <1>8, <1>9, <1>10, <1>11, <1>12, <1>13,
     <1>14, <1>15, <1>16, <1>17, <1>18, <1>19
  DEF Next, Start, Call, Write

\* Whatever interleaves, dies or fails, upload_explicitly_requested is set only
\* in pending/ and the uploaded attribute only in completed/.
THEOREM FlagsCorrect == Spec => []FlagsMatchState
<1>1. Init => FlagsInv
  <2> SUFFICES ASSUME Init PROVE FlagsInv
    OBVIOUS
  <2>1. FlagsMatchState
    BY DEF Init, FlagsMatchState, NoMeta, Dirs
  <2>2. RequestsNotUploaded
    BY DEF Init, RequestsNotUploaded
  <2> QED
    BY <2>1, <2>2, TypeInit DEF FlagsInv
<1>2. FlagsInv => FlagsMatchState
  BY DEF FlagsInv
<1> QED
  BY <1>1, FlagsNext, <1>2, PTL DEF Spec

----------------------------------------------------------------------------
(***************************************************************************)
(* The lock protects.                                                      *)
(***************************************************************************)

\* After ResetAcquire() succeeded, the lock is the process's to remove.
LockedAfterAcquire ==
    \A p \in Procs : Script[op[p]][1] = "lock" /\ at[p] > 1 => dir[p] \in own[p]

\* Between operations a process holds nothing.
IdleUnlocked == \A p \in Procs : op[p] \in {"Idle", "Writing"} => own[p] = {}

\* The lock that CleanReportsInState() is about to break is a dead process's.
BreaksDeadLocks ==
    \A p \in Procs : op[p] = "CleanLock" /\ at[p] <= 3 => lock[dir[p]][cur[p]].owner = Crashed

CleanersClean == \A p \in Procs : op[p] \in Cleaning => p \in Cleaners

LockInv ==
    /\ TypeInv
    /\ LockHeldByOwner
    /\ LockedAfterAcquire
    /\ IdleUnlocked
    /\ BreaksDeadLocks
    /\ CleanersClean

\* A call that touches no lock, and what p does after it.
LEMMA LockQuiet ==
    ASSUME LockInv, NEW p \in Procs, UNCHANGED <<lock, own, cur, dir>>, TypeInv',
           \/ Advance(p) /\ ~At(p, "lock")
           \/ Abort(p)
           \/ \E o \in {"Purge", "Success", "Failure", "Return", "Orphan"} : Goto(p, o)
    PROVE  LockInv'
<1>0. ControlOK
  BY ControlType DEF LockInv
<1>1. LockHeldByOwner'
  BY DEF LockInv, LockHeldByOwner
<1>2. CASE op' = op /\ at' = [at EXCEPT ![p] = @ + 1] /\ ~At(p, "lock")
  <2>1. Script[op[p]][1] = "lock" => at[p] > 1
    BY <1>0, <1>2, CallOrder DEF ControlOK
  <2>2. LockedAfterAcquire'
    BY <1>0, <1>2, <2>1 DEF LockInv, LockedAfterAcquire, ControlOK
  <2>3. BreaksDeadLocks'
    BY <1>0, <1>2 DEF LockInv, BreaksDeadLocks, ControlOK
  <2> QED
    BY <1>1, <1>2, <2>2, <2>3 DEF LockInv, IdleUnlocked, CleanersClean
<1>3. ASSUME NEW o \in {"Purge", "Success", "Failure", "Return", "Orphan", "Drop"}, Goto(p, o)
      PROVE  LockInv'
  BY <1>0, <1>1, <1>3
  DEF Goto, LockInv, LockedAfterAcquire, IdleUnlocked, BreaksDeadLocks, CleanersClean,
      Cleaning, ControlOK
<1> QED
  BY <1>2, <1>3 DEF Advance, Abort

\* A process removes a lock file that is its own: nobody else loses one.
LEMMA LockFreed ==
    ASSUME TypeOK, LockHeldByOwner, NEW p \in Procs, NEW d \in own[p],
           lock' = [lock EXCEPT ![d][cur[p]] = NoLock],
           own' = [own EXCEPT ![p] = @ \ {d}],
           cur' = cur
    PROVE  /\ LockHeldByOwner'
           /\ \A e \in Dirs, u \in Reports :
                lock[e][u].owner = Crashed => lock'[e][u].owner = Crashed
<1>1. d \in Dirs /\ cur[p] \in Reports /\ lock[d][cur[p]].owner = p
  BY DEF TypeOK, LockHeldByOwner
<1>2. \A e \in Dirs, u \in Reports :
        lock'[e][u] = IF e = d /\ u = cur[p] THEN NoLock ELSE lock[e][u]
  BY <1>1 DEF TypeOK
<1>3. ASSUME NEW q \in Procs, NEW e \in own'[q] PROVE lock'[e][cur'[q]].owner = q
  <2>1. e \in own[q] /\ e \in Dirs /\ cur[q] \in Reports /\ (q = p => e # d)
    BY <1>3 DEF TypeOK
  <2>2. lock[e][cur[q]].owner = q
    BY <2>1 DEF LockHeldByOwner
  <2> QED
    BY <1>1, <1>2, <2>1, <2>2
<1>4. LockHeldByOwner'
  BY <1>3 DEF LockHeldByOwner
<1> QED
  BY <1>1, <1>2, <1>4, ProcsAssumption

\* At most one process breaks locks, and none is suspended for days.
OneCleaner == (\A c, e \in Cleaners : c = e) /\ ~StallPossible

\* Creating a lock file, which fails if there is one, keeps the lock invariant.
LEMMA LockAcquire ==
    ASSUME LockInv, TypeInv', NEW p \in Procs, ResetAcquire(p)
    PROVE  LockInv'
<1>0. ControlOK /\ TypeOK
  BY ControlType DEF LockInv, TypeInv
<1> DEFINE d == LockDir(p)
           u == cur[p]
<1>1. d \in Dirs /\ u \in Reports
  BY <1>0, Local
<1>2. CASE lock[d][u].owner # NoOwner
  BY <1>2, LockQuiet DEF ResetAcquire
<1>3. CASE lock[d][u].owner = NoOwner
  <2>1. /\ lock' = [lock EXCEPT ![d][u] = [owner |-> p, stamped |-> FALSE]]
        /\ own' = [own EXCEPT ![p] = @ \cup {d}]
        /\ Advance(p)
        /\ cur' = cur /\ dir' = dir
    BY <1>3 DEF ResetAcquire
  <2>2. \A e \in Dirs, v \in Reports :
          lock'[e][v].owner = IF e = d /\ v = u THEN p ELSE lock[e][v].owner
    BY <1>0, <1>1, <2>1 DEF TypeOK
  <2>3. LockHeldByOwner'
    <3>1. ASSUME NEW q \in Procs, NEW e \in own'[q] PROVE lock'[e][cur'[q]].owner = q
      <4>1. e \in Dirs /\ cur[q] \in Reports /\ (e \in own[q] \/ (q = p /\ e = d))
        BY <1>0, <1>1, <2>1, <3>1 DEF TypeOK
      <4>2. e \in own[q] => lock[e][cur[q]].owner = q
        BY DEF LockInv, LockHeldByOwner
      <4> QED
        BY <1>3, <2>1, <2>2, <4>1, <4>2, ProcsAssumption
    <3> QED
      BY <3>1 DEF LockHeldByOwner
  <2>4. op[p] \notin {"Idle", "Writing", "CleanLock"}
    <3>1. At(p, "lock") \/ At(p, "lock2")
      BY DEF ResetAcquire
    <3> QED
      BY <1>0, <3>1, CallOrder DEF At
  <2>5. \/ op' = op /\ at' = [at EXCEPT ![p] = @ + 1]
        \/ Goto(p, "Return")
    BY <2>1 DEF Advance
  <2>6. LockedAfterAcquire'
    <3>1. Script[op[p]][1] = "lock" => dir[p] \in own'[p]
      <4>1. CASE At(p, "lock")
        BY <1>0, <2>1, <4>1 DEF LockDir, TypeOK
      <4>2. CASE At(p, "lock2")
        BY <1>0, <2>1, <4>2, CallOrder DEF LockInv, LockedAfterAcquire, TypeOK
      <4> QED
        BY <4>1, <4>2 DEF ResetAcquire
    <3>2. \A q \in Procs : own[q] \subseteq own'[q]
      BY <1>0, <2>1 DEF TypeOK
    <3> QED
      BY <1>0, <2>1, <2>5, <3>1, <3>2 DEF LockInv, LockedAfterAcquire, ControlOK, Goto
  <2>7. IdleUnlocked' /\ CleanersClean'
    <3>1. \A q \in Procs : op'[q] = IF q = p THEN op'[p] ELSE op[q]
      BY <1>0, <2>5 DEF ControlOK, Goto
    <3>2. op'[p] = op[p] \/ op'[p] = "Return"
      BY <1>0, <2>5 DEF ControlOK, Goto
    <3>3. \A q \in Procs \ {p} : own'[q] = own[q]
      BY <1>0, <2>1 DEF TypeOK
    <3> QED
      BY <2>4, <3>1, <3>2, <3>3 DEF LockInv, IdleUnlocked, CleanersClean, Cleaning
  <2>8. BreaksDeadLocks'
    <3> SUFFICES ASSUME NEW q \in Procs, op'[q] = "CleanLock", at'[q] <= 3
                 PROVE  lock'[dir'[q]][cur'[q]].owner = Crashed
      BY DEF BreaksDeadLocks
    <3>1. q # p /\ op[q] = "CleanLock" /\ at[q] <= 3
      BY <1>0, <2>4, <2>5 DEF ControlOK, Goto
    <3>2. lock[dir[q]][cur[q]].owner = Crashed /\ dir[q] \in Dirs /\ cur[q] \in Reports
      BY <1>0, <3>1 DEF LockInv, BreaksDeadLocks, TypeOK
    <3> QED
      BY <1>3, <2>1, <2>2, <3>2, ProcsAssumption
  <2> QED
    BY <2>3, <2>6, <2>7, <2>8 DEF LockInv
<1> QED
  BY <1>2, <1>3

\* Dropping the lock of a directory that has not got the report keeps it.
LEMMA LockLocate ==
    ASSUME LockInv, TypeInv', NEW p \in Procs, LocateReport(p)
    PROVE  LockInv'
<1>0. ControlOK /\ TypeOK /\ TypeOK'
  BY ControlType DEF LockInv, TypeInv
<1>1. At(p, "check") /\ ~At(p, "lock") /\ op[p] \notin {"Idle", "Writing", "CleanLock"}
  BY <1>0, CallOrder DEF LocateReport, At
<1>2. CASE loc[cur[p]] = dir[p]
  BY <1>1, <1>2, LockQuiet DEF LocateReport
<1>3. CASE loc[cur[p]] # dir[p]
  <2>1. dir[p] \in own[p]
    BY <1>0, <1>1, CallOrder DEF LockInv, LockedAfterAcquire
  <2>2. /\ lock' = [lock EXCEPT ![dir[p]][cur[p]] = NoLock]
        /\ own' = [own EXCEPT ![p] = @ \ {dir[p]}]
        /\ cur' = cur
        /\ \A q \in Procs \ {p} : dir'[q] = dir[q]
    BY <1>0, <1>3 DEF LocateReport, TypeOK
  <2>3. /\ LockHeldByOwner'
        /\ \A e \in Dirs, u \in Reports :
             lock[e][u].owner = Crashed => lock'[e][u].owner = Crashed
    BY <1>0, <2>1, <2>2, LockFreed DEF LockInv
  <2>4. PICK o \in {op[p], "Orphan", "Return"} : Goto(p, o)
    BY <1>3 DEF LocateReport
  <2>5. /\ op'[p] = o /\ at'[p] = 1
        /\ \A q \in Procs \ {p} : op'[q] = op[q] /\ at'[q] = at[q] /\ own'[q] = own[q]
    BY <1>0, <2>2, <2>4 DEF Goto, TypeOK
  <2>6. LockedAfterAcquire' /\ IdleUnlocked' /\ CleanersClean'
    BY <1>0, <1>1, <2>2, <2>5
    DEF LockInv, LockedAfterAcquire, IdleUnlocked, CleanersClean, Cleaning
  <2>7. BreaksDeadLocks'
    <3> SUFFICES ASSUME NEW q \in Procs, op'[q] = "CleanLock", at'[q] <= 3
                 PROVE  lock'[dir'[q]][cur'[q]].owner = Crashed
      BY DEF BreaksDeadLocks
    <3>1. q # p
      BY <1>1, <2>4, <2>5
    <3> QED
      BY <1>0, <2>2, <2>3, <2>5, <3>1 DEF LockInv, BreaksDeadLocks, TypeOK
  <2> QED
    BY <2>3, <2>6, <2>7 DEF LockInv
<1> QED
  BY <1>2, <1>3

\* Every step keeps it, if one process cleans and none outlasts its lock.
LEMMA LockNext ==
    ASSUME OneCleaner
    PROVE  LockInv /\ [Next]_vars => LockInv'
<1> SUFFICES ASSUME LockInv, [Next]_vars PROVE LockInv'
  OBVIOUS
<1>0. TypeInv' /\ ControlOK /\ TypeOK /\ TypeOK'
  BY TypeNext, ControlType DEF LockInv, TypeInv
<1> USE DEF LockInv
<1>1. CASE UNCHANGED vars
  BY <1>0, <1>1
  DEF vars, LockHeldByOwner, LockedAfterAcquire, IdleUnlocked, BreaksDeadLocks, CleanersClean
\* An idle process starts something.
<1>2. ASSUME NEW p \in Procs, op[p] \in {"Idle", "Writing"}, UNCHANGED <<lock, own>>,
             NEW o \in DOMAIN Script, Goto(p, o),
             \A q \in Procs \ {p} : cur'[q] = cur[q] /\ dir'[q] = dir[q],
             o \in Cleaning => p \in Cleaners,
             o = "CleanLock" => lock[dir'[p]][cur'[p]].owner = Crashed
      PROVE  LockInv'
  <2>1. own[p] = {}
    BY <1>2 DEF IdleUnlocked
  <2>2. op'[p] = o /\ at'[p] = 1 /\ \A q \in Procs \ {p} : op'[q] = op[q] /\ at'[q] = at[q]
    BY <1>0, <1>2 DEF Goto, ControlOK
  <2>3. LockHeldByOwner' /\ LockedAfterAcquire' /\ IdleUnlocked'
    BY <1>2, <2>1, <2>2 DEF LockHeldByOwner, LockedAfterAcquire, IdleUnlocked
  <2>4. CleanersClean' /\ BreaksDeadLocks'
    BY <1>2, <2>2 DEF CleanersClean, BreaksDeadLocks
  <2> QED
    BY <1>0, <2>3, <2>4
<1>3. ASSUME NEW p \in Procs, NEW u \in Reports, PrepareNewCrashReport(p, u)
      PROVE  LockInv'
  <2>1. "Writing" \in DOMAIN Script /\ "Writing" \notin Cleaning
    BY ScriptNames DEF Cleaning
  <2> QED
    BY <1>0, <1>2, <1>3, <2>1 DEF PrepareNewCrashReport, TypeOK
<1>4. ASSUME NEW p \in Procs, NEW u \in Reports, CleanNew(p, u)
      PROVE  LockInv'
  BY <1>0, <1>4
  DEF CleanNew, procVars, LockHeldByOwner, LockedAfterAcquire, IdleUnlocked, BreaksDeadLocks,
      CleanersClean
<1>5. ASSUME NEW p \in Procs, NEW o \in Ops \cap (ByUUID \cup Cleaning \cup {"Visit"}),
             NEW u \in Reports, NEW d \in Dirs, Begin(p, o, u, d)
      PROVE  LockInv'
  <2>1. o \in DOMAIN Script
    BY <1>5, ScriptNames DEF ByUUID, Cleaning
  <2>2. dir'[p] = d /\ cur'[p] = u /\ \A q \in Procs \ {p} : cur'[q] = cur[q] /\ dir'[q] = dir[q]
    BY <1>0, <1>5 DEF Begin, TypeOK
  <2>3. o = "CleanLock" => lock[d][u].owner = Crashed
    BY <1>5 DEF Begin, MayBegin, ByUUID, Expired, OneCleaner
  <2> QED
    BY <1>2, <1>5, <2>1, <2>2, <2>3 DEF Begin, fsVars
<1>6. ASSUME NEW p \in Procs, AddAttachment(p) PROVE LockInv'
  BY <1>0, <1>6
  DEF AddAttachment, procVars, LockHeldByOwner, LockedAfterAcquire, IdleUnlocked,
      BreaksDeadLocks, CleanersClean
<1>7. ASSUME NEW p \in Procs, NEW o \in {"Finish", "Drop"}, CloseNewReport(p, o)
      PROVE  LockInv'
  <2>1. o \in DOMAIN Script /\ o \notin Cleaning
    BY ScriptNames DEF Cleaning
  <2> QED
    BY <1>0, <1>2, <1>7, <2>1 DEF CloseNewReport, fsVars, TypeOK
<1>8. ASSUME NEW p \in Procs, ResetAcquire(p) \/ LocateReport(p) PROVE LockInv'
  BY <1>0, <1>8, LockAcquire, LockLocate
<1>9. ASSUME NEW p \in Procs, StampLock(p) PROVE LockInv'
  <2> DEFINE d == LockDir(p)
             u == cur[p]
  <2>1. \A e \in Dirs, v \in Reports : lock'[e][v].owner = lock[e][v].owner
    <3>1. d \in Dirs /\ u \in Reports
      BY <1>0, Local
    <3> QED
      BY <1>0, <1>9, <3>1 DEF StampLock, TypeOK
  <2>2. /\ own' = own /\ cur' = cur /\ dir' = dir
        /\ ~At(p, "lock")
        /\ Advance(p)
    BY <1>9 DEF StampLock, At
  <2>3. LockHeldByOwner'
    BY <1>0, <2>1, <2>2 DEF LockHeldByOwner, TypeOK
  <2>4. \/ op' = op /\ at' = [at EXCEPT ![p] = @ + 1]
        \/ Goto(p, "Return")
    BY <2>2 DEF Advance
  <2>5. Script[op[p]][1] = "lock" => at[p] > 1
    BY <1>0, <2>2, CallOrder DEF ControlOK
  <2>6. LockedAfterAcquire' /\ IdleUnlocked' /\ CleanersClean'
    BY <1>0, <2>2, <2>4, <2>5
    DEF LockedAfterAcquire, IdleUnlocked, CleanersClean, Cleaning, ControlOK, Goto
  <2>7. BreaksDeadLocks'
    <3> SUFFICES ASSUME NEW q \in Procs, op'[q] = "CleanLock", at'[q] <= 3
                 PROVE  lock'[dir'[q]][cur'[q]].owner = Crashed
      BY DEF BreaksDeadLocks
    <3>1. op[q] = "CleanLock" /\ at[q] <= 3
      BY <1>0, <2>4 DEF ControlOK, Goto
    <3>2. lock[dir[q]][cur[q]].owner = Crashed
      BY <3>1 DEF BreaksDeadLocks
    <3>3. dir'[q] = dir[q] /\ cur'[q] = cur[q] /\ dir[q] \in Dirs /\ cur[q] \in Reports
      BY <1>0, <2>2, Local
    <3> QED
      BY <2>1, <3>2, <3>3
  <2> QED
    BY <1>0, <2>3, <2>6, <2>7
<1>10. ASSUME NEW p \in Procs,
              \/ CleaningReadMetadata(p) \/ OpenReport(p) \/ CheckLone(p)
              \/ \E o \in {"Success", "Failure"} : SendReport(p, o)
       PROVE  LockInv'
  <2>1. /\ UNCHANGED <<lock, own, cur, dir>>
        /\ \/ Advance(p)
           \/ \E o \in {"Purge", "Success", "Failure", "Return", "Orphan"} : Goto(p, o)
    BY <1>10 DEF CleaningReadMetadata, OpenReport, CheckLone, SendReport, fsVars
  <2>2. ~At(p, "lock")
    BY <1>10 DEF CleaningReadMetadata, OpenReport, CheckLone, SendReport, At
  <2> QED
    BY <1>0, <2>1, <2>2, LockQuiet
<1>11. ASSUME NEW p \in Procs,
              \/ OpenMetadata(p) \/ WriteMetadata(p) \/ MoveReport(p) \/ RemoveReport(p)
              \/ RemoveMetadata(p) \/ RemoveAttachmentsByUUID(p) \/ RemoveNewReport(p)
       PROVE  LockInv'
  <2>1. UNCHANGED <<lock, own, cur, dir>> /\ (Advance(p) \/ Abort(p))
    BY <1>11 DEF OpenMetadata, WriteMetadata, MoveReport, RemoveReport, RemoveMetadata,
                 RemoveAttachmentsByUUID, RemoveNewReport
  <2>2. ~At(p, "lock")
    BY <1>11 DEF OpenMetadata, WriteMetadata, MoveReport, RemoveReport, RemoveMetadata,
                 RemoveAttachmentsByUUID, RemoveNewReport, At
  <2> QED
    BY <1>0, <2>1, <2>2, LockQuiet
<1>12. ASSUME NEW p \in Procs, RemoveExpiredLock(p) PROVE LockInv'
  <2>1. op[p] = "CleanLock" /\ at[p] = 3 /\ p \in Cleaners
    BY <1>0, <1>12, CallOrder DEF RemoveExpiredLock, CleanersClean, Cleaning
  <2>2. lock[dir[p]][cur[p]].owner = Crashed /\ dir[p] \in Dirs /\ cur[p] \in Reports
    BY <1>0, <2>1, Local DEF BreaksDeadLocks
  <2>3. own' = own /\ cur' = cur /\ dir' = dir
    BY <1>12 DEF RemoveExpiredLock
  <2>4. \A e \in Dirs, v \in Reports :
          lock[e][v].owner # Crashed => lock'[e][v].owner = lock[e][v].owner
    BY <1>0, <1>12, <2>2 DEF RemoveExpiredLock, TypeOK
  <2>5. LockHeldByOwner'
    BY <1>0, <2>3, <2>4, ProcsAssumption DEF LockHeldByOwner, TypeOK
  <2>6. \/ op' = op /\ at' = [at EXCEPT ![p] = @ + 1]
        \/ Goto(p, "Return")
    BY <1>12, <2>1 DEF RemoveExpiredLock, Advance, Abort
  <2>7. Script[op[p]][1] # "lock"
    BY <2>1, ScriptCalls
  <2>8. LockedAfterAcquire' /\ IdleUnlocked' /\ CleanersClean'
    BY <1>0, <2>3, <2>6, <2>7
    DEF LockedAfterAcquire, IdleUnlocked, CleanersClean, Cleaning, ControlOK, Goto
  <2>9. BreaksDeadLocks'
    <3> SUFFICES ASSUME NEW q \in Procs, op'[q] = "CleanLock", at'[q] <= 3 PROVE FALSE
      BY DEF BreaksDeadLocks
    <3>1. q # p /\ op[q] = "CleanLock"
      BY <1>0, <2>1, <2>6 DEF ControlOK, Goto
    <3> QED
      BY <2>1, <3>1 DEF CleanersClean, Cleaning, OneCleaner
  <2> QED
    BY <1>0, <2>5, <2>8, <2>9
<1>13. ASSUME NEW p \in Procs, ReleaseLock(p) PROVE LockInv'
  <2> DEFINE d == IF "completed" \in own[p] THEN "completed" ELSE "pending"
  <2>1. d \in own[p]
    BY <1>0, <1>13 DEF ReleaseLock, TypeOK, Dirs
  <2>2. /\ lock' = [lock EXCEPT ![d][cur[p]] = NoLock]
        /\ own' = [own EXCEPT ![p] = @ \ {d}]
        /\ UNCHANGED <<op, at, cur, dir>>
    BY <1>13 DEF ReleaseLock
  <2>3. /\ LockHeldByOwner'
        /\ \A e \in Dirs, u \in Reports :
             lock[e][u].owner = Crashed => lock'[e][u].owner = Crashed
    BY <1>0, <2>1, <2>2, LockFreed
  <2>4. op[p] \in {"Return", "Drop", "Failure"} /\ at[p] = 1
    BY <1>0, <1>13, CallOrder DEF ReleaseLock
  <2>5. \A q \in Procs \ {p} : own'[q] = own[q]
    BY <1>0, <2>2 DEF TypeOK
  <2>6. LockedAfterAcquire' /\ IdleUnlocked' /\ CleanersClean'
    BY <2>2, <2>4, <2>5 DEF LockedAfterAcquire, IdleUnlocked, CleanersClean
  <2>7. BreaksDeadLocks'
    BY <1>0, <2>2, <2>3 DEF BreaksDeadLocks, TypeOK
  <2> QED
    BY <1>0, <2>3, <2>6, <2>7
<1>14. ASSUME NEW p \in Procs, Unlocked(p) PROVE LockInv'
  <2>1. /\ own[p] = {} /\ UNCHANGED <<lock, own, cur>>
        /\ \A q \in Procs \ {p} : dir'[q] = dir[q]
    BY <1>0, <1>14 DEF Unlocked, fsVars, TypeOK
  <2>2. op[p] \in {"Return", "Drop", "Failure"} /\ ~At(p, "lock")
    BY <1>0, <1>14, CallOrder DEF Unlocked, At
  <2>3. CASE Goto(p, "Idle")
    <3>1. op'[p] = "Idle" /\ at'[p] = 1 /\ \A q \in Procs \ {p} : op'[q] = op[q] /\ at'[q] = at[q]
      BY <1>0, <2>3 DEF Goto, ControlOK
    <3> QED
      BY <1>0, <2>1, <3>1
      DEF LockHeldByOwner, LockedAfterAcquire, IdleUnlocked, BreaksDeadLocks, CleanersClean,
          Cleaning
  <2>4. CASE Advance(p) /\ dir' = dir
    BY <1>0, <2>1, <2>2, <2>4, LockQuiet
  <2> QED
    BY <1>14, <2>3, <2>4 DEF Unlocked
<1>15. ASSUME NEW p \in Procs, FailCall(p) PROVE LockInv'
  <2>1. \/ Goto(p, "Purge") \/ Goto(p, "Failure") \/ Abort(p)
        \/ Advance(p) /\ ~At(p, "lock")
    BY <1>15 DEF FailCall, At
  <2>2. UNCHANGED <<lock, own, cur, dir>>
    BY <1>15 DEF FailCall, fsVars
  <2> QED
    BY <1>0, <2>1, <2>2, LockQuiet
<1>16. ASSUME NEW p \in Procs, Crash(p) PROVE LockInv'
  <2>1. /\ own'[p] = {} /\ cur' = cur
        /\ \A q \in Procs \ {p} : own'[q] = own[q] /\ dir'[q] = dir[q]
    BY <1>0, <1>16 DEF Crash, TypeOK
  <2>2. op'[p] = "Idle" /\ at'[p] = 1 /\ \A q \in Procs \ {p} : op'[q] = op[q] /\ at'[q] = at[q]
    BY <1>0, <1>16 DEF Crash, Goto, ControlOK
  <2>3. \A e \in Dirs, v \in Reports :
          lock'[e][v].owner = IF lock[e][v].owner = p THEN Crashed ELSE lock[e][v].owner
    BY <1>0, <1>16 DEF Crash, TypeOK, LockFile
  <2>4. LockHeldByOwner'
    <3> SUFFICES ASSUME NEW q \in Procs, NEW e \in own'[q] PROVE lock'[e][cur'[q]].owner = q
      BY DEF LockHeldByOwner
    <3>1. q # p /\ e \in own[q] /\ e \in Dirs /\ cur'[q] = cur[q] /\ cur[q] \in Reports
      BY <1>0, <2>1 DEF TypeOK
    <3>2. lock[e][cur[q]].owner = q
      BY <3>1 DEF LockHeldByOwner
    <3> QED
      BY <2>3, <3>1, <3>2
  <2>5. LockedAfterAcquire' /\ IdleUnlocked' /\ CleanersClean'
    BY <2>1, <2>2 DEF LockedAfterAcquire, IdleUnlocked, CleanersClean, Cleaning
  <2>6. BreaksDeadLocks'
    <3> SUFFICES ASSUME NEW q \in Procs, op'[q] = "CleanLock", at'[q] <= 3
                 PROVE  lock'[dir'[q]][cur'[q]].owner = Crashed
      BY DEF BreaksDeadLocks
    <3>1. q # p /\ op[q] = "CleanLock" /\ at[q] <= 3
      BY <2>2
    <3>2. lock[dir[q]][cur[q]].owner = Crashed
      BY <3>1 DEF BreaksDeadLocks
    <3>3. dir'[q] = dir[q] /\ cur'[q] = cur[q] /\ dir[q] \in Dirs /\ cur[q] \in Reports
      BY <1>0, <2>1, <3>1, Local
    <3> QED
      BY <2>3, <3>2, <3>3
  <2> QED
    BY <1>0, <2>4, <2>5, <2>6
<1> QED
  BY <1>1, <1>3, <1>4, <1>5, <1>6, <1>7, <1>8, <1>9, <1>10, <1>11, <1>12, <1>13, <1>14,
     <1>15, <1>16
  DEF Next, Start, Call, Write

\* With one process that breaks expired locks, and lock files that expire only
\* after their creators died, ScopedLockFile is a lock: no two processes are
\* between ResetAcquire() and ~ScopedLockFile() for the same report and state.
THEOREM LockCorrect ==
    ASSUME OneCleaner
    PROVE  Spec => []LockHeldByOwner
<1>1. Init => LockInv
  <2> SUFFICES ASSUME Init PROVE LockInv
    OBVIOUS
  <2>1. \A p \in Procs : op[p] = "Idle" /\ at[p] = 1 /\ own[p] = {}
    BY DEF Init
  <2> QED
    BY <2>1, TypeInit
    DEF LockInv, LockHeldByOwner, LockedAfterAcquire, IdleUnlocked, BreaksDeadLocks,
        CleanersClean, Cleaning
<1>2. LockInv /\ [Next]_vars => LockInv'
  BY LockNext
<1>3. LockInv => LockHeldByOwner
  BY DEF LockInv
<1> QED
  BY <1>1, <1>2, <1>3, PTL DEF Spec

----------------------------------------------------------------------------
(***************************************************************************)
(* Where a process is when it makes a call, and where it goes from there.  *)
(***************************************************************************)

\* The places of the calls that change a report or its metadata, or lead to such a call,
\* in script s of operation o.
Sited(o, s) ==
    \A i \in 1..Len(s) :
      /\ s[i] = "create" => i = 3 /\ o = "Finish"
      /\ s[i] = "write" => <<o, i>> \in {<<"Failure", 3>>, <<"Finish", 4>>, <<"Success", 6>>,
                                         <<"Request", 7>>, <<"Skip", 8>>}
      /\ s[i] = "move" => <<o, i>> \in {<<"Success", 3>>, <<"Finish", 5>>, <<"Request", 5>>,
                                        <<"Skip", 9>>}
      /\ s[i] = "check" => i = 3 /\ o \in {"LookUp", "Upload", "Skip", "Delete", "Request",
                                           "CleanAttachments"}
      /\ s[i] = "read" => <<o, i>> \in {<<"Visit", 3>>, <<"LookUp", 4>>, <<"Upload", 4>>,
                                        <<"Skip", 4>>, <<"Request", 4>>}
      /\ s[i] = "open" => i = 5 /\ o = "Upload"
      /\ s[i] = "send" => i = 6 /\ o = "Upload"
      /\ s[i] = "lock" => i = 1 /\ o \in {"Finish", "LookUp", "Visit", "Upload", "Skip", "Delete",
                                          "Request", "CleanReport", "CleanMeta",
                                          "CleanAttachments"}
      /\ s[i] = "stamp" => i = 2 /\ o \in {"Finish", "LookUp", "Visit", "Upload", "Skip", "Delete",
                                           "Request", "CleanReport", "CleanMeta",
                                           "CleanAttachments"}
      /\ s[i] = "lock2" => <<o, i>> \in {<<"Success", 1>>, <<"Skip", 5>>}
      /\ s[i] = "stamp2" => <<o, i>> \in {<<"Success", 2>>, <<"Skip", 6>>}
      /\ s[i] = "rmMeta" => <<o, i>> \in {<<"CleanLock", 2>>, <<"Purge", 2>>, <<"Success", 4>>,
                                          <<"CleanMeta", 4>>, <<"Delete", 5>>, <<"Request", 8>>,
                                          <<"Skip", 10>>}
      /\ s[i] = "truncate" => <<o, i>> \in {<<"Failure", 2>>, <<"Success", 5>>, <<"Request", 6>>,
                                            <<"Skip", 7>>}
      /\ s[i] = "rmReport" => <<o, i>> \in {<<"CleanLock", 1>>, <<"Purge", 1>>, <<"Delete", 4>>,
                                            <<"CleanReport", 4>>}
      /\ s[i] = "rmAttachments" => <<o, i>> \in {<<"Orphan", 1>>, <<"CleanLock", 4>>,
                                                 <<"CleanReport", 5>>, <<"CleanMeta", 5>>,
                                                 <<"Delete", 6>>}
      /\ s[i] = "noMeta" => i = 3 /\ o = "CleanReport"
      /\ s[i] = "noReport" => i = 3 /\ o = "CleanMeta"
      /\ s[i] = "rmLock" => i = 3 /\ o = "CleanLock"
      /\ s[i] = "rmNew" => i = 2 /\ o = "Drop"
      /\ s[i] = "unlock" => i = 1 /\ o \in {"Return", "Drop", "Failure"}
      /\ s[i] = "none" => o \in {"Idle", "Writing"}

\* The operations whose first call is the lock of the directory they look in.
Locking == {"Finish", "LookUp", "Visit", "Upload", "Skip", "Delete", "Request", "CleanReport",
            "CleanMeta", "CleanAttachments"}

\* How many calls each operation makes, and which ones begin with the lock.
LEMMA ScriptSizes ==
    /\ Size("Finish") = 5 /\ Size("LookUp") = 4 /\ Size("Visit") = 3 /\ Size("Upload") = 6
    /\ Size("Success") = 6 /\ Size("Failure") = 3 /\ Size("Skip") = 10 /\ Size("Delete") = 6
    /\ Size("Request") = 8 /\ Size("CleanReport") = 5 /\ Size("CleanMeta") = 5
    /\ Size("CleanLock") = 4 /\ Size("CleanAttachments") = 3 /\ Size("Orphan") = 1
    /\ Size("Purge") = 2 /\ Size("Drop") = 2 /\ Size("Return") = 1
    /\ \A o \in Locking : Script[o][1] = "lock"
BY ScriptCalls DEF Size, Locking

\* The scripts have their calls there.
LEMMA ScriptSites == \A o \in DOMAIN Script : Sited(o, Script[o])
<1>1. Sited("Idle", Script["Idle"])
  BY ScriptCalls DEF Sited
<1>2. Sited("Writing", Script["Writing"])
  BY ScriptCalls DEF Sited
<1>3. Sited("Finish", Script["Finish"])
  <2>1. Sited("Finish", <<"lock", "stamp", "create", "write", "move">>)
    BY DEF Sited
  <2> QED
    BY <2>1, ScriptCalls
<1>4. Sited("LookUp", Script["LookUp"])
  BY ScriptCalls DEF Sited
<1>5. Sited("Visit", Script["Visit"])
  BY ScriptCalls DEF Sited
<1>6. Sited("Upload", Script["Upload"])
  BY ScriptCalls DEF Sited
<1>7. Sited("Success", Script["Success"])
  BY ScriptCalls DEF Sited
<1>8. Sited("Failure", Script["Failure"])
  BY ScriptCalls DEF Sited
<1>9. Sited("Skip", Script["Skip"])
  BY ScriptCalls DEF Sited
<1>10. Sited("Delete", Script["Delete"])
  BY ScriptCalls DEF Sited
<1>11. Sited("Request", Script["Request"])
  BY ScriptCalls DEF Sited
<1>12. Sited("CleanReport", Script["CleanReport"])
  <2>1. Sited("CleanReport", <<"lock", "stamp", "noMeta", "rmReport", "rmAttachments">>)
    BY DEF Sited
  <2> QED
    BY <2>1, ScriptCalls
<1>13. Sited("CleanMeta", Script["CleanMeta"])
  BY ScriptCalls DEF Sited
<1>14. Sited("CleanLock", Script["CleanLock"])
  <2>1. Sited("CleanLock", <<"rmReport", "rmMeta", "rmLock", "rmAttachments">>)
    BY DEF Sited
  <2> QED
    BY <2>1, ScriptCalls
<1>15. Sited("CleanAttachments", Script["CleanAttachments"])
  BY ScriptCalls DEF Sited
<1>16. Sited("Orphan", Script["Orphan"])
  BY ScriptCalls DEF Sited
<1>17. Sited("Purge", Script["Purge"])
  BY ScriptCalls DEF Sited
<1>18. Sited("Drop", Script["Drop"])
  BY ScriptCalls DEF Sited
<1>19. Sited("Return", Script["Return"])
  BY ScriptCalls DEF Sited
<1> QED
  BY ScriptNames, <1>1, <1>2, <1>3, <1>4, <1>5, <1>6, <1>7, <1>8, <1>9, <1>10, <1>11, <1>12, <1>13, <1>14, <1>15, <1>16, <1>17, <1>18, <1>19

\* p is about to make call n of operation o.
Sits(p, o, n) == op[p] = o /\ at[p] = n

\* ScriptSites, for the call that p is about to make.
LEMMA CallSites ==
    ASSUME ControlOK, NEW p \in Procs
    PROVE  /\ At(p, "create") => Sits(p, "Finish", 3)
           /\ At(p, "write") => \/ Sits(p, "Failure", 3) \/ Sits(p, "Finish", 4)
                                \/ Sits(p, "Success", 6) \/ Sits(p, "Request", 7)
                                \/ Sits(p, "Skip", 8)
           /\ At(p, "move") => \/ Sits(p, "Success", 3) \/ Sits(p, "Finish", 5)
                               \/ Sits(p, "Request", 5) \/ Sits(p, "Skip", 9)
           /\ At(p, "check") => at[p] = 3 /\ op[p] \in {"LookUp", "Upload", "Skip", "Delete",
                                                         "Request", "CleanAttachments"}
           /\ At(p, "read") => \/ Sits(p, "Visit", 3) \/ Sits(p, "LookUp", 4)
                               \/ Sits(p, "Upload", 4) \/ Sits(p, "Skip", 4)
                               \/ Sits(p, "Request", 4)
           /\ At(p, "open") => Sits(p, "Upload", 5)
           /\ At(p, "send") => Sits(p, "Upload", 6)
           /\ At(p, "lock") => at[p] = 1 /\ op[p] \in Locking
           /\ At(p, "stamp") => at[p] = 2 /\ op[p] \in Locking
           /\ At(p, "lock2") => Sits(p, "Success", 1) \/ Sits(p, "Skip", 5)
           /\ At(p, "stamp2") => Sits(p, "Success", 2) \/ Sits(p, "Skip", 6)
           /\ At(p, "rmMeta") => \/ Sits(p, "CleanLock", 2) \/ Sits(p, "Purge", 2)
                                 \/ Sits(p, "Success", 4) \/ Sits(p, "CleanMeta", 4)
                                 \/ Sits(p, "Delete", 5) \/ Sits(p, "Request", 8)
                                 \/ Sits(p, "Skip", 10)
           /\ At(p, "truncate") => \/ Sits(p, "Failure", 2) \/ Sits(p, "Success", 5)
                                   \/ Sits(p, "Request", 6) \/ Sits(p, "Skip", 7)
           /\ At(p, "rmReport") => \/ Sits(p, "CleanLock", 1) \/ Sits(p, "Purge", 1)
                                   \/ Sits(p, "Delete", 4) \/ Sits(p, "CleanReport", 4)
           /\ At(p, "rmAttachments") => \/ Sits(p, "Orphan", 1) \/ Sits(p, "CleanLock", 4)
                                        \/ Sits(p, "CleanReport", 5) \/ Sits(p, "CleanMeta", 5)
                                        \/ Sits(p, "Delete", 6)
           /\ At(p, "noMeta") => Sits(p, "CleanReport", 3)
           /\ At(p, "noReport") => Sits(p, "CleanMeta", 3)
           /\ At(p, "rmLock") => Sits(p, "CleanLock", 3)
           /\ At(p, "rmNew") => Sits(p, "Drop", 2)
           /\ At(p, "unlock") => at[p] = 1 /\ op[p] \in {"Return", "Drop", "Failure"}
<1>1. op[p] \in DOMAIN Script /\ at[p] \in 1..Len(Script[op[p]])
  BY DEF ControlOK, InScript, Size
<1>2. Sited(op[p], Script[op[p]])
  BY <1>1, ScriptSites
<1> DEFINE s == Script[op[p]]
           i == at[p]
           o == op[p]
<1> HIDE DEF s, i, o
<1>3. Sited(o, s) /\ i \in 1..Len(s)
  BY <1>1, <1>2 DEF s, i, o
<1>4. /\ s[i] = "create" => i = 3 /\ o = "Finish"
      /\ s[i] = "write" => <<o, i>> \in {<<"Failure", 3>>, <<"Finish", 4>>, <<"Success", 6>>,
                                         <<"Request", 7>>, <<"Skip", 8>>}
      /\ s[i] = "move" => <<o, i>> \in {<<"Success", 3>>, <<"Finish", 5>>, <<"Request", 5>>,
                                        <<"Skip", 9>>}
      /\ s[i] = "check" => i = 3 /\ o \in {"LookUp", "Upload", "Skip", "Delete", "Request",
                                           "CleanAttachments"}
      /\ s[i] = "read" => <<o, i>> \in {<<"Visit", 3>>, <<"LookUp", 4>>, <<"Upload", 4>>,
                                        <<"Skip", 4>>, <<"Request", 4>>}
  BY <1>3, Zenon DEF Sited
<1>5. /\ s[i] = "open" => i = 5 /\ o = "Upload"
      /\ s[i] = "send" => i = 6 /\ o = "Upload"
      /\ s[i] = "lock" => i = 1 /\ o \in Locking
      /\ s[i] = "stamp" => i = 2 /\ o \in Locking
      /\ s[i] = "lock2" => <<o, i>> \in {<<"Success", 1>>, <<"Skip", 5>>}
      /\ s[i] = "stamp2" => <<o, i>> \in {<<"Success", 2>>, <<"Skip", 6>>}
  BY <1>3, Zenon DEF Sited, Locking
<1>6. /\ s[i] = "rmMeta" => <<o, i>> \in {<<"CleanLock", 2>>, <<"Purge", 2>>, <<"Success", 4>>,
                                          <<"CleanMeta", 4>>, <<"Delete", 5>>, <<"Request", 8>>,
                                          <<"Skip", 10>>}
      /\ s[i] = "truncate" => <<o, i>> \in {<<"Failure", 2>>, <<"Success", 5>>, <<"Request", 6>>,
                                            <<"Skip", 7>>}
      /\ s[i] = "rmReport" => <<o, i>> \in {<<"CleanLock", 1>>, <<"Purge", 1>>, <<"Delete", 4>>,
                                            <<"CleanReport", 4>>}
      /\ s[i] = "rmAttachments" => <<o, i>> \in {<<"Orphan", 1>>, <<"CleanLock", 4>>,
                                                 <<"CleanReport", 5>>, <<"CleanMeta", 5>>,
                                                 <<"Delete", 6>>}
  BY <1>3, Zenon DEF Sited
<1>7. /\ s[i] = "noMeta" => i = 3 /\ o = "CleanReport"
      /\ s[i] = "noReport" => i = 3 /\ o = "CleanMeta"
      /\ s[i] = "rmLock" => i = 3 /\ o = "CleanLock"
      /\ s[i] = "rmNew" => i = 2 /\ o = "Drop"
      /\ s[i] = "unlock" => i = 1 /\ o \in {"Return", "Drop", "Failure"}
  BY <1>3, Zenon DEF Sited
<1>8. \A c : At(p, c) <=> s[i] = c
  BY DEF At, s, i
<1>9. \A a, n : Sits(p, a, n) <=> (o = a /\ i = n)
  BY DEF Sits, o, i
<1> QED
  BY <1>4, <1>5, <1>6, <1>7, <1>8, <1>9 DEF o, i

\* Where p goes after a call.
Went(p, o, n) == op'[p] = o /\ at'[p] = n

\* No other process moves or changes what it knows or owns.
Elsewhere(p) ==
    \A q \in Procs \ {p} :
      /\ op'[q] = op[q] /\ at'[q] = at[q] /\ cur'[q] = cur[q]
      /\ dir'[q] = dir[q] /\ rep'[q] = rep[q] /\ own'[q] = own[q]

\* What p knows and owns stays.
Keeps(p) == cur'[p] = cur[p] /\ dir'[p] = dir[p] /\ rep'[p] = rep[p] /\ own'[p] = own[p]

\* p goes on with the next call, or returns after the last one.
WentOn(p) ==
    IF at[p] < Size(op[p]) THEN Went(p, op[p], at[p] + 1) ELSE Went(p, "Return", 1)

\* The control-flow operators, pointwise.
LEMMA ControlEffect ==
    ASSUME ControlOK, NEW p \in Procs
    PROVE  /\ Advance(p) => WentOn(p)
           /\ Abort(p) => Went(p, IF op[p] = "Finish" THEN "Drop" ELSE "Return", 1)
           /\ \A o : Goto(p, o) => Went(p, o, 1)
           /\ Advance(p) \/ Abort(p) \/ (\E o : Goto(p, o)) =>
                \A q \in Procs \ {p} : op'[q] = op[q] /\ at'[q] = at[q]
<1>1. \A o : Goto(p, o) => /\ Went(p, o, 1)
                           /\ \A q \in Procs \ {p} : op'[q] = op[q] /\ at'[q] = at[q]
  BY DEF Goto, Went, ControlOK
<1>2. Abort(p) => /\ Went(p, IF op[p] = "Finish" THEN "Drop" ELSE "Return", 1)
                  /\ \A q \in Procs \ {p} : op'[q] = op[q] /\ at'[q] = at[q]
  BY <1>1 DEF Abort
<1>3. Advance(p) => /\ WentOn(p)
                    /\ \A q \in Procs \ {p} : op'[q] = op[q] /\ at'[q] = at[q]
  <2> HAVE Advance(p)
  <2>1. CASE at[p] < Len(Script[op[p]])
    BY <2>1 DEF Advance, WentOn, Went, Size, ControlOK
  <2>2. CASE ~(at[p] < Len(Script[op[p]]))
    BY <1>1, <2>2 DEF Advance, WentOn, Size
  <2> QED
    BY <2>1, <2>2
<1> QED
  BY <1>1, <1>2, <1>3

----------------------------------------------------------------------------
(***************************************************************************)
(* What each action does, pointwise.                                       *)
(***************************************************************************)

\* Nothing happens to the files, but perhaps to the ones named.
SameFiles == loc' = loc /\ meta' = meta
SameCount == sent' = sent /\ crashes' = crashes /\ faults' = faults

\* The report u is in another place now, or its metadata in d is another.
LocBecomes(u, b) == \A v \in Reports : loc'[v] = IF v = u THEN b ELSE loc[v]
MetaBecomes(d, u, m) ==
    \A e \in Dirs, v \in Reports : meta'[e][v] = IF e = d /\ v = u THEN m ELSE meta[e][v]
LockBecomes(d, u, l) ==
    \A e \in Dirs, v \in Reports : lock'[e][v] = IF e = d /\ v = u THEN l ELSE lock[e][v]

\* PrepareNewCrashReport().
LEMMA PrepareEffect ==
    ASSUME TypeInv, NEW p \in Procs, NEW u \in Reports, PrepareNewCrashReport(p, u)
    PROVE  /\ Elsewhere(p) /\ op[p] = "Idle" /\ Went(p, "Writing", 1)
           /\ cur'[p] = u /\ dir'[p] = dir[p] /\ rep'[p] = rep[p] /\ own'[p] = own[p]
           /\ loc[u] = "unborn" /\ LocBecomes(u, "new")
           /\ meta' = meta /\ lock' = lock /\ att' = att /\ SameCount
<1>1. ControlOK
  BY ControlType
<1>2. Goto(p, "Writing")
  BY DEF PrepareNewCrashReport
<1> QED
  BY <1>1, <1>2, ControlEffect
  DEF PrepareNewCrashReport, TypeInv, TypeOK, Elsewhere, LocBecomes, SameCount

\* CleanDatabase() of new/.
LEMMA CleanNewEffect ==
    ASSUME TypeInv, NEW p \in Procs, NEW u \in Reports, CleanNew(p, u)
    PROVE  /\ Elsewhere(p) /\ op[p] = "Idle" /\ op' = op /\ at' = at /\ Keeps(p)
           /\ loc[u] = "new" /\ LocBecomes(u, "dropped")
           /\ \/ StallPossible
              \/ \A q \in Procs : cur[q] = u => op[q] \notin {"Writing", "Finish", "Drop"}
           /\ meta' = meta /\ lock' = lock /\ att' = att /\ SameCount
BY DEF CleanNew, procVars, TypeInv, TypeOK, Elsewhere, Keeps, LocBecomes, SameCount

\* The beginning of an operation.
LEMMA BeginEffect ==
    ASSUME TypeInv, NEW p \in Procs, NEW o \in Ops \cap (ByUUID \cup Cleaning \cup {"Visit"}),
           NEW u \in Reports, NEW d \in Dirs, Begin(p, o, u, d)
    PROVE  /\ Elsewhere(p) /\ op[p] = "Idle" /\ Went(p, o, 1)
           /\ o \in {"LookUp", "Upload", "Skip", "Delete", "Request", "CleanReport", "CleanMeta",
                     "CleanLock", "CleanAttachments", "Visit"}
           /\ cur'[p] = u /\ dir'[p] = d /\ rep'[p] = rep[p] /\ own'[p] = own[p]
           /\ MayBegin(o, u, d) /\ (o \in Cleaning => p \in Cleaners)
           /\ SameFiles /\ lock' = lock /\ att' = att /\ SameCount
<1>1. ControlOK
  BY ControlType
<1>2. Goto(p, o)
  BY DEF Begin
<1>3. o \in {"LookUp", "Upload", "Skip", "Delete", "Request", "CleanReport", "CleanMeta",
             "CleanLock", "CleanAttachments", "Visit"}
  BY DEF ByUUID, Cleaning
<1> QED
  BY <1>1, <1>2, <1>3, ControlEffect
  DEF Begin, fsVars, TypeInv, TypeOK, Elsewhere, SameFiles, SameCount

\* AddAttachment().
LEMMA AttachEffect ==
    ASSUME TypeInv, NEW p \in Procs, AddAttachment(p)
    PROVE  /\ Elsewhere(p) /\ op[p] = "Writing" /\ op' = op /\ at' = at /\ Keeps(p)
           /\ \A v \in Reports : att'[v] = IF v = cur[p] THEN "files" ELSE att[v]
           /\ SameFiles /\ lock' = lock /\ SameCount
BY DEF AddAttachment, procVars, TypeInv, TypeOK, Elsewhere, Keeps, SameFiles, SameCount

\* The end of the writing of a report.
LEMMA CloseEffect ==
    ASSUME TypeInv, NEW p \in Procs, NEW o \in {"Finish", "Drop"}, CloseNewReport(p, o)
    PROVE  /\ Elsewhere(p) /\ op[p] = "Writing" /\ Went(p, o, 1)
           /\ cur'[p] = cur[p] /\ dir'[p] = "pending" /\ rep'[p] = rep[p] /\ own'[p] = own[p]
           /\ SameFiles /\ lock' = lock /\ att' = att /\ SameCount
<1>1. ControlOK
  BY ControlType
<1>2. Goto(p, o)
  BY DEF CloseNewReport
<1> QED
  BY <1>1, <1>2, ControlEffect
  DEF CloseNewReport, fsVars, TypeInv, TypeOK, Elsewhere, SameFiles, SameCount

\* ResetAcquire(): the lock file is made, or is busy.
LEMMA AcquireEffect ==
    ASSUME TypeInv, NEW p \in Procs, ResetAcquire(p)
    PROVE  /\ Elsewhere(p)
           /\ \/ at[p] = 1 /\ op[p] \in Locking /\ LockDir(p) = dir[p]
              \/ (Sits(p, "Success", 1) \/ Sits(p, "Skip", 5)) /\ LockDir(p) = "completed"
           /\ cur'[p] = cur[p] /\ dir'[p] = dir[p] /\ rep'[p] = rep[p]
           /\ \/ /\ lock[LockDir(p)][cur[p]].owner = NoOwner
                 /\ LockBecomes(LockDir(p), cur[p], [owner |-> p, stamped |-> FALSE])
                 /\ own'[p] = own[p] \cup {LockDir(p)}
                 /\ WentOn(p)
              \/ /\ lock[LockDir(p)][cur[p]].owner # NoOwner
                 /\ lock' = lock /\ own' = own
                 /\ Went(p, IF op[p] = "Finish" THEN "Drop" ELSE "Return", 1)
           /\ SameFiles /\ att' = att /\ SameCount
<1>1. ControlOK
  BY ControlType
<1>2. At(p, "lock") \/ At(p, "lock2")
  BY DEF ResetAcquire
<1>3. \/ at[p] = 1 /\ op[p] \in Locking /\ LockDir(p) = dir[p]
      \/ (Sits(p, "Success", 1) \/ Sits(p, "Skip", 5)) /\ LockDir(p) = "completed"
  BY <1>1, <1>2, CallSites DEF LockDir, At
<1>4. LockDir(p) \in Dirs /\ cur[p] \in Reports
  BY Local DEF TypeInv
<1>5. /\ Advance(p) \/ Abort(p)
      /\ own' = own \/ own' = [own EXCEPT ![p] = @ \cup {LockDir(p)}]
      /\ UNCHANGED <<loc, att, meta, sent, cur, dir, rep, crashes, faults>>
  BY DEF ResetAcquire
<1>6. Elsewhere(p)
  BY <1>1, <1>5, ControlEffect DEF Elsewhere, TypeInv, TypeOK
<1>7. CASE lock[LockDir(p)][cur[p]].owner = NoOwner
  <2>1. /\ lock' = [lock EXCEPT ![LockDir(p)][cur[p]] = [owner |-> p, stamped |-> FALSE]]
        /\ own' = [own EXCEPT ![p] = @ \cup {LockDir(p)}]
        /\ Advance(p)
    BY <1>7 DEF ResetAcquire
  <2>2. LockBecomes(LockDir(p), cur[p], [owner |-> p, stamped |-> FALSE])
    BY <1>4, <2>1 DEF TypeInv, TypeOK, LockBecomes
  <2>3. own'[p] = own[p] \cup {LockDir(p)}
    BY <2>1 DEF TypeInv, TypeOK
  <2> QED
    BY <1>1, <1>3, <1>5, <1>6, <1>7, <2>1, <2>2, <2>3, ControlEffect DEF SameFiles, SameCount
<1>8. CASE lock[LockDir(p)][cur[p]].owner # NoOwner
  <2>1. Abort(p) /\ lock' = lock /\ own' = own
    BY <1>8 DEF ResetAcquire
  <2> QED
    BY <1>1, <1>3, <1>5, <1>6, <1>8, <2>1, ControlEffect DEF SameFiles, SameCount
<1> QED
  BY <1>7, <1>8

\* The time is written into the lock file.
LEMMA StampEffect ==
    ASSUME TypeInv, NEW p \in Procs, StampLock(p)
    PROVE  /\ Elsewhere(p) /\ Keeps(p) /\ WentOn(p)
           /\ \/ at[p] = 2 /\ op[p] \in Locking
              \/ Sits(p, "Success", 2) \/ Sits(p, "Skip", 6)
           /\ \A e \in Dirs, v \in Reports :
                /\ lock'[e][v].owner = lock[e][v].owner
                /\ lock[e][v].owner = NoOwner => lock'[e][v] = lock[e][v]
           /\ SameFiles /\ att' = att /\ SameCount
<1>1. ControlOK
  BY ControlType
<1>2. At(p, "stamp") \/ At(p, "stamp2")
  BY DEF StampLock
<1>3. Advance(p)
  BY DEF StampLock
<1>4. LockDir(p) \in Dirs /\ cur[p] \in Reports
  BY Local DEF TypeInv
<1>5. \A e \in Dirs, v \in Reports :
        /\ lock'[e][v].owner = lock[e][v].owner
        /\ lock[e][v].owner = NoOwner => lock'[e][v] = lock[e][v]
  BY <1>4, ProcsAssumption DEF StampLock, TypeInv, TypeOK
<1>6. UNCHANGED <<loc, att, meta, sent, cur, dir, rep, own, crashes, faults>>
  BY DEF StampLock
<1>7. WentOn(p) /\ Elsewhere(p) /\ Keeps(p)
  BY <1>1, <1>3, <1>6, ControlEffect DEF Elsewhere, Keeps
<1>8. \/ at[p] = 2 /\ op[p] \in Locking
      \/ Sits(p, "Success", 2) \/ Sits(p, "Skip", 6)
  BY <1>1, <1>2, CallSites
<1> QED
  BY <1>5, <1>6, <1>7, <1>8 DEF SameFiles, SameCount

\* LocateAndLockReport(), with the lock.
LEMMA LocateEffect ==
    ASSUME TypeInv, NEW p \in Procs, LocateReport(p)
    PROVE  /\ Elsewhere(p) /\ at[p] = 3
           /\ op[p] \in {"LookUp", "Upload", "Skip", "Delete", "Request", "CleanAttachments"}
           /\ cur'[p] = cur[p] /\ rep'[p] = rep[p]
           /\ \/ /\ loc[cur[p]] = dir[p]
                 /\ IF op[p] = "CleanAttachments" THEN Went(p, "Return", 1) ELSE Went(p, op[p], 4)
                 /\ lock' = lock /\ own'[p] = own[p] /\ dir'[p] = dir[p]
              \/ /\ loc[cur[p]] # dir[p]
                 /\ LockBecomes(dir[p], cur[p], NoLock)
                 /\ own'[p] = own[p] \ {dir[p]}
                 /\ \/ /\ op[p] \in Searching /\ dir[p] = "pending"
                       /\ dir'[p] = "completed" /\ Went(p, op[p], 1)
                    \/ /\ ~(op[p] \in Searching /\ dir[p] = "pending")
                       /\ dir'[p] = dir[p]
                       /\ Went(p, IF op[p] = "CleanAttachments" THEN "Orphan" ELSE "Return", 1)
           /\ SameFiles /\ att' = att /\ SameCount
<1>1. ControlOK
  BY ControlType
<1>2. At(p, "check") /\ UNCHANGED <<loc, att, meta, sent, cur, rep, crashes, faults>>
  BY DEF LocateReport
<1>3. at[p] = 3 /\ op[p] \in {"LookUp", "Upload", "Skip", "Delete", "Request", "CleanAttachments"}
  BY <1>1, <1>2, CallSites
<1>4. dir[p] \in Dirs /\ cur[p] \in Reports
  BY Local DEF TypeInv
<1>5. CASE loc[cur[p]] = dir[p]
  <2>1. /\ IF op[p] = "CleanAttachments" THEN Goto(p, "Return") ELSE Advance(p)
        /\ UNCHANGED <<lock, own, dir>>
    BY <1>5 DEF LocateReport
  <2>2. IF op[p] = "CleanAttachments" THEN Went(p, "Return", 1) ELSE Went(p, op[p], 4)
    BY <1>1, <1>3, <2>1, ControlEffect, ScriptSizes DEF WentOn
  <2>3. Elsewhere(p)
    BY <1>1, <1>2, <2>1, ControlEffect DEF Elsewhere
  <2> QED
    BY <1>2, <1>3, <1>5, <2>1, <2>2, <2>3 DEF SameFiles, SameCount
<1>6. CASE loc[cur[p]] # dir[p]
  <2>1. /\ lock' = [lock EXCEPT ![dir[p]][cur[p]] = NoLock]
        /\ own' = [own EXCEPT ![p] = @ \ {dir[p]}]
        /\ IF op[p] \in Searching /\ dir[p] = "pending"
             THEN dir' = [dir EXCEPT ![p] = "completed"] /\ Goto(p, op[p])
             ELSE /\ Goto(p, IF op[p] = "CleanAttachments" THEN "Orphan" ELSE "Return")
                  /\ UNCHANGED dir
    BY <1>6 DEF LocateReport
  <2>2. LockBecomes(dir[p], cur[p], NoLock)
    BY <1>4, <2>1 DEF TypeInv, TypeOK, LockBecomes
  <2>3. own'[p] = own[p] \ {dir[p]} /\ \A q \in Procs \ {p} : own'[q] = own[q]
    BY <2>1 DEF TypeInv, TypeOK
  <2>4. CASE op[p] \in Searching /\ dir[p] = "pending"
    <3>1. dir'[p] = "completed" /\ \A q \in Procs \ {p} : dir'[q] = dir[q]
      BY <2>1, <2>4 DEF TypeInv, TypeOK
    <3>2. Goto(p, op[p])
      BY <2>1, <2>4
    <3>3. Elsewhere(p) /\ Went(p, op[p], 1)
      BY <1>1, <1>2, <2>3, <3>1, <3>2, ControlEffect DEF Elsewhere
    <3> QED
      BY <1>2, <1>3, <1>6, <2>2, <2>3, <2>4, <3>1, <3>3 DEF SameFiles, SameCount
  <2>5. CASE ~(op[p] \in Searching /\ dir[p] = "pending")
    <3>1. dir' = dir /\ Goto(p, IF op[p] = "CleanAttachments" THEN "Orphan" ELSE "Return")
      BY <2>1, <2>5
    <3>2. Elsewhere(p) /\ Went(p, IF op[p] = "CleanAttachments" THEN "Orphan" ELSE "Return", 1)
      BY <1>1, <1>2, <2>3, <3>1, ControlEffect DEF Elsewhere
    <3> QED
      BY <1>2, <1>3, <1>6, <2>2, <2>3, <2>5, <3>1, <3>2 DEF SameFiles, SameCount
  <2> QED
    BY <2>4, <2>5
<1> QED
  BY <1>5, <1>6

\* CleaningReadMetadata().
LEMMA ReadEffect ==
    ASSUME TypeInv, NEW p \in Procs, CleaningReadMetadata(p)
    PROVE  /\ Elsewhere(p)
           /\ \/ Sits(p, "Visit", 3) \/ Sits(p, "LookUp", 4) \/ Sits(p, "Upload", 4)
              \/ Sits(p, "Skip", 4) \/ Sits(p, "Request", 4)
           /\ cur'[p] = cur[p] /\ dir'[p] = dir[p] /\ own'[p] = own[p]
           /\ \/ /\ meta[dir[p]][cur[p]].st = "valid" /\ rep'[p] = meta[dir[p]][cur[p]]
                 /\ \/ WentOn(p) /\ ~(op[p] = "Request" /\ meta[dir[p]][cur[p]].uploaded)
                    \/ Went(p, "Return", 1)
              \/ /\ meta[dir[p]][cur[p]].st # "valid" /\ rep'[p] = rep[p]
                 /\ Went(p, "Purge", 1)
           /\ SameFiles /\ lock' = lock /\ att' = att /\ SameCount
<1>1. ControlOK
  BY ControlType
<1>2. At(p, "read") /\ UNCHANGED <<fsVars, sent, cur, dir, own, crashes, faults>>
  BY DEF CleaningReadMetadata
<1>3. \/ Sits(p, "Visit", 3) \/ Sits(p, "LookUp", 4) \/ Sits(p, "Upload", 4)
      \/ Sits(p, "Skip", 4) \/ Sits(p, "Request", 4)
  BY <1>1, <1>2, CallSites
<1>4. CASE meta[dir[p]][cur[p]].st = "valid"
  <2>1. /\ rep' = [rep EXCEPT ![p] = meta[dir[p]][cur[p]]]
        /\ \/ Goto(p, "Return")
           \/ Advance(p) /\ ~(op[p] = "Request" /\ meta[dir[p]][cur[p]].uploaded)
    BY <1>4 DEF CleaningReadMetadata
  <2>2. rep'[p] = meta[dir[p]][cur[p]] /\ \A q \in Procs \ {p} : rep'[q] = rep[q]
    BY <2>1 DEF TypeInv, TypeOK
  <2>3. Elsewhere(p)
    BY <1>1, <1>2, <2>1, <2>2, ControlEffect DEF Elsewhere
  <2>4. \/ WentOn(p) /\ ~(op[p] = "Request" /\ meta[dir[p]][cur[p]].uploaded)
        \/ Went(p, "Return", 1)
    BY <1>1, <2>1, ControlEffect
  <2> QED
    BY <1>2, <1>3, <1>4, <2>2, <2>3, <2>4 DEF SameFiles, SameCount, fsVars
<1>5. CASE meta[dir[p]][cur[p]].st # "valid"
  <2>1. Goto(p, "Purge") /\ rep' = rep
    BY <1>5 DEF CleaningReadMetadata
  <2>2. Elsewhere(p) /\ Went(p, "Purge", 1)
    BY <1>1, <1>2, <2>1, ControlEffect DEF Elsewhere
  <2> QED
    BY <1>2, <1>3, <1>5, <2>1, <2>2 DEF SameFiles, SameCount, fsVars
<1> QED
  BY <1>4, <1>5

\* The report is opened for the upload, or is not there.
LEMMA OpenEffect ==
    ASSUME TypeInv, NEW p \in Procs, OpenReport(p)
    PROVE  /\ Elsewhere(p) /\ Keeps(p) /\ Sits(p, "Upload", 5)
           /\ IF loc[cur[p]] = dir[p] THEN Went(p, "Upload", 6) ELSE Went(p, "Failure", 1)
           /\ SameFiles /\ lock' = lock /\ att' = att /\ SameCount
<1>1. ControlOK
  BY ControlType
<1>2. /\ At(p, "open") /\ UNCHANGED <<fsVars, sent, cur, dir, rep, own, crashes, faults>>
      /\ IF loc[cur[p]] = dir[p] THEN Advance(p) ELSE Goto(p, "Failure")
  BY DEF OpenReport
<1>3. Sits(p, "Upload", 5)
  BY <1>1, <1>2, CallSites
<1>4. IF loc[cur[p]] = dir[p] THEN Went(p, "Upload", 6) ELSE Went(p, "Failure", 1)
  BY <1>1, <1>2, <1>3, ControlEffect, ScriptSizes DEF WentOn, Sits
<1>5. Elsewhere(p) /\ Keeps(p)
  BY <1>1, <1>2, ControlEffect DEF Elsewhere, Keeps
<1> QED
  BY <1>2, <1>3, <1>4, <1>5 DEF SameFiles, SameCount, fsVars

\* The server accepts the report, or the upload fails.
LEMMA SendEffect ==
    ASSUME TypeInv, NEW p \in Procs, NEW o \in {"Success", "Failure"}, SendReport(p, o)
    PROVE  /\ Elsewhere(p) /\ Keeps(p) /\ Sits(p, "Upload", 6) /\ Went(p, o, 1) /\ o \in Ops
           /\ \A v \in Reports :
                sent'[v] = IF o = "Success" /\ v = cur[p] /\ sent[v] < 2 THEN sent[v] + 1 ELSE sent[v]
           /\ SameFiles /\ lock' = lock /\ att' = att /\ crashes' = crashes /\ faults' = faults
<1>1. ControlOK
  BY ControlType
<1>2. /\ At(p, "send") /\ UNCHANGED <<fsVars, cur, dir, rep, own, crashes, faults>>
      /\ Goto(p, o) /\ o \in Ops
  BY DEF SendReport
<1>3. Sits(p, "Upload", 6)
  BY <1>1, <1>2, CallSites
<1>4. Elsewhere(p) /\ Keeps(p) /\ Went(p, o, 1)
  BY <1>1, <1>2, ControlEffect DEF Elsewhere, Keeps
<1>5. \A v \in Reports :
        sent'[v] = IF o = "Success" /\ v = cur[p] /\ sent[v] < 2 THEN sent[v] + 1 ELSE sent[v]
  BY DEF SendReport, TypeInv, TypeOK
<1> QED
  BY <1>2, <1>3, <1>4, <1>5 DEF SameFiles, fsVars

\* A metadata file is created or truncated, or is in the way.
LEMMA OpenMetaEffect ==
    ASSUME TypeInv, NEW p \in Procs, OpenMetadata(p)
    PROVE  /\ Elsewhere(p) /\ Keeps(p)
           /\ \/ Sits(p, "Finish", 3) \/ Sits(p, "Failure", 2) \/ Sits(p, "Success", 5)
              \/ Sits(p, "Request", 6) \/ Sits(p, "Skip", 7)
           /\ \/ MetaBecomes(WriteDir(p), cur[p], TornMeta) /\ WentOn(p)
                 /\ (op[p] = "Finish" => meta["pending"][cur[p]].st = "none")
              \/ /\ meta' = meta /\ Sits(p, "Finish", 3) /\ Went(p, "Drop", 1)
                 /\ meta["pending"][cur[p]].st # "none"
           /\ loc' = loc /\ lock' = lock /\ att' = att /\ SameCount
<1>1. ControlOK
  BY ControlType
<1>2. /\ At(p, "create") \/ At(p, "truncate")
      /\ UNCHANGED <<loc, att, lock, sent, cur, dir, rep, own, crashes, faults>>
      /\ Advance(p) \/ Abort(p)
  BY DEF OpenMetadata
<1>3. /\ At(p, "create") => Sits(p, "Finish", 3)
      /\ At(p, "truncate") => \/ Sits(p, "Failure", 2) \/ Sits(p, "Success", 5)
                              \/ Sits(p, "Request", 6) \/ Sits(p, "Skip", 7)
  BY <1>1, CallSites
<1>4. Elsewhere(p) /\ Keeps(p)
  BY <1>1, <1>2, ControlEffect DEF Elsewhere, Keeps
<1>5. WriteDir(p) \in Dirs /\ cur[p] \in Reports
  BY Local DEF TypeInv
<1>6. CASE At(p, "create") /\ meta[WriteDir(p)][cur[p]].st # "none"
  <2>1. Abort(p) /\ meta' = meta
    BY <1>6 DEF OpenMetadata
  <2>2. Went(p, "Drop", 1) /\ WriteDir(p) = "pending"
    BY <1>1, <1>3, <1>6, <2>1, ControlEffect DEF Sits, WriteDir
  <2> QED
    BY <1>2, <1>3, <1>4, <1>6, <2>1, <2>2 DEF SameCount
<1>7. CASE ~(At(p, "create") /\ meta[WriteDir(p)][cur[p]].st # "none")
  <2>1. meta' = [meta EXCEPT ![WriteDir(p)][cur[p]] = TornMeta] /\ Advance(p)
    BY <1>7 DEF OpenMetadata
  <2>2. MetaBecomes(WriteDir(p), cur[p], TornMeta)
    BY <1>5, <2>1 DEF TypeInv, TypeOK, MetaBecomes
  <2>3. op[p] = "Finish" => meta["pending"][cur[p]].st = "none"
    BY <1>2, <1>3, <1>7 DEF Sits, WriteDir
  <2>4. WentOn(p)
    BY <1>1, <2>1, ControlEffect
  <2> QED
    BY <1>2, <1>3, <1>4, <2>2, <2>3, <2>4 DEF SameCount
<1> QED
  BY <1>6, <1>7

\* The metadata is written, or goes to no path.
LEMMA WriteEffect ==
    ASSUME TypeInv, NEW p \in Procs, WriteMetadata(p)
    PROVE  /\ Elsewhere(p) /\ Keeps(p) /\ WentOn(p)
           /\ \/ Sits(p, "Failure", 3) \/ Sits(p, "Finish", 4) \/ Sits(p, "Success", 6)
              \/ Sits(p, "Request", 7) \/ Sits(p, "Skip", 8)
           /\ \/ MetaBecomes(WriteDir(p), cur[p], NewContents(p))
              \/ meta' = meta /\ meta[WriteDir(p)][cur[p]].st = "none"
           /\ loc' = loc /\ lock' = lock /\ att' = att /\ SameCount
<1>1. ControlOK
  BY ControlType
<1>2. /\ At(p, "write") /\ Advance(p)
      /\ UNCHANGED <<loc, att, lock, sent, cur, dir, rep, own, crashes, faults>>
  BY DEF WriteMetadata
<1>3. \/ Sits(p, "Failure", 3) \/ Sits(p, "Finish", 4) \/ Sits(p, "Success", 6)
      \/ Sits(p, "Request", 7) \/ Sits(p, "Skip", 8)
  BY <1>1, <1>2, CallSites
<1>4. Elsewhere(p) /\ Keeps(p) /\ WentOn(p)
  BY <1>1, <1>2, ControlEffect DEF Elsewhere, Keeps
<1>5. WriteDir(p) \in Dirs /\ cur[p] \in Reports
  BY Local DEF TypeInv
<1>6. \/ MetaBecomes(WriteDir(p), cur[p], NewContents(p))
      \/ meta' = meta /\ meta[WriteDir(p)][cur[p]].st = "none"
  BY <1>5 DEF WriteMetadata, TypeInv, TypeOK, MetaBecomes
<1> QED
  BY <1>2, <1>3, <1>4, <1>6 DEF SameCount

\* MoveFileOrDirectory().
LEMMA MoveEffect ==
    ASSUME TypeInv, NEW p \in Procs, MoveReport(p)
    PROVE  /\ Elsewhere(p) /\ Keeps(p)
           /\ \/ Sits(p, "Success", 3) \/ Sits(p, "Finish", 5) \/ Sits(p, "Request", 5)
              \/ Sits(p, "Skip", 9)
           /\ \/ loc[cur[p]] = Source(p) /\ LocBecomes(cur[p], Target(p)) /\ WentOn(p)
              \/ /\ loc[cur[p]] # Source(p) /\ loc' = loc
                 /\ Went(p, IF op[p] = "Finish" THEN "Drop" ELSE "Return", 1)
           /\ meta' = meta /\ lock' = lock /\ att' = att /\ SameCount
<1>1. ControlOK
  BY ControlType
<1>2. /\ At(p, "move") /\ (Advance(p) \/ Abort(p))
      /\ UNCHANGED <<att, meta, lock, sent, cur, dir, rep, own, crashes, faults>>
  BY DEF MoveReport
<1>3. \/ Sits(p, "Success", 3) \/ Sits(p, "Finish", 5) \/ Sits(p, "Request", 5)
      \/ Sits(p, "Skip", 9)
  BY <1>1, <1>2, CallSites
<1>4. Elsewhere(p) /\ Keeps(p)
  BY <1>1, <1>2, ControlEffect DEF Elsewhere, Keeps
<1>5. \/ loc[cur[p]] = Source(p) /\ LocBecomes(cur[p], Target(p)) /\ WentOn(p)
      \/ /\ loc[cur[p]] # Source(p) /\ loc' = loc
         /\ Went(p, IF op[p] = "Finish" THEN "Drop" ELSE "Return", 1)
  BY <1>1, ControlEffect, Local DEF MoveReport, LocBecomes, TypeInv, TypeOK
<1> QED
  BY <1>2, <1>3, <1>4, <1>5 DEF SameCount

\* The report is removed, or was not there.
LEMMA RemoveReportEffect ==
    ASSUME TypeInv, NEW p \in Procs, RemoveReport(p)
    PROVE  /\ Elsewhere(p) /\ Keeps(p)
           /\ \/ Sits(p, "CleanLock", 1) \/ Sits(p, "Purge", 1) \/ Sits(p, "Delete", 4)
              \/ Sits(p, "CleanReport", 4)
           /\ \/ loc[cur[p]] = dir[p] /\ LocBecomes(cur[p], "gone") /\ WentOn(p)
              \/ /\ loc[cur[p]] # dir[p] /\ loc' = loc
                 /\ IF op[p] \in Tolerant THEN WentOn(p) ELSE Went(p, "Return", 1)
           /\ meta' = meta /\ lock' = lock /\ att' = att /\ SameCount
<1>1. ControlOK
  BY ControlType
<1>2. /\ At(p, "rmReport") /\ (Advance(p) \/ Abort(p))
      /\ UNCHANGED <<att, meta, lock, sent, cur, dir, rep, own, crashes, faults>>
  BY DEF RemoveReport
<1>3. \/ Sits(p, "CleanLock", 1) \/ Sits(p, "Purge", 1) \/ Sits(p, "Delete", 4)
      \/ Sits(p, "CleanReport", 4)
  BY <1>1, <1>2, CallSites
<1>4. Elsewhere(p) /\ Keeps(p)
  BY <1>1, <1>2, ControlEffect DEF Elsewhere, Keeps
<1>5. op[p] # "Finish"
  BY <1>3 DEF Sits
<1>6. \/ loc[cur[p]] = dir[p] /\ LocBecomes(cur[p], "gone") /\ WentOn(p)
      \/ /\ loc[cur[p]] # dir[p] /\ loc' = loc
         /\ IF op[p] \in Tolerant THEN WentOn(p) ELSE Went(p, "Return", 1)
  BY <1>1, <1>5, ControlEffect, Local DEF RemoveReport, LocBecomes, TypeInv, TypeOK
<1> QED
  BY <1>2, <1>3, <1>4, <1>6 DEF SameCount

\* The metadata is removed, or was not there.
LEMMA RemoveMetaEffect ==
    ASSUME TypeInv, NEW p \in Procs, RemoveMetadata(p)
    PROVE  /\ Elsewhere(p) /\ Keeps(p)
           /\ \/ Sits(p, "CleanLock", 2) \/ Sits(p, "Purge", 2) \/ Sits(p, "Success", 4)
              \/ Sits(p, "CleanMeta", 4) \/ Sits(p, "Delete", 5) \/ Sits(p, "Request", 8)
              \/ Sits(p, "Skip", 10)
           /\ \/ meta' = meta /\ op[p] = "Request" /\ dir[p] = "pending" /\ WentOn(p)
              \/ /\ ~(op[p] = "Request" /\ dir[p] = "pending")
                 /\ meta[dir[p]][cur[p]].st # "none"
                 /\ MetaBecomes(dir[p], cur[p], NoMeta) /\ WentOn(p)
              \/ /\ meta' = meta /\ meta[dir[p]][cur[p]].st = "none"
                 /\ IF op[p] \in Tolerant THEN WentOn(p) ELSE Went(p, "Return", 1)
           /\ loc' = loc /\ lock' = lock /\ att' = att /\ SameCount
<1>1. ControlOK
  BY ControlType
<1>2. /\ At(p, "rmMeta") /\ (Advance(p) \/ Abort(p))
      /\ UNCHANGED <<loc, att, lock, sent, cur, dir, rep, own, crashes, faults>>
  BY DEF RemoveMetadata
<1>3. \/ Sits(p, "CleanLock", 2) \/ Sits(p, "Purge", 2) \/ Sits(p, "Success", 4)
      \/ Sits(p, "CleanMeta", 4) \/ Sits(p, "Delete", 5) \/ Sits(p, "Request", 8)
      \/ Sits(p, "Skip", 10)
  BY <1>1, <1>2, CallSites
<1>4. Elsewhere(p) /\ Keeps(p)
  BY <1>1, <1>2, ControlEffect DEF Elsewhere, Keeps
<1>5. op[p] # "Finish" /\ dir[p] \in Dirs /\ cur[p] \in Reports
  BY <1>3, Local DEF Sits, TypeInv
<1>6. meta' = [meta EXCEPT ![dir[p]][cur[p]] = NoMeta] => MetaBecomes(dir[p], cur[p], NoMeta)
  BY <1>5 DEF MetaBecomes, TypeInv, TypeOK
<1>7. /\ Advance(p) => WentOn(p)
      /\ Abort(p) => Went(p, "Return", 1)
  BY <1>1, <1>5, ControlEffect
<1>8. \/ meta' = meta /\ op[p] = "Request" /\ dir[p] = "pending" /\ WentOn(p)
      \/ /\ ~(op[p] = "Request" /\ dir[p] = "pending")
         /\ meta[dir[p]][cur[p]].st # "none"
         /\ MetaBecomes(dir[p], cur[p], NoMeta) /\ WentOn(p)
      \/ /\ meta' = meta /\ meta[dir[p]][cur[p]].st = "none"
         /\ IF op[p] \in Tolerant THEN WentOn(p) ELSE Went(p, "Return", 1)
  BY <1>6, <1>7, Zenon DEF RemoveMetadata
<1> QED
  BY <1>2, <1>3, <1>4, <1>8 DEF SameCount

\* CleanReportsInState() goes on with a lone file, or leaves it.
LEMMA CheckLoneEffect ==
    ASSUME TypeInv, NEW p \in Procs, CheckLone(p)
    PROVE  /\ Elsewhere(p) /\ Keeps(p)
           /\ \/ Sits(p, "CleanReport", 3) \/ Sits(p, "CleanMeta", 3)
           /\ \/ Went(p, "Return", 1)
              \/ /\ WentOn(p)
                 /\ op[p] = "CleanReport" => meta[dir[p]][cur[p]].st = "none"
                 /\ op[p] = "CleanMeta" => loc[cur[p]] # dir[p]
           /\ SameFiles /\ lock' = lock /\ att' = att /\ SameCount
<1>1. ControlOK
  BY ControlType
<1>2. /\ At(p, "noMeta") \/ At(p, "noReport")
      /\ UNCHANGED <<fsVars, sent, cur, dir, rep, own, crashes, faults>>
      /\ \/ Goto(p, "Return")
         \/ /\ Advance(p)
            /\ At(p, "noMeta") => meta[dir[p]][cur[p]].st = "none"
            /\ At(p, "noReport") => loc[cur[p]] # dir[p]
  BY DEF CheckLone
<1>3. /\ At(p, "noMeta") => Sits(p, "CleanReport", 3)
      /\ At(p, "noReport") => Sits(p, "CleanMeta", 3)
  BY <1>1, CallSites
<1>4. Elsewhere(p) /\ Keeps(p)
  BY <1>1, <1>2, ControlEffect DEF Elsewhere, Keeps
<1>5. \/ Went(p, "Return", 1)
      \/ /\ WentOn(p)
         /\ op[p] = "CleanReport" => meta[dir[p]][cur[p]].st = "none"
         /\ op[p] = "CleanMeta" => loc[cur[p]] # dir[p]
  BY <1>1, <1>2, <1>3, ControlEffect DEF Sits
<1> QED
  BY <1>2, <1>3, <1>4, <1>5 DEF SameFiles, SameCount, fsVars

\* RemoveAttachmentsByUUID().
LEMMA RemoveAttachmentsEffect ==
    ASSUME TypeInv, NEW p \in Procs, RemoveAttachmentsByUUID(p)
    PROVE  /\ Elsewhere(p) /\ Keeps(p) /\ WentOn(p)
           /\ \/ Sits(p, "Orphan", 1) \/ Sits(p, "CleanLock", 4) \/ Sits(p, "CleanReport", 5)
              \/ Sits(p, "CleanMeta", 5) \/ Sits(p, "Delete", 6)
           /\ \A v \in Reports : att'[v] = IF v = cur[p] THEN "none" ELSE att[v]
           /\ SameFiles /\ lock' = lock /\ SameCount
<1>1. ControlOK
  BY ControlType
<1>2. /\ At(p, "rmAttachments") /\ Advance(p)
      /\ UNCHANGED <<loc, meta, lock, sent, cur, dir, rep, own, crashes, faults>>
  BY DEF RemoveAttachmentsByUUID
<1>3. \/ Sits(p, "Orphan", 1) \/ Sits(p, "CleanLock", 4) \/ Sits(p, "CleanReport", 5)
      \/ Sits(p, "CleanMeta", 5) \/ Sits(p, "Delete", 6)
  BY <1>1, <1>2, CallSites
<1>4. Elsewhere(p) /\ Keeps(p) /\ WentOn(p)
  BY <1>1, <1>2, ControlEffect DEF Elsewhere, Keeps
<1>5. \A v \in Reports : att'[v] = IF v = cur[p] THEN "none" ELSE att[v]
  BY DEF RemoveAttachmentsByUUID, TypeInv, TypeOK
<1> QED
  BY <1>2, <1>3, <1>4, <1>5 DEF SameFiles, SameCount

\* An expired lock is removed.
LEMMA RemoveLockEffect ==
    ASSUME TypeInv, NEW p \in Procs, RemoveExpiredLock(p)
    PROVE  /\ Elsewhere(p) /\ Keeps(p) /\ Sits(p, "CleanLock", 3)
           /\ LockBecomes(dir[p], cur[p], NoLock)
           /\ WentOn(p) \/ Went(p, "Return", 1)
           /\ SameFiles /\ att' = att /\ SameCount
<1>1. ControlOK
  BY ControlType
<1>2. /\ At(p, "rmLock") /\ (Advance(p) \/ Abort(p))
      /\ lock' = [lock EXCEPT ![dir[p]][cur[p]] = NoLock]
      /\ UNCHANGED <<loc, att, meta, sent, cur, dir, rep, own, crashes, faults>>
  BY DEF RemoveExpiredLock
<1>3. Sits(p, "CleanLock", 3)
  BY <1>1, <1>2, CallSites
<1>4. Elsewhere(p) /\ Keeps(p)
  BY <1>1, <1>2, ControlEffect DEF Elsewhere, Keeps
<1>5. WentOn(p) \/ Went(p, "Return", 1)
  BY <1>1, <1>2, <1>3, ControlEffect DEF Sits
<1>6. LockBecomes(dir[p], cur[p], NoLock)
  BY <1>2, Local DEF LockBecomes, TypeInv, TypeOK
<1> QED
  BY <1>2, <1>3, <1>4, <1>5, <1>6 DEF SameFiles, SameCount

\* ~NewReport().
LEMMA RemoveNewEffect ==
    ASSUME TypeInv, NEW p \in Procs, RemoveNewReport(p)
    PROVE  /\ Elsewhere(p) /\ Keeps(p) /\ Sits(p, "Drop", 2) /\ Went(p, "Return", 1)
           /\ LocBecomes(cur[p], IF loc[cur[p]] = "new" THEN "dropped" ELSE loc[cur[p]])
           /\ \A v \in Reports :
                att'[v] = IF v = cur[p] /\ att[v] = "files" THEN "empty" ELSE att[v]
           /\ meta' = meta /\ lock' = lock /\ SameCount
<1>1. ControlOK
  BY ControlType
<1>2. /\ At(p, "rmNew") /\ Advance(p)
      /\ UNCHANGED <<meta, lock, sent, cur, dir, rep, own, crashes, faults>>
  BY DEF RemoveNewReport
<1>3. Sits(p, "Drop", 2)
  BY <1>1, <1>2, CallSites
<1>4. Elsewhere(p) /\ Keeps(p) /\ Went(p, "Return", 1)
  BY <1>1, <1>2, <1>3, ControlEffect, ScriptSizes DEF Elsewhere, Keeps, WentOn, Sits
<1>5. LocBecomes(cur[p], IF loc[cur[p]] = "new" THEN "dropped" ELSE loc[cur[p]])
  BY Local DEF RemoveNewReport, LocBecomes, TypeInv, TypeOK
<1>6. \A v \in Reports : att'[v] = IF v = cur[p] /\ att[v] = "files" THEN "empty" ELSE att[v]
  BY Local DEF RemoveNewReport, TypeInv, TypeOK
<1> QED
  BY <1>2, <1>3, <1>4, <1>5, <1>6 DEF SameCount

\* ~ScopedLockFile().
LEMMA ReleaseEffect ==
    ASSUME TypeInv, NEW p \in Procs, ReleaseLock(p)
    PROVE  /\ Elsewhere(p) /\ op' = op /\ at' = at
           /\ at[p] = 1 /\ op[p] \in {"Return", "Drop", "Failure"}
           /\ cur'[p] = cur[p] /\ dir'[p] = dir[p] /\ rep'[p] = rep[p]
           /\ \E d \in own[p] :
                /\ LockBecomes(d, cur[p], NoLock) /\ own'[p] = own[p] \ {d}
                /\ d = "pending" => "completed" \notin own[p]
           /\ SameFiles /\ att' = att /\ SameCount
<1>1. ControlOK
  BY ControlType
<1>2. At(p, "unlock") /\ UNCHANGED <<loc, att, meta, sent, op, at, cur, dir, rep, crashes, faults>>
  BY DEF ReleaseLock
<1>3. at[p] = 1 /\ op[p] \in {"Return", "Drop", "Failure"}
  BY <1>1, <1>2, CallSites
<1> DEFINE d == IF "completed" \in own[p] THEN "completed" ELSE "pending"
<1>4. d \in own[p] /\ d \in Dirs /\ (d = "pending" => "completed" \notin own[p])
  BY DEF ReleaseLock, TypeInv, TypeOK, Dirs
<1>5. lock' = [lock EXCEPT ![d][cur[p]] = NoLock] /\ own' = [own EXCEPT ![p] = @ \ {d}]
  BY DEF ReleaseLock
<1>6. LockBecomes(d, cur[p], NoLock)
  BY <1>4, <1>5, Local DEF LockBecomes, TypeInv, TypeOK
<1>7. own'[p] = own[p] \ {d} /\ \A q \in Procs \ {p} : own'[q] = own[q]
  BY <1>5 DEF TypeInv, TypeOK
<1> HIDE DEF d
<1> QED
  BY <1>2, <1>3, <1>4, <1>6, <1>7 DEF SameFiles, SameCount, Elsewhere

\* The locks are released: the process is idle again, or goes on.
LEMMA UnlockedEffect ==
    ASSUME TypeInv, NEW p \in Procs, Unlocked(p)
    PROVE  /\ Elsewhere(p) /\ own[p] = {} /\ own'[p] = {} /\ cur'[p] = cur[p]
           /\ \/ Sits(p, "Return", 1) /\ Went(p, "Idle", 1) /\ dir'[p] = "pending"
              \/ Sits(p, "Drop", 1) /\ Went(p, "Drop", 2) /\ Keeps(p)
              \/ Sits(p, "Failure", 1) /\ Went(p, "Failure", 2) /\ Keeps(p)
           /\ SameFiles /\ lock' = lock /\ att' = att /\ SameCount
<1>1. ControlOK
  BY ControlType
<1>2. At(p, "unlock") /\ own[p] = {} /\ UNCHANGED <<fsVars, sent, cur, own, crashes, faults>>
  BY DEF Unlocked
<1>3. at[p] = 1 /\ op[p] \in {"Return", "Drop", "Failure"}
  BY <1>1, <1>2, CallSites
<1>4. CASE op[p] = "Return"
  <2>1. /\ Goto(p, "Idle") /\ rep' = [rep EXCEPT ![p] = NoMeta]
        /\ dir' = [dir EXCEPT ![p] = "pending"]
    BY <1>4 DEF Unlocked
  <2>2. dir'[p] = "pending" /\ \A q \in Procs \ {p} : dir'[q] = dir[q] /\ rep'[q] = rep[q]
    BY <2>1 DEF TypeInv, TypeOK
  <2>3. Elsewhere(p) /\ Went(p, "Idle", 1)
    BY <1>1, <1>2, <2>1, <2>2, ControlEffect DEF Elsewhere
  <2> QED
    BY <1>2, <1>3, <1>4, <2>2, <2>3 DEF Sits, SameFiles, SameCount, fsVars
<1>5. CASE op[p] \in {"Drop", "Failure"}
  <2>1. Advance(p) /\ rep' = rep /\ dir' = dir
    BY <1>5 DEF Unlocked
  <2>2. Elsewhere(p) /\ Keeps(p) /\ WentOn(p)
    BY <1>1, <1>2, <2>1, ControlEffect DEF Elsewhere, Keeps
  <2>3. Went(p, op[p], 2)
    BY <1>3, <1>5, <2>2, ScriptSizes DEF WentOn
  <2> QED
    BY <1>2, <1>3, <1>5, <2>2, <2>3 DEF Sits, SameFiles, SameCount, fsVars
<1> QED
  BY <1>3, <1>4, <1>5

\* A call fails.
LEMMA FailEffect ==
    ASSUME TypeInv, NEW p \in Procs, FailCall(p)
    PROVE  /\ Elsewhere(p) /\ Keeps(p) /\ faults < MaxFaults /\ faults' = faults + 1
           /\ \/ /\ \/ Sits(p, "Visit", 3) \/ Sits(p, "LookUp", 4) \/ Sits(p, "Upload", 4)
                    \/ Sits(p, "Skip", 4) \/ Sits(p, "Request", 4)
                 /\ Went(p, "Purge", 1)
              \/ Sits(p, "Upload", 5) /\ Went(p, "Failure", 1)
              \/ Sits(p, "Purge", 1) /\ Went(p, "Purge", 2)
              \/ Sits(p, "Success", 4) /\ Went(p, "Success", 5)
              \/ Went(p, "Drop", 1) /\ op[p] = "Finish"
              \/ Went(p, "Return", 1)
           /\ SameFiles /\ lock' = lock /\ att' = att /\ sent' = sent /\ crashes' = crashes
<1>1. ControlOK
  BY ControlType
<1>2. UNCHANGED <<fsVars, sent, cur, dir, rep, own, crashes>> /\ faults < MaxFaults
      /\ faults' = faults + 1
  BY DEF FailCall
<1>3. \/ At(p, "read") /\ Goto(p, "Purge")
      \/ At(p, "open") /\ Goto(p, "Failure")
      \/ (At(p, "rmReport") \/ At(p, "rmMeta")) /\ op[p] \in {"Purge", "Success"} /\ Advance(p)
      \/ Abort(p)
  BY DEF FailCall
<1>4. Elsewhere(p) /\ Keeps(p)
  BY <1>1, <1>2, <1>3, ControlEffect DEF Elsewhere, Keeps
<1>5. CASE At(p, "read") /\ Goto(p, "Purge")
  BY <1>1, <1>2, <1>4, <1>5, CallSites, ControlEffect DEF SameFiles, fsVars
<1>6. CASE At(p, "open") /\ Goto(p, "Failure")
  BY <1>1, <1>2, <1>4, <1>6, CallSites, ControlEffect DEF SameFiles, fsVars
<1>7. CASE (At(p, "rmReport") \/ At(p, "rmMeta")) /\ op[p] \in {"Purge", "Success"} /\ Advance(p)
  <2>1. Sits(p, "Purge", 1) \/ Sits(p, "Purge", 2) \/ Sits(p, "Success", 4)
    <3>1. At(p, "rmReport") => Sits(p, "CleanLock", 1) \/ Sits(p, "Purge", 1)
                               \/ Sits(p, "Delete", 4) \/ Sits(p, "CleanReport", 4)
      BY <1>1, CallSites
    <3>2. At(p, "rmMeta") => \/ Sits(p, "CleanLock", 2) \/ Sits(p, "Purge", 2)
                             \/ Sits(p, "Success", 4) \/ Sits(p, "CleanMeta", 4)
                             \/ Sits(p, "Delete", 5) \/ Sits(p, "Request", 8)
                             \/ Sits(p, "Skip", 10)
      BY <1>1, CallSites
    <3> QED
      BY <1>7, <3>1, <3>2 DEF Sits
  <2>2. WentOn(p)
    BY <1>1, <1>7, ControlEffect
  <2>3. \/ Sits(p, "Purge", 1) /\ Went(p, "Purge", 2)
        \/ Sits(p, "Success", 4) /\ Went(p, "Success", 5)
        \/ Went(p, "Return", 1)
    BY <2>1, <2>2, ScriptSizes DEF WentOn, Sits
  <2> QED
    BY <1>2, <1>4, <2>3 DEF SameFiles, fsVars
<1>8. CASE Abort(p)
  BY <1>1, <1>2, <1>4, <1>8, ControlEffect DEF SameFiles, fsVars
<1> QED
  BY <1>3, <1>5, <1>6, <1>7, <1>8

\* A process dies and leaves its lock files.
LEMMA CrashEffect ==
    ASSUME TypeInv, NEW p \in Procs, Crash(p)
    PROVE  /\ Elsewhere(p) /\ op[p] # "Idle" /\ Went(p, "Idle", 1)
           /\ cur'[p] = cur[p] /\ dir'[p] = "pending" /\ own'[p] = {}
           /\ \A e \in Dirs, v \in Reports :
                /\ lock'[e][v].owner = IF lock[e][v].owner = p THEN Crashed ELSE lock[e][v].owner
                /\ lock[e][v].owner = NoOwner => lock'[e][v] = lock[e][v]
           /\ crashes' = crashes + 1 /\ faults' = faults /\ sent' = sent
           /\ SameFiles /\ att' = att
<1>1. ControlOK
  BY ControlType
<1>2. /\ Goto(p, "Idle") /\ op[p] # "Idle" /\ crashes' = crashes + 1
      /\ UNCHANGED <<loc, att, meta, sent, cur, faults>>
  BY DEF Crash
<1>3. /\ dir'[p] = "pending" /\ own'[p] = {}
      /\ \A q \in Procs \ {p} : dir'[q] = dir[q] /\ rep'[q] = rep[q] /\ own'[q] = own[q]
  BY DEF Crash, TypeInv, TypeOK
<1>4. \A e \in Dirs, v \in Reports :
        /\ lock'[e][v].owner = IF lock[e][v].owner = p THEN Crashed ELSE lock[e][v].owner
        /\ lock[e][v].owner = NoOwner => lock'[e][v] = lock[e][v]
  BY ProcsAssumption DEF Crash, TypeInv, TypeOK, LockFile
<1>5. Elsewhere(p) /\ Went(p, "Idle", 1)
  BY <1>1, <1>2, <1>3, ControlEffect DEF Elsewhere
<1> QED
  BY <1>2, <1>3, <1>4, <1>5 DEF SameFiles

----------------------------------------------------------------------------
(***************************************************************************)
(* Which locks a process has, by where it is.                              *)
(***************************************************************************)

\* What p does once it has both locks, or has a report from GetReportForUploading(), or
\* could not read its metadata, it does with the locks it took before.
HoldsLocks(p) ==
    /\ op[p] \in {"Finish", "Upload", "Success", "Failure", "Skip"} => dir[p] = "pending"
    /\ op[p] = "Purge" => dir[p] \in own[p]
    /\ op[p] = "Success" => "pending" \in own[p]
    /\ op[p] = "Success" /\ at[p] > 1 => "completed" \in own[p]
    /\ op[p] = "Skip" /\ at[p] > 5 => "completed" \in own[p]

HoldsInv == LockInv /\ \A p \in Procs : HoldsLocks(p)

\* After ResetAcquire() an operation has the lock of its directory.
LEMMA HasLock ==
    ASSUME LockInv, NEW p \in Procs, op[p] \in Locking, at[p] > 1
    PROVE  dir[p] \in own[p]
BY ScriptSizes DEF LockInv, LockedAfterAcquire

\* One process makes a step: what each of its actions does to it.
Step(p) == Start(p) \/ Call(p) \/ Write(p) \/ FailCall(p) \/ Crash(p)

\* Every step of a process keeps it true of the process.
LEMMA HoldsStep ==
    ASSUME HoldsInv, NEW p \in Procs, Step(p)
    PROVE  Elsewhere(p) /\ HoldsLocks(p)'
<1>0. TypeInv /\ LockInv /\ HoldsLocks(p)
  BY DEF HoldsInv, LockInv
<1>l. op[p] \in Locking /\ at[p] > 1 => dir[p] \in own[p]
  BY <1>0, HasLock
<1>1. ASSUME NEW u \in Reports, PrepareNewCrashReport(p, u)
      PROVE  Elsewhere(p) /\ HoldsLocks(p)'
  BY <1>0, <1>l, <1>1, PrepareEffect, ScriptSizes
  DEF HoldsLocks, Went, WentOn, Keeps, Sits, Locking
<1>2. ASSUME NEW u \in Reports, CleanNew(p, u)
      PROVE  Elsewhere(p) /\ HoldsLocks(p)'
  BY <1>0, <1>l, <1>2, CleanNewEffect, ScriptSizes
  DEF HoldsLocks, Went, WentOn, Keeps, Sits, Locking
<1>3. ASSUME NEW o \in Ops \cap (ByUUID \cup Cleaning \cup {"Visit"}),
             NEW u \in Reports, NEW d \in Dirs, Begin(p, o, u, d)
      PROVE  Elsewhere(p) /\ HoldsLocks(p)'
  BY <1>0, <1>l, <1>3, BeginEffect
  DEF HoldsLocks, Went, MayBegin, ByUUID
<1>4. ASSUME AddAttachment(p)
      PROVE  Elsewhere(p) /\ HoldsLocks(p)'
  BY <1>0, <1>l, <1>4, AttachEffect, ScriptSizes
  DEF HoldsLocks, Went, WentOn, Keeps, Sits, Locking
<1>5. ASSUME NEW o \in {"Finish", "Drop"}, CloseNewReport(p, o)
      PROVE  Elsewhere(p) /\ HoldsLocks(p)'
  BY <1>0, <1>l, <1>5, CloseEffect, ScriptSizes
  DEF HoldsLocks, Went, WentOn, Keeps, Sits, Locking
<1>6. ASSUME ResetAcquire(p)
      PROVE  Elsewhere(p) /\ HoldsLocks(p)'
  <2>1. Elsewhere(p) /\ dir'[p] = dir[p] /\ own[p] \subseteq own'[p]
    BY <1>0, <1>6, AcquireEffect
  <2>2. op[p] \notin {"Purge", "Return", "Idle", "Drop"}
    BY <1>0, <1>6, AcquireEffect DEF Sits, Locking
  <2>3. \/ op'[p] \in {"Return", "Drop"}
        \/ Went(p, op[p], at[p] + 1) /\ own'[p] = own[p] \cup {LockDir(p)}
    BY <1>0, <1>6, AcquireEffect DEF Went, WentOn
  <2>4. (at[p] = 1 /\ op[p] # "Success") \/ LockDir(p) = "completed"
    BY <1>0, <1>6, AcquireEffect DEF Sits, Locking
  <2> QED
    BY <1>0, <1>l, <2>1, <2>2, <2>3, <2>4 DEF HoldsLocks, Went
<1>7. ASSUME StampLock(p)
      PROVE  Elsewhere(p) /\ HoldsLocks(p)'
  BY <1>0, <1>l, <1>7, StampEffect, ScriptSizes
  DEF HoldsLocks, Went, WentOn, Keeps, Sits, Locking
<1>8. ASSUME LocateReport(p)
      PROVE  Elsewhere(p) /\ HoldsLocks(p)'
  BY <1>0, <1>l, <1>8, LocateEffect
  DEF HoldsLocks, Went, Locking, Searching
<1>9. ASSUME CleaningReadMetadata(p)
      PROVE  Elsewhere(p) /\ HoldsLocks(p)'
  BY <1>0, <1>l, <1>9, ReadEffect, ScriptSizes
  DEF HoldsLocks, Went, WentOn, Keeps, Sits, Locking
<1>10. ASSUME OpenReport(p)
      PROVE  Elsewhere(p) /\ HoldsLocks(p)'
  BY <1>0, <1>l, <1>10, OpenEffect, ScriptSizes
  DEF HoldsLocks, Went, WentOn, Keeps, Sits, Locking
<1>11. ASSUME NEW o \in {"Success", "Failure"}, SendReport(p, o)
      PROVE  Elsewhere(p) /\ HoldsLocks(p)'
  BY <1>0, <1>l, <1>11, SendEffect, ScriptSizes
  DEF HoldsLocks, Went, WentOn, Keeps, Sits, Locking
<1>12. ASSUME OpenMetadata(p)
      PROVE  Elsewhere(p) /\ HoldsLocks(p)'
  BY <1>0, <1>l, <1>12, OpenMetaEffect, ScriptSizes
  DEF HoldsLocks, Went, WentOn, Keeps, Sits, Locking
<1>13. ASSUME WriteMetadata(p)
      PROVE  Elsewhere(p) /\ HoldsLocks(p)'
  BY <1>0, <1>l, <1>13, WriteEffect, ScriptSizes
  DEF HoldsLocks, Went, WentOn, Keeps, Sits, Locking
<1>14. ASSUME MoveReport(p)
      PROVE  Elsewhere(p) /\ HoldsLocks(p)'
  BY <1>0, <1>l, <1>14, MoveEffect, ScriptSizes
  DEF HoldsLocks, Went, WentOn, Keeps, Sits, Locking
<1>15. ASSUME RemoveReport(p)
      PROVE  Elsewhere(p) /\ HoldsLocks(p)'
  BY <1>0, <1>l, <1>15, RemoveReportEffect, ScriptSizes
  DEF HoldsLocks, Went, WentOn, Keeps, Sits, Locking
<1>16. ASSUME RemoveMetadata(p)
      PROVE  Elsewhere(p) /\ HoldsLocks(p)'
  BY <1>0, <1>l, <1>16, RemoveMetaEffect, ScriptSizes
  DEF HoldsLocks, Went, WentOn, Keeps, Sits, Locking
<1>17. ASSUME CheckLone(p)
      PROVE  Elsewhere(p) /\ HoldsLocks(p)'
  BY <1>0, <1>l, <1>17, CheckLoneEffect, ScriptSizes
  DEF HoldsLocks, Went, WentOn, Keeps, Sits, Locking
<1>18. ASSUME RemoveAttachmentsByUUID(p)
      PROVE  Elsewhere(p) /\ HoldsLocks(p)'
  BY <1>0, <1>l, <1>18, RemoveAttachmentsEffect, ScriptSizes
  DEF HoldsLocks, Went, WentOn, Keeps, Sits, Locking
<1>19. ASSUME RemoveExpiredLock(p)
      PROVE  Elsewhere(p) /\ HoldsLocks(p)'
  BY <1>0, <1>l, <1>19, RemoveLockEffect, ScriptSizes
  DEF HoldsLocks, Went, WentOn, Keeps, Sits, Locking
<1>20. ASSUME RemoveNewReport(p)
      PROVE  Elsewhere(p) /\ HoldsLocks(p)'
  BY <1>0, <1>l, <1>20, RemoveNewEffect, ScriptSizes
  DEF HoldsLocks, Went, WentOn, Keeps, Sits, Locking
<1>21. ASSUME ReleaseLock(p)
      PROVE  Elsewhere(p) /\ HoldsLocks(p)'
  BY <1>0, <1>l, <1>21, ReleaseEffect, ScriptSizes
  DEF HoldsLocks, Went, WentOn, Keeps, Sits, Locking
<1>22. ASSUME Unlocked(p)
      PROVE  Elsewhere(p) /\ HoldsLocks(p)'
  BY <1>0, <1>l, <1>22, UnlockedEffect, ScriptSizes
  DEF HoldsLocks, Went, WentOn, Keeps, Sits, Locking
<1>23. ASSUME FailCall(p)
      PROVE  Elsewhere(p) /\ HoldsLocks(p)'
  BY <1>0, <1>l, <1>23, FailEffect, ScriptSizes
  DEF HoldsLocks, Went, WentOn, Keeps, Sits, Locking
<1>24. ASSUME Crash(p)
      PROVE  Elsewhere(p) /\ HoldsLocks(p)'
  BY <1>0, <1>l, <1>24, CrashEffect, ScriptSizes
  DEF HoldsLocks, Went, WentOn, Keeps, Sits, Locking
<1> QED
  BY <1>1, <1>2, <1>3, <1>4, <1>5, <1>6, <1>7, <1>8, <1>9, <1>10, <1>11, <1>12, <1>13, <1>14, <1>15, <1>16, <1>17, <1>18, <1>19, <1>20, <1>21, <1>22, <1>23, <1>24
  DEF Step, Start, Call, Write

\* Every step keeps the locks where they belong.
LEMMA HoldsNext ==
    ASSUME OneCleaner
    PROVE  HoldsInv /\ [Next]_vars => HoldsInv'
<1> SUFFICES ASSUME HoldsInv, [Next]_vars PROVE HoldsInv'
  OBVIOUS
<1>1. LockInv'
  BY LockNext DEF HoldsInv
<1>2. CASE UNCHANGED vars
  BY <1>1, <1>2 DEF vars, HoldsInv, HoldsLocks
<1>3. ASSUME NEW p \in Procs, Step(p) PROVE HoldsInv'
  <2>1. Elsewhere(p) /\ HoldsLocks(p)'
    BY <1>3, HoldsStep
  <2>2. ASSUME NEW q \in Procs \ {p} PROVE HoldsLocks(q)'
    BY <2>1 DEF Elsewhere, HoldsInv, HoldsLocks
  <2> QED
    BY <1>1, <2>1, <2>2 DEF HoldsInv
<1> QED
  BY <1>2, <1>3 DEF Next, Step

\* p may use what directory d holds of its report: it has the lock, or breaks a dead one.
Has(p, d) == d \in own[p] \/ (op[p] = "CleanLock" /\ at[p] <= 3 /\ dir[p] = d)

\* No two processes may.
LEMMA Exclusive ==
    ASSUME OneCleaner, LockInv, NEW p \in Procs, NEW q \in Procs, NEW d,
           Has(p, d), Has(q, d), cur[p] = cur[q]
    PROVE  p = q
<1>1. \A r \in Procs : d \in own[r] => lock[d][cur[r]].owner = r
  BY DEF LockInv, LockHeldByOwner
<1>2. \A r \in Procs : op[r] = "CleanLock" /\ at[r] <= 3 /\ dir[r] = d =>
                         lock[d][cur[r]].owner = Crashed /\ r \in Cleaners
  BY DEF LockInv, BreaksDeadLocks, CleanersClean, Cleaning
<1> QED
  BY <1>1, <1>2, ProcsAssumption DEF Has, OneCleaner

\* A report moves, and its metadata changes, under the lock of the directory: always in
\* completed/, and in pending/ but for the two operations that write there without it.
LEMMA Guarded ==
    ASSUME HoldsInv, NEW p \in Procs, Step(p), NEW u \in Reports
    PROVE  /\ (loc'[u] = "completed") # (loc[u] = "completed") => cur[p] = u /\ Has(p, "completed")
           /\ meta'["completed"][u] # meta["completed"][u] => cur[p] = u /\ Has(p, "completed")
           /\ loc[u] = "pending" /\ loc'[u] # "pending" => cur[p] = u /\ Has(p, "pending")
           /\ loc[u] # "pending" /\ loc'[u] = "pending" /\ op[p] # "Request" =>
                cur[p] = u /\ Has(p, "pending")
           /\ meta'["pending"][u] # meta["pending"][u] /\ op[p] \notin {"Request", "Failure"} =>
                cur[p] = u /\ Has(p, "pending")
           /\ loc[u] = "gone" => loc'[u] = "gone"
<1>0. TypeInv /\ LockInv /\ HoldsLocks(p) /\ dir[p] \in Dirs
  BY Local DEF HoldsInv, LockInv, TypeInv
<1>l. op[p] \in Locking /\ at[p] > 1 => dir[p] \in own[p]
  BY <1>0, HasLock
<1>d. "completed" \in Dirs /\ "pending" \in Dirs /\ \A d \in Dirs : d \in {"pending", "completed"}
  BY DEF Dirs
<1>1. ASSUME NEW o \in Ops \cap (ByUUID \cup Cleaning \cup {"Visit"}),
             NEW v \in Reports, NEW d \in Dirs, Begin(p, o, v, d) PROVE SameFiles
  BY <1>0, <1>1, BeginEffect
<1>2. ASSUME AddAttachment(p) PROVE SameFiles
  BY <1>0, <1>2, AttachEffect
<1>3. ASSUME NEW o \in {"Finish", "Drop"}, CloseNewReport(p, o) PROVE SameFiles
  BY <1>0, <1>3, CloseEffect
<1>4. ASSUME ResetAcquire(p) PROVE SameFiles
  BY <1>0, <1>4, AcquireEffect
<1>5. ASSUME StampLock(p) PROVE SameFiles
  BY <1>0, <1>5, StampEffect
<1>6. ASSUME LocateReport(p) PROVE SameFiles
  BY <1>0, <1>6, LocateEffect
<1>7. ASSUME CleaningReadMetadata(p) PROVE SameFiles
  BY <1>0, <1>7, ReadEffect
<1>8. ASSUME OpenReport(p) PROVE SameFiles
  BY <1>0, <1>8, OpenEffect
<1>9. ASSUME NEW o \in {"Success", "Failure"}, SendReport(p, o) PROVE SameFiles
  BY <1>0, <1>9, SendEffect
<1>10. ASSUME CheckLone(p) PROVE SameFiles
  BY <1>0, <1>10, CheckLoneEffect
<1>11. ASSUME RemoveAttachmentsByUUID(p) PROVE SameFiles
  BY <1>0, <1>11, RemoveAttachmentsEffect
<1>12. ASSUME RemoveExpiredLock(p) PROVE SameFiles
  BY <1>0, <1>12, RemoveLockEffect
<1>13. ASSUME ReleaseLock(p) PROVE SameFiles
  BY <1>0, <1>13, ReleaseEffect
<1>14. ASSUME Unlocked(p) PROVE SameFiles
  BY <1>0, <1>14, UnlockedEffect
<1>15. ASSUME FailCall(p) PROVE SameFiles
  BY <1>0, <1>15, FailEffect
<1>16. ASSUME Crash(p) PROVE SameFiles
  BY <1>0, <1>16, CrashEffect
<1> DEFINE Goal ==
         /\ (loc'[u] = "completed") # (loc[u] = "completed") => cur[p] = u /\ Has(p, "completed")
         /\ meta'["completed"][u] # meta["completed"][u] => cur[p] = u /\ Has(p, "completed")
         /\ loc[u] = "pending" /\ loc'[u] # "pending" => cur[p] = u /\ Has(p, "pending")
         /\ loc[u] # "pending" /\ loc'[u] = "pending" /\ op[p] # "Request" =>
              cur[p] = u /\ Has(p, "pending")
         /\ meta'["pending"][u] # meta["pending"][u] /\ op[p] \notin {"Request", "Failure"} =>
              cur[p] = u /\ Has(p, "pending")
         /\ loc[u] = "gone" => loc'[u] = "gone"
<1>17. SameFiles => Goal
  BY DEF SameFiles
<1>18. ASSUME NEW v \in Reports, PrepareNewCrashReport(p, v) PROVE Goal
  BY <1>0, <1>18, PrepareEffect DEF LocBecomes
<1>19. ASSUME NEW v \in Reports, CleanNew(p, v) PROVE Goal
  BY <1>0, <1>19, CleanNewEffect DEF LocBecomes
<1>20. ASSUME OpenMetadata(p) PROVE Goal
  BY <1>0, <1>l, <1>d, <1>20, OpenMetaEffect
  DEF MetaBecomes, WriteDir, HoldsLocks, Has, Sits, Locking
<1>21. ASSUME WriteMetadata(p) PROVE Goal
  BY <1>0, <1>l, <1>d, <1>21, WriteEffect
  DEF MetaBecomes, WriteDir, HoldsLocks, Has, Sits, Locking
<1>22. ASSUME MoveReport(p) PROVE Goal
  BY <1>0, <1>l, <1>d, <1>22, MoveEffect
  DEF LocBecomes, Source, Target, HoldsLocks, Has, Sits, Locking
<1>23. ASSUME RemoveReport(p) PROVE Goal
  BY <1>0, <1>l, <1>d, <1>23, RemoveReportEffect
  DEF LocBecomes, HoldsLocks, Has, Sits, Locking
<1>24. ASSUME RemoveMetadata(p) PROVE Goal
  BY <1>0, <1>l, <1>d, <1>24, RemoveMetaEffect
  DEF MetaBecomes, HoldsLocks, Has, Sits, Locking
<1>25. ASSUME RemoveNewReport(p) PROVE Goal
  BY <1>0, <1>25, RemoveNewEffect DEF LocBecomes
<1>26. CASE SameFiles
  BY <1>17, <1>26
<1> QED
  BY <1>1, <1>2, <1>3, <1>4, <1>5, <1>6, <1>7, <1>8, <1>9, <1>10, <1>11, <1>12, <1>13, <1>14, <1>15, <1>16, <1>18, <1>19, <1>20, <1>21, <1>22, <1>23, <1>24, <1>25, <1>26
  DEF Step, Start, Call, Write

----------------------------------------------------------------------------
(***************************************************************************)
(* The code implements ReportLifecycle.                                    *)
(***************************************************************************)

\* completed/<u>.meta says that u was uploaded.
Recorded(u) == meta["completed"][u].uploaded

\* A report that is recorded as uploaded is in completed/ or was removed from it, and only
\* whole metadata records anything.
RecordsPlaced ==
    \A u \in Reports :
      /\ Recorded(u) => loc[u] \in {"completed", "gone"}
      /\ meta["completed"][u].st # "valid" => ~Recorded(u)

\* What p has found out about its report, under the lock, is still so.
Known(p) ==
    /\ op[p] = "Skip" /\ at[p] > 4 => ~rep[p].uploaded
    /\ op[p] = "Skip" /\ at[p] > 3 /\ at[p] < 10 => loc[cur[p]] = "pending"
    /\ op[p] = "Success" /\ at[p] > 3 => loc[cur[p]] = "completed" /\ ~Recorded(cur[p])
    /\ op[p] = "Request" /\ at[p] > 4 /\ dir[p] = "completed" => ~Recorded(cur[p])
    /\ op[p] = "Delete" /\ at[p] > 4 => loc[cur[p]] = "gone"
    /\ op[p] = "CleanMeta" /\ at[p] = 4 /\ dir[p] = "completed" => loc[cur[p]] # "completed"
    /\ op[p] = "CleanLock" /\ at[p] = 2 /\ dir[p] = "completed" => loc[cur[p]] # "completed"
    /\ op[p] = "Purge" /\ at[p] = 1 /\ dir[p] = "completed" /\ Recorded(cur[p]) => faults > 0
    /\ op[p] = "Purge" /\ at[p] = 2 /\ dir[p] = "completed" /\ Recorded(cur[p]) =>
         loc[cur[p]] # "completed"

RefInv == HoldsInv /\ FlagsInv /\ RecordsPlaced /\ \A p \in Procs : Known(p)

\* Two failing calls may remove the metadata of a report and leave the report: one that
\* makes the metadata unreadable, one that keeps the report in its place.
FewFaults == MaxFaults \in {0, 1}

\* Failing calls are counted.
LEMMA FaultsGrow ==
    ASSUME TypeInv, NEW p \in Procs, Step(p)
    PROVE  faults \in Nat /\ faults' \in {faults, faults + 1}
<1>0. faults \in Nat
  BY ProcsAssumption DEF TypeInv, TypeOK
<1>1. ASSUME NEW u \in Reports, PrepareNewCrashReport(p, u)
      PROVE  faults' \in {faults, faults + 1}
  BY <1>1, PrepareEffect DEF SameCount
<1>2. ASSUME NEW u \in Reports, CleanNew(p, u)
      PROVE  faults' \in {faults, faults + 1}
  BY <1>2, CleanNewEffect DEF SameCount
<1>3. ASSUME NEW o \in Ops \cap (ByUUID \cup Cleaning \cup {"Visit"}),
             NEW u \in Reports, NEW d \in Dirs, Begin(p, o, u, d)
      PROVE  faults' \in {faults, faults + 1}
  BY <1>3, BeginEffect DEF SameCount
<1>4. ASSUME AddAttachment(p)
      PROVE  faults' \in {faults, faults + 1}
  BY <1>4, AttachEffect DEF SameCount
<1>5. ASSUME NEW o \in {"Finish", "Drop"}, CloseNewReport(p, o)
      PROVE  faults' \in {faults, faults + 1}
  BY <1>5, CloseEffect DEF SameCount
<1>6. ASSUME ResetAcquire(p)
      PROVE  faults' \in {faults, faults + 1}
  BY <1>6, AcquireEffect DEF SameCount
<1>7. ASSUME StampLock(p)
      PROVE  faults' \in {faults, faults + 1}
  BY <1>7, StampEffect DEF SameCount
<1>8. ASSUME LocateReport(p)
      PROVE  faults' \in {faults, faults + 1}
  BY <1>8, LocateEffect DEF SameCount
<1>9. ASSUME CleaningReadMetadata(p)
      PROVE  faults' \in {faults, faults + 1}
  BY <1>9, ReadEffect DEF SameCount
<1>10. ASSUME OpenReport(p)
      PROVE  faults' \in {faults, faults + 1}
  BY <1>10, OpenEffect DEF SameCount
<1>11. ASSUME NEW o \in {"Success", "Failure"}, SendReport(p, o)
      PROVE  faults' \in {faults, faults + 1}
  BY <1>11, SendEffect DEF SameCount
<1>12. ASSUME OpenMetadata(p)
      PROVE  faults' \in {faults, faults + 1}
  BY <1>12, OpenMetaEffect DEF SameCount
<1>13. ASSUME WriteMetadata(p)
      PROVE  faults' \in {faults, faults + 1}
  BY <1>13, WriteEffect DEF SameCount
<1>14. ASSUME MoveReport(p)
      PROVE  faults' \in {faults, faults + 1}
  BY <1>14, MoveEffect DEF SameCount
<1>15. ASSUME RemoveReport(p)
      PROVE  faults' \in {faults, faults + 1}
  BY <1>15, RemoveReportEffect DEF SameCount
<1>16. ASSUME RemoveMetadata(p)
      PROVE  faults' \in {faults, faults + 1}
  BY <1>16, RemoveMetaEffect DEF SameCount
<1>17. ASSUME CheckLone(p)
      PROVE  faults' \in {faults, faults + 1}
  BY <1>17, CheckLoneEffect DEF SameCount
<1>18. ASSUME RemoveAttachmentsByUUID(p)
      PROVE  faults' \in {faults, faults + 1}
  BY <1>18, RemoveAttachmentsEffect DEF SameCount
<1>19. ASSUME RemoveExpiredLock(p)
      PROVE  faults' \in {faults, faults + 1}
  BY <1>19, RemoveLockEffect DEF SameCount
<1>20. ASSUME RemoveNewReport(p)
      PROVE  faults' \in {faults, faults + 1}
  BY <1>20, RemoveNewEffect DEF SameCount
<1>21. ASSUME ReleaseLock(p)
      PROVE  faults' \in {faults, faults + 1}
  BY <1>21, ReleaseEffect DEF SameCount
<1>22. ASSUME Unlocked(p)
      PROVE  faults' \in {faults, faults + 1}
  BY <1>22, UnlockedEffect DEF SameCount
<1>23. ASSUME FailCall(p)
      PROVE  faults' \in {faults, faults + 1}
  BY <1>23, FailEffect DEF SameCount
<1>24. ASSUME Crash(p)
      PROVE  faults' \in {faults, faults + 1}
  BY <1>24, CrashEffect DEF SameCount
<1> QED
  BY <1>0, <1>1, <1>2, <1>3, <1>4, <1>5, <1>6, <1>7, <1>8, <1>9, <1>10, <1>11, <1>12, <1>13, <1>14, <1>15, <1>16, <1>17, <1>18, <1>19, <1>20, <1>21, <1>22, <1>23, <1>24
  DEF Step, Start, Call, Write

\* A step of p leaves what another process has found out as it is.
LEMMA KnownElsewhere ==
    ASSUME OneCleaner, RefInv, NEW p \in Procs, Step(p), NEW q \in Procs, q # p
    PROVE  Known(q)'
<1>0. HoldsInv /\ LockInv /\ TypeInv /\ HoldsLocks(q) /\ Known(q) /\ cur[q] \in Reports
  BY Local DEF RefInv, HoldsInv, LockInv, TypeInv
<1>1. /\ op'[q] = op[q] /\ at'[q] = at[q] /\ cur'[q] = cur[q]
      /\ dir'[q] = dir[q] /\ rep'[q] = rep[q]
  BY <1>0, HoldsStep DEF Elsewhere
<1>2. faults > 0 => faults' > 0
  BY <1>0, FaultsGrow
<1>3. op[q] \in Locking /\ at[q] > 1 => dir[q] \in own[q]
  BY <1>0, HasLock
<1>4. Has(q, "completed") => /\ (loc'[cur[q]] = "completed") = (loc[cur[q]] = "completed")
                             /\ Recorded(cur[q])' = Recorded(cur[q])
  BY <1>0, <1>1, Guarded, Exclusive DEF Recorded
<1>5. Has(q, "pending") /\ loc[cur[q]] = "pending" => loc'[cur[q]] = "pending"
  BY <1>0, Guarded, Exclusive
<1>6. loc[cur[q]] = "gone" => loc'[cur[q]] = "gone"
  BY <1>0, Guarded
<1>7. /\ op[q] = "Skip" /\ at[q] > 4 => ~rep[q].uploaded
      /\ op[q] = "Skip" /\ at[q] > 3 /\ at[q] < 10 => loc'[cur[q]] = "pending"
      /\ op[q] = "Delete" /\ at[q] > 4 => loc'[cur[q]] = "gone"
  <2>1. op[q] = "Skip" /\ at[q] > 3 => Has(q, "pending")
    BY <1>0, <1>3, ControlType DEF Has, HoldsLocks, Locking, ControlOK
  <2> QED
    BY <1>0, <1>5, <1>6, <2>1 DEF Known
<1>8. /\ op[q] = "Success" /\ at[q] > 3 => Has(q, "completed")
      /\ op[q] = "Request" /\ at[q] > 4 /\ dir[q] = "completed" => Has(q, "completed")
      /\ op[q] = "CleanMeta" /\ at[q] = 4 /\ dir[q] = "completed" => Has(q, "completed")
      /\ op[q] = "CleanLock" /\ at[q] = 2 /\ dir[q] = "completed" => Has(q, "completed")
      /\ op[q] = "Purge" /\ dir[q] = "completed" => Has(q, "completed")
  BY <1>0, <1>3, ControlType DEF Has, HoldsLocks, Locking, ControlOK
<1>9. /\ op[q] = "Success" /\ at[q] > 3 => loc'[cur[q]] = "completed" /\ ~Recorded(cur[q])'
      /\ op[q] = "Request" /\ at[q] > 4 /\ dir[q] = "completed" => ~Recorded(cur[q])'
      /\ op[q] = "CleanMeta" /\ at[q] = 4 /\ dir[q] = "completed" => loc'[cur[q]] # "completed"
      /\ op[q] = "CleanLock" /\ at[q] = 2 /\ dir[q] = "completed" => loc'[cur[q]] # "completed"
  BY <1>0, <1>4, <1>8 DEF Known
<1>10. /\ op[q] = "Purge" /\ at[q] = 1 /\ dir[q] = "completed" /\ Recorded(cur[q])' => faults' > 0
       /\ op[q] = "Purge" /\ at[q] = 2 /\ dir[q] = "completed" /\ Recorded(cur[q])' =>
            loc'[cur[q]] # "completed"
  BY <1>0, <1>2, <1>4, <1>8 DEF Known
<1> QED
  BY <1>1, <1>7, <1>9, <1>10 DEF Known, Recorded

\* What p finds out in a step, under the lock, is so after it.
LEMMA KnownStep ==
    ASSUME FewFaults, RefInv, NEW p \in Procs, Step(p)
    PROVE  Known(p)' /\ RecordsPlaced'
<1>0. /\ TypeInv /\ HoldsLocks(p) /\ Known(p) /\ RecordsPlaced /\ FlagsMatchState
      /\ dir[p] \in Dirs /\ cur[p] \in Reports
  BY Local DEF RefInv, HoldsInv, FlagsInv, LockInv, TypeInv
<1>l. op[p] \in Locking /\ at[p] > 1 => dir[p] \in own[p]
  BY HasLock DEF RefInv, HoldsInv
<1>a. at[p] \in 1..10
  BY <1>0 DEF TypeInv, TypeOK
<1>d. "completed" \in Dirs /\ "pending" \in Dirs /\ \A d \in Dirs : d \in {"pending", "completed"}
  BY DEF Dirs
<1>f. faults \in Nat /\ (faults < MaxFaults => faults = 0)
  BY <1>0, ProcsAssumption DEF FewFaults, TypeInv, TypeOK
<1>r. SameFiles => RecordsPlaced'
  BY <1>0 DEF SameFiles, RecordsPlaced, Recorded
<1>1. ASSUME NEW u \in Reports, PrepareNewCrashReport(p, u) PROVE Known(p)' /\ RecordsPlaced'
  <2>1. Known(p)'
    BY <1>0, <1>a, <1>d, <1>1, PrepareEffect, ScriptSizes
    DEF Known, Recorded, RecordsPlaced, HoldsLocks, Went, WentOn, Keeps, Sits, SameCount,
        LocBecomes, MetaBecomes, Source, Target, WriteDir, TornMeta, NoMeta, Tolerant
  <2>2. RecordsPlaced'
    BY <1>0, <1>a, <1>d, <1>1, PrepareEffect
    DEF Known, Recorded, RecordsPlaced, HoldsLocks, Sits,
        LocBecomes, MetaBecomes, Source, Target, WriteDir, NewContents, ValidMeta, TornMeta, NoMeta
  <2> QED
    BY <2>1, <2>2
<1>2. ASSUME NEW u \in Reports, CleanNew(p, u) PROVE Known(p)' /\ RecordsPlaced'
  <2>1. Known(p)'
    BY <1>0, <1>a, <1>d, <1>2, CleanNewEffect, ScriptSizes
    DEF Known, Recorded, RecordsPlaced, HoldsLocks, Went, WentOn, Keeps, Sits, SameCount,
        LocBecomes, MetaBecomes, Source, Target, WriteDir, TornMeta, NoMeta, Tolerant
  <2>2. RecordsPlaced'
    BY <1>0, <1>a, <1>d, <1>2, CleanNewEffect
    DEF Known, Recorded, RecordsPlaced, HoldsLocks, Sits,
        LocBecomes, MetaBecomes, Source, Target, WriteDir, NewContents, ValidMeta, TornMeta, NoMeta
  <2> QED
    BY <2>1, <2>2
<1>3. ASSUME NEW o \in Ops \cap (ByUUID \cup Cleaning \cup {"Visit"}),
             NEW u \in Reports, NEW d \in Dirs, Begin(p, o, u, d)
      PROVE  Known(p)' /\ RecordsPlaced'
  BY <1>0, <1>a, <1>f, <1>r, <1>3, BeginEffect, ScriptSizes
  DEF Known, Recorded, RecordsPlaced, FlagsMatchState, HoldsLocks, Went, WentOn, Keeps, Sits,
      Locking, SameFiles, SameCount
<1>4. ASSUME AddAttachment(p) PROVE Known(p)' /\ RecordsPlaced'
  BY <1>0, <1>a, <1>f, <1>r, <1>4, AttachEffect, ScriptSizes
  DEF Known, Recorded, RecordsPlaced, FlagsMatchState, HoldsLocks, Went, WentOn, Keeps, Sits,
      Locking, SameFiles, SameCount
<1>5. ASSUME NEW o \in {"Finish", "Drop"}, CloseNewReport(p, o) PROVE Known(p)' /\ RecordsPlaced'
  BY <1>0, <1>a, <1>f, <1>r, <1>5, CloseEffect, ScriptSizes
  DEF Known, Recorded, RecordsPlaced, FlagsMatchState, HoldsLocks, Went, WentOn, Keeps, Sits,
      Locking, SameFiles, SameCount
<1>6. ASSUME ResetAcquire(p) PROVE Known(p)' /\ RecordsPlaced'
  <2>1. SameFiles /\ cur'[p] = cur[p] /\ dir'[p] = dir[p] /\ rep'[p] = rep[p]
    BY <1>0, <1>6, AcquireEffect
  <2>2. op'[p] \in {"Return", "Drop"} \/ Went(p, op[p], at[p] + 1)
    BY <1>0, <1>6, AcquireEffect DEF Went, WentOn
  <2>3. at[p] = 1 \/ Sits(p, "Skip", 5)
    BY <1>0, <1>6, AcquireEffect DEF Sits
  <2>4. op[p] \notin {"CleanLock", "Purge"}
    BY <1>0, <1>6, AcquireEffect DEF Sits, Locking
  <2> QED
    BY <1>0, <1>r, <2>1, <2>2, <2>3, <2>4 DEF Known, Recorded, Went, Sits, SameFiles
<1>7. ASSUME StampLock(p) PROVE Known(p)' /\ RecordsPlaced'
  BY <1>0, <1>a, <1>f, <1>r, <1>7, StampEffect, ScriptSizes
  DEF Known, Recorded, RecordsPlaced, FlagsMatchState, HoldsLocks, Went, WentOn, Keeps, Sits,
      Locking, SameFiles, SameCount
<1>8. ASSUME LocateReport(p) PROVE Known(p)' /\ RecordsPlaced'
  BY <1>0, <1>a, <1>f, <1>r, <1>8, LocateEffect, ScriptSizes
  DEF Known, Recorded, RecordsPlaced, FlagsMatchState, HoldsLocks, Went, WentOn, Keeps, Sits,
      Locking, SameFiles, SameCount
<1>9. ASSUME CleaningReadMetadata(p) PROVE Known(p)' /\ RecordsPlaced'
  BY <1>0, <1>a, <1>f, <1>r, <1>9, ReadEffect, ScriptSizes
  DEF Known, Recorded, RecordsPlaced, FlagsMatchState, HoldsLocks, Went, WentOn, Keeps, Sits,
      Locking, SameFiles, SameCount
<1>10. ASSUME OpenReport(p) PROVE Known(p)' /\ RecordsPlaced'
  BY <1>0, <1>a, <1>f, <1>r, <1>10, OpenEffect, ScriptSizes
  DEF Known, Recorded, RecordsPlaced, FlagsMatchState, HoldsLocks, Went, WentOn, Keeps, Sits,
      Locking, SameFiles, SameCount
<1>11. ASSUME NEW o \in {"Success", "Failure"}, SendReport(p, o) PROVE Known(p)' /\ RecordsPlaced'
  BY <1>0, <1>a, <1>f, <1>r, <1>11, SendEffect, ScriptSizes
  DEF Known, Recorded, RecordsPlaced, FlagsMatchState, HoldsLocks, Went, WentOn, Keeps, Sits,
      Locking, SameFiles, SameCount
<1>12. ASSUME OpenMetadata(p) PROVE Known(p)' /\ RecordsPlaced'
  <2>1. Known(p)'
    BY <1>0, <1>a, <1>d, <1>12, OpenMetaEffect, ScriptSizes
    DEF Known, Recorded, RecordsPlaced, HoldsLocks, Went, WentOn, Keeps, Sits, SameCount,
        LocBecomes, MetaBecomes, Source, Target, WriteDir, TornMeta, NoMeta, Tolerant
  <2>2. RecordsPlaced'
    BY <1>0, <1>a, <1>d, <1>12, OpenMetaEffect
    DEF Known, Recorded, RecordsPlaced, HoldsLocks, Sits,
        LocBecomes, MetaBecomes, Source, Target, WriteDir, NewContents, ValidMeta, TornMeta, NoMeta
  <2> QED
    BY <2>1, <2>2
<1>13. ASSUME WriteMetadata(p) PROVE Known(p)' /\ RecordsPlaced'
  <2>1. Known(p)'
    BY <1>0, <1>a, <1>d, <1>13, WriteEffect, ScriptSizes
    DEF Known, Recorded, RecordsPlaced, HoldsLocks, Went, WentOn, Keeps, Sits, SameCount,
        LocBecomes, MetaBecomes, Source, Target, WriteDir, TornMeta, NoMeta, Tolerant
  <2>2. RecordsPlaced'
    <3>1. CASE meta' = meta
      BY <1>0, <1>13, <3>1, WriteEffect DEF RecordsPlaced, Recorded
    <3>2. CASE MetaBecomes(WriteDir(p), cur[p], NewContents(p))
      <4>1. loc' = loc
        BY <1>0, <1>13, WriteEffect
      <4>2. CASE op[p] \notin {"Success", "Skip"}
        BY <1>0, <1>d, <3>2, <4>1, <4>2 DEF RecordsPlaced, Recorded, MetaBecomes, WriteDir
      <4>3. CASE op[p] = "Success"
        <5>0. NewContents(p) = ValidMeta(TRUE, FALSE)
          BY <4>3 DEF NewContents
        <5>a. at[p] = 6
          BY <1>0, <1>13, <4>3, WriteEffect DEF Sits
        <5>1. loc[cur[p]] = "completed" /\ NewContents(p) = ValidMeta(TRUE, FALSE)
          BY <1>0, <4>3, <5>0, <5>a DEF Known
        <5> QED
          BY <1>0, <1>d, <3>2, <4>1, <5>1 DEF RecordsPlaced, Recorded, MetaBecomes, ValidMeta
      <4>4. CASE op[p] = "Skip"
        <5>0. NewContents(p) = ValidMeta(rep[p].uploaded, FALSE)
          BY <4>4 DEF NewContents
        <5>a. at[p] = 8
          BY <1>0, <1>13, <4>4, WriteEffect DEF Sits
        <5>1. ~NewContents(p).uploaded /\ NewContents(p).st = "valid"
          BY <1>0, <4>4, <5>0, <5>a DEF Known, ValidMeta
        <5> QED
          BY <1>0, <1>d, <3>2, <4>1, <5>1 DEF RecordsPlaced, Recorded, MetaBecomes
      <4> QED
        BY <4>2, <4>3, <4>4
    <3> QED
      BY <1>0, <1>13, <3>1, <3>2, WriteEffect
  <2> QED
    BY <2>1, <2>2
<1>14. ASSUME MoveReport(p) PROVE Known(p)' /\ RecordsPlaced'
  <2>1. Known(p)'
    BY <1>0, <1>a, <1>d, <1>14, MoveEffect, ScriptSizes
    DEF Known, Recorded, RecordsPlaced, HoldsLocks, Went, WentOn, Keeps, Sits, SameCount,
        LocBecomes, MetaBecomes, Source, Target, WriteDir, TornMeta, NoMeta, Tolerant
  <2>2. RecordsPlaced'
    BY <1>0, <1>a, <1>d, <1>14, MoveEffect
    DEF Known, Recorded, RecordsPlaced, HoldsLocks, Sits,
        LocBecomes, MetaBecomes, Source, Target, WriteDir, NewContents, ValidMeta, TornMeta, NoMeta
  <2> QED
    BY <2>1, <2>2
<1>15. ASSUME RemoveReport(p) PROVE Known(p)' /\ RecordsPlaced'
  <2>1. Known(p)'
    BY <1>0, <1>a, <1>d, <1>15, RemoveReportEffect, ScriptSizes
    DEF Known, Recorded, RecordsPlaced, HoldsLocks, Went, WentOn, Keeps, Sits, SameCount,
        LocBecomes, MetaBecomes, Source, Target, WriteDir, TornMeta, NoMeta, Tolerant
  <2>2. RecordsPlaced'
    BY <1>0, <1>a, <1>d, <1>15, RemoveReportEffect
    DEF Known, Recorded, RecordsPlaced, HoldsLocks, Sits,
        LocBecomes, MetaBecomes, Source, Target, WriteDir, NewContents, ValidMeta, TornMeta, NoMeta
  <2> QED
    BY <2>1, <2>2
<1>16. ASSUME RemoveMetadata(p) PROVE Known(p)' /\ RecordsPlaced'
  <2>1. Known(p)'
    BY <1>0, <1>a, <1>d, <1>16, RemoveMetaEffect, ScriptSizes
    DEF Known, Recorded, RecordsPlaced, HoldsLocks, Went, WentOn, Keeps, Sits, SameCount,
        LocBecomes, MetaBecomes, Source, Target, WriteDir, TornMeta, NoMeta, Tolerant
  <2>2. RecordsPlaced'
    BY <1>0, <1>a, <1>d, <1>16, RemoveMetaEffect
    DEF Known, Recorded, RecordsPlaced, HoldsLocks, Sits,
        LocBecomes, MetaBecomes, Source, Target, WriteDir, NewContents, ValidMeta, TornMeta, NoMeta
  <2> QED
    BY <2>1, <2>2
<1>17. ASSUME CheckLone(p) PROVE Known(p)' /\ RecordsPlaced'
  BY <1>0, <1>a, <1>f, <1>r, <1>17, CheckLoneEffect, ScriptSizes
  DEF Known, Recorded, RecordsPlaced, FlagsMatchState, HoldsLocks, Went, WentOn, Keeps, Sits,
      Locking, SameFiles, SameCount
<1>18. ASSUME RemoveAttachmentsByUUID(p) PROVE Known(p)' /\ RecordsPlaced'
  BY <1>0, <1>a, <1>f, <1>r, <1>18, RemoveAttachmentsEffect, ScriptSizes
  DEF Known, Recorded, RecordsPlaced, FlagsMatchState, HoldsLocks, Went, WentOn, Keeps, Sits,
      Locking, SameFiles, SameCount
<1>19. ASSUME RemoveExpiredLock(p) PROVE Known(p)' /\ RecordsPlaced'
  BY <1>0, <1>a, <1>f, <1>r, <1>19, RemoveLockEffect, ScriptSizes
  DEF Known, Recorded, RecordsPlaced, FlagsMatchState, HoldsLocks, Went, WentOn, Keeps, Sits,
      Locking, SameFiles, SameCount
<1>20. ASSUME RemoveNewReport(p) PROVE Known(p)' /\ RecordsPlaced'
  <2>1. Known(p)'
    BY <1>0, <1>a, <1>d, <1>20, RemoveNewEffect, ScriptSizes
    DEF Known, Recorded, RecordsPlaced, HoldsLocks, Went, WentOn, Keeps, Sits, SameCount,
        LocBecomes, MetaBecomes, Source, Target, WriteDir, TornMeta, NoMeta, Tolerant
  <2>2. RecordsPlaced'
    BY <1>0, <1>a, <1>d, <1>20, RemoveNewEffect
    DEF Known, Recorded, RecordsPlaced, HoldsLocks, Sits,
        LocBecomes, MetaBecomes, Source, Target, WriteDir, NewContents, ValidMeta, TornMeta, NoMeta
  <2> QED
    BY <2>1, <2>2
<1>21. ASSUME ReleaseLock(p) PROVE Known(p)' /\ RecordsPlaced'
  BY <1>0, <1>a, <1>f, <1>r, <1>21, ReleaseEffect, ScriptSizes
  DEF Known, Recorded, RecordsPlaced, FlagsMatchState, HoldsLocks, Went, WentOn, Keeps, Sits,
      Locking, SameFiles, SameCount
<1>22. ASSUME Unlocked(p) PROVE Known(p)' /\ RecordsPlaced'
  BY <1>0, <1>a, <1>f, <1>r, <1>22, UnlockedEffect, ScriptSizes
  DEF Known, Recorded, RecordsPlaced, FlagsMatchState, HoldsLocks, Went, WentOn, Keeps, Sits,
      Locking, SameFiles, SameCount
<1>23. ASSUME FailCall(p) PROVE Known(p)' /\ RecordsPlaced'
  BY <1>0, <1>a, <1>f, <1>r, <1>23, FailEffect, ScriptSizes
  DEF Known, Recorded, RecordsPlaced, FlagsMatchState, HoldsLocks, Went, WentOn, Keeps, Sits,
      Locking, SameFiles, SameCount
<1>24. ASSUME Crash(p) PROVE Known(p)' /\ RecordsPlaced'
  BY <1>0, <1>a, <1>f, <1>r, <1>24, CrashEffect, ScriptSizes
  DEF Known, Recorded, RecordsPlaced, FlagsMatchState, HoldsLocks, Went, WentOn, Keeps, Sits,
      Locking, SameFiles, SameCount
<1> QED
  BY <1>1, <1>2, <1>3, <1>4, <1>5, <1>6, <1>7, <1>8, <1>9, <1>10, <1>11, <1>12, <1>13, <1>14, <1>15, <1>16, <1>17, <1>18, <1>19, <1>20, <1>21, <1>22, <1>23, <1>24
  DEF Step, Start, Call, Write

\* Every step keeps the invariant.
LEMMA RefNext ==
    ASSUME OneCleaner, FewFaults
    PROVE  RefInv /\ [Next]_vars => RefInv'
<1> SUFFICES ASSUME RefInv, [Next]_vars PROVE RefInv'
  OBVIOUS
<1>1. HoldsInv' /\ FlagsInv'
  BY HoldsNext, FlagsNext DEF RefInv
<1>2. CASE UNCHANGED vars
  BY <1>1, <1>2 DEF vars, RefInv, RecordsPlaced, Known, Recorded
<1>3. ASSUME NEW p \in Procs, Step(p) PROVE RefInv'
  BY <1>1, <1>3, KnownStep, KnownElsewhere DEF RefInv
<1> QED
  BY <1>2, <1>3 DEF Next, Step

\* The empty database satisfies it.
LEMMA RefInit == Init => RefInv
<1> SUFFICES ASSUME Init PROVE RefInv
  OBVIOUS
<1>1. \A p \in Procs : op[p] = "Idle" /\ at[p] = 1 /\ own[p] = {}
  BY DEF Init
<1>2. TypeInv
  BY TypeInit
<1>3. \A u \in Reports : meta["completed"][u] = NoMeta /\ meta["pending"][u] = NoMeta
  BY DEF Init, Dirs
<1>4. HoldsInv
  BY <1>1, <1>2
  DEF HoldsInv, HoldsLocks, LockInv, LockHeldByOwner, LockedAfterAcquire, IdleUnlocked,
      BreaksDeadLocks, CleanersClean, Cleaning
<1>5. FlagsInv
  BY <1>1, <1>2, <1>3 DEF FlagsInv, FlagsMatchState, RequestsNotUploaded, NoMeta
<1> QED
  BY <1>1, <1>3, <1>4, <1>5 DEF RefInv, RecordsPlaced, Known, Recorded, NoMeta

\* The reports that are recorded as uploaded, as the life cycle sees it.
Uploaded == {u \in Reports : loc[u] = "completed" /\ meta["completed"][u].uploaded}

\* What a step is in the life cycle of the report u.
Stutters == \A v \in Reports : loc'[v] = loc[v] /\ (v \in Uploaded' <=> v \in Uploaded)
MovesTo(u, b) ==
    /\ Lifecycle!Follows(loc[u], b) /\ (u \in Uploaded => b = "gone")
    /\ LocBecomes(u, b)
    /\ \A v \in Reports : v \in Uploaded' <=> v \in Uploaded /\ v # u
Records(u) ==
    /\ loc[u] = "completed" /\ loc' = loc
    /\ \A v \in Reports : v \in Uploaded' <=> v \in Uploaded \/ v = u

\* Every step of a process is a step of one report's life, or none.
LEMMA Lives ==
    ASSUME FewFaults, RefInv, NEW p \in Procs, Step(p)
    PROVE  \/ Stutters
           \/ \E u \in Reports, b \in {"new", "pending", "completed", "dropped", "gone"} : MovesTo(u, b)
           \/ \E u \in Reports : Records(u)
<1>0. /\ TypeInv /\ HoldsLocks(p) /\ Known(p) /\ RecordsPlaced /\ FlagsMatchState
      /\ dir[p] \in Dirs /\ cur[p] \in Reports
  BY Local DEF RefInv, HoldsInv, FlagsInv, LockInv, TypeInv
<1>a. at[p] \in 1..10
  BY <1>0 DEF TypeInv, TypeOK
<1>d. "completed" \in Dirs /\ "pending" \in Dirs /\ \A d \in Dirs : d \in {"pending", "completed"}
  BY DEF Dirs
<1>s. SameFiles => Stutters
  BY DEF SameFiles, Stutters, Uploaded
<1> DEFINE Goal == \/ Stutters
                   \/ \E u \in Reports, b \in {"new", "pending", "completed", "dropped", "gone"} :
                        MovesTo(u, b)
                   \/ \E u \in Reports : Records(u)
<1>1. ASSUME NEW u \in Reports, PrepareNewCrashReport(p, u) PROVE Goal
  <2>1. MovesTo(u, "new")
    BY <1>0, <1>1, PrepareEffect DEF MovesTo, LocBecomes, Uploaded, Lifecycle!Follows
  <2> QED
    BY <2>1
<1>2. ASSUME NEW u \in Reports, CleanNew(p, u) PROVE Goal
  <2>1. MovesTo(u, "dropped")
    BY <1>0, <1>2, CleanNewEffect DEF MovesTo, LocBecomes, Uploaded, Lifecycle!Follows
  <2> QED
    BY <2>1
<1>3. ASSUME NEW o \in Ops \cap (ByUUID \cup Cleaning \cup {"Visit"}),
             NEW u \in Reports, NEW d \in Dirs, Begin(p, o, u, d) PROVE Goal
  BY <1>0, <1>s, <1>3, BeginEffect
<1>4. ASSUME AddAttachment(p) PROVE Goal
  BY <1>0, <1>s, <1>4, AttachEffect
<1>5. ASSUME NEW o \in {"Finish", "Drop"}, CloseNewReport(p, o) PROVE Goal
  BY <1>0, <1>s, <1>5, CloseEffect
<1>6. ASSUME ResetAcquire(p) PROVE Goal
  BY <1>0, <1>s, <1>6, AcquireEffect
<1>7. ASSUME StampLock(p) PROVE Goal
  BY <1>0, <1>s, <1>7, StampEffect
<1>8. ASSUME LocateReport(p) PROVE Goal
  BY <1>0, <1>s, <1>8, LocateEffect
<1>9. ASSUME CleaningReadMetadata(p) PROVE Goal
  BY <1>0, <1>s, <1>9, ReadEffect
<1>10. ASSUME OpenReport(p) PROVE Goal
  BY <1>0, <1>s, <1>10, OpenEffect
<1>11. ASSUME NEW o \in {"Success", "Failure"}, SendReport(p, o) PROVE Goal
  BY <1>0, <1>s, <1>11, SendEffect
<1>12. ASSUME OpenMetadata(p) PROVE Goal
  <2>1. CASE meta' = meta
    BY <1>0, <1>12, <1>s, <2>1, OpenMetaEffect DEF SameFiles
  <2>2. CASE MetaBecomes(WriteDir(p), cur[p], TornMeta)
    <3>1. loc' = loc
      BY <1>0, <1>12, OpenMetaEffect
    <3>2. WriteDir(p) = "completed" => ~(loc[cur[p]] = "completed" /\ Recorded(cur[p]))
      BY <1>0, <1>12, OpenMetaEffect DEF WriteDir, Sits, Known
    <3> QED
      BY <1>0, <1>d, <2>2, <3>1, <3>2 DEF Stutters, Uploaded, MetaBecomes, TornMeta, Recorded
  <2> QED
    BY <1>0, <1>12, <2>1, <2>2, OpenMetaEffect
<1>13. ASSUME WriteMetadata(p) PROVE Goal
  <2>0. loc' = loc
    BY <1>0, <1>13, WriteEffect
  <2>1. CASE meta' = meta
    BY <1>s, <2>0, <2>1 DEF SameFiles
  <2>2. CASE MetaBecomes(WriteDir(p), cur[p], NewContents(p))
    <3>1. CASE op[p] \notin {"Success", "Skip"}
      BY <1>0, <1>d, <2>0, <2>2, <3>1 DEF Stutters, Uploaded, MetaBecomes, WriteDir
    <3>2. CASE op[p] = "Success"
      <4>1. NewContents(p) = ValidMeta(TRUE, FALSE)
        BY <3>2 DEF NewContents
      <4>2. at[p] = 6
        BY <1>0, <1>13, <3>2, WriteEffect DEF Sits
      <4>3. loc[cur[p]] = "completed"
        BY <1>0, <3>2, <4>2 DEF Known
      <4>4. Records(cur[p])
        BY <1>0, <1>d, <2>0, <2>2, <3>2, <4>1, <4>3
        DEF Records, Uploaded, MetaBecomes, WriteDir, ValidMeta
      <4> QED
        BY <1>0, <4>4
    <3>3. CASE op[p] = "Skip"
      <4>1. at[p] = 8
        BY <1>0, <1>13, <3>3, WriteEffect DEF Sits
      <4>2. loc[cur[p]] = "pending"
        BY <1>0, <3>3, <4>1 DEF Known
      <4> QED
        BY <1>0, <1>d, <2>0, <2>2, <4>2 DEF Stutters, Uploaded, MetaBecomes
    <3> QED
      BY <3>1, <3>2, <3>3
  <2> QED
    BY <1>0, <1>13, <2>1, <2>2, WriteEffect
<1>14. ASSUME MoveReport(p) PROVE Goal
  <2>0. meta' = meta
    BY <1>0, <1>14, MoveEffect
  <2>1. CASE loc' = loc
    BY <1>s, <2>0, <2>1 DEF SameFiles
  <2>2. CASE loc[cur[p]] = Source(p) /\ LocBecomes(cur[p], Target(p))
    <3>1. CASE op[p] = "Finish"
      <4>1. MovesTo(cur[p], "pending")
        BY <1>0, <2>0, <2>2, <3>1
        DEF MovesTo, LocBecomes, Uploaded, Source, Target, Lifecycle!Follows
      <4> QED
        BY <1>0, <4>1
    <3>2. CASE op[p] \in {"Success", "Skip"}
      <4>1. dir[p] = "pending" /\ ~Recorded(cur[p])
        BY <1>0, <2>2, <3>2 DEF HoldsLocks, RecordsPlaced, Source
      <4>2. MovesTo(cur[p], "completed")
        BY <1>0, <2>0, <2>2, <3>2, <4>1
        DEF MovesTo, LocBecomes, Uploaded, Recorded, Source, Target, Lifecycle!Follows
      <4> QED
        BY <1>0, <4>2
    <3>3. CASE op[p] = "Request" /\ dir[p] = "pending"
      BY <1>0, <2>0, <2>2, <3>3 DEF Stutters, LocBecomes, Uploaded, Source, Target
    <3>4. CASE op[p] = "Request" /\ dir[p] = "completed"
      <4>1. at[p] = 5
        BY <1>0, <1>14, <3>4, MoveEffect DEF Sits
      <4>2. ~Recorded(cur[p])
        BY <1>0, <3>4, <4>1 DEF Known
      <4>3. MovesTo(cur[p], "pending")
        BY <1>0, <2>0, <2>2, <3>4, <4>2
        DEF MovesTo, LocBecomes, Uploaded, Recorded, Source, Target, Lifecycle!Follows
      <4> QED
        BY <1>0, <4>3
    <3> QED
      BY <1>0, <1>d, <1>14, <3>1, <3>2, <3>3, <3>4, MoveEffect DEF Sits
  <2> QED
    BY <1>0, <1>14, <2>1, <2>2, MoveEffect
<1>15. ASSUME RemoveReport(p) PROVE Goal
  <2>0. meta' = meta
    BY <1>0, <1>15, RemoveReportEffect
  <2>1. CASE loc' = loc
    BY <1>s, <2>0, <2>1 DEF SameFiles
  <2>2. CASE loc[cur[p]] = dir[p] /\ LocBecomes(cur[p], "gone")
    <3>1. MovesTo(cur[p], "gone")
      BY <1>0, <1>d, <2>0, <2>2 DEF MovesTo, LocBecomes, Uploaded, Lifecycle!Follows
    <3> QED
      BY <1>0, <3>1
  <2> QED
    BY <1>0, <1>15, <2>1, <2>2, RemoveReportEffect
<1>16. ASSUME RemoveMetadata(p) PROVE Goal
  <2>0. loc' = loc
    BY <1>0, <1>16, RemoveMetaEffect
  <2>1. CASE meta' = meta
    BY <1>s, <2>0, <2>1 DEF SameFiles
  <2>2. CASE /\ MetaBecomes(dir[p], cur[p], NoMeta)
             /\ ~(op[p] = "Request" /\ dir[p] = "pending")
    <3>1. dir[p] = "completed" => ~(loc[cur[p]] = "completed" /\ Recorded(cur[p]))
      BY <1>0, <1>16, RemoveMetaEffect DEF Sits, Known, HoldsLocks
    <3> QED
      BY <1>0, <1>d, <2>0, <2>2, <3>1 DEF Stutters, Uploaded, MetaBecomes, NoMeta, Recorded
  <2> QED
    BY <1>0, <1>16, <2>1, <2>2, RemoveMetaEffect
<1>17. ASSUME CheckLone(p) PROVE Goal
  BY <1>0, <1>s, <1>17, CheckLoneEffect
<1>18. ASSUME RemoveAttachmentsByUUID(p) PROVE Goal
  BY <1>0, <1>s, <1>18, RemoveAttachmentsEffect
<1>19. ASSUME RemoveExpiredLock(p) PROVE Goal
  BY <1>0, <1>s, <1>19, RemoveLockEffect
<1>20. ASSUME RemoveNewReport(p) PROVE Goal
  <2>1. CASE loc[cur[p]] = "new"
    <3>1. MovesTo(cur[p], "dropped")
      BY <1>0, <1>20, <2>1, RemoveNewEffect DEF MovesTo, LocBecomes, Uploaded, Lifecycle!Follows
    <3> QED
      BY <1>0, <3>1
  <2>2. CASE loc[cur[p]] # "new"
    BY <1>0, <1>20, <2>2, RemoveNewEffect DEF Stutters, LocBecomes, Uploaded
  <2> QED
    BY <2>1, <2>2
<1>21. ASSUME ReleaseLock(p) PROVE Goal
  BY <1>0, <1>s, <1>21, ReleaseEffect
<1>22. ASSUME Unlocked(p) PROVE Goal
  BY <1>0, <1>s, <1>22, UnlockedEffect
<1>23. ASSUME FailCall(p) PROVE Goal
  BY <1>0, <1>s, <1>23, FailEffect
<1>24. ASSUME Crash(p) PROVE Goal
  BY <1>0, <1>s, <1>24, CrashEffect
<1> QED
  BY <1>1, <1>2, <1>3, <1>4, <1>5, <1>6, <1>7, <1>8, <1>9, <1>10, <1>11, <1>12, <1>13, <1>14, <1>15, <1>16, <1>17, <1>18, <1>19, <1>20, <1>21, <1>22, <1>23, <1>24
  DEF Step, Start, Call, Write

\* Whatever the processes do, whoever dies, and if one call fails, the generic database
\* implements ReportLifecycle: each report goes through its stages in order, and one
\* that was recorded as uploaded is neither moved back nor forgotten.
THEOREM DatabaseImplementsLifecycle ==
    ASSUME OneCleaner, FewFaults
    PROVE  Spec => ImplementsLifecycle
<1>1. Init => Lifecycle!Init
  <2> SUFFICES ASSUME Init PROVE Lifecycle!Init
    OBVIOUS
  <2>1. Uploaded = {}
    BY DEF Init, Uploaded
  <2> QED
    BY <2>1 DEF Init, Lifecycle!Init, Uploaded
<1>2. RefInv /\ [Next]_vars => [Lifecycle!Next]_(Lifecycle!vars)
  <2> SUFFICES ASSUME RefInv, [Next]_vars PROVE [Lifecycle!Next]_(Lifecycle!vars)
    OBVIOUS
  <2>0. loc \in [Reports -> Places] /\ loc' \in [Reports -> Places]
    <3>1. TypeInv /\ TypeInv'
      BY TypeNext DEF RefInv, FlagsInv
    <3> QED
      BY <3>1 DEF TypeInv, TypeOK
  <2>1. CASE UNCHANGED vars
    BY <2>1 DEF vars, Lifecycle!vars
  <2>2. ASSUME NEW p \in Procs, Step(p) PROVE [Lifecycle!Next]_(Lifecycle!vars)
    <3>1. CASE Stutters
      <4>1. loc' = loc /\ Uploaded' = Uploaded
        BY <2>0, <3>1 DEF Stutters, Uploaded
      <4> QED
        BY <4>1 DEF Lifecycle!vars, Uploaded
    <3>2. ASSUME NEW u \in Reports, NEW b \in {"new", "pending", "completed", "dropped", "gone"},
                 MovesTo(u, b)
          PROVE  Lifecycle!Next
      <4>1. loc' = [loc EXCEPT ![u] = b]
        BY <2>0, <3>2 DEF MovesTo, LocBecomes
      <4>2. Uploaded' = Uploaded \ {u}
        BY <3>2 DEF MovesTo, Uploaded
      <4>3. Lifecycle!Move(u, b)
        BY <3>2, <4>1, <4>2 DEF Lifecycle!Move, MovesTo, Uploaded
      <4> QED
        BY <4>3 DEF Lifecycle!Next
    <3>3. ASSUME NEW u \in Reports, Records(u) PROVE Lifecycle!Next
      <4>1. Uploaded' = Uploaded \cup {u}
        BY <3>3 DEF Records, Uploaded
      <4>2. Lifecycle!RecordUploaded(u)
        BY <3>3, <4>1 DEF Lifecycle!RecordUploaded, Records, Uploaded
      <4> QED
        BY <4>2 DEF Lifecycle!Next
    <3> QED
      BY <2>2, <3>1, <3>2, <3>3, Lives
  <2> QED
    BY <2>1, <2>2 DEF Next, Step
<1>3. RefInv /\ [Next]_vars => RefInv'
  BY RefNext
<1> QED
  BY RefInit, <1>1, <1>2, <1>3, PTL DEF Spec, ImplementsLifecycle, Lifecycle!Spec

----------------------------------------------------------------------------
(***************************************************************************)
(* The database used under its locks: what the run DatabaseLocked checks   *)
(* on a small instance.  Every operation that writes takes the lock first. *)
(* LockedInv says who may change what while nothing has failed, OrderInv   *)
(* what the files of a report look like while nothing has crashed either.  *)
(***************************************************************************)

----------------------------------------------------------------------------
(***************************************************************************)
(* The inductive invariants.                                               *)
(***************************************************************************)

\* Neither RequestUpload() nor a failed upload: the two operations that write to pending/
\* without its lock.
LockedOnly == Ops \cap {"Request", "Failure"} = {}

\* The operations of a process that has a NewReport.
Writers == {"Writing", "Finish", "Drop"}

\* The places a report does not leave.
Past == {"gone", "dropped"}

\* Which locks p does not have yet.
Owns(p) ==
    /\ op[p] \in Locking /\ at[p] = 1 => own[p] = {}
    /\ op[p] \in Locking \ {"Skip"} => own[p] \subseteq {dir[p]}
    /\ op[p] = "Skip" /\ at[p] < 6 => own[p] \subseteq {"pending"}
    /\ op[p] = "Success" /\ at[p] = 1 => own[p] \subseteq {"pending"}

\* What p has found out about the place of its report, under the lock, is still so.
Found(p) ==
    /\ op[p] \notin {"Request", "Failure"}
    /\ op[p] \in {"LookUp", "Delete"} /\ at[p] = 4 => loc[cur[p]] = dir[p]
    /\ op[p] = "Upload" /\ at[p] > 3 => loc[cur[p]] = "pending"
    /\ op[p] = "Skip" /\ at[p] > 3 => loc[cur[p]] = IF at[p] < 10 THEN "pending" ELSE "completed"
    /\ op[p] = "Success" => loc[cur[p]] = IF at[p] < 4 THEN "pending" ELSE "completed"
    /\ op[p] = "Delete" /\ at[p] > 4 => loc[cur[p]] = "gone"
    /\ op[p] = "CleanMeta" /\ at[p] = 4 => loc[cur[p]] # dir[p]
    /\ op[p] = "CleanLock" /\ at[p] \in {2, 3} => loc[cur[p]] # dir[p]
    /\ op[p] = "CleanLock" /\ at[p] = 3 => meta[dir[p]][cur[p]].st = "none"
    /\ op[p] \in Writers => loc[cur[p]] = "new"

\* A report p looks for is where p looks, or further on: nothing moves it back.
Forward(p) ==
    /\ op[p] \in {"LookUp", "Delete", "CleanAttachments", "Visit", "CleanReport"} =>
         loc[cur[p]] \in (IF dir[p] = "completed" THEN {"completed"} ELSE Dirs) \cup Past
    /\ op[p] = "CleanMeta" /\ dir[p] = "completed" /\ at[p] = 1 =>
         loc[cur[p]] \in {"completed"} \cup Past \/ lock["completed"][cur[p]].owner # NoOwner
    /\ op[p] = "Orphan" => loc[cur[p]] \in Past
    /\ "completed" \in own[p] =>
         loc[cur[p]] \in {"completed"} \cup Past \/ op[p] \in {"Success", "Skip"}

\* A new report has one writer.
OneWriter == \A p, q \in Procs : op[p] \in Writers /\ op[q] \in Writers /\ cur[p] = cur[q] => p = q

\* A lock file is its owner's, a dead process's, or not there.
LockFiles(u) ==
    \A d \in Dirs :
      /\ lock[d][u].owner \in Procs => d \in own[lock[d][u].owner] /\ cur[lock[d][u].owner] = u
      /\ lock[d][u].owner = NoOwner => lock[d][u] = NoLock
      /\ lock[d][u].owner = Crashed => crashes > 0

\* completed/ has a lock or metadata of a pending report only from the process that has
\* the report's lock in pending/.
Ahead(u) ==
    /\ lock["completed"][u].owner # NoOwner =>
         /\ loc[u] \notin {"unborn", "new"}
         /\ loc[u] = "pending" => lock["pending"][u].owner = lock["completed"][u].owner
    /\ meta["completed"][u].st # "none" =>
         \/ loc[u] \in {"completed", "gone"}
         \/ loc[u] = "pending" /\ lock["completed"][u].owner # NoOwner
    /\ att[u] # "none" => loc[u] # "unborn"

\* A report the server accepted has left pending/, or will: its uploader is about to move
\* it, or died and left the lock.
Sent(u) ==
    /\ sent[u] < 2
    /\ sent[u] = 1 => /\ loc[u] \in {"pending", "completed", "gone"}
                      /\ \/ loc[u] # "pending"
                         \/ lock["pending"][u].owner = Crashed
                         \/ \E p \in Procs : op[p] = "Success" /\ cur[p] = u

\* Who may change what; a call that fails can leave a report where its operation does not
\* expect it, which the conditional parts do not speak of.
LockedInv ==
    /\ HoldsInv
    /\ \A u \in Reports : LockFiles(u)
    /\ faults = 0 => /\ OneWriter
                     /\ \A p \in Procs : Owns(p) /\ Found(p) /\ Forward(p)
                     /\ \A u \in Reports : Ahead(u) /\ Sent(u)

\* What p has left in directory d, whose lock it has.
Contents(p, d) ==
    IF \/ Sits(p, "Finish", 4)
       \/ d = "completed" /\ (Sits(p, "Success", 6) \/ Sits(p, "Skip", 8))
      THEN "torn"
    ELSE IF \/ Sits(p, "Finish", 5) \/ Sits(p, "Skip", 9) \/ Sits(p, "Skip", 10)
            \/ Sits(p, "Delete", 5)
            \/ d = "pending" /\ Sits(p, "Success", 4)
      THEN "valid"
    ELSE IF d = "completed" /\ (Sits(p, "Success", 4) \/ Sits(p, "Success", 5))
      THEN "none"
    ELSE IF loc[cur[p]] = d THEN "valid" ELSE "none"

\* Where nobody has a lock, a report and its metadata are together; a new report has its
\* writer, and attachments without a report have a process that is about to remove them.
Tidy(u) ==
    /\ \A d \in Dirs :
         lock[d][u].owner = NoOwner => meta[d][u].st = IF loc[u] = d THEN "valid" ELSE "none"
    /\ loc[u] = "new" => \E p \in Procs : op[p] \in Writers /\ cur[p] = u
    /\ att[u] = "files" => \/ loc[u] \in Dirs \cup {"new"}
                           \/ \E p \in Procs : op[p] = "Delete" /\ at[p] > 4 /\ cur[p] = u

\* The cleaners and the readers find nothing to clean.
Orderly(p) ==
    /\ \A d \in own[p] : meta[d][cur[p]].st = Contents(p, d)
    /\ op[p] = "CleanReport" /\ at[p] > 3 => at[p] = 4 /\ loc[cur[p]] # dir[p]
    /\ op[p] = "CleanMeta" => at[p] < 5
    /\ op[p] = "Purge" => loc[cur[p]] # dir[p]
    /\ op[p] # "CleanLock"

\* The locks and, until something crashes or fails, the order of the files.
OrderInv ==
    /\ LockedInv
    /\ crashes + faults = 0 => (\A u \in Reports : Tidy(u)) /\ (\A p \in Procs : Orderly(p))

\* How the report u moves in a step of p.
LocMoves(p, u) ==
    \/ loc'[u] = loc[u]
    \/ /\ loc[u] = "unborn" /\ loc'[u] = "new" /\ op[p] = "Idle"
       /\ op'[p] = "Writing" /\ cur'[p] = u
    \/ /\ loc[u] = "new" /\ loc'[u] = "dropped"
       /\ \/ Sits(p, "Drop", 2) /\ cur[p] = u /\ att'[u] # "files"
          \/ StallPossible
          \/ op' = op /\ \A q \in Procs : cur[q] = u => op[q] \notin Writers
    \/ loc[u] = "new" /\ loc'[u] = "pending" /\ Sits(p, "Finish", 5) /\ cur[p] = u
    \/ /\ loc[u] = "pending" /\ loc'[u] = "completed" /\ cur[p] = u
       /\ Sits(p, "Success", 3) \/ Sits(p, "Skip", 9)
    \/ /\ loc[u] = dir[p] /\ loc'[u] = "gone" /\ cur[p] = u /\ cur'[p] = u
       /\ \/ Sits(p, "CleanLock", 1) \/ Sits(p, "Purge", 1) \/ Sits(p, "CleanReport", 4)
          \/ Sits(p, "Delete", 4) /\ Went(p, "Delete", 5)

\* Only RequestUpload() moves a report otherwise.
LEMMA LocSteps ==
    ASSUME HoldsInv, NEW p \in Procs, Step(p), op[p] # "Request", NEW u \in Reports
    PROVE  LocMoves(p, u)
<1>0. TypeInv /\ LockInv /\ HoldsLocks(p) /\ dir[p] \in Dirs /\ cur[p] \in Reports
  BY Local DEF HoldsInv, LockInv, TypeInv
<1>1. ASSUME NEW v \in Reports, PrepareNewCrashReport(p, v) PROVE LocMoves(p, u)
  BY <1>0, <1>1, PrepareEffect DEF LocBecomes, LocMoves, Went
<1>2. ASSUME NEW v \in Reports, CleanNew(p, v) PROVE LocMoves(p, u)
  BY <1>0, <1>2, CleanNewEffect DEF LocBecomes, LocMoves, Writers
<1>3. ASSUME NEW o \in Ops \cap (ByUUID \cup Cleaning \cup {"Visit"}),
             NEW v \in Reports, NEW e \in Dirs, Begin(p, o, v, e) PROVE LocMoves(p, u)
  BY <1>0, <1>3, BeginEffect DEF SameFiles, LocMoves
<1>4. ASSUME AddAttachment(p) PROVE LocMoves(p, u)
  BY <1>0, <1>4, AttachEffect DEF SameFiles, LocMoves
<1>5. ASSUME NEW o \in {"Finish", "Drop"}, CloseNewReport(p, o) PROVE LocMoves(p, u)
  BY <1>0, <1>5, CloseEffect DEF SameFiles, LocMoves
<1>6. ASSUME ResetAcquire(p) PROVE LocMoves(p, u)
  BY <1>0, <1>6, AcquireEffect DEF SameFiles, LocMoves
<1>7. ASSUME StampLock(p) PROVE LocMoves(p, u)
  BY <1>0, <1>7, StampEffect DEF SameFiles, LocMoves
<1>8. ASSUME LocateReport(p) PROVE LocMoves(p, u)
  BY <1>0, <1>8, LocateEffect DEF SameFiles, LocMoves
<1>9. ASSUME CleaningReadMetadata(p) PROVE LocMoves(p, u)
  BY <1>0, <1>9, ReadEffect DEF SameFiles, LocMoves
<1>10. ASSUME OpenReport(p) PROVE LocMoves(p, u)
  BY <1>0, <1>10, OpenEffect DEF SameFiles, LocMoves
<1>11. ASSUME NEW o \in {"Success", "Failure"}, SendReport(p, o) PROVE LocMoves(p, u)
  BY <1>0, <1>11, SendEffect DEF SameFiles, LocMoves
<1>12. ASSUME OpenMetadata(p) PROVE LocMoves(p, u)
  BY <1>0, <1>12, OpenMetaEffect DEF LocMoves
<1>13. ASSUME WriteMetadata(p) PROVE LocMoves(p, u)
  BY <1>0, <1>13, WriteEffect DEF LocMoves
<1>14. ASSUME MoveReport(p) PROVE LocMoves(p, u)
  BY <1>0, <1>14, MoveEffect DEF LocBecomes, LocMoves, Source, Target, Sits, HoldsLocks
<1>15. ASSUME RemoveReport(p) PROVE LocMoves(p, u)
  BY <1>0, <1>15, RemoveReportEffect, ScriptSizes DEF LocBecomes, LocMoves, Keeps, Sits, WentOn
<1>16. ASSUME RemoveMetadata(p) PROVE LocMoves(p, u)
  BY <1>0, <1>16, RemoveMetaEffect DEF LocMoves
<1>17. ASSUME CheckLone(p) PROVE LocMoves(p, u)
  BY <1>0, <1>17, CheckLoneEffect DEF SameFiles, LocMoves
<1>18. ASSUME RemoveAttachmentsByUUID(p) PROVE LocMoves(p, u)
  BY <1>0, <1>18, RemoveAttachmentsEffect DEF SameFiles, LocMoves
<1>19. ASSUME RemoveExpiredLock(p) PROVE LocMoves(p, u)
  BY <1>0, <1>19, RemoveLockEffect DEF SameFiles, LocMoves
<1>20. ASSUME RemoveNewReport(p) PROVE LocMoves(p, u)
  BY <1>0, <1>20, RemoveNewEffect DEF LocBecomes, LocMoves
<1>21. ASSUME ReleaseLock(p) PROVE LocMoves(p, u)
  BY <1>0, <1>21, ReleaseEffect DEF SameFiles, LocMoves
<1>22. ASSUME Unlocked(p) PROVE LocMoves(p, u)
  BY <1>0, <1>22, UnlockedEffect DEF SameFiles, LocMoves
<1>23. ASSUME FailCall(p) PROVE LocMoves(p, u)
  BY <1>0, <1>23, FailEffect DEF SameFiles, LocMoves
<1>24. ASSUME Crash(p) PROVE LocMoves(p, u)
  BY <1>0, <1>24, CrashEffect DEF SameFiles, LocMoves
<1> QED
  BY <1>1, <1>2, <1>3, <1>4, <1>5, <1>6, <1>7, <1>8, <1>9, <1>10, <1>11, <1>12, <1>13, <1>14, <1>15, <1>16, <1>17, <1>18, <1>19, <1>20, <1>21, <1>22, <1>23, <1>24
  DEF Step, Start, Call, Write

\* How the metadata of u in d changes in a step of p.
MetaMoves(p, d, u) ==
    \/ meta'[d][u] = meta[d][u]
    \/ /\ cur[p] = u /\ meta'[d][u] = TornMeta
       /\ \/ d = "pending" /\ Sits(p, "Finish", 3)
          \/ d = "completed" /\ (Sits(p, "Success", 5) \/ Sits(p, "Skip", 7))
    \/ /\ cur[p] = u /\ meta'[d][u].st = "valid"
       /\ \/ d = "pending" /\ Sits(p, "Finish", 4)
          \/ d = "completed" /\ (Sits(p, "Success", 6) \/ Sits(p, "Skip", 8))
    \/ /\ cur[p] = u /\ d = dir[p] /\ meta'[d][u] = NoMeta
       /\ \/ Sits(p, "CleanLock", 2) \/ Sits(p, "Purge", 2) \/ Sits(p, "Success", 4)
          \/ Sits(p, "CleanMeta", 4) \/ Sits(p, "Delete", 5) \/ Sits(p, "Skip", 10)

\* Only RequestUpload() and a failed upload write metadata elsewhere.
LEMMA MetaSteps ==
    ASSUME HoldsInv, NEW p \in Procs, Step(p), op[p] \notin {"Request", "Failure"},
           NEW d \in Dirs, NEW u \in Reports
    PROVE  MetaMoves(p, d, u)
<1>0. TypeInv /\ LockInv /\ HoldsLocks(p) /\ dir[p] \in Dirs /\ cur[p] \in Reports
  BY Local DEF HoldsInv, LockInv, TypeInv
<1>1. ASSUME NEW v \in Reports, PrepareNewCrashReport(p, v) PROVE MetaMoves(p, d, u)
  BY <1>0, <1>1, PrepareEffect DEF MetaMoves
<1>2. ASSUME NEW v \in Reports, CleanNew(p, v) PROVE MetaMoves(p, d, u)
  BY <1>0, <1>2, CleanNewEffect DEF MetaMoves
<1>3. ASSUME NEW o \in Ops \cap (ByUUID \cup Cleaning \cup {"Visit"}),
             NEW v \in Reports, NEW e \in Dirs, Begin(p, o, v, e) PROVE MetaMoves(p, d, u)
  BY <1>0, <1>3, BeginEffect DEF SameFiles, MetaMoves
<1>4. ASSUME AddAttachment(p) PROVE MetaMoves(p, d, u)
  BY <1>0, <1>4, AttachEffect DEF SameFiles, MetaMoves
<1>5. ASSUME NEW o \in {"Finish", "Drop"}, CloseNewReport(p, o) PROVE MetaMoves(p, d, u)
  BY <1>0, <1>5, CloseEffect DEF SameFiles, MetaMoves
<1>6. ASSUME ResetAcquire(p) PROVE MetaMoves(p, d, u)
  BY <1>0, <1>6, AcquireEffect DEF SameFiles, MetaMoves
<1>7. ASSUME StampLock(p) PROVE MetaMoves(p, d, u)
  BY <1>0, <1>7, StampEffect DEF SameFiles, MetaMoves
<1>8. ASSUME LocateReport(p) PROVE MetaMoves(p, d, u)
  BY <1>0, <1>8, LocateEffect DEF SameFiles, MetaMoves
<1>9. ASSUME CleaningReadMetadata(p) PROVE MetaMoves(p, d, u)
  BY <1>0, <1>9, ReadEffect DEF SameFiles, MetaMoves
<1>10. ASSUME OpenReport(p) PROVE MetaMoves(p, d, u)
  BY <1>0, <1>10, OpenEffect DEF SameFiles, MetaMoves
<1>11. ASSUME NEW o \in {"Success", "Failure"}, SendReport(p, o) PROVE MetaMoves(p, d, u)
  BY <1>0, <1>11, SendEffect DEF SameFiles, MetaMoves
<1>12. ASSUME OpenMetadata(p) PROVE MetaMoves(p, d, u)
  BY <1>0, <1>12, OpenMetaEffect DEF MetaBecomes, MetaMoves, WriteDir, Sits
<1>13. ASSUME WriteMetadata(p) PROVE MetaMoves(p, d, u)
  <2>1. NewContents(p).st = "valid"
    BY DEF NewContents, ValidMeta
  <2> QED
    BY <1>0, <1>13, <2>1, WriteEffect DEF MetaBecomes, MetaMoves, WriteDir, Sits
<1>14. ASSUME MoveReport(p) PROVE MetaMoves(p, d, u)
  BY <1>0, <1>14, MoveEffect DEF MetaMoves
<1>15. ASSUME RemoveReport(p) PROVE MetaMoves(p, d, u)
  BY <1>0, <1>15, RemoveReportEffect DEF MetaMoves
<1>16. ASSUME RemoveMetadata(p) PROVE MetaMoves(p, d, u)
  BY <1>0, <1>16, RemoveMetaEffect DEF MetaBecomes, MetaMoves, Sits
<1>17. ASSUME CheckLone(p) PROVE MetaMoves(p, d, u)
  BY <1>0, <1>17, CheckLoneEffect DEF SameFiles, MetaMoves
<1>18. ASSUME RemoveAttachmentsByUUID(p) PROVE MetaMoves(p, d, u)
  BY <1>0, <1>18, RemoveAttachmentsEffect DEF SameFiles, MetaMoves
<1>19. ASSUME RemoveExpiredLock(p) PROVE MetaMoves(p, d, u)
  BY <1>0, <1>19, RemoveLockEffect DEF SameFiles, MetaMoves
<1>20. ASSUME RemoveNewReport(p) PROVE MetaMoves(p, d, u)
  BY <1>0, <1>20, RemoveNewEffect DEF MetaMoves
<1>21. ASSUME ReleaseLock(p) PROVE MetaMoves(p, d, u)
  BY <1>0, <1>21, ReleaseEffect DEF SameFiles, MetaMoves
<1>22. ASSUME Unlocked(p) PROVE MetaMoves(p, d, u)
  BY <1>0, <1>22, UnlockedEffect DEF SameFiles, MetaMoves
<1>23. ASSUME FailCall(p) PROVE MetaMoves(p, d, u)
  BY <1>0, <1>23, FailEffect DEF SameFiles, MetaMoves
<1>24. ASSUME Crash(p) PROVE MetaMoves(p, d, u)
  BY <1>0, <1>24, CrashEffect DEF SameFiles, MetaMoves
<1> QED
  BY <1>1, <1>2, <1>3, <1>4, <1>5, <1>6, <1>7, <1>8, <1>9, <1>10, <1>11, <1>12, <1>13, <1>14, <1>15, <1>16, <1>17, <1>18, <1>19, <1>20, <1>21, <1>22, <1>23, <1>24
  DEF Step, Start, Call, Write

\* How the lock file of u in d changes in a step of p.
LockMoves(p, d, u) ==
    \/ /\ lock'[d][u].owner = lock[d][u].owner
       /\ lock[d][u].owner = NoOwner => lock'[d][u] = lock[d][u]
       /\ d \in own[p] /\ cur[p] = u /\ lock[d][u].owner = p => d \in own'[p] /\ cur'[p] = u
    \/ /\ cur[p] = u /\ lock[d][u].owner = NoOwner /\ lock'[d][u].owner = p
       /\ own'[p] = own[p] \cup {d} /\ cur'[p] = u /\ op'[p] = op[p]
       /\ \/ at[p] = 1 /\ op[p] \in Locking /\ d = dir[p]
          \/ (Sits(p, "Success", 1) \/ Sits(p, "Skip", 5)) /\ d = "completed"
    \/ /\ cur[p] = u /\ d \in own[p] /\ lock'[d][u] = NoLock
       /\ \/ /\ at[p] = 1 /\ op[p] \in {"Return", "Drop", "Failure"}
             /\ d = "pending" => "completed" \notin own[p]
          \/ /\ at[p] = 3 /\ d = dir[p] /\ loc[u] # dir[p]
             /\ op[p] \in {"LookUp", "Upload", "Skip", "Delete", "Request", "CleanAttachments"}
    \/ cur[p] = u /\ d = dir[p] /\ Sits(p, "CleanLock", 3) /\ lock'[d][u] = NoLock
    \/ /\ lock[d][u].owner = p /\ lock'[d][u].owner = Crashed
       /\ crashes' = crashes + 1 /\ op'[p] = "Idle"
       /\ \A e \in Dirs : lock[e][u].owner = p => lock'[e][u].owner = Crashed

\* A lock file is made, removed by its owner or by a cleaner, or left behind.
LEMMA LockSteps ==
    ASSUME HoldsInv, NEW p \in Procs, Step(p), NEW d \in Dirs, NEW u \in Reports
    PROVE  LockMoves(p, d, u)
<1>0. TypeInv /\ LockInv /\ HoldsLocks(p) /\ dir[p] \in Dirs /\ cur[p] \in Reports
  BY Local DEF HoldsInv, LockInv, TypeInv
<1>i. op[p] = "Idle" => own[p] = {}
  BY <1>0 DEF LockInv, IdleUnlocked
<1>l. op[p] \in Locking /\ at[p] > 1 => dir[p] \in own[p]
  BY <1>0, HasLock
<1>1. ASSUME NEW v \in Reports, PrepareNewCrashReport(p, v) PROVE LockMoves(p, d, u)
  BY <1>0, <1>i, <1>1, PrepareEffect DEF LockMoves
<1>2. ASSUME NEW v \in Reports, CleanNew(p, v) PROVE LockMoves(p, d, u)
  BY <1>0, <1>2, CleanNewEffect DEF LockMoves, Keeps
<1>3. ASSUME NEW o \in Ops \cap (ByUUID \cup Cleaning \cup {"Visit"}),
             NEW v \in Reports, NEW e \in Dirs, Begin(p, o, v, e) PROVE LockMoves(p, d, u)
  BY <1>0, <1>i, <1>3, BeginEffect DEF LockMoves
<1>4. ASSUME AddAttachment(p) PROVE LockMoves(p, d, u)
  BY <1>0, <1>4, AttachEffect DEF LockMoves, Keeps
<1>5. ASSUME NEW o \in {"Finish", "Drop"}, CloseNewReport(p, o) PROVE LockMoves(p, d, u)
  BY <1>0, <1>5, CloseEffect DEF LockMoves, Keeps
<1>6. ASSUME ResetAcquire(p) PROVE LockMoves(p, d, u)
  <2>1. CASE d = LockDir(p) /\ u = cur[p] /\ lock[d][u].owner = NoOwner
    <3>0. /\ WentOn(p) /\ LockBecomes(d, u, [owner |-> p, stamped |-> FALSE])
          /\ own'[p] = own[p] \cup {d} /\ cur'[p] = u
      BY <1>0, <1>6, <2>1, AcquireEffect
    <3>d. \/ at[p] = 1 /\ op[p] \in Locking /\ d = dir[p]
          \/ (Sits(p, "Success", 1) \/ Sits(p, "Skip", 5)) /\ d = "completed"
      BY <1>0, <1>6, <2>1, AcquireEffect
    <3>1. op'[p] = op[p]
      BY <3>0, <3>d, ScriptSizes DEF WentOn, Went, Sits, Locking
    <3>2. lock'[d][u].owner = p
      BY <3>0 DEF LockBecomes
    <3> QED
      BY <2>1, <3>0, <3>d, <3>1, <3>2 DEF LockMoves
  <2>2. CASE ~(d = LockDir(p) /\ u = cur[p] /\ lock[d][u].owner = NoOwner)
    <3>1. lock'[d][u] = lock[d][u] /\ own[p] \subseteq own'[p] /\ cur'[p] = cur[p]
      BY <1>0, <1>6, <2>2, AcquireEffect DEF LockBecomes
    <3> QED
      BY <3>1 DEF LockMoves
  <2> QED
    BY <2>1, <2>2
<1>7. ASSUME StampLock(p) PROVE LockMoves(p, d, u)
  BY <1>0, <1>7, StampEffect DEF LockMoves, Keeps
<1>8. ASSUME LocateReport(p) PROVE LockMoves(p, d, u)
  BY <1>0, <1>l, <1>8, LocateEffect DEF LockMoves, LockBecomes, Locking
<1>9. ASSUME CleaningReadMetadata(p) PROVE LockMoves(p, d, u)
  BY <1>0, <1>9, ReadEffect DEF LockMoves, Keeps
<1>10. ASSUME OpenReport(p) PROVE LockMoves(p, d, u)
  BY <1>0, <1>10, OpenEffect DEF LockMoves, Keeps
<1>11. ASSUME NEW o \in {"Success", "Failure"}, SendReport(p, o) PROVE LockMoves(p, d, u)
  BY <1>0, <1>11, SendEffect DEF LockMoves, Keeps
<1>12. ASSUME OpenMetadata(p) PROVE LockMoves(p, d, u)
  BY <1>0, <1>12, OpenMetaEffect DEF LockMoves, Keeps
<1>13. ASSUME WriteMetadata(p) PROVE LockMoves(p, d, u)
  BY <1>0, <1>13, WriteEffect DEF LockMoves, Keeps
<1>14. ASSUME MoveReport(p) PROVE LockMoves(p, d, u)
  BY <1>0, <1>14, MoveEffect DEF LockMoves, Keeps
<1>15. ASSUME RemoveReport(p) PROVE LockMoves(p, d, u)
  BY <1>0, <1>15, RemoveReportEffect DEF LockMoves, Keeps
<1>16. ASSUME RemoveMetadata(p) PROVE LockMoves(p, d, u)
  BY <1>0, <1>16, RemoveMetaEffect DEF LockMoves, Keeps
<1>17. ASSUME CheckLone(p) PROVE LockMoves(p, d, u)
  BY <1>0, <1>17, CheckLoneEffect DEF LockMoves, Keeps
<1>18. ASSUME RemoveAttachmentsByUUID(p) PROVE LockMoves(p, d, u)
  BY <1>0, <1>18, RemoveAttachmentsEffect DEF LockMoves, Keeps
<1>19. ASSUME RemoveExpiredLock(p) PROVE LockMoves(p, d, u)
  <2>1. CASE d = dir[p] /\ u = cur[p]
    BY <1>0, <1>19, <2>1, RemoveLockEffect DEF LockMoves, LockBecomes
  <2>2. CASE ~(d = dir[p] /\ u = cur[p])
    BY <1>0, <1>19, <2>2, RemoveLockEffect DEF LockMoves, LockBecomes, Keeps
  <2> QED
    BY <2>1, <2>2
<1>20. ASSUME RemoveNewReport(p) PROVE LockMoves(p, d, u)
  BY <1>0, <1>20, RemoveNewEffect DEF LockMoves, Keeps
<1>21. ASSUME ReleaseLock(p) PROVE LockMoves(p, d, u)
  BY <1>0, <1>21, ReleaseEffect DEF LockMoves, LockBecomes
<1>22. ASSUME Unlocked(p) PROVE LockMoves(p, d, u)
  BY <1>0, <1>22, UnlockedEffect DEF LockMoves
<1>23. ASSUME FailCall(p) PROVE LockMoves(p, d, u)
  BY <1>0, <1>23, FailEffect DEF LockMoves, Keeps
<1>24. ASSUME Crash(p) PROVE LockMoves(p, d, u)
  BY <1>0, <1>24, CrashEffect DEF LockMoves, Went
<1> QED
  BY <1>1, <1>2, <1>3, <1>4, <1>5, <1>6, <1>7, <1>8, <1>9, <1>10, <1>11, <1>12, <1>13, <1>14, <1>15, <1>16, <1>17, <1>18, <1>19, <1>20, <1>21, <1>22, <1>23, <1>24
  DEF Step, Start, Call, Write

\* A step of p keeps true what p has found out.
LEMMA FoundStep ==
    ASSUME OneCleaner, LockedOnly, LockedInv, faults = 0, faults' = 0, NEW p \in Procs, Step(p)
    PROVE  Owns(p)' /\ Found(p)' /\ Forward(p)'
<1>0. /\ TypeInv /\ LockInv /\ HoldsLocks(p) /\ Owns(p) /\ Found(p) /\ Forward(p)
      /\ dir[p] \in Dirs /\ cur[p] \in Reports /\ own[p] \subseteq Dirs
  <2>1. TypeInv /\ LockInv
    BY DEF LockedInv, HoldsInv, LockInv
  <2> QED
    BY <2>1, Local DEF LockedInv, HoldsInv, TypeInv, TypeOK
<1>a. at[p] \in 1..10
  BY <1>0 DEF TypeInv, TypeOK
<1>d. "completed" \in Dirs /\ "pending" \in Dirs /\ \A d \in Dirs : d \in {"pending", "completed"}
  BY DEF Dirs
<1>i. op[p] \in {"Idle", "Writing"} => own[p] = {}
  BY <1>0 DEF LockInv, IdleUnlocked
<1>l. op[p] \in Locking /\ at[p] > 1 => dir[p] \in own[p]
  BY <1>0, HasLock
<1>1. ASSUME NEW v \in Reports, PrepareNewCrashReport(p, v) PROVE Owns(p)' /\ Found(p)' /\ Forward(p)'
  <2>1. Owns(p)'
    BY <1>0, <1>a, <1>d, <1>i, <1>l, <1>1, PrepareEffect, ScriptSizes
    DEF Owns, Found, Forward, HoldsLocks, Went, WentOn, Keeps, Sits, Locking, Writers, Past, LocBecomes
  <2>2. Found(p)'
    BY <1>0, <1>a, <1>d, <1>i, <1>l, <1>1, PrepareEffect, ScriptSizes
    DEF Owns, Found, Forward, HoldsLocks, Went, WentOn, Keeps, Sits, Locking, Writers, Past, LocBecomes
  <2>3. Forward(p)'
    BY <1>0, <1>a, <1>d, <1>i, <1>l, <1>1, PrepareEffect, ScriptSizes
    DEF Owns, Found, Forward, HoldsLocks, Went, WentOn, Keeps, Sits, Locking, Writers, Past, LocBecomes
  <2> QED
    BY <2>1, <2>2, <2>3
<1>2. ASSUME NEW v \in Reports, CleanNew(p, v) PROVE Owns(p)' /\ Found(p)' /\ Forward(p)'
  <2>1. Owns(p)'
    BY <1>0, <1>a, <1>d, <1>i, <1>l, <1>2, CleanNewEffect, ScriptSizes
    DEF Owns, Found, Forward, HoldsLocks, Went, WentOn, Keeps, Sits, Locking, Writers, Past, LocBecomes
  <2>2. Found(p)'
    BY <1>0, <1>a, <1>d, <1>i, <1>l, <1>2, CleanNewEffect, ScriptSizes
    DEF Owns, Found, Forward, HoldsLocks, Went, WentOn, Keeps, Sits, Locking, Writers, Past, LocBecomes
  <2>3. Forward(p)'
    BY <1>0, <1>a, <1>d, <1>i, <1>l, <1>2, CleanNewEffect, ScriptSizes
    DEF Owns, Found, Forward, HoldsLocks, Went, WentOn, Keeps, Sits, Locking, Writers, Past, LocBecomes
  <2> QED
    BY <2>1, <2>2, <2>3
<1>3. ASSUME NEW o \in Ops \cap (ByUUID \cup Cleaning \cup {"Visit"}),
             NEW v \in Reports, NEW e \in Dirs, Begin(p, o, v, e) PROVE Owns(p)' /\ Found(p)' /\ Forward(p)'
  <2>1. o \notin {"Request", "Failure"}
    BY DEF LockedOnly
  <2>2. Ahead(v)
    BY DEF LockedInv
  <2>3. Owns(p)' /\ Found(p)'
    BY <1>0, <1>i, <1>3, <2>1, BeginEffect DEF Owns, Found, Went, Locking, Writers
  <2>4. Forward(p)'
    <3>1. MayBegin(o, v, e) /\ Went(p, o, 1) /\ cur'[p] = v /\ dir'[p] = e /\ own'[p] = {} /\ SameFiles
      BY <1>0, <1>i, <1>3, BeginEffect
    <3>2. o \in {"LookUp", "Delete", "CleanAttachments", "Visit", "CleanReport"} =>
            loc[v] \in (IF e = "completed" THEN {"completed"} ELSE Dirs) \cup Past
      <4>1. loc[v] \in Places
        BY <1>0 DEF TypeInv, TypeOK
      <4> QED
        BY <2>2, <3>1, <4>1 DEF MayBegin, ByUUID, Ahead, Past, Places, Dirs
    <3>3. o = "CleanMeta" /\ e = "completed" =>
            loc[v] \in {"completed"} \cup Past \/ lock["completed"][v].owner # NoOwner
      BY <2>2, <3>1 DEF MayBegin, ByUUID, Ahead, Past
    <3>4. lock' = lock /\ o # "Orphan"
      BY <1>0, <1>3, BeginEffect
    <3> QED
      BY <3>1, <3>2, <3>3, <3>4 DEF Forward, Went, SameFiles
  <2> QED
    BY <2>3, <2>4
<1>4. ASSUME AddAttachment(p) PROVE Owns(p)' /\ Found(p)' /\ Forward(p)'
  BY <1>0, <1>a, <1>d, <1>i, <1>l, <1>4, AttachEffect, ScriptSizes
  DEF Owns, Found, Forward, HoldsLocks, Went, WentOn, Keeps, Sits, Locking, Writers, Past, SameFiles, SameCount
<1>5. ASSUME NEW o \in {"Finish", "Drop"}, CloseNewReport(p, o) PROVE Owns(p)' /\ Found(p)' /\ Forward(p)'
  BY <1>0, <1>a, <1>d, <1>i, <1>l, <1>5, CloseEffect, ScriptSizes
  DEF Owns, Found, Forward, HoldsLocks, Went, WentOn, Keeps, Sits, Locking, Writers, Past, SameFiles, SameCount
<1>6. ASSUME ResetAcquire(p) PROVE Owns(p)' /\ Found(p)' /\ Forward(p)'
  <2>0. SameFiles /\ cur'[p] = cur[p] /\ dir'[p] = dir[p]
    BY <1>0, <1>6, AcquireEffect
  <2>1. CASE at[p] = 1 /\ op[p] \in Locking /\ LockDir(p) = dir[p]
             /\ lock[dir[p]][cur[p]].owner = NoOwner
    <3>1. own'[p] = {dir[p]} /\ WentOn(p)
      BY <1>0, <1>6, <2>1, AcquireEffect DEF Owns
    <3>2. Went(p, op[p], 2)
      BY <2>1, <3>1, ScriptSizes DEF WentOn, Locking
    <3>3. op[p] = "Skip" => dir[p] = "pending"
      BY <1>0 DEF HoldsLocks
    <3>4. Owns(p)' /\ Found(p)'
      BY <1>0, <1>d, <2>0, <2>1, <3>1, <3>2, <3>3 DEF Owns, Found, Went, Locking, Writers, SameFiles
    <3>5. dir[p] = "completed" => op[p] \notin {"Finish", "Upload", "Skip"}
      BY <1>0 DEF HoldsLocks
    <3>6. dir[p] = "completed" => loc[cur[p]] \in {"completed"} \cup Past
      BY <1>0, <2>1, <3>5 DEF Forward, Locking, Found
    <3>7. Forward(p)'
      BY <1>0, <2>0, <2>1, <3>1, <3>2, <3>6 DEF Forward, Went, Locking, SameFiles
    <3> QED
      BY <3>4, <3>7
  <2>2. CASE (Sits(p, "Success", 1) \/ Sits(p, "Skip", 5)) /\ LockDir(p) = "completed"
             /\ lock["completed"][cur[p]].owner = NoOwner
    <3>1. WentOn(p)
      BY <1>0, <1>6, <2>2, AcquireEffect
    <3>2. Went(p, op[p], at[p] + 1)
      BY <2>2, <3>1, ScriptSizes DEF WentOn, Sits
    <3> QED
      BY <1>0, <2>0, <2>2, <3>2 DEF Owns, Found, Forward, Went, Sits, Locking, Writers, SameFiles
  <2>3. CASE lock[LockDir(p)][cur[p]].owner # NoOwner
    <3>1. /\ Went(p, IF op[p] = "Finish" THEN "Drop" ELSE "Return", 1)
          /\ own' = own
      BY <1>0, <1>6, <2>3, AcquireEffect
    <3>2. "completed" \notin own[p]
      <4>1. \/ at[p] = 1 /\ op[p] \in Locking
            \/ Sits(p, "Success", 1) \/ Sits(p, "Skip", 5)
        BY <1>0, <1>6, AcquireEffect
      <4> QED
        BY <1>0, <4>1 DEF Owns, Sits
    <3> QED
      BY <1>0, <2>0, <3>1, <3>2 DEF Owns, Found, Forward, Went, Locking, Writers, SameFiles
  <2> QED
    BY <1>0, <1>6, <2>1, <2>2, <2>3, AcquireEffect
<1>7. ASSUME StampLock(p) PROVE Owns(p)' /\ Found(p)' /\ Forward(p)'
  BY <1>0, <1>a, <1>d, <1>i, <1>l, <1>7, StampEffect, ScriptSizes
  DEF Owns, Found, Forward, HoldsLocks, Went, WentOn, Keeps, Sits, Locking, Writers, Past, SameFiles, SameCount
<1>8. ASSUME LocateReport(p) PROVE Owns(p)' /\ Found(p)' /\ Forward(p)'
  <2>1. Owns(p)'
    BY <1>0, <1>a, <1>d, <1>i, <1>l, <1>8, LocateEffect, ScriptSizes
    DEF Owns, Found, Forward, HoldsLocks, Went, WentOn, Keeps, Sits, Locking, Writers, Past, SameFiles, LockBecomes, Searching
  <2>2. Found(p)'
    BY <1>0, <1>a, <1>d, <1>i, <1>l, <1>8, LocateEffect, ScriptSizes
    DEF Owns, Found, Forward, HoldsLocks, Went, WentOn, Keeps, Sits, Locking, Writers, Past, SameFiles, LockBecomes, Searching
  <2>3. Forward(p)'
    BY <1>0, <1>a, <1>d, <1>i, <1>l, <1>8, LocateEffect, ScriptSizes
    DEF Owns, Found, Forward, HoldsLocks, Went, WentOn, Keeps, Sits, Locking, Writers, Past, SameFiles, LockBecomes, Searching
  <2> QED
    BY <2>1, <2>2, <2>3
<1>9. ASSUME CleaningReadMetadata(p) PROVE Owns(p)' /\ Found(p)' /\ Forward(p)'
  BY <1>0, <1>a, <1>d, <1>i, <1>l, <1>9, ReadEffect, ScriptSizes
  DEF Owns, Found, Forward, HoldsLocks, Went, WentOn, Keeps, Sits, Locking, Writers, Past, SameFiles, SameCount
<1>10. ASSUME OpenReport(p) PROVE Owns(p)' /\ Found(p)' /\ Forward(p)'
  BY <1>0, <1>a, <1>d, <1>i, <1>l, <1>10, OpenEffect, ScriptSizes
  DEF Owns, Found, Forward, HoldsLocks, Went, WentOn, Keeps, Sits, Locking, Writers, Past, SameFiles, SameCount
<1>11. ASSUME NEW o \in {"Success", "Failure"}, SendReport(p, o) PROVE Owns(p)' /\ Found(p)' /\ Forward(p)'
  <2>1. o = "Success"
    BY <1>0, <1>11, SendEffect DEF LockedOnly
  <2> QED
    BY <1>0, <1>a, <1>d, <1>i, <1>l, <1>11, <2>1, SendEffect, ScriptSizes
    DEF Owns, Found, Forward, HoldsLocks, Went, WentOn, Keeps, Sits, Locking, Writers, Past, SameFiles
<1>12. ASSUME OpenMetadata(p) PROVE Owns(p)' /\ Found(p)' /\ Forward(p)'
  <2>1. Owns(p)'
    BY <1>0, <1>a, <1>d, <1>i, <1>l, <1>12, OpenMetaEffect, ScriptSizes
    DEF Owns, Found, Forward, HoldsLocks, Went, WentOn, Keeps, Sits, Locking, Writers, Past, MetaBecomes
  <2>2. Found(p)'
    BY <1>0, <1>a, <1>d, <1>i, <1>l, <1>12, OpenMetaEffect, ScriptSizes
    DEF Owns, Found, Forward, HoldsLocks, Went, WentOn, Keeps, Sits, Locking, Writers, Past, MetaBecomes
  <2>3. Forward(p)'
    BY <1>0, <1>a, <1>d, <1>i, <1>l, <1>12, OpenMetaEffect, ScriptSizes
    DEF Owns, Found, Forward, HoldsLocks, Went, WentOn, Keeps, Sits, Locking, Writers, Past, MetaBecomes
  <2> QED
    BY <2>1, <2>2, <2>3
<1>13. ASSUME WriteMetadata(p) PROVE Owns(p)' /\ Found(p)' /\ Forward(p)'
  <2>1. Owns(p)'
    BY <1>0, <1>a, <1>d, <1>i, <1>l, <1>13, WriteEffect, ScriptSizes
    DEF Owns, Found, Forward, HoldsLocks, Went, WentOn, Keeps, Sits, Locking, Writers, Past, MetaBecomes
  <2>2. Found(p)'
    BY <1>0, <1>a, <1>d, <1>i, <1>l, <1>13, WriteEffect, ScriptSizes
    DEF Owns, Found, Forward, HoldsLocks, Went, WentOn, Keeps, Sits, Locking, Writers, Past, MetaBecomes
  <2>3. Forward(p)'
    BY <1>0, <1>a, <1>d, <1>i, <1>l, <1>13, WriteEffect, ScriptSizes
    DEF Owns, Found, Forward, HoldsLocks, Went, WentOn, Keeps, Sits, Locking, Writers, Past, MetaBecomes
  <2> QED
    BY <2>1, <2>2, <2>3
<1>14. ASSUME MoveReport(p) PROVE Owns(p)' /\ Found(p)' /\ Forward(p)'
  <2>1. Owns(p)'
    BY <1>0, <1>a, <1>d, <1>i, <1>l, <1>14, MoveEffect, ScriptSizes
    DEF Owns, Found, Forward, HoldsLocks, Went, WentOn, Keeps, Sits, Locking, Writers, Past, LocBecomes, Source, Target
  <2>2. Found(p)'
    BY <1>0, <1>a, <1>d, <1>i, <1>l, <1>14, MoveEffect, ScriptSizes
    DEF Owns, Found, Forward, HoldsLocks, Went, WentOn, Keeps, Sits, Locking, Writers, Past, LocBecomes, Source, Target
  <2>3. Forward(p)'
    BY <1>0, <1>a, <1>d, <1>i, <1>l, <1>14, MoveEffect, ScriptSizes
    DEF Owns, Found, Forward, HoldsLocks, Went, WentOn, Keeps, Sits, Locking, Writers, Past, LocBecomes, Source, Target
  <2> QED
    BY <2>1, <2>2, <2>3
<1>15. ASSUME RemoveReport(p) PROVE Owns(p)' /\ Found(p)' /\ Forward(p)'
  <2>1. Owns(p)'
    BY <1>0, <1>a, <1>d, <1>i, <1>l, <1>15, RemoveReportEffect, ScriptSizes
    DEF Owns, Found, Forward, HoldsLocks, Went, WentOn, Keeps, Sits, Locking, Writers, Past, LocBecomes, Tolerant
  <2>2. Found(p)'
    BY <1>0, <1>a, <1>d, <1>i, <1>l, <1>15, RemoveReportEffect, ScriptSizes
    DEF Owns, Found, Forward, HoldsLocks, Went, WentOn, Keeps, Sits, Locking, Writers, Past, LocBecomes, Tolerant
  <2>3. Forward(p)'
    BY <1>0, <1>a, <1>d, <1>i, <1>l, <1>15, RemoveReportEffect, ScriptSizes
    DEF Owns, Found, Forward, HoldsLocks, Went, WentOn, Keeps, Sits, Locking, Writers, Past, LocBecomes, Tolerant
  <2> QED
    BY <2>1, <2>2, <2>3
<1>16. ASSUME RemoveMetadata(p) PROVE Owns(p)' /\ Found(p)' /\ Forward(p)'
  <2>1. Owns(p)'
    BY <1>0, <1>a, <1>d, <1>i, <1>l, <1>16, RemoveMetaEffect, ScriptSizes
    DEF Owns, Found, Forward, HoldsLocks, Went, WentOn, Keeps, Sits, Locking, Writers, Past, MetaBecomes, NoMeta, Tolerant
  <2>2. Found(p)'
    BY <1>0, <1>a, <1>d, <1>i, <1>l, <1>16, RemoveMetaEffect, ScriptSizes
    DEF Owns, Found, Forward, HoldsLocks, Went, WentOn, Keeps, Sits, Locking, Writers, Past, MetaBecomes, NoMeta, Tolerant
  <2>3. Forward(p)'
    BY <1>0, <1>a, <1>d, <1>i, <1>l, <1>16, RemoveMetaEffect, ScriptSizes
    DEF Owns, Found, Forward, HoldsLocks, Went, WentOn, Keeps, Sits, Locking, Writers, Past, MetaBecomes, NoMeta, Tolerant
  <2> QED
    BY <2>1, <2>2, <2>3
<1>17. ASSUME CheckLone(p) PROVE Owns(p)' /\ Found(p)' /\ Forward(p)'
  BY <1>0, <1>a, <1>d, <1>i, <1>l, <1>17, CheckLoneEffect, ScriptSizes
  DEF Owns, Found, Forward, HoldsLocks, Went, WentOn, Keeps, Sits, Locking, Writers, Past, SameFiles, SameCount
<1>18. ASSUME RemoveAttachmentsByUUID(p) PROVE Owns(p)' /\ Found(p)' /\ Forward(p)'
  BY <1>0, <1>a, <1>d, <1>i, <1>l, <1>18, RemoveAttachmentsEffect, ScriptSizes
  DEF Owns, Found, Forward, HoldsLocks, Went, WentOn, Keeps, Sits, Locking, Writers, Past, SameFiles, SameCount
<1>19. ASSUME RemoveExpiredLock(p) PROVE Owns(p)' /\ Found(p)' /\ Forward(p)'
  BY <1>0, <1>a, <1>d, <1>i, <1>l, <1>19, RemoveLockEffect, ScriptSizes
  DEF Owns, Found, Forward, HoldsLocks, Went, WentOn, Keeps, Sits, Locking, Writers, Past, SameFiles, SameCount
<1>20. ASSUME RemoveNewReport(p) PROVE Owns(p)' /\ Found(p)' /\ Forward(p)'
  <2>1. Owns(p)'
    BY <1>0, <1>a, <1>d, <1>i, <1>l, <1>20, RemoveNewEffect, ScriptSizes
    DEF Owns, Found, Forward, HoldsLocks, Went, WentOn, Keeps, Sits, Locking, Writers, Past, LocBecomes
  <2>2. Found(p)'
    BY <1>0, <1>a, <1>d, <1>i, <1>l, <1>20, RemoveNewEffect, ScriptSizes
    DEF Owns, Found, Forward, HoldsLocks, Went, WentOn, Keeps, Sits, Locking, Writers, Past, LocBecomes
  <2>3. Forward(p)'
    BY <1>0, <1>a, <1>d, <1>i, <1>l, <1>20, RemoveNewEffect, ScriptSizes
    DEF Owns, Found, Forward, HoldsLocks, Went, WentOn, Keeps, Sits, Locking, Writers, Past, LocBecomes
  <2> QED
    BY <2>1, <2>2, <2>3
<1>21. ASSUME ReleaseLock(p) PROVE Owns(p)' /\ Found(p)' /\ Forward(p)'
  BY <1>0, <1>a, <1>d, <1>i, <1>l, <1>21, ReleaseEffect, ScriptSizes
  DEF Owns, Found, Forward, HoldsLocks, Went, WentOn, Keeps, Sits, Locking, Writers, Past, SameFiles, SameCount
<1>22. ASSUME Unlocked(p) PROVE Owns(p)' /\ Found(p)' /\ Forward(p)'
  BY <1>0, <1>a, <1>d, <1>i, <1>l, <1>22, UnlockedEffect, ScriptSizes
  DEF Owns, Found, Forward, HoldsLocks, Went, WentOn, Keeps, Sits, Locking, Writers, Past, SameFiles, SameCount
<1>23. ASSUME FailCall(p) PROVE Owns(p)' /\ Found(p)' /\ Forward(p)'
  BY <1>0, <1>23, FailEffect
<1>24. ASSUME Crash(p) PROVE Owns(p)' /\ Found(p)' /\ Forward(p)'
  BY <1>0, <1>a, <1>d, <1>i, <1>l, <1>24, CrashEffect
  DEF Owns, Found, Forward, Went, Locking, Writers
<1> QED
  BY <1>1, <1>2, <1>3, <1>4, <1>5, <1>6, <1>7, <1>8, <1>9, <1>10, <1>11, <1>12, <1>13, <1>14, <1>15, <1>16, <1>17, <1>18, <1>19, <1>20, <1>21, <1>22, <1>23, <1>24
  DEF Step, Start, Call, Write

\* Without RequestUpload() a report does not move back.
LEMMA NoWayBack ==
    ASSUME NEW p \in Procs, NEW u \in Reports, LocMoves(p, u), dir[p] \in Dirs
    PROVE  /\ loc[u] \in Past => loc'[u] = loc[u]
           /\ loc[u] \in {"completed"} \cup Past => loc'[u] \in {"completed"} \cup Past
           /\ loc[u] \in Dirs \cup Past => loc'[u] \in Dirs \cup Past
           /\ loc[u] # "unborn" => loc'[u] # "unborn"
BY DEF LocMoves, Past, Dirs

\* A step of p leaves what another process has found out as it is.
LEMMA FoundElsewhere ==
    ASSUME OneCleaner, LockedInv, faults = 0, NEW p \in Procs, Step(p), NEW q \in Procs, q # p
    PROVE  Owns(q)' /\ Found(q)' /\ Forward(q)'
<1>0. /\ HoldsInv /\ LockInv /\ TypeInv /\ HoldsLocks(q) /\ Owns(q) /\ Found(q) /\ Forward(q)
      /\ HoldsLocks(p) /\ Found(p) /\ Forward(p) /\ OneWriter
  BY DEF LockedInv, HoldsInv, LockInv
<1>t. cur[q] \in Reports /\ dir[q] \in Dirs /\ dir[p] \in Dirs /\ at[q] \in 1..10 /\ at[p] \in 1..10
  BY <1>0 DEF TypeInv, TypeOK
<1>d. "completed" \in Dirs /\ "pending" \in Dirs /\ \A d \in Dirs : d \in {"pending", "completed"}
  BY DEF Dirs
<1>1. /\ op'[q] = op[q] /\ at'[q] = at[q] /\ cur'[q] = cur[q]
      /\ dir'[q] = dir[q] /\ own'[q] = own[q]
  BY <1>0, HoldsStep DEF Elsewhere
<1>2. op[p] \notin {"Request", "Failure"}
  BY <1>0 DEF Found
<1>3. LocMoves(p, cur[q]) /\ LockMoves(p, "completed", cur[q])
  BY <1>0, <1>t, <1>d, <1>2, LocSteps, LockSteps
<1>4. op[q] \in Locking /\ at[q] > 1 => dir[q] \in own[q]
  BY <1>0, HasLock
<1>5. \A d \in Dirs : Has(q, d) => /\ (loc'[cur[q]] = d) = (loc[cur[q]] = d)
                                   /\ meta'[d][cur[q]] = meta[d][cur[q]]
  <2>1. \A d \in Dirs : Has(q, d) => ~(cur[p] = cur[q] /\ Has(p, d))
    BY <1>0, Exclusive
  <2>2. /\ (loc'[cur[q]] = "completed") # (loc[cur[q]] = "completed") =>
             cur[p] = cur[q] /\ Has(p, "completed")
        /\ meta'["completed"][cur[q]] # meta["completed"][cur[q]] =>
             cur[p] = cur[q] /\ Has(p, "completed")
        /\ (loc'[cur[q]] = "pending") # (loc[cur[q]] = "pending") =>
             cur[p] = cur[q] /\ Has(p, "pending")
        /\ meta'["pending"][cur[q]] # meta["pending"][cur[q]] =>
             cur[p] = cur[q] /\ Has(p, "pending")
    BY <1>0, <1>t, <1>2, Guarded
  <2> QED
    BY <1>d, <2>1, <2>2
<1>6. Owns(q)'
  BY <1>0, <1>1 DEF Owns
<1>7. Found(q)'
  <2>1. /\ op[q] \in {"LookUp", "Delete"} /\ at[q] = 4 => loc'[cur[q]] = dir[q]
        /\ op[q] = "CleanMeta" /\ at[q] = 4 => loc'[cur[q]] # dir[q]
        /\ op[q] = "CleanLock" /\ at[q] \in {2, 3} => loc'[cur[q]] # dir[q]
        /\ op[q] = "CleanLock" /\ at[q] = 3 => meta'[dir[q]][cur[q]].st = "none"
    BY <1>0, <1>t, <1>4, <1>5 DEF Found, Has, Locking
  <2>2. /\ op[q] = "Upload" /\ at[q] > 3 => Has(q, "pending")
        /\ op[q] = "Skip" /\ at[q] > 3 => Has(q, "pending")
        /\ op[q] = "Skip" /\ at[q] > 5 => Has(q, "completed")
        /\ op[q] = "Success" => Has(q, "pending")
        /\ op[q] = "Success" /\ at[q] > 1 => Has(q, "completed")
    BY <1>0, <1>t, <1>4 DEF HoldsLocks, Has, Locking
  <2>3. /\ op[q] = "Upload" /\ at[q] > 3 => loc'[cur[q]] = "pending"
        /\ op[q] = "Skip" /\ at[q] > 3 => loc'[cur[q]] = IF at[q] < 10 THEN "pending" ELSE "completed"
        /\ op[q] = "Success" => loc'[cur[q]] = IF at[q] < 4 THEN "pending" ELSE "completed"
    BY <1>0, <1>t, <1>d, <1>5, <2>2 DEF Found
  <2>4. op[q] = "Delete" /\ at[q] > 4 => loc'[cur[q]] = "gone"
    BY <1>0, <1>3, <1>t, NoWayBack DEF Found, Past
  <2>5. op[q] \in Writers => loc'[cur[q]] = "new"
    BY <1>0, <1>3, <1>t, <1>d DEF Found, LocMoves, OneWriter, OneCleaner, Writers, Sits
  <2> QED
    BY <1>0, <1>1, <2>1, <2>3, <2>4, <2>5 DEF Found
<1>8. Forward(q)'
  <2>1. /\ loc[cur[q]] \in Past => loc'[cur[q]] \in Past
        /\ loc[cur[q]] \in {"completed"} \cup Past => loc'[cur[q]] \in {"completed"} \cup Past
        /\ loc[cur[q]] \in Dirs \cup Past => loc'[cur[q]] \in Dirs \cup Past
    BY <1>3, <1>t, NoWayBack
  <2>2. op[q] = "CleanMeta" /\ lock["completed"][cur[q]].owner # NoOwner =>
          \/ loc[cur[q]] \in {"completed"} \cup Past
          \/ lock'["completed"][cur[q]].owner # NoOwner
    <3>1. Sits(p, "CleanLock", 3) => op[q] # "CleanMeta"
      BY <1>0 DEF LockInv, CleanersClean, Cleaning, OneCleaner, Sits
    <3>2. "completed" \in own[p] /\ cur[p] = cur[q] /\ op[p] \notin {"Success", "Skip"} =>
            loc[cur[q]] \in {"completed"} \cup Past
      BY <1>0 DEF Forward
    <3>3. op[p] = "Skip" => dir[p] = "pending"
      BY <1>0 DEF HoldsLocks
    <3> QED
      BY <1>3, <3>1, <3>2, <3>3, ProcsAssumption DEF LockMoves
  <2> QED
    BY <1>0, <1>1, <2>1, <2>2 DEF Forward
<1> QED
  BY <1>6, <1>7, <1>8

\* What a step of p does to the counters, to who is writing and to the attachments of u.
OtherMoves(p, u) ==
    /\ crashes' \in {crashes, crashes + 1}
    /\ op'[p] \in Writers => \/ op[p] \in Writers /\ cur'[p] = cur[p]
                             \/ loc[cur'[p]] = "unborn" /\ cur'[p] \in Reports
    /\ \/ sent'[u] = sent[u]
       \/ /\ Sits(p, "Upload", 6) /\ cur[p] = u /\ sent'[u] = sent[u] + 1
          /\ op'[p] = "Success" /\ cur'[p] = u /\ loc' = loc
    /\ \/ att'[u] = att[u]
       \/ op[p] = "Writing" /\ cur[p] = u /\ att'[u] = "files"
       \/ Sits(p, "Drop", 2) /\ cur[p] = u /\ att'[u] = "empty" /\ loc'[u] # "new"
       \/ /\ cur[p] = u /\ att'[u] = "none" /\ loc'[u] = loc[u]
          /\ \/ Sits(p, "Orphan", 1) \/ Sits(p, "CleanLock", 4) \/ Sits(p, "CleanReport", 5)
             \/ Sits(p, "CleanMeta", 5) \/ Sits(p, "Delete", 6)

\* Every step is one of these.
LEMMA OtherSteps ==
    ASSUME HoldsInv, NEW p \in Procs, Step(p), NEW u \in Reports
    PROVE  OtherMoves(p, u)
<1>0. TypeInv /\ dir[p] \in Dirs /\ cur[p] \in Reports /\ (op[p] = "Idle" => own[p] = {})
  BY Local DEF HoldsInv, LockInv, TypeInv, IdleUnlocked
<1>1. ASSUME NEW v \in Reports, PrepareNewCrashReport(p, v) PROVE OtherMoves(p, u)
  BY <1>0, <1>1, PrepareEffect DEF OtherMoves, SameCount
<1>2. ASSUME NEW v \in Reports, CleanNew(p, v) PROVE OtherMoves(p, u)
  BY <1>0, <1>2, CleanNewEffect DEF OtherMoves, Writers, SameCount
<1>3. ASSUME NEW o \in Ops \cap (ByUUID \cup Cleaning \cup {"Visit"}),
             NEW v \in Reports, NEW e \in Dirs, Begin(p, o, v, e) PROVE OtherMoves(p, u)
  BY <1>0, <1>3, BeginEffect, ScriptSizes DEF OtherMoves, Writers, Went, WentOn, Keeps, Sits, SameCount, Locking
<1>4. ASSUME AddAttachment(p) PROVE OtherMoves(p, u)
  BY <1>0, <1>4, AttachEffect, ScriptSizes DEF OtherMoves, Writers, Went, WentOn, Keeps, Sits, SameCount, Locking
<1>5. ASSUME NEW o \in {"Finish", "Drop"}, CloseNewReport(p, o) PROVE OtherMoves(p, u)
  BY <1>0, <1>5, CloseEffect, ScriptSizes DEF OtherMoves, Writers, Went, WentOn, Keeps, Sits, SameCount, Locking
<1>6. ASSUME ResetAcquire(p) PROVE OtherMoves(p, u)
  BY <1>0, <1>6, AcquireEffect, ScriptSizes DEF OtherMoves, Writers, Went, WentOn, Keeps, Sits, SameCount, Locking
<1>7. ASSUME StampLock(p) PROVE OtherMoves(p, u)
  BY <1>0, <1>7, StampEffect, ScriptSizes DEF OtherMoves, Writers, Went, WentOn, Keeps, Sits, SameCount, Locking
<1>8. ASSUME LocateReport(p) PROVE OtherMoves(p, u)
  BY <1>0, <1>8, LocateEffect, ScriptSizes DEF OtherMoves, Writers, Went, WentOn, Keeps, Sits, SameCount, Locking
<1>9. ASSUME CleaningReadMetadata(p) PROVE OtherMoves(p, u)
  BY <1>0, <1>9, ReadEffect, ScriptSizes DEF OtherMoves, Writers, Went, WentOn, Keeps, Sits, SameCount, Locking
<1>10. ASSUME OpenReport(p) PROVE OtherMoves(p, u)
  BY <1>0, <1>10, OpenEffect, ScriptSizes DEF OtherMoves, Writers, Went, WentOn, Keeps, Sits, SameCount, Locking
<1>11. ASSUME NEW o \in {"Success", "Failure"}, SendReport(p, o) PROVE OtherMoves(p, u)
  BY <1>0, <1>11, SendEffect DEF OtherMoves, Writers, Went, Keeps, SameFiles
<1>12. ASSUME OpenMetadata(p) PROVE OtherMoves(p, u)
  BY <1>0, <1>12, OpenMetaEffect, ScriptSizes DEF OtherMoves, Writers, Went, WentOn, Keeps, Sits, SameCount, Locking
<1>13. ASSUME WriteMetadata(p) PROVE OtherMoves(p, u)
  BY <1>0, <1>13, WriteEffect, ScriptSizes DEF OtherMoves, Writers, Went, WentOn, Keeps, Sits, SameCount, Locking
<1>14. ASSUME MoveReport(p) PROVE OtherMoves(p, u)
  BY <1>0, <1>14, MoveEffect, ScriptSizes DEF OtherMoves, Writers, Went, WentOn, Keeps, Sits, SameCount, Locking
<1>15. ASSUME RemoveReport(p) PROVE OtherMoves(p, u)
  BY <1>0, <1>15, RemoveReportEffect, ScriptSizes DEF OtherMoves, Writers, Went, WentOn, Keeps, Sits, SameCount, Locking
<1>16. ASSUME RemoveMetadata(p) PROVE OtherMoves(p, u)
  BY <1>0, <1>16, RemoveMetaEffect, ScriptSizes DEF OtherMoves, Writers, Went, WentOn, Keeps, Sits, SameCount, Locking
<1>17. ASSUME CheckLone(p) PROVE OtherMoves(p, u)
  BY <1>0, <1>17, CheckLoneEffect, ScriptSizes DEF OtherMoves, Writers, Went, WentOn, Keeps, Sits, SameCount, Locking
<1>18. ASSUME RemoveAttachmentsByUUID(p) PROVE OtherMoves(p, u)
  BY <1>0, <1>18, RemoveAttachmentsEffect, ScriptSizes DEF OtherMoves, Writers, Went, WentOn, Sits, SameCount, SameFiles
<1>19. ASSUME RemoveExpiredLock(p) PROVE OtherMoves(p, u)
  BY <1>0, <1>19, RemoveLockEffect, ScriptSizes DEF OtherMoves, Writers, Went, WentOn, Keeps, Sits, SameCount, Locking
<1>20. ASSUME RemoveNewReport(p) PROVE OtherMoves(p, u)
  BY <1>0, <1>20, RemoveNewEffect DEF OtherMoves, Writers, Went, LocBecomes, SameCount
<1>21. ASSUME ReleaseLock(p) PROVE OtherMoves(p, u)
  BY <1>0, <1>21, ReleaseEffect, ScriptSizes DEF OtherMoves, Writers, Went, WentOn, Keeps, Sits, SameCount, Locking
<1>22. ASSUME Unlocked(p) PROVE OtherMoves(p, u)
  BY <1>0, <1>22, UnlockedEffect, ScriptSizes DEF OtherMoves, Writers, Went, WentOn, Keeps, Sits, SameCount, Locking
<1>23. ASSUME FailCall(p) PROVE OtherMoves(p, u)
  BY <1>0, <1>23, FailEffect, ScriptSizes DEF OtherMoves, Writers, Went, WentOn, Keeps, Sits, SameCount, Locking
<1>24. ASSUME Crash(p) PROVE OtherMoves(p, u)
  BY <1>0, <1>24, CrashEffect, ScriptSizes DEF OtherMoves, Writers, Went, WentOn, Keeps, Sits, SameCount, Locking
<1> QED
  BY <1>1, <1>2, <1>3, <1>4, <1>5, <1>6, <1>7, <1>8, <1>9, <1>10, <1>11, <1>12, <1>13, <1>14, <1>15, <1>16, <1>17, <1>18, <1>19, <1>20, <1>21, <1>22, <1>23, <1>24
  DEF Step, Start, Call, Write

\* An upload that succeeded ends with the report in completed/, or with a dead process.
LEMMA SuccessStep ==
    ASSUME LockedInv, faults = 0, faults' = 0, NEW p \in Procs, Step(p), op[p] = "Success"
    PROVE  /\ cur'[p] = cur[p]
           /\ \/ op'[p] = "Success"
              \/ loc'[cur[p]] = "completed"
              \/ lock'["pending"][cur[p]].owner = Crashed
<1>0. /\ TypeInv /\ LockInv /\ HoldsLocks(p) /\ Owns(p) /\ Found(p) /\ cur[p] \in Reports
      /\ Ahead(cur[p]) /\ LockFiles(cur[p])
  BY Local DEF LockedInv, HoldsInv, LockInv, TypeInv
<1>d. "completed" \in Dirs /\ "pending" \in Dirs
  BY DEF Dirs
<1>p. lock["pending"][cur[p]].owner = p
  BY <1>0 DEF LockInv, LockHeldByOwner, HoldsLocks
<1>c. at[p] = 1 => lock["completed"][cur[p]].owner = NoOwner
  BY <1>0, <1>d, <1>p DEF Ahead, LockFiles, Owns, Found
<1>a. at[p] \in 1..10
  BY <1>0 DEF TypeInv, TypeOK
<1> DEFINE Goal == /\ cur'[p] = cur[p]
                   /\ \/ op'[p] = "Success"
                      \/ loc'[cur[p]] = "completed"
                      \/ lock'["pending"][cur[p]].owner = Crashed
<1>1. ASSUME NEW v \in Reports, PrepareNewCrashReport(p, v) PROVE Goal
  BY <1>0, <1>1, PrepareEffect DEF Sits
<1>2. ASSUME NEW v \in Reports, CleanNew(p, v) PROVE Goal
  BY <1>0, <1>2, CleanNewEffect DEF Sits
<1>3. ASSUME NEW o \in Ops \cap (ByUUID \cup Cleaning \cup {"Visit"}),
             NEW v \in Reports, NEW e \in Dirs, Begin(p, o, v, e) PROVE Goal
  BY <1>0, <1>3, BeginEffect DEF Sits
<1>4. ASSUME AddAttachment(p) PROVE Goal
  BY <1>0, <1>4, AttachEffect DEF Sits
<1>5. ASSUME NEW o \in {"Finish", "Drop"}, CloseNewReport(p, o) PROVE Goal
  BY <1>0, <1>5, CloseEffect DEF Sits
<1>6. ASSUME ResetAcquire(p) PROVE Goal
  <2>1. at[p] = 1 /\ LockDir(p) = "completed"
    BY <1>0, <1>6, AcquireEffect DEF Sits, Locking
  <2>2. cur'[p] = cur[p] /\ WentOn(p)
    BY <1>0, <1>c, <1>6, <2>1, AcquireEffect
  <2> QED
    BY <2>1, <2>2, ScriptSizes DEF Went, WentOn
<1>7. ASSUME StampLock(p) PROVE Goal
  BY <1>0, <1>7, StampEffect, ScriptSizes DEF Keeps, Went, WentOn, Sits
<1>8. ASSUME LocateReport(p) PROVE Goal
  BY <1>0, <1>8, LocateEffect DEF Sits
<1>9. ASSUME CleaningReadMetadata(p) PROVE Goal
  BY <1>0, <1>9, ReadEffect DEF Sits
<1>10. ASSUME OpenReport(p) PROVE Goal
  BY <1>0, <1>10, OpenEffect DEF Sits
<1>11. ASSUME NEW o \in {"Success", "Failure"}, SendReport(p, o) PROVE Goal
  BY <1>0, <1>11, SendEffect DEF Sits
<1>12. ASSUME OpenMetadata(p) PROVE Goal
  BY <1>0, <1>12, OpenMetaEffect, ScriptSizes DEF Keeps, Went, WentOn, Sits
<1>13. ASSUME WriteMetadata(p) PROVE Goal
  BY <1>0, <1>13, WriteEffect DEF Keeps, Found, Sits
<1>14. ASSUME MoveReport(p) PROVE Goal
  BY <1>0, <1>14, MoveEffect, ScriptSizes DEF Keeps, Went, WentOn, Sits, Source, Found, HoldsLocks
<1>15. ASSUME RemoveReport(p) PROVE Goal
  BY <1>0, <1>15, RemoveReportEffect DEF Sits
<1>16. ASSUME RemoveMetadata(p) PROVE Goal
  BY <1>0, <1>16, RemoveMetaEffect, ScriptSizes DEF Keeps, Went, WentOn, Sits, Tolerant
<1>17. ASSUME CheckLone(p) PROVE Goal
  BY <1>0, <1>17, CheckLoneEffect DEF Sits
<1>18. ASSUME RemoveAttachmentsByUUID(p) PROVE Goal
  BY <1>0, <1>18, RemoveAttachmentsEffect DEF Sits
<1>19. ASSUME RemoveExpiredLock(p) PROVE Goal
  BY <1>0, <1>19, RemoveLockEffect DEF Sits
<1>20. ASSUME RemoveNewReport(p) PROVE Goal
  BY <1>0, <1>20, RemoveNewEffect DEF Sits
<1>21. ASSUME ReleaseLock(p) PROVE Goal
  BY <1>0, <1>21, ReleaseEffect DEF Sits
<1>22. ASSUME Unlocked(p) PROVE Goal
  BY <1>0, <1>22, UnlockedEffect DEF Sits
<1>23. ASSUME FailCall(p) PROVE Goal
  BY <1>0, <1>23, FailEffect
<1>24. ASSUME Crash(p) PROVE Goal
  BY <1>0, <1>d, <1>p, <1>24, CrashEffect
<1> QED
  BY <1>1, <1>2, <1>3, <1>4, <1>5, <1>6, <1>7, <1>8, <1>9, <1>10, <1>11, <1>12, <1>13, <1>14, <1>15, <1>16, <1>17, <1>18, <1>19, <1>20, <1>21, <1>22, <1>23, <1>24
  DEF Step, Start, Call, Write

\* Every step keeps the lock files with their owners.
LEMMA LockFilesStep ==
    ASSUME LockedInv, NEW p \in Procs, Step(p), NEW u \in Reports
    PROVE  LockFiles(u)'
<1>0. HoldsInv /\ LockInv /\ LockFiles(u) /\ crashes \in Nat
  BY ProcsAssumption DEF LockedInv, HoldsInv, LockInv, TypeInv, TypeOK
<1>1. Elsewhere(p)
  BY <1>0, HoldsStep
<1>2. crashes' \in {crashes, crashes + 1}
  BY <1>0, OtherSteps DEF OtherMoves
<1>3. ASSUME NEW d \in Dirs
      PROVE  /\ lock'[d][u].owner \in Procs =>
                  d \in own'[lock'[d][u].owner] /\ cur'[lock'[d][u].owner] = u
             /\ lock'[d][u].owner = NoOwner => lock'[d][u] = NoLock
             /\ lock'[d][u].owner = Crashed => crashes' > 0
  <2>0. /\ LockMoves(p, d, u)
        /\ lock[d][u].owner \in Procs => d \in own[lock[d][u].owner] /\ cur[lock[d][u].owner] = u
        /\ lock[d][u].owner = NoOwner => lock[d][u] = NoLock
        /\ lock[d][u].owner = Crashed => crashes > 0
    BY <1>0, LockSteps DEF LockFiles
  <2> DEFINE w == lock[d][u].owner
             x == lock'[d][u].owner
  <2>1. CASE /\ x = w /\ (w = NoOwner => lock'[d][u] = lock[d][u])
             /\ d \in own[p] /\ cur[p] = u /\ w = p => d \in own'[p] /\ cur'[p] = u
    BY <1>0, <1>1, <1>2, <2>0, <2>1, ProcsAssumption DEF Elsewhere
  <2>2. CASE x = p /\ own'[p] = own[p] \cup {d} /\ cur'[p] = u
    BY <2>2, ProcsAssumption
  <2>3. CASE lock'[d][u] = NoLock
    BY <2>3, ProcsAssumption DEF NoLock
  <2>4. CASE x = Crashed /\ crashes' = crashes + 1
    BY <1>0, <2>4, ProcsAssumption
  <2> QED
    BY <2>0, <2>1, <2>2, <2>3, <2>4 DEF LockMoves
<1> QED
  BY <1>3 DEF LockFiles

\* A new report keeps its one writer.
LEMMA OneWriterStep ==
    ASSUME LockedInv, faults = 0, NEW p \in Procs, Step(p)
    PROVE  OneWriter'
<1>0. HoldsInv /\ OneWriter /\ \A q \in Procs : Found(q)
  BY DEF LockedInv
<1>1. \A q \in Procs \ {p} : op'[q] = op[q] /\ cur'[q] = cur[q]
  BY <1>0, HoldsStep DEF Elsewhere
<1>2. op'[p] \in Writers => \/ op[p] \in Writers /\ cur'[p] = cur[p]
                            \/ loc[cur'[p]] = "unborn" /\ cur'[p] \in Reports
  BY <1>0, OtherSteps, ProcsAssumption DEF OtherMoves
<1>3. ASSUME NEW q \in Procs, NEW r \in Procs, q # r, op'[q] \in Writers, op'[r] \in Writers
      PROVE  cur'[q] # cur'[r]
  <2>1. \A s \in Procs : op[s] \in Writers => loc[cur[s]] = "new"
    BY <1>0 DEF Found
  <2> QED
    BY <1>0, <1>1, <1>2, <1>3, <2>1 DEF OneWriter
<1> QED
  BY <1>3 DEF OneWriter

\* completed/ stays ahead of pending/ only under both locks.
LEMMA AheadStep ==
    ASSUME LockedInv, faults = 0, faults' = 0, NEW p \in Procs, Step(p), Forward(p)', NEW u \in Reports
    PROVE  Ahead(u)'
<1>0. /\ HoldsInv /\ LockInv /\ HoldsLocks(p) /\ LockFiles(u) /\ Owns(p) /\ Found(p) /\ Forward(p)
      /\ Ahead(u) /\ dir[p] \in Dirs /\ at[p] \in 1..10
  BY DEF LockedInv, HoldsInv, LockInv, TypeInv, TypeOK
<1>d. "completed" \in Dirs /\ "pending" \in Dirs /\ \A d \in Dirs : d \in {"pending", "completed"}
  BY DEF Dirs
<1>1. op[p] \notin {"Request", "Failure"}
  BY <1>0 DEF Found
<1>2. LocMoves(p, u) /\ MetaMoves(p, "completed", u) /\ OtherMoves(p, u)
  BY <1>0, <1>d, <1>1, LocSteps, MetaSteps, OtherSteps
<1>3. LockMoves(p, "completed", u) /\ LockMoves(p, "pending", u)
  BY <1>0, <1>d, LockSteps
<1>h. \A d \in own[p] : lock[d][cur[p]].owner = p
  BY <1>0 DEF LockInv, LockHeldByOwner
<1>n. p # NoOwner /\ Crashed # NoOwner /\ Crashed # p /\ NoLock.owner = NoOwner
  BY ProcsAssumption DEF NoLock
<1>4. /\ loc[u] \notin {"unborn", "new"} => loc'[u] \notin {"unborn", "new"}
      /\ loc[u] \notin {"unborn", "new"} /\ loc'[u] = "pending" => loc[u] = "pending"
      /\ loc[u] \in {"completed", "gone"} => loc'[u] \in {"completed", "gone"}
      /\ loc[u] = "pending" => loc'[u] \in {"pending", "completed", "gone"}
      /\ loc[u] # "unborn" => loc'[u] # "unborn"
  BY <1>0, <1>d, <1>2 DEF LocMoves
\* A pending report that p works on with the lock of completed/, or is about to.
<1>5. ASSUME cur[p] = u, \/ Sits(p, "Success", 1) \/ Sits(p, "Skip", 5)
                         \/ Sits(p, "Skip", 7) \/ Sits(p, "Skip", 8)
      PROVE  loc[u] = "pending" /\ loc'[u] = "pending" /\ lock["pending"][u].owner = p
  <2>1. loc[u] = "pending"
    BY <1>0, <1>5 DEF Found, Sits
  <2>2. loc'[u] = "pending"
    BY <1>0, <1>2, <1>5, <2>1 DEF LocMoves, Sits
  <2>3. "pending" \in own[p]
    <3>1. op[p] = "Skip" => dir[p] = "pending" /\ op[p] \in Locking /\ at[p] > 1
      BY <1>0, <1>5 DEF HoldsLocks, Sits, Locking
    <3> QED
      BY <1>0, <1>5, <3>1, HasLock DEF HoldsLocks, Sits
  <2> QED
    BY <1>5, <1>h, <2>1, <2>2, <2>3
<1>6. ASSUME lock'["completed"][u].owner # NoOwner
      PROVE  /\ loc'[u] \notin {"unborn", "new"}
             /\ loc'[u] = "pending" => lock'["pending"][u].owner = lock'["completed"][u].owner
  <2>1. CASE lock'["completed"][u].owner = lock["completed"][u].owner
    <3>1. /\ loc'[u] \notin {"unborn", "new"}
          /\ loc'[u] = "pending" => /\ loc[u] = "pending"
                                    /\ lock["pending"][u].owner = lock["completed"][u].owner
      BY <1>0, <1>4, <1>6, <2>1 DEF Ahead
    <3>2. ASSUME loc[u] = "pending", lock["pending"][u].owner = lock["completed"][u].owner
          PROVE  lock'["pending"][u].owner = lock["pending"][u].owner
      <4>1. lock["completed"][u].owner = p => "completed" \in own[p]
        BY <1>0, <1>d DEF LockFiles
      <4>2. CASE /\ cur[p] = u /\ "pending" \in own[p]
                 /\ \/ op[p] \in {"Return", "Drop", "Failure"} /\ "completed" \notin own[p]
                    \/ at[p] = 3 /\ "pending" = dir[p] /\ loc[u] # dir[p]
        BY <1>h, <3>2, <4>1, <4>2
      <4>3. CASE cur[p] = u /\ "pending" = dir[p] /\ Sits(p, "CleanLock", 3)
        BY <1>0, <3>2, <4>3 DEF Found, Sits
      <4>4. CASE \A e \in Dirs : lock[e][u].owner = p => lock'[e][u].owner = Crashed
        BY <1>3, <1>d, <1>n, <1>6, <2>1, <3>2, <4>1, <4>2, <4>3, <4>4 DEF LockMoves
      <4> QED
        BY <1>3, <1>6, <2>1, <3>2, <4>2, <4>3, <4>4 DEF LockMoves
    <3> QED
      BY <2>1, <3>1, <3>2
  <2>2. CASE /\ cur[p] = u /\ lock'["completed"][u].owner = p /\ op'[p] = op[p]
             /\ own'[p] = own[p] \cup {"completed"} /\ cur'[p] = u
             /\ at[p] = 1 /\ op[p] \in Locking /\ "completed" = dir[p]
    <3>1. op[p] \notin {"Success", "Skip"}
      BY <1>0, <2>2 DEF HoldsLocks
    <3>2. loc'[u] \in {"completed"} \cup Past
      BY <2>2, <3>1 DEF Forward
    <3> QED
      BY <3>2 DEF Past
  <2>3. CASE /\ cur[p] = u /\ lock'["completed"][u].owner = p /\ op'[p] = op[p]
             /\ Sits(p, "Success", 1) \/ Sits(p, "Skip", 5)
    <3>1. loc'[u] = "pending" /\ lock["pending"][u].owner = p
      BY <1>5, <2>3
    <3>2. lock'["pending"][u].owner = p
      BY <1>3, <1>n, <2>3, <3>1 DEF LockMoves, Sits
    <3> QED
      BY <2>3, <3>1, <3>2
  <2>4. CASE /\ lock["completed"][u].owner = p /\ lock'["completed"][u].owner = Crashed
             /\ \A e \in Dirs : lock[e][u].owner = p => lock'[e][u].owner = Crashed
    BY <1>0, <1>d, <1>n, <1>4, <2>4 DEF Ahead
  <2> QED
    BY <1>3, <1>n, <1>6, <2>1, <2>2, <2>3, <2>4 DEF LockMoves
<1>7. ASSUME meta'["completed"][u].st # "none"
      PROVE  \/ loc'[u] \in {"completed", "gone"}
             \/ loc'[u] = "pending" /\ lock'["completed"][u].owner # NoOwner
  <2>1. CASE meta'["completed"][u] = meta["completed"][u]
    <3>1. CASE loc[u] \in {"completed", "gone"}
      BY <1>4, <3>1
    <3>2. CASE loc[u] = "pending" /\ lock["completed"][u].owner # NoOwner
      <4>1. ~(cur[p] = u /\ "completed" = dir[p] /\ Sits(p, "CleanLock", 3))
        BY <1>0, <1>7, <2>1 DEF Found, Sits
      <4>2. cur[p] = u /\ "completed" \in own[p] => op[p] \in {"Success", "Skip"}
        BY <1>0, <3>2 DEF Forward, Past
      <4>3. op[p] = "Skip" => dir[p] # "completed"
        BY <1>0 DEF HoldsLocks
      <4>4. lock'["completed"][u].owner # NoOwner
        BY <1>3, <1>n, <3>2, <4>1, <4>2, <4>3 DEF LockMoves
      <4> QED
        BY <1>4, <3>2, <4>4
    <3> QED
      BY <1>0, <1>7, <2>1, <3>1, <3>2 DEF Ahead
  <2>2. CASE /\ cur[p] = u
             /\ \/ Sits(p, "Success", 5) \/ Sits(p, "Skip", 7)
                \/ Sits(p, "Success", 6) \/ Sits(p, "Skip", 8)
    <3>1. CASE op[p] = "Success"
      BY <1>0, <1>4, <2>2, <3>1 DEF Found, Sits
    <3>2. CASE op[p] = "Skip"
      <4>1. loc'[u] = "pending"
        BY <1>5, <2>2, <3>2 DEF Sits
      <4>2. "completed" \in own[p]
        BY <1>0, <2>2, <3>2 DEF HoldsLocks, Sits
      <4>3. lock["completed"][u].owner = p
        BY <1>h, <2>2, <4>2
      <4>4. lock'["completed"][u].owner # NoOwner
        BY <1>3, <1>n, <2>2, <3>2, <4>3 DEF LockMoves, Sits
      <4> QED
        BY <4>1, <4>4
    <3> QED
      BY <2>2, <3>1, <3>2 DEF Sits
  <2> QED
    BY <1>2, <1>7, <2>1, <2>2 DEF MetaMoves, NoMeta
<1>8. att'[u] # "none" => loc'[u] # "unborn"
  <2>1. op[p] = "Writing" /\ cur[p] = u => loc[u] = "new"
    BY <1>0 DEF Found, Writers
  <2>2. op[p] = "Drop" /\ cur[p] = u => loc[u] = "new"
    BY <1>0 DEF Found, Writers
  <2> QED
    BY <1>0, <1>2, <1>4, <2>1, <2>2 DEF Ahead, OtherMoves, Sits
<1> QED
  BY <1>6, <1>7, <1>8 DEF Ahead


\* A report is accepted once.
LEMMA SentStep ==
    ASSUME OneCleaner, LockedInv, faults = 0, faults' = 0, NEW p \in Procs, Step(p), NEW u \in Reports
    PROVE  Sent(u)'
<1>0. /\ HoldsInv /\ LockInv /\ HoldsLocks(p) /\ Owns(p) /\ Found(p) /\ Sent(u)
      /\ dir[p] \in Dirs /\ at[p] \in 1..10 /\ sent[u] \in 0..2
  BY DEF LockedInv, HoldsInv, LockInv, TypeInv, TypeOK
<1>d. "completed" \in Dirs /\ "pending" \in Dirs /\ \A d \in Dirs : d \in {"pending", "completed"}
  BY DEF Dirs
<1>1. op[p] \notin {"Request", "Failure"}
  BY <1>0 DEF Found
<1>2. LocMoves(p, u) /\ LockMoves(p, "pending", u) /\ OtherMoves(p, u) /\ Elsewhere(p)
  BY <1>0, <1>d, <1>1, LocSteps, LockSteps, OtherSteps, HoldsStep
<1>h. \A q \in Procs : \A d \in own[q] : lock[d][cur[q]].owner = q
  BY <1>0 DEF LockInv, LockHeldByOwner
<1>n. p # NoOwner /\ Crashed # NoOwner /\ Crashed # p /\ NoLock.owner = NoOwner
  BY ProcsAssumption DEF NoLock
<1>3. CASE sent'[u] = sent[u]
  <2>1. CASE sent[u] = 0
    BY <1>3, <2>1 DEF Sent
  <2>2. CASE sent[u] = 1
    <3>1. loc'[u] \in {"pending", "completed", "gone"} /\ (loc[u] # "pending" => loc'[u] # "pending")
      BY <1>0, <1>d, <1>2, <2>2 DEF Sent, LocMoves
    <3>2. CASE loc[u] # "pending"
      BY <1>3, <2>2, <3>1, <3>2 DEF Sent
    <3>3. CASE loc[u] = "pending" /\ lock["pending"][u].owner = Crashed
      <4>1. ~(cur[p] = u /\ "pending" \in own[p])
        BY <1>h, <1>n, <3>3
      <4>2. ~(cur[p] = u /\ "pending" = dir[p] /\ Sits(p, "CleanLock", 3))
        BY <1>0, <3>3 DEF Found, Sits
      <4>3. lock'["pending"][u].owner = Crashed
        BY <1>2, <1>n, <3>3, <4>1, <4>2 DEF LockMoves
      <4> QED
        BY <1>3, <2>2, <3>1, <4>3 DEF Sent
    <3>4. ASSUME NEW q \in Procs, op[q] = "Success", cur[q] = u PROVE Sent(u)'
      <4>1. CASE q = p
        BY <1>3, <2>2, <3>1, <3>4, <4>1, SuccessStep DEF Sent
      <4>2. CASE q # p
        BY <1>2, <1>3, <2>2, <3>1, <3>4, <4>2 DEF Sent, Elsewhere
      <4> QED
        BY <4>1, <4>2
    <3> QED
      BY <1>0, <2>2, <3>2, <3>3, <3>4 DEF Sent
  <2> QED
    BY <1>0, <2>1, <2>2 DEF Sent
<1>4. CASE /\ Sits(p, "Upload", 6) /\ cur[p] = u /\ sent'[u] = sent[u] + 1
           /\ op'[p] = "Success" /\ cur'[p] = u /\ loc' = loc
  <2>1. loc[u] = "pending" /\ "pending" \in own[p]
    <3>1. op[p] \in Locking /\ at[p] > 1 /\ dir[p] = "pending" /\ loc[u] = "pending"
      BY <1>0, <1>4 DEF Sits, Locking, HoldsLocks, Found
    <3> QED
      BY <1>0, <3>1, HasLock
  <2>2. lock["pending"][u].owner = p
    BY <1>h, <1>4, <2>1
  <2>3. \A q \in Procs : ~(op[q] = "Success" /\ cur[q] = u)
    <3>1. \A q \in Procs : op[q] = "Success" => "pending" \in own[q]
      BY <1>0 DEF HoldsInv, HoldsLocks
    <3> QED
      BY <1>h, <1>4, <2>2, <3>1 DEF Sits
  <2>4. sent[u] = 0
    BY <1>0, <1>n, <2>1, <2>2, <2>3 DEF Sent
  <2> QED
    BY <1>4, <2>1, <2>4 DEF Sent
<1> QED
  BY <1>2, <1>3, <1>4 DEF OtherMoves

\* The empty database satisfies the invariant.
LEMMA LockedInit == Init => LockedInv
<1> SUFFICES ASSUME Init PROVE LockedInv
  OBVIOUS
<1>1. \A p \in Procs : op[p] = "Idle" /\ at[p] = 1 /\ own[p] = {}
  BY DEF Init
<1>2. \A u \in Reports : /\ loc[u] = "unborn" /\ att[u] = "none" /\ sent[u] = 0
                         /\ meta["completed"][u] = NoMeta
                         /\ \A d \in Dirs : lock[d][u] = NoLock
  BY DEF Init, Dirs
<1>3. HoldsInv
  BY RefInit DEF RefInv
<1>4. "completed" \in Dirs
  BY DEF Dirs
<1>5. \A u \in Reports : LockFiles(u) /\ Ahead(u) /\ Sent(u)
  <2> TAKE u \in Reports
  <2>1. \A d \in Dirs : lock[d][u] = NoLock /\ lock[d][u].owner = NoOwner
    <3>1. NoLock.owner = NoOwner
      BY DEF NoLock
    <3> QED
      BY <1>2, <3>1
  <2>2. LockFiles(u)
    BY <2>1, ProcsAssumption DEF LockFiles
  <2>3. Ahead(u)
    BY <1>2, <1>4, <2>1 DEF Ahead, NoMeta
  <2>4. Sent(u)
    BY <1>2 DEF Sent
  <2> QED
    BY <2>2, <2>3, <2>4
<1>6. OneWriter /\ \A p \in Procs : Owns(p) /\ Found(p) /\ Forward(p)
  BY <1>1 DEF OneWriter, Owns, Found, Forward, Writers, Locking
<1> QED
  BY <1>3, <1>5, <1>6 DEF LockedInv

\* Every step keeps it.
LEMMA LockedNext ==
    ASSUME OneCleaner, LockedOnly
    PROVE  LockedInv /\ [Next]_vars => LockedInv'
<1> SUFFICES ASSUME LockedInv, [Next]_vars PROVE LockedInv'
  OBVIOUS
<1>1. CASE UNCHANGED vars
  <2>1. HoldsInv'
    BY HoldsNext DEF LockedInv
  <2>2. \A u \in Reports : LockFiles(u)'
    BY <1>1 DEF vars, LockedInv, LockFiles
  <2>3. ASSUME faults' = 0
        PROVE  /\ OneWriter'
               /\ \A p \in Procs : Owns(p)' /\ Found(p)' /\ Forward(p)'
               /\ \A u \in Reports : Ahead(u)' /\ Sent(u)'
    <3>1. faults = 0
      BY <1>1, <2>3 DEF vars
    <3>2. OneWriter'
      BY <1>1, <3>1 DEF vars, LockedInv, OneWriter
    <3>3. ASSUME NEW p \in Procs PROVE Owns(p)' /\ Found(p)' /\ Forward(p)'
      <4>1. Owns(p) /\ Found(p) /\ Forward(p)
        BY <3>1 DEF LockedInv
      <4> QED
        BY <1>1, <4>1 DEF vars, Owns, Found, Forward
    <3>4. ASSUME NEW u \in Reports PROVE Ahead(u)' /\ Sent(u)'
      <4>1. Ahead(u) /\ Sent(u)
        BY <3>1 DEF LockedInv
      <4> QED
        BY <1>1, <4>1 DEF vars, Ahead, Sent
    <3> QED
      BY <3>2, <3>3, <3>4
  <2> QED
    BY <2>1, <2>2, <2>3 DEF LockedInv
<1>2. ASSUME NEW p \in Procs, Step(p) PROVE LockedInv'
  <2>1. HoldsInv'
    BY HoldsNext DEF LockedInv
  <2>2. \A u \in Reports : LockFiles(u)'
    BY <1>2, LockFilesStep
  <2>3. ASSUME faults' = 0
        PROVE  /\ OneWriter'
               /\ \A q \in Procs : Owns(q)' /\ Found(q)' /\ Forward(q)'
               /\ \A u \in Reports : Ahead(u)' /\ Sent(u)'
    <3>1. faults = 0
      <4>1. TypeInv
        BY DEF LockedInv, HoldsInv, LockInv
      <4> QED
        BY <1>2, <2>3, <4>1, FaultsGrow
    <3>2. OneWriter'
      BY <1>2, <3>1, OneWriterStep
    <3>3. Owns(p)' /\ Found(p)' /\ Forward(p)'
      BY <1>2, <2>3, <3>1, FoundStep
    <3>4. \A q \in Procs : q # p => Owns(q)' /\ Found(q)' /\ Forward(q)'
      BY <1>2, <3>1, FoundElsewhere
    <3>5. \A u \in Reports : Ahead(u)' /\ Sent(u)'
      BY <1>2, <2>3, <3>1, <3>3, AheadStep, SentStep
    <3> QED
      BY <3>2, <3>3, <3>4, <3>5
  <2> QED
    BY <2>1, <2>2, <2>3 DEF LockedInv
<1> QED
  BY <1>1, <1>2 DEF Next, Step

\* With the locks in use (no RequestUpload(), no failed upload) the collection server accepts
\* a report once, whoever dies between the upload and the move to completed/.
THEOREM AcceptedOnce ==
    ASSUME OneCleaner, LockedOnly
    PROVE  Spec => []UploadedOnce
<1>1. LockedInv => UploadedOnce
  BY DEF LockedInv, Sent, UploadedOnce
<1> QED
  BY <1>1, LockedInit, LockedNext, PTL DEF Spec

\* And while no call fails, what pending/ and completed/ hold of a report changes only
\* under the report's lock in that directory, or when an expired lock is broken.
THEOREM ChangesAreLocked ==
    ASSUME OneCleaner, LockedOnly, MaxFaults = 0
    PROVE  Spec => LockedChanges
<1>1. ASSUME LockedInv, [Next]_vars
      PROVE  [\A p \in Procs, d \in Dirs, u \in Reports :
                /\ Acts(p)
                /\ meta[d][u]' # meta[d][u] \/ (loc[u] = d) # (loc[u] = d)'
                => /\ cur[p] = u
                   /\ d \in own[p] \/ op[p] = "CleanLock"]_vars
  <2>1. CASE UNCHANGED vars
    BY <2>1
  <2>2. ASSUME NEW r \in Procs, Step(r), NEW p \in Procs, NEW d \in Dirs, NEW u \in Reports,
               Acts(p), meta[d][u]' # meta[d][u] \/ (loc[u] = d) # (loc[u] = d)'
        PROVE  cur[p] = u /\ (d \in own[p] \/ op[p] = "CleanLock")
    <3>0. HoldsInv /\ faults = 0 /\ Found(r)
      BY <1>1 DEF LockedInv, HoldsInv, LockInv, TypeInv, TypeOK
    <3>1. p = r
      BY <2>2, <3>0, HoldsStep DEF Elsewhere, Acts
    <3>2. op[p] \notin {"Request", "Failure"}
      BY <3>0, <3>1 DEF Found
    <3>3. d \in {"pending", "completed"}
      BY DEF Dirs
    <3>4. cur[p] = u /\ Has(p, d)
      BY <2>2, <3>0, <3>1, <3>2, <3>3, Guarded
    <3> QED
      BY <3>4 DEF Has
  <2> QED
    BY <1>1, <2>1, <2>2 DEF Next, Step
<1> QED
  BY <1>1, LockedInit, LockedNext, PTL DEF Spec, LockedChanges


----------------------------------------------------------------------------
(***************************************************************************)
(* While no process dies and no call fails, the tree is in order.          *)
(***************************************************************************)

\* A step of p leaves in order what p has locked.
LEMMA OrderlyStep ==
    ASSUME OneCleaner, LockedOnly, OrderInv, crashes = 0, faults = 0, crashes' = 0, faults' = 0,
           NEW p \in Procs, Step(p)
    PROVE  Orderly(p)'
<1>0. /\ TypeInv /\ LockInv /\ HoldsLocks(p) /\ Owns(p) /\ Found(p) /\ Orderly(p)
      /\ dir[p] \in Dirs /\ cur[p] \in Reports /\ own[p] \subseteq Dirs /\ Tidy(cur[p])
  <2>1. TypeInv /\ LockInv
    BY DEF OrderInv, LockedInv, HoldsInv, LockInv
  <2> QED
    BY <2>1, Local DEF OrderInv, LockedInv, HoldsInv, TypeInv, TypeOK
<1>a. at[p] \in 1..10
  BY <1>0 DEF TypeInv, TypeOK
<1>d. "completed" \in Dirs /\ "pending" \in Dirs /\ \A d \in Dirs : d \in {"pending", "completed"}
  BY DEF Dirs
<1>i. op[p] \in {"Idle", "Writing"} => own[p] = {}
  BY <1>0 DEF LockInv, IdleUnlocked
<1>l. op[p] \in Locking /\ at[p] > 1 => dir[p] \in own[p]
  BY <1>0, HasLock
<1>1. ASSUME NEW v \in Reports, PrepareNewCrashReport(p, v) PROVE Orderly(p)'
  BY <1>0, <1>i, <1>1, PrepareEffect DEF Orderly, Went
<1>2. ASSUME NEW v \in Reports, CleanNew(p, v) PROVE Orderly(p)'
  BY <1>0, <1>i, <1>2, CleanNewEffect DEF Orderly, Keeps
<1>3. ASSUME NEW o \in Ops \cap (ByUUID \cup Cleaning \cup {"Visit"}),
             NEW v \in Reports, NEW e \in Dirs, Begin(p, o, v, e) PROVE Orderly(p)'
  <2>1. o # "CleanLock"
    <3>1. o = "CleanLock" => lock[e][v].owner = Crashed
      BY <1>0, <1>3, BeginEffect DEF MayBegin, ByUUID, Expired, OneCleaner
    <3>2. lock[e][v].owner # Crashed
      BY DEF OrderInv, LockedInv, LockFiles
    <3> QED
      BY <3>1, <3>2
  <2> QED
    BY <1>0, <1>i, <1>3, <2>1, BeginEffect DEF Orderly, Went
<1>4. ASSUME AddAttachment(p) PROVE Orderly(p)'
  BY <1>0, <1>i, <1>4, AttachEffect DEF Orderly, Keeps
<1>5. ASSUME NEW o \in {"Finish", "Drop"}, CloseNewReport(p, o) PROVE Orderly(p)'
  BY <1>0, <1>i, <1>5, CloseEffect DEF Orderly, Went
<1>6. ASSUME ResetAcquire(p) PROVE Orderly(p)'
  <2>0. SameFiles /\ cur'[p] = cur[p] /\ dir'[p] = dir[p]
    BY <1>0, <1>6, AcquireEffect
  <2>1. CASE at[p] = 1 /\ op[p] \in Locking /\ LockDir(p) = dir[p]
             /\ lock[dir[p]][cur[p]].owner = NoOwner
    <3>1. own'[p] = {dir[p]} /\ WentOn(p)
      BY <1>0, <1>6, <2>1, AcquireEffect DEF Owns
    <3>2. Went(p, op[p], 2) /\ op[p] \notin {"Purge", "CleanLock"}
      BY <2>1, <3>1, ScriptSizes DEF WentOn, Locking
    <3>3. meta[dir[p]][cur[p]].st = IF loc[cur[p]] = dir[p] THEN "valid" ELSE "none"
      BY <1>0, <2>1 DEF Tidy
    <3> QED
      BY <2>0, <3>1, <3>2, <3>3 DEF Orderly, Contents, Went, Sits, SameFiles
  <2>2. CASE (Sits(p, "Success", 1) \/ Sits(p, "Skip", 5)) /\ LockDir(p) = "completed"
             /\ lock["completed"][cur[p]].owner = NoOwner
    <3>1. WentOn(p) /\ own'[p] = own[p] \cup {"completed"}
      BY <1>0, <1>6, <2>2, AcquireEffect
    <3>2. Went(p, op[p], at[p] + 1)
      BY <2>2, <3>1, ScriptSizes DEF WentOn, Sits
    <3>3. meta["completed"][cur[p]].st = IF loc[cur[p]] = "completed" THEN "valid" ELSE "none"
      BY <1>0, <1>d, <2>2 DEF Tidy
    <3>4. \A d \in own[p] : meta[d][cur[p]].st = IF loc[cur[p]] = d THEN "valid" ELSE "none"
      BY <1>0, <2>2 DEF Orderly, Contents, Sits
    <3> QED
      BY <2>0, <2>2, <3>1, <3>2, <3>3, <3>4 DEF Orderly, Contents, Went, Sits, SameFiles
  <2>3. CASE lock[LockDir(p)][cur[p]].owner # NoOwner
    <3>1. /\ Went(p, IF op[p] = "Finish" THEN "Drop" ELSE "Return", 1)
          /\ own' = own
      BY <1>0, <1>6, <2>3, AcquireEffect
    <3>2. \/ at[p] = 1 /\ op[p] \in Locking
          \/ Sits(p, "Success", 1) \/ Sits(p, "Skip", 5)
      BY <1>0, <1>6, AcquireEffect
    <3>3. \A d \in own[p] : meta[d][cur[p]].st = IF loc[cur[p]] = d THEN "valid" ELSE "none"
      BY <1>0, <3>2 DEF Orderly, Contents, Sits
    <3> QED
      BY <2>0, <3>1, <3>3 DEF Orderly, Contents, Went, Sits, SameFiles
  <2> QED
    BY <1>0, <1>6, <2>1, <2>2, <2>3, AcquireEffect
<1>7. ASSUME StampLock(p) PROVE Orderly(p)'
  BY <1>0, <1>a, <1>d, <1>i, <1>l, <1>7, StampEffect, ScriptSizes
  DEF Orderly, Contents, Went, WentOn, Keeps, Sits, HoldsLocks, Owns, Found, Locking, SameFiles
<1>8. ASSUME LocateReport(p) PROVE Orderly(p)'
  BY <1>0, <1>a, <1>d, <1>i, <1>l, <1>8, LocateEffect, ScriptSizes
  DEF Orderly, Contents, Went, WentOn, Keeps, Sits, HoldsLocks, Owns, Found, Locking, SameFiles, LockBecomes, Searching
<1>9. ASSUME CleaningReadMetadata(p) PROVE Orderly(p)'
  BY <1>0, <1>a, <1>d, <1>i, <1>l, <1>9, ReadEffect, ScriptSizes
  DEF Orderly, Contents, Went, WentOn, Keeps, Sits, HoldsLocks, Owns, Found, Locking, SameFiles
<1>10. ASSUME OpenReport(p) PROVE Orderly(p)'
  BY <1>0, <1>a, <1>d, <1>i, <1>l, <1>10, OpenEffect, ScriptSizes
  DEF Orderly, Contents, Went, WentOn, Keeps, Sits, HoldsLocks, Owns, Found, Locking, SameFiles
<1>11. ASSUME NEW o \in {"Success", "Failure"}, SendReport(p, o) PROVE Orderly(p)'
  BY <1>0, <1>a, <1>d, <1>i, <1>l, <1>11, SendEffect, ScriptSizes
  DEF Orderly, Contents, Went, WentOn, Keeps, Sits, HoldsLocks, Owns, Found, Locking, SameFiles
<1>12. ASSUME OpenMetadata(p) PROVE Orderly(p)'
  BY <1>0, <1>a, <1>d, <1>i, <1>l, <1>12, OpenMetaEffect, ScriptSizes
  DEF Orderly, Contents, Went, WentOn, Keeps, Sits, HoldsLocks, Owns, Found, Locking, MetaBecomes, TornMeta, WriteDir
<1>13. ASSUME WriteMetadata(p) PROVE Orderly(p)'
  <2>0. NewContents(p).st = "valid"
    BY DEF NewContents, ValidMeta
  <2>1. Keeps(p) /\ WentOn(p) /\ loc' = loc
    BY <1>0, <1>13, WriteEffect
  <2>2. op[p] \notin {"Request", "Failure"}
    BY <1>0 DEF Found
  <2>3. CASE Sits(p, "Finish", 4)
    <3>1. own[p] = {"pending"} /\ meta["pending"][cur[p]].st = "torn"
      BY <1>0, <1>l, <2>3 DEF Sits, HoldsLocks, Owns, Locking, Orderly, Contents
    <3>2. MetaBecomes("pending", cur[p], NewContents(p))
      BY <1>0, <1>13, <2>3, <3>1, WriteEffect DEF WriteDir, Sits
    <3> QED
      BY <1>0, <1>d, <2>0, <2>1, <2>3, <3>1, <3>2, ScriptSizes
      DEF Orderly, Contents, Keeps, Went, WentOn, Sits, MetaBecomes
  <2>4. CASE Sits(p, "Success", 6) \/ Sits(p, "Skip", 8)
    <3>1. "completed" \in own[p] /\ meta["completed"][cur[p]].st = "torn"
      BY <1>0, <2>4 DEF Sits, HoldsLocks, Orderly, Contents
    <3>2. MetaBecomes("completed", cur[p], NewContents(p))
      BY <1>0, <1>13, <2>4, <3>1, WriteEffect DEF WriteDir, Sits
    <3>3. loc[cur[p]] = IF op[p] = "Skip" THEN "pending" ELSE "completed"
      BY <1>0, <2>4 DEF Found, Sits
    <3>4. Went(p, IF op[p] = "Skip" THEN "Skip" ELSE "Return", IF op[p] = "Skip" THEN 9 ELSE 1)
      BY <2>1, <2>4, ScriptSizes DEF WentOn, Sits
    <3>5. "pending" \in own[p] => meta["pending"][cur[p]].st = IF op[p] = "Skip" THEN "valid" ELSE "none"
      BY <1>0, <2>4, <3>3 DEF Orderly, Contents, Sits
    <3>6. \A d \in own'[p] : meta'[d][cur'[p]].st = Contents(p, d)'
      BY <1>0, <1>d, <2>0, <2>1, <2>4, <3>2, <3>3, <3>4, <3>5
      DEF Contents, Keeps, Went, Sits, MetaBecomes
    <3> QED
      BY <3>4, <3>6 DEF Orderly, Went
  <2> QED
    BY <1>0, <1>13, <2>2, <2>3, <2>4, WriteEffect DEF Sits
<1>14. ASSUME MoveReport(p) PROVE Orderly(p)'
  <2>0. Keeps(p) /\ meta' = meta /\ op[p] # "Request"
    BY <1>0, <1>14, MoveEffect DEF Found
  <2>1. Sits(p, "Success", 3) \/ Sits(p, "Finish", 5) \/ Sits(p, "Skip", 9)
    BY <1>0, <1>14, <2>0, MoveEffect DEF Sits
  <2>2. loc[cur[p]] = Source(p)
    BY <1>0, <2>1 DEF Found, Source, Sits, HoldsLocks, Writers
  <2>3. WentOn(p) /\ loc'[cur[p]] = Target(p)
    BY <1>0, <1>14, <2>2, MoveEffect DEF LocBecomes
  <2>4. CASE Sits(p, "Success", 3) \/ Sits(p, "Skip", 9)
    <3>1. Went(p, op[p], at[p] + 1) /\ loc[cur[p]] = "pending"
      BY <1>0, <2>2, <2>3, <2>4, ScriptSizes DEF WentOn, Sits, Source, HoldsLocks
    <3>2. \A d \in own'[p] : meta'[d][cur'[p]].st = Contents(p, d)'
      BY <1>0, <1>d, <2>0, <2>4, <3>1 DEF Orderly, Contents, Keeps, Went, Sits
    <3> QED
      BY <2>4, <3>1, <3>2 DEF Orderly, Went, Sits
  <2>5. CASE Sits(p, "Finish", 5)
    <3>1. Went(p, "Return", 1) /\ loc'[cur[p]] = "pending" /\ own[p] \subseteq {"pending"}
      BY <1>0, <2>3, <2>5, ScriptSizes DEF WentOn, Sits, Target, HoldsLocks, Owns, Locking
    <3> QED
      BY <1>0, <2>0, <2>5, <3>1 DEF Orderly, Contents, Keeps, Went, Sits
  <2> QED
    BY <2>1, <2>4, <2>5
<1>15. ASSUME RemoveReport(p) PROVE Orderly(p)'
  BY <1>0, <1>a, <1>d, <1>i, <1>l, <1>15, RemoveReportEffect, ScriptSizes
  DEF Orderly, Contents, Went, WentOn, Keeps, Sits, HoldsLocks, Owns, Found, Locking, LocBecomes, Tolerant
<1>16. ASSUME RemoveMetadata(p) PROVE Orderly(p)'
  BY <1>0, <1>a, <1>d, <1>i, <1>l, <1>16, RemoveMetaEffect, ScriptSizes
  DEF Orderly, Contents, Went, WentOn, Keeps, Sits, HoldsLocks, Owns, Found, Locking, MetaBecomes, NoMeta, Tolerant
<1>17. ASSUME CheckLone(p) PROVE Orderly(p)'
  BY <1>0, <1>a, <1>d, <1>i, <1>l, <1>17, CheckLoneEffect, ScriptSizes
  DEF Orderly, Contents, Went, WentOn, Keeps, Sits, HoldsLocks, Owns, Found, Locking, SameFiles
<1>18. ASSUME RemoveAttachmentsByUUID(p) PROVE Orderly(p)'
  BY <1>0, <1>a, <1>d, <1>i, <1>l, <1>18, RemoveAttachmentsEffect, ScriptSizes
  DEF Orderly, Contents, Went, WentOn, Keeps, Sits, HoldsLocks, Owns, Found, Locking, SameFiles
<1>19. ASSUME RemoveExpiredLock(p) PROVE Orderly(p)'
  BY <1>0, <1>19, RemoveLockEffect DEF Orderly, Sits
<1>20. ASSUME RemoveNewReport(p) PROVE Orderly(p)'
  BY <1>0, <1>a, <1>d, <1>i, <1>l, <1>20, RemoveNewEffect, ScriptSizes
  DEF Orderly, Contents, Went, WentOn, Keeps, Sits, HoldsLocks, Owns, Found, Locking, LocBecomes, Writers
<1>21. ASSUME ReleaseLock(p) PROVE Orderly(p)'
  BY <1>0, <1>a, <1>d, <1>i, <1>l, <1>21, ReleaseEffect, ScriptSizes
  DEF Orderly, Contents, Went, WentOn, Keeps, Sits, HoldsLocks, Owns, Found, Locking, SameFiles
<1>22. ASSUME Unlocked(p) PROVE Orderly(p)'
  BY <1>0, <1>a, <1>d, <1>i, <1>l, <1>22, UnlockedEffect, ScriptSizes
  DEF Orderly, Contents, Went, WentOn, Keeps, Sits, HoldsLocks, Owns, Found, Locking, SameFiles
<1>23. ASSUME FailCall(p) PROVE Orderly(p)'
  BY <1>0, <1>23, FailEffect
<1>24. ASSUME Crash(p) PROVE Orderly(p)'
  BY <1>0, <1>24, CrashEffect
<1> QED
  BY <1>1, <1>2, <1>3, <1>4, <1>5, <1>6, <1>7, <1>8, <1>9, <1>10, <1>11, <1>12, <1>13, <1>14, <1>15, <1>16, <1>17, <1>18, <1>19, <1>20, <1>21, <1>22, <1>23, <1>24
  DEF Step, Start, Call, Write

\* A step of p leaves in order what another process has locked.
LEMMA OrderlyElsewhere ==
    ASSUME OneCleaner, OrderInv, crashes = 0, faults = 0, NEW p \in Procs, Step(p),
           NEW q \in Procs, q # p
    PROVE  Orderly(q)'
<1>0. /\ HoldsInv /\ LockInv /\ TypeInv /\ HoldsLocks(q) /\ Orderly(q) /\ Found(p)
  BY DEF OrderInv, LockedInv, HoldsInv, LockInv
<1>t. cur[q] \in Reports /\ dir[q] \in Dirs /\ at[q] \in 1..10 /\ own[q] \subseteq Dirs
  BY <1>0 DEF TypeInv, TypeOK
<1>1. /\ op'[q] = op[q] /\ at'[q] = at[q] /\ cur'[q] = cur[q]
      /\ dir'[q] = dir[q] /\ own'[q] = own[q]
  BY <1>0, HoldsStep DEF Elsewhere
<1>2. op[p] \notin {"Request", "Failure"}
  BY <1>0 DEF Found
<1>3. op[q] \in Locking /\ at[q] > 1 => dir[q] \in own[q]
  BY <1>0, HasLock
<1>4. \A d \in own[q] : /\ (loc'[cur[q]] = d) = (loc[cur[q]] = d)
                        /\ meta'[d][cur[q]] = meta[d][cur[q]]
  <2> TAKE d \in own[q]
  <2>1. ~(cur[p] = cur[q] /\ Has(p, d))
    BY <1>0, Exclusive DEF Has
  <2>2. d \in {"pending", "completed"}
    BY <1>t DEF Dirs
  <2> QED
    BY <1>0, <1>t, <1>2, <2>1, <2>2, Guarded
<1>5. \A d \in own[q] : Contents(q, d)' = Contents(q, d)
  BY <1>1, <1>4 DEF Contents, Sits
<1>6. /\ op[q] = "CleanReport" /\ at[q] > 3 => loc'[cur[q]] # dir[q]
      /\ op[q] = "Purge" => loc'[cur[q]] # dir[q]
  BY <1>0, <1>t, <1>3, <1>4 DEF Orderly, HoldsLocks, Locking
<1> QED
  BY <1>0, <1>1, <1>4, <1>5, <1>6 DEF Orderly

\* The writer of a new report, and the process that deletes one, go on until it is done.
LEMMA KeeperStep ==
    ASSUME OneCleaner, OrderInv, crashes = 0, faults = 0, crashes' = 0, faults' = 0,
           NEW p \in Procs, Step(p)
    PROVE  /\ op[p] \in Writers => /\ cur'[p] = cur[p]
                                   /\ op'[p] \in Writers \/ loc'[cur[p]] # "new"
           /\ op[p] = "Delete" /\ at[p] > 4 => /\ cur'[p] = cur[p]
                                               /\ \/ op'[p] = "Delete" /\ at'[p] > 4
                                                  \/ att'[cur[p]] = "none"
<1>0. /\ TypeInv /\ Found(p) /\ Orderly(p) /\ dir[p] \in Dirs /\ cur[p] \in Reports
      /\ at[p] \in 1..10
  BY Local DEF OrderInv, LockedInv, HoldsInv, LockInv, TypeInv, TypeOK
<1>m. Sits(p, "Delete", 5) => meta[dir[p]][cur[p]].st # "none"
  <2>1. Sits(p, "Delete", 5) => dir[p] \in own[p]
    BY HasLock DEF Sits, Locking, OrderInv, LockedInv, HoldsInv
  <2> QED
    BY <1>0, <2>1 DEF Orderly, Contents, Sits
<1> DEFINE Goal == /\ op[p] \in Writers => /\ cur'[p] = cur[p]
                                           /\ op'[p] \in Writers \/ loc'[cur[p]] # "new"
                   /\ op[p] = "Delete" /\ at[p] > 4 => /\ cur'[p] = cur[p]
                                                       /\ \/ op'[p] = "Delete" /\ at'[p] > 4
                                                          \/ att'[cur[p]] = "none"
<1>1. ASSUME NEW v \in Reports, PrepareNewCrashReport(p, v) PROVE Goal
  BY <1>0, <1>1, PrepareEffect, ScriptSizes DEF Keeps, Writers, Sits, Went, WentOn, Locking
<1>2. ASSUME NEW v \in Reports, CleanNew(p, v) PROVE Goal
  BY <1>0, <1>2, CleanNewEffect, ScriptSizes DEF Keeps, Writers, Sits, Went, WentOn, Locking
<1>3. ASSUME NEW o \in Ops \cap (ByUUID \cup Cleaning \cup {"Visit"}),
             NEW v \in Reports, NEW e \in Dirs, Begin(p, o, v, e) PROVE Goal
  BY <1>0, <1>3, BeginEffect, ScriptSizes DEF Keeps, Writers, Sits, Went, WentOn, Locking
<1>4. ASSUME AddAttachment(p) PROVE Goal
  BY <1>0, <1>4, AttachEffect, ScriptSizes DEF Keeps, Writers, Sits, Went, WentOn, Locking
<1>5. ASSUME NEW o \in {"Finish", "Drop"}, CloseNewReport(p, o) PROVE Goal
  BY <1>0, <1>5, CloseEffect, ScriptSizes DEF Keeps, Writers, Sits, Went, WentOn, Locking
<1>6. ASSUME ResetAcquire(p) PROVE Goal
  <2>1. cur'[p] = cur[p] /\ ~(op[p] = "Delete" /\ at[p] > 4) /\ op[p] \notin {"Writing", "Drop"}
    <3>1. /\ cur'[p] = cur[p]
          /\ \/ at[p] = 1 /\ op[p] \in Locking
             \/ Sits(p, "Success", 1) \/ Sits(p, "Skip", 5)
      BY <1>0, <1>6, AcquireEffect
    <3> QED
      BY <3>1 DEF Sits, Locking
  <2>2. WentOn(p) \/ Went(p, IF op[p] = "Finish" THEN "Drop" ELSE "Return", 1)
    BY <1>0, <1>6, AcquireEffect
  <2>3. op[p] = "Finish" => at[p] = 1
    BY <1>0, <1>6, AcquireEffect DEF Sits
  <2>4. op[p] = "Finish" => op'[p] \in {"Finish", "Drop"}
    BY <2>2, <2>3, ScriptSizes DEF WentOn, Went
  <2> QED
    BY <2>1, <2>4 DEF Writers
<1>7. ASSUME StampLock(p) PROVE Goal
  BY <1>0, <1>7, StampEffect, ScriptSizes DEF Keeps, Writers, Sits, Went, WentOn, Locking
<1>8. ASSUME LocateReport(p) PROVE Goal
  BY <1>0, <1>8, LocateEffect, ScriptSizes DEF Keeps, Writers, Sits, Went, WentOn, Locking
<1>9. ASSUME CleaningReadMetadata(p) PROVE Goal
  BY <1>0, <1>9, ReadEffect, ScriptSizes DEF Keeps, Writers, Sits, Went, WentOn, Locking
<1>10. ASSUME OpenReport(p) PROVE Goal
  BY <1>0, <1>10, OpenEffect, ScriptSizes DEF Keeps, Writers, Sits, Went, WentOn, Locking
<1>11. ASSUME NEW o \in {"Success", "Failure"}, SendReport(p, o) PROVE Goal
  BY <1>0, <1>11, SendEffect, ScriptSizes DEF Keeps, Writers, Sits, Went, WentOn, Locking
<1>12. ASSUME OpenMetadata(p) PROVE Goal
  BY <1>0, <1>12, OpenMetaEffect, ScriptSizes DEF Keeps, Writers, Sits, Went, WentOn, Locking
<1>13. ASSUME WriteMetadata(p) PROVE Goal
  BY <1>0, <1>13, WriteEffect, ScriptSizes DEF Keeps, Writers, Sits, Went, WentOn, Locking
<1>14. ASSUME MoveReport(p) PROVE Goal
  BY <1>0, <1>14, MoveEffect, ScriptSizes DEF Keeps, Writers, Sits, Went, WentOn, LocBecomes, Target
<1>15. ASSUME RemoveReport(p) PROVE Goal
  BY <1>0, <1>15, RemoveReportEffect, ScriptSizes DEF Keeps, Writers, Sits, Went, WentOn, Locking
<1>16. ASSUME RemoveMetadata(p) PROVE Goal
  BY <1>0, <1>m, <1>16, RemoveMetaEffect, ScriptSizes DEF Keeps, Writers, Sits, Went, WentOn
<1>17. ASSUME CheckLone(p) PROVE Goal
  BY <1>0, <1>17, CheckLoneEffect, ScriptSizes DEF Keeps, Writers, Sits, Went, WentOn, Locking
<1>18. ASSUME RemoveAttachmentsByUUID(p) PROVE Goal
  BY <1>0, <1>18, RemoveAttachmentsEffect, ScriptSizes DEF Keeps, Writers, Sits, Went, WentOn, Locking
<1>19. ASSUME RemoveExpiredLock(p) PROVE Goal
  BY <1>0, <1>19, RemoveLockEffect, ScriptSizes DEF Keeps, Writers, Sits, Went, WentOn, Locking
<1>20. ASSUME RemoveNewReport(p) PROVE Goal
  BY <1>0, <1>20, RemoveNewEffect DEF Keeps, Writers, Sits, LocBecomes
<1>21. ASSUME ReleaseLock(p) PROVE Goal
  BY <1>0, <1>21, ReleaseEffect, ScriptSizes DEF Keeps, Writers, Sits, Went, WentOn, Locking
<1>22. ASSUME Unlocked(p) PROVE Goal
  BY <1>0, <1>22, UnlockedEffect, ScriptSizes DEF Keeps, Writers, Sits, Went, WentOn, Locking
<1>23. ASSUME FailCall(p) PROVE Goal
  BY <1>0, <1>23, FailEffect, ScriptSizes DEF Keeps, Writers, Sits, Went, WentOn, Locking
<1>24. ASSUME Crash(p) PROVE Goal
  BY <1>0, <1>24, CrashEffect, ScriptSizes DEF Keeps, Writers, Sits, Went, WentOn, Locking
<1> QED
  BY <1>1, <1>2, <1>3, <1>4, <1>5, <1>6, <1>7, <1>8, <1>9, <1>10, <1>11, <1>12, <1>13, <1>14, <1>15, <1>16, <1>17, <1>18, <1>19, <1>20, <1>21, <1>22, <1>23, <1>24
  DEF Step, Start, Call, Write

\* Where nobody has a lock, everything stays together.
LEMMA TidyStep ==
    ASSUME OneCleaner, OrderInv, crashes = 0, faults = 0, crashes' = 0, faults' = 0,
           NEW p \in Procs, Step(p), NEW u \in Reports
    PROVE  Tidy(u)'
<1>0. /\ HoldsInv /\ LockInv /\ Found(p) /\ Forward(p) /\ Orderly(p) /\ Tidy(u) /\ dir[p] \in Dirs
  BY DEF OrderInv, LockedInv, HoldsInv, LockInv, TypeInv, TypeOK
<1>d. "completed" \in Dirs /\ "pending" \in Dirs /\ \A d \in Dirs : d \in {"pending", "completed"}
  BY DEF Dirs
<1>1. op[p] \notin {"Request", "Failure", "CleanLock"}
  BY <1>0 DEF Found, Orderly
<1>2. LocMoves(p, u) /\ OtherMoves(p, u) /\ Elsewhere(p)
  BY <1>0, <1>1, LocSteps, OtherSteps, HoldsStep
<1>n. p # NoOwner /\ Crashed # NoOwner /\ NoLock.owner = NoOwner
  BY ProcsAssumption DEF NoLock
<1>3. ASSUME NEW d \in Dirs, lock'[d][u].owner = NoOwner
      PROVE  meta'[d][u].st = IF loc'[u] = d THEN "valid" ELSE "none"
  <2>1. LockMoves(p, d, u) /\ MetaMoves(p, d, u)
    BY <1>0, <1>1, LockSteps, MetaSteps
  <2>2. CASE lock[d][u].owner = NoOwner
    <3>1. ~(cur[p] = u /\ Has(p, d))
      BY <1>0, <1>1, <1>n, <2>2 DEF Has, LockInv, LockHeldByOwner
    <3>2. meta'[d][u] = meta[d][u] /\ (loc'[u] = d) = (loc[u] = d)
      BY <1>0, <1>d, <1>1, <3>1, Guarded
    <3> QED
      BY <1>0, <2>2, <3>2 DEF Tidy
  <2>3. CASE /\ cur[p] = u /\ d \in own[p]
             /\ \/ at[p] = 1 /\ op[p] \in {"Return", "Drop", "Failure"}
                \/ at[p] = 3 /\ op[p] \in {"LookUp", "Upload", "Skip", "Delete", "Request",
                                           "CleanAttachments"}
    <3>1. meta[d][u].st = IF loc[u] = d THEN "valid" ELSE "none"
      BY <1>0, <2>3 DEF Orderly, Contents, Sits
    <3>2. meta'[d][u] = meta[d][u]
      BY <2>1, <2>3 DEF MetaMoves, Sits
    <3>3. (loc'[u] = d) = (loc[u] = d)
      BY <1>2, <1>d, <2>3 DEF LocMoves, Sits
    <3> QED
      BY <3>1, <3>2, <3>3
  <2> QED
    BY <1>1, <1>n, <1>3, <2>1, <2>2, <2>3 DEF LockMoves, Sits
<1>4. ASSUME loc'[u] = "new" PROVE \E q \in Procs : op'[q] \in Writers /\ cur'[q] = u
  <2>1. CASE loc[u] = "new"
    <3>1. PICK q \in Procs : op[q] \in Writers /\ cur[q] = u
      BY <1>0, <2>1 DEF Tidy
    <3>2. op'[q] \in Writers /\ cur'[q] = u
      BY <1>2, <1>4, <3>1, KeeperStep DEF Elsewhere
    <3> QED
      BY <3>2
  <2>2. CASE loc[u] # "new"
    <3>1. op'[p] = "Writing" /\ cur'[p] = u
      BY <1>2, <1>4, <2>2 DEF LocMoves
    <3> QED
      BY <3>1 DEF Writers
  <2> QED
    BY <2>1, <2>2
<1>5. ASSUME att'[u] = "files"
      PROVE  \/ loc'[u] \in Dirs \cup {"new"}
             \/ \E q \in Procs : op'[q] = "Delete" /\ at'[q] > 4 /\ cur'[q] = u
  <2>1. CASE att[u] = "files" /\ loc[u] \in Dirs \cup {"new"}
    <3>1. CASE loc'[u] = "gone" /\ loc[u] # "gone"
      <4>1. op'[p] = "Delete" /\ at'[p] = 5 /\ cur'[p] = u
        BY <1>0, <1>1, <1>2, <3>1 DEF LocMoves, Orderly, Sits, Went
      <4> QED
        BY <4>1
    <3>2. CASE loc[u] = "new" /\ loc'[u] = "dropped"
      <4>1. \E q \in Procs : op[q] \in Writers /\ cur[q] = u
        BY <1>0, <3>2 DEF Tidy
      <4> QED
        BY <1>2, <1>5, <3>2, <4>1 DEF LocMoves, OneCleaner
    <3> QED
      BY <1>0, <1>2, <1>d, <2>1, <3>1, <3>2 DEF LocMoves
  <2>2. ASSUME NEW q \in Procs, op[q] = "Delete", at[q] > 4, cur[q] = u
        PROVE  \E r \in Procs : op'[r] = "Delete" /\ at'[r] > 4 /\ cur'[r] = u
    <3>1. op'[q] = "Delete" /\ at'[q] > 4 /\ cur'[q] = u
      BY <1>2, <1>5, <2>2, KeeperStep DEF Elsewhere
    <3> QED
      BY <3>1
  <2>3. CASE att[u] # "files"
    <3>1. op[p] = "Writing" /\ cur[p] = u
      BY <1>2, <1>5, <2>3 DEF OtherMoves
    <3>2. loc[u] = "new"
      BY <1>0, <3>1 DEF Found, Writers
    <3>3. loc'[u] = "new"
      BY <1>0, <1>2, <1>d, <3>1, <3>2 DEF LocMoves, Sits, Writers, OneCleaner
    <3> QED
      BY <3>3
  <2> QED
    BY <1>0, <2>1, <2>2, <2>3 DEF Tidy
<1> QED
  BY <1>3, <1>4, <1>5 DEF Tidy

\* The empty database is in order.
LEMMA OrderInit == Init => OrderInv
<1> SUFFICES ASSUME Init PROVE OrderInv
  OBVIOUS
<1>1. \A p \in Procs : op[p] = "Idle" /\ own[p] = {}
  BY DEF Init
<1>2. \A u \in Reports : /\ loc[u] = "unborn" /\ att[u] = "none"
                         /\ \A d \in Dirs : meta[d][u] = NoMeta
  BY DEF Init
<1>3. "unborn" \notin Dirs /\ NoMeta.st = "none"
  BY DEF Dirs, NoMeta
<1>4. \A u \in Reports : Tidy(u)
  BY <1>2, <1>3 DEF Tidy
<1>5. \A p \in Procs : Orderly(p)
  BY <1>1 DEF Orderly
<1> QED
  BY <1>4, <1>5, LockedInit DEF OrderInv

\* Crashes are counted, and neither count goes down.
LEMMA CountsGrow ==
    ASSUME HoldsInv, NEW p \in Procs, Step(p), crashes' + faults' = 0
    PROVE  crashes = 0 /\ faults = 0 /\ crashes' = 0 /\ faults' = 0
<1>1. TypeInv /\ crashes \in Nat
  BY ProcsAssumption DEF HoldsInv, LockInv, TypeInv, TypeOK
<1>2. crashes' \in {crashes, crashes + 1}
  BY OtherSteps, ProcsAssumption DEF OtherMoves
<1> QED
  BY <1>1, <1>2, FaultsGrow

\* Every step keeps the order.
LEMMA OrderNext ==
    ASSUME OneCleaner, LockedOnly
    PROVE  OrderInv /\ [Next]_vars => OrderInv'
<1> SUFFICES ASSUME OrderInv, [Next]_vars PROVE OrderInv'
  OBVIOUS
<1>1. LockedInv'
  BY LockedNext DEF OrderInv
<1>2. CASE UNCHANGED vars
  <2>1. ASSUME crashes + faults = 0, NEW u \in Reports PROVE Tidy(u)'
    <3>1. Tidy(u)
      BY <2>1 DEF OrderInv
    <3> QED
      BY <1>2, <3>1 DEF vars, Tidy
  <2>2. ASSUME crashes + faults = 0, NEW p \in Procs PROVE Orderly(p)'
    <3>1. Orderly(p)
      BY <2>2 DEF OrderInv
    <3> QED
      BY <1>2, <3>1 DEF vars, Orderly, Contents, Sits
  <2> QED
    BY <1>1, <1>2, <2>1, <2>2 DEF OrderInv, vars
<1>3. ASSUME NEW p \in Procs, Step(p) PROVE OrderInv'
  <2>1. ASSUME crashes' + faults' = 0
        PROVE  (\A u \in Reports : Tidy(u)') /\ (\A q \in Procs : Orderly(q)')
    <3>1. crashes = 0 /\ faults = 0 /\ crashes' = 0 /\ faults' = 0
      BY <1>3, <2>1, CountsGrow DEF OrderInv, LockedInv
    <3>2. \A u \in Reports : Tidy(u)'
      BY <1>3, <3>1, TidyStep
    <3>3. Orderly(p)'
      BY <1>3, <3>1, OrderlyStep
    <3>4. \A q \in Procs : q # p => Orderly(q)'
      BY <1>3, <3>1, OrderlyElsewhere
    <3> QED
      BY <3>2, <3>3, <3>4
  <2> QED
    BY <1>1, <2>1 DEF OrderInv
<1> QED
  BY <1>2, <1>3 DEF Next, Step

\* When all is quiet, and nothing has gone wrong, the tree is clean.
THEOREM QuietIsClean ==
    ASSUME OneCleaner, LockedOnly
    PROVE  Spec => []CleanWhenQuiet
<1>1. OrderInv => CleanWhenQuiet
  <2> SUFFICES ASSUME OrderInv, \A p \in Procs : op[p] = "Idle", crashes + faults = 0, NEW u \in Reports
               PROVE  /\ \A d \in Dirs :
                           /\ meta[d][u].st = (IF loc[u] = d THEN "valid" ELSE "none")
                           /\ lock[d][u] = NoLock
                      /\ att[u] = "files" => loc[u] \in Dirs
    BY DEF CleanWhenQuiet
  <2>0. /\ LockInv /\ LockFiles(u) /\ Tidy(u) /\ crashes = 0
        /\ \A d \in Dirs : lock[d][u].owner \in Procs \cup {NoOwner, Crashed}
    <3>1. LockInv /\ LockFiles(u) /\ Tidy(u)
      BY DEF OrderInv, LockedInv, HoldsInv
    <3>2. crashes \in Nat /\ faults \in Nat
      BY <3>1, ProcsAssumption DEF LockInv, TypeInv, TypeOK
    <3>3. \A d \in Dirs : lock[d][u].owner \in Procs \cup {NoOwner, Crashed}
      BY <3>1 DEF LockInv, TypeInv, TypeOK, LockFile
    <3> QED
      BY <3>1, <3>2, <3>3
  <2>1. \A p \in Procs : own[p] = {}
    BY <2>0 DEF LockInv, IdleUnlocked
  <2>2. \A d \in Dirs : lock[d][u].owner = NoOwner /\ lock[d][u] = NoLock
    BY <2>0, <2>1 DEF LockFiles
  <2>3. \A p \in Procs : op[p] \notin Writers \cup {"Delete"}
    BY DEF Writers
  <2> QED
    BY <2>0, <2>2, <2>3 DEF Tidy
<1> QED
  BY <1>1, OrderInit, OrderNext, PTL DEF Spec

\* While nothing goes wrong, a report disappears only in DeleteReport(): no scan and no
\* cleaning takes a report that another process is moving for a broken one.
THEOREM OnlyDeletedIsLost ==
    ASSUME OneCleaner, LockedOnly
    PROVE  Spec => NoReportLost
<1>1. ASSUME OrderInv, [Next]_vars
      PROVE  [crashes' + faults' = 0 =>
                \A u \in Reports : loc[u] # "gone" /\ loc[u]' = "gone" =>
                  \E p \in Procs : cur[p] = u /\ op[p] = "Delete" /\ Acts(p)]_vars
  <2>1. ASSUME NEW p \in Procs, Step(p), crashes' + faults' = 0, NEW u \in Reports,
               loc[u] # "gone", loc'[u] = "gone"
        PROVE  cur[p] = u /\ op[p] = "Delete" /\ Acts(p)
    <3>0. HoldsInv
      BY <1>1 DEF OrderInv, LockedInv
    <3>1. crashes = 0 /\ faults = 0
      BY <2>1, <3>0, CountsGrow
    <3>2. Found(p) /\ Orderly(p)
      BY <1>1, <3>1 DEF OrderInv, LockedInv
    <3>3. LocMoves(p, u)
      BY <2>1, <3>0, <3>2, LocSteps DEF Found
    <3>4. cur[p] = u /\ Sits(p, "Delete", 4) /\ Went(p, "Delete", 5)
      BY <2>1, <3>2, <3>3 DEF LocMoves, Orderly, Sits
    <3> QED
      BY <3>4 DEF Sits, Went, Acts
  <2>2. CASE UNCHANGED vars
    BY <2>2
  <2> QED
    BY <1>1, <2>1, <2>2 DEF Next, Step
<1> QED
  BY <1>1, OrderInit, OrderNext, PTL DEF Spec, NoReportLost

\* While nothing goes wrong, attachments are removed only with their report.
THEOREM AttachmentsStay ==
    ASSUME OneCleaner, LockedOnly
    PROVE  Spec => AttachmentsKept
<1>1. ASSUME OrderInv, [Next]_vars
      PROVE  [crashes' + faults' = 0 =>
                \A u \in Reports : att[u] = "files" /\ att[u]' # "files" =>
                  loc[u]' \in {"gone", "dropped"}]_vars
  <2>1. ASSUME NEW p \in Procs, Step(p), crashes' + faults' = 0, NEW u \in Reports,
               att[u] = "files", att'[u] # "files"
        PROVE  loc'[u] \in {"gone", "dropped"}
    <3>0. HoldsInv
      BY <1>1 DEF OrderInv, LockedInv
    <3>1. crashes = 0 /\ faults = 0
      BY <2>1, <3>0, CountsGrow
    <3>2. Found(p) /\ Orderly(p) /\ Forward(p)
      BY <1>1, <3>1 DEF OrderInv, LockedInv
    <3>3. LocMoves(p, u) /\ OtherMoves(p, u)
      BY <2>1, <3>0, <3>2, LocSteps, OtherSteps DEF Found
    <3>5. CASE Sits(p, "Drop", 2) /\ cur[p] = u /\ loc'[u] # "new"
      BY <3>2, <3>3, <3>5 DEF Found, Writers, LocMoves, Sits
    <3>6. CASE /\ cur[p] = u /\ loc'[u] = loc[u]
               /\ \/ Sits(p, "Orphan", 1) \/ Sits(p, "CleanLock", 4) \/ Sits(p, "CleanReport", 5)
                  \/ Sits(p, "CleanMeta", 5) \/ Sits(p, "Delete", 6)
      BY <3>2, <3>6 DEF Found, Forward, Orderly, Past, Sits
    <3> QED
      BY <2>1, <3>3, <3>5, <3>6 DEF OtherMoves
  <2>2. CASE UNCHANGED vars
    BY <2>2
  <2> QED
    BY <1>1, <2>1, <2>2 DEF Next, Step
<1> QED
  BY <1>1, OrderInit, OrderNext, PTL DEF Spec, AttachmentsKept
=============================================================================
