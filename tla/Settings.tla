------------------------------ MODULE Settings ------------------------------
(***************************************************************************)
(* client/settings.cc: the settings file of a crash report database, which *)
(* any number of processes read and write under flock().  The build where  *)
(* flock() is always supported (CRASHPAD_FLOCK_ALWAYS_SUPPORTED).          *)
(*                                                                         *)
(* The file is opened and locked in two steps, and written in two: it is   *)
(* truncated, then written.  A process that dies loses its lock at once.   *)
(***************************************************************************)
EXTENDS Naturals

CONSTANTS
    Users,     \* the processes that have the database open
    MaxOps,    \* bound: how many operations are called
    MaxDeaths  \* bound: how many processes die

ASSUME SettingsAssumption == MaxOps \in Nat /\ MaxDeaths \in Nat

VARIABLES
    file,    \* the settings file
    flock,   \* flock[p]: the lock p has on it
    method,  \* method[p]: the method p is executing
    point,   \* point[p]: the step it is at
    data,    \* data[p]: its local Data
    ready,   \* ready[p]: its Settings object is initialized
    ids,     \* how many client ids have been made
    ops,     \* how many operations have been called
    deaths,  \* how many processes have died
    given,   \* the client ids that GetClientID() has returned
    wanted   \* the settings that were set, by whoever set them last

settingsVars == <<file, flock, method, point, data, ready, ids, ops, deaths, given, wanted>>

\* Settings::Data.  "absent" and "torn" are not valid: no file, and one that is
\* empty or corrupt.  id stands for client_id, time for the last upload attempt.
Data == [st : {"absent", "torn", "valid"}, id : Nat, enabled : BOOLEAN, time : {0, 1}]

Absent == [st |-> "absent", id |-> 0, enabled |-> FALSE, time |-> 0]
Torn == [st |-> "torn", id |-> 0, enabled |-> FALSE, time |-> 0]
Fresh(id) == [st |-> "valid", id |-> id, enabled |-> FALSE, time |-> 0]

Setters == {"SetUploadsEnabled", "SetLastUploadAttemptTime"}
Getters == {"GetClientID"}

SettingsTypeOK ==
    /\ file \in Data
    /\ flock \in [Users -> {"none", "shared", "exclusive"}]
    /\ method \in [Users -> {"Initialize"} \cup Setters \cup Getters]
    /\ point \in
         [Users -> {"idle", "openRead", "reuse", "create", "reuseOrCreate", "lockShared", "lock",
                    "read", "initTruncate", "initWrite", "truncate", "write", "return"}]
    /\ data \in [Users -> Data]
    /\ ready \in [Users -> BOOLEAN]
    /\ ids \in Nat
    /\ ops \in 0..MaxOps
    /\ deaths \in 0..MaxDeaths
    /\ given \subseteq 1..ids
    /\ wanted \in [enabled : BOOLEAN, time : {0, 1}]

\* A database that is being created, or whose settings file is corrupt.
SettingsInit ==
    /\ file \in {Absent, Torn}
    /\ flock = [p \in Users |-> "none"]
    /\ method = [p \in Users |-> "Initialize"]
    /\ point = [p \in Users |-> "idle"]
    /\ data = [p \in Users |-> Absent]
    /\ ready = [p \in Users |-> FALSE]
    /\ ids = 0
    /\ ops = 0
    /\ deaths = 0
    /\ given = {}
    /\ wanted = [enabled |-> FALSE, time |-> 0]

----------------------------------------------------------------------------
StepTo(p, l) == point' = [point EXCEPT ![p] = l]

\* p calls a method: Initialize() first.
BeginMethod(p, o) ==
    /\ point[p] = "idle"
    /\ ops < MaxOps
    /\ ready[p] <=> o # "Initialize"
    /\ ops' = ops + 1
    /\ method' = [method EXCEPT ![p] = o]
    /\ StepTo(p, CASE o = "Initialize" -> "reuse"
                   [] o \in Getters    -> "openRead"
                   [] OTHER            -> "reuseOrCreate")
    /\ UNCHANGED <<file, flock, data, ready, ids, deaths, given, wanted>>

\* OpenForReading(): OpenAndReadSettings() gives up if there is no file.
OpenForReading(p) ==
    /\ point[p] = "openRead"
    /\ StepTo(p, IF file.st = "absent" THEN "return" ELSE "lockShared")
    /\ data' = [data EXCEPT ![p] = Absent]
    /\ UNCHANGED <<file, flock, method, ready, ids, ops, deaths, given, wanted>>

\* OpenForReadingAndWriting(), the open: kReuseOrFail, kCreateOrFail and
\* kReuseOrCreate, one after the other while Initialize() has no file yet.
OpenForReadingAndWriting(p) ==
    /\ \/ /\ point[p] = "reuse"
          /\ StepTo(p, IF file.st = "absent" THEN "create" ELSE "lock")
          /\ UNCHANGED file
       \/ /\ point[p] = "create"
          /\ StepTo(p, IF file.st = "absent" THEN "lock" ELSE "reuseOrCreate")
          /\ file' = IF file.st = "absent" THEN Torn ELSE file
       \/ /\ point[p] = "reuseOrCreate"
          /\ StepTo(p, "lock")
          /\ file' = IF file.st = "absent" THEN Torn ELSE file
    /\ UNCHANGED <<flock, method, data, ready, ids, ops, deaths, given, wanted>>

\* Mutant: whoever asks gets the lock.
LoggingLockFileMutant(p) ==
    /\ point[p] \in {"lock", "lockShared"}
    /\ flock' = [flock EXCEPT ![p] = IF point[p] = "lock" THEN "exclusive" ELSE "shared"]
    /\ StepTo(p, "read")
    /\ UNCHANGED <<file, method, data, ready, ids, ops, deaths, given, wanted>>

\* LoggingLockFile(), which blocks.
LoggingLockFile(p) ==
    /\ \/ /\ point[p] = "lockShared"
          /\ \A q \in Users : flock[q] # "exclusive"
          /\ flock' = [flock EXCEPT ![p] = "shared"]
       \/ /\ point[p] = "lock"
          /\ \A q \in Users : flock[q] = "none"
          /\ flock' = [flock EXCEPT ![p] = "exclusive"]
    /\ StepTo(p, "read")
    /\ UNCHANGED <<file, method, data, ready, ids, ops, deaths, given, wanted>>

\* What p has read, changed as a setter changes it.
Changed(p) ==
    CASE method[p] = "SetUploadsEnabled"        -> {[file EXCEPT !.enabled = b] : b \in BOOLEAN}
      [] method[p] = "SetLastUploadAttemptTime" -> {[file EXCEPT !.time = t] : t \in {0, 1}}
      [] OTHER                                  -> {file}

\* ReadSettings() succeeds: the caller has what it wants.
ReadSettings(p) ==
    /\ point[p] = "read"
    /\ file.st = "valid"
    /\ data' \in {[data EXCEPT ![p] = d] : d \in Changed(p)}
    /\ StepTo(p, IF method[p] \in Setters THEN "truncate" ELSE "return")
    /\ UNCHANGED <<file, flock, method, ready, ids, ops, deaths, given, wanted>>

\* Mutant: the shared lock is kept while the exclusive one is waited for.
ReopenMutant(p) ==
    /\ point[p] = "read"
    /\ file.st # "valid"
    /\ flock[p] = "shared"
    /\ StepTo(p, "reuseOrCreate")
    /\ UNCHANGED <<file, flock, method, data, ready, ids, ops, deaths, given, wanted>>

\* OpenAndReadSettings() cannot read: RecoverSettings() opens the file again.
Reopen(p) ==
    /\ point[p] = "read"
    /\ file.st # "valid"
    /\ flock[p] = "shared"
    /\ flock' = [flock EXCEPT ![p] = "none"]
    /\ StepTo(p, "reuseOrCreate")
    /\ UNCHANGED <<file, method, data, ready, ids, ops, deaths, given, wanted>>

\* InitializeSettings(), under the exclusive lock: a new client id is made.
InitializeSettings(p) ==
    /\ point[p] = "read"
    /\ file.st # "valid"
    /\ flock[p] = "exclusive"
    /\ ids' = ids + 1
    /\ data' = [data EXCEPT ![p] = Fresh(ids + 1)]
    /\ StepTo(p, "initTruncate")
    /\ UNCHANGED <<file, flock, method, ready, ops, deaths, given, wanted>>

\* WriteSettings(), the truncation.
TruncateSettings(p) ==
    /\ point[p] \in {"truncate", "initTruncate"}
    /\ file' = Torn
    /\ StepTo(p, IF point[p] = "truncate" THEN "write" ELSE "initWrite")
    /\ UNCHANGED <<flock, method, data, ready, ids, ops, deaths, given, wanted>>

\* WriteSettings(), the write.  RecoverSettings() then reads what was written.
WriteSettings(p) ==
    /\ point[p] \in {"write", "initWrite"}
    /\ file' = data[p]
    /\ wanted' = CASE method[p] = "SetUploadsEnabled" /\ point[p] = "write" ->
                        [wanted EXCEPT !.enabled = data[p].enabled]
                   [] method[p] = "SetLastUploadAttemptTime" /\ point[p] = "write" ->
                        [wanted EXCEPT !.time = data[p].time]
                   [] OTHER -> wanted
    /\ StepTo(p, IF point[p] = "write" THEN "return" ELSE "read")
    /\ UNCHANGED <<flock, method, data, ready, ids, ops, deaths, given>>

\* The handle is destroyed, which unlocks the file, and the method returns.
Return(p) ==
    /\ point[p] = "return"
    /\ flock' = [flock EXCEPT ![p] = "none"]
    /\ ready' = [ready EXCEPT ![p] = TRUE]
    /\ given' = IF method[p] = "GetClientID" /\ data[p].st = "valid"
                  THEN given \cup {data[p].id} ELSE given
    /\ StepTo(p, "idle")
    /\ UNCHANGED <<file, method, data, ids, ops, deaths, wanted>>

\* p's process dies, and a new one takes its place.
Die(p) ==
    /\ deaths < MaxDeaths
    /\ point[p] # "idle"
    /\ deaths' = deaths + 1
    /\ flock' = [flock EXCEPT ![p] = "none"]
    /\ ready' = [ready EXCEPT ![p] = FALSE]
    /\ StepTo(p, "idle")
    /\ UNCHANGED <<file, method, data, ids, ops, given, wanted>>

----------------------------------------------------------------------------
Step(p) ==
    \/ OpenForReading(p) \/ OpenForReadingAndWriting(p) \/ LoggingLockFile(p)
    \/ ReadSettings(p) \/ Reopen(p) \/ InitializeSettings(p)
    \/ TruncateSettings(p) \/ WriteSettings(p) \/ Return(p)

SettingsNext ==
    \E p \in Users :
      \/ \E o \in {"Initialize"} \cup Setters \cup Getters : BeginMethod(p, o)
      \/ Step(p)
      \/ Die(p)

SettingsSpec == SettingsInit /\ [][SettingsNext]_settingsVars

\* The scheduler runs every process, and flock() gives a free lock to a waiter.
SettingsFairness == \A p \in Users : WF_settingsVars(Step(p))

----------------------------------------------------------------------------
(***************************************************************************)
(* Properties.                                                             *)
(***************************************************************************)

\* "The immutable identifier for this client": whoever asks is told the same
\* client id.
ClientIDImmutable == \A i, j \in given : i = j

\* So it is as long as no process has died, however the creation of the file, its
\* recovery and the reads and writes of several processes interleave.
OneClientID == deaths = 0 => ClientIDImmutable

\* No update is lost while no process has died: whenever nobody is changing the
\* file, it holds what was set last, although a setter writes all of the settings.
SettingsKept ==
    deaths = 0 /\ file.st = "valid" /\ (\A p \in Users : flock[p] # "exclusive") =>
      [enabled |-> file.enabled, time |-> file.time] = wanted

\* Every method returns: nobody waits for a lock that stays taken.
MethodsReturn == \A p \in Users : point[p] # "idle" ~> point[p] = "idle"
=============================================================================
