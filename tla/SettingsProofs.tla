--------------------------- MODULE SettingsProofs ---------------------------
(***************************************************************************)
(* Proofs about Settings, for any number of processes and of operations.   *)
(***************************************************************************)
EXTENDS Settings, TLAPS

\* The steps that are taken without a lock, and those under the exclusive one.
Unlocked == {"idle", "openRead", "reuse", "create", "reuseOrCreate", "lockShared", "lock"}
Writing == {"initTruncate", "initWrite", "truncate", "write"}

\* flock() protects: where p is tells which lock it has, and an exclusive lock
\* excludes all others.
LockedSteps ==
    \A p \in Users :
      /\ point[p] \in Unlocked => flock[p] = "none"
      /\ point[p] = "read" => flock[p] \in {"shared", "exclusive"}
      /\ point[p] \in Writing => flock[p] = "exclusive"
      /\ point[p] \in {"openRead", "lockShared"} \/ flock[p] = "shared" => method[p] \in Getters

Exclusive ==
    \A p, q \in Users : p # q /\ flock[p] = "exclusive" => flock[q] = "none"

\* Only one client id is ever made: it is the one of the file, of what is about
\* to be written, and of what is about to be returned.
OneID ==
    /\ file.st = "valid" => file.id = ids /\ ids >= 1
    /\ \A p \in Users : point[p] \in Writing => data[p].st = "valid" /\ data[p].id = ids /\ ids >= 1
    /\ \A p \in Users : point[p] = "return" /\ data[p].st = "valid" => data[p].id = ids /\ ids >= 1
    /\ \A i \in given : i = ids /\ ids >= 1

\* Once it has been made, the file is invalid only while it is being written.
BeingWritten ==
    file.st # "valid" /\ ids # 0 =>
      \E p \in Users : point[p] \in {"initTruncate", "initWrite", "write"}

\* Every client id that is about has been made.
MadeIDs ==
    /\ file.st = "valid" => file.id \in 1..ids
    /\ \A p \in Users : data[p].st = "valid" => data[p].id \in 1..ids

TypeInv == SettingsTypeOK /\ MadeIDs
IDInv == TypeInv /\ LockedSteps /\ Exclusive /\ OneID /\ BeingWritten

\* What a setter makes of the file is the file with one setting changed.
LEMMA ChangedFile ==
    ASSUME SettingsTypeOK, NEW p \in Users, NEW d \in Changed(p)
    PROVE  /\ d \in Data
           /\ d.st = file.st
           /\ d.id = file.id
           /\ method[p] # "SetUploadsEnabled" => d.enabled = file.enabled
           /\ method[p] # "SetLastUploadAttemptTime" => d.time = file.time
<1>1. CASE method[p] = "SetUploadsEnabled"
  <2>1. PICK b \in BOOLEAN : d = [file EXCEPT !.enabled = b]
    BY <1>1 DEF Changed
  <2> QED
    BY <1>1, <2>1 DEF SettingsTypeOK, Data
<1>2. CASE method[p] = "SetLastUploadAttemptTime"
  <2>1. PICK t \in {0, 1} : d = [file EXCEPT !.time = t]
    BY <1>2 DEF Changed
  <2> QED
    BY <1>2, <2>1 DEF SettingsTypeOK, Data
<1>3. CASE method[p] \notin {"SetUploadsEnabled", "SetLastUploadAttemptTime"}
  <2>1. d = file
    BY <1>3 DEF Changed
  <2> QED
    BY <1>3, <2>1 DEF SettingsTypeOK
<1> QED
  BY <1>1, <1>2, <1>3

\* The initial states satisfy the invariant.
LEMMA IDInit == SettingsInit => IDInv
<1> SUFFICES ASSUME SettingsInit PROVE IDInv
  OBVIOUS
<1>1. SettingsTypeOK
  <2>1. Absent \in Data /\ Torn \in Data
    BY DEF Absent, Torn, Data
  <2> QED
    BY <2>1, SettingsAssumption DEF SettingsInit, SettingsTypeOK
<1>2. LockedSteps /\ Exclusive
  BY DEF SettingsInit, LockedSteps, Exclusive, Unlocked, Writing
<1>3. file.st # "valid"
  BY DEF SettingsInit, Absent, Torn
<1>4. OneID /\ BeingWritten
  BY <1>3 DEF SettingsInit, OneID, BeingWritten, Writing
<1>5. MadeIDs
  BY <1>3 DEF SettingsInit, MadeIDs, Absent
<1> QED
  BY <1>1, <1>2, <1>4, <1>5 DEF IDInv, TypeInv

\* Types are preserved, ...
LEMMA SettingsTypeNext == TypeInv /\ [SettingsNext]_settingsVars => SettingsTypeOK'
<1> SUFFICES ASSUME SettingsTypeOK, MadeIDs, [SettingsNext]_settingsVars PROVE SettingsTypeOK'
  BY DEF TypeInv
<1>0. Torn \in Data /\ Absent \in Data /\ (\A i \in Nat : Fresh(i) \in Data)
  BY DEF Torn, Absent, Fresh, Data
<1>1. CASE UNCHANGED settingsVars
  BY <1>1 DEF settingsVars, SettingsTypeOK
<1>2. ASSUME NEW p \in Users, NEW o \in {"Initialize"} \cup Setters \cup Getters, BeginMethod(p, o)
      PROVE  SettingsTypeOK'
  <2>1. point' \in
          [Users -> {"idle", "openRead", "reuse", "create", "reuseOrCreate", "lockShared", "lock",
                     "read", "initTruncate", "initWrite", "truncate", "write", "return"}]
    BY <1>2 DEF BeginMethod, StepTo, SettingsTypeOK, Setters, Getters
  <2>2. ops' \in 0..MaxOps
    BY <1>2, SettingsAssumption DEF BeginMethod, SettingsTypeOK
  <2> QED
    BY <1>2, <2>1, <2>2 DEF BeginMethod, SettingsTypeOK
<1>3. ASSUME NEW p \in Users, OpenForReading(p) PROVE SettingsTypeOK'
  BY <1>0, <1>3 DEF OpenForReading, StepTo, SettingsTypeOK
<1>4. ASSUME NEW p \in Users, OpenForReadingAndWriting(p) PROVE SettingsTypeOK'
  <2>1. file' \in Data
    BY <1>0, <1>4 DEF OpenForReadingAndWriting, SettingsTypeOK
  <2> QED
    BY <2>1, <1>4 DEF OpenForReadingAndWriting, StepTo, SettingsTypeOK
<1>5. ASSUME NEW p \in Users, LoggingLockFile(p) PROVE SettingsTypeOK'
  BY <1>5 DEF LoggingLockFile, StepTo, SettingsTypeOK
<1>6. ASSUME NEW p \in Users, ReadSettings(p) PROVE SettingsTypeOK'
  <2>1. PICK d \in Changed(p) : data' = [data EXCEPT ![p] = d]
    BY <1>6 DEF ReadSettings
  <2>2. d \in Data
    BY ChangedFile
  <2> QED
    BY <1>6, <2>1, <2>2 DEF ReadSettings, StepTo, SettingsTypeOK
<1>7. ASSUME NEW p \in Users, Reopen(p) PROVE SettingsTypeOK'
  BY <1>7 DEF Reopen, StepTo, SettingsTypeOK
<1>8. ASSUME NEW p \in Users, InitializeSettings(p) PROVE SettingsTypeOK'
  <2>1. ids' \in Nat /\ given' \subseteq 1..ids' /\ data' \in [Users -> Data]
    BY <1>0, <1>8 DEF InitializeSettings, SettingsTypeOK
  <2> QED
    BY <2>1, <1>8 DEF InitializeSettings, StepTo, SettingsTypeOK
<1>9. ASSUME NEW p \in Users, TruncateSettings(p) PROVE SettingsTypeOK'
  BY <1>0, <1>9 DEF TruncateSettings, StepTo, SettingsTypeOK
<1>10. ASSUME NEW p \in Users, WriteSettings(p) PROVE SettingsTypeOK'
  <2>1. wanted' \in [enabled : BOOLEAN, time : {0, 1}]
    BY <1>10 DEF WriteSettings, SettingsTypeOK, Data
  <2> QED
    BY <1>10, <2>1 DEF WriteSettings, StepTo, SettingsTypeOK
<1>11. ASSUME NEW p \in Users, Return(p) PROVE SettingsTypeOK'
  <2>1. given' \subseteq 1..ids
    BY <1>11 DEF Return, SettingsTypeOK, MadeIDs
  <2> QED
    BY <2>1, <1>11 DEF Return, StepTo, SettingsTypeOK
<1>12. ASSUME NEW p \in Users, Die(p) PROVE SettingsTypeOK'
  <2>1. deaths' \in 0..MaxDeaths
    BY <1>12, SettingsAssumption DEF Die, SettingsTypeOK
  <2> QED
    BY <1>12, <2>1 DEF Die, StepTo, SettingsTypeOK
<1> QED
  BY <1>1, <1>2, <1>3, <1>4, <1>5, <1>6, <1>7, <1>8, <1>9, <1>10, <1>11, <1>12
     DEF SettingsNext, Step

\* ... and no client id comes from nowhere.
LEMMA MadeNext == TypeInv /\ [SettingsNext]_settingsVars => MadeIDs'
<1> SUFFICES ASSUME SettingsTypeOK, MadeIDs, [SettingsNext]_settingsVars PROVE MadeIDs'
  BY DEF TypeInv
<1>0. Torn.st # "valid" /\ Absent.st # "valid"
  BY DEF Torn, Absent
<1>1. CASE UNCHANGED <<file, data, ids>>
  BY <1>1 DEF MadeIDs
<1>2. ASSUME NEW p \in Users, OpenForReading(p) PROVE MadeIDs'
  BY <1>0, <1>2 DEF OpenForReading, MadeIDs, SettingsTypeOK
<1>3. ASSUME NEW p \in Users, OpenForReadingAndWriting(p) PROVE MadeIDs'
  BY <1>0, <1>3 DEF OpenForReadingAndWriting, MadeIDs
<1>4. ASSUME NEW p \in Users, ReadSettings(p) PROVE MadeIDs'
  <2>1. PICK d \in Changed(p) : data' = [data EXCEPT ![p] = d]
    BY <1>4 DEF ReadSettings
  <2>2. d.st = file.st /\ d.id = file.id
    BY ChangedFile
  <2> QED
    BY <1>4, <2>1, <2>2 DEF ReadSettings, MadeIDs, SettingsTypeOK
<1>5. ASSUME NEW p \in Users, InitializeSettings(p) PROVE MadeIDs'
  <2>1. Fresh(ids + 1).id = ids + 1
    BY DEF Fresh
  <2>2. 1..ids \subseteq 1..ids' /\ ids + 1 \in 1..ids'
    BY <1>5 DEF InitializeSettings, SettingsTypeOK
  <2> QED
    BY <1>5, <2>1, <2>2 DEF InitializeSettings, MadeIDs, SettingsTypeOK
<1>6. ASSUME NEW p \in Users, TruncateSettings(p) PROVE MadeIDs'
  BY <1>0, <1>6 DEF TruncateSettings, MadeIDs
<1>7. ASSUME NEW p \in Users, WriteSettings(p) PROVE MadeIDs'
  BY <1>7 DEF WriteSettings, MadeIDs
<1> QED
  BY <1>1, <1>2, <1>3, <1>4, <1>5, <1>6, <1>7
  DEF SettingsNext, Step, settingsVars, BeginMethod, LoggingLockFile, Reopen, Return, Die

\* Type correctness, also when processes die.
THEOREM SettingsTypeCorrect == SettingsSpec => []SettingsTypeOK
<1>1. SettingsInit => TypeInv
  BY IDInit DEF IDInv
<1>2. TypeInv /\ [SettingsNext]_settingsVars => TypeInv'
  BY SettingsTypeNext, MadeNext DEF TypeInv
<1>3. TypeInv => SettingsTypeOK
  BY DEF TypeInv
<1> QED
  BY <1>1, <1>2, <1>3, PTL DEF SettingsSpec

----------------------------------------------------------------------------
\* flock() goes on protecting.
LEMMA SettingsLockNext ==
    SettingsTypeOK /\ LockedSteps /\ Exclusive /\ [SettingsNext]_settingsVars
      => LockedSteps' /\ Exclusive'
<1> SUFFICES ASSUME SettingsTypeOK, LockedSteps, Exclusive, [SettingsNext]_settingsVars
             PROVE  LockedSteps' /\ Exclusive'
  OBVIOUS
<1> USE DEF LockedSteps, Exclusive, SettingsTypeOK, Unlocked, Writing, StepTo
<1>1. CASE UNCHANGED settingsVars
  BY <1>1 DEF settingsVars
<1>2. ASSUME NEW p \in Users, NEW o \in {"Initialize"} \cup Setters \cup Getters, BeginMethod(p, o)
      PROVE  LockedSteps' /\ Exclusive'
  BY <1>2 DEF BeginMethod, Getters, Setters
<1>3. ASSUME NEW p \in Users, OpenForReading(p) PROVE LockedSteps' /\ Exclusive'
  BY <1>3 DEF OpenForReading
<1>4. ASSUME NEW p \in Users, OpenForReadingAndWriting(p) PROVE LockedSteps' /\ Exclusive'
  BY <1>4 DEF OpenForReadingAndWriting
<1>5. ASSUME NEW p \in Users, LoggingLockFile(p) PROVE LockedSteps' /\ Exclusive'
  BY <1>5 DEF LoggingLockFile
<1>6. ASSUME NEW p \in Users, ReadSettings(p) PROVE LockedSteps' /\ Exclusive'
  <2>1. CASE method[p] \in Setters
    BY <1>6, <2>1 DEF ReadSettings, Setters, Getters
  <2>2. CASE method[p] \notin Setters
    BY <1>6, <2>2 DEF ReadSettings
  <2> QED
    BY <2>1, <2>2
<1>7. ASSUME NEW p \in Users, Reopen(p) PROVE LockedSteps' /\ Exclusive'
  BY <1>7 DEF Reopen
<1>8. ASSUME NEW p \in Users, InitializeSettings(p) PROVE LockedSteps' /\ Exclusive'
  BY <1>8 DEF InitializeSettings
<1>9. ASSUME NEW p \in Users, TruncateSettings(p) PROVE LockedSteps' /\ Exclusive'
  BY <1>9 DEF TruncateSettings
<1>10. ASSUME NEW p \in Users, WriteSettings(p) PROVE LockedSteps' /\ Exclusive'
  BY <1>10 DEF WriteSettings
<1>11. ASSUME NEW p \in Users, Return(p) PROVE LockedSteps' /\ Exclusive'
  BY <1>11 DEF Return
<1>12. ASSUME NEW p \in Users, Die(p) PROVE LockedSteps' /\ Exclusive'
  BY <1>12 DEF Die
<1> QED
  BY <1>1, <1>2, <1>3, <1>4, <1>5, <1>6, <1>7, <1>8, <1>9, <1>10, <1>11, <1>12
     DEF SettingsNext, Step

\* While nobody dies, a second client id is never made: whoever finds the file
\* invalid under the exclusive lock is the first to find it.
LEMMA OneIDNext == IDInv /\ [SettingsNext]_settingsVars /\ deaths' = 0 => OneID' /\ BeingWritten'
<1> SUFFICES ASSUME IDInv, [SettingsNext]_settingsVars, deaths' = 0 PROVE OneID' /\ BeingWritten'
  OBVIOUS
<1>0. SettingsTypeOK /\ LockedSteps /\ Exclusive /\ OneID /\ BeingWritten
  BY DEF IDInv, TypeInv
<1>t. Torn.st # "valid" /\ Absent.st # "valid"
  BY DEF Torn, Absent
<1>1. CASE UNCHANGED settingsVars
  BY <1>0, <1>1 DEF settingsVars, OneID, BeingWritten
<1>2. ASSUME NEW p \in Users, NEW o \in {"Initialize"} \cup Setters \cup Getters, BeginMethod(p, o)
      PROVE  OneID' /\ BeingWritten'
  <2>1. \A q \in Users : point'[q] # point[q] => point[q] = "idle" /\ point'[q] \in Unlocked
    BY <1>0, <1>2 DEF BeginMethod, StepTo, SettingsTypeOK, Unlocked
  <2> QED
    BY <1>0, <1>2, <2>1 DEF BeginMethod, OneID, BeingWritten, Writing, Unlocked
<1>3. ASSUME NEW p \in Users, OpenForReading(p) PROVE OneID' /\ BeingWritten'
  BY <1>0, <1>t, <1>3 DEF OpenForReading, StepTo, SettingsTypeOK, OneID, BeingWritten, Writing
<1>4. ASSUME NEW p \in Users, OpenForReadingAndWriting(p) PROVE OneID' /\ BeingWritten'
  <2>1. file' = file \/ (file.st # "valid" /\ file'.st # "valid")
    BY <1>t, <1>4 DEF OpenForReadingAndWriting
  <2>2. \A q \in Users : point'[q] # point[q] => point[q] \in Unlocked /\ point'[q] \in Unlocked
    BY <1>0, <1>4 DEF OpenForReadingAndWriting, StepTo, SettingsTypeOK, Unlocked
  <2>3. UNCHANGED <<data, ids, given>>
    BY <1>4 DEF OpenForReadingAndWriting
  <2> QED
    BY <1>0, <2>1, <2>2, <2>3 DEF OneID, BeingWritten, Writing, Unlocked
<1>5. ASSUME NEW p \in Users, LoggingLockFile(p) PROVE OneID' /\ BeingWritten'
  <2>1. point[p] \in {"lock", "lockShared"} /\ point' = [point EXCEPT ![p] = "read"]
    BY <1>5 DEF LoggingLockFile, StepTo
  <2>2. UNCHANGED <<file, data, ids, given>>
    BY <1>5 DEF LoggingLockFile
  <2> QED
    BY <1>0, <2>1, <2>2 DEF SettingsTypeOK, OneID, BeingWritten, Writing
<1>6. ASSUME NEW p \in Users, ReadSettings(p) PROVE OneID' /\ BeingWritten'
  <2>1. PICK d \in Changed(p) : data' = [data EXCEPT ![p] = d]
    BY <1>6 DEF ReadSettings
  <2>2. d.st = file.st /\ d.id = file.id
    BY <1>0, ChangedFile
  <2>3. point[p] = "read" /\ file.st = "valid" /\ UNCHANGED <<file, ids, given>>
    BY <1>6 DEF ReadSettings
  <2>4. \E l \in {"truncate", "return"} : point' = [point EXCEPT ![p] = l]
    BY <1>6 DEF ReadSettings, StepTo
  <2> QED
    BY <1>0, <2>1, <2>2, <2>3, <2>4 DEF SettingsTypeOK, OneID, BeingWritten, Writing
<1>7. ASSUME NEW p \in Users, Reopen(p) PROVE OneID' /\ BeingWritten'
  BY <1>0, <1>7 DEF Reopen, StepTo, SettingsTypeOK, OneID, BeingWritten, Writing
<1>8. ASSUME NEW p \in Users, InitializeSettings(p) PROVE OneID' /\ BeingWritten'
  <2>1. ids = 0
    BY <1>0, <1>8 DEF InitializeSettings, SettingsTypeOK, BeingWritten, LockedSteps, Exclusive,
       Writing
  <2>2. /\ given = {}
        /\ \A q \in Users :
             point[q] \notin Writing /\ (point[q] = "return" => data[q].st # "valid")
    BY <1>0, <2>1 DEF OneID
  <2>3. ids' = 1 /\ data' = [data EXCEPT ![p] = Fresh(1)] /\ UNCHANGED <<file, given>>
    BY <1>8, <2>1 DEF InitializeSettings
  <2>4. point' = [point EXCEPT ![p] = "initTruncate"] /\ file.st # "valid"
    BY <1>8 DEF InitializeSettings, StepTo
  <2>5. Fresh(1).st = "valid" /\ Fresh(1).id = 1
    BY DEF Fresh
  <2>6. OneID'
    BY <1>0, <2>2, <2>3, <2>4, <2>5 DEF SettingsTypeOK, OneID
  <2>7. BeingWritten'
    BY <1>0, <2>4 DEF SettingsTypeOK, BeingWritten
  <2> QED
    BY <2>6, <2>7
<1>9. ASSUME NEW p \in Users, TruncateSettings(p) PROVE OneID' /\ BeingWritten'
  <2>1. /\ point[p] \in {"truncate", "initTruncate"}
        /\ file'.st # "valid"
        /\ UNCHANGED <<data, ids, given>>
    BY <1>t, <1>9 DEF TruncateSettings
  <2>2. \E l \in {"write", "initWrite"} : point' = [point EXCEPT ![p] = l]
    BY <1>9 DEF TruncateSettings, StepTo
  <2> QED
    BY <1>0, <2>1, <2>2 DEF SettingsTypeOK, OneID, BeingWritten, Writing
<1>10. ASSUME NEW p \in Users, WriteSettings(p) PROVE OneID' /\ BeingWritten'
  <2>1. point[p] \in {"write", "initWrite"} /\ file' = data[p] /\ UNCHANGED <<data, ids, given>>
    BY <1>10 DEF WriteSettings
  <2>2. \E l \in {"return", "read"} : point' = [point EXCEPT ![p] = l]
    BY <1>10 DEF WriteSettings, StepTo
  <2> QED
    BY <1>0, <2>1, <2>2 DEF SettingsTypeOK, OneID, BeingWritten, Writing
<1>11. ASSUME NEW p \in Users, Return(p) PROVE OneID' /\ BeingWritten'
  <2>1. /\ point[p] = "return"
        /\ point' = [point EXCEPT ![p] = "idle"]
        /\ UNCHANGED <<file, data, ids>>
    BY <1>11 DEF Return, StepTo
  <2>2. \A i \in given' : i \in given \/ (i = data[p].id /\ data[p].st = "valid")
    BY <1>11 DEF Return
  <2> QED
    BY <1>0, <2>1, <2>2 DEF SettingsTypeOK, OneID, BeingWritten, Writing
<1>12. ASSUME NEW p \in Users, Die(p) PROVE FALSE
  BY <1>0, <1>12 DEF Die, SettingsTypeOK
<1> QED
  BY <1>1, <1>2, <1>3, <1>4, <1>5, <1>6, <1>7, <1>8, <1>9, <1>10, <1>11, <1>12
     DEF SettingsNext, Step

\* A step after which no process has died began when none had.
LEMMA NobodyDied == SettingsTypeOK /\ [SettingsNext]_settingsVars /\ deaths' = 0 => deaths = 0
<1> SUFFICES ASSUME SettingsTypeOK, [SettingsNext]_settingsVars, deaths' = 0, deaths # 0 PROVE FALSE
  OBVIOUS
<1>1. deaths' = deaths \/ deaths' = deaths + 1
  BY DEF SettingsNext, settingsVars, Step, BeginMethod, OpenForReading,
         OpenForReadingAndWriting, LoggingLockFile, ReadSettings, Reopen,
         InitializeSettings, TruncateSettings, WriteSettings, Return, Die
<1>2. deaths \in Nat
  BY SettingsAssumption DEF SettingsTypeOK
<1> QED
  BY <1>1, <1>2

\* While nobody has died, the client id is immutable.
THEOREM ClientIDStable == SettingsSpec => []OneClientID
<1> DEFINE J == TypeInv /\ (deaths = 0 => IDInv)
<1>1. SettingsInit => J
  BY IDInit DEF IDInv
<1>2. J /\ [SettingsNext]_settingsVars => J'
  <2> SUFFICES ASSUME J, [SettingsNext]_settingsVars PROVE J'
    OBVIOUS
  <2>1. TypeInv'
    BY SettingsTypeNext, MadeNext DEF TypeInv
  <2>2. ASSUME deaths' = 0 PROVE IDInv'
    <3>1. IDInv
      BY <2>2, NobodyDied DEF TypeInv
    <3> QED
      BY <3>1, <2>1, <2>2, SettingsLockNext, OneIDNext DEF IDInv, TypeInv
  <2> QED
    BY <2>1, <2>2
<1>3. J => OneClientID
  BY DEF IDInv, OneID, OneClientID, ClientIDImmutable
<1> HIDE DEF J
<1> QED
  BY <1>1, <1>2, <1>3, PTL DEF SettingsSpec

----------------------------------------------------------------------------
\* The file holds what was set last, and so does, but for the setting that is
\* being set, what is about to be written.
Holds(d, o) ==
    /\ o # "SetUploadsEnabled" => d.enabled = wanted.enabled
    /\ o # "SetLastUploadAttemptTime" => d.time = wanted.time

KeptInv ==
    /\ file.st = "valid" => Holds(file, "none")
    /\ ids = 0 => ~wanted.enabled /\ wanted.time = 0
    /\ \A p \in Users : point[p] \in {"truncate", "write"} => Holds(data[p], method[p])
    /\ \A p \in Users : point[p] \in {"initTruncate", "initWrite"} => Holds(data[p], "none")

\* The invariant holds at first.
LEMMA KeptInit == SettingsInit => KeptInv
<1> SUFFICES ASSUME SettingsInit PROVE KeptInv
  OBVIOUS
<1>1. file.st # "valid"
  BY DEF SettingsInit, Absent, Torn
<1> QED
  BY <1>1 DEF SettingsInit, KeptInv

\* It is preserved: while a process writes, nobody else has a lock.
LEMMA KeptNext == IDInv /\ KeptInv /\ [SettingsNext]_settingsVars /\ deaths' = 0 => KeptInv'
<1> SUFFICES ASSUME IDInv, KeptInv, [SettingsNext]_settingsVars, deaths' = 0 PROVE KeptInv'
  OBVIOUS
<1>0. SettingsTypeOK /\ LockedSteps /\ Exclusive /\ OneID /\ BeingWritten
  BY DEF IDInv, TypeInv
<1>t. Torn.st # "valid" /\ Absent.st # "valid"
  BY DEF Torn, Absent
<1>1. CASE UNCHANGED settingsVars
  BY <1>0, <1>1 DEF settingsVars, KeptInv, Holds
<1>2. ASSUME NEW p \in Users, NEW o \in {"Initialize"} \cup Setters \cup Getters, BeginMethod(p, o)
      PROVE  KeptInv'
  <2>1. \A q \in Users : IF q = p THEN point'[q] \in Unlocked
                                  ELSE point'[q] = point[q] /\ method'[q] = method[q]
    BY <1>0, <1>2 DEF BeginMethod, StepTo, SettingsTypeOK, Unlocked
  <2>2. UNCHANGED <<file, data, ids, wanted>>
    BY <1>2 DEF BeginMethod
  <2> QED
    BY <2>1, <2>2 DEF KeptInv, Holds, Unlocked
<1>3. ASSUME NEW p \in Users, OpenForReading(p) PROVE KeptInv'
  BY <1>0, <1>3 DEF OpenForReading, StepTo, SettingsTypeOK, KeptInv, Holds
<1>4. ASSUME NEW p \in Users, OpenForReadingAndWriting(p) PROVE KeptInv'
  <2>1. file' = file \/ file'.st # "valid"
    BY <1>t, <1>4 DEF OpenForReadingAndWriting
  <2>2. \A q \in Users : IF q = p THEN point'[q] \in Unlocked ELSE point'[q] = point[q]
    BY <1>0, <1>4 DEF OpenForReadingAndWriting, StepTo, SettingsTypeOK, Unlocked
  <2>3. UNCHANGED <<method, data, ids, wanted>>
    BY <1>4 DEF OpenForReadingAndWriting
  <2> QED
    BY <2>1, <2>2, <2>3 DEF KeptInv, Holds, Unlocked
<1>5. ASSUME NEW p \in Users, LoggingLockFile(p) PROVE KeptInv'
  <2>1. point' = [point EXCEPT ![p] = "read"] /\ UNCHANGED <<file, method, data, ids, wanted>>
    BY <1>5 DEF LoggingLockFile, StepTo
  <2> QED
    BY <1>0, <2>1 DEF SettingsTypeOK, KeptInv, Holds
<1>6. ASSUME NEW p \in Users, ReadSettings(p) PROVE KeptInv'
  <2>1. PICK d \in Changed(p) : data' = [data EXCEPT ![p] = d]
    BY <1>6 DEF ReadSettings
  <2>2. /\ method[p] # "SetUploadsEnabled" => d.enabled = file.enabled
        /\ method[p] # "SetLastUploadAttemptTime" => d.time = file.time
    BY <1>0, ChangedFile
  <2>3. file.st = "valid" /\ UNCHANGED <<file, method, ids, wanted>>
    BY <1>6 DEF ReadSettings
  <2>4. \E l \in {"truncate", "return"} : point' = [point EXCEPT ![p] = l]
    BY <1>6 DEF ReadSettings, StepTo
  <2>5. Holds(d, method[p])
    BY <2>2, <2>3 DEF KeptInv, Holds
  <2> QED
    BY <1>0, <2>1, <2>3, <2>4, <2>5 DEF SettingsTypeOK, KeptInv, Holds
<1>7. ASSUME NEW p \in Users, Reopen(p) PROVE KeptInv'
  BY <1>0, <1>7 DEF Reopen, StepTo, SettingsTypeOK, KeptInv, Holds
<1>8. ASSUME NEW p \in Users, InitializeSettings(p) PROVE KeptInv'
  <2>1. ids = 0
    BY <1>0, <1>8 DEF InitializeSettings, SettingsTypeOK, BeingWritten, LockedSteps, Exclusive,
       Writing
  <2>2. ids' # 0 /\ data' = [data EXCEPT ![p] = Fresh(1)] /\ UNCHANGED <<file, method, wanted>>
    BY <1>8, <2>1 DEF InitializeSettings
  <2>3. point' = [point EXCEPT ![p] = "initTruncate"]
    BY <1>8 DEF InitializeSettings, StepTo
  <2>4. Holds(Fresh(1), "none")
    BY <1>0, <2>1 DEF Fresh, Holds, KeptInv, SettingsTypeOK
  <2> QED
    BY <1>0, <2>2, <2>3, <2>4 DEF SettingsTypeOK, KeptInv, Holds
<1>9. ASSUME NEW p \in Users, TruncateSettings(p) PROVE KeptInv'
  <2>1. file'.st # "valid" /\ UNCHANGED <<method, data, ids, wanted>>
    BY <1>t, <1>9 DEF TruncateSettings
  <2>2. \/ point[p] = "truncate" /\ point' = [point EXCEPT ![p] = "write"]
        \/ point[p] = "initTruncate" /\ point' = [point EXCEPT ![p] = "initWrite"]
    BY <1>9 DEF TruncateSettings, StepTo
  <2> QED
    BY <1>0, <2>1, <2>2 DEF SettingsTypeOK, KeptInv, Holds
<1>10. ASSUME NEW p \in Users, WriteSettings(p) PROVE KeptInv'
  <2>1. point[p] \in {"write", "initWrite"} /\ file' = data[p] /\ UNCHANGED <<method, data, ids>>
    BY <1>10 DEF WriteSettings
  <2>2. \A q \in Users : point'[q] \notin Writing
    BY <1>0, <1>10 DEF WriteSettings, StepTo, SettingsTypeOK, LockedSteps, Exclusive, Writing
  <2>3. ids # 0
    BY <1>0, <2>1 DEF OneID, Writing, SettingsTypeOK
  <2>4. CASE point[p] = "initWrite"
    <3>1. wanted' = wanted
      BY <1>10, <2>4 DEF WriteSettings
    <3> QED
      BY <2>1, <2>2, <2>3, <2>4, <3>1 DEF KeptInv, Holds, Writing
  <2>5. CASE point[p] = "write"
    <3>1. wanted'.enabled = data[p].enabled
      BY <1>0, <1>10, <2>5 DEF WriteSettings, KeptInv, Holds, SettingsTypeOK, Data
    <3>2. wanted'.time = data[p].time
      BY <1>0, <1>10, <2>5 DEF WriteSettings, KeptInv, Holds, SettingsTypeOK, Data
    <3> QED
      BY <2>1, <2>2, <2>3, <3>1, <3>2 DEF KeptInv, Holds, Writing
  <2> QED
    BY <2>1, <2>4, <2>5
<1>11. ASSUME NEW p \in Users, Return(p) PROVE KeptInv'
  <2>1. point' = [point EXCEPT ![p] = "idle"] /\ UNCHANGED <<file, method, data, ids, wanted>>
    BY <1>11 DEF Return, StepTo
  <2> QED
    BY <1>0, <2>1 DEF SettingsTypeOK, KeptInv, Holds
<1>12. ASSUME NEW p \in Users, Die(p) PROVE FALSE
  BY <1>0, <1>12 DEF Die, SettingsTypeOK
<1> QED
  BY <1>1, <1>2, <1>3, <1>4, <1>5, <1>6, <1>7, <1>8, <1>9, <1>10, <1>11, <1>12
     DEF SettingsNext, Step

\* While nobody has died, no setter undoes what another one has set.
THEOREM NoUpdateLost == SettingsSpec => []SettingsKept
<1> DEFINE J == TypeInv /\ (deaths = 0 => IDInv /\ KeptInv)
<1>1. SettingsInit => J
  BY IDInit, KeptInit DEF IDInv
<1>2. J /\ [SettingsNext]_settingsVars => J'
  <2> SUFFICES ASSUME J, [SettingsNext]_settingsVars PROVE J'
    OBVIOUS
  <2>1. TypeInv'
    BY SettingsTypeNext, MadeNext DEF TypeInv
  <2>2. ASSUME deaths' = 0 PROVE IDInv' /\ KeptInv'
    <3>1. IDInv /\ KeptInv
      BY <2>2, NobodyDied DEF TypeInv
    <3> QED
      BY <3>1, <2>1, <2>2, SettingsLockNext, OneIDNext, KeptNext DEF IDInv, TypeInv
  <2> QED
    BY <2>1, <2>2
<1>3. J => SettingsKept
  <2> SUFFICES ASSUME J, deaths = 0, file.st = "valid"
               PROVE  [enabled |-> file.enabled, time |-> file.time] = wanted
    BY DEF SettingsKept
  <2>1. wanted \in [enabled : BOOLEAN, time : {0, 1}]
    BY DEF TypeInv, SettingsTypeOK
  <2>2. file.enabled = wanted.enabled /\ file.time = wanted.time
    BY DEF KeptInv, Holds
  <2> QED
    BY <2>1, <2>2
<1> HIDE DEF J
<1> QED
  BY <1>1, <1>2, <1>3, PTL DEF SettingsSpec
=============================================================================
