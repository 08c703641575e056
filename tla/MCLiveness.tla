----------------------------- MODULE MCLiveness -----------------------------
(***************************************************************************)
(* What has to happen in the end: the lock files of dead processes are     *)
(* reclaimed, the worker thread works and stops, and the methods of the    *)
(* settings return.  A behaviour is one of the database, of the worker     *)
(* thread or of the settings file; the fairness of the others is about     *)
(* actions that their initial states do not enable.                        *)
(***************************************************************************)
EXTENDS MCDatabase, WorkerThread, Settings

CONSTANT main

VARIABLE active

LiveInit ==
    /\ active \in {"database", "worker", "settings"}
    /\ Init
    /\ WorkerInit
    /\ SettingsInit
    /\ active = "settings" \/ file = Absent

LiveNext ==
    /\ UNCHANGED active
    /\ \/ active = "database" /\ Next /\ UNCHANGED <<workerVars, settingsVars>>
       \/ active = "worker" /\ WorkerNext /\ UNCHANGED <<vars, settingsVars>>
       \/ active = "settings" /\ SettingsNext /\ UNCHANGED <<vars, workerVars>>

LiveSpec ==
    /\ LiveInit /\ [][LiveNext]_<<active, vars, workerVars, settingsVars>>
    /\ Fairness /\ WorkerFairness /\ SettingsFairness
=============================================================================
