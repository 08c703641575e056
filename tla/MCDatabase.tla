----------------------------- MODULE MCDatabase -----------------------------
(* Model-checking instances of CrashReportDatabase. *)
EXTENDS CrashReportDatabase

CONSTANTS p1, p2, p3, r1

\* Everything a client or the handler may call.
AllOps == DOMAIN Script \cup {"CleanNew"}

\* All of them but LookUp, whose calls are the first four of Upload.
ChangeOps == AllOps \ {"LookUp"}

\* Everything but the two operations that write without the report's lock.
LockedOps == AllOps \ {"Request", "Failure"}

\* No upload fails: the handler's own life cycle and the user's requests.
RequestOps == AllOps \ {"Failure"}

\* One life cycle, for liveness: enough for a lock to be left anywhere in it.
CycleOps == {"Finish", "LookUp", "Upload", "Success", "CleanLock", "CleanNew"}
=============================================================================
