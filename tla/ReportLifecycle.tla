-------------------------- MODULE ReportLifecycle --------------------------
(***************************************************************************)
(* What a crash report database promises its clients (the comment on class *)
(* CrashReportDatabase in client/crash_report_database.h): a report is     *)
(* new, then pending, then completed; a user may bring a completed report  *)
(* back to pending, but not one that was recorded as uploaded.             *)
(***************************************************************************)
CONSTANT Reports

VARIABLES
    stage,   \* stage[u]: where report u is in its life
    uploaded \* the reports recorded as uploaded

vars == <<stage, uploaded>>

Init ==
    /\ stage = [u \in Reports |-> "unborn"]
    /\ uploaded = {}

\* The stages that may follow each stage.
Follows(a, b) ==
    <<a, b>> \in {<<"unborn", "new">>, <<"new", "dropped">>, <<"new", "pending">>,
                  <<"pending", "completed">>, <<"pending", "gone">>,
                  <<"completed", "pending">>, <<"completed", "gone">>}

\* A report goes on to another stage; an uploaded one only to its removal.
Move(u, b) ==
    /\ Follows(stage[u], b)
    /\ u \in uploaded => b = "gone"
    /\ stage' = [stage EXCEPT ![u] = b]
    /\ uploaded' = uploaded \ {u}

\* A completed report is recorded as uploaded, for good.
RecordUploaded(u) ==
    /\ stage[u] = "completed"
    /\ uploaded' = uploaded \cup {u}
    /\ UNCHANGED stage

Next ==
    \E u \in Reports :
      \/ \E b \in {"new", "pending", "completed", "dropped", "gone"} : Move(u, b)
      \/ RecordUploaded(u)

Spec == Init /\ [][Next]_vars
=============================================================================
