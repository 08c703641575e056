--------------------------- MODULE MCUploadThread ---------------------------
(***************************************************************************)
(* The instances of CrashReportUploadThread that TLC checks.               *)
(***************************************************************************)
EXTENDS CrashReportUploadThread

CONSTANTS h1, h2, r1, r2

\* Everything but a clock that is set back and failing calls.
CalmEvents == {"request", "enable", "lock"}
\* Whatever may happen.
AllEvents == {"request", "enable", "lock", "clock", "settings", "database"}
=============================================================================
