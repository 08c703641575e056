------------------------------ MODULE MCPrune ------------------------------
(***************************************************************************)
(* The instances of PruneCrashReports that TLC checks.                     *)
(***************************************************************************)
EXTENDS PruneCrashReports

CONSTANTS r1, r2, r3
=============================================================================
