---------------------------- MODULE MCCrashLoop -----------------------------
(* Model-checking instance of CrashLoopDetection on its own. *)
EXTENDS CrashLoopDetection
=============================================================================
