--------------------------- MODULE MCLinuxCapture ---------------------------
(* Model-checking instances of LinuxCapture. *)
EXTENDS LinuxCapture, TLC

CONSTANTS p1, t1, t2

OneProcess == t1 :> p1 @@ t2 :> p1
FirstThread == p1 :> t1
=============================================================================
