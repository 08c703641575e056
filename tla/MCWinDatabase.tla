--------------------------- MODULE MCWinDatabase ---------------------------
(* The instance of WinDatabase that shows what cleaning does to attachments. *)
EXTENDS WinDatabase
=============================================================================
