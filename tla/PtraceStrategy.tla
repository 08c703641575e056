--------------------------- MODULE PtraceStrategy --------------------------
(***************************************************************************)
(* How handler/linux/exception_handler_server.cc decides to reach the      *)
(* memory of a client, from what it finds out about the system: Yama's     *)
(* ptrace scope, its own capability and the client's uid.                  *)
(***************************************************************************)
CONSTANT Scopes \* the ptrace scopes the handler may find

ASSUME ScopesAssumption ==
    Scopes \subseteq {"Classic", "Restricted", "AdminOnly", "NoAttach", "Unknown"}

\* ChooseStrategy(), up to the first message it may have to send to a client that
\* has the socket for itself: SetPtracer or ForkBroker.  valid: the pid is positive.
ChooseStrategy(scope, multiple_clients, valid, cap, sameUid) ==
    IF ~valid THEN "NoPtrace"
    ELSE CASE scope = "Classic" -> IF sameUid \/ cap THEN "DirectPtrace"
                                   ELSE IF multiple_clients THEN "NoPtrace" ELSE "ForkBroker"
           [] scope = "Restricted" -> IF multiple_clients THEN "DirectPtrace" ELSE "SetPtracer"
           [] scope = "AdminOnly" -> IF cap THEN "DirectPtrace" ELSE "NoPtrace"
           [] scope = "NoAttach" -> "NoPtrace"
           [] scope = "Unknown" -> "Error"

Strategies(multiple_clients) ==
    {ChooseStrategy(s, multiple_clients, v, c, u) :
       s \in Scopes, v \in BOOLEAN, c \in BOOLEAN, u \in BOOLEAN}
=============================================================================
