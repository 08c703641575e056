---------------------------- MODULE PtraceBroker ----------------------------
(***************************************************************************)
(* A handler and a client that have a socket for themselves: the loop of   *)
(* ExceptionHandlerClient::WaitForCrashDumpComplete(), HandleCrashDump-    *)
(* Request() on the other side, and, where the handler may not trace the   *)
(* client, the child that the client forks to trace it on the handler's    *)
(* behalf: util/linux/ptrace_broker.cc, with its client ptrace_client.cc   *)
(* in the handler.                                                         *)
(*                                                                         *)
(* Nothing on the socket says what it is: a message, a count, a piece of   *)
(* data and an error are told apart by the place they are read at, and the *)
(* client and its broker read from the same end.  A token stands for each  *)
(* object that one call writes and one call reads.                         *)
(***************************************************************************)
EXTENDS Naturals, Sequences, PtraceStrategy

CONSTANTS
    MaxCalls, \* bound: the calls of the handler's snapshot through one connection
    MaxChunks \* bound: pieces that a file, a directory or a memory range comes in

ASSUME BrokerAssumption == MaxCalls \in Nat \ {0} /\ MaxChunks \in Nat

VARIABLES
    toClient, \* what the handler wrote and nobody has read
    toServer, \* what the client or the broker wrote and the handler has not read
    client,   \* RequestCrashDump(): "reading" its socket, "waiting" for its child, "returned"
    broker,   \* the child: pc, and what is left to write of the answer it is giving
    session   \* the handler: pc, the call it makes, the last token it read in it, the
              \* memory it has asked for and not got, and the number of calls

brokerVars == <<toClient, toServer, client, broker, session>>

Requests == {"Attach", "Is64Bit", "GetThreadInfo", "ReadFile", "ListDirectory", "ReadMemory"}
NoCall == [pc |-> "deciding", call |-> "none", last |-> "none", left |-> 0, calls |-> 0]

BrokerTypeOK ==
    /\ client \in {"reading", "waiting", "returned"}
    /\ broker.pc \in {"none", "request", "path", "answer", "exited", "failed"}
    /\ session.pc \in {"deciding", "ptracer", "forking", "calling", "path", "answer", "exit",
                       "report", "idle", "ended"}
    /\ session.calls \in 0 .. MaxCalls

BrokerInit ==
    /\ toClient = <<>> /\ toServer = <<>>
    /\ client = "reading"
    /\ broker = [pc |-> "none", answer |-> <<>>]
    /\ session = NoCall

BrokerRuns == broker.pc \in {"request", "path", "answer"}

\* The handler's end is open until Run() ends or the handler dies, the other one
\* while the client or its child has it.
ServerOpen == session.pc # "ended"
ClientOpen == client # "returned" \/ BrokerRuns

----------------------------------------------------------------------------
(***************************************************************************)
(* The client.                                                             *)
(***************************************************************************)

\* Its message is the first one in the stream, or the handler has hung up.
Receive(types) ==
    /\ client = "reading"
    /\ toClient # <<>> /\ Head(toClient).kind \in types
    /\ toClient' = Tail(toClient)

\* kTypeForkBroker: the child writes 0 and runs the broker, or the fork failed.
ForkBroker ==
    /\ Receive({"ForkBroker"})
    /\ \/ /\ client' = "waiting"
          /\ broker' = [broker EXCEPT !.pc = "request"]
          /\ toServer' = Append(toServer, "ErrnoZero")
       \/ /\ toServer' = Append(toServer, "Errno")
          /\ UNCHANGED <<client, broker>>
    /\ UNCHANGED session

\* kTypeSetPtracer: the answer is what prctl() says.
SetPtracer ==
    /\ Receive({"SetPtracer"})
    /\ \E e \in {"ErrnoZero", "Errno"} : toServer' = Append(toServer, e)
    /\ UNCHANGED <<client, broker, session>>

DumpComplete ==
    /\ Receive({"CrashDumpComplete", "CrashDumpFailed"})
    /\ client' = "returned"
    /\ UNCHANGED <<toServer, broker, session>>

ServerHungUp ==
    /\ client = "reading" /\ toClient = <<>> /\ ~ServerOpen
    /\ client' = "returned"
    /\ UNCHANGED <<toClient, toServer, broker, session>>

\* waitpid(): a child that failed ends RequestCrashDump().
WaitForBroker ==
    /\ client = "waiting" /\ ~BrokerRuns
    /\ client' = IF broker.pc = "failed" THEN "returned" ELSE "reading"
    /\ UNCHANGED <<toClient, toServer, broker, session>>

----------------------------------------------------------------------------
(***************************************************************************)
(* The broker.                                                             *)
(***************************************************************************)
Pieces(n) == [i \in 1 .. 2 * n |-> IF i % 2 = 1 THEN "Count" ELSE "Data"]
ReadFailure == <<"CountMinusOne", "ReadError">>

\* Mutant: the end of the file is not marked.
ContentsMutant ==
    {Pieces(n) \o end : n \in 0 .. MaxChunks, end \in {<<>>, ReadFailure}}

\* SendFileContents() and SendDirectory(): the end is a count of zero.
Contents ==
    {Pieces(n) \o end : n \in 0 .. MaxChunks, end \in {<<"CountZero">>, ReadFailure}}

\* Mutant: the end of the range is marked too.
SendMemoryMutant(size) ==
    {Pieces(n) \o end : n \in 0 .. size, end \in {<<"CountZero">>, ReadFailure}}

\* SendMemory(): the end is a count of zero only if it comes before all was read.
SendMemory(size) ==
    {Pieces(size)} \cup
    {Pieces(n) \o end : n \in {k \in 0 .. size : k < size}, end \in {<<"CountZero">>, ReadFailure}}

\* What RunImpl() may write for a request; AllocateAttachment() may have no room.
Answers(request, size) ==
    CASE request = "Attach" -> {<<"True">>, <<"False", "Errno">>}
      [] request = "Is64Bit" -> {<<"True">>, <<"False">>}
      [] request = "GetThreadInfo" -> {<<"ThreadInfo">>, <<"NoThreadInfo", "Errno">>}
      [] request = "ReadMemory" -> SendMemory(size)
      [] OTHER -> {}

\* RunImpl() reads a request, which says how much memory is asked for; kTypeExit
\* has no answer.
ReadRequest ==
    /\ broker.pc = "request"
    /\ toClient # <<>> /\ Head(toClient).kind \in Requests \cup {"Exit"}
    /\ toClient' = Tail(toClient)
    /\ LET r == Head(toClient).kind
       IN  \/ r = "Exit" /\ broker' = [broker EXCEPT !.pc = "exited"]
           \/ r \in {"ReadFile", "ListDirectory"} /\ broker' = [broker EXCEPT !.pc = "path"]
           \/ \E a \in Answers(r, Head(toClient).size) :
                broker' = [broker EXCEPT !.pc = IF a = <<>> THEN "request" ELSE "answer",
                                         !.answer = a]
    /\ UNCHANGED <<toServer, client, session>>

\* ReceiveAndOpenFilePath(), for a path that is not too long, and the contents.
ReadPath ==
    /\ broker.pc = "path"
    /\ toClient # <<>> /\ Head(toClient).kind = "Path"
    /\ toClient' = Tail(toClient)
    /\ \E a \in {<<"OpenError">>} \cup {<<"OpenSuccess">> \o c : c \in Contents} :
         broker' = [broker EXCEPT !.pc = "answer", !.answer = a]
    /\ UNCHANGED <<toServer, client, session>>

\* One WriteFile() of the answer; it fails when the handler is gone.
WriteAnswer ==
    /\ broker.pc = "answer"
    /\ IF ServerOpen
         THEN /\ toServer' = Append(toServer, Head(broker.answer))
              /\ broker' = [broker EXCEPT !.answer = Tail(@),
                              !.pc = IF Len(broker.answer) = 1 THEN "request" ELSE "answer"]
         ELSE broker' = [broker EXCEPT !.pc = "failed"] /\ UNCHANGED toServer
    /\ UNCHANGED <<toClient, client, session>>

\* The broker reads the end of the stream: Run() returns errno, which may be zero.
ReadEnd ==
    /\ broker.pc \in {"request", "path"} /\ toClient = <<>> /\ ~ServerOpen
    /\ \E pc \in {"exited", "failed"} : broker' = [broker EXCEPT !.pc = pc]
    /\ UNCHANGED <<toClient, toServer, client, session>>

BrokerKilled ==
    /\ BrokerRuns
    /\ broker' = [pc |-> "failed", answer |-> <<>>]
    /\ UNCHANGED <<toClient, toServer, client, session>>

----------------------------------------------------------------------------
(***************************************************************************)
(* The handler.                                                            *)
(***************************************************************************)

\* It writes m, with the size of the memory range that is asked for, and goes on
\* with next, or the other end is gone and it goes on with failed.
Send(m, next, failed) ==
    /\ IF ClientOpen
         THEN toClient' = Append(toClient, [kind |-> m, size |-> next.left]) /\ session' = next
         ELSE session' = failed /\ UNCHANGED toClient
    /\ UNCHANGED <<toServer, client, broker>>

Here(pc) == [session EXCEPT !.pc = pc, !.call = "none", !.last = "none", !.left = 0]

\* HandleCrashDumpRequest(): kDirectPtrace needs nothing of the client (the message
\* that ends it follows), kError uninstalls the socket.
Decide ==
    /\ session.pc = "deciding"
    /\ \E s \in Strategies(FALSE) :
         \/ s = "ForkBroker" /\ Send("ForkBroker", Here("forking"), Here("ended"))
         \/ s = "SetPtracer" /\ Send("SetPtracer", Here("ptracer"), Here("ended"))
         \/ s = "DirectPtrace" /\ session' = Here("report")
            /\ UNCHANGED <<toClient, toServer, client, broker>>
         \/ s = "NoPtrace" /\ Send("CrashDumpFailed", Here("idle"), Here("ended"))
         \/ s = "Error" /\ session' = Here("ended")
            /\ UNCHANGED <<toClient, toServer, client, broker>>

\* The client's errno: a client that cannot make the handler its tracer is asked
\* to fork, one that cannot fork is not captured.
ReadErrno ==
    /\ session.pc \in {"ptracer", "forking"}
    /\ toServer # <<>> /\ Head(toServer) \in {"ErrnoZero", "Errno"}
    /\ LET ok == Head(toServer) = "ErrnoZero"
           m == IF session.pc = "ptracer" THEN "ForkBroker" ELSE "CrashDumpFailed"
           next == IF session.pc = "ptracer" THEN "forking" ELSE "idle"
       IN  /\ session' = IF ok THEN Here(IF session.pc = "ptracer" THEN "report" ELSE "calling")
                         ELSE IF ClientOpen THEN Here(next) ELSE Here("ended")
           /\ toClient' = IF ~ok /\ ClientOpen THEN Append(toClient, [kind |-> m, size |-> 0])
                         ELSE toClient
    /\ toServer' = Tail(toServer)
    /\ UNCHANGED <<client, broker>>

\* PtraceClient: Initialize() attaches and asks for Is64Bit, then the snapshot makes
\* its calls in any order and goes on whatever they return, or gives up.
Call ==
    /\ session.pc = "calling" /\ session.calls < MaxCalls
    /\ \E r \in Requests, size \in 0 .. MaxChunks :
         /\ session.calls = 0 => r = "Attach"
         /\ session.calls = 1 => r = "Is64Bit"
         /\ r # "ReadMemory" => size = 0
         /\ LET pc == CASE r \in {"ReadFile", "ListDirectory"} -> "path"
                        [] r = "ReadMemory" /\ size = 0 -> "calling"
                        [] OTHER -> "answer"
            IN  Send(r, [session EXCEPT !.pc = pc, !.call = r, !.left = size, !.calls = @ + 1],
                     [Here("calling") EXCEPT !.calls = MaxCalls])

SendFilePath ==
    /\ session.pc = "path"
    /\ Send("Path", [session EXCEPT !.pc = "answer"], Here("calling"))

\* What the handler reads next in a call, given what it has read.
Expected(call, last) ==
    IF last = "none"
    THEN CASE call \in {"Attach", "Is64Bit"} -> {"True", "False"}
           [] call = "GetThreadInfo" -> {"ThreadInfo", "NoThreadInfo"}
           [] call = "ReadMemory" -> {"Count", "CountZero", "CountMinusOne"}
           [] OTHER -> {"OpenSuccess", "OpenError"}
    ELSE CASE last \in {"False", "NoThreadInfo"} -> {"Errno"}
           [] last = "Count" -> {"Data"}
           [] last = "CountMinusOne" -> {"ReadError"}
           [] OTHER -> {"Count", "CountZero", "CountMinusOne"}

\* The call returns once it has read t: nothing more is expected of it.
Ends(call, t, left) ==
    \/ t \in {"True", "Errno", "ThreadInfo", "OpenError", "CountZero", "ReadError"}
    \/ t = "False" /\ call = "Is64Bit"
    \/ t = "Data" /\ call = "ReadMemory" /\ left = 0

ReadAnswer ==
    /\ session.pc = "answer"
    /\ toServer # <<>> /\ Head(toServer) \in Expected(session.call, session.last)
    /\ LET t == Head(toServer)
           left == IF t = "Data" /\ session.left > 0 THEN session.left - 1 ELSE session.left
       IN  session' = IF session.call = "Attach" /\ session.calls = 1 /\ t = "Errno"
                        THEN Here("exit")
                      ELSE IF Ends(session.call, t, left) THEN Here("calling")
                      ELSE [session EXCEPT !.last = t, !.left = left]
    /\ toServer' = Tail(toServer)
    /\ UNCHANGED <<toClient, client, broker>>

\* A read that meets the end of the stream: the call fails; in ChooseStrategy(),
\* that is kError.
AnswerLost ==
    /\ session.pc \in {"ptracer", "forking", "answer"}
    /\ toServer = <<>> /\ ~ClientOpen
    /\ session' = IF session.pc = "answer" THEN [Here("calling") EXCEPT !.calls = MaxCalls]
                  ELSE Here("ended")
    /\ UNCHANGED <<toClient, toServer, client, broker>>

\* The snapshot is done, or given up.
CallsDone ==
    /\ session.pc = "calling" /\ session.calls > 0
    /\ session' = Here("exit")
    /\ UNCHANGED <<toClient, toServer, client, broker>>

\* ~PtraceClient().
DestroyPtraceClient ==
    /\ session.pc = "exit"
    /\ Send("Exit", Here("report"), Here("report"))

\* HandleCrashDumpRequest() ends: the client is told, and the next request of this
\* client, or its hanging up, is waited for.
SendComplete ==
    /\ session.pc = "report"
    /\ Send("CrashDumpComplete", Here("idle"), Here("ended"))

HandlerKilled ==
    /\ ServerOpen
    /\ session' = Here("ended")
    /\ UNCHANGED <<toClient, toServer, client, broker>>

BrokerProgress ==
    \/ ForkBroker \/ SetPtracer \/ DumpComplete \/ ServerHungUp \/ WaitForBroker
    \/ ReadRequest \/ ReadPath \/ WriteAnswer \/ ReadEnd
    \/ Decide \/ ReadErrno \/ Call \/ SendFilePath \/ ReadAnswer \/ AnswerLost
    \/ CallsDone \/ DestroyPtraceClient \/ SendComplete

BrokerNext == BrokerProgress \/ BrokerKilled \/ HandlerKilled

BrokerSpec == BrokerInit /\ [][BrokerNext]_brokerVars

----------------------------------------------------------------------------
(***************************************************************************)
(* Properties.                                                             *)
(***************************************************************************)

\* Whoever reads from the socket finds what it expects there: the client never
\* takes a broker's request for a message or the broker a message for a request,
\* and every answer has been read to its end when the next call is made.  (The
\* three sides count pieces for themselves, and any call may fail half way.)
InStep ==
    /\ client = "reading" /\ toClient # <<>> =>
         Head(toClient).kind \in {"ForkBroker", "SetPtracer", "CrashDumpComplete", "CrashDumpFailed"}
    /\ broker.pc = "request" /\ toClient # <<>> => Head(toClient).kind \in Requests \cup {"Exit"}
    /\ broker.pc = "path" /\ toClient # <<>> => Head(toClient).kind = "Path"
    /\ session.pc = "answer" /\ toServer # <<>> => Head(toServer) \in Expected(session.call, session.last)
    /\ session.pc = "calling" => toServer = <<>>

\* Whoever reads waits while nothing is there and the other end is open, or for ever if what
\* is there is not what it expects; and the client waits for its child.
ClientWaits ==
    CASE client = "reading" ->
           IF toClient = <<>> THEN ServerOpen
           ELSE Head(toClient).kind \notin {"ForkBroker", "SetPtracer",
                                            "CrashDumpComplete", "CrashDumpFailed"}
      [] client = "waiting" -> BrokerRuns
      [] client = "returned" -> TRUE

BrokerWaits ==
    /\ broker.pc # "answer"
    /\ BrokerRuns =>
         IF toClient = <<>> THEN ServerOpen
         ELSE Head(toClient).kind \notin IF broker.pc = "path" THEN {"Path"}
                                         ELSE Requests \cup {"Exit"}

HandlerWaits ==
    /\ session.pc \in {"ptracer", "forking", "answer", "idle", "ended"}
    /\ session.pc \in {"ptracer", "forking", "answer"} =>
         IF toServer = <<>> THEN ClientOpen
         ELSE Head(toServer) \notin IF session.pc = "answer"
                                       THEN Expected(session.call, session.last)
                                     ELSE {"ErrnoZero", "Errno"}

\* The handler, the client and the broker are never all waiting for one another
\* while a crash dump is under way.
NobodyStuck == client # "returned" => ~(ClientWaits /\ BrokerWaits /\ HandlerWaits)
=============================================================================
