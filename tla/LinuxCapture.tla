---------------------------- MODULE LinuxCapture ----------------------------
(***************************************************************************)
(* handler/linux/exception_handler_server.cc with the delegate that        *)
(* captures a client, crash_report_exception_handler.cc, beside the        *)
(* clients of SignalHandler: one thread, one socket that all share.        *)
(***************************************************************************)
EXTENDS SignalHandler, PtraceStrategy

CONSTANT MainThread \* MainThread[p]: the thread whose id is the process's

ASSUME MainAssumption ==
    /\ MainThread \in [Processes -> Threads]
    /\ \A p \in Processes : ProcessOf[MainThread[p]] = p

VARIABLE server \* pc; req, the request; tried, the threads attached to or given up;
                \* snap, the exception of the snapshot; tid, *requesting_thread_id; wake, the
                \* threads that SendSIGCONT() has not signalled yet; quit,
                \* HandleCrashDumpRequest() returns false

vars == <<proc, thread, queue, replies, sockOpen, attached, server>>

NoRequest == [type |-> "none", from |-> None, thread |-> None, number |-> 0]
NoInfo == [context |-> None, thread |-> None]
Idle == [pc |-> "idle", req |-> NoRequest, tried |-> {}, snap |-> NoInfo, tid |-> None,
         wake |-> {}, quit |-> FALSE]

TypeOK ==
    /\ proc \in [Processes -> ProcessState]
    /\ thread \in [Threads -> ThreadState]
    /\ replies \in Nat
    /\ sockOpen \in BOOLEAN
    /\ attached \subseteq server.tried
    /\ server.pc \in {"idle", "attach", "snapshot", "write", "wake", "exited"}
    /\ server.wake \subseteq Threads

Init == ClientInit /\ server = Idle

----------------------------------------------------------------------------
\* Run() returns, or the handler dies: its end of the socket is closed, and with
\* the tracer gone the traced threads run again.
Exited ==
    /\ sockOpen' = FALSE
    /\ queue' = <<>>
    /\ attached' = {}
    /\ server' = [Idle EXCEPT !.pc = "exited"]
    /\ UNCHANGED <<proc, thread, replies>>

\* The handler is killed.
Killed == server.pc # "exited" /\ Exited

\* Stop() was called, epoll_wait() or RecvMsg() failed, or every client has hung
\* up: the only socket is uninstalled, and Run() has nothing left to wait for.
RunEnds == server.pc = "idle" /\ Exited

\* The handler is done with the request: the connection is destroyed, which
\* detaches, and SendSIGCONT() begins with one thread, or with all that
\* ReadThreadIDs() finds.
SendSIGCONT(tid, quit) ==
    LET p == server.req.from
        all == IF proc[p].alive THEN ThreadsOf(p) ELSE {}
    IN  /\ server' = [server EXCEPT !.pc = "wake", !.quit = quit, !.tried = {}, !.snap = NoInfo,
                        !.wake = IF tid = None THEN all ELSE {tid}]
        /\ attached' = {}
        /\ thread' = [thread EXCEPT ![server.req.thread].served = server.req.number]
        /\ proc' = [proc EXCEPT ![p].loose = @ \/ tid = None]
        /\ UNCHANGED socketVars

----------------------------------------------------------------------------
\* ReceiveClientMessage(): CheckCredentials is answered with SendCredentials().
ReceiveCheckCredentials ==
    /\ server.pc = "idle"
    /\ queue # <<>> /\ Head(queue).type = "CheckCredentials"
    /\ queue' = Tail(queue)
    /\ replies' = replies + 1
    /\ UNCHANGED <<proc, thread, sockOpen, attached, server>>

\* CrashDumpRequest is passed to HandleCrashDumpRequest().
ReceiveRequest ==
    /\ server.pc = "idle"
    /\ queue # <<>> /\ Head(queue).type = "CrashDumpRequest"
    /\ queue' = Tail(queue)
    /\ server' = [server EXCEPT !.pc = "attach", !.req = Head(queue)]
    /\ UNCHANGED <<proc, thread, replies, sockOpen, attached>>

\* The strategies kNoPtrace and kError: no capture, and with kError the socket
\* that all the clients share is uninstalled.
Refuse ==
    /\ server.pc = "attach"
    /\ \E s \in Strategies(TRUE) \cap {"NoPtrace", "Error"} : SendSIGCONT(None, s = "Error")

\* kDirectPtrace: DirectPtraceConnection::Initialize() attaches to the process,
\* which fails when it is gone or must not be traced.
AttachProcess ==
    LET p == server.req.from
    IN  /\ server.pc = "attach"
        /\ "DirectPtrace" \in Strategies(TRUE)
        /\ \/ SendSIGCONT(None, FALSE)
           \/ /\ proc[p].alive /\ proc[p].dumpable
              /\ attached' = {MainThread[p]}
              /\ server' = [server EXCEPT !.pc = "snapshot", !.tried = {MainThread[p]}]
              /\ UNCHANGED <<proc, thread, socketVars>>

\* Mutant: what cannot be attached to is not given up.
AttachThreadMutant(t) ==
    /\ server.pc = "snapshot"
    /\ t \in ThreadsOf(server.req.from) \ server.tried
    /\ attached' = attached \cup {t}
    /\ UNCHANGED <<server, proc, thread, socketVars>>

\* ProcessReaderLinux::InitializeThreads(): the other threads, one by one; one
\* that cannot be attached to is left out of the snapshot, and runs.
AttachThread(t) ==
    /\ server.pc = "snapshot"
    /\ t \in ThreadsOf(server.req.from) \ server.tried
    /\ server' = [server EXCEPT !.tried = @ \cup {t}]
    /\ \/ proc[ProcessOf[t]].alive /\ attached' = attached \cup {t}
       \/ UNCHANGED attached
    /\ UNCHANGED <<proc, thread, socketVars>>

\* InitializeException(): the context that exception_information_ holds, for the
\* requesting thread or, if that is not known, for the one that
\* exception_information_ names.
Exception(tid) ==
    LET now == proc[server.req.from].info
    IN  [context |-> now.context, thread |-> IF tid = None THEN now.thread ELSE tid]

\* CaptureSnapshot(): FindThreadWithStackAddress() finds the requesting thread, or
\* not; the capture fails, then or before, or it goes on to the minidump.
CaptureSnapshot ==
    LET p == server.req.from
    IN  /\ server.pc = "snapshot"
        /\ server.tried = ThreadsOf(p)
        /\ \E tid \in {None} \cup ({server.req.thread} \cap attached) :
             \/ SendSIGCONT(tid, FALSE)
             \/ /\ proc[p].alive
                /\ server' = [server EXCEPT !.pc = "write", !.snap = Exception(tid), !.tid = tid]
                /\ UNCHANGED <<proc, thread, socketVars, attached>>

\* WriteMinidumpToDatabase() or WriteMinidumpToLog() succeeds or fails, and
\* HandleException() returns.
WriteMinidump == server.pc = "write" /\ SendSIGCONT(server.tid, FALSE)

\* tgkill(): the signal stays pending if it is blocked, and is ignored if not.
Tgkill(t) ==
    /\ server.pc = "wake"
    /\ t \in server.wake
    /\ server' = [server EXCEPT !.wake = @ \ {t}]
    /\ thread' = [thread EXCEPT ![t].pending = @ \/ (Blocked(t) /\ proc[ProcessOf[t]].alive)]
    /\ UNCHANGED <<proc, socketVars, attached>>

RequestDone ==
    /\ server.pc = "wake" /\ server.wake = {}
    /\ IF server.quit
         THEN Exited
         ELSE server' = Idle /\ UNCHANGED <<proc, thread, socketVars, attached>>

ServerStep ==
    \/ ReceiveCheckCredentials \/ ReceiveRequest \/ Refuse \/ AttachProcess
    \/ CaptureSnapshot \/ WriteMinidump \/ RequestDone
    \/ \E t \in Threads : AttachThread(t) \/ Tgkill(t)

Next == (ClientNext /\ UNCHANGED server) \/ ServerStep \/ RunEnds \/ Killed

\* The handler's thread and the clients' threads are scheduled, and a wait of
\* five seconds ends.
Spec ==
    /\ Init /\ [][Next]_vars
    /\ WF_vars(ServerStep)
    /\ \A t \in Threads : WF_vars(ThreadStep(t) /\ UNCHANGED server)

----------------------------------------------------------------------------
(***************************************************************************)
(* Properties.                                                             *)
(***************************************************************************)

\* A crash is not lost to a process that dies too early: when a process is gone,
\* the handler is done with the request of its crashed thread, unless a wait
\* in it timed out or a kDumpDoneSignal was sent to all its threads.
DiesAfterDump ==
    \A t \in Threads :
      LET p == proc[ProcessOf[t]]
      IN  thread[t].dying /\ UnderWay(t) /\ ~p.loose => p.alive

\* The exception in a report is the one of the thread that asked, although the
\* threads share exception_information_, unless the requests of two threads
\* overlapped (DumpWithoutCrash() does not look at disabled_).
ReportNamesRequester ==
    server.pc = "write" /\ ~proc[server.req.from].overlap =>
      server.snap = [context |-> server.req.thread, thread |-> server.req.thread]

\* The handler may trace a process that waits for its dump, although
\* PR_SET_DUMPABLE is put back by each thread for itself, unless two overlapped.
TraceableWhileAsked ==
    \A t \in Threads :
      LET p == proc[ProcessOf[t]]
      IN  thread[t].pc = "sigwait" /\ ~p.overlap => p.dumpable

\* Whatever the handler does, and if it dies too, a thread that has come into the
\* signal handler leaves it: it goes on, or its process dies.
HandlerLeft ==
    \A t \in Threads :
      thread[t].pc \notin {"run", "dead"} ~>
        thread[t].pc \in {"run", "dead"} \/ ~proc[ProcessOf[t]].alive
=============================================================================
