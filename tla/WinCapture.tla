----------------------------- MODULE WinCapture -----------------------------
(***************************************************************************)
(* Windows: client/crashpad_client_win.cc in the processes that crash, and *)
(* util/win/exception_handler_server.cc in the handler that serves them.   *)
(*                                                                         *)
(* A client asks for a dump with an auto-reset event that the handler's    *)
(* thread pool waits for; the handler writes the dump while the client is  *)
(* suspended, and kills it or sets another event.  The clients are listed  *)
(* by pipe threads and struck off by the main thread, which leaves when    *)
(* none is left.                                                           *)
(***************************************************************************)
EXTENDS Naturals, FiniteSets, Sequences

CONSTANTS
    WinProcesses,  \* the clients
    WinThreads,    \* their threads
    WinProcessOf,  \* WinProcessOf[t]: the process of thread t
    InitialClient, \* the one that starts the handler
    WinPersistent, \* persistent_
    Nobody,        \* no thread
    MaxWinDumps    \* bound: calls of DumpWithoutCrash() in each process

ASSUME WinAssumption ==
    /\ WinProcessOf \in [WinThreads -> WinProcesses] /\ InitialClient \in WinProcesses
    /\ WinPersistent \in BOOLEAN /\ Nobody \notin WinThreads /\ MaxWinDumps \in Nat
    /\ WinProcesses \cap {"loop", "stopping", "leaving", "gone"} = {}

VARIABLES
    winProc,   \* winProc[p]: alive, g_handler_startup_state, have_crashed, the holder of
               \* g_non_crash_dump_lock, the threads in g_crash_exception_information and
               \* g_non_crash_exception_information, and the number of dumps asked for
    winThread, \* winThread[t]: where thread t is
    winEvents, \* winEvents[p]: which of p's events are set: "crash", "non", "done"
    winData,   \* winData[p]: whether p's ClientData is in clients_, whether the thread pool
               \* waits for it, the callbacks begun, the one that has its lock, and whether
               \* the one for the end of the process was begun
    winPipe,   \* winPipe[p]: how far SetHandlerIPCPipe() and its pipe thread are
    winPort,   \* what was posted to the completion port: clients, or Nobody for Stop()
    winMain    \* the handler's main thread: "loop", the client it deletes, "stopping",
               \* "leaving", "gone"

winVars == <<winProc, winThread, winEvents, winData, winPipe, winPort, winMain>>

WinTypeOK ==
    /\ \A p \in WinProcesses :
         /\ winProc[p].startup \in {"NotReady", "Succeeded", "Failed"}
         /\ {winProc[p].lock, winProc[p].crash, winProc[p].non} \subseteq WinThreads \cup {Nobody}
         /\ winEvents[p] \subseteq {"crash", "non", "done"}
         /\ winData[p].begun \subseteq {"crash", "non", "end"}
         /\ winPipe[p] \in {"none", "inserted", "replied"}
    /\ winMain \in {"loop", "stopping", "leaving", "gone"} \cup WinProcesses

\* The initial client's data came with the handler's command line.
WinInit ==
    /\ winProc = [p \in WinProcesses |->
                    [alive |-> TRUE, startup |-> "NotReady", crashed |-> FALSE, lock |-> Nobody,
                     crash |-> Nobody, non |-> Nobody, dumps |-> 0]]
    /\ winThread = [t \in WinThreads |-> "run"]
    /\ winEvents = [p \in WinProcesses |-> {}]
    /\ winData = [p \in WinProcesses |->
                    [listed |-> p = InitialClient, armed |-> p = InitialClient,
                     begun |-> {}, running |-> "none", ended |-> FALSE]]
    /\ winPipe = [p \in WinProcesses |-> IF p = InitialClient THEN "replied" ELSE "none"]
    /\ winPort = <<>>
    /\ winMain = "loop"

----------------------------------------------------------------------------
(***************************************************************************)
(* A client.                                                               *)
(***************************************************************************)

serverVars == <<winData, winPipe, winPort, winMain>>

\* The process is there, and not suspended.
Runs(p) == winProc[p].alive /\ winData[p].running \notin {"crash", "non"}

\* Thread t, which is at a step, goes on to the next one.
Step(t, from, to) ==
    /\ Runs(WinProcessOf[t])
    /\ winThread[t] = from
    /\ winThread' = [winThread EXCEPT ![t] = to]

\* StartHandlerProcess(): CreateProcess(), and the answer to a ping, or neither.
StartHandlerProcess ==
    /\ Runs(InitialClient)
    /\ winProc[InitialClient].startup = "NotReady"
    /\ \E s \in {"Succeeded", "Failed"} : winProc' = [winProc EXCEPT ![InitialClient].startup = s]
    /\ UNCHANGED <<winThread, winEvents, serverVars>>

\* SafeTerminateProcess(), or the system's default: the process and its threads end.
Terminate(p) ==
    /\ winProc' = [winProc EXCEPT ![p] = [@ EXCEPT !.alive = FALSE, !.lock = Nobody,
                                         !.crash = Nobody, !.non = Nobody, !.dumps = 0]]
    /\ winThread' = [t \in WinThreads |-> IF WinProcessOf[t] = p THEN "ended" ELSE winThread[t]]

\* UnhandledExceptionHandler(), once the handler's start has succeeded or failed: the
\* first thread in it goes on, the others sleep until the end.
UnhandledExceptionHandler(t) ==
    LET p == WinProcessOf[t]
    IN /\ winProc[p].startup # "NotReady"
       /\ IF winProc[p].startup = "Failed"
            THEN Runs(p) /\ winThread[t] = "run" /\ Terminate(p)
            ELSE /\ Step(t, "run", IF winProc[p].crashed THEN "parked" ELSE "crashing")
                 /\ winProc' = [winProc EXCEPT ![p].crashed = TRUE]
       /\ UNCHANGED <<winEvents, serverVars>>

\* The first chance handler has handled it, and the exception takes its course.
FirstChanceHandled(t) ==
    /\ Runs(WinProcessOf[t])
    /\ winThread[t] = "crashing"
    /\ Terminate(WinProcessOf[t])
    /\ UNCHANGED <<winEvents, serverVars>>

SignalCrash(t) ==
    LET p == WinProcessOf[t]
    IN /\ Step(t, "crashing", "asleep")
       /\ winProc' = [winProc EXCEPT ![p].crash = t]
       /\ winEvents' = [winEvents EXCEPT ![p] = @ \cup {"crash"}]
       /\ UNCHANGED serverVars

\* kMillisecondsUntilTerminate are over.
CrashTimeout(t) ==
    /\ Runs(WinProcessOf[t])
    /\ winThread[t] = "asleep"
    /\ Terminate(WinProcessOf[t])
    /\ UNCHANGED <<winEvents, serverVars>>

\* Mutant: DumpWithoutCrash() takes no lock.
LockDumpMutant(t) ==
    LET p == WinProcessOf[t]
    IN /\ winPipe[p] = "replied"
       /\ winProc[p].startup = "Succeeded"
       /\ winProc[p].dumps < MaxWinDumps
       /\ Step(t, "run", "locked")
       /\ winProc' = [winProc EXCEPT ![p].dumps = @ + 1]
       /\ UNCHANGED <<winEvents, serverVars>>

\* DumpWithoutCrash() of a connected client whose handler has started takes the lock;
LockDump(t) ==
    LET p == WinProcessOf[t]
    IN /\ winPipe[p] = "replied"
       /\ winProc[p].startup = "Succeeded"
       /\ winProc[p].dumps < MaxWinDumps
       /\ winProc[p].lock = Nobody
       /\ Step(t, "run", "locked")
       /\ winProc' = [winProc EXCEPT ![p].lock = t, ![p].dumps = @ + 1]
       /\ UNCHANGED <<winEvents, serverVars>>

\* the first chance handler has handled it,
FirstChanceDump(t) ==
    /\ Step(t, "locked", "run")
    /\ winProc' = [winProc EXCEPT ![WinProcessOf[t]].lock = Nobody]
    /\ UNCHANGED <<winEvents, serverVars>>

\* or the handler is asked
SignalDump(t) ==
    LET p == WinProcessOf[t]
    IN /\ Step(t, "locked", "dumping")
       /\ winProc' = [winProc EXCEPT ![p].non = t]
       /\ winEvents' = [winEvents EXCEPT ![p] = @ \cup {"non"}]
       /\ UNCHANGED serverVars

\* and waited for, without a timeout.
DumpCompleted(t) ==
    LET p == WinProcessOf[t]
    IN /\ "done" \in winEvents[p]
       /\ Step(t, "dumping", "run")
       /\ winEvents' = [winEvents EXCEPT ![p] = @ \ {"done"}]
       /\ winProc' = [winProc EXCEPT ![p].lock = Nobody]
       /\ UNCHANGED serverVars

\* A client ends of its own accord.
ExitProcess(p) ==
    /\ Runs(p)
    /\ Terminate(p)
    /\ UNCHANGED <<winEvents, serverVars>>

----------------------------------------------------------------------------
(***************************************************************************)
(* The handler's pipe threads.                                             *)
(***************************************************************************)

\* ServiceClientConnection(): kRegister.  The list's lock is the main thread's while it
\* deletes a client.  A pipe thread serves until it is told of the end.
RegisterClient(p) ==
    /\ Runs(p)
    /\ winPipe[p] = "none"
    /\ winMain \in {"loop", "stopping"}
    /\ winPipe' = [winPipe EXCEPT ![p] = "inserted"]
    /\ winData' = [winData EXCEPT ![p].listed = TRUE, ![p].armed = TRUE]
    /\ UNCHANGED <<winProc, winThread, winEvents, winPort, winMain>>

\* The events are duplicated into the client, and SetHandlerIPCPipe() returns.
ReplyToClient(p) ==
    /\ winPipe[p] = "inserted"
    /\ winPipe' = [winPipe EXCEPT ![p] = "replied"]
    /\ winProc' = [winProc EXCEPT ![p].startup = IF winProc[p].alive THEN "Succeeded" ELSE @]
    /\ UNCHANGED <<winThread, winEvents, winData, winPort, winMain>>

----------------------------------------------------------------------------
(***************************************************************************)
(* The handler's thread pool.                                              *)
(***************************************************************************)

clientVars == <<winPipe, winMain>>

\* A wait is satisfied, and its callback begins.  The one for the end of the process is
\* registered for once only.
BeginCallback(p, e) ==
    /\ winData[p].armed
    /\ e \notin winData[p].begun
    /\ IF e = "end" THEN ~winProc[p].alive /\ ~winData[p].ended ELSE e \in winEvents[p]
    /\ winEvents' = [winEvents EXCEPT ![p] = @ \ {e}]
    /\ winData' = [winData EXCEPT ![p].begun = @ \cup {e}, ![p].ended = @ \/ e = "end"]
    /\ UNCHANGED <<winProc, winThread, winPort, clientVars>>

\* It gets the lock of the client; the delegate suspends the client.
LockClient(p, e) ==
    /\ e \in winData[p].begun
    /\ winData[p].running = "none"
    /\ winData' = [winData EXCEPT ![p].running = e]
    /\ UNCHANGED <<winProc, winThread, winEvents, winPort, clientVars>>

\* OnCrashDumpEvent(), with the dump written or not: the client is terminated.
OnCrashDumpEvent(p) ==
    /\ winData[p].running = "crash"
    /\ Terminate(p)
    /\ winData' = [winData EXCEPT ![p].running = "none", ![p].begun = @ \ {"crash"}]
    /\ UNCHANGED <<winEvents, winPort, clientVars>>

\* OnNonCrashDumpEvent(): the client goes on.
OnNonCrashDumpEvent(p) ==
    /\ winData[p].running = "non"
    /\ winEvents' = [winEvents EXCEPT ![p] = @ \cup {"done"}]
    /\ winData' = [winData EXCEPT ![p].running = "none", ![p].begun = @ \ {"non"}]
    /\ UNCHANGED <<winProc, winThread, winPort, clientVars>>

\* OnProcessEnd().
OnProcessEnd(p) ==
    /\ winData[p].running = "end"
    /\ winPort' = Append(winPort, p)
    /\ winData' = [winData EXCEPT ![p].running = "none", ![p].begun = @ \ {"end"}]
    /\ UNCHANGED <<winProc, winThread, winEvents, clientVars>>

----------------------------------------------------------------------------
(***************************************************************************)
(* The handler's main thread, Run().                                       *)
(***************************************************************************)

poolVars == <<winProc, winThread, winEvents, winPipe>>

\* Stop(), from another thread.
StopServer ==
    /\ winMain # "gone"
    /\ \A i \in DOMAIN winPort : winPort[i] # Nobody
    /\ winPort' = Append(winPort, Nobody)
    /\ UNCHANGED <<poolVars, winData, winMain>>

\* The next of the port's posts: the end, or a client to delete.  No callback begins for
\* it from now on.
TakePost ==
    /\ winMain = "loop"
    /\ winPort # <<>>
    /\ winPort' = Tail(winPort)
    /\ IF Head(winPort) = Nobody
         THEN winMain' = "stopping" /\ UNCHANGED winData
         ELSE /\ winMain' = Head(winPort)
              /\ winData' = [winData EXCEPT ![Head(winPort)].listed = FALSE,
                                            ![Head(winPort)].armed = FALSE]
    /\ UNCHANGED poolVars

\* UnregisterWaitEx() has waited for the callbacks that had begun.
Quiet(p) == winData[p].begun = {}

\* delete client; the server may have no client left.
DeleteClient ==
    /\ winMain \in WinProcesses
    /\ Quiet(winMain)
    /\ winMain' = IF ~WinPersistent /\ \A p \in WinProcesses : ~winData[p].listed
                    THEN "stopping" ELSE "loop"
    /\ UNCHANGED <<poolVars, winData, winPort>>

\* The pipe threads were told and are gone: the clients that are left are deleted,
DeleteClients ==
    /\ winMain = "stopping"
    /\ \A p \in WinProcesses : winPipe[p] # "inserted"
    /\ winMain' = "leaving"
    /\ winData' = [p \in WinProcesses |-> [winData[p] EXCEPT !.listed = FALSE, !.armed = FALSE]]
    /\ UNCHANGED <<poolVars, winPort>>

\* and Run() returns.
LeaveRun ==
    /\ winMain = "leaving"
    /\ \A p \in WinProcesses : Quiet(p)
    /\ winMain' = "gone"
    /\ UNCHANGED <<poolVars, winData, winPort>>

WinNext ==
    \/ StartHandlerProcess \/ StopServer \/ TakePost \/ DeleteClient \/ DeleteClients \/ LeaveRun
    \/ \E t \in WinThreads :
         \/ UnhandledExceptionHandler(t) \/ FirstChanceHandled(t) \/ SignalCrash(t)
         \/ CrashTimeout(t) \/ LockDump(t) \/ FirstChanceDump(t) \/ SignalDump(t)
         \/ DumpCompleted(t)
    \/ \E p \in WinProcesses :
         \/ ExitProcess(p) \/ RegisterClient(p) \/ ReplyToClient(p)
         \/ OnCrashDumpEvent(p) \/ OnNonCrashDumpEvent(p) \/ OnProcessEnd(p)
         \/ \E e \in {"crash", "non", "end"} : BeginCallback(p, e) \/ LockClient(p, e)

WinSpec == WinInit /\ [][WinNext]_winVars

----------------------------------------------------------------------------
(***************************************************************************)
(* Properties.                                                             *)
(***************************************************************************)

\* While the handler writes a dump the client's exception information is that of the
\* thread that asked for it, and this thread still waits in UnhandledExceptionHandler() or
\* DumpWithoutCrash(), so that what it points to is there.
WinReportNamesRequester ==
    \A p \in WinProcesses :
      /\ winProc[p].alive /\ winData[p].running = "crash" =>
           \E t \in WinThreads : winProc[p].crash = t /\ winThread[t] = "asleep"
      /\ winProc[p].alive /\ winData[p].running = "non" =>
           \E t \in WinThreads : winProc[p].non = t /\ winThread[t] = "dumping"

\* A thread that waits for its dump, with no timeout or with one of a minute, is never
\* forgotten as long as the handler has not begun to leave: its request is to be seen, is
\* being served, or is answered.
WinNobodyForgotten ==
    winMain \notin {"stopping", "leaving", "gone"} =>
      \A t \in WinThreads :
        LET p == WinProcessOf[t]
        IN winProc[p].alive /\ winThread[t] \in {"asleep", "dumping"} =>
             LET e == IF winThread[t] = "asleep" THEN "crash" ELSE "non"
             IN \/ winData[p].armed /\ e \in winEvents[p]
                \/ e \in winData[p].begun
                \/ e = "non" /\ "done" \in winEvents[p]

\* Every request for a dump is served, and with its own exception information.
WinDumpsServed == WinReportNamesRequester /\ WinNobodyForgotten
=============================================================================
