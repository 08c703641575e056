--------------------------- MODULE SignalHandler ---------------------------
(***************************************************************************)
(* client/crashpad_client_linux.cc and util/linux/exception_handler_client *)
(* .cc: what the threads of a client process do from a crash signal, a     *)
(* DumpWithoutCrash() or a CrashWithoutDump() until the process dies or    *)
(* goes on.  The clients of one handler share one socket                   *)
(* (multiple_clients), as StartHandler() sets it up: a request is a        *)
(* message on it and the answer is a signal, kDumpDoneSignal.              *)
(*                                                                         *)
(* exception_information_ is one object of the process, written without a  *)
(* lock; an address into a thread's stack is modelled by the thread.       *)
(***************************************************************************)
EXTENDS Naturals, Sequences

CONSTANTS
    Processes, \* the client processes
    Threads,   \* all their threads
    ProcessOf, \* ProcessOf[t]: the process of thread t
    MaxDumps,  \* bound: a thread that has sent so many requests calls no DumpWithoutCrash()
    None       \* no thread: -1 where the code has a thread id

ASSUME SignalAssumption ==
    /\ ProcessOf \in [Threads -> Processes]
    /\ MaxDumps \in Nat
    /\ None \notin Threads

VARIABLES
    proc,     \* proc[p]: what the threads of p share
    thread,   \* thread[t]: what t has for itself
    queue,    \* the messages that the handler has not read yet
    replies,  \* how many credentials messages no client has read yet
    sockOpen, \* the handler's end of the socket is open
    attached  \* the threads that the handler's ptrace has stopped

socketVars == <<queue, replies, sockOpen>>

\* installed: how far RequestCrashDumpHandler::Initialize() is; disabled: the
\* flag disabled_; dumpDone: dump_done_futex_; dumpable: PR_GET_DUMPABLE; info:
\* exception_information_, whose context and whose thread_id.  History: loose, a
\* wait in p timed out or p was sent a kDumpDoneSignal for all its threads;
\* overlap, a thread wrote info while another's request was under way.
ProcessState ==
    [installed : {"no", "asking", "yes", "failed"}, alive : BOOLEAN, disabled : BOOLEAN,
     dumpDone : BOOLEAN, dumpable : BOOLEAN,
     info : [context : Threads \cup {None}, thread : Threads \cup {None}],
     loose : BOOLEAN, overlap : BOOLEAN]

\* dying: in HandleOrReraiseSignal(), not in DumpWithoutCrash(); restore:
\* ~was_dumpable_; pending: kDumpDoneSignal is pending.  History: asked, the number
\* of requests sent; served, the last one that the handler has dealt with.
ThreadState ==
    [pc : {"run", "signal", "disable", "context", "threadId", "send", "sigwait",
           "unblock", "waitDone", "reraise", "dead"},
     dying : BOOLEAN, restore : BOOLEAN, pending : BOOLEAN,
     asked : 0 .. MaxDumps + 1, served : 0 .. MaxDumps + 1]

ClientInit ==
    /\ proc \in [Processes -> {[installed |-> "no", alive |-> TRUE, disabled |-> FALSE,
                                dumpDone |-> FALSE, dumpable |-> d,
                                info |-> [context |-> None, thread |-> None],
                                loose |-> FALSE, overlap |-> FALSE]
                               : d \in BOOLEAN}]
    /\ thread = [t \in Threads |-> [pc |-> "run", dying |-> FALSE, restore |-> FALSE,
                                    pending |-> FALSE, asked |-> 0, served |-> 0]]
    /\ queue = <<>>
    /\ replies = 0
    /\ sockOpen = TRUE
    /\ attached = {}

----------------------------------------------------------------------------
ThreadsOf(p) == {t \in Threads : ProcessOf[t] = p}

\* kDumpDoneSignal is blocked: ScopedSigprocmaskRestore is in scope.
Blocked(t) == thread[t].pc \in {"send", "sigwait", "unblock"}

\* HandleCrash() has been called and has not returned.
InHandleCrash(t) == Blocked(t) \/ thread[t].pc \in {"context", "threadId"}

\* t's last request is sent and the handler is not done with it.
UnderWay(t) == thread[t].served < thread[t].asked

\* A thread runs while its process lives and nobody traces it.
At(t, where) == proc[ProcessOf[t]].alive /\ t \notin attached /\ thread[t].pc = where

Goto(t, from, to) ==
    /\ At(t, from)
    /\ thread' = [thread EXCEPT ![t].pc = to]

(***************************************************************************)
(* RequestCrashDumpHandler::Initialize() with pid < 0 asks the handler for *)
(* its credentials.  Any client of the shared socket may take the answer:  *)
(* it is the same for all.                                                 *)
(***************************************************************************)
SendCheckCredentials(p) ==
    /\ proc[p].alive /\ proc[p].installed = "no"
    /\ proc' = [proc EXCEPT ![p].installed = IF sockOpen THEN "asking" ELSE "failed"]
    /\ queue' = IF sockOpen
                  THEN Append(queue, [type |-> "CheckCredentials", from |-> p,
                                      thread |-> None, number |-> 0])
                  ELSE queue
    /\ UNCHANGED <<thread, replies, sockOpen, attached>>

RecvCredentials(p) ==
    /\ proc[p].alive /\ proc[p].installed = "asking"
    /\ replies > 0 \/ ~sockOpen
    /\ proc' = [proc EXCEPT ![p].installed = IF replies > 0 THEN "yes" ELSE "failed"]
    /\ replies' = IF replies > 0 THEN replies - 1 ELSE 0
    /\ UNCHANGED <<thread, queue, sockOpen, attached>>

\* Initialize() with pid >= 0, when the handler's pid is known or there is no Yama:
\* nobody is asked.
InitializeWithPid(p) ==
    /\ proc[p].alive /\ proc[p].installed = "no"
    /\ proc' = [proc EXCEPT ![p].installed = "yes"]
    /\ UNCHANGED <<thread, socketVars, attached>>

(***************************************************************************)
(* The ways into the handler.                                              *)
(***************************************************************************)

\* A crash signal is delivered to t: HandleOrReraiseSignal() begins.
CrashSignal(t) ==
    /\ proc[ProcessOf[t]].installed = "yes"
    /\ Goto(t, "run", "signal")
    /\ UNCHANGED <<proc, socketVars, attached>>

\* The first chance handler takes the signal, and the thread goes on.
FirstChanceHandler(t) ==
    /\ Goto(t, "signal", "run")
    /\ UNCHANGED <<proc, socketVars, attached>>

\* Mutant: the flag is set without a look at what it was.
HandleOrReraiseSignalMutant(t) ==
    /\ At(t, "signal")
    /\ thread' = [thread EXCEPT ![t].pc = "context", ![t].dying = TRUE]
    /\ proc' = [proc EXCEPT ![ProcessOf[t]].disabled = TRUE]
    /\ UNCHANGED <<socketVars, attached>>

\* disabled_.test_and_set(): the first thread calls HandleCrash(), the others wait.
HandleOrReraiseSignal(t) ==
    /\ At(t, "signal")
    /\ thread' = [thread EXCEPT ![t].dying = TRUE,
                    ![t].pc = IF proc[ProcessOf[t]].disabled THEN "waitDone" ELSE "context"]
    /\ proc' = [proc EXCEPT ![ProcessOf[t]].disabled = TRUE]
    /\ UNCHANGED <<socketVars, attached>>

\* DumpWithoutCrash() calls HandleCrash() whatever disabled_ is.
DumpWithoutCrash(t) ==
    /\ proc[ProcessOf[t]].installed = "yes"
    /\ thread[t].asked < MaxDumps
    /\ Goto(t, "run", "context")
    /\ UNCHANGED <<proc, socketVars, attached>>

\* CrashWithoutDump(): Disable() sets the flag,
CrashWithoutDump(t) ==
    LET p == ProcessOf[t]
    IN  /\ proc[p].installed = "yes"
        /\ Goto(t, "run", IF proc[p].disabled THEN "signal" ELSE "disable")
        /\ proc' = [proc EXCEPT ![p].disabled = TRUE]
        /\ UNCHANGED <<socketVars, attached>>

\* and wakes the threads if it was not set; LOG(FATAL) raises a signal.
Disable(t) ==
    /\ Goto(t, "disable", "signal")
    /\ proc' = [proc EXCEPT ![ProcessOf[t]].dumpDone = TRUE]
    /\ UNCHANGED <<socketVars, attached>>

----------------------------------------------------------------------------
(***************************************************************************)
(* HandleCrash().                                                          *)
(***************************************************************************)

\* Mutant: the context is not stored.
WriteContextMutant(t) ==
    /\ Goto(t, "context", "threadId")
    /\ proc' = [proc EXCEPT ![ProcessOf[t]].info.thread = t]
    /\ UNCHANGED <<socketVars, attached>>

WriteContext(t) ==
    LET p == ProcessOf[t]
    IN  /\ Goto(t, "context", "threadId")
        /\ proc' = [proc EXCEPT ![p].info.context = t,
                      ![p].overlap = @ \/ \E u \in ThreadsOf(p) \ {t} :
                                             InHandleCrash(u) \/ UnderWay(u)]
        /\ UNCHANGED <<socketVars, attached>>

\* Mutant: ScopedPrSetDumpable is a temporary, destroyed at once.
WriteThreadIdMutant(t) ==
    /\ Goto(t, "threadId", "send")
    /\ proc' = [proc EXCEPT ![ProcessOf[t]].info.thread = t]
    /\ UNCHANGED <<socketVars, attached>>

\* exception_information_.thread_id, then ScopedPrSetDumpable, and SignalCrashDump()
\* blocks kDumpDoneSignal before it sends the request.
WriteThreadId(t) ==
    LET p == ProcessOf[t]
    IN  /\ At(t, "threadId")
        /\ thread' = [thread EXCEPT ![t].pc = "send", ![t].restore = ~proc[p].dumpable]
        /\ proc' = [proc EXCEPT ![p].info.thread = t, ![p].dumpable = TRUE]
        /\ UNCHANGED <<socketVars, attached>>

\* SendCrashDumpRequest(); when it fails SignalCrashDump() returns at once.
SendCrashDumpRequest(t) ==
    /\ At(t, "send")
    /\ IF sockOpen
         THEN /\ thread' = [thread EXCEPT ![t].pc = "sigwait", ![t].asked = @ + 1]
              /\ queue' = Append(queue, [type |-> "CrashDumpRequest", from |-> ProcessOf[t],
                                         thread |-> t, number |-> thread[t].asked + 1])
         ELSE thread' = [thread EXCEPT ![t].pc = "unblock"] /\ UNCHANGED queue
    /\ UNCHANGED <<proc, replies, sockOpen, attached>>

\* sys_sigtimedwait() takes the signal,
SigTimedWait(t) ==
    /\ At(t, "sigwait") /\ thread[t].pending
    /\ thread' = [thread EXCEPT ![t].pc = "unblock", ![t].pending = FALSE]
    /\ UNCHANGED <<proc, socketVars, attached>>

\* Mutant: the wait has no time limit.
SigTimedWaitTimeoutMutant(t) == FALSE /\ SigTimedWait(t)

\* or five seconds pass.
SigTimedWaitTimeout(t) ==
    /\ Goto(t, "sigwait", "unblock")
    /\ proc' = [proc EXCEPT ![ProcessOf[t]].loose = TRUE]
    /\ UNCHANGED <<socketVars, attached>>

\* HandleCrash() returns: the signal is unblocked (a pending one is ignored, as
\* its default action is), ~ScopedPrSetDumpable() runs, and a thread that crashed
\* calls WakeThreads().
HandleCrashReturns(t) ==
    LET p == ProcessOf[t]
    IN  /\ At(t, "unblock")
        /\ thread' = [thread EXCEPT ![t].pc = IF thread[t].dying THEN "reraise" ELSE "run",
                        ![t].pending = FALSE, ![t].restore = FALSE]
        /\ proc' = [proc EXCEPT ![p].dumpable = @ /\ ~thread[t].restore,
                      ![p].dumpDone = @ \/ thread[t].dying]
        /\ UNCHANGED <<socketVars, attached>>

----------------------------------------------------------------------------
\* WaitForDumpDone(): FUTEX_WAIT returns when the futex is no longer kDumpNotDone,
WaitForDumpDone(t) ==
    /\ proc[ProcessOf[t]].dumpDone
    /\ Goto(t, "waitDone", "reraise")
    /\ UNCHANGED <<proc, socketVars, attached>>

\* or after five seconds.
WaitForDumpDoneTimeout(t) ==
    /\ Goto(t, "waitDone", "reraise")
    /\ proc' = [proc EXCEPT ![ProcessOf[t]].loose = TRUE]
    /\ UNCHANGED <<socketVars, attached>>

\* RestoreHandlerAndReraiseSignalOnReturn(): the old action is back, and the
\* signal kills the process, with the threads that are traced.
Reraise(t) ==
    LET p == ProcessOf[t]
    IN  /\ Goto(t, "reraise", "dead")
        /\ proc' = [proc EXCEPT ![p].alive = FALSE]
        /\ attached' = attached \ ThreadsOf(p)
        /\ UNCHANGED socketVars

ThreadStep(t) ==
    \/ HandleOrReraiseSignal(t) \/ Disable(t) \/ WriteContext(t) \/ WriteThreadId(t)
    \/ SendCrashDumpRequest(t) \/ SigTimedWait(t)
    \/ SigTimedWaitTimeout(t) \/ HandleCrashReturns(t)
    \/ WaitForDumpDone(t) \/ WaitForDumpDoneTimeout(t) \/ Reraise(t)

ClientNext ==
    \/ \E p \in Processes :
         SendCheckCredentials(p) \/ RecvCredentials(p) \/ InitializeWithPid(p)
    \/ \E t \in Threads :
         \/ CrashSignal(t) \/ FirstChanceHandler(t) \/ DumpWithoutCrash(t)
         \/ CrashWithoutDump(t) \/ ThreadStep(t)
=============================================================================
