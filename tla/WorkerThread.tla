---------------------------- MODULE WorkerThread ----------------------------
(***************************************************************************)
(* util/thread/worker_thread.cc: a thread that calls its delegate's        *)
(* DoWork() every interval, and at once when another thread calls          *)
(* DoWorkNow().  The upload thread and the prune thread are delegates.     *)
(*                                                                         *)
(* running_ is a plain bool that two threads use; it is modelled as the    *)
(* build treats it, read and written at once where the code names it.      *)
(***************************************************************************)
EXTENDS Naturals

CONSTANTS
    Owner,        \* the thread that calls Start() and Stop()
    Callers,      \* the threads that call DoWorkNow()
    Interval,     \* work_interval_: "finite" or "indefinite"
    InitialDelay, \* initial_work_delay: "zero", "finite" or "indefinite"
    MayStop,      \* does the owner ever call Stop()?
    MaxSignals    \* bound: DoWorkNow() is not called when the semaphore is this high

ASSUME WorkerAssumption ==
    /\ Interval \in {"finite", "indefinite"}
    /\ InitialDelay \in {"zero", "finite", "indefinite"}
    /\ MayStop \in BOOLEAN
    /\ MaxSignals \in Nat

VARIABLES
    running,   \* running_
    doWorkNow, \* do_work_now_
    count,     \* the value of semaphore_
    worker,    \* where ThreadMain() is; "none" while impl_ is null
    pc,        \* pc[t]: where thread t is in Start(), Stop() or DoWorkNow()
    asked      \* this thread was asked to DoWorkNow() and has not called DoWork() since

workerVars == <<running, doWorkNow, count, worker, pc, asked>>

Threads == Callers \cup {Owner}

WorkerTypeOK ==
    /\ running \in BOOLEAN
    /\ doWorkNow \in BOOLEAN
    /\ count \in Nat
    /\ worker \in {"none", "starting", "check", "working", "clear", "waiting", "exited"}
    /\ pc \in [Threads -> {"idle", "flag", "signal", "signalStop", "join"}]
    /\ asked \in BOOLEAN

WorkerInit ==
    /\ running = FALSE
    /\ doWorkNow = FALSE
    /\ count = 0
    /\ worker = "none"
    /\ pc = [t \in Threads |-> "idle"]
    /\ asked = FALSE

----------------------------------------------------------------------------
(***************************************************************************)
(* Start(), Stop() and DoWorkNow().                                        *)
(***************************************************************************)

\* Start(): a new WorkerThreadImpl, its semaphore zero.
StartThread ==
    /\ pc[Owner] = "idle"
    /\ worker = "none"
    /\ ~running
    /\ running' = TRUE
    /\ count' = 0
    /\ worker' = "starting"
    /\ asked' = FALSE
    /\ UNCHANGED <<doWorkNow, pc>>

\* Stop() clears running_ ...
StopRunning ==
    /\ MayStop
    /\ pc[Owner] = "idle"
    /\ running
    /\ running' = FALSE
    /\ pc' = [pc EXCEPT ![Owner] = "signalStop"]
    /\ UNCHANGED <<doWorkNow, count, worker, asked>>

\* Mutant: Stop() joins without waking the thread.
SignalStopMutant ==
    /\ pc[Owner] = "signalStop"
    /\ pc' = [pc EXCEPT ![Owner] = "join"]
    /\ UNCHANGED <<running, doWorkNow, count, worker, asked>>

\* ... wakes the thread ...
SignalStop ==
    /\ pc[Owner] = "signalStop"
    /\ count' = count + 1
    /\ pc' = [pc EXCEPT ![Owner] = "join"]
    /\ UNCHANGED <<running, doWorkNow, worker, asked>>

\* ... and joins it and destroys the WorkerThreadImpl.
Join ==
    /\ pc[Owner] = "join"
    /\ worker = "exited"
    /\ worker' = "none"
    /\ count' = 0
    /\ pc' = [pc EXCEPT ![Owner] = "idle"]
    /\ UNCHANGED <<running, doWorkNow, asked>>

\* A thread sees is_running() and calls DoWorkNow(), ...
CallDoWorkNow(t) ==
    /\ pc[t] = "idle"
    /\ running
    /\ count < MaxSignals
    /\ pc' = [pc EXCEPT ![t] = "flag"]
    /\ UNCHANGED <<running, doWorkNow, count, worker, asked>>

\* ... which sets do_work_now_ ...
SetDoWorkNow(t) ==
    /\ pc[t] = "flag"
    /\ doWorkNow' = TRUE
    /\ asked' = TRUE
    /\ pc' = [pc EXCEPT ![t] = "signal"]
    /\ UNCHANGED <<running, count, worker>>

\* Mutant: DoWorkNow() wakes the thread only if it is waiting already.
SignalSemaphoreMutant(t) ==
    /\ pc[t] = "signal"
    /\ count' = IF worker = "waiting" THEN count + 1 ELSE count
    /\ pc' = [pc EXCEPT ![t] = "idle"]
    /\ UNCHANGED <<running, doWorkNow, worker, asked>>

\* ... and wakes the thread through impl_, which must still be there.
SignalSemaphore(t) ==
    /\ pc[t] = "signal"
    /\ worker # "none"
    /\ count' = count + 1
    /\ pc' = [pc EXCEPT ![t] = "idle"]
    /\ UNCHANGED <<running, doWorkNow, worker, asked>>

----------------------------------------------------------------------------
(***************************************************************************)
(* WorkerThreadImpl::ThreadMain().                                         *)
(***************************************************************************)

\* Semaphore::TimedWait() returns: the semaphore was signalled, or a finite
\* time has passed and it is zero.
TimedWait(time) ==
    IF count > 0 THEN count' = count - 1
    ELSE time = "finite" /\ UNCHANGED count

\* The initial delay is over, or there is none.
InitialWait ==
    /\ worker = "starting"
    /\ IF InitialDelay = "zero" THEN UNCHANGED count ELSE TimedWait(InitialDelay)
    /\ worker' = "check"
    /\ UNCHANGED <<running, doWorkNow, pc, asked>>

\* The loop's condition, and the call of DoWork().
Check ==
    /\ worker = "check"
    /\ IF running \/ doWorkNow
         THEN worker' = "working" /\ asked' = FALSE
         ELSE worker' = "exited" /\ UNCHANGED asked
    /\ UNCHANGED <<running, doWorkNow, count, pc>>

\* DoWork() returns.
WorkDone ==
    /\ worker = "working"
    /\ worker' = "clear"
    /\ UNCHANGED <<running, doWorkNow, count, pc, asked>>

\* do_work_now_ = false.
ClearDoWorkNow ==
    /\ worker = "clear"
    /\ doWorkNow' = FALSE
    /\ worker' = "waiting"
    /\ UNCHANGED <<running, count, pc, asked>>

\* The wait for the next interval.
IntervalWait ==
    /\ worker = "waiting"
    /\ TimedWait(Interval)
    /\ worker' = "check"
    /\ UNCHANGED <<running, doWorkNow, pc, asked>>

----------------------------------------------------------------------------
OwnerNext == StartThread \/ StopRunning \/ SignalStop \/ Join

CallerNext(t) == CallDoWorkNow(t) \/ SetDoWorkNow(t) \/ SignalSemaphore(t)

ThreadMain == InitialWait \/ Check \/ WorkDone \/ ClearDoWorkNow \/ IntervalWait

WorkerNext == OwnerNext \/ ThreadMain \/ \E t \in Callers : CallerNext(t)

WorkerSpec == WorkerInit /\ [][WorkerNext]_workerVars

\* The scheduler runs every thread, finite waits end, and DoWork() returns.
WorkerFairness ==
    /\ WF_workerVars(ThreadMain)
    /\ WF_workerVars(SignalStop) /\ WF_workerVars(Join)
    /\ \A t \in Callers : WF_workerVars(SetDoWorkNow(t)) /\ WF_workerVars(SignalSemaphore(t))

WorkerFairSpec == WorkerSpec /\ WorkerFairness

----------------------------------------------------------------------------
(***************************************************************************)
(* Properties.                                                             *)
(***************************************************************************)

\* No wake-up is lost: while the thread runs, a request that DoWorkNow() has
\* finished making is one that the thread is about to see.  (Nothing but the
\* semaphore makes this so: do_work_now_ is cleared after DoWork().)
RequestSeen ==
    running /\ asked /\ (\A t \in Callers : pc[t] # "signal") =>
      count > 0 \/ worker = "check"

\* Stop() never waits for a thread that waits for ever: while Stop() joins, the
\* thread has left its loop or has a signal left to leave it with.
StopNotStuck ==
    pc[Owner] = "join" =>
      \/ worker = "exited"
      \/ worker = "check" /\ ~doWorkNow
      \/ count > 0

\* Every DoWorkNow() is followed by a DoWork() that starts after it, unless the
\* thread is stopped first.
WorkServed == asked ~> ~asked \/ ~running

\* Stop() returns.
StopReturns == pc[Owner] = "join" ~> pc[Owner] = "idle"
=============================================================================
