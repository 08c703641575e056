------------------------- MODULE LinuxCaptureProofs ------------------------
(***************************************************************************)
(* Proofs about LinuxCapture, for any clients with any threads and any     *)
(* system that the handler finds itself on.                                *)
(***************************************************************************)
EXTENDS LinuxCapture, TLAPS

\* The messages and the server's variable.
Message ==
    [type : {"none", "CheckCredentials", "CrashDumpRequest"}, from : Processes \cup {None},
     thread : Threads \cup {None}, number : Nat]
Info == [context : Threads \cup {None}, thread : Threads \cup {None}]
ServerState ==
    [pc : {"idle", "attach", "snapshot", "write", "wake", "exited"}, req : Message,
     tried : SUBSET Threads, snap : Info, tid : Threads \cup {None}, wake : SUBSET Threads,
     quit : BOOLEAN]

\* The server has a request in its hands that it is not done with.
Busy == server.pc \in {"attach", "snapshot", "write"}

\* A message m of a thread is one that asks for a dump of its process.
AsksFor(m, t) == m.type = "CrashDumpRequest" /\ m.thread = t
FromThread(m) ==
    m.type = "CrashDumpRequest" => m.thread \in Threads /\ m.from = ProcessOf[m.thread]

Types ==
    /\ TypeOK
    /\ queue \in Seq(Message)
    /\ server \in ServerState
    /\ \A i \in DOMAIN queue : FromThread(queue[i])
    /\ server.pc \notin {"idle", "exited"} =>
         server.req.type = "CrashDumpRequest" /\ FromThread(server.req)
    /\ server.pc = "wake" => server.tried = {}
    /\ server.pc = "write" => server.tid \in {None, server.req.thread}

\* A thread that dies is in the handler for good, and asks once more at the most.
AskedBound ==
    \A t \in Threads :
      /\ thread[t].dying =>
           thread[t].pc \in {"context", "threadId", "send", "sigwait", "unblock",
                             "waitDone", "reraise", "dead"}
      /\ ~thread[t].dying => thread[t].asked <= MaxDumps
      /\ thread[t].pc \in {"context", "threadId", "send"} =>
           /\ thread[t].asked <= MaxDumps
           /\ ~thread[t].dying => thread[t].asked < MaxDumps

\* The requests of a thread are served in the order in which it has sent them.
InOrder ==
    /\ \A i, j \in DOMAIN queue : \A t \in Threads :
         i < j /\ AsksFor(queue[i], t) /\ AsksFor(queue[j], t) =>
           queue[i].number < queue[j].number
    /\ \A i \in DOMAIN queue : \A t \in Threads :
         AsksFor(queue[i], t) =>
           /\ thread[t].served < queue[i].number /\ queue[i].number <= thread[t].asked
           /\ Busy /\ server.req.thread = t => server.req.number < queue[i].number
    /\ \A t \in Threads : thread[t].served <= thread[t].asked
    /\ Busy =>
         /\ thread[server.req.thread].served < server.req.number
         /\ server.req.number <= thread[server.req.thread].asked

\* HandleCrash() was called for a crash and has not returned.
Crasher(t) ==
    thread[t].dying /\ thread[t].pc \in {"context", "threadId", "send", "sigwait", "unblock"}

\* disabled_ lets one thread in at most, and the futex is set once it has returned.
OneCrasher ==
    /\ \A t \in Threads :
         LET p == proc[ProcessOf[t]]
         IN  ~p.disabled => /\ ~thread[t].dying /\ ~p.dumpDone
                            /\ thread[t].pc \notin {"disable", "waitDone", "reraise", "dead"}
    /\ \A t, u \in Threads :
         ProcessOf[t] = ProcessOf[u] /\ Crasher(t) =>
           /\ ~proc[ProcessOf[t]].dumpDone
           /\ thread[u].pc # "disable"
           /\ u # t => ~Crasher(u)
           /\ ~proc[ProcessOf[t]].loose => thread[u].pc \notin {"reraise", "dead"}

\* As long as nothing in its process has timed out and no signal was sent to all
\* its threads, a thread waits for the dump it has asked for last: neither an
\* earlier request nor a signal that is left over stands in the way.
InStepWithServer ==
    \A t \in Threads : ~proc[ProcessOf[t]].loose =>
      /\ UnderWay(t) => thread[t].pc = "sigwait"
      /\ thread[t].pending => thread[t].pc = "sigwait" /\ ~UnderWay(t)
      /\ server.pc = "wake" /\ t \in server.wake =>
           thread[t].pc = "sigwait" /\ ~UnderWay(t) /\ ~thread[t].pending
      /\ Busy /\ server.req.thread = t => server.req.number = thread[t].asked
      /\ \A i \in DOMAIN queue : AsksFor(queue[i], t) => queue[i].number = thread[t].asked

\* t has written exception_information_ and HandleCrash() has not returned.
Past(t) == thread[t].pc \in {"threadId", "send", "sigwait", "unblock"}

\* As long as no two threads of a process have overlapped, exception_information_
\* and the dumpable flag are those of the one that is being served.
OneRequester ==
    \A t \in Threads : ~proc[ProcessOf[t]].overlap =>
      /\ \A u \in Threads \ {t} :
           ProcessOf[u] = ProcessOf[t] /\ (Past(t) \/ UnderWay(t)) => ~Past(u) /\ ~UnderWay(u)
      /\ Past(t) \/ UnderWay(t) => proc[ProcessOf[t]].info.context = t
      /\ Blocked(t) \/ UnderWay(t) => proc[ProcessOf[t]].info.thread = t
      /\ Blocked(t) => proc[ProcessOf[t]].dumpable

Inv ==
    /\ Types /\ AskedBound /\ InOrder /\ OneCrasher /\ InStepWithServer /\ OneRequester
    /\ DiesAfterDump /\ ReportNamesRequester

----------------------------------------------------------------------------
(***************************************************************************)
(* What the proofs use of the invariant, and what steps of the clients do  *)
(* not disturb.                                                            *)
(***************************************************************************)

LEMMA Parts ==
    ASSUME Inv
    PROVE  /\ Types /\ AskedBound /\ InOrder /\ OneCrasher /\ InStepWithServer
           /\ OneRequester /\ DiesAfterDump /\ ReportNamesRequester
           /\ proc \in [Processes -> ProcessState] /\ thread \in [Threads -> ThreadState]
           /\ \A t \in Threads :
                /\ ProcessOf[t] \in Processes
                /\ thread[t].asked \in Nat /\ thread[t].served \in Nat
           /\ MaxDumps \in Nat
           /\ server.pc # "idle" /\ server.pc # "exited" =>
                server.req.thread \in Threads /\ server.req.from = ProcessOf[server.req.thread]
           /\ Busy => server.req.thread \in Threads
  BY SignalAssumption DEF Inv, Types, TypeOK, FromThread, ThreadState, Busy

LEMMA ClientTypes ==
    ASSUME Inv, thread' \in [Threads -> ThreadState], proc' \in [Processes -> ProcessState],
           UNCHANGED <<queue, server, replies, sockOpen>>, attached' \subseteq attached
    PROVE  Types'
  BY Parts DEF Types, TypeOK, FromThread

LEMMA OrderKept ==
    ASSUME Inv, UNCHANGED <<queue, server>>,
           \A t \in Threads : thread'[t].asked = thread[t].asked /\
                              thread'[t].served = thread[t].served
    PROVE  InOrder'
  BY Parts DEF InOrder, Busy, AsksFor

LEMMA CrasherKept ==
    ASSUME Inv, UNCHANGED proc, NEW t \in Threads, Past(t), Past(t)',
           thread'[t].dying = thread[t].dying,
           \A u \in Threads \ {t} : thread'[u] = thread[u]
    PROVE  OneCrasher'
<1>1. \A u \in Threads :
        /\ Crasher(u)' = Crasher(u) /\ thread'[u].dying = thread[u].dying
        /\ \A l \in {"disable", "waitDone", "reraise", "dead"} :
             thread'[u].pc = l => thread[u].pc = l
  BY DEF Crasher, Past
<1> QED
  BY <1>1, Parts DEF OneCrasher

LEMMA NamesKept ==
    ASSUME Inv, UNCHANGED server, \A p \in Processes : proc[p].overlap => proc'[p].overlap
    PROVE  ReportNamesRequester'
  BY Parts DEF ReportNamesRequester

----------------------------------------------------------------------------
(***************************************************************************)
(* The clients' steps.                                                     *)
(***************************************************************************)

\* A thread comes into the handler,
LEMMA CrashSignalInv ==
    ASSUME Inv, NEW t \in Threads, CrashSignal(t), UNCHANGED server
    PROVE  Inv'
<1> DEFINE p == ProcessOf[t]
<1>1. thread[t].pc = "run" /\ proc[p].alive
  BY DEF CrashSignal, Goto, At
<1>2. thread' \in [Threads -> ThreadState]
  BY Parts DEF ThreadState, CrashSignal, Goto, At
<1>3. /\ thread'[t].pc = "signal" /\ thread'[t].dying = thread[t].dying
      /\ thread'[t].pending = thread[t].pending /\ thread'[t].asked = thread[t].asked
      /\ thread'[t].served = thread[t].served
      /\ \A u \in Threads \ {t} : thread'[u] = thread[u]
  BY Parts DEF ThreadState, CrashSignal, Goto, At
<1>4. UNCHANGED proc /\ proc' \in [Processes -> ProcessState]
  BY Parts DEF CrashSignal, Goto, At
<1>5. UNCHANGED <<queue, server, replies, sockOpen>> /\ attached' \subseteq attached
  BY DEF socketVars, CrashSignal, Goto, At
<1>6. Types'
  BY <1>2, <1>4, <1>5, ClientTypes
<1>7. InOrder'
  BY <1>3, <1>5, OrderKept
<1>8. ReportNamesRequester'
  BY <1>4, <1>5, NamesKept, Parts
<1>9. AskedBound'
  BY <1>1, <1>3, <1>4, <1>5, Parts DEF AskedBound
<1>10. OneCrasher'
  BY <1>1, <1>3, <1>4, <1>5, Parts DEF OneCrasher, Crasher
<1>11. InStepWithServer'
  BY <1>1, <1>3, <1>4, <1>5, Parts DEF InStepWithServer, UnderWay, AsksFor, Busy
<1>12. OneRequester'
  BY <1>1, <1>3, <1>4, <1>5, Parts DEF OneRequester, Past, UnderWay, Blocked
<1>13. DiesAfterDump'
  BY <1>1, <1>3, <1>4, <1>5, Parts DEF DiesAfterDump, UnderWay
<1> QED
  BY <1>6, <1>7, <1>8, <1>9, <1>10, <1>11, <1>12, <1>13 DEF Inv

\* and may leave it at once.
LEMMA FirstChanceHandlerInv ==
    ASSUME Inv, NEW t \in Threads, FirstChanceHandler(t), UNCHANGED server
    PROVE  Inv'
<1> DEFINE p == ProcessOf[t]
<1>1. thread[t].pc = "signal" /\ proc[p].alive
  BY DEF FirstChanceHandler, Goto, At
<1>2. thread' \in [Threads -> ThreadState]
  BY Parts DEF ThreadState, FirstChanceHandler, Goto, At
<1>3. /\ thread'[t].pc = "run" /\ thread'[t].dying = thread[t].dying
      /\ thread'[t].pending = thread[t].pending /\ thread'[t].asked = thread[t].asked
      /\ thread'[t].served = thread[t].served
      /\ \A u \in Threads \ {t} : thread'[u] = thread[u]
  BY Parts DEF ThreadState, FirstChanceHandler, Goto, At
<1>4. UNCHANGED proc /\ proc' \in [Processes -> ProcessState]
  BY Parts DEF FirstChanceHandler, Goto, At
<1>5. UNCHANGED <<queue, server, replies, sockOpen>> /\ attached' \subseteq attached
  BY DEF socketVars, FirstChanceHandler, Goto, At
<1>6. Types'
  BY <1>2, <1>4, <1>5, ClientTypes
<1>7. InOrder'
  BY <1>3, <1>5, OrderKept
<1>8. ReportNamesRequester'
  BY <1>4, <1>5, NamesKept, Parts
<1>9. AskedBound'
  BY <1>1, <1>3, <1>4, <1>5, Parts DEF AskedBound
<1>10. OneCrasher'
  BY <1>1, <1>3, <1>4, <1>5, Parts DEF OneCrasher, Crasher
<1>11. InStepWithServer'
  BY <1>1, <1>3, <1>4, <1>5, Parts DEF InStepWithServer, UnderWay, AsksFor, Busy
<1>12. OneRequester'
  BY <1>1, <1>3, <1>4, <1>5, Parts DEF OneRequester, Past, UnderWay, Blocked
<1>13. DiesAfterDump'
  BY <1>1, <1>3, <1>4, <1>5, Parts DEF DiesAfterDump, UnderWay
<1> QED
  BY <1>6, <1>7, <1>8, <1>9, <1>10, <1>11, <1>12, <1>13 DEF Inv

\* The one that finds disabled_ not set is the one crasher.
LEMMA HandleOrReraiseSignalInv ==
    ASSUME Inv, NEW t \in Threads, HandleOrReraiseSignal(t), UNCHANGED server
    PROVE  Inv'
<1> DEFINE p == ProcessOf[t]
<1>1. thread[t].pc = "signal" /\ proc[p].alive
  BY DEF HandleOrReraiseSignal, At
<1>2. thread' \in [Threads -> ThreadState]
  BY Parts DEF ThreadState, HandleOrReraiseSignal, At
<1>3. /\ thread'[t].dying = TRUE
      /\ thread'[t].pc = IF proc[p].disabled THEN "waitDone" ELSE "context"
      /\ thread'[t].pending = thread[t].pending /\ thread'[t].asked = thread[t].asked
      /\ thread'[t].served = thread[t].served
      /\ \A u \in Threads \ {t} : thread'[u] = thread[u]
  BY Parts DEF ThreadState, HandleOrReraiseSignal, At
<1>4. /\ proc' \in [Processes -> ProcessState] /\ proc'[p].disabled = TRUE
      /\ proc'[p].dumpDone = proc[p].dumpDone /\ proc'[p].dumpable = proc[p].dumpable
      /\ proc'[p].info = proc[p].info /\ proc'[p].loose = proc[p].loose
      /\ proc'[p].overlap = proc[p].overlap /\ proc'[p].alive = proc[p].alive
      /\ \A q \in Processes \ {p} : proc'[q] = proc[q]
  <2>1. proc[p] \in ProcessState
    BY Parts
  <2>2. [proc[p] EXCEPT !.disabled = TRUE] \in ProcessState
    BY <2>1 DEF ProcessState
  <2>3. /\ proc' \in [Processes -> ProcessState]
        /\ proc'[p] = [proc[p] EXCEPT !.disabled = TRUE]
        /\ \A q \in Processes \ {p} : proc'[q] = proc[q]
    BY <2>2, Parts DEF HandleOrReraiseSignal, At
  <2> QED
    BY <2>1, <2>3 DEF ProcessState
<1>5. UNCHANGED <<queue, server, replies, sockOpen>> /\ attached' \subseteq attached
  BY DEF socketVars, HandleOrReraiseSignal, At
<1>6. Types'
  BY <1>2, <1>4, <1>5, ClientTypes
<1>7. InOrder'
  BY <1>3, <1>5, OrderKept
<1>8. ReportNamesRequester'
  BY <1>4, <1>5, NamesKept, Parts
<1>9. AskedBound'
  BY <1>1, <1>3, <1>4, <1>5, Parts DEF AskedBound
<1>10. OneCrasher'
  BY <1>1, <1>3, <1>4, <1>5, Parts DEF OneCrasher, Crasher
<1>11. InStepWithServer'
  BY <1>1, <1>3, <1>4, <1>5, Parts DEF InStepWithServer, UnderWay, AsksFor, Busy
<1>12. OneRequester'
  BY <1>1, <1>3, <1>4, <1>5, Parts DEF OneRequester, Past, UnderWay, Blocked
<1>13. DiesAfterDump'
  BY <1>1, <1>3, <1>4, <1>5, Parts DEF DiesAfterDump, UnderWay
<1> QED
  BY <1>6, <1>7, <1>8, <1>9, <1>10, <1>11, <1>12, <1>13 DEF Inv

\* DumpWithoutCrash() is called by a thread that may ask once more.
LEMMA DumpWithoutCrashInv ==
    ASSUME Inv, NEW t \in Threads, DumpWithoutCrash(t), UNCHANGED server
    PROVE  Inv'
<1> DEFINE p == ProcessOf[t]
<1>1. thread[t].pc = "run" /\ proc[p].alive
  BY DEF DumpWithoutCrash, Goto, At
<1>2. thread' \in [Threads -> ThreadState]
  BY Parts DEF ThreadState, DumpWithoutCrash, Goto, At
<1>3. /\ thread'[t].pc = "context" /\ thread'[t].dying = thread[t].dying
      /\ thread'[t].pending = thread[t].pending /\ thread'[t].asked = thread[t].asked
      /\ thread'[t].served = thread[t].served
      /\ \A u \in Threads \ {t} : thread'[u] = thread[u]
  BY Parts DEF ThreadState, DumpWithoutCrash, Goto, At
<1>4. UNCHANGED proc /\ proc' \in [Processes -> ProcessState]
  BY Parts DEF DumpWithoutCrash, Goto, At
<1>5. UNCHANGED <<queue, server, replies, sockOpen>> /\ attached' \subseteq attached
  BY DEF socketVars, DumpWithoutCrash, Goto, At
<1>6. Types'
  BY <1>2, <1>4, <1>5, ClientTypes
<1>7. InOrder'
  BY <1>3, <1>5, OrderKept
<1>8. ReportNamesRequester'
  BY <1>4, <1>5, NamesKept, Parts
<1>9. AskedBound'
  <2>1. thread[t].asked < MaxDumps
    BY DEF DumpWithoutCrash
  <2> QED
    BY <1>1, <1>3, <2>1, Parts DEF AskedBound
<1>10. OneCrasher'
  BY <1>1, <1>3, <1>4, <1>5, Parts DEF OneCrasher, Crasher, AskedBound
<1>11. InStepWithServer'
  BY <1>1, <1>3, <1>4, <1>5, Parts DEF InStepWithServer, UnderWay, AsksFor, Busy
<1>12. OneRequester'
  BY <1>1, <1>3, <1>4, <1>5, Parts DEF OneRequester, Past, UnderWay, Blocked
<1>13. DiesAfterDump'
  BY <1>1, <1>3, <1>4, <1>5, Parts DEF DiesAfterDump, UnderWay
<1> QED
  BY <1>6, <1>7, <1>8, <1>9, <1>10, <1>11, <1>12, <1>13 DEF Inv

\* CrashWithoutDump() keeps crashers out that are not in yet,
LEMMA CrashWithoutDumpInv ==
    ASSUME Inv, NEW t \in Threads, CrashWithoutDump(t), UNCHANGED server
    PROVE  Inv'
<1> DEFINE p == ProcessOf[t]
<1>1. thread[t].pc = "run" /\ proc[p].alive
  BY DEF CrashWithoutDump, Goto, At
<1>2. thread' \in [Threads -> ThreadState]
  <2>1. \E l \in {"signal", "disable"} : thread' = [thread EXCEPT ![t].pc = l]
    BY DEF CrashWithoutDump, Goto, At
  <2> QED
    BY <2>1, Parts DEF ThreadState
<1>3. /\ thread'[t].pc = IF proc[p].disabled THEN "signal" ELSE "disable"
      /\ thread'[t].dying = thread[t].dying /\ thread'[t].pending = thread[t].pending
      /\ thread'[t].asked = thread[t].asked /\ thread'[t].served = thread[t].served
      /\ \A u \in Threads \ {t} : thread'[u] = thread[u]
  BY Parts DEF ThreadState, CrashWithoutDump, Goto, At
<1>4. /\ proc' \in [Processes -> ProcessState] /\ proc'[p].disabled = TRUE
      /\ proc'[p].dumpDone = proc[p].dumpDone /\ proc'[p].dumpable = proc[p].dumpable
      /\ proc'[p].info = proc[p].info /\ proc'[p].loose = proc[p].loose
      /\ proc'[p].overlap = proc[p].overlap /\ proc'[p].alive = proc[p].alive
      /\ \A q \in Processes \ {p} : proc'[q] = proc[q]
  <2>1. proc[p] \in ProcessState
    BY Parts
  <2>2. [proc[p] EXCEPT !.disabled = TRUE] \in ProcessState
    BY <2>1 DEF ProcessState
  <2>3. /\ proc' \in [Processes -> ProcessState]
        /\ proc'[p] = [proc[p] EXCEPT !.disabled = TRUE]
        /\ \A q \in Processes \ {p} : proc'[q] = proc[q]
    BY <2>2, Parts DEF CrashWithoutDump, Goto, At
  <2> QED
    BY <2>1, <2>3 DEF ProcessState
<1>5. UNCHANGED <<queue, server, replies, sockOpen>> /\ attached' \subseteq attached
  BY DEF socketVars, CrashWithoutDump, Goto, At
<1>6. Types'
  BY <1>2, <1>4, <1>5, ClientTypes
<1>7. InOrder'
  BY <1>3, <1>5, OrderKept
<1>8. ReportNamesRequester'
  BY <1>4, <1>5, NamesKept, Parts
<1>9. AskedBound'
  BY <1>1, <1>3, <1>4, <1>5, Parts DEF AskedBound
<1>10. OneCrasher'
  BY <1>1, <1>3, <1>4, <1>5, Parts DEF OneCrasher, Crasher
<1>11. InStepWithServer'
  BY <1>1, <1>3, <1>4, <1>5, Parts DEF InStepWithServer, UnderWay, AsksFor, Busy
<1>12. OneRequester'
  BY <1>1, <1>3, <1>4, <1>5, Parts DEF OneRequester, Past, UnderWay, Blocked
<1>13. DiesAfterDump'
  BY <1>1, <1>3, <1>4, <1>5, Parts DEF DiesAfterDump, UnderWay
<1> QED
  BY <1>6, <1>7, <1>8, <1>9, <1>10, <1>11, <1>12, <1>13 DEF Inv

\* and has seen that there is none when it sets the futex.
LEMMA DisableInv ==
    ASSUME Inv, NEW t \in Threads, Disable(t), UNCHANGED server
    PROVE  Inv'
<1> DEFINE p == ProcessOf[t]
<1>1. thread[t].pc = "disable" /\ proc[p].alive
  BY DEF Disable, Goto, At
<1>2. thread' \in [Threads -> ThreadState]
  BY Parts DEF ThreadState, Disable, Goto, At
<1>3. /\ thread'[t].pc = "signal" /\ thread'[t].dying = thread[t].dying
      /\ thread'[t].pending = thread[t].pending /\ thread'[t].asked = thread[t].asked
      /\ thread'[t].served = thread[t].served
      /\ \A u \in Threads \ {t} : thread'[u] = thread[u]
  BY Parts DEF ThreadState, Disable, Goto, At
<1>4. /\ proc' \in [Processes -> ProcessState] /\ proc'[p].dumpDone = TRUE
      /\ proc'[p].disabled = proc[p].disabled /\ proc'[p].dumpable = proc[p].dumpable
      /\ proc'[p].info = proc[p].info /\ proc'[p].loose = proc[p].loose
      /\ proc'[p].overlap = proc[p].overlap /\ proc'[p].alive = proc[p].alive
      /\ \A q \in Processes \ {p} : proc'[q] = proc[q]
  <2>1. proc[p] \in ProcessState
    BY Parts
  <2>2. [proc[p] EXCEPT !.dumpDone = TRUE] \in ProcessState
    BY <2>1 DEF ProcessState
  <2>3. /\ proc' \in [Processes -> ProcessState]
        /\ proc'[p] = [proc[p] EXCEPT !.dumpDone = TRUE]
        /\ \A q \in Processes \ {p} : proc'[q] = proc[q]
    BY <2>2, Parts DEF Disable, Goto, At
  <2> QED
    BY <2>1, <2>3 DEF ProcessState
<1>5. UNCHANGED <<queue, server, replies, sockOpen>> /\ attached' \subseteq attached
  BY DEF socketVars, Disable, Goto, At
<1>6. Types'
  BY <1>2, <1>4, <1>5, ClientTypes
<1>7. InOrder'
  BY <1>3, <1>5, OrderKept
<1>8. ReportNamesRequester'
  BY <1>4, <1>5, NamesKept, Parts
<1>9. AskedBound'
  BY <1>1, <1>3, <1>4, <1>5, Parts DEF AskedBound
<1>10. OneCrasher'
  BY <1>1, <1>3, <1>4, <1>5, Parts DEF OneCrasher, Crasher
<1>11. InStepWithServer'
  BY <1>1, <1>3, <1>4, <1>5, Parts DEF InStepWithServer, UnderWay, AsksFor, Busy
<1>12. OneRequester'
  BY <1>1, <1>3, <1>4, <1>5, Parts DEF OneRequester, Past, UnderWay, Blocked
<1>13. DiesAfterDump'
  BY <1>1, <1>3, <1>4, <1>5, Parts DEF DiesAfterDump, UnderWay
<1> QED
  BY <1>6, <1>7, <1>8, <1>9, <1>10, <1>11, <1>12, <1>13 DEF Inv

\* exception_information_ is written when nobody else's is in use, or that is noted.
LEMMA WriteContextInv ==
    ASSUME Inv, NEW t \in Threads, WriteContext(t), UNCHANGED server
    PROVE  Inv'
<1> DEFINE p == ProcessOf[t]
<1>1. thread[t].pc = "context" /\ proc[p].alive
  BY DEF WriteContext, Goto, At
<1>2. thread' \in [Threads -> ThreadState]
  BY Parts DEF ThreadState, WriteContext, Goto, At
<1>3. /\ thread'[t].pc = "threadId" /\ thread'[t].dying = thread[t].dying
      /\ thread'[t].pending = thread[t].pending /\ thread'[t].asked = thread[t].asked
      /\ thread'[t].served = thread[t].served
      /\ \A u \in Threads \ {t} : thread'[u] = thread[u]
  BY Parts DEF ThreadState, WriteContext, Goto, At
<1>4. /\ proc' \in [Processes -> ProcessState] /\ proc'[p].info.context = t
      /\ proc'[p].info.thread = proc[p].info.thread
      /\ (proc[p].overlap => proc'[p].overlap)
      /\ \A u \in ThreadsOf(p) \ {t} :
           ~proc'[p].overlap => ~InHandleCrash(u) /\ ~UnderWay(u)
      /\ proc'[p].disabled = proc[p].disabled /\ proc'[p].dumpDone = proc[p].dumpDone
      /\ proc'[p].dumpable = proc[p].dumpable /\ proc'[p].loose = proc[p].loose
      /\ proc'[p].alive = proc[p].alive
      /\ \A q \in Processes \ {p} : proc'[q] = proc[q]
  <2>1. PICK b \in BOOLEAN :
          /\ proc' = [proc EXCEPT ![p].info.context = t, ![p].overlap = b]
          /\ b = (proc[p].overlap \/ \E u \in ThreadsOf(p) \ {t} :
                                       InHandleCrash(u) \/ UnderWay(u))
    BY DEF WriteContext
  <2>2. proc[p] \in ProcessState
    BY Parts
  <2>3. [proc[p].info EXCEPT !.context = t] \in Info
    BY <2>2 DEF ProcessState, Info
  <2>4. [proc[p] EXCEPT !.info.context = t, !.overlap = b] \in ProcessState
    BY <2>2, <2>3 DEF ProcessState, Info
  <2>5. proc' \in [Processes -> ProcessState]
    BY <2>1, <2>4, Parts
  <2>6. /\ proc'[p] = [proc[p] EXCEPT !.info.context = t, !.overlap = b]
        /\ \A q \in Processes \ {p} : proc'[q] = proc[q]
    BY <2>1, Parts
  <2>7. /\ proc'[p].info.context = t /\ proc'[p].info.thread = proc[p].info.thread
        /\ proc'[p].overlap = b
        /\ proc'[p].disabled = proc[p].disabled /\ proc'[p].dumpDone = proc[p].dumpDone
        /\ proc'[p].dumpable = proc[p].dumpable /\ proc'[p].loose = proc[p].loose
        /\ proc'[p].alive = proc[p].alive
    BY <2>2, <2>6 DEF ProcessState
  <2>8. /\ proc[p].overlap => b
        /\ \A u \in ThreadsOf(p) \ {t} : ~b => ~InHandleCrash(u) /\ ~UnderWay(u)
    BY <2>1
  <2> QED
    BY <2>5, <2>6, <2>7, <2>8
<1>5. UNCHANGED <<queue, server, replies, sockOpen>> /\ attached' \subseteq attached
  BY DEF socketVars, WriteContext, Goto, At
<1>6. Types'
  BY <1>2, <1>4, <1>5, ClientTypes
<1>7. InOrder'
  BY <1>3, <1>5, OrderKept
<1>8. ReportNamesRequester'
  BY <1>4, <1>5, NamesKept, Parts
<1>9. AskedBound'
  BY <1>1, <1>3, <1>4, <1>5, Parts DEF AskedBound
<1>10. OneCrasher'
  BY <1>1, <1>3, <1>4, <1>5, Parts DEF OneCrasher, Crasher
<1>11. InStepWithServer'
  BY <1>1, <1>3, <1>4, <1>5, Parts DEF InStepWithServer, UnderWay, AsksFor, Busy
<1>12. OneRequester'
  BY <1>1, <1>3, <1>4, <1>5, Parts
  DEF OneRequester, Past, UnderWay, Blocked, InHandleCrash, ThreadsOf
<1>13. DiesAfterDump'
  BY <1>1, <1>3, <1>4, <1>5, Parts DEF DiesAfterDump, UnderWay
<1> QED
  BY <1>6, <1>7, <1>8, <1>9, <1>10, <1>11, <1>12, <1>13 DEF Inv

\* The second half of it belongs to the first.
LEMMA WriteThreadIdInv ==
    ASSUME Inv, NEW t \in Threads, WriteThreadId(t), UNCHANGED server
    PROVE  Inv'
<1> DEFINE p == ProcessOf[t]
<1>1. thread[t].pc = "threadId" /\ proc[p].alive
  BY DEF WriteThreadId, At
<1>2. thread' \in [Threads -> ThreadState]
  <2>1. PICK b \in BOOLEAN : thread' = [thread EXCEPT ![t].pc = "send", ![t].restore = b]
    BY DEF WriteThreadId
  <2>2. thread[t] \in ThreadState
    BY Parts
  <2>3. [thread[t] EXCEPT !.pc = "send", !.restore = b] \in ThreadState
    BY <2>2 DEF ThreadState
  <2> QED
    BY <2>1, <2>3, Parts
<1>3. /\ thread'[t].pc = "send" /\ thread'[t].dying = thread[t].dying
      /\ thread'[t].pending = thread[t].pending /\ thread'[t].asked = thread[t].asked
      /\ thread'[t].served = thread[t].served
      /\ \A u \in Threads \ {t} : thread'[u] = thread[u]
  BY Parts DEF ThreadState, WriteThreadId, At
<1>4. /\ proc' \in [Processes -> ProcessState]
      /\ proc'[p].info.context = proc[p].info.context /\ proc'[p].info.thread = t
      /\ proc'[p].dumpable = TRUE /\ proc'[p].disabled = proc[p].disabled
      /\ proc'[p].dumpDone = proc[p].dumpDone /\ proc'[p].loose = proc[p].loose
      /\ proc'[p].overlap = proc[p].overlap /\ proc'[p].alive = proc[p].alive
      /\ \A q \in Processes \ {p} : proc'[q] = proc[q]
  <2>1. proc[p] \in ProcessState
    BY Parts
  <2>2. [proc[p].info EXCEPT !.thread = t] \in Info
    BY <2>1 DEF ProcessState, Info
  <2>3. [proc[p] EXCEPT !.info.thread = t, !.dumpable = TRUE] \in ProcessState
    BY <2>1, <2>2 DEF ProcessState, Info
  <2>4. /\ proc' \in [Processes -> ProcessState]
        /\ proc'[p] = [proc[p] EXCEPT !.info.thread = t, !.dumpable = TRUE]
        /\ \A q \in Processes \ {p} : proc'[q] = proc[q]
    BY <2>3, Parts DEF WriteThreadId
  <2> QED
    BY <2>1, <2>4 DEF ProcessState
<1>5. UNCHANGED <<queue, server, replies, sockOpen>> /\ attached' \subseteq attached
  BY DEF socketVars, WriteThreadId, At
<1>6. Types'
  BY <1>2, <1>4, <1>5, ClientTypes
<1>7. InOrder'
  BY <1>3, <1>5, OrderKept
<1>8. ReportNamesRequester'
  BY <1>4, <1>5, NamesKept, Parts
<1>9. AskedBound'
  BY <1>1, <1>3, <1>4, <1>5, Parts DEF AskedBound
<1>10. OneCrasher'
  BY <1>1, <1>3, <1>4, <1>5, Parts DEF OneCrasher, Crasher
<1>11. InStepWithServer'
  BY <1>1, <1>3, <1>4, <1>5, Parts DEF InStepWithServer, UnderWay, AsksFor, Busy
<1>12. OneRequester'
  BY <1>1, <1>3, <1>4, <1>5, Parts DEF OneRequester, Past, UnderWay, Blocked
<1>13. DiesAfterDump'
  BY <1>1, <1>3, <1>4, <1>5, Parts DEF DiesAfterDump, UnderWay
<1> QED
  BY <1>6, <1>7, <1>8, <1>9, <1>10, <1>11, <1>12, <1>13 DEF Inv

\* The signal that ends the wait is the one for the request.
LEMMA SigTimedWaitInv ==
    ASSUME Inv, NEW t \in Threads, SigTimedWait(t), UNCHANGED server
    PROVE  Inv'
<1> DEFINE p == ProcessOf[t]
<1>1. thread[t].pc = "sigwait" /\ proc[p].alive
  BY DEF SigTimedWait, At
<1>2. thread' \in [Threads -> ThreadState]
  BY Parts DEF ThreadState, SigTimedWait, At
<1>3. /\ thread'[t].pc = "unblock" /\ thread'[t].pending = FALSE
      /\ thread'[t].dying = thread[t].dying /\ thread'[t].asked = thread[t].asked
      /\ thread'[t].served = thread[t].served
      /\ \A u \in Threads \ {t} : thread'[u] = thread[u]
  BY Parts DEF ThreadState, SigTimedWait, At
<1>4. UNCHANGED proc /\ proc' \in [Processes -> ProcessState]
  BY Parts DEF SigTimedWait, At
<1>5. UNCHANGED <<queue, server, replies, sockOpen>> /\ attached' \subseteq attached
  BY DEF socketVars, SigTimedWait, At
<1>6. Types'
  BY <1>2, <1>4, <1>5, ClientTypes
<1>7. InOrder'
  BY <1>3, <1>5, OrderKept
<1>8. ReportNamesRequester'
  BY <1>4, <1>5, NamesKept, Parts
<1>9. AskedBound'
  BY <1>1, <1>3, <1>4, <1>5, Parts DEF AskedBound
<1>10. OneCrasher'
  BY <1>1, <1>3, <1>4, <1>5, Parts DEF OneCrasher, Crasher
<1>11. InStepWithServer'
  <2>1. thread[t].pending
    BY DEF SigTimedWait
  <2> QED
    BY <1>1, <1>3, <1>4, <1>5, <2>1, Parts DEF InStepWithServer, UnderWay, AsksFor, Busy
<1>12. OneRequester'
  BY <1>1, <1>3, <1>4, <1>5, Parts DEF OneRequester, Past, UnderWay, Blocked
<1>13. DiesAfterDump'
  BY <1>1, <1>3, <1>4, <1>5, Parts DEF DiesAfterDump, UnderWay
<1> QED
  BY <1>6, <1>7, <1>8, <1>9, <1>10, <1>11, <1>12, <1>13 DEF Inv

\* A time out is noted.
LEMMA SigTimedWaitTimeoutInv ==
    ASSUME Inv, NEW t \in Threads, SigTimedWaitTimeout(t), UNCHANGED server
    PROVE  Inv'
<1> DEFINE p == ProcessOf[t]
<1>1. thread[t].pc = "sigwait" /\ proc[p].alive
  BY DEF SigTimedWaitTimeout, Goto, At
<1>2. thread' \in [Threads -> ThreadState]
  BY Parts DEF ThreadState, SigTimedWaitTimeout, Goto, At
<1>3. /\ thread'[t].pc = "unblock" /\ thread'[t].dying = thread[t].dying
      /\ thread'[t].pending = thread[t].pending /\ thread'[t].asked = thread[t].asked
      /\ thread'[t].served = thread[t].served
      /\ \A u \in Threads \ {t} : thread'[u] = thread[u]
  BY Parts DEF ThreadState, SigTimedWaitTimeout, Goto, At
<1>4. /\ proc' \in [Processes -> ProcessState] /\ proc'[p].loose = TRUE
      /\ proc'[p].disabled = proc[p].disabled /\ proc'[p].dumpDone = proc[p].dumpDone
      /\ proc'[p].dumpable = proc[p].dumpable /\ proc'[p].info = proc[p].info
      /\ proc'[p].overlap = proc[p].overlap /\ proc'[p].alive = proc[p].alive
      /\ \A q \in Processes \ {p} : proc'[q] = proc[q]
  <2>1. proc[p] \in ProcessState
    BY Parts
  <2>2. [proc[p] EXCEPT !.loose = TRUE] \in ProcessState
    BY <2>1 DEF ProcessState
  <2>3. /\ proc' \in [Processes -> ProcessState]
        /\ proc'[p] = [proc[p] EXCEPT !.loose = TRUE]
        /\ \A q \in Processes \ {p} : proc'[q] = proc[q]
    BY <2>2, Parts DEF SigTimedWaitTimeout, Goto, At
  <2> QED
    BY <2>1, <2>3 DEF ProcessState
<1>5. UNCHANGED <<queue, server, replies, sockOpen>> /\ attached' \subseteq attached
  BY DEF socketVars, SigTimedWaitTimeout, Goto, At
<1>6. Types'
  BY <1>2, <1>4, <1>5, ClientTypes
<1>7. InOrder'
  BY <1>3, <1>5, OrderKept
<1>8. ReportNamesRequester'
  BY <1>4, <1>5, NamesKept, Parts
<1>9. AskedBound'
  BY <1>1, <1>3, <1>4, <1>5, Parts DEF AskedBound
<1>10. OneCrasher'
  BY <1>1, <1>3, <1>4, <1>5, Parts DEF OneCrasher, Crasher
<1>11. InStepWithServer'
  BY <1>1, <1>3, <1>4, <1>5, Parts DEF InStepWithServer, UnderWay, AsksFor, Busy
<1>12. OneRequester'
  BY <1>1, <1>3, <1>4, <1>5, Parts DEF OneRequester, Past, UnderWay, Blocked
<1>13. DiesAfterDump'
  BY <1>1, <1>3, <1>4, <1>5, Parts DEF DiesAfterDump, UnderWay
<1> QED
  BY <1>6, <1>7, <1>8, <1>9, <1>10, <1>11, <1>12, <1>13 DEF Inv

\* The one crasher wakes the others, and the flag is put back for nobody else.
LEMMA HandleCrashReturnsInv ==
    ASSUME Inv, NEW t \in Threads, HandleCrashReturns(t), UNCHANGED server
    PROVE  Inv'
<1> DEFINE p == ProcessOf[t]
<1>1. thread[t].pc = "unblock" /\ proc[p].alive
  BY DEF HandleCrashReturns, At
<1>2. thread' \in [Threads -> ThreadState]
  <2>1. PICK l \in {"reraise", "run"} :
          thread' = [thread EXCEPT ![t].pc = l, ![t].pending = FALSE, ![t].restore = FALSE]
    BY DEF HandleCrashReturns
  <2>2. thread[t] \in ThreadState
    BY Parts
  <2>3. [thread[t] EXCEPT !.pc = l, !.pending = FALSE, !.restore = FALSE] \in ThreadState
    BY <2>2 DEF ThreadState
  <2> QED
    BY <2>1, <2>3, Parts
<1>3. /\ thread'[t].pc = IF thread[t].dying THEN "reraise" ELSE "run"
      /\ thread'[t].pending = FALSE /\ thread'[t].dying = thread[t].dying
      /\ thread'[t].asked = thread[t].asked /\ thread'[t].served = thread[t].served
      /\ \A u \in Threads \ {t} : thread'[u] = thread[u]
  BY Parts DEF ThreadState, HandleCrashReturns, At
<1>4. /\ proc' \in [Processes -> ProcessState] /\ proc'[p].dumpable \in BOOLEAN
      /\ (proc'[p].dumpDone => proc[p].dumpDone \/ thread[t].dying)
      /\ proc'[p].disabled = proc[p].disabled /\ proc'[p].info = proc[p].info
      /\ proc'[p].loose = proc[p].loose /\ proc'[p].overlap = proc[p].overlap
      /\ proc'[p].alive = proc[p].alive
      /\ \A q \in Processes \ {p} : proc'[q] = proc[q]
  <2>1. PICK b \in BOOLEAN, c \in BOOLEAN :
          /\ proc' = [proc EXCEPT ![p].dumpable = b, ![p].dumpDone = c]
          /\ c = (proc[p].dumpDone \/ thread[t].dying)
    BY DEF HandleCrashReturns
  <2>2. proc[p] \in ProcessState
    BY Parts
  <2>3. [proc[p] EXCEPT !.dumpable = b, !.dumpDone = c] \in ProcessState
    BY <2>2 DEF ProcessState
  <2>4. /\ proc' \in [Processes -> ProcessState]
        /\ proc'[p] = [proc[p] EXCEPT !.dumpable = b, !.dumpDone = c]
        /\ \A q \in Processes \ {p} : proc'[q] = proc[q]
    BY <2>1, <2>3, Parts
  <2>5. /\ proc'[p].dumpable = b /\ proc'[p].dumpDone = c
        /\ proc'[p].disabled = proc[p].disabled /\ proc'[p].info = proc[p].info
        /\ proc'[p].loose = proc[p].loose /\ proc'[p].overlap = proc[p].overlap
        /\ proc'[p].alive = proc[p].alive
    BY <2>2, <2>4 DEF ProcessState
  <2>6. c => proc[p].dumpDone \/ thread[t].dying
    BY <2>1
  <2> QED
    BY <2>4, <2>5, <2>6
<1>5. UNCHANGED <<queue, server, replies, sockOpen>> /\ attached' \subseteq attached
  BY DEF socketVars, HandleCrashReturns, At
<1>6. Types'
  BY <1>2, <1>4, <1>5, ClientTypes
<1>7. InOrder'
  BY <1>3, <1>5, OrderKept
<1>8. ReportNamesRequester'
  BY <1>4, <1>5, NamesKept, Parts
<1>9. AskedBound'
  BY <1>1, <1>3, <1>4, <1>5, Parts DEF AskedBound
<1>10. OneCrasher'
  BY <1>1, <1>3, <1>4, <1>5, Parts DEF OneCrasher, Crasher
<1>11. InStepWithServer'
  BY <1>1, <1>3, <1>4, <1>5, Parts DEF InStepWithServer, UnderWay, AsksFor, Busy
<1>12. OneRequester'
  BY <1>1, <1>3, <1>4, <1>5, Parts DEF OneRequester, Past, UnderWay, Blocked
<1>13. DiesAfterDump'
  BY <1>1, <1>3, <1>4, <1>5, Parts DEF DiesAfterDump, UnderWay
<1> QED
  BY <1>6, <1>7, <1>8, <1>9, <1>10, <1>11, <1>12, <1>13 DEF Inv

\* Whoever is woken finds that there is no crasher any more,
LEMMA WaitForDumpDoneInv ==
    ASSUME Inv, NEW t \in Threads, WaitForDumpDone(t), UNCHANGED server
    PROVE  Inv'
<1> DEFINE p == ProcessOf[t]
<1>1. thread[t].pc = "waitDone" /\ proc[p].alive
  BY DEF WaitForDumpDone, Goto, At
<1>2. thread' \in [Threads -> ThreadState]
  BY Parts DEF ThreadState, WaitForDumpDone, Goto, At
<1>3. /\ thread'[t].pc = "reraise" /\ thread'[t].dying = thread[t].dying
      /\ thread'[t].pending = thread[t].pending /\ thread'[t].asked = thread[t].asked
      /\ thread'[t].served = thread[t].served
      /\ \A u \in Threads \ {t} : thread'[u] = thread[u]
  BY Parts DEF ThreadState, WaitForDumpDone, Goto, At
<1>4. UNCHANGED proc /\ proc' \in [Processes -> ProcessState]
  BY Parts DEF WaitForDumpDone, Goto, At
<1>5. UNCHANGED <<queue, server, replies, sockOpen>> /\ attached' \subseteq attached
  BY DEF socketVars, WaitForDumpDone, Goto, At
<1>6. Types'
  BY <1>2, <1>4, <1>5, ClientTypes
<1>7. InOrder'
  BY <1>3, <1>5, OrderKept
<1>8. ReportNamesRequester'
  BY <1>4, <1>5, NamesKept, Parts
<1>9. AskedBound'
  BY <1>1, <1>3, <1>4, <1>5, Parts DEF AskedBound
<1>10. OneCrasher'
  <2>1. proc[p].dumpDone
    BY DEF WaitForDumpDone
  <2> QED
    BY <1>1, <1>3, <1>4, <1>5, <2>1, Parts DEF OneCrasher, Crasher
<1>11. InStepWithServer'
  BY <1>1, <1>3, <1>4, <1>5, Parts DEF InStepWithServer, UnderWay, AsksFor, Busy
<1>12. OneRequester'
  BY <1>1, <1>3, <1>4, <1>5, Parts DEF OneRequester, Past, UnderWay, Blocked
<1>13. DiesAfterDump'
  BY <1>1, <1>3, <1>4, <1>5, Parts DEF DiesAfterDump, UnderWay
<1> QED
  BY <1>6, <1>7, <1>8, <1>9, <1>10, <1>11, <1>12, <1>13 DEF Inv

\* or has not waited for it.
LEMMA WaitForDumpDoneTimeoutInv ==
    ASSUME Inv, NEW t \in Threads, WaitForDumpDoneTimeout(t), UNCHANGED server
    PROVE  Inv'
<1> DEFINE p == ProcessOf[t]
<1>1. thread[t].pc = "waitDone" /\ proc[p].alive
  BY DEF WaitForDumpDoneTimeout, Goto, At
<1>2. thread' \in [Threads -> ThreadState]
  BY Parts DEF ThreadState, WaitForDumpDoneTimeout, Goto, At
<1>3. /\ thread'[t].pc = "reraise" /\ thread'[t].dying = thread[t].dying
      /\ thread'[t].pending = thread[t].pending /\ thread'[t].asked = thread[t].asked
      /\ thread'[t].served = thread[t].served
      /\ \A u \in Threads \ {t} : thread'[u] = thread[u]
  BY Parts DEF ThreadState, WaitForDumpDoneTimeout, Goto, At
<1>4. /\ proc' \in [Processes -> ProcessState] /\ proc'[p].loose = TRUE
      /\ proc'[p].disabled = proc[p].disabled /\ proc'[p].dumpDone = proc[p].dumpDone
      /\ proc'[p].dumpable = proc[p].dumpable /\ proc'[p].info = proc[p].info
      /\ proc'[p].overlap = proc[p].overlap /\ proc'[p].alive = proc[p].alive
      /\ \A q \in Processes \ {p} : proc'[q] = proc[q]
  <2>1. proc[p] \in ProcessState
    BY Parts
  <2>2. [proc[p] EXCEPT !.loose = TRUE] \in ProcessState
    BY <2>1 DEF ProcessState
  <2>3. /\ proc' \in [Processes -> ProcessState]
        /\ proc'[p] = [proc[p] EXCEPT !.loose = TRUE]
        /\ \A q \in Processes \ {p} : proc'[q] = proc[q]
    BY <2>2, Parts DEF WaitForDumpDoneTimeout, Goto, At
  <2> QED
    BY <2>1, <2>3 DEF ProcessState
<1>5. UNCHANGED <<queue, server, replies, sockOpen>> /\ attached' \subseteq attached
  BY DEF socketVars, WaitForDumpDoneTimeout, Goto, At
<1>6. Types'
  BY <1>2, <1>4, <1>5, ClientTypes
<1>7. InOrder'
  BY <1>3, <1>5, OrderKept
<1>8. ReportNamesRequester'
  BY <1>4, <1>5, NamesKept, Parts
<1>9. AskedBound'
  BY <1>1, <1>3, <1>4, <1>5, Parts DEF AskedBound
<1>10. OneCrasher'
  BY <1>1, <1>3, <1>4, <1>5, Parts DEF OneCrasher, Crasher
<1>11. InStepWithServer'
  BY <1>1, <1>3, <1>4, <1>5, Parts DEF InStepWithServer, UnderWay, AsksFor, Busy
<1>12. OneRequester'
  BY <1>1, <1>3, <1>4, <1>5, Parts DEF OneRequester, Past, UnderWay, Blocked
<1>13. DiesAfterDump'
  BY <1>1, <1>3, <1>4, <1>5, Parts DEF DiesAfterDump, UnderWay
<1> QED
  BY <1>6, <1>7, <1>8, <1>9, <1>10, <1>11, <1>12, <1>13 DEF Inv

\* The process dies when its crasher has returned.
LEMMA ReraiseInv ==
    ASSUME Inv, NEW t \in Threads, Reraise(t), UNCHANGED server
    PROVE  Inv'
<1> DEFINE p == ProcessOf[t]
<1>1. thread[t].pc = "reraise" /\ proc[p].alive
  BY DEF Reraise, Goto, At
<1>2. thread' \in [Threads -> ThreadState]
  BY Parts DEF ThreadState, Reraise, Goto, At
<1>3. /\ thread'[t].pc = "dead" /\ thread'[t].dying = thread[t].dying
      /\ thread'[t].pending = thread[t].pending /\ thread'[t].asked = thread[t].asked
      /\ thread'[t].served = thread[t].served
      /\ \A u \in Threads \ {t} : thread'[u] = thread[u]
  BY Parts DEF ThreadState, Reraise, Goto, At
<1>4. /\ proc' \in [Processes -> ProcessState] /\ proc'[p].alive = FALSE
      /\ proc'[p].disabled = proc[p].disabled /\ proc'[p].dumpDone = proc[p].dumpDone
      /\ proc'[p].dumpable = proc[p].dumpable /\ proc'[p].info = proc[p].info
      /\ proc'[p].loose = proc[p].loose /\ proc'[p].overlap = proc[p].overlap
      /\ \A q \in Processes \ {p} : proc'[q] = proc[q]
  <2>1. proc[p] \in ProcessState
    BY Parts
  <2>2. [proc[p] EXCEPT !.alive = FALSE] \in ProcessState
    BY <2>1 DEF ProcessState
  <2>3. /\ proc' \in [Processes -> ProcessState]
        /\ proc'[p] = [proc[p] EXCEPT !.alive = FALSE]
        /\ \A q \in Processes \ {p} : proc'[q] = proc[q]
    BY <2>2, Parts DEF Reraise, Goto, At
  <2> QED
    BY <2>1, <2>3 DEF ProcessState
<1>5. UNCHANGED <<queue, server, replies, sockOpen>> /\ attached' \subseteq attached
  BY DEF socketVars, Reraise, Goto, At
<1>6. Types'
  BY <1>2, <1>4, <1>5, ClientTypes
<1>7. InOrder'
  BY <1>3, <1>5, OrderKept
<1>8. ReportNamesRequester'
  BY <1>4, <1>5, NamesKept, Parts
<1>9. AskedBound'
  BY <1>1, <1>3, <1>4, <1>5, Parts DEF AskedBound
<1>10. OneCrasher'
  BY <1>1, <1>3, <1>4, <1>5, Parts DEF OneCrasher, Crasher
<1>11. InStepWithServer'
  BY <1>1, <1>3, <1>4, <1>5, Parts DEF InStepWithServer, UnderWay, AsksFor, Busy
<1>12. OneRequester'
  BY <1>1, <1>3, <1>4, <1>5, Parts DEF OneRequester, Past, UnderWay, Blocked
<1>13. DiesAfterDump'
  <2>1. ASSUME NEW u \in Threads, ProcessOf[u] = p, ~proc[p].loose,
               thread[u].dying, UnderWay(u)
        PROVE  FALSE
    <3>1. thread[u].pc = "sigwait"
      BY <2>1, Parts DEF InStepWithServer
    <3>2. Crasher(u)
      BY <2>1, <3>1 DEF Crasher
    <3> QED
      BY <1>1, <2>1, <3>2, Parts DEF OneCrasher
  <2> QED
    BY <1>1, <1>3, <1>4, <2>1, Parts DEF DiesAfterDump, UnderWay
<1> QED
  BY <1>6, <1>7, <1>8, <1>9, <1>10, <1>11, <1>12, <1>13 DEF Inv


\* A request is sent when no earlier one of the thread is left, or that is noted.
LEMMA SendCrashDumpRequestInv ==
    ASSUME Inv, NEW t \in Threads, SendCrashDumpRequest(t), UNCHANGED server
    PROVE  Inv'
<1> DEFINE p == ProcessOf[t]
           m == [type |-> "CrashDumpRequest", from |-> p, thread |-> t,
                 number |-> thread[t].asked + 1]
<1>1. thread[t].pc = "send" /\ proc[p].alive /\ UNCHANGED <<proc, replies, sockOpen, attached>>
  BY DEF SendCrashDumpRequest, At
<1>2. thread[t] \in ThreadState /\ thread[t].asked <= MaxDumps
  BY <1>1, Parts DEF AskedBound
<1>3. CASE ~sockOpen
  <2>1. thread' = [thread EXCEPT ![t].pc = "unblock"] /\ queue' = queue
    BY <1>3 DEF SendCrashDumpRequest
  <2>2. [thread[t] EXCEPT !.pc = "unblock"] \in ThreadState
    BY <1>2 DEF ThreadState
  <2>3. /\ thread' \in [Threads -> ThreadState]
        /\ thread'[t] = [thread[t] EXCEPT !.pc = "unblock"]
        /\ \A u \in Threads \ {t} : thread'[u] = thread[u]
    BY <2>1, <2>2, Parts
  <2>4. /\ thread'[t].pc = "unblock" /\ thread'[t].dying = thread[t].dying
        /\ thread'[t].asked = thread[t].asked /\ thread'[t].served = thread[t].served
        /\ thread'[t].pending = thread[t].pending
    BY <1>2, <2>3 DEF ThreadState
  <2>5. Types'
    BY <1>1, <2>1, <2>3, Parts, ClientTypes
  <2>6. InOrder'
    BY <2>1, <2>3, <2>4, OrderKept
  <2>7. ReportNamesRequester'
    BY <1>1, NamesKept
  <2>8. AskedBound'
    BY <1>1, <2>3, <2>4, Parts DEF AskedBound
  <2>9. OneCrasher'
    BY <1>1, <2>3, <2>4, CrasherKept DEF Past
  <2>10. InStepWithServer'
    BY <1>1, <2>1, <2>3, <2>4, Parts DEF InStepWithServer, UnderWay, AsksFor, Busy
  <2>11. OneRequester'
    BY <1>1, <2>3, <2>4, Parts DEF OneRequester, Past, UnderWay, Blocked
  <2>12. DiesAfterDump'
    BY <1>1, <2>3, <2>4, Parts DEF DiesAfterDump, UnderWay
  <2> QED
    BY <2>5, <2>6, <2>7, <2>8, <2>9, <2>10, <2>11, <2>12 DEF Inv
<1>4. CASE sockOpen
  <2>1. /\ thread' = [thread EXCEPT ![t].pc = "sigwait", ![t].asked = @ + 1]
        /\ queue' = Append(queue, m)
    BY <1>4 DEF SendCrashDumpRequest
  <2>0. thread[t].asked + 1 \in 0 .. MaxDumps + 1
    BY <1>2, Parts
  <2>2. [thread[t] EXCEPT !.pc = "sigwait", !.asked = @ + 1] \in ThreadState
    BY <1>2, <2>0 DEF ThreadState
  <2>3. /\ thread' \in [Threads -> ThreadState]
        /\ thread'[t] = [thread[t] EXCEPT !.pc = "sigwait", !.asked = @ + 1]
        /\ \A u \in Threads \ {t} : thread'[u] = thread[u]
    BY <2>1, <2>2, Parts
  <2>4. /\ thread'[t].pc = "sigwait" /\ thread'[t].dying = thread[t].dying
        /\ thread'[t].asked = thread[t].asked + 1 /\ thread'[t].served = thread[t].served
        /\ thread'[t].pending = thread[t].pending
    BY <1>2, <2>3 DEF ThreadState
  <2>5. m \in Message /\ FromThread(m) /\ queue \in Seq(Message)
    BY Parts DEF Message, FromThread, Types
  <2>6. /\ queue' \in Seq(Message)
        /\ DOMAIN queue = 1 .. Len(queue) /\ DOMAIN queue' = 1 .. Len(queue) + 1
        /\ \A i \in DOMAIN queue : queue'[i] = queue[i]
        /\ queue'[Len(queue) + 1] = m /\ Len(queue) \in Nat
    BY <2>1, <2>5
  <2>7. Types'
    <3>1. \A i \in DOMAIN queue' : FromThread(queue'[i])
      BY <2>5, <2>6, Parts DEF Types
    <3>2. TypeOK'
      BY <1>1, <2>3, Parts DEF Types, TypeOK
    <3> QED
      BY <2>6, <3>1, <3>2, Parts DEF Types, FromThread
  <2>8. ReportNamesRequester'
    BY <1>1, NamesKept
  <2>9. AskedBound'
    <3>1. ~thread[t].dying => thread[t].asked + 1 <= MaxDumps
      BY <1>1, Parts DEF AskedBound
    <3> QED
      BY <1>1, <2>3, <2>4, <3>1, Parts DEF AskedBound
  <2>10. OneCrasher'
    BY <1>1, <2>3, <2>4, CrasherKept DEF Past
  <2>11. m.type = "CrashDumpRequest" /\ m.thread = t /\ m.number = thread[t].asked + 1
    OBVIOUS
  <2>12. InOrder'
    <3>1. ASSUME NEW u \in Threads
          PROVE  /\ thread'[u].served = thread[u].served
                 /\ thread'[u].asked \in Nat /\ thread[u].asked <= thread'[u].asked
      <4>1. thread[u].asked \in Nat
        BY Parts
      <4>2. CASE u = t
        BY <2>4, <4>1, <4>2
      <4>3. CASE u # t
        BY <2>3, <4>1, <4>3
      <4> QED
        BY <4>2, <4>3
    <3>2. ASSUME NEW i \in DOMAIN queue', NEW u \in Threads, AsksFor(queue'[i], u)
          PROVE  \/ i \in DOMAIN queue /\ AsksFor(queue[i], u) /\ queue'[i] = queue[i]
                 \/ i = Len(queue) + 1 /\ u = t /\ queue'[i].number = thread[t].asked + 1
      BY <2>6, <2>11, <3>2 DEF AsksFor
    <3>3. \A i, j \in DOMAIN queue' : \A u \in Threads :
            i < j /\ AsksFor(queue'[i], u) /\ AsksFor(queue'[j], u) =>
              queue'[i].number < queue'[j].number
      <4> SUFFICES ASSUME NEW i \in DOMAIN queue', NEW j \in DOMAIN queue', NEW u \in Threads,
                          i < j, AsksFor(queue'[i], u), AsksFor(queue'[j], u)
                   PROVE  queue'[i].number < queue'[j].number
        OBVIOUS
      <4>1. i \in DOMAIN queue /\ AsksFor(queue[i], u) /\ queue'[i] = queue[i]
        BY <2>6, <3>2
      <4>2. queue[i] \in Message
        BY <2>5, <4>1
      <4>3. queue[i].number \in Nat /\ thread[u].asked \in Nat
        BY <4>2, Parts DEF Message
      <4>4. queue[i].number <= thread[u].asked
        BY <4>1, Parts DEF InOrder
      <4>5. CASE j \in DOMAIN queue /\ AsksFor(queue[j], u) /\ queue'[j] = queue[j]
        BY <4>1, <4>5, Parts DEF InOrder
      <4>6. CASE u = t /\ queue'[j].number = thread[t].asked + 1
        BY <4>1, <4>3, <4>4, <4>6
      <4> QED
        BY <3>2, <4>5, <4>6
    <3>4. ASSUME NEW i \in DOMAIN queue', NEW u \in Threads, AsksFor(queue'[i], u)
          PROVE  /\ thread'[u].served < queue'[i].number
                 /\ queue'[i].number <= thread'[u].asked
                 /\ Busy' /\ server'.req.thread = u => server'.req.number < queue'[i].number
      <4>1. CASE i \in DOMAIN queue /\ AsksFor(queue[i], u) /\ queue'[i] = queue[i]
        <5>1. queue[i] \in Message
          BY <2>5, <4>1
        <5>2. queue[i].number \in Nat /\ thread[u].asked \in Nat
          BY <5>1, Parts DEF Message
        <5>3. queue[i].number <= thread[u].asked /\ thread[u].served < queue[i].number
          BY <4>1, Parts DEF InOrder
        <5>4. queue'[i].number <= thread'[u].asked
          BY <3>1, <4>1, <5>2, <5>3
        <5> QED
          BY <3>1, <4>1, <5>3, <5>4, Parts DEF InOrder, Busy
      <4>2. CASE u = t /\ queue'[i].number = thread[t].asked + 1
        <5>1. Busy => server.req.number \in Nat
          BY Parts DEF Types, ServerState, Message
        <5> QED
          BY <2>4, <4>2, <5>1, Parts DEF InOrder, Busy
      <4> QED
        BY <3>2, <3>4, <4>1, <4>2
    <3>5. Busy => server.req.number \in Nat
      BY Parts DEF Types, ServerState, Message
    <3>6. Busy' => /\ thread'[server.req.thread].served < server.req.number
                   /\ server.req.number <= thread'[server.req.thread].asked
      <4> SUFFICES ASSUME Busy
                   PROVE  /\ thread'[server.req.thread].served < server.req.number
                          /\ server.req.number <= thread'[server.req.thread].asked
        BY DEF Busy
      <4>1. server.req.thread \in Threads
        BY Parts
      <4>2. /\ thread[server.req.thread].served < server.req.number
            /\ server.req.number <= thread[server.req.thread].asked
            /\ thread[server.req.thread].asked \in Nat
        BY <4>1, Parts DEF InOrder
      <4> QED
        BY <3>1, <3>5, <4>1, <4>2
    <3>7. ASSUME NEW u \in Threads
          PROVE  thread'[u].served <= thread'[u].asked
      <4>1. thread[u].served <= thread[u].asked /\ thread[u].served \in Nat
            /\ thread[u].asked \in Nat
        BY Parts DEF InOrder
      <4> QED
        BY <3>1, <4>1
    <3> QED
      BY <3>3, <3>4, <3>6, <3>7 DEF InOrder
  <2>13. ~proc[p].loose =>
           /\ ~UnderWay(t) /\ ~thread[t].pending
           /\ ~(server.pc = "wake" /\ t \in server.wake)
           /\ ~(Busy /\ server.req.thread = t)
           /\ \A i \in DOMAIN queue : ~AsksFor(queue[i], t)
    BY <1>1, Parts DEF InStepWithServer, InOrder, UnderWay
  <2>14. ASSUME NEW u \in Threads \ {t}, ~proc[ProcessOf[u]].loose
         PROVE  \A i \in DOMAIN queue' :
                  AsksFor(queue'[i], u) => queue'[i].number = thread'[u].asked
    BY <2>3, <2>6, <2>11, <2>14, Parts DEF InStepWithServer, AsksFor
  <2>15. ~proc[p].loose => \A i \in DOMAIN queue' :
           AsksFor(queue'[i], t) => queue'[i].number = thread'[t].asked
    BY <2>4, <2>6, <2>11, <2>13 DEF AsksFor
  <2>16. InStepWithServer'
    <3>1. ASSUME NEW u \in Threads, ~proc[ProcessOf[u]].loose
          PROVE  \A i \in DOMAIN queue' :
                   AsksFor(queue'[i], u) => queue'[i].number = thread'[u].asked
      BY <2>14, <2>15, <3>1
    <3>2. ASSUME NEW u \in Threads, ~proc[ProcessOf[u]].loose
          PROVE  /\ UnderWay(u)' => thread'[u].pc = "sigwait"
                 /\ thread'[u].pending => thread'[u].pc = "sigwait" /\ ~UnderWay(u)'
                 /\ server.pc = "wake" /\ u \in server.wake =>
                      thread'[u].pc = "sigwait" /\ ~UnderWay(u)' /\ ~thread'[u].pending
                 /\ Busy /\ server.req.thread = u => server.req.number = thread'[u].asked
      <4>1. CASE u = t
        BY <2>4, <2>13, <3>2, <4>1
      <4>2. CASE u # t
        BY <2>3, <3>2, <4>2, Parts DEF InStepWithServer, UnderWay
      <4> QED
        BY <4>1, <4>2
    <3> QED
      BY <1>1, <3>1, <3>2 DEF InStepWithServer, Busy
  <2>17. OneRequester'
    BY <1>1, <2>3, <2>4, Parts DEF OneRequester, Past, UnderWay, Blocked
  <2>18. DiesAfterDump'
    BY <1>1, <2>3, <2>4, Parts DEF DiesAfterDump, UnderWay
  <2> QED
    BY <2>7, <2>8, <2>9, <2>10, <2>12, <2>16, <2>17, <2>18 DEF Inv
<1> QED
  BY <1>3, <1>4

\* Asking for the credentials does not touch what the dumps are about.
LEMMA InstallInv ==
    ASSUME Inv, NEW p \in Processes, NEW l \in {"asking", "yes", "failed"},
           proc' = [proc EXCEPT ![p].installed = l],
           UNCHANGED <<thread, sockOpen, attached, server>>, replies' \in Nat,
           \/ queue' = queue
           \/ queue' = Append(queue, [type |-> "CheckCredentials", from |-> p,
                                      thread |-> None, number |-> 0])
    PROVE  Inv'
<1> DEFINE m == [type |-> "CheckCredentials", from |-> p, thread |-> None, number |-> 0]
<1>1. proc[p] \in ProcessState
  BY Parts
<1>2. [proc[p] EXCEPT !.installed = l] \in ProcessState
  BY <1>1 DEF ProcessState
<1>3. /\ proc' \in [Processes -> ProcessState]
      /\ proc'[p] = [proc[p] EXCEPT !.installed = l]
      /\ \A q \in Processes \ {p} : proc'[q] = proc[q]
  BY <1>2, Parts
<1>4. \A q \in Processes :
        /\ proc'[q].alive = proc[q].alive /\ proc'[q].disabled = proc[q].disabled
        /\ proc'[q].dumpDone = proc[q].dumpDone /\ proc'[q].dumpable = proc[q].dumpable
        /\ proc'[q].info = proc[q].info
        /\ proc'[q].loose = proc[q].loose /\ proc'[q].overlap = proc[q].overlap
  BY <1>1, <1>3 DEF ProcessState
<1>5. m \in Message /\ FromThread(m) /\ queue \in Seq(Message) /\ m.type = "CheckCredentials"
  BY Parts DEF Message, FromThread, Types
<1>6. /\ queue' \in Seq(Message) /\ DOMAIN queue \subseteq Nat /\ DOMAIN queue' \subseteq Nat
      /\ \A i \in DOMAIN queue' :
           \/ i \in DOMAIN queue /\ queue'[i] = queue[i]
           \/ queue'[i] = m
  <2>1. CASE queue' = queue
    BY <1>5, <2>1
  <2>2. CASE queue' = Append(queue, m)
    BY <1>5, <2>2
  <2> QED
    BY <2>1, <2>2
<1>7. \A i \in DOMAIN queue', t \in Threads :
        AsksFor(queue'[i], t) => i \in DOMAIN queue /\ queue'[i] = queue[i]
  BY <1>5, <1>6 DEF AsksFor
<1>8. Types'
  <2>1. \A i \in DOMAIN queue' : FromThread(queue'[i])
    BY <1>5, <1>6, Parts DEF Types
  <2>2. TypeOK'
    BY <1>3, Parts DEF Types, TypeOK
  <2> QED
    BY <1>6, <2>1, <2>2, Parts DEF Types, FromThread
<1>9. InOrder'
  BY <1>6, <1>7, Parts DEF InOrder, Busy, AsksFor
<1>10. ReportNamesRequester'
  BY <1>4, NamesKept
<1>11. AskedBound' /\ OneCrasher'
  BY <1>4, Parts DEF AskedBound, OneCrasher, Crasher
<1>12. InStepWithServer'
  BY <1>4, <1>7, Parts DEF InStepWithServer, UnderWay, Busy, AsksFor
<1>13. OneRequester' /\ DiesAfterDump'
  BY <1>4, Parts DEF OneRequester, DiesAfterDump, Past, UnderWay, Blocked
<1> QED
  BY <1>8, <1>9, <1>10, <1>11, <1>12, <1>13 DEF Inv

LEMMA ClientInv ==
    ASSUME Inv, ClientNext, UNCHANGED server
    PROVE  Inv'
<1>1. ASSUME NEW p \in Processes,
             SendCheckCredentials(p) \/ RecvCredentials(p) \/ InitializeWithPid(p)
      PROVE  Inv'
  <2>1. replies \in Nat
    BY Parts DEF Types, TypeOK
  <2>2. CASE SendCheckCredentials(p)
    BY <2>1, <2>2, InstallInv DEF SendCheckCredentials
  <2>3. CASE RecvCredentials(p)
    <3>1. replies' \in Nat
      BY <2>1, <2>3 DEF RecvCredentials
    <3> QED
      BY <2>3, <3>1, InstallInv DEF RecvCredentials
  <2>4. CASE InitializeWithPid(p)
    BY <2>1, <2>4, InstallInv DEF InitializeWithPid, socketVars
  <2> QED
    BY <1>1, <2>2, <2>3, <2>4
<1> QED
  BY <1>1, CrashSignalInv, FirstChanceHandlerInv, HandleOrReraiseSignalInv,
     DumpWithoutCrashInv, CrashWithoutDumpInv, DisableInv, WriteContextInv, WriteThreadIdInv,
     SendCrashDumpRequestInv, SigTimedWaitInv, SigTimedWaitTimeoutInv, HandleCrashReturnsInv,
     WaitForDumpDoneInv, WaitForDumpDoneTimeoutInv, ReraiseInv
  DEF ClientNext, ThreadStep

----------------------------------------------------------------------------
(***************************************************************************)
(* The server's steps.                                                     *)
(***************************************************************************)

\* The server goes on with the request it has, or gives it up with all others.
LEMMA ServerQuiet ==
    ASSUME Inv, UNCHANGED <<proc, thread>>, queue' = queue \/ queue' = <<>>,
           Busy' => Busy /\ server'.req = server.req, server'.pc # "wake"
    PROVE  /\ AskedBound' /\ InOrder' /\ OneCrasher' /\ InStepWithServer' /\ OneRequester'
           /\ DiesAfterDump'
<1>1. \A i \in DOMAIN queue' : i \in DOMAIN queue /\ queue'[i] = queue[i]
  OBVIOUS
<1>2. AskedBound' /\ OneCrasher' /\ OneRequester' /\ DiesAfterDump'
  BY Parts DEF AskedBound, OneCrasher, Crasher, OneRequester, DiesAfterDump, Past, UnderWay,
     Blocked
<1>3. InOrder'
  BY <1>1, Parts DEF InOrder, AsksFor
<1>4. InStepWithServer'
  BY <1>1, Parts DEF InStepWithServer, AsksFor, UnderWay
<1> QED
  BY <1>2, <1>3, <1>4

LEMMA IdleTypes ==
    /\ Idle \in ServerState /\ [Idle EXCEPT !.pc = "exited"] \in ServerState
    /\ Idle.pc = "idle" /\ [Idle EXCEPT !.pc = "exited"].pc = "exited"
    /\ Idle.tried = {} /\ [Idle EXCEPT !.pc = "exited"].tried = {}
    /\ Idle.wake = {} /\ [Idle EXCEPT !.pc = "exited"].wake = {}
  BY DEF Idle, ServerState, NoRequest, NoInfo, Message, Info

LEMMA ExitedInv ==
    ASSUME Inv, Exited
    PROVE  Inv'
<1>1. /\ server' \in ServerState /\ server'.pc = "exited" /\ server'.tried = {}
      /\ server'.wake = {}
      /\ queue' = <<>> /\ attached' = {} /\ sockOpen' = FALSE
      /\ UNCHANGED <<proc, thread, replies>>
  BY IdleTypes DEF Exited
<1>2. TypeOK'
  BY <1>1, Parts DEF Types, TypeOK
<1>3. <<>> \in Seq(Message)
  OBVIOUS
<1>4. Types'
  BY <1>1, <1>2, <1>3 DEF Types
<1>5. ReportNamesRequester'
  BY <1>1 DEF ReportNamesRequester
<1>6. ~Busy'
  BY <1>1 DEF Busy
<1> QED
  BY <1>1, <1>4, <1>5, <1>6, ServerQuiet DEF Inv

\* The elements of the rest of a queue.
LEMMA RestOf ==
    ASSUME NEW q \in Seq(Message), q # <<>>
    PROVE  /\ Tail(q) \in Seq(Message) /\ Head(q) = q[1] /\ 1 \in DOMAIN q
           /\ \A i \in DOMAIN Tail(q) :
                i \in Nat /\ 1 < i + 1 /\ i + 1 \in DOMAIN q /\ Tail(q)[i] = q[i + 1]
  OBVIOUS

LEMMA ReceiveCheckCredentialsInv ==
    ASSUME Inv, ReceiveCheckCredentials
    PROVE  Inv'
<1>1. /\ queue # <<>> /\ queue' = Tail(queue) /\ queue \in Seq(Message) /\ server.pc = "idle"
      /\ UNCHANGED <<proc, thread, sockOpen, attached, server>> /\ replies' = replies + 1
  BY Parts DEF ReceiveCheckCredentials, Types
<1>2. /\ queue' \in Seq(Message)
      /\ \A i \in DOMAIN queue' :
           i \in Nat /\ i + 1 \in DOMAIN queue /\ queue'[i] = queue[i + 1]
  BY <1>1, RestOf
<1>3. Types'
  <2>1. TypeOK'
    BY <1>1, Parts DEF Types, TypeOK
  <2> QED
    BY <1>1, <1>2, <2>1, Parts DEF Types, FromThread
<1>4. ~Busy /\ ~Busy'
  BY <1>1 DEF Busy
<1>5. InOrder'
  <2>1. ASSUME NEW i \in DOMAIN queue', NEW j \in DOMAIN queue', i < j
        PROVE  i + 1 < j + 1
    BY <1>2, <2>1
  <2>2. \A i, j \in DOMAIN queue' : \A t \in Threads :
          i < j /\ AsksFor(queue'[i], t) /\ AsksFor(queue'[j], t) =>
            queue'[i].number < queue'[j].number
    BY <1>2, <2>1, Parts DEF InOrder
  <2>3. ASSUME NEW i \in DOMAIN queue', NEW t \in Threads, AsksFor(queue'[i], t)
        PROVE  thread[t].served < queue'[i].number /\ queue'[i].number <= thread[t].asked
    BY <1>2, <2>3, Parts DEF InOrder
  <2> QED
    BY <1>1, <1>4, <2>2, <2>3, Parts DEF InOrder
<1>6. AskedBound' /\ OneCrasher' /\ OneRequester' /\ DiesAfterDump'
  BY <1>1, Parts DEF AskedBound, OneCrasher, Crasher, OneRequester, DiesAfterDump, Past,
     UnderWay, Blocked
<1>7. InStepWithServer'
  BY <1>1, <1>2, <1>4, Parts DEF InStepWithServer, AsksFor, UnderWay
<1>8. ReportNamesRequester'
  BY <1>1 DEF ReportNamesRequester
<1> QED
  BY <1>3, <1>5, <1>6, <1>7, <1>8 DEF Inv

\* The request that is taken up is the oldest one of its thread.
LEMMA ReceiveRequestInv ==
    ASSUME Inv, ReceiveRequest
    PROVE  Inv'
<1>1. /\ queue # <<>> /\ queue' = Tail(queue) /\ queue \in Seq(Message) /\ server.pc = "idle"
      /\ UNCHANGED <<proc, thread, sockOpen, attached, replies>>
      /\ Head(queue).type = "CrashDumpRequest"
  BY Parts DEF ReceiveRequest, Types
<1>2. /\ queue' \in Seq(Message) /\ Head(queue) = queue[1] /\ 1 \in DOMAIN queue
      /\ \A i \in DOMAIN queue' :
           i \in Nat /\ 1 < i + 1 /\ i + 1 \in DOMAIN queue /\ queue'[i] = queue[i + 1]
  BY <1>1, RestOf
<1>3. queue[1] \in Message /\ FromThread(queue[1])
  BY <1>1, <1>2, Parts DEF Types
<1>4. /\ server' \in ServerState /\ server'.pc = "attach" /\ server'.req = queue[1]
      /\ server'.tried = server.tried /\ server'.wake = server.wake
  <2>1. server \in ServerState
    BY Parts DEF Types
  <2> QED
    BY <1>2, <1>3, <2>1 DEF ReceiveRequest, ServerState
<1>5. queue[1].thread \in Threads /\ AsksFor(queue[1], queue[1].thread)
  BY <1>1, <1>2, <1>3 DEF FromThread, AsksFor
<1>6. Types'
  <2>1. TypeOK'
    BY <1>1, <1>4, Parts DEF Types, TypeOK
  <2>2. \A i \in DOMAIN queue' : FromThread(queue'[i])
    BY <1>2, Parts DEF Types
  <2> QED
    BY <1>1, <1>2, <1>3, <1>4, <2>1, <2>2 DEF Types, FromThread
<1>7. ~Busy /\ Busy'
  BY <1>1, <1>4 DEF Busy
<1>8. InOrder'
  <2>1. ASSUME NEW i \in DOMAIN queue', NEW j \in DOMAIN queue', i < j
        PROVE  i + 1 < j + 1
    BY <1>2, <2>1
  <2>2. \A i, j \in DOMAIN queue' : \A t \in Threads :
          i < j /\ AsksFor(queue'[i], t) /\ AsksFor(queue'[j], t) =>
            queue'[i].number < queue'[j].number
    BY <1>2, <2>1, Parts DEF InOrder
  <2>3. ASSUME NEW i \in DOMAIN queue', NEW t \in Threads, AsksFor(queue'[i], t)
        PROVE  /\ thread[t].served < queue'[i].number /\ queue'[i].number <= thread[t].asked
               /\ queue[1].thread = t => queue[1].number < queue'[i].number
    BY <1>2, <1>5, <2>3, Parts DEF InOrder
  <2>4. /\ thread[queue[1].thread].served < queue[1].number
        /\ queue[1].number <= thread[queue[1].thread].asked
    BY <1>2, <1>5, Parts DEF InOrder
  <2> QED
    BY <1>1, <1>4, <2>2, <2>3, <2>4, Parts DEF InOrder
<1>9. AskedBound' /\ OneCrasher' /\ OneRequester' /\ DiesAfterDump'
  BY <1>1, Parts DEF AskedBound, OneCrasher, Crasher, OneRequester, DiesAfterDump, Past,
     UnderWay, Blocked
<1>10. InStepWithServer'
  BY <1>1, <1>2, <1>4, <1>5, Parts DEF InStepWithServer, AsksFor, UnderWay
<1>11. ReportNamesRequester'
  BY <1>4 DEF ReportNamesRequester
<1> QED
  BY <1>6, <1>8, <1>9, <1>10, <1>11 DEF Inv

\* When the server is done with a request, the signal goes to the thread that waits
\* for just this one, or it is noted that it goes to all.
LEMMA SendSIGCONTInv ==
    ASSUME Inv, Busy, NEW tid \in {None, server.req.thread}, NEW quit \in BOOLEAN,
           SendSIGCONT(tid, quit)
    PROVE  Inv'
<1> DEFINE r == server.req.thread
           p == server.req.from
<1>1. r \in Threads /\ p = ProcessOf[r] /\ p \in Processes /\ server \in ServerState
  BY Parts DEF Types, Busy
<1>2. server.req \in Message /\ server.req.number \in Nat
  BY <1>1 DEF ServerState, Message
<1>3. /\ thread[r].served < server.req.number /\ server.req.number <= thread[r].asked
      /\ thread[r] \in ThreadState
  BY <1>1, Parts DEF InOrder
<1>4. [thread[r] EXCEPT !.served = server.req.number] \in ThreadState
  <2>1. thread[r].asked \in 0 .. MaxDumps + 1
    BY <1>3 DEF ThreadState
  <2>2. server.req.number \in 0 .. MaxDumps + 1
    BY <1>2, <1>3, <2>1, SignalAssumption
  <2> QED
    BY <1>3, <2>2 DEF ThreadState
<1>5. /\ thread' \in [Threads -> ThreadState]
      /\ thread'[r] = [thread[r] EXCEPT !.served = server.req.number]
      /\ \A u \in Threads \ {r} : thread'[u] = thread[u]
  BY <1>1, <1>4, Parts DEF SendSIGCONT
<1>6. /\ thread'[r].served = server.req.number /\ thread'[r].asked = thread[r].asked
      /\ thread'[r].pc = thread[r].pc /\ thread'[r].dying = thread[r].dying
      /\ thread'[r].pending = thread[r].pending
  BY <1>3, <1>5 DEF ThreadState
<1>7. PICK b \in BOOLEAN :
        proc' = [proc EXCEPT ![p].loose = b] /\ b = (proc[p].loose \/ tid = None)
  BY DEF SendSIGCONT
<1>8. proc[p] \in ProcessState
  BY <1>1, Parts
<1>9. [proc[p] EXCEPT !.loose = b] \in ProcessState
  BY <1>8 DEF ProcessState
<1>10. /\ proc' \in [Processes -> ProcessState]
       /\ proc'[p] = [proc[p] EXCEPT !.loose = b]
       /\ \A q \in Processes \ {p} : proc'[q] = proc[q]
  BY <1>1, <1>7, <1>9, Parts
<1>11. /\ proc'[p].loose = b /\ proc'[p].alive = proc[p].alive
       /\ proc'[p].disabled = proc[p].disabled /\ proc'[p].dumpDone = proc[p].dumpDone
       /\ proc'[p].dumpable = proc[p].dumpable /\ proc'[p].info = proc[p].info
       /\ proc'[p].overlap = proc[p].overlap
  BY <1>8, <1>10 DEF ProcessState
<1>12. \A q \in Processes :
         /\ proc'[q].alive = proc[q].alive /\ proc'[q].disabled = proc[q].disabled
         /\ proc'[q].dumpDone = proc[q].dumpDone /\ proc'[q].dumpable = proc[q].dumpable
         /\ proc'[q].info = proc[q].info /\ proc'[q].overlap = proc[q].overlap
         /\ ~proc'[q].loose => ~proc[q].loose
  BY <1>7, <1>10, <1>11
<1>13. \A u \in Threads :
         /\ thread'[u].pc = thread[u].pc /\ thread'[u].dying = thread[u].dying
         /\ thread'[u].asked = thread[u].asked /\ thread'[u].pending = thread[u].pending
  BY <1>5, <1>6
<1>14. UnderWay(r) /\ \A u \in Threads : UnderWay(u)' => UnderWay(u)
  <2>1. UnderWay(r)
    BY <1>1, <1>2, <1>3, Parts DEF UnderWay
  <2> QED
    BY <1>5, <2>1 DEF UnderWay
<1>15. /\ server' \in ServerState /\ server'.pc = "wake" /\ server'.req = server.req
       /\ server'.tried = {} /\ server'.wake \subseteq ThreadsOf(p)
       /\ tid # None => server'.wake = {tid}
  <2>1. PICK w \in SUBSET ThreadsOf(p) :
          /\ server' = [server EXCEPT !.pc = "wake", !.quit = quit, !.tried = {},
                          !.snap = NoInfo, !.wake = w]
          /\ tid # None => w = {tid}
    <3> DEFINE wakes == IF tid = None THEN IF proc[p].alive THEN ThreadsOf(p) ELSE {} ELSE {tid}
    <3>1. server' = [server EXCEPT !.pc = "wake", !.quit = quit, !.tried = {},
                       !.snap = NoInfo, !.wake = wakes]
      BY DEF SendSIGCONT
    <3>2. wakes \in SUBSET ThreadsOf(p) /\ (tid # None => wakes = {tid})
      BY <1>1 DEF ThreadsOf
    <3> QED
      BY <3>1, <3>2
  <2>2. w \in SUBSET Threads /\ NoInfo \in Info
    BY DEF ThreadsOf, NoInfo, Info
  <2> QED
    BY <1>1, <2>1, <2>2 DEF ServerState
<1>16. attached' = {} /\ UNCHANGED <<queue, replies, sockOpen>>
  BY DEF SendSIGCONT, socketVars
<1>17. Types'
  <2>1. TypeOK'
    BY <1>5, <1>10, <1>15, <1>16, Parts DEF Types, TypeOK, ServerState
  <2> QED
    BY <1>15, <1>16, <2>1, Parts DEF Types, FromThread, Busy
<1>18. AskedBound'
  BY <1>13, Parts DEF AskedBound
<1>19. OneCrasher'
  BY <1>12, <1>13, Parts DEF OneCrasher, Crasher
<1>20. ~Busy'
  BY <1>15 DEF Busy
<1>21. InOrder'
  <2>1. ASSUME NEW i \in DOMAIN queue, NEW t \in Threads, AsksFor(queue[i], t)
        PROVE  thread'[t].served < queue[i].number /\ queue[i].number <= thread'[t].asked
    <3>1. CASE t = r
      BY <1>6, <2>1, <3>1, Parts DEF InOrder
    <3>2. CASE t # r
      BY <1>5, <2>1, <3>2, Parts DEF InOrder
    <3> QED
      BY <3>1, <3>2
  <2>2. \A t \in Threads : thread'[t].served <= thread'[t].asked
    BY <1>3, <1>5, <1>6, Parts DEF InOrder
  <2> QED
    BY <1>16, <1>20, <2>1, <2>2, Parts DEF InOrder
<1>22. OneRequester'
  BY <1>12, <1>13, <1>14, Parts DEF OneRequester, Past, Blocked
<1>23. DiesAfterDump'
  BY <1>12, <1>13, <1>14, Parts DEF DiesAfterDump
<1>24. ReportNamesRequester'
  BY <1>15 DEF ReportNamesRequester
<1>25. InStepWithServer'
  <2>1. ASSUME NEW t \in Threads, ~proc'[ProcessOf[t]].loose, t \in server'.wake
        PROVE  thread'[t].pc = "sigwait" /\ ~UnderWay(t)' /\ ~thread'[t].pending
    <3>1. ProcessOf[t] = p
      BY <1>15, <2>1 DEF ThreadsOf
    <3>2. tid # None /\ ~proc[p].loose
      BY <1>7, <1>11, <2>1, <3>1
    <3>3. t = r
      BY <1>15, <2>1, <3>2
    <3>4. thread[t].pc = "sigwait" /\ ~thread[t].pending /\ server.req.number = thread[t].asked
      BY <1>1, <1>14, <3>2, <3>3, Parts DEF InStepWithServer
    <3>5. thread[t].asked \in Nat
      BY Parts
    <3> QED
      BY <1>6, <3>3, <3>4, <3>5 DEF UnderWay
  <2> QED
    BY <1>12, <1>13, <1>14, <1>15, <1>16, <1>20, <2>1, Parts DEF InStepWithServer
<1> QED
  BY <1>17, <1>18, <1>19, <1>21, <1>22, <1>23, <1>24, <1>25 DEF Inv

\* Attaching to the process and to its threads does not change what they wait for.
LEMMA AttachInv ==
    ASSUME Inv, server.pc \in {"attach", "snapshot"}, UNCHANGED <<proc, thread, socketVars>>,
           NEW s \in SUBSET Threads, attached' \subseteq s,
           server' = [server EXCEPT !.pc = "snapshot", !.tried = s]
    PROVE  Inv'
<1>1. server \in ServerState
  BY Parts DEF Types
<1>2. /\ server' \in ServerState /\ server'.pc = "snapshot" /\ server'.req = server.req
      /\ server'.tried = s /\ server'.wake = server.wake
  BY <1>1 DEF ServerState
<1>3. UNCHANGED <<proc, thread, queue, replies, sockOpen>>
  BY DEF socketVars
<1>4. Types'
  <2>1. TypeOK'
    BY <1>2, <1>3, Parts DEF Types, TypeOK
  <2> QED
    BY <1>2, <1>3, <2>1, Parts DEF Types, FromThread
<1>5. Busy' => Busy /\ server'.req = server.req
  BY <1>2 DEF Busy
<1>6. ReportNamesRequester'
  BY <1>2 DEF ReportNamesRequester
<1> QED
  BY <1>2, <1>3, <1>4, <1>5, <1>6, ServerQuiet DEF Inv

\* The snapshot is taken while the requester is under way: exception_information_ is
\* its own, unless somebody's overlap is noted.
LEMMA SnapshotInv ==
    ASSUME Inv, server.pc = "snapshot", UNCHANGED <<proc, thread, socketVars, attached>>,
           NEW tid \in {None, server.req.thread},
           server' = [server EXCEPT !.pc = "write", !.snap = Exception(tid), !.tid = tid]
    PROVE  Inv'
<1> DEFINE r == server.req.thread
<1>1. /\ server \in ServerState /\ Busy /\ r \in Threads /\ server.req.from = ProcessOf[r]
      /\ proc[ProcessOf[r]] \in ProcessState
  BY Parts DEF Types, Busy
<1>2. Exception(tid) \in Info
  BY <1>1 DEF Exception, Info, ProcessState
<1>3. /\ server' \in ServerState /\ server'.pc = "write" /\ server'.req = server.req
      /\ server'.tried = server.tried /\ server'.wake = server.wake /\ server'.tid = tid
      /\ server'.snap = Exception(tid)
  BY <1>1, <1>2 DEF ServerState
<1>4. UNCHANGED <<proc, thread, queue, replies, sockOpen>>
  BY DEF socketVars
<1>5. Types'
  <2>1. TypeOK'
    BY <1>3, <1>4, Parts DEF Types, TypeOK
  <2> QED
    BY <1>3, <1>4, <2>1, Parts DEF Types, FromThread
<1>6. Busy' => Busy /\ server'.req = server.req
  BY <1>1, <1>3
<1>7. UnderWay(r)
  <2>1. server.req.number \in Nat /\ thread[r].asked \in Nat /\ thread[r].served \in Nat
    BY <1>1, Parts DEF ServerState, Message
  <2>2. thread[r].served < server.req.number /\ server.req.number <= thread[r].asked
    BY <1>1, Parts DEF InOrder
  <2> QED
    BY <2>1, <2>2 DEF UnderWay
<1>8. ~proc[ProcessOf[r]].overlap => Exception(tid) = [context |-> r, thread |-> r]
  BY <1>1, <1>7, SignalAssumption, Parts DEF OneRequester, Exception
<1>9. ReportNamesRequester'
  BY <1>1, <1>3, <1>4, <1>8 DEF ReportNamesRequester
<1> QED
  BY <1>3, <1>4, <1>5, <1>6, <1>9, ServerQuiet DEF Inv

\* The signal reaches the thread that waits for it.
LEMMA TgkillInv ==
    ASSUME Inv, NEW t \in Threads, Tgkill(t)
    PROVE  Inv'
<1>1. /\ server.pc = "wake" /\ t \in server.wake /\ server \in ServerState
      /\ UNCHANGED <<proc, queue, replies, sockOpen, attached>> /\ thread[t] \in ThreadState
  BY Parts DEF Tgkill, Types, socketVars
<1>2. /\ server' \in ServerState /\ server'.pc = "wake" /\ server'.req = server.req
      /\ server'.tried = server.tried /\ server'.wake = server.wake \ {t}
  BY <1>1 DEF Tgkill, ServerState
<1>3. PICK b \in BOOLEAN : thread' = [thread EXCEPT ![t].pending = b]
  BY DEF Tgkill
<1>4. [thread[t] EXCEPT !.pending = b] \in ThreadState
  BY <1>1 DEF ThreadState
<1>5. /\ thread' \in [Threads -> ThreadState]
      /\ thread'[t] = [thread[t] EXCEPT !.pending = b]
      /\ \A u \in Threads \ {t} : thread'[u] = thread[u]
  BY <1>3, <1>4, Parts
<1>6. /\ thread'[t].pc = thread[t].pc /\ thread'[t].dying = thread[t].dying
      /\ thread'[t].asked = thread[t].asked /\ thread'[t].served = thread[t].served
  BY <1>1, <1>5 DEF ThreadState
<1>7. Types'
  <2>1. TypeOK'
    BY <1>1, <1>2, <1>5, Parts DEF Types, TypeOK, ServerState
  <2> QED
    BY <1>1, <1>2, <2>1, Parts DEF Types, FromThread
<1>8. ~Busy /\ ~Busy'
  BY <1>1, <1>2 DEF Busy
<1>9. \A u \in Threads :
        /\ thread'[u].pc = thread[u].pc /\ thread'[u].dying = thread[u].dying
        /\ thread'[u].asked = thread[u].asked /\ thread'[u].served = thread[u].served
  BY <1>5, <1>6
<1>10. AskedBound' /\ OneCrasher'
  BY <1>1, <1>9, Parts DEF AskedBound, OneCrasher, Crasher
<1>11. OneRequester' /\ DiesAfterDump'
  BY <1>1, <1>9, Parts DEF OneRequester, DiesAfterDump, Past, UnderWay, Blocked
<1>12. InOrder'
  BY <1>1, <1>8, <1>9, Parts DEF InOrder
<1>13. ReportNamesRequester'
  BY <1>2 DEF ReportNamesRequester
<1>14. InStepWithServer'
  BY <1>1, <1>2, <1>5, <1>8, <1>9, Parts DEF InStepWithServer, UnderWay
<1> QED
  BY <1>7, <1>10, <1>11, <1>12, <1>13, <1>14 DEF Inv

LEMMA ServerInv ==
    ASSUME Inv, ServerStep
    PROVE  Inv'
<1>1. CASE Refuse
  <2>1. Busy
    BY <1>1 DEF Refuse, Busy
  <2> QED
    BY <1>1, <2>1, SendSIGCONTInv DEF Refuse
<1>2. CASE AttachProcess
  <2>1. Busy /\ server.req.from \in Processes
    BY <1>2, Parts DEF AttachProcess, Busy
  <2>2. {MainThread[server.req.from]} \in SUBSET Threads
    BY <2>1, MainAssumption
  <2> QED
    BY <1>2, <2>1, <2>2, SendSIGCONTInv, AttachInv DEF AttachProcess
<1>3. CASE CaptureSnapshot
  <2>1. Busy
    BY <1>3 DEF CaptureSnapshot, Busy
  <2>2. PICK tid \in {None} \cup ({server.req.thread} \cap attached) :
          \/ SendSIGCONT(tid, FALSE)
          \/ /\ server' = [server EXCEPT !.pc = "write", !.snap = Exception(tid), !.tid = tid]
             /\ UNCHANGED <<proc, thread, socketVars, attached>>
    BY <1>3 DEF CaptureSnapshot
  <2>3. tid \in {None, server.req.thread} /\ server.pc = "snapshot"
    BY <1>3, <2>2 DEF CaptureSnapshot
  <2> QED
    BY <2>1, <2>2, <2>3, SendSIGCONTInv, SnapshotInv
<1>4. CASE WriteMinidump
  <2>1. Busy /\ server.tid \in {None, server.req.thread}
    BY <1>4, Parts DEF WriteMinidump, Busy, Types
  <2> QED
    BY <1>4, <2>1, SendSIGCONTInv DEF WriteMinidump
<1>5. CASE RequestDone
  <2>1. CASE server.quit
    BY <1>5, <2>1, ExitedInv DEF RequestDone
  <2>2. CASE ~server.quit
    <3>1. /\ server' = Idle /\ server.pc = "wake"
          /\ UNCHANGED <<proc, thread, queue, replies, sockOpen, attached>>
      BY <1>5, <2>2 DEF RequestDone, socketVars
    <3>2. /\ server' \in ServerState /\ server'.pc = "idle" /\ server'.tried = {}
          /\ server'.wake = {}
      BY <3>1, IdleTypes
    <3>3. attached = {}
      BY <3>1, Parts DEF Types, TypeOK
    <3>4. TypeOK'
      BY <3>1, <3>2, <3>3, Parts DEF Types, TypeOK
    <3>5. Types'
      BY <3>1, <3>2, <3>4, Parts DEF Types, FromThread
    <3>6. ~Busy' /\ ReportNamesRequester'
      BY <3>2 DEF Busy, ReportNamesRequester
    <3> QED
      BY <3>1, <3>2, <3>5, <3>6, ServerQuiet DEF Inv
  <2> QED
    BY <2>1, <2>2
<1>6. ASSUME NEW t \in Threads, AttachThread(t)
      PROVE  Inv'
  <2>1. /\ server' = [server EXCEPT !.tried = @ \cup {t}] /\ server.pc = "snapshot"
        /\ UNCHANGED <<proc, thread, socketVars>>
        /\ attached' \subseteq attached \cup {t}
    BY <1>6 DEF AttachThread
  <2>2. server \in ServerState /\ attached \subseteq server.tried
    BY Parts DEF Types, TypeOK
  <2>3. server.tried \cup {t} \in SUBSET Threads
    BY <2>2 DEF ServerState
  <2>4. server' = [server EXCEPT !.pc = "snapshot", !.tried = server.tried \cup {t}]
    BY <2>1, <2>2 DEF ServerState
  <2> QED
    BY <2>1, <2>2, <2>3, <2>4, AttachInv
<1> QED
  BY <1>1, <1>2, <1>3, <1>4, <1>5, <1>6, ReceiveCheckCredentialsInv, ReceiveRequestInv,
     TgkillInv DEF ServerStep

----------------------------------------------------------------------------
(***************************************************************************)
(* The theorems.                                                           *)
(***************************************************************************)

LEMMA InitInv == Init => Inv
<1> SUFFICES ASSUME Init PROVE Inv
  OBVIOUS
<1>1. /\ server \in ServerState /\ server.pc = "idle" /\ server.tried = {} /\ server.wake = {}
  BY IdleTypes DEF Init
<1>2. proc \in [Processes -> ProcessState]
  <2> DEFINE first(d) == [installed |-> "no", alive |-> TRUE, disabled |-> FALSE,
                          dumpDone |-> FALSE, dumpable |-> d,
                          info |-> [context |-> None, thread |-> None],
                          loose |-> FALSE, overlap |-> FALSE]
  <2>1. [context |-> None, thread |-> None] \in
          [context : Threads \cup {None}, thread : Threads \cup {None}]
    OBVIOUS
  <2>2. \A d \in BOOLEAN : first(d) \in ProcessState
    BY <2>1 DEF ProcessState
  <2>3. proc \in [Processes -> {first(d) : d \in BOOLEAN}]
    BY DEF Init, ClientInit
  <2> HIDE DEF first
  <2> QED
    BY <2>2, <2>3
<1>3. \A p \in Processes : ~proc[p].dumpDone
  BY DEF Init, ClientInit
<1>4. thread \in [Threads -> ThreadState]
  BY SignalAssumption DEF Init, ClientInit, ThreadState
<1>5. \A t \in Threads :
        /\ thread[t].pc = "run" /\ ~thread[t].dying /\ ~thread[t].pending
        /\ thread[t].asked = 0 /\ thread[t].served = 0
  BY DEF Init, ClientInit
<1>6. queue = <<>> /\ replies = 0 /\ sockOpen = TRUE /\ attached = {}
  BY DEF Init, ClientInit
<1>7. TypeOK
  BY <1>1, <1>2, <1>4, <1>6 DEF TypeOK
<1>8. <<>> \in Seq(Message)
  OBVIOUS
<1>9. Types
  BY <1>1, <1>6, <1>7, <1>8 DEF Types
<1>10. AskedBound
  BY <1>5, SignalAssumption DEF AskedBound
<1>11. InOrder
  BY <1>1, <1>5, <1>6 DEF InOrder, Busy
<1>12. OneCrasher
  BY <1>3, <1>5, SignalAssumption DEF OneCrasher, Crasher
<1>13. InStepWithServer
  BY <1>1, <1>5, <1>6 DEF InStepWithServer, UnderWay, Busy
<1>14. OneRequester /\ DiesAfterDump /\ ReportNamesRequester
  BY <1>1, <1>5 DEF OneRequester, Past, UnderWay, Blocked, DiesAfterDump,
     ReportNamesRequester
<1> QED
  BY <1>9, <1>10, <1>11, <1>12, <1>13, <1>14 DEF Inv

LEMMA NextInv == Inv /\ [Next]_vars => Inv'
<1>1. ASSUME Inv, UNCHANGED vars
      PROVE  Inv'
  <2>1. UNCHANGED <<proc, thread, queue, replies, sockOpen, attached, server>>
    BY <1>1 DEF vars
  <2>2. Types'
    BY <1>1, <2>1, ClientTypes, Parts
  <2>3. InOrder' /\ ReportNamesRequester'
    BY <1>1, <2>1, OrderKept, NamesKept
  <2>4. AskedBound' /\ OneCrasher'
    BY <1>1, <2>1, Parts DEF AskedBound, OneCrasher, Crasher
  <2>5. InStepWithServer'
    BY <1>1, <2>1, Parts DEF InStepWithServer, UnderWay, Busy, AsksFor
  <2>6. OneRequester' /\ DiesAfterDump'
    BY <1>1, <2>1, Parts DEF OneRequester, DiesAfterDump, Past, UnderWay, Blocked
  <2> QED
    BY <2>2, <2>3, <2>4, <2>5, <2>6 DEF Inv
<1> QED
  BY <1>1, ClientInv, ServerInv, ExitedInv DEF Next, RunEnds, Killed

LEMMA AlwaysInv == Spec => []Inv
  BY InitInv, NextInv, PTL DEF Spec

\* Whatever the clients and the handler do, and wherever the handler is killed, the
\* state keeps its type; a thread that dies asks once more at the most.
THEOREM LinuxCaptureTypes == Spec => []TypeOK
<1>1. Inv => TypeOK
  BY DEF Inv, Types
<1> QED
  BY <1>1, AlwaysInv, PTL

\* A process does not die of a crash before the handler is done with the crashed
\* thread's request: of the threads that crash at once, those that disabled_ keeps out
\* wait for the one it lets in, and that one waits for the signal that answers its
\* last request and no earlier one.
THEOREM CrashIsDumped == Spec => []DiesAfterDump
<1>1. Inv => DiesAfterDump
  BY DEF Inv
<1> QED
  BY <1>1, AlwaysInv, PTL

\* The exception of a report is the one of the thread that asked for it, though all
\* threads of the process write it to the same place, unless two of them overlapped.
THEOREM ReportIsTheRequesters == Spec => []ReportNamesRequester
<1>1. Inv => ReportNamesRequester
  BY DEF Inv
<1> QED
  BY <1>1, AlwaysInv, PTL

\* A process whose thread waits for its dump may be traced, though every thread that
\* leaves HandleCrash() may clear the flag, unless two of them overlapped.
THEOREM WaitingIsTraceable == Spec => []TraceableWhileAsked
<1>1. Inv => TraceableWhileAsked
  BY Parts DEF OneRequester, Blocked, TraceableWhileAsked
<1> QED
  BY <1>1, AlwaysInv, PTL
=============================================================================
