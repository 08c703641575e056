-------------------------- MODULE ComponentsProofs --------------------------
(***************************************************************************)
(* Proofs about components that share no state: WorkerThread, for any      *)
(* callers, intervals and delays and any number of signals;                *)
(* CrashLoopDetection, for any length of the file and any number of runs;  *)
(* PtraceBroker, for any number of calls and of pieces; AnnotationList,    *)
(* for any annotations, threads and lists; RingBuffer, for any capacity    *)
(* and varint base.                                                        *)
(***************************************************************************)
EXTENDS WorkerThread, CrashLoopDetection, PtraceBroker, AnnotationList, RingBuffer,
        FiniteSetTheorems, WellFoundedInduction, TLAPS

----------------------------------------------------------------------------
(***************************************************************************)
(* WorkerThread: util/thread/worker_thread.cc.                             *)
(***************************************************************************)

\* While the owner is inside Stop(), running_ is false.
StoppingNotRunning == pc[Owner] \in {"signalStop", "join"} => ~running

SeenInv == WorkerTypeOK /\ StoppingNotRunning /\ RequestSeen

\* No request has been made before Start().
LEMMA SeenInit == WorkerInit => SeenInv
<1> SUFFICES ASSUME WorkerInit PROVE SeenInv
  OBVIOUS
<1>1. WorkerTypeOK
  BY DEF WorkerInit, WorkerTypeOK
<1> QED
  BY <1>1 DEF WorkerInit, SeenInv, StoppingNotRunning, RequestSeen, Threads

\* Every step of the thread, its owner and the callers keeps requests visible.
LEMMA SeenNext == SeenInv /\ [WorkerNext]_workerVars => SeenInv'
<1> SUFFICES ASSUME SeenInv, [WorkerNext]_workerVars PROVE SeenInv'
  OBVIOUS
<1> USE DEF SeenInv, WorkerTypeOK, StoppingNotRunning, RequestSeen, Threads
<1>1. CASE UNCHANGED workerVars
  BY <1>1 DEF workerVars
<1>2. CASE StartThread
  BY <1>2 DEF StartThread
<1>3. CASE StopRunning
  BY <1>3 DEF StopRunning
<1>4. CASE SignalStop
  BY <1>4 DEF SignalStop
<1>5. CASE Join
  BY <1>5 DEF Join
<1>6. ASSUME NEW t \in Callers, CallDoWorkNow(t) PROVE SeenInv'
  BY <1>6 DEF CallDoWorkNow
<1>7. ASSUME NEW t \in Callers, SetDoWorkNow(t) PROVE SeenInv'
  BY <1>7 DEF SetDoWorkNow
<1>8. ASSUME NEW t \in Callers, SignalSemaphore(t) PROVE SeenInv'
  BY <1>8 DEF SignalSemaphore
<1>9. CASE InitialWait
  BY <1>9 DEF InitialWait, TimedWait
<1>10. CASE Check
  BY <1>10 DEF Check
<1>11. CASE WorkDone
  BY <1>11 DEF WorkDone
<1>12. CASE ClearDoWorkNow
  BY <1>12 DEF ClearDoWorkNow
<1>13. CASE IntervalWait
  BY <1>13 DEF IntervalWait, TimedWait
<1> QED
  BY <1>1, <1>2, <1>3, <1>4, <1>5, <1>6, <1>7, <1>8, <1>9, <1>10, <1>11, <1>12, <1>13
  DEF WorkerNext, OwnerNext, ThreadMain, CallerNext

\* Type correctness.
THEOREM WorkerTypeCorrect == WorkerSpec => []WorkerTypeOK
<1>1. SeenInv => WorkerTypeOK
  BY DEF SeenInv
<1> QED
  BY SeenInit, SeenNext, <1>1, PTL DEF WorkerSpec

\* However many threads call DoWorkNow(), and whatever they interleave with, no
\* request is made that the running thread could sleep through.
THEOREM RequestAlwaysSeen == WorkerSpec => []RequestSeen
<1>1. SeenInv => RequestSeen
  BY DEF SeenInv
<1> QED
  BY SeenInit, SeenNext, <1>1, PTL DEF WorkerSpec

----------------------------------------------------------------------------
\* A thread that has left its loop saw do_work_now_ clear, and nobody sets it
\* before the next Start().
ExitedClear == worker \in {"none", "exited"} => ~doWorkNow

\* DoWorkNow() is never under way when the thread is told to stop.
CallingRunning == pc[Owner] \in {"flag", "signal"} => running /\ worker \notin {"none", "exited"}

RunningAlive == running => worker \notin {"none", "exited"}
NotStoppingAlive == ~running /\ pc[Owner] = "idle" => worker = "none"
StoppingAlive == pc[Owner] \in {"signalStop", "join"} => worker # "none"

\* do_work_now_ was set while the thread slept: it has a signal for that.
FlagSignalled ==
    worker \in {"starting", "waiting"} /\ doWorkNow /\ pc[Owner] # "signal" => count >= 1

\* What is left for the thread while Stop() joins it: one signal more than the
\* one a request made before Stop() will use up.
JoinSignals ==
    pc[Owner] = "join" =>
      /\ worker = "check" => ~doWorkNow \/ count >= 1
      /\ worker \in {"starting", "waiting", "working", "clear"} => count >= 1
      /\ worker \in {"starting", "waiting"} /\ doWorkNow => count >= 2

StopInv ==
    /\ SeenInv
    /\ ExitedClear
    /\ CallingRunning
    /\ RunningAlive
    /\ NotStoppingAlive
    /\ StoppingAlive
    /\ FlagSignalled
    /\ JoinSignals

\* The invariant of Stop() holds before Start().
LEMMA StopInit == WorkerInit => StopInv
<1> SUFFICES ASSUME WorkerInit PROVE StopInv
  OBVIOUS
<1>1. pc[Owner] = "idle"
  BY DEF WorkerInit, Threads
<1> QED
  BY <1>1, SeenInit
  DEF WorkerInit, StopInv, ExitedClear, CallingRunning, RunningAlive, NotStoppingAlive, StoppingAlive,
      FlagSignalled, JoinSignals

\* Every step keeps it, if only the owner calls DoWorkNow().
LEMMA StopNext ==
    ASSUME Callers \subseteq {Owner}
    PROVE  StopInv /\ [WorkerNext]_workerVars => StopInv'
<1> SUFFICES ASSUME StopInv, [WorkerNext]_workerVars PROVE StopInv'
  OBVIOUS
<1>0. SeenInv' /\ WorkerTypeOK /\ WorkerTypeOK' /\ StoppingNotRunning
  BY SeenNext DEF StopInv, SeenInv
<1> USE DEF StopInv, WorkerTypeOK, StoppingNotRunning, ExitedClear, CallingRunning, RunningAlive,
            NotStoppingAlive, StoppingAlive, FlagSignalled, JoinSignals, Threads
<1>1. CASE UNCHANGED workerVars
  BY <1>0, <1>1 DEF workerVars
<1>2. CASE StartThread
  <2>1. ~doWorkNow /\ doWorkNow' = doWorkNow /\ pc' = pc /\ pc[Owner] = "idle"
    BY <1>0, <1>2 DEF StartThread
  <2>2. worker' = "starting" /\ running' = TRUE
    BY <1>2 DEF StartThread
  <2> HIDE DEF StopInv, WorkerTypeOK, StoppingNotRunning, ExitedClear, CallingRunning, RunningAlive,
               NotStoppingAlive, StoppingAlive, FlagSignalled, JoinSignals
  <2>3. ExitedClear' /\ RunningAlive'
    BY <2>2 DEF ExitedClear, RunningAlive
  <2>4. CallingRunning' /\ NotStoppingAlive' /\ StoppingAlive'
    BY <2>2 DEF CallingRunning, NotStoppingAlive, StoppingAlive
  <2>5. FlagSignalled'
    BY <2>1 DEF FlagSignalled
  <2>6. JoinSignals'
    BY <2>1 DEF JoinSignals
  <2> QED
    BY <1>0, <2>3, <2>4, <2>5, <2>6 DEF StopInv
<1>3. CASE StopRunning
  BY <1>0, <1>3 DEF StopRunning
<1>4. CASE SignalStop
  BY <1>0, <1>4 DEF SignalStop
<1>5. CASE Join
  BY <1>0, <1>5 DEF Join
<1>6. CASE CallDoWorkNow(Owner)
  BY <1>0, <1>6 DEF CallDoWorkNow
<1>7. CASE SetDoWorkNow(Owner)
  BY <1>0, <1>7 DEF SetDoWorkNow
<1>8. CASE SignalSemaphore(Owner)
  BY <1>0, <1>8 DEF SignalSemaphore
<1>9. CASE InitialWait
  BY <1>0, <1>9 DEF InitialWait, TimedWait
<1>10. CASE Check
  BY <1>0, <1>10 DEF Check
<1>11. CASE WorkDone
  BY <1>0, <1>11 DEF WorkDone
<1>12. CASE ClearDoWorkNow
  BY <1>0, <1>12 DEF ClearDoWorkNow
<1>13. CASE IntervalWait
  BY <1>0, <1>13 DEF IntervalWait, TimedWait
<1> QED
  BY <1>1, <1>2, <1>3, <1>4, <1>5, <1>6, <1>7, <1>8, <1>9, <1>10, <1>11, <1>12, <1>13
  DEF WorkerNext, OwnerNext, ThreadMain, CallerNext

\* Stop() never joins a thread that waits for ever, if the thread that calls
\* it is the only one that calls DoWorkNow().
THEOREM StopNeverStuck ==
    ASSUME Callers \subseteq {Owner}
    PROVE  WorkerSpec => []StopNotStuck
<1>1. StopInv /\ [WorkerNext]_workerVars => StopInv'
  BY StopNext
<1>2. StopInv => StopNotStuck
  BY DEF StopInv, SeenInv, WorkerTypeOK, JoinSignals, StoppingAlive, StopNotStuck
<1> QED
  BY StopInit, <1>1, <1>2, PTL DEF WorkerSpec

----------------------------------------------------------------------------
(***************************************************************************)
(* CrashLoopDetection: util/backtrace/crash_loop_detection.cc keeps the    *)
(* last runs in a file.  A write is two steps, so an invariant of the file *)
(* alone is not inductive: LoopInv also speaks of what each writer is      *)
(* going to write.                                                         *)
(***************************************************************************)

\* The lines of the file.
Line == [run : 1 .. MaxRuns, crashed : BOOLEAN]

\* Where a writer is, and what it has loaded.
WriterState == [pc : {"idle", "load", "truncate", "write"}, lines : Seq(Line)]

\* Lines c that may stand in the file when r runs have begun and those in d were dumped: in
\* their order, not too many, and none marked for nothing.
Sound(c, r, d) ==
    /\ c \in Seq(Line)
    /\ Len(c) <= MaxEntries
    /\ \A i \in 1 .. Len(c) : c[i].run <= r /\ (c[i].crashed => c[i].run \in d)
    /\ \A i, j \in 1 .. Len(c) : i < j => c[i].run < c[j].run

\* The last runs, each with its mark.
Complete(c, r, d) ==
    /\ Len(c) = IF r < MaxEntries THEN r ELSE MaxEntries
    /\ \A i \in 1 .. Len(c) : /\ c[i].run = r - Len(c) + i
                              /\ c[i].run \in d => c[i].crashed

\* Every variable has its type, and only runs that were begun are known.
LoopTypes ==
    /\ csv \in Seq(Line)
    /\ run \in 0 .. MaxRuns
    /\ app \in {"off", "starting", "running", "dumping", "crashing"} /\ (app # "off" => run > 0)
    /\ writer \in [Writers -> WriterState]
    /\ dumped \subseteq 1 .. run /\ crashed \subseteq 1 .. run
    /\ disturbed \in BOOLEAN

\* What is in the file, or is going to be, is sound; and until a write fails or two of them
\* meet, one process writes at a time, and what it writes is complete.
LoopInv ==
    /\ LoopTypes
    /\ Sound(csv, run, dumped)
    /\ \A w \in Writers : Sound(writer[w].lines, run, dumped)
    /\ app # "starting" => writer[0].pc = "idle"
    /\ \A h \in Handlers : writer[h].pc # "idle" => h <= run
    /\ ~disturbed =>
         /\ \A h \in Handlers : writer[h].pc # "idle" => h = run /\ app # "starting"
         /\ \A w \in Writers : writer[w].pc \in {"truncate", "write"} =>
                               Complete(writer[w].lines, run, dumped)
         /\ (\A w \in Writers : writer[w].pc \in {"idle", "load"}) => Complete(csv, run, dumped)


\* A set of naturals has a smallest one,
LEMMA SmallestOne ==
    ASSUME NEW T, T \subseteq Nat, T # {}
    PROVE  \E x \in T : \A y \in T : x <= y
<1>1. PICK x \in T : \A y \in T : ~(<<y, x>> \in OpToRel(<, Nat))
  BY NatLessThanWellFounded, WFMin, Zenon
<1>2. ASSUME NEW y \in T PROVE x <= y
  <2>1. x \in Nat /\ y \in Nat
    OBVIOUS
  <2>2. y < x => <<y, x>> \in OpToRel(<, Nat)
    BY <2>1 DEF OpToRel
  <2>3. ~(y < x)
    BY <1>1, <2>2, Zenon
  <2> QED
    BY <2>1, <2>3
<1> QED
  BY <1>2

\* and one whose members are not above n has a largest one.
LEMMA LargestOne ==
    ASSUME NEW n \in Nat, NEW S, \A k \in S : k \in 0 .. n, S # {}
    PROVE  \E m \in S : \A k \in S : m >= k
<1> DEFINE T == {j \in 0 .. n : n - j \in S}
<1>1. T \subseteq Nat
  OBVIOUS
<1>2. T # {}
  <2>1. PICK k \in S : k \in 0 .. n
    OBVIOUS
  <2>2. n - k \in 0 .. n /\ n - (n - k) = k
    BY <2>1
  <2>3. n - k \in T
    BY <2>2
  <2> QED
    BY <2>3
<1>3. PICK x \in T : \A y \in T : x <= y
  BY <1>1, <1>2, SmallestOne
<1>4. n - x \in S /\ x \in 0 .. n
  OBVIOUS
<1>5. ASSUME NEW k \in S PROVE n - x >= k
  <2>1. k \in 0 .. n
    OBVIOUS
  <2>2. n - k \in 0 .. n /\ n - (n - k) = k
    BY <2>1
  <2>3. n - k \in T
    BY <2>2
  <2>4. x <= n - k
    BY <1>3, <2>3
  <2> QED
    BY <1>4, <2>1, <2>4
<1> QED
  BY <1>4, <1>5

\* That is Max(S),
LEMMA MaxIs ==
    ASSUME NEW n \in Nat, NEW S, \A k \in S : k \in 0 .. n, S # {}
    PROVE  Max(S) \in S /\ Max(S) \in 0 .. n /\ \A k \in S : Max(S) >= k
BY LargestOne DEF Max

\* and nothing else.
LEMMA MaxOnly ==
    ASSUME NEW n \in Nat, NEW S, \A k \in S : k \in 0 .. n, NEW m \in S, \A k \in S : m >= k
    PROVE  Max(S) = m
<1>1. Max(S) \in 0 .. n /\ m \in 0 .. n /\ Max(S) >= m /\ m >= Max(S)
  BY MaxIs
<1> QED
  BY <1>1

\* Min of two is the smaller one.
LEMMA MinOfTwo ==
    ASSUME NEW a \in Nat, NEW b \in Nat
    PROVE  Min({a, b}) = IF a < b THEN a ELSE b
<1> DEFINE m == IF a < b THEN a ELSE b
<1>1. m \in {a, b} /\ \A y \in {a, b} : m =< y
  OBVIOUS
<1>2. \A x \in {a, b} : (\A y \in {a, b} : x =< y) => x = m
  OBVIOUS
<1> QED
  BY <1>1, <1>2 DEF Min

\* What a complete file counts.
LEMMA CompleteCounts ==
    ASSUME LoopTypes, Sound(csv, run, dumped), Complete(csv, run, dumped)
    PROVE  ConsecutiveCrashesCount = InARow(dumped)
<1> DEFINE L == Len(csv)
           U == {i \in DOMAIN csv : ~csv[i].crashed}
           S == {n \in 0 .. Min({run, MaxEntries}) : run - n + 1 .. run \subseteq dumped}
<1>1. run \in Nat /\ MaxEntries \in Nat /\ L \in Nat /\ DOMAIN csv = 1 .. L /\ MaxEntries > 0
  BY LoopAssumption DEF LoopTypes, LoopAssumption
<1>2. Min({run, MaxEntries}) = L /\ L <= run
  BY <1>1, MinOfTwo DEF Complete
<1>3. \A i \in 1 .. L : /\ csv[i].run = run - L + i
                        /\ i \in U <=> run - L + i \notin dumped
  BY <1>1 DEF Sound, Complete
<1> HIDE DEF U
<1>4. PICK k \in 0 .. L : /\ k = IF U = {} THEN 0 ELSE Max(U)
                          /\ k # 0 => k \in U
                          /\ \A i \in k + 1 .. L : i \notin U
  <2>1. CASE U = {}
    BY <1>1, <2>1
  <2>2. CASE U # {}
    <3>1. \A i \in U : i \in 0 .. L
      BY <1>1 DEF U
    <3>2. Max(U) \in U /\ Max(U) \in 0 .. L /\ \A i \in U : Max(U) >= i
      BY <1>1, <2>2, <3>1, MaxIs
    <3> HIDE DEF U
    <3>3. \A i \in Max(U) + 1 .. L : i \notin U
      BY <1>1, <3>2
    <3> QED
      BY <2>2, <3>2, <3>3
  <2> QED
    BY <2>1, <2>2
<1>5. PICK n \in 0 .. L : n = L - k
  <2>1. L - k \in 0 .. L
    BY <1>1
  <2> QED
    BY <2>1
<1>6. ASSUME NEW r \in run - n + 1 .. run PROVE r \in dumped
  <2>1. PICK i \in k + 1 .. L : i = r - run + L
    <3>1. r - run + L \in k + 1 .. L
      BY <1>1, <1>2, <1>5
    <3> QED
      BY <3>1
  <2>2. i \in 1 .. L /\ run - L + i = r
    BY <1>1, <2>1
  <2>3. i \notin U
    BY <1>4
  <2> QED
    BY <1>3, <2>2, <2>3
<1>7. n \in S
  BY <1>2, <1>6
<1>8. ASSUME NEW m \in S PROVE n >= m
  <2>1. m \in 0 .. L /\ run - m + 1 .. run \subseteq dumped
    BY <1>2
  <2> SUFFICES ASSUME m > n PROVE FALSE
    BY <1>1, <2>1
  <2>2. k \in 1 .. L /\ run - L + k \in run - m + 1 .. run
    BY <1>1, <1>2, <1>5, <2>1
  <2>3. k \in U
    BY <1>4, <2>2
  <2> QED
    BY <1>3, <2>1, <2>2, <2>3
<1>9. Max(S) = n
  <2>1. \A m \in S : m \in 0 .. L
    BY <1>2
  <2> QED
    BY <1>1, <1>7, <1>8, <2>1, MaxOnly
<1>10. ConsecutiveCrashesCount = L - k
  BY <1>4 DEF ConsecutiveCrashesCount, U
<1> QED
  BY <1>5, <1>9, <1>10 DEF InARow


\* The lines that are loaded are the last ones.
LEMMA LoadedLines ==
    ASSUME LoopTypes
    PROVE  \E m \in Nat :
             /\ m = IF Len(csv) > MaxEntries - 1 THEN Len(csv) - MaxEntries + 1 ELSE 0
             /\ LoadCrashData(MaxEntries - 1) \in Seq(Line)
             /\ Len(LoadCrashData(MaxEntries - 1)) = Len(csv) - m
             /\ \A i \in 1 .. Len(csv) - m : LoadCrashData(MaxEntries - 1)[i] = csv[i + m]
<1>1. csv \in Seq(Line) /\ MaxEntries \in Nat /\ MaxEntries > 0 /\ Len(csv) \in Nat
  BY LoopAssumption DEF LoopTypes, LoopAssumption
<1>2. PICK m \in Nat : m = IF Len(csv) > MaxEntries - 1 THEN Len(csv) - MaxEntries + 1 ELSE 0
  <2>1. (IF Len(csv) > MaxEntries - 1 THEN Len(csv) - MaxEntries + 1 ELSE 0) \in Nat
    BY <1>1
  <2> QED
    BY <2>1
<1>3. LoadCrashData(MaxEntries - 1) = SubSeq(csv, m + 1, Len(csv))
  BY <1>1, <1>2 DEF LoadCrashData
<1>4. m <= Len(csv)
  BY <1>1, <1>2
<1>5. /\ SubSeq(csv, m + 1, Len(csv)) \in Seq(Line)
      /\ Len(SubSeq(csv, m + 1, Len(csv))) = Len(csv) - m
      /\ \A i \in 1 .. Len(csv) - m : SubSeq(csv, m + 1, Len(csv))[i] = csv[i + m]
  BY <1>1, <1>4
<1> QED
  BY <1>2, <1>3, <1>5

\* Sound lines stay so when runs are begun and dumped.
LEMMA SoundStays ==
    ASSUME NEW c, NEW r \in Nat, NEW s \in Nat, NEW d, NEW e, Sound(c, r, d), r <= s, d \subseteq e
    PROVE  Sound(c, s, e)
<1>1. ASSUME NEW i \in 1 .. Len(c) PROVE c[i].run <= s
  <2>1. c[i] \in Line
    BY DEF Sound
  <2>2. c[i].run \in Nat
    BY <2>1, LoopAssumption DEF Line, LoopAssumption
  <2> QED
    BY <2>2 DEF Sound
<1> QED
  BY <1>1 DEF Sound

\* A new run is the last line.
LEMMA AppendLine ==
    ASSUME LoopInv, run < MaxRuns
    PROVE  LET c == Append(LoadCrashData(MaxEntries - 1), [run |-> run + 1, crashed |-> FALSE])
           IN  /\ Sound(c, run + 1, dumped)
               /\ Complete(csv, run, dumped) => Complete(c, run + 1, dumped)
<1> DEFINE b == LoadCrashData(MaxEntries - 1)
           l == [run |-> run + 1, crashed |-> FALSE]
           c == Append(b, l)
<1>1. /\ csv \in Seq(Line) /\ MaxEntries \in Nat /\ MaxEntries > 0 /\ Len(csv) \in Nat
      /\ run \in Nat /\ MaxRuns \in Nat /\ dumped \subseteq 1 .. run
      /\ LoopTypes /\ Sound(csv, run, dumped)
      /\ Len(csv) <= MaxEntries
  BY LoopAssumption DEF LoopInv, LoopTypes, LoopAssumption, Sound
<1>2. PICK m \in Nat :
        /\ m = IF Len(csv) > MaxEntries - 1 THEN Len(csv) - MaxEntries + 1 ELSE 0
        /\ b \in Seq(Line) /\ Len(b) = Len(csv) - m
        /\ \A i \in 1 .. Len(csv) - m : b[i] = csv[i + m]
  BY <1>1, LoadedLines
<1>3. l \in Line /\ l.run = run + 1 /\ l.crashed = FALSE
  BY <1>1 DEF Line
<1> HIDE DEF b, l
<1>4. PICK n \in Nat : n = Len(csv) - m /\ n < MaxEntries /\ n + m = Len(csv)
  <2>1. Len(csv) - m \in Nat /\ Len(csv) - m < MaxEntries /\ (Len(csv) - m) + m = Len(csv)
    BY <1>1, <1>2
  <2> QED
    BY <2>1
<1>5. /\ c \in Seq(Line) /\ Len(c) = n + 1 /\ c[n + 1] = l
      /\ \A i \in 1 .. n : c[i] = csv[i + m] /\ i + m \in 1 .. Len(csv)
  <2>1. Len(b) = n /\ b \in Seq(Line) /\ \A i \in 1 .. n : b[i] = csv[i + m]
    BY <1>2, <1>4
  <2>2. \A i \in 1 .. n : i + m \in 1 .. Len(csv)
    BY <1>1, <1>4
  <2> QED
    BY <1>3, <2>1, <2>2
<1> HIDE DEF c
<1>6. \A i \in 1 .. Len(csv) : /\ csv[i].run \in Nat /\ csv[i].run <= run
                               /\ csv[i].crashed => csv[i].run \in dumped
  <2>1. ASSUME NEW i \in 1 .. Len(csv) PROVE csv[i].run \in Nat
    <3>1. csv[i] \in Line
      BY <1>1
    <3> QED
      BY <1>1, <3>1 DEF Line
  <2> QED
    BY <1>1, <2>1 DEF Sound
<1>7. Sound(c, run + 1, dumped)
  <2>1. ASSUME NEW i \in 1 .. n + 1
        PROVE  c[i].run <= run + 1 /\ (c[i].crashed => c[i].run \in dumped)
    <3>1. CASE i = n + 1
      BY <1>1, <1>3, <1>5, <3>1
    <3>2. CASE i \in 1 .. n
      <4>1. i + m \in 1 .. Len(csv) /\ c[i] = csv[i + m]
        BY <1>5, <3>2
      <4>2. c[i].run \in Nat /\ c[i].run <= run
        BY <1>6, <4>1
      <4>3. c[i].crashed => c[i].run \in dumped
        BY <1>6, <4>1
      <4> QED
        BY <1>1, <4>2, <4>3
    <3> QED
      BY <1>4, <3>1, <3>2
  <2>2. ASSUME NEW i \in 1 .. n + 1, NEW j \in 1 .. n + 1, i < j
        PROVE  c[i].run < c[j].run
    <3>1. i \in 1 .. n /\ i + m \in 1 .. Len(csv) /\ c[i] = csv[i + m]
      BY <1>4, <1>5, <2>2
    <3>2. CASE j = n + 1
      <4>1. c[j].run = run + 1
        BY <1>3, <1>5, <3>2
      <4>2. c[i].run \in Nat /\ c[i].run <= run
        BY <1>6, <3>1
      <4> QED
        BY <1>1, <4>1, <4>2
    <3>3. CASE j \in 1 .. n
      <4>1. i + m < j + m /\ j + m \in 1 .. Len(csv) /\ c[j] = csv[j + m]
        BY <1>4, <1>5, <2>2, <3>3
      <4> QED
        BY <1>1, <3>1, <4>1 DEF Sound
    <3> QED
      BY <1>4, <3>2, <3>3
  <2> QED
    BY <1>4, <1>5, <2>1, <2>2, <1>1 DEF Sound
<1>8. ASSUME Complete(csv, run, dumped) PROVE Complete(c, run + 1, dumped)
  <2>1. Len(c) = IF run + 1 < MaxEntries THEN run + 1 ELSE MaxEntries
    BY <1>1, <1>2, <1>4, <1>5, <1>8 DEF Complete
  <2>2. ASSUME NEW i \in 1 .. Len(c)
        PROVE  c[i].run = (run + 1) - Len(c) + i /\ (c[i].run \in dumped => c[i].crashed)
    <3>1. CASE i = n + 1
      BY <1>1, <1>3, <1>4, <1>5, <3>1
    <3>2. CASE i \in 1 .. n
      <4>1. i + m \in 1 .. Len(csv) /\ c[i] = csv[i + m]
        BY <1>5, <3>2
      <4>2. run - Len(csv) + (i + m) = (run + 1) - Len(c) + i
        BY <1>1, <1>4, <1>5
      <4> QED
        BY <1>8, <4>1, <4>2 DEF Complete
    <3> QED
      BY <1>4, <1>5, <3>1, <3>2
  <2> QED
    BY <2>1, <2>2 DEF Complete
<1> QED
  BY <1>7, <1>8 DEF b, l, c

\* A run that is marked,
LEMMA MarkLine ==
    ASSUME LoopInv, NEW h \in 1 .. run
    PROVE  LET c == [i \in DOMAIN csv |-> [csv[i] EXCEPT !.crashed = @ \/ csv[i].run = h]]
           IN  /\ Sound(c, run, dumped \cup {h})
               /\ Complete(csv, run, dumped) => Complete(c, run, dumped \cup {h})
<1> DEFINE c == [i \in DOMAIN csv |-> [csv[i] EXCEPT !.crashed = @ \/ csv[i].run = h]]
<1>1. /\ csv \in Seq(Line) /\ Len(csv) \in Nat /\ DOMAIN csv = 1 .. Len(csv)
      /\ run \in Nat /\ Sound(csv, run, dumped)
  BY LoopAssumption DEF LoopInv, LoopTypes, LoopAssumption
<1>2. ASSUME NEW i \in 1 .. Len(csv)
      PROVE  /\ c[i] \in Line /\ c[i].run = csv[i].run
             /\ c[i].crashed <=> (csv[i].crashed \/ csv[i].run = h)
  <2>1. csv[i] \in Line
    BY <1>1
  <2>2. c[i] = [csv[i] EXCEPT !.crashed = @ \/ csv[i].run = h]
    BY <1>1
  <2> QED
    BY <2>1, <2>2 DEF Line
<1>3. c \in Seq(Line) /\ Len(c) = Len(csv)
  <2>1. c \in [1 .. Len(csv) -> Line]
    BY <1>1, <1>2
  <2> QED
    BY <1>1, <2>1
<1> HIDE DEF c
<1>4. Sound(c, run, dumped \cup {h})
  BY <1>1, <1>2, <1>3 DEF Sound
<1>5. Complete(csv, run, dumped) => Complete(c, run, dumped \cup {h})
  BY <1>1, <1>2, <1>3 DEF Complete
<1> QED
  BY <1>4, <1>5 DEF c

\* and one that a complete file has.
LEMMA LastRunListed ==
    ASSUME LoopTypes, run > 0, Complete(csv, run, dumped)
    PROVE  \E i \in DOMAIN csv : csv[i].run = run
<1>1. run \in Nat /\ MaxEntries \in Nat \ {0} /\ csv \in Seq(Line)
  BY LoopAssumption DEF LoopTypes, LoopAssumption
<1>2. Len(csv) \in 1 .. Len(csv) /\ DOMAIN csv = 1 .. Len(csv) /\ run - Len(csv) + Len(csv) = run
  BY <1>1 DEF Complete
<1> QED
  BY <1>2 DEF Complete


\* The file begins empty.
LEMMA LoopStart == LoopInit => LoopInv
<1> SUFFICES ASSUME LoopInit PROVE LoopInv
  OBVIOUS
<1>1. LoopTypes
  <2>1. NotWriting \in WriterState
    BY DEF NotWriting, WriterState
  <2>2. writer \in [Writers -> WriterState]
    BY <2>1 DEF LoopInit
  <2>3. run \in 0 .. MaxRuns /\ csv \in Seq(Line)
    BY LoopAssumption DEF LoopInit, LoopAssumption
  <2> QED
    BY <2>2, <2>3 DEF LoopInit, LoopTypes
<1>2. Sound(<<>>, 0, {}) /\ Complete(<<>>, 0, {})
  BY LoopAssumption DEF Sound, Complete, LoopAssumption
<1> QED
  BY <1>1, <1>2 DEF LoopInit, LoopInv, NotWriting, Handlers, Writers

\* What writer w does is replaced by x.
LEMMA WriterPut ==
    ASSUME LoopTypes, NEW w \in Writers,
           NEW x \in WriterState,
           writer' = [writer EXCEPT ![w] = x]
    PROVE  /\ writer' \in [Writers -> WriterState]
           /\ writer'[w] = x /\ \A v \in Writers \ {w} : writer'[v] = writer[v]
BY DEF LoopTypes

\* A writer that does nothing.
LEMMA Idle ==
    /\ NotWriting \in WriterState
    /\ NotWriting.pc = "idle" /\ NotWriting.lines = <<>>
    /\ \A r \in Nat : \A d : Sound(<<>>, r, d)
<1>1. <<>> \in Seq(Line) /\ Len(<<>>) = 0 /\ MaxEntries \in Nat
  BY LoopAssumption DEF LoopAssumption
<1> QED
  BY <1>1 DEF NotWriting, WriterState, Sound

\* A run begins: the file it loads is complete, if nobody is writing.
LEMMA StartHandlerInv == ASSUME LoopInv, StartHandler PROVE LoopInv'
<1> DEFINE c == Append(LoadCrashData(MaxEntries - 1), [run |-> run + 1, crashed |-> FALSE])
           x == [pc |-> "truncate", lines |-> c]
<1>1. /\ LoopTypes /\ Sound(csv, run, dumped) /\ run \in Nat /\ run' = run + 1 /\ run' \in 0 .. MaxRuns
      /\ run < MaxRuns /\ app = "off" /\ app' = "starting" /\ UNCHANGED <<csv, dumped, crashed>>
      /\ 0 \in Writers /\ writer[0].pc = "idle" /\ run' > 0
  BY LoopAssumption DEF LoopInv, LoopTypes, StartHandler, Writers, LoopAssumption
<1>2. Sound(c, run', dumped) /\ (Complete(csv, run, dumped) => Complete(c, run', dumped))
  BY <1>1, AppendLine
<1> HIDE DEF c
<1>3. x \in WriterState
  BY <1>2 DEF Sound, WriterState
<1>4. writer' = [writer EXCEPT ![0] = x]
  BY <1>1 DEF StartHandler, CrashLoopDetectionAppend, Writes, c
<1>5. /\ writer' \in [Writers -> WriterState]
      /\ writer'[0] = x /\ \A v \in Writers \ {0} : writer'[v] = writer[v]
  BY <1>1, <1>3, <1>4, WriterPut
<1>6. LoopTypes'
  BY <1>1, <1>5 DEF LoopTypes, StartHandler
<1>7. Sound(csv, run', dumped) /\ \A w \in Writers : Sound(writer'[w].lines, run', dumped)
  <2>1. \A w \in Writers : Sound(writer[w].lines, run, dumped)
    BY DEF LoopInv
  <2> QED
    BY <1>1, <1>2, <1>5, <2>1, SoundStays
<1>8. ASSUME ~disturbed'
      PROVE  /\ \A h \in Handlers : writer'[h].pc # "idle" => h = run' /\ app' # "starting"
             /\ \A w \in Writers : writer'[w].pc \in {"truncate", "write"} =>
                                   Complete(writer'[w].lines, run', dumped)
             /\ ~(\A w \in Writers : writer'[w].pc \in {"idle", "load"})
  <2>1. ~disturbed /\ \A h \in Handlers : writer[h].pc = "idle"
    BY <1>8 DEF StartHandler, HandlersIdle
  <2>2. Complete(csv, run, dumped)
    BY <1>1, <2>1 DEF LoopInv, Writers
  <2>3. \A h \in Handlers : h \in Writers \ {0}
    BY LoopAssumption DEF Handlers, Writers, LoopAssumption
  <2>4. writer'[0].pc = "truncate" /\ writer'[0].lines = c
    BY <1>5
  <2>5. \A w \in Writers \ {0} : writer'[w].pc = "idle"
    BY <1>5, <2>1 DEF Writers
  <2> QED
    BY <1>1, <1>2, <2>2, <2>3, <2>4, <2>5
<1>9. \A h \in Handlers : writer'[h].pc # "idle" => h <= run'
  <2>1. \A h \in Handlers : h \in Nat /\ h \in Writers \ {0}
    BY LoopAssumption DEF Handlers, Writers, LoopAssumption
  <2>2. \A h \in Handlers : writer[h].pc # "idle" => h <= run
    BY DEF LoopInv
  <2> QED
    BY <1>1, <1>5, <2>1, <2>2
<1> QED
  BY <1>1, <1>6, <1>7, <1>8, <1>9 DEF LoopInv

\* WriteCrashData() empties the file,
LEMMA TruncateInv == ASSUME LoopInv, NEW w \in Writers, Truncate(w) PROVE LoopInv'
<1>1. /\ LoopTypes /\ writer[w] \in WriterState
      /\ writer[w].pc = "truncate" /\ UNCHANGED <<run, app, dumped, crashed>> /\ run \in Nat
      /\ \A v \in Writers : Sound(writer[v].lines, run, dumped)
  BY LoopAssumption DEF LoopInv, LoopTypes, Truncate, LoopAssumption
<1>2. CASE csv' = <<>> /\ writer' = [writer EXCEPT ![w].pc = "write"] /\ UNCHANGED disturbed
  <2> DEFINE x == [writer[w] EXCEPT !.pc = "write"]
  <2>1. /\ x \in WriterState
        /\ x.pc = "write" /\ x.lines = writer[w].lines
    BY <1>1 DEF WriterState
  <2>2. writer' = [writer EXCEPT ![w] = x]
    BY <1>2
  <2> HIDE DEF x
  <2>3. /\ writer' \in [Writers -> WriterState]
        /\ writer'[w] = x /\ \A v \in Writers \ {w} : writer'[v] = writer[v]
    BY <1>1, <2>1, <2>2, WriterPut
  <2>4. \A v \in Writers : /\ writer'[v].lines = writer[v].lines
                           /\ writer'[v].pc = "idle" <=> writer[v].pc = "idle"
                           /\ \/ writer'[v].pc = writer[v].pc
                              \/ writer[v].pc \in {"truncate", "write"}
    BY <1>1, <2>1, <2>3
  <2>5. LoopTypes'
    BY <1>1, <1>2, <2>3 DEF LoopTypes
  <2>6. Sound(csv', run, dumped)
    BY <1>1, <1>2, Idle
  <2>7. 0 \in Writers /\ \A h \in Handlers : h \in Writers
    BY DEF Writers
  <2>8. writer'[w].pc \notin {"idle", "load"}
    BY <2>1, <2>3
  <2> QED
    BY <1>1, <1>2, <2>4, <2>5, <2>6, <2>7, <2>8 DEF LoopInv
<1>3. CASE disturbed' = TRUE /\ writer' = [writer EXCEPT ![w] = NotWriting] /\ UNCHANGED csv
  <2>1. /\ writer' \in [Writers -> WriterState]
        /\ writer'[w] = NotWriting /\ \A v \in Writers \ {w} : writer'[v] = writer[v]
    BY <1>1, <1>3, WriterPut, Idle
  <2>2. LoopTypes'
    BY <1>1, <1>3, <2>1 DEF LoopTypes
  <2>3. \A v \in Writers : /\ Sound(writer'[v].lines, run, dumped)
                           /\ writer[v].pc = "idle" => writer'[v].pc = "idle"
    <3>1. Sound(writer'[w].lines, run, dumped) /\ writer'[w].pc = "idle"
      <4>1. writer'[w].lines = <<>> /\ writer'[w].pc = "idle"
        BY <2>1, Idle
      <4>2. Sound(<<>>, run, dumped)
        BY <1>1, Idle
      <4> QED
        BY <4>1, <4>2
    <3>2. ASSUME NEW v \in Writers \ {w}
          PROVE  Sound(writer'[v].lines, run, dumped) /\ writer'[v].pc = writer[v].pc
      BY <1>1, <2>1
    <3> QED
      BY <3>1, <3>2
  <2>4. 0 \in Writers
    BY DEF Writers
  <2> QED
    BY <1>1, <1>3, <2>2, <2>3, <2>4 DEF LoopInv
<1> QED
  BY <1>2, <1>3 DEF Truncate

\* and writes its lines; nobody else was writing.
LEMMA WriteInv == ASSUME LoopInv, NEW w \in Writers, Write(w) PROVE LoopInv'
<1>1. /\ LoopTypes /\ writer[w] \in WriterState
      /\ writer[w].pc = "write" /\ csv' = writer[w].lines /\ run \in Nat
      /\ UNCHANGED <<run, app, dumped, crashed, disturbed>>
      /\ \A v \in Writers : Sound(writer[v].lines, run, dumped)
  BY LoopAssumption DEF LoopInv, LoopTypes, Write, LoopAssumption
<1>2. /\ writer' \in [Writers -> WriterState]
      /\ writer'[w] = NotWriting /\ \A v \in Writers \ {w} : writer'[v] = writer[v]
  BY <1>1, WriterPut, Idle DEF Write
<1>3. LoopTypes'
  BY <1>1, <1>2 DEF LoopTypes, WriterState
<1>4. \A v \in Writers : /\ Sound(writer'[v].lines, run, dumped)
                         /\ writer[v].pc = "idle" => writer'[v].pc = "idle"
  BY <1>1, <1>2, Idle
<1>5. 0 \in Writers /\ \A h \in Handlers : h \in Writers
  BY DEF Writers
<1>6. ASSUME ~disturbed
      PROVE  /\ \A h \in Handlers : writer'[h].pc # "idle" => h = run /\ app # "starting"
             /\ \A v \in Writers : writer'[v].pc \in {"truncate", "write"} =>
                                   Complete(writer'[v].lines, run, dumped)
             /\ Complete(csv', run, dumped)
  BY <1>1, <1>2, <1>4, <1>5, <1>6, Idle DEF LoopInv
<1> QED
  BY <1>1, <1>3, <1>4, <1>5, <1>6 DEF LoopInv

\* A dump is asked for: as long as nothing is disturbed, nobody is writing.
LEMMA RequestDumpInv == ASSUME LoopInv, NEW crash \in BOOLEAN, RequestDump(crash) PROVE LoopInv'
<1> DEFINE x == [pc |-> "load", lines |-> <<>>]
<1>1. /\ LoopTypes /\ run \in Nat /\ run \in Handlers
      /\ 0 \in Writers /\ run \in Writers /\ \A h \in Handlers : h \in Writers /\ h # 0
      /\ app = "running" /\ app' \in {"crashing", "dumping"} /\ writer' = [writer EXCEPT ![run] = x]
      /\ writer[run].pc = "idle" /\ UNCHANGED <<csv, run, dumped, disturbed>>
  BY LoopAssumption DEF LoopInv, LoopTypes, RequestDump, Handlers, Writers, LoopAssumption
<1>2. x \in WriterState /\ x.pc = "load" /\ x.lines = <<>>
  BY DEF WriterState
<1> HIDE DEF x
<1>3. /\ writer' \in [Writers -> WriterState]
      /\ writer'[run] = x /\ \A v \in Writers \ {run} : writer'[v] = writer[v]
  BY <1>1, <1>2, WriterPut
<1>4. LoopTypes'
  <2>1. crashed' \subseteq 1 .. run'
    <3>1. run \in 1 .. run /\ crashed \subseteq 1 .. run
      BY <1>1 DEF LoopTypes
    <3>2. crashed' = crashed \/ crashed' = crashed \cup {run}
      BY DEF RequestDump
    <3> QED
      BY <1>1, <3>1, <3>2
  <2> QED
    BY <1>1, <1>3, <2>1 DEF LoopTypes
<1>5. \A v \in Writers : Sound(writer'[v].lines, run, dumped)
  <2>1. \A v \in Writers : Sound(writer[v].lines, run, dumped)
    BY DEF LoopInv
  <2>2. Sound(<<>>, run, dumped)
    BY <1>1, Idle
  <2> QED
    BY <1>2, <1>3, <2>1, <2>2
<1>6. \A v \in Writers \ {run} : writer'[v].pc = writer[v].pc /\ writer'[v].lines = writer[v].lines
  BY <1>3
<1>7. writer'[run].pc = "load"
  BY <1>2, <1>3
<1> QED
  BY <1>1, <1>4, <1>5, <1>6, <1>7 DEF LoopInv

\* As long as nothing is disturbed, a handler that loads the file is the last run's, and is alone.
LEMMA LoadsAlone ==
    ASSUME LoopInv, ~disturbed, NEW h \in Handlers, writer[h].pc = "load"
    PROVE  /\ h = run /\ app # "starting" /\ Complete(csv, run, dumped)
           /\ \A v \in Writers \ {h} : writer[v].pc = "idle"
<1>1. h = run /\ app # "starting" /\ \A v \in Writers \ {h} : writer[v].pc = "idle"
  BY DEF LoopInv, Writers
<1> QED
  BY <1>1 DEF LoopInv

\* A run is marked: as long as nothing is disturbed, it is in the file.
LEMMA HandleExceptionInv == ASSUME LoopInv, NEW h \in Handlers, HandleException(h) PROVE LoopInv'
<1>1. /\ LoopTypes /\ Sound(csv, run, dumped) /\ run \in Nat /\ h \in Writers /\ h # 0
      /\ 0 \in Writers /\ \A g \in Handlers : g \in Writers /\ g # 0
      /\ dumped' = dumped \cup {h} /\ writer[h].pc = "load"
      /\ UNCHANGED <<csv, run, app, crashed, disturbed>>
  BY LoopAssumption DEF LoopInv, LoopTypes, HandleException, Handlers, Writers, LoopAssumption
<1>h. h \in 1 .. run
  BY <1>1 DEF LoopInv, Handlers
<1>2. /\ Sound(csv, run, dumped')
      /\ \A w \in Writers : Sound(writer[w].lines, run, dumped')
  <2>1. \A w \in Writers : Sound(writer[w].lines, run, dumped)
    BY DEF LoopInv
  <2>2. run <= run /\ dumped \subseteq dumped'
    BY <1>1
  <2>3. Sound(csv, run, dumped')
    BY <1>1, <2>2, SoundStays
  <2>4. ASSUME NEW w \in Writers PROVE Sound(writer[w].lines, run, dumped')
    BY <1>1, <2>1, <2>2, SoundStays
  <2> QED
    BY <2>3, <2>4
<1>d. dumped' \subseteq 1 .. run
  BY <1>1, <1>h DEF LoopTypes
<1>4. CASE \E i \in DOMAIN csv : csv[i].run = h
  <2> DEFINE c == [i \in DOMAIN csv |-> [csv[i] EXCEPT !.crashed = @ \/ csv[i].run = h]]
             x == [pc |-> "truncate", lines |-> c]
  <2>1. Sound(c, run, dumped') /\ (Complete(csv, run, dumped) => Complete(c, run, dumped'))
    BY <1>1, <1>h, MarkLine
  <2>2. writer' = [writer EXCEPT ![h] = x]
    BY <1>4 DEF HandleException, CrashLoopDetectionSetCrashed, Writes
  <2> HIDE DEF c
  <2>3. x \in WriterState
    BY <2>1 DEF Sound, WriterState
  <2>4. /\ writer' \in [Writers -> WriterState]
        /\ writer'[h] = x /\ \A v \in Writers \ {h} : writer'[v] = writer[v]
    BY <1>1, <2>2, <2>3, WriterPut
  <2>5. writer'[h].pc = "truncate" /\ writer'[h].lines = c
    BY <2>4
  <2>6. LoopTypes'
    BY <1>1, <1>d, <2>4 DEF LoopTypes
  <2>7. \A w \in Writers : Sound(writer'[w].lines, run, dumped')
    BY <1>2, <2>1, <2>4, <2>5
  <2>8. app # "starting" => writer'[0].pc = "idle"
    BY <1>1, <2>4 DEF LoopInv
  <2>9. ASSUME ~disturbed
        PROVE  /\ \A g \in Handlers : writer'[g].pc # "idle" => g = run /\ app # "starting"
               /\ \A w \in Writers : writer'[w].pc \in {"truncate", "write"} =>
                                     Complete(writer'[w].lines, run, dumped')
               /\ ~(\A w \in Writers : writer'[w].pc \in {"idle", "load"})
    <3>1. /\ h = run /\ app # "starting" /\ Complete(csv, run, dumped)
          /\ \A v \in Writers \ {h} : writer[v].pc = "idle"
      BY <1>1, <2>9, LoadsAlone
    <3> QED
      BY <1>1, <2>1, <2>4, <2>5, <3>1
  <2>10. \A g \in Handlers : writer'[g].pc # "idle" => g <= run
    BY <1>1, <1>h, <2>4 DEF LoopInv
  <2> QED
    BY <1>1, <1>2, <2>6, <2>7, <2>8, <2>9, <2>10 DEF LoopInv
<1>5. CASE ~\E i \in DOMAIN csv : csv[i].run = h
  <2>1. disturbed
    <3> SUFFICES ASSUME ~disturbed PROVE FALSE
      BY DEF LoopInv, LoopTypes
    <3>1. h = run /\ Complete(csv, run, dumped)
      BY <1>1, LoadsAlone
    <3> QED
      BY <1>1, <1>5, <1>h, <3>1, LastRunListed
  <2>2. writer' = [writer EXCEPT ![h] = NotWriting]
    BY <1>5 DEF HandleException, CrashLoopDetectionSetCrashed
  <2>3. /\ writer' \in [Writers -> WriterState]
        /\ writer'[h] = NotWriting /\ \A v \in Writers \ {h} : writer'[v] = writer[v]
    BY <1>1, <2>2, WriterPut, Idle
  <2>4. LoopTypes'
    BY <1>1, <1>d, <2>3 DEF LoopTypes
  <2>5. \A v \in Writers : Sound(writer'[v].lines, run, dumped')
    <3>1. writer'[h].lines = <<>> /\ Sound(<<>>, run, dumped')
      BY <1>1, <2>3, Idle
    <3> QED
      BY <1>2, <2>3, <3>1
  <2>6. writer'[0].pc = writer[0].pc
    BY <1>1, <2>3
  <2>7. \A g \in Handlers : writer'[g].pc # "idle" => g <= run
    BY <1>1, <1>h, <2>3 DEF LoopInv
  <2> QED
    BY <1>1, <1>2, <2>1, <2>4, <2>5, <2>6, <2>7 DEF LoopInv
<1> QED
  BY <1>4, <1>5

\* A run is not marked.
LEMMA LeaveUnmarkedInv == ASSUME LoopInv, NEW h \in Handlers, LeaveUnmarked(h) PROVE LoopInv'
<1>1. /\ LoopTypes /\ run \in Nat /\ h \in Writers /\ 0 \in Writers
      /\ \A g \in Handlers : g \in Writers /\ g # 0
      /\ UNCHANGED <<csv, run, app, dumped, crashed, disturbed>> /\ writer[h].pc = "load"
      /\ \A v \in Writers : Sound(writer[v].lines, run, dumped)
  BY LoopAssumption DEF LoopInv, LoopTypes, LeaveUnmarked, Handlers, Writers, LoopAssumption
<1>2. /\ writer' \in [Writers -> WriterState]
      /\ writer'[h] = NotWriting /\ \A v \in Writers \ {h} : writer'[v] = writer[v]
  BY <1>1, WriterPut, Idle DEF LeaveUnmarked
<1>3. LoopTypes'
  BY <1>1, <1>2 DEF LoopTypes
<1>4. \A v \in Writers : /\ Sound(writer'[v].lines, run, dumped)
                         /\ writer[v].pc = "idle" => writer'[v].pc = "idle"
  BY <1>1, <1>2, Idle
<1>5. ASSUME ~disturbed
      PROVE  /\ \A v \in Writers : writer'[v].pc = "idle"
             /\ Complete(csv, run, dumped)
  <2>1. writer'[h].pc = "idle"
    BY <1>2, Idle
  <2> QED
    BY <1>1, <1>2, <1>5, <2>1, LoadsAlone
<1> QED
  BY <1>1, <1>3, <1>4, <1>5 DEF LoopInv

\* The application ends; one that is cut off in its write disturbs.
LEMMA EndRunInv == ASSUME LoopInv, EndRun PROVE LoopInv'
<1>1. /\ LoopTypes /\ run \in Nat /\ 0 \in Writers /\ \A h \in Handlers : h \in Writers \ {0}
      /\ app' = "off" /\ UNCHANGED <<csv, run, dumped, crashed>>
      /\ \A v \in Writers : Sound(writer[v].lines, run, dumped)
  BY LoopAssumption DEF LoopInv, LoopTypes, EndRun, Handlers, Writers, LoopAssumption
<1>2. /\ writer' \in [Writers -> WriterState]
      /\ writer'[0] = NotWriting /\ \A v \in Writers \ {0} : writer'[v] = writer[v]
  BY <1>1, WriterPut, Idle DEF EndRun
<1>3. LoopTypes'
  BY <1>1, <1>2 DEF LoopTypes, EndRun
<1>4. \A v \in Writers : Sound(writer'[v].lines, run, dumped)
  BY <1>1, <1>2, Idle
<1>5. ~disturbed' => ~disturbed /\ writer[0].pc = "idle"
  BY DEF EndRun
<1>6. writer'[0].pc = "idle"
  BY <1>2, Idle
<1> QED
  BY <1>1, <1>2, <1>3, <1>4, <1>5, <1>6 DEF LoopInv

\* A handler is killed in its write.
LEMMA KillWriterInv == ASSUME LoopInv, NEW h \in Handlers, KillWriter(h) PROVE LoopInv'
<1>1. /\ LoopTypes /\ run \in Nat /\ h \in Writers /\ 0 \in Writers /\ disturbed' = TRUE
      /\ UNCHANGED <<csv, run, app, dumped, crashed>>
      /\ \A v \in Writers : Sound(writer[v].lines, run, dumped)
  BY LoopAssumption DEF LoopInv, LoopTypes, KillWriter, Writers, LoopAssumption
<1>2. /\ writer' \in [Writers -> WriterState]
      /\ writer'[h] = NotWriting /\ \A v \in Writers \ {h} : writer'[v] = writer[v]
  BY <1>1, WriterPut, Idle DEF KillWriter
<1>3. LoopTypes'
  BY <1>1, <1>2 DEF LoopTypes
<1>4. \A v \in Writers : /\ Sound(writer'[v].lines, run, dumped)
                         /\ writer[v].pc = "idle" => writer'[v].pc = "idle"
  BY <1>1, <1>2, Idle
<1>5. \A g \in Handlers : g \in Writers
  BY DEF Writers
<1> QED
  BY <1>1, <1>3, <1>4, <1>5 DEF LoopInv

\* Every step keeps the invariant.
LEMMA LoopStep == LoopInv /\ [LoopNext]_loopVars => LoopInv'
<1> SUFFICES ASSUME LoopInv, [LoopNext]_loopVars PROVE LoopInv'
  OBVIOUS
<1>1. CASE Started
  BY <1>1 DEF Started, LoopInv, LoopTypes
<1>2. CASE DumpDone
  BY <1>2 DEF DumpDone, LoopInv, LoopTypes
<1>3. CASE UNCHANGED loopVars
  BY <1>3 DEF loopVars, LoopInv, LoopTypes
<1> QED
  BY <1>1, <1>2, <1>3, StartHandlerInv, TruncateInv, WriteInv, RequestDumpInv,
     HandleExceptionInv, LeaveUnmarkedInv, EndRunInv, KillWriterInv DEF LoopNext

\* The file, the writers and the runs stay well typed.
THEOREM LoopTypeCorrect == LoopSpec => []LoopTypeOK
<1>1. LoopInv => LoopTypeOK
  <2> SUFFICES ASSUME LoopInv PROVE LoopTypeOK
    OBVIOUS
  <2>0. \A i \in DOMAIN csv : csv[i] \in Line
    BY DEF LoopInv, LoopTypes
  <2>1. \A i \in DOMAIN csv : csv[i] \in [run : 1 .. MaxRuns, crashed : BOOLEAN]
    BY <2>0, Zenon DEF Line
  <2>2. run \in 0 .. MaxRuns /\ dumped \subseteq 1 .. MaxRuns /\ crashed \subseteq 1 .. MaxRuns
    BY LoopAssumption DEF LoopInv, LoopTypes, LoopAssumption
  <2>3. \A w \in Writers : writer[w].pc \in {"idle", "load", "truncate", "write"}
    BY DEF LoopInv, LoopTypes, WriterState
  <2> QED
    BY <2>1, <2>2, <2>3 DEF LoopInv, LoopTypes, LoopTypeOK
<1> QED
  BY <1>1, LoopStart, LoopStep, PTL DEF LoopSpec

\* For any length of the file and any number of runs, ConsecutiveCrashesCount() finds at
\* the next start the number of last consecutive runs that HandleException() was called
\* for, be it for a crash or for DumpWithoutCrash(), if no write failed and no two met; and
\* whatever happens, the file does not grow, has the runs in their order and marks none for
\* nothing.
THEOREM LoopCounted == LoopSpec => []DumpsCounted
<1>1. LoopInv => DumpsCounted
  <2> SUFFICES ASSUME LoopInv PROVE DumpsCounted
    OBVIOUS
  <2>1. ASSUME ~disturbed, app = "off", HandlersIdle
        PROVE  ConsecutiveCrashesCount = InARow(dumped)
    <3>1. \A w \in Writers : writer[w].pc = "idle"
      BY <2>1 DEF LoopInv, HandlersIdle, Writers
    <3> QED
      BY <2>1, <3>1, CompleteCounts DEF LoopInv
  <2>2. DOMAIN csv = 1 .. Len(csv) /\ Sound(csv, run, dumped)
    BY DEF LoopInv, LoopTypes
  <2> QED
    BY <2>1, <2>2 DEF DumpsCounted, Settled, Sound
<1> QED
  BY <1>1, LoopStart, LoopStep, PTL DEF LoopSpec

----------------------------------------------------------------------------
(***************************************************************************)
(* PtraceBroker: the handler, the client and its broker on one socket.     *)
(* That a reader finds what it expects is inductive only together with     *)
(* what stands behind it: BrokerInv says which messages may be unread, one *)
(* after another, which of them the handler wrote last, and that what the  *)
(* handler has read, what is on its way and what the broker has still to   *)
(* write are one whole answer.                                             *)
(***************************************************************************)

\* The requests that a path follows.
PathRequests == {"ReadFile", "ListDirectory"}

\* The messages, and the answers' tokens.
Messages == [kind : Requests \cup {"Exit", "Path", "ForkBroker", "SetPtracer",
                                   "CrashDumpComplete", "CrashDumpFailed"},
             size : Nat]
Tokens == {"ErrnoZero", "Errno", "True", "False", "ThreadInfo", "NoThreadInfo", "Count", "Data",
           "CountZero", "CountMinusOne", "ReadError", "OpenSuccess", "OpenError"}

\* A request that has no answer.
NoAnswer(m) == m.kind = "ReadMemory" /\ m.size = 0

\* The handler may write n before anybody has read m.
Follows(m, n) ==
    \/ NoAnswer(m) /\ n.kind \in Requests \cup {"Exit"}
    \/ m.kind \in PathRequests /\ n.kind = "Path"
    \/ m.kind = "Exit" /\ n.kind = "CrashDumpComplete"

\* Every message that nobody has read follows the one before it.
Chain(q) == \A i \in 1 .. Len(q) - 1 : Follows(q[i], q[i + 1])

\* The last one of k tokens of the answer a, and the memory that is missing after k tokens
\* of an answer to call, if size was asked for.
LastOf(a, k) == IF k = 0 THEN "none" ELSE a[k]
LeftOf(call, size, k) == IF call = "ReadMemory" THEN size - k \div 2 ELSE 0

\* A whole answer: each token is one that the handler expects after the ones before, and the
\* call ends with the last one and not earlier.  Memory comes in pairs of tokens.
WellFormed(a, call, size) ==
    /\ a \in Seq(Tokens) /\ a # <<>>
    /\ \A k \in 1 .. Len(a) :
         /\ a[k] \in Expected(call, LastOf(a, k - 1))
         /\ Ends(call, a[k], LeftOf(call, size, k)) <=> k = Len(a)
         /\ a[k] = "Data" /\ call = "ReadMemory" => k % 2 = 0 /\ k \div 2 <= size
         /\ k < Len(a) /\ a[k] # "Data" /\ call = "ReadMemory" => k % 2 = 1

\* The handler has read k tokens of the answer a, toServer holds the next ones, and the
\* broker, if it is not dead, has the rest still to write.
Reading(a, k, size) ==
    /\ WellFormed(a, session.call, size)
    /\ session.last = LastOf(a, k) /\ session.left = LeftOf(session.call, size, k)
    /\ k + Len(toServer) <= Len(a)
    /\ \A i \in 1 .. Len(toServer) : toServer[i] = a[k + i]
    /\ broker.pc = "answer" =>
         /\ k + Len(toServer) + Len(broker.answer) = Len(a)
         /\ \A i \in 1 .. Len(broker.answer) : broker.answer[i] = a[k + Len(toServer) + i]
    /\ broker.pc # "answer" /\ broker.pc # "failed" => k + Len(toServer) = Len(a)
    /\ k < Len(a)

\* The types.
BrokerState == [pc : {"none", "request", "path", "answer", "exited", "failed"},
                answer : Seq(Tokens)]
SessionState == [pc : {"deciding", "ptracer", "forking", "calling", "path", "answer", "exit",
                       "report", "idle", "ended"},
                 call : Requests \cup {"none"}, last : Tokens \cup {"none"},
                 left : Nat, calls : 0 .. MaxCalls]

BrokerTypes ==
    /\ toClient \in Seq(Messages) /\ toServer \in Seq(Tokens)
    /\ client \in {"reading", "waiting", "returned"}
    /\ broker \in BrokerState /\ session \in SessionState

\* Where the broker can be, given where the client and the handler are.
Parties ==
    /\ client = "reading" => broker.pc \in {"none", "exited"}
    /\ client = "waiting" => broker.pc # "none"
    /\ client = "returned" => ~BrokerRuns
    /\ broker.pc # "failed" => (broker.pc = "answer" <=> broker.answer # <<>>)
    /\ session.pc \in {"deciding", "ptracer"} => broker.pc = "none"
    /\ session.pc = "forking" => broker.pc \in {"none", "request", "failed"}
    /\ session.pc \in {"calling", "exit"} => broker.pc \in {"request", "failed"}
    /\ session.pc = "path" => broker.pc \in {"request", "path", "failed"}
    /\ session.pc = "answer" => broker.pc \in {"request", "path", "answer", "failed"}
    /\ session.pc \in {"report", "idle"} => broker.pc \notin {"path", "answer"}
    /\ session.call # "ReadMemory" => session.left = 0

\* Whoever reads toClient finds something it expects first.
HeadFits ==
    toClient # <<>> =>
      /\ broker.pc \in {"none", "exited"} =>
           /\ Head(toClient).kind \in {"ForkBroker", "SetPtracer",
                                        "CrashDumpComplete", "CrashDumpFailed"}
           /\ Len(toClient) = 1
      /\ broker.pc = "request" => Head(toClient).kind \in Requests \cup {"Exit"}
      /\ broker.pc = "path" => Head(toClient).kind = "Path"
      /\ broker.pc # "answer"

\* What stands there last is what the handler wrote last.
Written(m) ==
    /\ session.pc # "deciding"
    /\ session.pc = "ptracer" => m.kind = "SetPtracer"
    /\ session.pc = "forking" => m.kind = "ForkBroker" /\ broker.pc = "none"
    /\ session.pc \in {"calling", "exit"} => NoAnswer(m)
    /\ session.pc = "path" => m.kind \in PathRequests
    /\ session.pc = "answer" =>
         \/ m.kind = "Path" /\ session.call \in PathRequests
         \/ /\ m.kind = session.call /\ m.size = session.left
            /\ ~NoAnswer(m) /\ m.kind \notin PathRequests
    /\ session.pc = "report" => m.kind = "Exit"
    /\ session.pc = "idle" => m.kind \in {"CrashDumpComplete", "CrashDumpFailed"}

\* As long as the broker is alive,
LastFits == toClient # <<>> /\ broker.pc # "failed" => Written(toClient[Len(toClient)])

\* what is unread stands in its order.
InOrder == broker.pc # "failed" => Chain(toClient)

\* The handler reads the answer a, which the broker is writing or has written.
Underway ==
    /\ broker.pc \in {"answer", "request"} => toClient = <<>>
    /\ broker.pc # "path"
    /\ \E a \in Seq(Tokens), k \in Nat, size \in Nat : Reading(a, k, size)

\* What the handler can read, and who has still to read what it wrote.
ServerFits ==
    /\ session.pc \in {"deciding", "calling", "path", "exit", "report", "idle"} => toServer = <<>>
    /\ session.pc = "deciding" => toClient = <<>>
    /\ session.pc = "calling" => session.last = "none"
    /\ session.pc = "ptracer" =>
         \/ toClient # <<>> /\ toServer = <<>>
         \/ \E t \in {"ErrnoZero", "Errno"} : toServer = <<t>> /\ toClient = <<>>
    /\ session.pc = "forking" =>
         \/ toClient # <<>> /\ broker.pc = "none" /\ toServer = <<>>
         \/ toClient = <<>> /\ broker.pc # "none" /\ toServer = <<"ErrnoZero">>
         \/ toClient = <<>> /\ broker.pc = "none" /\ toServer = <<"Errno">>
    /\ session.pc = "path" =>
         /\ session.call \in PathRequests /\ session.last = "none"
         /\ broker.pc = "request" => toClient # <<>>
         /\ broker.pc = "path" => toClient = <<>>
    /\ session.pc = "answer" =>
         /\ session.call # "none"
         /\ \/ broker.pc = "failed" /\ toServer = <<>>
            \/ /\ broker.pc \in {"request", "path"} /\ toClient # <<>>
               /\ toServer = <<>> /\ session.last = "none"
            \/ Underway
    /\ session.pc = "report" /\ broker.pc = "request" => toClient # <<>>

\* The inductive invariant.
BrokerInv == BrokerTypes /\ Parties /\ HeadFits /\ LastFits /\ InOrder /\ ServerFits

\* The empty sequence is the one of length zero.
LEMMA SeqEmpty ==
    ASSUME NEW S, NEW q \in Seq(S)
    PROVE  Len(q) \in Nat /\ (q = <<>> <=> Len(q) = 0)
OBVIOUS

\* What is left of a sequence when its first element is read,
LEMMA SeqTail ==
    ASSUME NEW S, NEW q \in Seq(S), q # <<>>
    PROVE  /\ Tail(q) \in Seq(S) /\ Len(q) \in Nat \ {0} /\ Len(Tail(q)) = Len(q) - 1
           /\ Head(q) = q[1] /\ q[1] \in S
           /\ Tail(q) = <<>> <=> Len(q) = 1
           /\ \A i \in 1 .. Len(q) - 1 : Tail(q)[i] = q[i + 1]
<1>1. Len(q) \in Nat \ {0} /\ Tail(q) \in Seq(S) /\ Len(Tail(q)) = Len(q) - 1
  OBVIOUS
<1>2. Tail(q) = <<>> <=> Len(Tail(q)) = 0
  BY <1>1, SeqEmpty
<1> QED
  BY <1>1, <1>2

\* and when one is written.
LEMMA SeqAppend ==
    ASSUME NEW S, NEW q \in Seq(S), NEW m \in S
    PROVE  /\ Append(q, m) \in Seq(S) /\ Append(q, m) # <<>>
           /\ Len(q) \in Nat /\ Len(Append(q, m)) = Len(q) + 1
           /\ q = <<>> <=> Len(q) = 0
           /\ \A i \in 1 .. Len(q) : Append(q, m)[i] = q[i]
           /\ Append(q, m)[Len(q) + 1] = m
<1>1. Append(q, m) \in Seq(S) /\ Len(q) \in Nat /\ Len(Append(q, m)) = Len(q) + 1
  OBVIOUS
<1>2. q = <<>> <=> Len(q) = 0
  OBVIOUS
<1>3. Append(q, m) # <<>>
  BY <1>1
<1> QED
  BY <1>1, <1>2, <1>3

\* One token is written.
LEMMA TokenAppend ==
    ASSUME NEW q \in Seq(Tokens), NEW t \in Tokens
    PROVE  Append(q, t) \in Seq(Tokens) /\ (q = <<>> => Append(q, t) = <<t>>)
<1>1. Append(<<>>, t) = <<t>>
  OBVIOUS
<1>2. Append(q, t) \in Seq(Tokens)
  OBVIOUS
<1> QED
  BY <1>1, <1>2, Zenon

\* The reader of toClient takes its first message.
LEMMA QueueTail ==
    ASSUME NEW q \in Seq(Messages), q # <<>>
    PROVE  /\ Tail(q) \in Seq(Messages) /\ Head(q) \in Messages
           /\ Tail(q) = <<>> => q[Len(q)] = Head(q)
           /\ Tail(q) # <<>> => /\ q[Len(q)] = Tail(q)[Len(Tail(q))]
                                /\ Chain(q) => Follows(Head(q), Head(Tail(q)))
           /\ Chain(q) => Chain(Tail(q))
<1>1. /\ Tail(q) \in Seq(Messages) /\ Len(q) \in Nat \ {0} /\ Len(Tail(q)) = Len(q) - 1
      /\ Head(q) = q[1] /\ q[1] \in Messages
      /\ Tail(q) = <<>> <=> Len(q) = 1
      /\ \A i \in 1 .. Len(q) - 1 : Tail(q)[i] = q[i + 1]
  BY SeqTail
<1>2. ASSUME Tail(q) # <<>>
      PROVE  /\ q[Len(q)] = Tail(q)[Len(Tail(q))]
             /\ Chain(q) => Follows(Head(q), Head(Tail(q)))
  <2>1. Len(q) - 1 \in 1 .. Len(q) - 1 /\ 1 \in 1 .. Len(q) - 1 /\ (Len(q) - 1) + 1 = Len(q)
    BY <1>1, <1>2
  <2>2. Head(Tail(q)) = Tail(q)[1]
    BY <1>1, <1>2, SeqTail
  <2>3. Tail(q)[1] = q[2] /\ Tail(q)[Len(q) - 1] = q[Len(q)]
    BY <1>1, <2>1
  <2> QED
    BY <1>1, <2>1, <2>2, <2>3 DEF Chain
<1>3. ASSUME Chain(q) PROVE Chain(Tail(q))
  <2> SUFFICES ASSUME NEW i \in 1 .. Len(Tail(q)) - 1 PROVE Follows(Tail(q)[i], Tail(q)[i + 1])
    BY DEF Chain
  <2>1. i \in 1 .. Len(q) - 1 /\ i + 1 \in 1 .. Len(q) - 1
    BY <1>1
  <2>2. Tail(q)[i] = q[i + 1] /\ Tail(q)[i + 1] = q[(i + 1) + 1]
    BY <1>1, <2>1
  <2> QED
    BY <1>3, <2>1, <2>2 DEF Chain
<1> QED
  BY <1>1, <1>2, <1>3

\* A message that nothing follows is the only one.
LEMMA QueueEnd ==
    ASSUME NEW q \in Seq(Messages), q # <<>>, Chain(q), \A n \in Messages : ~Follows(Head(q), n)
    PROVE  Tail(q) = <<>> /\ Len(q) = 1
<1>1. Tail(q) # <<>> => Head(Tail(q)) \in Messages
  BY QueueTail, SeqTail
<1>2. Tail(q) = <<>>
  BY <1>1, QueueTail
<1> QED
  BY <1>2, SeqTail

\* The handler writes a message.
LEMMA QueueAppend ==
    ASSUME NEW q \in Seq(Messages), NEW m \in Messages
    PROVE  /\ Append(q, m) \in Seq(Messages) /\ Append(q, m) # <<>>
           /\ Append(q, m)[Len(Append(q, m))] = m
           /\ q = <<>> => Head(Append(q, m)) = m /\ Len(Append(q, m)) = 1 /\ Chain(Append(q, m))
           /\ q # <<>> => Head(Append(q, m)) = Head(q)
           /\ q # <<>> /\ Chain(q) /\ Follows(q[Len(q)], m) => Chain(Append(q, m))
<1>1. /\ Append(q, m) \in Seq(Messages) /\ Append(q, m) # <<>>
      /\ Len(q) \in Nat /\ Len(Append(q, m)) = Len(q) + 1
      /\ q = <<>> <=> Len(q) = 0
      /\ \A i \in 1 .. Len(q) : Append(q, m)[i] = q[i]
      /\ Append(q, m)[Len(q) + 1] = m
  BY SeqAppend
<1>2. Head(Append(q, m)) = Append(q, m)[1]
  BY <1>1, SeqTail
<1>3. q # <<>> => Head(q) = q[1]
  BY SeqTail
<1>4. q = <<>> => Head(Append(q, m)) = m /\ Len(Append(q, m)) = 1 /\ Chain(Append(q, m))
  BY <1>1, <1>2 DEF Chain
<1>5. q # <<>> => Head(Append(q, m)) = Head(q)
  BY <1>1, <1>2, <1>3
<1>6. ASSUME q # <<>>, Chain(q), Follows(q[Len(q)], m) PROVE Chain(Append(q, m))
  <2> SUFFICES ASSUME NEW i \in 1 .. Len(Append(q, m)) - 1
               PROVE  Follows(Append(q, m)[i], Append(q, m)[i + 1])
    BY DEF Chain
  <2>1. i \in 1 .. Len(q)
    BY <1>1
  <2>2. CASE i = Len(q)
    BY <1>1, <1>6, <2>1, <2>2
  <2>3. CASE i # Len(q)
    <3>1. i \in 1 .. Len(q) - 1 /\ i + 1 \in 1 .. Len(q)
      BY <1>1, <2>1, <2>3
    <3> QED
      BY <1>1, <1>6, <2>1, <3>1 DEF Chain
  <2> QED
    BY <2>2, <2>3
<1> QED
  BY <1>1, <1>4, <1>5, <1>6

\* The pieces of n chunks.
LEMMA PiecesAre ==
    ASSUME NEW n \in Nat
    PROVE  /\ Pieces(n) \in Seq(Tokens) /\ Len(Pieces(n)) = 2 * n
           /\ \A i \in 1 .. 2 * n : Pieces(n)[i] = IF i % 2 = 1 THEN "Count" ELSE "Data"
<1>1. 2 * n \in Nat
  OBVIOUS
<1>2. \A i \in 1 .. 2 * n : (IF i % 2 = 1 THEN "Count" ELSE "Data") \in Tokens
  BY DEF Tokens
<1>3. Pieces(n) \in [1 .. 2 * n -> Tokens]
  BY <1>2 DEF Pieces
<1>4. Pieces(n) \in Seq(Tokens) /\ Len(Pieces(n)) = 2 * n
  BY <1>1, <1>3
<1> QED
  BY <1>4 DEF Pieces

\* A pieces' sequence and what ends it.
LEMMA PiecesThen ==
    ASSUME NEW n \in Nat, NEW e \in Seq(Tokens)
    PROVE  /\ Pieces(n) \o e \in Seq(Tokens) /\ Len(Pieces(n) \o e) = 2 * n + Len(e)
           /\ \A i \in 1 .. 2 * n : (Pieces(n) \o e)[i] = IF i % 2 = 1 THEN "Count" ELSE "Data"
           /\ \A i \in 1 .. Len(e) : (Pieces(n) \o e)[2 * n + i] = e[i]
<1> DEFINE p == Pieces(n)
<1>1. /\ p \in Seq(Tokens) /\ Len(p) = 2 * n
      /\ \A i \in 1 .. 2 * n : p[i] = IF i % 2 = 1 THEN "Count" ELSE "Data"
  BY PiecesAre
<1> HIDE DEF p
<1>2. /\ p \o e \in Seq(Tokens) /\ Len(p \o e) = Len(p) + Len(e) /\ Len(e) \in Nat
      /\ \A i \in 1 .. Len(p) : (p \o e)[i] = p[i]
      /\ \A i \in 1 .. Len(e) : (p \o e)[Len(p) + i] = e[i]
  BY <1>1
<1> QED
  BY <1>1, <1>2 DEF p

\* What may come after the pieces.
PiecesEnd(e) ==
    \/ Len(e) = 1 /\ e[1] = "CountZero"
    \/ Len(e) = 2 /\ e[1] = "CountMinusOne" /\ e[2] = "ReadError"

\* That is what the broker writes.
LEMMA EndsAre ==
    ASSUME NEW e \in {<<"CountZero">>, ReadFailure}
    PROVE  e \in Seq(Tokens) /\ PiecesEnd(e)
<1>1. "CountZero" \in Tokens /\ "CountMinusOne" \in Tokens /\ "ReadError" \in Tokens
  BY DEF Tokens
<1>2. CASE e = <<"CountZero">>
  <2>1. e \in Seq(Tokens) /\ Len(e) = 1 /\ e[1] = "CountZero"
    BY <1>1, <1>2
  <2> QED
    BY <2>1 DEF PiecesEnd
<1>3. CASE e = <<"CountMinusOne", "ReadError">>
  <2>1. e \in Seq(Tokens) /\ Len(e) = 2 /\ e[1] = "CountMinusOne" /\ e[2] = "ReadError"
    BY <1>1, <1>3
  <2> QED
    BY <2>1 DEF PiecesEnd
<1> QED
  BY <1>2, <1>3 DEF ReadFailure

\* The tokens of n chunks and their end, each with the one before it.
Piece(c, j, n) ==
    LET before == IF j = 1 THEN "Data" ELSE c[j - 1]
    IN  \/ before = "Data" /\ c[j] = "Count" /\ j # Len(c) /\ j % 2 = 1
        \/ before = "Count" /\ c[j] = "Data" /\ j # Len(c) /\ j % 2 = 0 /\ j <= 2 * n
        \/ before = "Data" /\ c[j] = "CountZero" /\ j = Len(c)
        \/ before = "Data" /\ c[j] = "CountMinusOne" /\ j # Len(c) /\ j % 2 = 1
        \/ before = "CountMinusOne" /\ c[j] = "ReadError" /\ j = Len(c)

\* That is what the pieces of n chunks and an end are.
LEMMA PiecesWithEnd ==
    ASSUME NEW n \in Nat, NEW e \in Seq(Tokens), PiecesEnd(e), NEW c \in Seq(Tokens),
           Len(c) = 2 * n + Len(e),
           \A i \in 1 .. 2 * n : c[i] = IF i % 2 = 1 THEN "Count" ELSE "Data",
           \A i \in 1 .. Len(e) : c[2 * n + i] = e[i]
    PROVE  Len(c) \in Nat \ {0} /\ \A j \in 1 .. Len(c) : Piece(c, j, n)
<1>1. (Len(e) = 1 \/ Len(e) = 2) /\ e[1] = (IF Len(e) = 1 THEN "CountZero" ELSE "CountMinusOne")
  BY DEF PiecesEnd
<1>2. Len(c) \in Nat \ {0} /\ 1 \in 1 .. Len(e) /\ c[2 * n + 1] = e[1]
  <2>1. 1 \in 1 .. Len(e)
    BY <1>1
  <2>2. Len(c) \in Nat \ {0}
    BY <1>1
  <2> QED
    BY <2>1, <2>2
<1>3. ASSUME NEW j \in 1 .. Len(c) PROVE Piece(c, j, n)
  <2>1. /\ j \in Nat \ {0} /\ 2 * n \in Nat
        /\ \/ Len(e) = 1 /\ Len(c) = 2 * n + 1 /\ j <= 2 * n + 1
           \/ Len(e) = 2 /\ Len(c) = 2 * n + 2 /\ j <= 2 * n + 2
    <3>1. j \in Nat \ {0} /\ j <= Len(c)
      BY <1>2
    <3>2. 2 * n \in Nat
      OBVIOUS
    <3>3. CASE Len(e) = 1
      BY <3>1, <3>2, <3>3
    <3>4. CASE Len(e) = 2
      BY <3>1, <3>2, <3>4
    <3> QED
      BY <1>1, <3>3, <3>4
  <2>2. CASE j <= 2 * n
    <3>1. j \in 1 .. 2 * n /\ j # Len(c)
      BY <2>1, <2>2
    <3>2. j # 1 => j - 1 \in 1 .. 2 * n /\ ((j - 1) % 2 = 1 <=> j % 2 # 1)
      BY <2>1, <2>2
    <3>3. /\ c[j] = (IF j % 2 = 1 THEN "Count" ELSE "Data")
          /\ j # 1 => c[j - 1] = (IF j % 2 = 1 THEN "Data" ELSE "Count")
      BY <3>1, <3>2
    <3>4. j % 2 = 1 \/ (j % 2 = 0 /\ j # 1)
      BY <2>1
    <3> QED
      BY <2>2, <3>1, <3>3, <3>4 DEF Piece
  <2>3. CASE j = 2 * n + 1
    <3>1. j % 2 = 1 /\ (j # 1 => j - 1 \in 1 .. 2 * n /\ (j - 1) % 2 # 1)
      BY <2>1, <2>3
    <3>2. c[j] = e[1] /\ (j # 1 => c[j - 1] = "Data")
      BY <1>2, <2>3, <3>1
    <3>3. j = Len(c) <=> Len(e) = 1
      BY <2>1, <2>3
    <3> QED
      BY <1>1, <3>1, <3>2, <3>3 DEF Piece
  <2>4. CASE j = 2 * n + 2
    <3>1. Len(e) = 2 /\ j = Len(c) /\ j - 1 = 2 * n + 1 /\ j # 1 /\ 2 \in 1 .. Len(e)
      BY <2>1, <2>4
    <3>2. c[j] = e[2] /\ e[2] = "ReadError"
      BY <2>4, <3>1 DEF PiecesEnd
    <3>3. c[j - 1] = "CountMinusOne"
      BY <1>1, <1>2, <3>1
    <3> QED
      BY <3>1, <3>2, <3>3 DEF Piece
  <2> QED
    BY <2>1, <2>2, <2>3, <2>4
<1> QED
  BY <1>2, <1>3

\* So they are in an answer.
LEMMA PiecesAnswer ==
    ASSUME NEW n \in Nat, NEW e \in {<<"CountZero">>, ReadFailure}, NEW c, c = Pieces(n) \o e
    PROVE  c \in Seq(Tokens) /\ Len(c) \in Nat \ {0} /\ \A j \in 1 .. Len(c) : Piece(c, j, n)
<1>1. e \in Seq(Tokens) /\ PiecesEnd(e)
  BY EndsAre, Zenon
<1>2. /\ c \in Seq(Tokens) /\ Len(c) = 2 * n + Len(e)
      /\ \A i \in 1 .. 2 * n : c[i] = IF i % 2 = 1 THEN "Count" ELSE "Data"
      /\ \A i \in 1 .. Len(e) : c[2 * n + i] = e[i]
  BY <1>1, PiecesThen, Zenon
<1> QED
  BY <1>1, <1>2, PiecesWithEnd, Zenon

\* SendMemory() answers as PtraceClient::ReadUpTo() reads.
LEMMA MemoryFits ==
    ASSUME NEW size \in Nat, NEW a \in SendMemory(size)
    PROVE  /\ size = 0 => a = <<>>
           /\ size # 0 => WellFormed(a, "ReadMemory", size)
<1>1. CASE a = Pieces(size)
  <2>1. /\ a \in Seq(Tokens) /\ Len(a) = 2 * size
        /\ \A i \in 1 .. 2 * size : a[i] = IF i % 2 = 1 THEN "Count" ELSE "Data"
    BY <1>1, PiecesAre
  <2>2. a = <<>> <=> size = 0
    BY <2>1, SeqEmpty
  <2>3. ASSUME size # 0 PROVE WellFormed(a, "ReadMemory", size)
    <3> SUFFICES ASSUME NEW k \in 1 .. 2 * size
                 PROVE  /\ a[k] \in Expected("ReadMemory", LastOf(a, k - 1))
                        /\ Ends("ReadMemory", a[k], size - k \div 2) <=> k = 2 * size
                        /\ a[k] = "Data" => k % 2 = 0 /\ k \div 2 <= size
                        /\ k < 2 * size /\ a[k] # "Data" => k % 2 = 1
      BY <2>1, <2>2, <2>3 DEF WellFormed, LeftOf
    <3>1. CASE k % 2 = 1
      <4>1. a[k] = "Count" /\ k # 2 * size
        BY <2>1, <3>1
      <4>2. k = 1 \/ (k - 1 \in 1 .. 2 * size /\ (k - 1) % 2 # 1)
        BY <3>1
      <4>3. LastOf(a, k - 1) \in {"none", "Data"}
        BY <2>1, <4>2 DEF LastOf
      <4> QED
        BY <3>1, <4>1, <4>3 DEF Expected, Ends
    <3>2. CASE k % 2 # 1
      <4>1. a[k] = "Data" /\ k % 2 = 0 /\ k - 1 \in 1 .. 2 * size /\ (k - 1) % 2 = 1 /\ k - 1 # 0
        BY <2>1, <3>2
      <4>2. LastOf(a, k - 1) = "Count"
        BY <2>1, <4>1 DEF LastOf
      <4>3. k \div 2 <= size /\ (size - k \div 2 = 0 <=> k = 2 * size)
        BY <4>1
      <4> QED
        BY <4>1, <4>2, <4>3 DEF Expected, Ends
    <3> QED
      BY <3>1, <3>2
  <2> QED
    BY <2>2, <2>3
<1>2. ASSUME NEW n \in 0 .. size, n < size, NEW e \in {<<"CountZero">>, ReadFailure},
             a = Pieces(n) \o e
      PROVE  WellFormed(a, "ReadMemory", size)
  <2>1. a \in Seq(Tokens) /\ Len(a) \in Nat \ {0} /\ \A j \in 1 .. Len(a) : Piece(a, j, n)
    <3>1. n \in Nat
      BY <1>2
    <3> QED
      BY <1>2, <3>1, PiecesAnswer, Zenon
  <2>2. a # <<>>
    BY <2>1, SeqEmpty
  <2> SUFFICES ASSUME NEW k \in 1 .. Len(a)
               PROVE  /\ a[k] \in Expected("ReadMemory", LastOf(a, k - 1))
                      /\ Ends("ReadMemory", a[k], size - k \div 2) <=> k = Len(a)
                      /\ a[k] = "Data" => k % 2 = 0 /\ k \div 2 <= size
                      /\ k < Len(a) /\ a[k] # "Data" => k % 2 = 1
    BY <2>1, <2>2 DEF WellFormed, LeftOf
  <2>3. LastOf(a, k - 1) = IF k = 1 THEN "none" ELSE a[k - 1]
    BY <2>1 DEF LastOf
  <2>4. k <= 2 * n => k \div 2 <= size /\ size - k \div 2 # 0
    BY <1>2
  <2> QED
    BY <2>1, <2>3, <2>4 DEF Piece, Expected, Ends
<1>3. ASSUME NEW n \in 0 .. size, n < size PROVE size # 0
  BY <1>3
<1>4. size = 0 /\ a = Pieces(size) => a = <<>>
  BY PiecesAre, SeqEmpty
<1> QED
  BY <1>1, <1>2, <1>3, <1>4 DEF SendMemory

\* An answer of one token,
LEMMA OneToken ==
    ASSUME NEW r, NEW size, NEW t \in Tokens, r # "ReadMemory", t \in Expected(r, "none"),
           Ends(r, t, 0)
    PROVE  WellFormed(<<t>>, r, size)
<1> DEFINE a == <<t>>
<1>1. a \in Seq(Tokens) /\ Len(a) = 1 /\ a[1] = t /\ a # <<>>
  OBVIOUS
<1> HIDE DEF a
<1>2. LastOf(a, 1 - 1) = "none" /\ LeftOf(r, size, 1) = 0
  BY DEF LastOf, LeftOf
<1>3. \A k \in 1 .. Len(a) : k = 1
  BY <1>1
<1>4. WellFormed(a, r, size)
  BY <1>1, <1>2, <1>3 DEF WellFormed
<1> QED
  BY <1>4 DEF a

\* and one of two.
LEMMA TwoTokens ==
    ASSUME NEW r, NEW size, NEW t \in Tokens, NEW u \in Tokens, r # "ReadMemory",
           t \in Expected(r, "none"), ~Ends(r, t, 0), u \in Expected(r, t), Ends(r, u, 0)
    PROVE  WellFormed(<<t, u>>, r, size)
<1> DEFINE a == <<t, u>>
<1>1. a \in Seq(Tokens) /\ Len(a) = 2 /\ a[1] = t /\ a[2] = u /\ a # <<>>
  OBVIOUS
<1> HIDE DEF a
<1>2. /\ LastOf(a, 1 - 1) = "none" /\ LastOf(a, 2 - 1) = t
      /\ LeftOf(r, size, 1) = 0 /\ LeftOf(r, size, 2) = 0
  BY <1>1 DEF LastOf, LeftOf
<1>3. \A k \in 1 .. Len(a) : k = 1 \/ k = 2
  BY <1>1
<1>4. WellFormed(a, r, size)
  BY <1>1, <1>2, <1>3 DEF WellFormed
<1> QED
  BY <1>4 DEF a

\* RunImpl() answers every request as PtraceClient reads it.
LEMMA AnswersFit ==
    ASSUME NEW r \in Requests \ PathRequests, NEW size \in Nat, NEW a \in Answers(r, size)
    PROVE  IF r = "ReadMemory" /\ size = 0 THEN a = <<>> ELSE WellFormed(a, r, size)
<1>1. CASE r = "ReadMemory"
  <2>1. a \in SendMemory(size)
    BY <1>1 DEF Answers
  <2> QED
    BY <1>1, <2>1, MemoryFits
<1>2. CASE r = "Attach"
  <2>1. a = <<"True">> \/ a = <<"False", "Errno">>
    BY <1>2 DEF Answers
  <2>2. WellFormed(<<"True">>, r, size)
    BY <1>2, OneToken DEF Tokens, Expected, Ends
  <2>3. WellFormed(<<"False", "Errno">>, r, size)
    BY <1>2, TwoTokens DEF Tokens, Expected, Ends
  <2> QED
    BY <1>2, <2>1, <2>2, <2>3
<1>3. CASE r = "Is64Bit"
  <2>1. a = <<"True">> \/ a = <<"False">>
    BY <1>3 DEF Answers
  <2>2. WellFormed(<<"True">>, r, size) /\ WellFormed(<<"False">>, r, size)
    BY <1>3, OneToken DEF Tokens, Expected, Ends
  <2> QED
    BY <1>3, <2>1, <2>2
<1>4. CASE r = "GetThreadInfo"
  <2>1. a = <<"ThreadInfo">> \/ a = <<"NoThreadInfo", "Errno">>
    BY <1>4 DEF Answers
  <2>2. WellFormed(<<"ThreadInfo">>, r, size)
    BY <1>4, OneToken DEF Tokens, Expected, Ends
  <2>3. WellFormed(<<"NoThreadInfo", "Errno">>, r, size)
    BY <1>4, TwoTokens DEF Tokens, Expected, Ends
  <2> QED
    BY <1>4, <2>1, <2>2, <2>3
<1> QED
  BY <1>1, <1>2, <1>3, <1>4 DEF Requests, PathRequests

\* SendFileContents() and SendDirectory(), after OpenSuccess,
LEMMA OpenedFits ==
    ASSUME NEW r \in PathRequests, NEW n \in Nat, NEW c \in Seq(Tokens), Len(c) \in Nat \ {0},
           \A j \in 1 .. Len(c) : Piece(c, j, n),
           NEW a \in Seq(Tokens), Len(a) = 1 + Len(c), a[1] = "OpenSuccess",
           \A i \in 1 .. Len(c) : a[1 + i] = c[i]
    PROVE  WellFormed(a, r, 0)
<1>1. a # <<>>
  BY SeqEmpty
<1> SUFFICES ASSUME NEW k \in 1 .. Len(a)
             PROVE  /\ a[k] \in Expected(r, LastOf(a, k - 1))
                    /\ Ends(r, a[k], 0) <=> k = Len(a)
  BY <1>1 DEF WellFormed, LeftOf, PathRequests
<1>5. CASE k = 1
  <2>1. a[k] = "OpenSuccess" /\ LastOf(a, k - 1) = "none" /\ k # Len(a)
    BY <1>5 DEF LastOf
  <2> QED
    BY <2>1 DEF Expected, Ends, PathRequests
<1>6. CASE k # 1
  <2> DEFINE j == k - 1
  <2>1. j \in 1 .. Len(c) /\ k = 1 + j /\ (k = Len(a) <=> j = Len(c))
    BY <1>6
  <2>2. LastOf(a, j) = a[j]
    BY <2>1 DEF LastOf
  <2>3. j # 1 => a[j] = c[j - 1]
    <3>1. j # 1 => j - 1 \in 1 .. Len(c) /\ j = 1 + (j - 1)
      BY <2>1
    <3> QED
      BY <3>1
  <2>4. LastOf(a, j) = IF j = 1 THEN "OpenSuccess" ELSE c[j - 1]
    BY <2>1, <2>2, <2>3
  <2>5. a[k] = c[j]
    BY <2>1
  <2>6. Piece(c, j, n)
    BY <2>1
  <2> HIDE DEF j
  <2>7. a[k] \in Expected(r, LastOf(a, j)) /\ (Ends(r, a[k], 0) <=> k = Len(a))
    BY <2>1, <2>4, <2>5, <2>6 DEF Piece, Expected, Ends, PathRequests
  <2> QED
    BY <2>7 DEF j
<1> QED
  BY <1>5, <1>6

\* put together,
LEMMA OpenThen ==
    ASSUME NEW c \in Seq(Tokens), NEW a, a = <<"OpenSuccess">> \o c
    PROVE  /\ a \in Seq(Tokens) /\ Len(a) = 1 + Len(c) /\ a[1] = "OpenSuccess"
           /\ \A i \in 1 .. Len(c) : a[1 + i] = c[i]
<1> DEFINE o == <<"OpenSuccess">>
<1>1. o \in Seq(Tokens) /\ Len(o) = 1 /\ o[1] = "OpenSuccess"
  BY DEF Tokens
<1>2. a = o \o c
  OBVIOUS
<1> HIDE DEF o
<1> QED
  BY <1>1, <1>2

\* or OpenError alone.
LEMMA ContentsFit ==
    ASSUME NEW r \in PathRequests,
           NEW a \in {<<"OpenError">>} \cup {<<"OpenSuccess">> \o c : c \in Contents}
    PROVE  WellFormed(a, r, 0)
<1>1. CASE a = <<"OpenError">>
  <2>1. WellFormed(<<"OpenError">>, r, 0)
    BY OneToken DEF PathRequests, Tokens, Expected, Ends
  <2> QED
    BY <1>1, <2>1
<1>2. CASE \E c \in Contents : a = <<"OpenSuccess">> \o c
  <2>1. PICK c \in Contents : a = <<"OpenSuccess">> \o c
    BY <1>2
  <2>2. \E n \in 0 .. MaxChunks : \E e \in {<<"CountZero">>, ReadFailure} : c = Pieces(n) \o e
    BY <2>1 DEF Contents
  <2>3. PICK n \in 0 .. MaxChunks : \E e \in {<<"CountZero">>, ReadFailure} : c = Pieces(n) \o e
    BY <2>2, Zenon
  <2>4. PICK e \in {<<"CountZero">>, ReadFailure} : c = Pieces(n) \o e
    BY <2>3, Zenon
  <2>5. n \in Nat
    BY <2>3
  <2>6. c \in Seq(Tokens) /\ Len(c) \in Nat \ {0} /\ \A j \in 1 .. Len(c) : Piece(c, j, n)
    BY <2>4, <2>5, PiecesAnswer, Zenon
  <2>7. /\ a \in Seq(Tokens) /\ Len(a) = 1 + Len(c) /\ a[1] = "OpenSuccess"
        /\ \A i \in 1 .. Len(c) : a[1 + i] = c[i]
    BY <2>1, <2>6, OpenThen, Zenon
  <2> QED
    BY <2>5, <2>6, <2>7, OpenedFits, Zenon
<1> QED
  BY <1>1, <1>2

\* The handler begins something new.
LEMMA HereIs ==
    ASSUME BrokerTypes, NEW p \in {"deciding", "ptracer", "forking", "calling", "path", "answer",
                                   "exit", "report", "idle", "ended"}
    PROVE  /\ Here(p) \in SessionState
           /\ Here(p).pc = p /\ Here(p).call = "none" /\ Here(p).last = "none" /\ Here(p).left = 0
           /\ Here(p).calls = session.calls
BY DEF BrokerTypes, SessionState, Here

\* It may give up.
LEMMA GiveUpIs ==
    ASSUME BrokerTypes
    PROVE  /\ [Here("calling") EXCEPT !.calls = MaxCalls] \in SessionState
           /\ [Here("calling") EXCEPT !.calls = MaxCalls].pc = "calling"
           /\ [Here("calling") EXCEPT !.calls = MaxCalls].call = "none"
           /\ [Here("calling") EXCEPT !.calls = MaxCalls].left = 0
           /\ [Here("calling") EXCEPT !.calls = MaxCalls].last = "none"
<1> DEFINE h == Here("calling")
<1>1. h \in SessionState /\ h.pc = "calling" /\ h.call = "none" /\ h.left = 0 /\ h.last = "none"
  BY HereIs
<1>2. MaxCalls \in 0 .. MaxCalls
  BY BrokerAssumption DEF BrokerAssumption
<1> HIDE DEF h
<1>3. /\ [h EXCEPT !.calls = MaxCalls] \in SessionState
      /\ [h EXCEPT !.calls = MaxCalls].pc = h.pc
      /\ [h EXCEPT !.calls = MaxCalls].call = h.call
      /\ [h EXCEPT !.calls = MaxCalls].left = h.left
      /\ [h EXCEPT !.calls = MaxCalls].last = h.last
  BY <1>1, <1>2 DEF SessionState
<1> QED
  BY <1>1, <1>3 DEF h

\* A handler that has ended, or that cannot write, disturbs nobody.
LEMMA EndedInv ==
    ASSUME BrokerInv, session' = Here("ended"), UNCHANGED <<toClient, toServer, client, broker>>
    PROVE  BrokerInv'
<1>1. session' \in SessionState /\ session'.pc = "ended" /\ session'.left = 0
  BY HereIs DEF BrokerInv
<1>2. BrokerTypes'
  BY <1>1 DEF BrokerInv, BrokerTypes
<1>3. Parties'
  BY <1>1 DEF BrokerInv, Parties, BrokerRuns
<1>4. HeadFits' /\ InOrder'
  BY DEF BrokerInv, HeadFits, InOrder
<1>5. LastFits'
  BY <1>1 DEF LastFits, Written
<1>6. ServerFits'
  BY <1>1 DEF ServerFits
<1> QED
  BY <1>2, <1>3, <1>4, <1>5, <1>6 DEF BrokerInv

\* An answer is under way until somebody writes or reads.
LEMMA UnderwayStays ==
    ASSUME Underway, UNCHANGED <<toClient, toServer, broker, session>>
    PROVE  Underway'
<1>1. PICK a \in Seq(Tokens), k \in Nat, size \in Nat : Reading(a, k, size)
  BY DEF Underway
<1>2. Reading(a, k, size)'
  BY <1>1 DEF Reading
<1> QED
  BY <1>2 DEF Underway

\* The client has forked, or has said that it cannot.
LEMMA ForkBrokerInv == ASSUME BrokerInv, ForkBroker PROVE BrokerInv'
<1>1. /\ BrokerTypes /\ client = "reading" /\ toClient # <<>> /\ Head(toClient).kind = "ForkBroker"
      /\ toClient' = Tail(toClient) /\ session' = session
  BY DEF BrokerInv, ForkBroker, Receive
<1>2. /\ broker.pc \in {"none", "exited"} /\ Len(toClient) = 1 /\ broker.answer = <<>>
      /\ broker \in BrokerState
  BY <1>1 DEF BrokerInv, Parties, HeadFits, BrokerTypes
<1>3. toClient' = <<>> /\ toClient[Len(toClient)] = Head(toClient) /\ toClient' \in Seq(Messages)
  BY <1>1, <1>2, SeqTail, QueueTail DEF BrokerTypes
<1>4. Written(Head(toClient))
  BY <1>1, <1>2, <1>3 DEF BrokerInv, LastFits
<1>5. /\ session.pc \in {"forking", "ended"}
      /\ session.pc = "forking" => toServer = <<>> /\ broker.pc = "none"
  <2>1. session.pc \in {"forking", "ended"}
    BY <1>1, <1>2, <1>4 DEF BrokerInv, BrokerTypes, SessionState, Parties, Written, NoAnswer,
    PathRequests, Requests
  <2> QED
    BY <1>1, <2>1 DEF BrokerInv, ServerFits
<1>6. HeadFits' /\ LastFits' /\ InOrder'
  BY <1>3 DEF HeadFits, LastFits, InOrder, Chain
<1>7. CASE /\ client' = "waiting" /\ broker' = [broker EXCEPT !.pc = "request"]
           /\ toServer' = Append(toServer, "ErrnoZero")
  <2>1. broker' \in BrokerState /\ broker'.pc = "request" /\ broker'.answer = broker.answer
    BY <1>2, <1>7 DEF BrokerState
  <2>2. toServer' \in Seq(Tokens) /\ (toServer = <<>> => toServer' = <<"ErrnoZero">>)
    <3>1. "ErrnoZero" \in Tokens /\ toServer \in Seq(Tokens)
      BY <1>1 DEF BrokerTypes, Tokens
    <3> QED
      BY <1>7, <3>1, TokenAppend
  <2>3. BrokerTypes'
    BY <1>1, <1>3, <1>7, <2>1, <2>2 DEF BrokerTypes
  <2>4. Parties'
    BY <1>1, <1>2, <1>5, <1>7, <2>1 DEF BrokerInv, Parties, BrokerRuns
  <2>5. ServerFits'
    BY <1>1, <1>3, <1>5, <2>1, <2>2 DEF ServerFits
  <2> QED
    BY <1>6, <2>3, <2>4, <2>5 DEF BrokerInv
<1>8. CASE toServer' = Append(toServer, "Errno") /\ UNCHANGED <<client, broker>>
  <2>1. toServer' \in Seq(Tokens) /\ (toServer = <<>> => toServer' = <<"Errno">>)
    <3>1. "Errno" \in Tokens /\ toServer \in Seq(Tokens)
      BY <1>1 DEF BrokerTypes, Tokens
    <3> QED
      BY <1>8, <3>1, TokenAppend
  <2>2. BrokerTypes'
    BY <1>1, <1>3, <1>8, <2>1 DEF BrokerTypes
  <2>3. Parties'
    BY <1>1, <1>8 DEF BrokerInv, Parties, BrokerRuns
  <2>4. ServerFits'
    BY <1>1, <1>3, <1>5, <1>8, <2>1 DEF ServerFits
  <2> QED
    BY <1>6, <2>2, <2>3, <2>4 DEF BrokerInv
<1> QED
  BY <1>7, <1>8 DEF ForkBroker

\* The client has asked to be traced.
LEMMA SetPtracerInv == ASSUME BrokerInv, SetPtracer PROVE BrokerInv'
<1>1. /\ BrokerTypes /\ client = "reading" /\ toClient # <<>> /\ Head(toClient).kind = "SetPtracer"
      /\ toClient' = Tail(toClient) /\ UNCHANGED <<session, broker, client>>
  BY DEF BrokerInv, SetPtracer, Receive
<1>2. broker.pc \in {"none", "exited"} /\ Len(toClient) = 1
  BY <1>1 DEF BrokerInv, Parties, HeadFits
<1>3. toClient' = <<>> /\ toClient[Len(toClient)] = Head(toClient) /\ toClient' \in Seq(Messages)
  BY <1>1, <1>2, SeqTail, QueueTail DEF BrokerTypes
<1>4. Written(Head(toClient))
  BY <1>1, <1>2, <1>3 DEF BrokerInv, LastFits
<1>5. session.pc \in {"ptracer", "ended"} /\ (session.pc = "ptracer" => toServer = <<>>)
  <2>1. session.pc \in {"ptracer", "ended"}
    BY <1>1, <1>2, <1>4 DEF BrokerInv, BrokerTypes, SessionState, Parties, Written, NoAnswer,
    PathRequests, Requests
  <2> QED
    BY <1>1, <2>1 DEF BrokerInv, ServerFits
<1>6. HeadFits' /\ LastFits' /\ InOrder'
  BY <1>3 DEF HeadFits, LastFits, InOrder, Chain
<1>7. PICK t \in {"ErrnoZero", "Errno"} : toServer' = Append(toServer, t)
  BY DEF SetPtracer
<1>8. toServer' \in Seq(Tokens) /\ (toServer = <<>> => toServer' = <<t>>)
  <2>1. t \in Tokens /\ toServer \in Seq(Tokens)
    BY <1>1, <1>7 DEF BrokerTypes, Tokens
  <2> QED
    BY <1>7, <2>1, TokenAppend
<1>9. BrokerTypes'
  BY <1>1, <1>3, <1>8 DEF BrokerTypes
<1>10. Parties'
  BY <1>1 DEF BrokerInv, Parties, BrokerRuns
<1>11. ServerFits'
  BY <1>1, <1>3, <1>5, <1>8 DEF ServerFits
<1> QED
  BY <1>6, <1>9, <1>10, <1>11 DEF BrokerInv

\* The client is told the end.
LEMMA DumpCompleteInv == ASSUME BrokerInv, DumpComplete PROVE BrokerInv'
<1>1. /\ BrokerTypes /\ client = "reading" /\ toClient # <<>> /\ client' = "returned"
      /\ Head(toClient).kind \in {"CrashDumpComplete", "CrashDumpFailed"}
      /\ toClient' = Tail(toClient) /\ UNCHANGED <<toServer, session, broker>>
  BY DEF BrokerInv, DumpComplete, Receive
<1>2. broker.pc \in {"none", "exited"} /\ Len(toClient) = 1
  BY <1>1 DEF BrokerInv, Parties, HeadFits
<1>3. toClient' = <<>> /\ toClient[Len(toClient)] = Head(toClient) /\ toClient' \in Seq(Messages)
  BY <1>1, <1>2, SeqTail, QueueTail DEF BrokerTypes
<1>4. Written(Head(toClient))
  BY <1>1, <1>2, <1>3 DEF BrokerInv, LastFits
<1>5. session.pc \in {"idle", "ended"}
  BY <1>1, <1>2, <1>4 DEF BrokerInv, BrokerTypes, SessionState, Parties, Written, NoAnswer,
    PathRequests, Requests
<1>6. HeadFits' /\ LastFits' /\ InOrder'
  BY <1>3 DEF HeadFits, LastFits, InOrder, Chain
<1>7. BrokerTypes'
  BY <1>1, <1>3 DEF BrokerTypes
<1>8. Parties'
  BY <1>1, <1>2 DEF BrokerInv, Parties, BrokerRuns
<1>9. ServerFits'
  BY <1>1, <1>5 DEF BrokerInv, ServerFits
<1> QED
  BY <1>6, <1>7, <1>8, <1>9 DEF BrokerInv

\* The client waits no longer.
LEMMA ClientInv ==
    ASSUME BrokerInv, UNCHANGED <<toClient, toServer, broker, session>>, ~BrokerRuns,
           client' \in {"returned"} \cup (IF broker.pc = "exited" THEN {"reading"} ELSE {})
    PROVE  BrokerInv'
<1>1. BrokerTypes'
  BY DEF BrokerInv, BrokerTypes
<1>2. Parties'
  BY DEF BrokerInv, Parties, BrokerRuns
<1>3. HeadFits' /\ InOrder' /\ LastFits'
  BY DEF BrokerInv, HeadFits, InOrder, LastFits, Written
<1>4. ServerFits'
  BY UnderwayStays DEF BrokerInv, ServerFits
<1> QED
  BY <1>1, <1>2, <1>3, <1>4 DEF BrokerInv

\* The broker is gone.
LEMMA BrokerKilledInv == ASSUME BrokerInv, BrokerKilled PROVE BrokerInv'
<1>1. /\ BrokerTypes /\ BrokerRuns /\ broker' = [pc |-> "failed", answer |-> <<>>]
      /\ UNCHANGED <<toClient, toServer, client, session>>
  BY DEF BrokerInv, BrokerKilled
<1>2. broker' \in BrokerState /\ broker'.pc = "failed"
  BY <1>1 DEF BrokerState
<1>3. BrokerTypes'
  BY <1>1, <1>2 DEF BrokerTypes
<1>4. Parties'
  BY <1>1, <1>2 DEF BrokerInv, Parties, BrokerRuns
<1>5. HeadFits' /\ InOrder' /\ LastFits'
  BY <1>1, <1>2 DEF HeadFits, InOrder, LastFits
<1>6. Underway => Underway'
  <2> SUFFICES ASSUME Underway PROVE Underway'
    OBVIOUS
  <2>1. PICK a \in Seq(Tokens), k \in Nat, size \in Nat : Reading(a, k, size)
    BY DEF Underway
  <2>2. Reading(a, k, size)'
    BY <1>1, <1>2, <2>1 DEF Reading
  <2> QED
    BY <1>2, <2>2 DEF Underway
<1>7. ServerFits'
  BY <1>1, <1>2, <1>6 DEF BrokerInv, ServerFits, BrokerRuns
<1> QED
  BY <1>3, <1>4, <1>5, <1>7 DEF BrokerInv

\* The broker finds that the handler is gone.
LEMMA ReadEndInv == ASSUME BrokerInv, ReadEnd PROVE BrokerInv'
<1>1. PICK p \in {"exited", "failed"} : broker' = [broker EXCEPT !.pc = p]
  BY DEF ReadEnd
<1>2. /\ BrokerTypes /\ broker.pc \in {"request", "path"} /\ toClient = <<>> /\ session.pc = "ended"
      /\ UNCHANGED <<toClient, toServer, client, session>>
  BY DEF BrokerInv, ReadEnd, ServerOpen
<1>3. broker' \in BrokerState /\ broker'.pc = p /\ broker'.answer = broker.answer
  BY <1>1, <1>2 DEF BrokerTypes, BrokerState
<1>4. BrokerTypes'
  BY <1>2, <1>3 DEF BrokerTypes
<1>5. Parties'
  BY <1>2, <1>3 DEF BrokerInv, Parties, BrokerRuns
<1>6. HeadFits' /\ InOrder' /\ LastFits'
  BY <1>2 DEF HeadFits, InOrder, LastFits, Chain
<1>7. ServerFits'
  BY <1>2 DEF ServerFits
<1> QED
  BY <1>4, <1>5, <1>6, <1>7 DEF BrokerInv

\* The broker writes a token, or finds that nobody reads.
LEMMA WriteAnswerInv == ASSUME BrokerInv, WriteAnswer PROVE BrokerInv'
<1>1. /\ BrokerTypes /\ broker \in BrokerState /\ broker.pc = "answer" /\ broker.answer # <<>>
      /\ UNCHANGED <<toClient, client, session>>
  BY DEF BrokerInv, WriteAnswer, BrokerTypes, Parties
<1>2. toClient = <<>> /\ session.pc \in {"answer", "ended"}
  BY <1>1 DEF BrokerInv, BrokerTypes, SessionState, HeadFits, Parties
<1>3. HeadFits' /\ InOrder' /\ LastFits'
  BY <1>1, <1>2 DEF HeadFits, InOrder, LastFits, Chain
<1>4. CASE ~ServerOpen
  <2>1. broker' = [broker EXCEPT !.pc = "failed"] /\ UNCHANGED toServer /\ session.pc = "ended"
    BY <1>4 DEF WriteAnswer, ServerOpen
  <2>2. broker' \in BrokerState /\ broker'.pc = "failed"
    BY <1>1, <2>1 DEF BrokerState
  <2>3. BrokerTypes'
    BY <1>1, <2>1, <2>2 DEF BrokerTypes
  <2>4. Parties'
    BY <1>1, <2>1, <2>2 DEF BrokerInv, Parties, BrokerRuns
  <2>5. ServerFits'
    BY <1>1, <2>1 DEF ServerFits
  <2> QED
    BY <1>3, <2>3, <2>4, <2>5 DEF BrokerInv
<1>5. CASE ServerOpen
  <2> DEFINE t == Head(broker.answer)
             rest == Tail(broker.answer)
             next == IF Len(broker.answer) = 1 THEN "request" ELSE "answer"
  <2>1. /\ broker.answer \in Seq(Tokens) /\ t = broker.answer[1] /\ t \in Tokens
        /\ rest \in Seq(Tokens) /\ Len(broker.answer) \in Nat \ {0}
        /\ Len(rest) = Len(broker.answer) - 1 /\ (rest = <<>> <=> Len(broker.answer) = 1)
        /\ \A i \in 1 .. Len(broker.answer) - 1 : rest[i] = broker.answer[i + 1]
    <3>1. broker.answer \in Seq(Tokens)
      BY <1>1 DEF BrokerState
    <3> QED
      BY <1>1, <3>1, SeqTail
  <2>2. toServer' = Append(toServer, t) /\ session.pc = "answer"
    BY <1>2, <1>5 DEF WriteAnswer, ServerOpen
  <2>3. broker' = [broker EXCEPT !.answer = rest, !.pc = next]
    BY <1>5 DEF WriteAnswer
  <2> HIDE DEF t, rest
  <2>4. broker' \in BrokerState /\ broker'.pc = next /\ broker'.answer = rest
    BY <1>1, <2>1, <2>3 DEF BrokerState
  <2>5. /\ toServer \in Seq(Tokens) /\ toServer' \in Seq(Tokens) /\ Len(toServer) \in Nat
        /\ Len(toServer') = Len(toServer) + 1
        /\ \A i \in 1 .. Len(toServer) : toServer'[i] = toServer[i]
        /\ toServer'[Len(toServer) + 1] = t
    BY <1>1, <2>1, <2>2, SeqAppend DEF BrokerTypes
  <2>6. BrokerTypes'
    BY <1>1, <2>4, <2>5 DEF BrokerTypes
  <2>7. Parties'
    BY <1>1, <2>1, <2>2, <2>4 DEF BrokerInv, Parties, BrokerRuns
  <2>8. Underway
    BY <1>1, <1>2, <2>2 DEF BrokerInv, ServerFits
  <2>9. PICK a \in Seq(Tokens), k \in Nat, size \in Nat : Reading(a, k, size)
    BY <2>8 DEF Underway
  <2>10. /\ k + Len(toServer) + Len(broker.answer) = Len(a)
         /\ \A i \in 1 .. Len(toServer) : toServer[i] = a[k + i]
         /\ \A i \in 1 .. Len(broker.answer) : broker.answer[i] = a[k + Len(toServer) + i]
    BY <1>1, <2>9 DEF Reading
  <2> DEFINE l == Len(broker.answer)
             s == Len(toServer)
             n == Len(a)
  <2>11. /\ l \in Nat \ {0} /\ s \in Nat /\ n \in Nat /\ k + s + l = n
         /\ Len(rest) = l - 1 /\ Len(toServer') = s + 1
    <3>1. n \in Nat
      BY <2>9
    <3>2. l \in Nat \ {0} /\ Len(rest) = l - 1
      BY <2>1
    <3>3. s \in Nat /\ Len(toServer') = s + 1
      BY <2>5
    <3>4. k + s + l = n
      BY <2>10
    <3> QED
      BY <3>1, <3>2, <3>3, <3>4
  <2>12. ASSUME NEW i \in 1 .. Len(toServer') PROVE toServer'[i] = a[k + i]
    <3>1. i \in 1 .. s \/ (i = s + 1 /\ k + i = k + s + 1 /\ 1 \in 1 .. l)
      BY <2>11
    <3> QED
      BY <2>1, <2>5, <2>10, <3>1
  <2>13. ASSUME NEW i \in 1 .. Len(rest) PROVE rest[i] = a[k + Len(toServer') + i]
    <3>1. i \in 1 .. l - 1 /\ i + 1 \in 1 .. l /\ k + s + (i + 1) = k + Len(toServer') + i
      BY <2>11
    <3> QED
      BY <2>1, <2>10, <3>1
  <2>14. /\ k + Len(toServer') <= n /\ k + Len(toServer') + Len(rest) = n
         /\ l = 1 => k + Len(toServer') = n
    <3> HIDE DEF l, s, n, rest
    <3> QED
      BY <2>11
  <2>15. Reading(a, k, size)'
    BY <1>1, <2>4, <2>9, <2>12, <2>13, <2>14 DEF Reading
  <2>16. Underway'
    BY <1>1, <1>2, <2>4, <2>15 DEF Underway
  <2>17. ServerFits'
    BY <1>1, <2>2, <2>16 DEF BrokerInv, ServerFits
  <2> QED
    BY <1>3, <2>6, <2>7, <2>17 DEF BrokerInv
<1> QED
  BY <1>4, <1>5

\* The broker takes a request.
LEMMA ReadRequestInv == ASSUME BrokerInv, ReadRequest PROVE BrokerInv'
<1> DEFINE m == Head(toClient)
<1>1. /\ BrokerTypes /\ broker \in BrokerState /\ session \in SessionState
      /\ broker.pc = "request" /\ toClient # <<>>
      /\ m.kind \in Requests \cup {"Exit"} /\ toClient' = Tail(toClient)
      /\ UNCHANGED <<toServer, client, session>> /\ toClient \in Seq(Messages)
  BY DEF BrokerInv, ReadRequest, BrokerTypes
<1>2. /\ toClient' \in Seq(Messages) /\ m \in Messages /\ Chain(toClient) /\ Chain(toClient')
      /\ toClient' = <<>> => toClient[Len(toClient)] = m
      /\ toClient' # <<>> => /\ toClient[Len(toClient)] = toClient'[Len(toClient')]
                             /\ Follows(m, Head(toClient'))
  BY <1>1, QueueTail DEF BrokerInv, InOrder
<1>3. /\ client = "waiting" /\ broker.answer = <<>>
      /\ session.pc \notin {"deciding", "ptracer"}
      /\ session.call # "ReadMemory" => session.left = 0
  BY <1>1 DEF BrokerInv, BrokerTypes, Parties, BrokerRuns
<1>4. Written(toClient[Len(toClient)]) /\ session.pc # "forking"
  <2>1. Written(toClient[Len(toClient)])
    BY <1>1 DEF BrokerInv, LastFits
  <2> QED
    BY <1>1, <2>1 DEF Written
<1>5. /\ session.pc \in {"calling", "path", "exit", "report", "idle"} => toServer = <<>>
      /\ session.pc = "path" => session.call \in PathRequests /\ session.last = "none"
      /\ session.pc = "answer" => session.call # "none" /\ toServer = <<>> /\ session.last = "none"
      /\ session.pc = "calling" => session.last = "none"
  BY <1>1 DEF BrokerInv, ServerFits, Underway
<1>6. toClient' # <<>> => Head(toClient') \in Messages
  BY <1>2, QueueTail
<1> HIDE DEF m
<1>7. CASE m.kind = "Exit" /\ broker' = [broker EXCEPT !.pc = "exited"]
  <2>1. broker' \in BrokerState /\ broker'.pc = "exited" /\ broker'.answer = broker.answer
    BY <1>1, <1>7 DEF BrokerState
  <2>2. toClient' # <<>> => /\ Head(toClient').kind = "CrashDumpComplete" /\ Len(toClient') = 1
                            /\ toClient'[Len(toClient')] = Head(toClient')
    <3> SUFFICES ASSUME toClient' # <<>>
                 PROVE  /\ Head(toClient').kind = "CrashDumpComplete" /\ Len(toClient') = 1
                        /\ toClient'[Len(toClient')] = Head(toClient')
      OBVIOUS
    <3>1. Head(toClient').kind = "CrashDumpComplete"
      BY <1>2, <1>7 DEF Follows, NoAnswer, PathRequests
    <3>2. \A n \in Messages : ~Follows(Head(toClient'), n)
      BY <3>1 DEF Follows, NoAnswer, PathRequests
    <3>3. Len(toClient') = 1
      BY <1>2, <3>2, QueueEnd
    <3> QED
      BY <1>2, <3>1, <3>3, SeqTail
  <2>3. session.pc \in {"report", "idle", "ended"}
    <3>1. toClient[Len(toClient)].kind \in {"Exit", "CrashDumpComplete"}
      BY <1>2, <1>7, <2>2
    <3> QED
      BY <1>1, <1>3, <1>4, <3>1 DEF Written, NoAnswer, PathRequests, Requests, SessionState
  <2>4. BrokerTypes'
    BY <1>1, <1>2, <2>1 DEF BrokerTypes
  <2>5. Parties'
    BY <1>1, <1>3, <2>1, <2>3 DEF Parties, BrokerRuns
  <2>6. HeadFits' /\ InOrder'
    BY <1>2, <2>1, <2>2 DEF HeadFits, InOrder
  <2>7. LastFits'
    BY <1>1, <1>2, <1>4, <2>3 DEF LastFits, Written
  <2>8. ServerFits'
    BY <1>1, <1>5, <2>1, <2>3 DEF ServerFits
  <2> QED
    BY <2>4, <2>5, <2>6, <2>7, <2>8 DEF BrokerInv
<1>8. CASE m.kind \in PathRequests /\ broker' = [broker EXCEPT !.pc = "path"]
  <2>1. broker' \in BrokerState /\ broker'.pc = "path" /\ broker'.answer = broker.answer
    BY <1>1, <1>8 DEF BrokerState
  <2>2. toClient' # <<>> => /\ Head(toClient').kind = "Path" /\ Len(toClient') = 1
                            /\ toClient'[Len(toClient')] = Head(toClient')
    <3> SUFFICES ASSUME toClient' # <<>>
                 PROVE  /\ Head(toClient').kind = "Path" /\ Len(toClient') = 1
                        /\ toClient'[Len(toClient')] = Head(toClient')
      OBVIOUS
    <3>1. Head(toClient').kind = "Path"
      BY <1>2, <1>8 DEF Follows, NoAnswer, PathRequests
    <3>2. \A n \in Messages : ~Follows(Head(toClient'), n)
      BY <3>1 DEF Follows, NoAnswer, PathRequests
    <3>3. Len(toClient') = 1
      BY <1>2, <3>2, QueueEnd
    <3> QED
      BY <1>2, <3>1, <3>3, SeqTail
  <2>3. session.pc = "ended" \/ (session.pc = "path" /\ toClient' = <<>>)
        \/ (session.pc = "answer" /\ toClient' # <<>>)
    <3>1. CASE toClient' = <<>>
      BY <1>1, <1>2, <1>3, <1>4, <1>8, <3>1 DEF Written, NoAnswer, PathRequests, Requests, SessionState
    <3>2. CASE toClient' # <<>>
      <4>1. toClient[Len(toClient)].kind = "Path"
        BY <1>2, <2>2, <3>2
      <4> QED
        BY <1>1, <1>3, <1>4, <3>2, <4>1 DEF Written, NoAnswer, PathRequests, Requests, SessionState
    <3> QED
      BY <3>1, <3>2
  <2>4. BrokerTypes'
    BY <1>1, <1>2, <2>1 DEF BrokerTypes
  <2>5. Parties'
    BY <1>1, <1>3, <2>1, <2>3 DEF Parties, BrokerRuns
  <2>6. HeadFits' /\ InOrder'
    BY <1>2, <2>1, <2>2 DEF HeadFits, InOrder
  <2>7. LastFits'
    BY <1>1, <1>2, <1>4, <2>3 DEF LastFits, Written
  <2>8. ServerFits'
    BY <1>1, <1>5, <2>1, <2>3 DEF ServerFits
  <2> QED
    BY <2>4, <2>5, <2>6, <2>7, <2>8 DEF BrokerInv
<1>9. ASSUME NEW a \in Answers(m.kind, m.size),
             broker' = [broker EXCEPT !.pc = IF a = <<>> THEN "request" ELSE "answer", !.answer = a]
      PROVE  BrokerInv'
  <2>1. m.kind \in Requests \ PathRequests /\ m.size \in Nat
    BY <1>1, <1>2, <1>9 DEF Answers, Messages, Requests, PathRequests
  <2>2. IF NoAnswer(m) THEN a = <<>> ELSE WellFormed(a, m.kind, m.size)
    BY <1>9, <2>1, AnswersFit DEF NoAnswer
  <2>3. CASE NoAnswer(m)
    <3>1. a = <<>>
      BY <2>2, <2>3
    <3>2. broker' \in BrokerState /\ broker'.pc = "request" /\ broker'.answer = <<>>
      <4>1. broker' = [broker EXCEPT !.pc = "request", !.answer = a] /\ a \in Seq(Tokens)
        BY <1>9, <3>1
      <4> QED
        BY <1>1, <3>1, <4>1 DEF BrokerState
    <3>3. toClient' = <<>> => session.pc \in {"calling", "exit", "ended"}
      BY <1>1, <1>2, <1>3, <1>4, <2>3 DEF Written, NoAnswer, PathRequests, SessionState
    <3>4. BrokerTypes'
      BY <1>1, <1>2, <3>2 DEF BrokerTypes
    <3>5. Parties'
      BY <1>1, <1>3, <3>2 DEF BrokerInv, Parties, BrokerRuns
    <3>6. HeadFits' /\ InOrder'
      BY <1>2, <2>3, <3>2 DEF HeadFits, InOrder, Follows, NoAnswer, PathRequests
    <3>7. LastFits'
      BY <1>1, <1>2, <1>4 DEF LastFits, Written
    <3>8. ServerFits'
      BY <1>1, <1>3, <1>4, <1>5, <3>2, <3>3 DEF ServerFits
    <3> QED
      BY <3>4, <3>5, <3>6, <3>7, <3>8 DEF BrokerInv
  <2>4. CASE ~NoAnswer(m)
    <3>1. WellFormed(a, m.kind, m.size) /\ a \in Seq(Tokens) /\ a # <<>>
      BY <2>2, <2>4 DEF WellFormed
    <3>2. broker' \in BrokerState /\ broker'.pc = "answer" /\ broker'.answer = a
      BY <1>1, <1>9, <3>1 DEF BrokerState
    <3>3. toClient' = <<>>
      <4>1. toClient' # <<>> => ~Follows(m, Head(toClient'))
        BY <2>1, <2>4 DEF Follows, Requests
      <4> QED
        BY <1>2, <4>1
    <3>4. session.pc = "ended" \/ (session.pc = "answer" /\ m.kind = session.call /\ m.size = session.left)
      BY <1>1, <1>2, <1>3, <1>4, <2>1, <2>4, <3>3 DEF Written, PathRequests, Requests, SessionState
    <3>5. BrokerTypes'
      BY <1>1, <1>2, <3>2 DEF BrokerTypes
    <3>6. Parties'
      BY <1>1, <1>3, <3>1, <3>2, <3>4 DEF Parties, BrokerRuns
    <3>7. HeadFits' /\ InOrder' /\ LastFits'
      BY <1>2, <3>3 DEF HeadFits, InOrder, LastFits
    <3>8. ASSUME session.pc = "answer" PROVE Underway'
      <4>1. m.kind = session.call /\ m.size = session.left /\ toServer' = <<>> /\ session.last = "none"
        BY <1>1, <1>5, <3>4, <3>8
      <4>2. Len(toServer') = 0 /\ Len(a) \in Nat \ {0}
        BY <3>1, <4>1, SeqEmpty
      <4>3. LastOf(a, 0) = "none" /\ LeftOf(session.call, m.size, 0) = session.left
        BY <1>3, <2>1, <4>1 DEF LastOf, LeftOf
      <4>4. PICK z \in Nat : z = m.size
        BY <2>1
      <4>5. Reading(a, 0, z)'
        BY <1>1, <3>1, <3>2, <4>1, <4>2, <4>3, <4>4 DEF Reading
      <4> QED
        BY <3>1, <3>2, <3>3, <4>5 DEF Underway
    <3>9. ServerFits'
      BY <1>1, <1>5, <3>4, <3>8 DEF ServerFits
    <3> QED
      BY <3>5, <3>6, <3>7, <3>9 DEF BrokerInv
  <2> QED
    BY <2>3, <2>4
<1> QED
  BY <1>7, <1>8, <1>9 DEF ReadRequest, PathRequests, m

\* The broker takes a path and opens it.
LEMMA ReadPathInv == ASSUME BrokerInv, ReadPath PROVE BrokerInv'
<1> DEFINE m == Head(toClient)
<1>1. /\ BrokerTypes /\ broker \in BrokerState /\ session \in SessionState
      /\ broker.pc = "path" /\ toClient # <<>> /\ m.kind = "Path" /\ toClient' = Tail(toClient)
      /\ UNCHANGED <<toServer, client, session>> /\ toClient \in Seq(Messages)
  BY DEF BrokerInv, ReadPath, BrokerTypes
<1>2. PICK a \in {<<"OpenError">>} \cup {<<"OpenSuccess">> \o c : c \in Contents} :
             broker' = [broker EXCEPT !.pc = "answer", !.answer = a]
  BY Zenon DEF ReadPath
<1>3. toClient' = <<>> /\ toClient[Len(toClient)] = m /\ toClient' \in Seq(Messages)
  <2>1. \A n \in Messages : ~Follows(m, n)
    BY <1>1 DEF Follows, NoAnswer, PathRequests
  <2>2. Tail(toClient) = <<>>
    BY <1>1, <2>1, QueueEnd DEF BrokerInv, InOrder
  <2> QED
    BY <1>1, <2>2, QueueTail
<1>4. session.pc \in {"answer", "ended"} /\ client = "waiting"
  BY <1>1 DEF BrokerInv, BrokerTypes, SessionState, Parties, ServerFits, BrokerRuns
<1>5. session.pc = "answer" => /\ session.call \in PathRequests /\ session.left = 0
                               /\ toServer = <<>> /\ session.last = "none"
  <2>1. Written(m)
    BY <1>1, <1>3 DEF BrokerInv, LastFits
  <2>2. session.pc = "answer" => session.call \in PathRequests
    BY <1>1, <2>1 DEF Written, Requests, SessionState
  <2>3. session.pc = "answer" => toServer = <<>> /\ session.last = "none"
    BY <1>1 DEF BrokerInv, ServerFits, Underway
  <2> QED
    BY <2>2, <2>3 DEF BrokerInv, Parties, PathRequests
<1>6. \A r \in PathRequests : WellFormed(a, r, 0)
  BY <1>2, ContentsFit, Zenon
<1>7. a \in Seq(Tokens) /\ a # <<>>
  BY <1>6 DEF WellFormed, PathRequests
<1>8. broker' \in BrokerState /\ broker'.pc = "answer" /\ broker'.answer = a
  BY <1>1, <1>2, <1>7 DEF BrokerState
<1>9. BrokerTypes'
  BY <1>1, <1>3, <1>8 DEF BrokerTypes
<1>10. Parties'
  BY <1>1, <1>4, <1>7, <1>8 DEF BrokerInv, Parties, BrokerRuns
<1>11. HeadFits' /\ InOrder' /\ LastFits'
  BY <1>3 DEF HeadFits, InOrder, LastFits, Chain
<1>12. ASSUME session.pc = "answer" PROVE Underway'
  <2>1. Len(toServer') = 0 /\ Len(a) \in Nat \ {0}
    BY <1>1, <1>5, <1>7, <1>12, SeqEmpty
  <2>2. LastOf(a, 0) = "none" /\ LeftOf(session.call, 0, 0) = session.left
    BY <1>5, <1>12 DEF LastOf, LeftOf, PathRequests
  <2>3. Reading(a, 0, 0)'
    BY <1>1, <1>5, <1>6, <1>8, <1>12, <2>1, <2>2 DEF Reading
  <2> QED
    BY <1>3, <1>7, <1>8, <2>3 DEF Underway
<1>13. ServerFits'
  BY <1>1, <1>4, <1>5, <1>12 DEF ServerFits, PathRequests
<1> QED
  BY <1>9, <1>10, <1>11, <1>13 DEF BrokerInv

\* The handler writes one message to a client that waits for it alone.
LEMMA FirstMessage ==
    ASSUME NEW m \in Messages, toClient = <<>>, toClient' = Append(toClient, m)
    PROVE  /\ toClient' \in Seq(Messages) /\ toClient' # <<>> /\ Len(toClient') = 1
           /\ Head(toClient') = m /\ toClient'[Len(toClient')] = m /\ Chain(toClient')
<1>1. toClient \in Seq(Messages)
  OBVIOUS
<1> QED
  BY <1>1, QueueAppend

\* HandleCrashDumpRequest() chooses how.
LEMMA DecideInv == ASSUME BrokerInv, Decide PROVE BrokerInv'
<1>1. /\ BrokerTypes /\ session.pc = "deciding" /\ broker.pc = "none" /\ toClient = <<>> /\ toServer = <<>>
      /\ broker.answer = <<>> /\ UNCHANGED <<toServer, client, broker>>
  BY DEF BrokerInv, Decide, Parties, ServerFits, Send
<1>2. ASSUME NEW kind \in {"ForkBroker", "SetPtracer", "CrashDumpFailed"}, NEW next,
             next = IF kind = "ForkBroker" THEN "forking"
                    ELSE IF kind = "SetPtracer" THEN "ptracer" ELSE "idle",
             Send(kind, Here(next), Here("ended"))
      PROVE  BrokerInv'
  <2>1. CASE ~ClientOpen
    BY <1>1, <1>2, <2>1, EndedInv DEF Send
  <2>2. CASE ClientOpen
    <3> DEFINE m == [kind |-> kind, size |-> Here(next).left]
    <3>1. next \in {"forking", "ptracer", "idle"}
      BY <1>2
    <3>2. toClient' = Append(toClient, m) /\ session' = Here(next)
      BY <1>2, <2>2 DEF Send
    <3>3. session' \in SessionState /\ session'.pc = next /\ session'.left = 0 /\ Here(next).left = 0
      BY <1>1, <3>1, <3>2, HereIs
    <3>4. m \in Messages /\ m.kind = kind
      BY <1>2, <3>3 DEF Messages
    <3> HIDE DEF m
    <3>5. /\ toClient' \in Seq(Messages) /\ toClient' # <<>> /\ Len(toClient') = 1
          /\ Head(toClient') = m /\ toClient'[Len(toClient')] = m /\ Chain(toClient')
      BY <1>1, <3>2, <3>4, FirstMessage
    <3>6. BrokerTypes'
      BY <1>1, <3>3, <3>5 DEF BrokerTypes
    <3>7. Parties'
      BY <1>1, <3>1, <3>3 DEF BrokerInv, Parties, BrokerRuns
    <3>8. HeadFits' /\ InOrder'
      BY <1>1, <1>2, <3>4, <3>5 DEF HeadFits, InOrder
    <3>9. LastFits'
      BY <1>1, <1>2, <3>1, <3>3, <3>4, <3>5 DEF LastFits, Written
    <3>10. ServerFits'
      BY <1>1, <3>1, <3>3, <3>5 DEF ServerFits
    <3> QED
      BY <3>6, <3>7, <3>8, <3>9, <3>10 DEF BrokerInv
  <2> QED
    BY <2>1, <2>2
<1>3. ASSUME session' = Here("report"), UNCHANGED toClient PROVE BrokerInv'
  <2>1. session' \in SessionState /\ session'.pc = "report" /\ session'.left = 0
    BY <1>1, <1>3, HereIs
  <2>2. BrokerTypes'
    BY <1>1, <1>3, <2>1 DEF BrokerTypes
  <2>3. Parties'
    BY <1>1, <2>1 DEF BrokerInv, Parties, BrokerRuns
  <2>4. HeadFits' /\ InOrder' /\ LastFits'
    BY <1>1, <1>3 DEF HeadFits, InOrder, LastFits, Chain
  <2>5. ServerFits'
    BY <1>1, <2>1 DEF ServerFits
  <2> QED
    BY <2>2, <2>3, <2>4, <2>5 DEF BrokerInv
<1>4. ASSUME session' = Here("ended"), UNCHANGED toClient PROVE BrokerInv'
  BY <1>1, <1>4, EndedInv
<1> QED
  BY <1>2, <1>3, <1>4 DEF Decide

\* The client's answer to it.
LEMMA ReadErrnoInv == ASSUME BrokerInv, ReadErrno PROVE BrokerInv'
<1> DEFINE ok == Head(toServer) = "ErrnoZero"
<1>1. /\ BrokerTypes /\ session.pc \in {"ptracer", "forking"} /\ toServer # <<>>
      /\ toServer' = Tail(toServer) /\ UNCHANGED <<client, broker>> /\ broker.pc # "answer"
      /\ toServer \in Seq(Tokens) /\ toClient \in Seq(Messages) /\ broker \in BrokerState
  BY DEF BrokerInv, BrokerTypes, Parties, ReadErrno
<1>2. /\ toClient = <<>> /\ toServer' = <<>> /\ toServer' \in Seq(Tokens)
      /\ session.pc = "ptracer" => broker.pc = "none"
      /\ session.pc = "forking" => IF ok THEN broker.pc \in {"request", "failed"} ELSE broker.pc = "none"
  <2>1. \E t \in {"ErrnoZero", "Errno"} :
          /\ toServer = <<t>> /\ toClient = <<>>
          /\ session.pc = "ptracer" => broker.pc = "none"
          /\ session.pc = "forking" => IF t = "ErrnoZero" THEN broker.pc \in {"request", "failed"}
                                       ELSE broker.pc = "none"
    BY <1>1 DEF BrokerInv, ServerFits, Parties
  <2>2. PICK t \in {"ErrnoZero", "Errno"} :
          /\ toServer = <<t>> /\ toClient = <<>>
          /\ session.pc = "ptracer" => broker.pc = "none"
          /\ session.pc = "forking" => IF t = "ErrnoZero" THEN broker.pc \in {"request", "failed"}
                                       ELSE broker.pc = "none"
    BY <2>1
  <2>3. Head(<<t>>) = t /\ Tail(<<t>>) = <<>>
    OBVIOUS
  <2> QED
    BY <1>1, <2>2, <2>3
<1> HIDE DEF ok
<1>3. CASE ok
  <2> DEFINE next == IF session.pc = "ptracer" THEN "report" ELSE "calling"
  <2>1. session' = Here(next) /\ toClient' = toClient
    BY <1>3 DEF ReadErrno, ok
  <2>2. session' \in SessionState /\ session'.pc = next /\ session'.left = 0 /\ session'.last = "none"
    BY <1>1, <2>1, HereIs
  <2>3. BrokerTypes'
    BY <1>1, <1>2, <2>1, <2>2 DEF BrokerTypes
  <2>4. Parties'
    BY <1>1, <1>2, <1>3, <2>2 DEF BrokerInv, Parties, BrokerRuns
  <2>5. HeadFits' /\ InOrder' /\ LastFits'
    BY <1>2, <2>1 DEF HeadFits, InOrder, LastFits, Chain
  <2>6. ServerFits'
    BY <1>1, <1>2, <2>2 DEF ServerFits
  <2> QED
    BY <2>3, <2>4, <2>5, <2>6 DEF BrokerInv
<1>4. CASE ~ok /\ ClientOpen
  <2> DEFINE kind == IF session.pc = "ptracer" THEN "ForkBroker" ELSE "CrashDumpFailed"
             next == IF session.pc = "ptracer" THEN "forking" ELSE "idle"
             m == [kind |-> kind, size |-> 0]
  <2>1. session' = Here(next) /\ toClient' = Append(toClient, m)
    BY <1>4 DEF ReadErrno, ok
  <2>2. session' \in SessionState /\ session'.pc = next /\ session'.left = 0
    BY <1>1, <2>1, HereIs
  <2>3. m \in Messages /\ m.kind = kind
    BY DEF Messages
  <2> HIDE DEF m
  <2>4. /\ toClient' \in Seq(Messages) /\ toClient' # <<>> /\ Len(toClient') = 1
        /\ Head(toClient') = m /\ toClient'[Len(toClient')] = m /\ Chain(toClient')
    BY <1>2, <2>1, <2>3, FirstMessage
  <2>5. BrokerTypes'
    BY <1>1, <1>2, <2>2, <2>4 DEF BrokerTypes
  <2>6. Parties'
    BY <1>1, <1>2, <1>4, <2>2 DEF BrokerInv, Parties, BrokerRuns
  <2>7. HeadFits' /\ InOrder'
    BY <1>1, <1>2, <1>4, <2>3, <2>4 DEF HeadFits, InOrder
  <2>8. LastFits'
    BY <1>1, <1>2, <1>4, <2>2, <2>3, <2>4 DEF LastFits, Written
  <2>9. ServerFits'
    BY <1>1, <1>2, <1>4, <2>2, <2>4 DEF ServerFits
  <2> QED
    BY <2>5, <2>6, <2>7, <2>8, <2>9 DEF BrokerInv
<1>5. CASE ~ok /\ ~ClientOpen
  <2>1. session' = Here("ended") /\ toClient' = toClient
    BY <1>5 DEF ReadErrno, ok
  <2>2. session' \in SessionState /\ session'.pc = "ended" /\ session'.left = 0
    BY <1>1, <2>1, HereIs
  <2>3. BrokerTypes'
    BY <1>1, <1>2, <2>1, <2>2 DEF BrokerTypes
  <2>4. Parties'
    BY <1>1, <2>2 DEF BrokerInv, Parties, BrokerRuns
  <2>5. HeadFits' /\ InOrder' /\ LastFits'
    BY <1>2, <2>1 DEF HeadFits, InOrder, LastFits, Chain
  <2>6. ServerFits'
    BY <2>2 DEF ServerFits
  <2> QED
    BY <2>3, <2>4, <2>5, <2>6 DEF BrokerInv
<1> QED
  BY <1>3, <1>4, <1>5

\* PtraceClient writes a request,
LEMMA CallInv == ASSUME BrokerInv, Call PROVE BrokerInv'
<1>1. /\ BrokerTypes /\ session \in SessionState /\ session.pc = "calling" /\ session.calls < MaxCalls
      /\ toClient \in Seq(Messages) /\ broker.pc \in {"request", "failed"} /\ toServer = <<>>
      /\ UNCHANGED <<toServer, client, broker>>
  BY DEF BrokerInv, BrokerTypes, Parties, ServerFits, Call, Send
<1>2. PICK r \in Requests, size \in 0 .. MaxChunks :
        /\ r # "ReadMemory" => size = 0
        /\ LET next == CASE r \in {"ReadFile", "ListDirectory"} -> "path"
                         [] r = "ReadMemory" /\ size = 0 -> "calling"
                         [] OTHER -> "answer"
           IN  Send(r, [session EXCEPT !.pc = next, !.call = r, !.left = size, !.calls = @ + 1],
                    [Here("calling") EXCEPT !.calls = MaxCalls])
  BY DEF Call
<1>3. CASE ~ClientOpen
  <2>1. session' = [Here("calling") EXCEPT !.calls = MaxCalls] /\ UNCHANGED toClient
    BY <1>2, <1>3 DEF Send
  <2>2. session' \in SessionState /\ session'.pc = "calling" /\ session'.left = 0 /\ session'.last = "none"
    BY <1>1, <2>1, GiveUpIs
  <2>3. BrokerTypes'
    BY <1>1, <2>1, <2>2 DEF BrokerTypes
  <2>4. Parties'
    BY <1>1, <2>2 DEF BrokerInv, Parties, BrokerRuns
  <2>5. HeadFits' /\ InOrder'
    BY <1>1, <2>1 DEF BrokerInv, HeadFits, InOrder
  <2>6. LastFits'
    BY <1>1, <2>1, <2>2 DEF BrokerInv, LastFits, Written
  <2>7. ServerFits'
    BY <1>1, <2>2 DEF ServerFits
  <2> QED
    BY <2>3, <2>4, <2>5, <2>6, <2>7 DEF BrokerInv
<1>4. CASE ClientOpen
  <2> DEFINE next == IF r \in PathRequests THEN "path"
                     ELSE IF r = "ReadMemory" /\ size = 0 THEN "calling" ELSE "answer"
             m == [kind |-> r, size |-> size]
  <2>1. size \in Nat
    BY <1>2
  <2>2. session' = [session EXCEPT !.pc = next, !.call = r, !.left = size, !.calls = @ + 1]
    BY <1>2, <1>4 DEF Send, PathRequests
  <2>3. session.calls + 1 \in 0 .. MaxCalls
    BY <1>1, BrokerAssumption DEF SessionState, BrokerAssumption
  <2>4. /\ session' \in SessionState /\ session'.pc = next /\ session'.call = r
        /\ session'.left = size /\ session'.last = session.last
    BY <1>1, <1>2, <2>1, <2>2, <2>3 DEF SessionState
  <2>5. toClient' = Append(toClient, [kind |-> r, size |-> session'.left])
    BY <1>2, <1>4 DEF Send
  <2>6. toClient' = Append(toClient, m)
    BY <2>4, <2>5
  <2>7. m \in Messages /\ m.kind = r /\ m.size = size
    BY <1>2, <2>1 DEF Messages
  <2> HIDE DEF m
  <2>8. /\ toClient' \in Seq(Messages) /\ toClient' # <<>> /\ toClient'[Len(toClient')] = m
        /\ toClient = <<>> => Head(toClient') = m /\ Chain(toClient')
        /\ toClient # <<>> => Head(toClient') = Head(toClient)
        /\ toClient # <<>> /\ Chain(toClient) /\ Follows(toClient[Len(toClient)], m) => Chain(toClient')
    BY <1>1, <2>6, <2>7, QueueAppend
  <2>9. BrokerTypes'
    BY <1>1, <2>4, <2>8 DEF BrokerTypes
  <2>10. Parties'
    BY <1>1, <1>2, <2>4 DEF BrokerInv, Parties, BrokerRuns
  <2>11. HeadFits'
    BY <1>1, <1>2, <2>7, <2>8 DEF BrokerInv, HeadFits
  <2>12. InOrder'
    <3>1. broker.pc # "failed" /\ toClient # <<>> => Follows(toClient[Len(toClient)], m)
      BY <1>1, <1>2, <2>7 DEF BrokerInv, LastFits, Written, Follows
    <3> QED
      BY <1>1, <2>8, <3>1 DEF BrokerInv, InOrder
  <2>13. LastFits'
    BY <1>1, <2>4, <2>7, <2>8 DEF LastFits, Written, NoAnswer
  <2>14. ServerFits'
    <3>1. session.last = "none"
      BY <1>1 DEF BrokerInv, ServerFits
    <3> QED
      BY <1>1, <1>2, <2>4, <2>8, <3>1 DEF ServerFits, Requests
  <2> QED
    BY <2>9, <2>10, <2>11, <2>12, <2>13, <2>14 DEF BrokerInv
<1> QED
  BY <1>3, <1>4

\* and the path of it.
LEMMA SendFilePathInv == ASSUME BrokerInv, SendFilePath PROVE BrokerInv'
<1>1. /\ BrokerTypes /\ session \in SessionState /\ session.pc = "path" /\ toServer = <<>>
      /\ session.call \in PathRequests /\ session.last = "none" /\ session.left = 0
      /\ toClient \in Seq(Messages) /\ broker.pc \in {"request", "path", "failed"}
      /\ broker.pc = "request" => toClient # <<>>
      /\ broker.pc = "path" => toClient = <<>>
      /\ UNCHANGED <<toServer, client, broker>>
  BY DEF BrokerInv, BrokerTypes, Parties, ServerFits, SendFilePath, Send, PathRequests
<1>2. CASE ~ClientOpen
  <2>1. session' = Here("calling") /\ UNCHANGED toClient
    BY <1>2 DEF SendFilePath, Send
  <2>2. session' \in SessionState /\ session'.pc = "calling" /\ session'.left = 0 /\ session'.last = "none"
    BY <1>1, <2>1, HereIs
  <2>3. broker.pc = "failed"
    BY <1>1, <1>2 DEF ClientOpen, BrokerRuns
  <2>4. BrokerTypes'
    BY <1>1, <2>1, <2>2 DEF BrokerTypes
  <2>5. Parties'
    BY <1>1, <2>2, <2>3 DEF BrokerInv, Parties, BrokerRuns
  <2>6. HeadFits' /\ InOrder' /\ LastFits'
    BY <1>1, <2>3 DEF HeadFits, InOrder, LastFits
  <2>7. ServerFits'
    BY <1>1, <2>2 DEF ServerFits
  <2> QED
    BY <2>4, <2>5, <2>6, <2>7 DEF BrokerInv
<1>3. CASE ClientOpen
  <2> DEFINE m == [kind |-> "Path", size |-> 0]
  <2>1. session' = [session EXCEPT !.pc = "answer"]
        /\ toClient' = Append(toClient, [kind |-> "Path", size |-> session'.left])
    BY <1>3 DEF SendFilePath, Send
  <2>2. /\ session' \in SessionState /\ session'.pc = "answer" /\ session'.call = session.call
        /\ session'.left = 0 /\ session'.last = "none"
    BY <1>1, <2>1 DEF SessionState
  <2>3. toClient' = Append(toClient, m)
    BY <2>1, <2>2
  <2>4. m \in Messages /\ m.kind = "Path"
    BY DEF Messages
  <2> HIDE DEF m
  <2>5. /\ toClient' \in Seq(Messages) /\ toClient' # <<>> /\ toClient'[Len(toClient')] = m
        /\ toClient = <<>> => Head(toClient') = m /\ Chain(toClient')
        /\ toClient # <<>> => Head(toClient') = Head(toClient)
        /\ toClient # <<>> /\ Chain(toClient) /\ Follows(toClient[Len(toClient)], m) => Chain(toClient')
    BY <1>1, <2>3, <2>4, QueueAppend
  <2>6. BrokerTypes'
    BY <1>1, <2>2, <2>5 DEF BrokerTypes
  <2>7. Parties'
    BY <1>1, <2>2 DEF BrokerInv, Parties, BrokerRuns
  <2>8. HeadFits'
    BY <1>1, <2>4, <2>5 DEF BrokerInv, HeadFits
  <2>9. InOrder'
    <3>1. broker.pc # "failed" /\ toClient # <<>> => Follows(toClient[Len(toClient)], m)
      BY <1>1, <2>4 DEF BrokerInv, LastFits, Written, Follows
    <3> QED
      BY <1>1, <2>5, <3>1 DEF BrokerInv, InOrder
  <2>10. LastFits'
    BY <1>1, <2>2, <2>4, <2>5 DEF LastFits, Written
  <2>11. ServerFits'
    BY <1>1, <2>2, <2>5 DEF ServerFits, PathRequests
  <2> QED
    BY <2>6, <2>7, <2>8, <2>9, <2>10, <2>11 DEF BrokerInv
<1> QED
  BY <1>2, <1>3

\* The handler goes on without having written.
LEMMA WithoutWriting ==
    ASSUME BrokerInv, NEW p, session' \in SessionState, session'.pc = p, session'.left = 0,
           session'.last = "none", UNCHANGED <<toClient, toServer, client, broker>>,
           \/ session.pc = "calling" /\ p = "exit"
           \/ session.pc = "exit" /\ p = "report" /\ broker.pc = "failed"
           \/ session.pc = "answer" /\ p = "calling" /\ broker.pc = "failed" /\ toServer = <<>>
    PROVE  BrokerInv'
<1>1. BrokerTypes'
  BY DEF BrokerInv, BrokerTypes
<1>2. Parties'
  BY DEF BrokerInv, Parties, BrokerRuns
<1>3. HeadFits' /\ InOrder'
  BY DEF BrokerInv, HeadFits, InOrder
<1>4. LastFits'
  BY DEF BrokerInv, LastFits, Written
<1>5. ServerFits'
  BY DEF BrokerInv, ServerFits
<1> QED
  BY <1>1, <1>2, <1>3, <1>4, <1>5 DEF BrokerInv

\* An answer that does not come any more.
LEMMA AnswerLostInv == ASSUME BrokerInv, AnswerLost PROVE BrokerInv'
<1>1. BrokerTypes /\ toServer = <<>> /\ ~ClientOpen /\ UNCHANGED <<toClient, toServer, client, broker>>
  BY DEF BrokerInv, AnswerLost
<1>2. CASE session.pc = "answer"
  <2>1. session' = [Here("calling") EXCEPT !.calls = MaxCalls]
    BY <1>2 DEF AnswerLost
  <2>2. session' \in SessionState /\ session'.pc = "calling" /\ session'.left = 0 /\ session'.last = "none"
    BY <1>1, <2>1, GiveUpIs
  <2>3. broker.pc = "failed"
    BY <1>1, <1>2 DEF BrokerInv, Parties, ClientOpen, BrokerRuns
  <2> QED
    BY <1>1, <1>2, <2>2, <2>3, WithoutWriting
<1>3. CASE session.pc # "answer"
  BY <1>1, <1>3, EndedInv DEF AnswerLost
<1> QED
  BY <1>2, <1>3

\* The snapshot is done.
LEMMA CallsDoneInv == ASSUME BrokerInv, CallsDone PROVE BrokerInv'
<1>1. BrokerTypes /\ session.pc = "calling" /\ session' = Here("exit")
      /\ UNCHANGED <<toClient, toServer, client, broker>>
  BY DEF BrokerInv, CallsDone
<1>2. session' \in SessionState /\ session'.pc = "exit" /\ session'.left = 0 /\ session'.last = "none"
  BY <1>1, HereIs
<1> QED
  BY <1>1, <1>2, WithoutWriting

\* The broker is told to exit.
LEMMA DestroyPtraceClientInv == ASSUME BrokerInv, DestroyPtraceClient PROVE BrokerInv'
<1>1. /\ BrokerTypes /\ session.pc = "exit" /\ toServer = <<>> /\ session' = Here("report")
      /\ toClient \in Seq(Messages) /\ broker.pc \in {"request", "failed"}
      /\ UNCHANGED <<toServer, client, broker>>
  BY DEF BrokerInv, BrokerTypes, Parties, ServerFits, DestroyPtraceClient, Send
<1>2. session' \in SessionState /\ session'.pc = "report" /\ session'.left = 0 /\ session'.last = "none"
  BY <1>1, HereIs
<1>3. CASE ~ClientOpen
  <2>1. UNCHANGED toClient /\ broker.pc = "failed"
    BY <1>1, <1>3 DEF DestroyPtraceClient, Send, ClientOpen, BrokerRuns
  <2> QED
    BY <1>1, <1>2, <2>1, WithoutWriting
<1>4. CASE ClientOpen
  <2> DEFINE m == [kind |-> "Exit", size |-> 0]
  <2>1. toClient' = Append(toClient, [kind |-> "Exit", size |-> session'.left])
    BY <1>1, <1>4 DEF DestroyPtraceClient, Send
  <2>2. toClient' = Append(toClient, m)
    BY <1>2, <2>1
  <2>3. m \in Messages /\ m.kind = "Exit"
    BY DEF Messages
  <2> HIDE DEF m
  <2>4. /\ toClient' \in Seq(Messages) /\ toClient' # <<>> /\ toClient'[Len(toClient')] = m
        /\ toClient = <<>> => Head(toClient') = m /\ Chain(toClient')
        /\ toClient # <<>> => Head(toClient') = Head(toClient)
        /\ toClient # <<>> /\ Chain(toClient) /\ Follows(toClient[Len(toClient)], m) => Chain(toClient')
    BY <1>1, <2>2, <2>3, QueueAppend
  <2>5. BrokerTypes'
    BY <1>1, <1>2, <2>4 DEF BrokerTypes
  <2>6. Parties'
    BY <1>1, <1>2 DEF BrokerInv, Parties, BrokerRuns
  <2>7. HeadFits'
    BY <1>1, <2>3, <2>4 DEF BrokerInv, HeadFits
  <2>8. InOrder'
    <3>1. broker.pc # "failed" /\ toClient # <<>> => Follows(toClient[Len(toClient)], m)
      BY <1>1, <2>3 DEF BrokerInv, LastFits, Written, Follows
    <3> QED
      BY <1>1, <2>4, <3>1 DEF BrokerInv, InOrder
  <2>9. LastFits'
    BY <1>1, <1>2, <2>3, <2>4 DEF LastFits, Written
  <2>10. ServerFits'
    BY <1>1, <1>2, <2>4 DEF ServerFits
  <2> QED
    BY <2>5, <2>6, <2>7, <2>8, <2>9, <2>10 DEF BrokerInv
<1> QED
  BY <1>3, <1>4

\* The client is told that the dump is done, after the broker was told to exit.
LEMMA SendCompleteInv == ASSUME BrokerInv, SendComplete PROVE BrokerInv'
<1>1. /\ BrokerTypes /\ session.pc = "report" /\ toServer = <<>>
      /\ toClient \in Seq(Messages) /\ broker.pc \notin {"path", "answer"}
      /\ broker.pc = "request" => toClient # <<>>
      /\ UNCHANGED <<toServer, client, broker>>
  BY DEF BrokerInv, BrokerTypes, Parties, ServerFits, SendComplete, Send
<1>2. CASE ~ClientOpen
  BY <1>1, <1>2, EndedInv DEF SendComplete, Send
<1>3. CASE ClientOpen
  <2> DEFINE m == [kind |-> "CrashDumpComplete", size |-> 0]
  <2>1. /\ session' = Here("idle")
        /\ toClient' = Append(toClient, [kind |-> "CrashDumpComplete", size |-> session'.left])
    BY <1>3 DEF SendComplete, Send
  <2>2. session' \in SessionState /\ session'.pc = "idle" /\ session'.left = 0
    BY <1>1, <2>1, HereIs
  <2>3. toClient' = Append(toClient, m)
    BY <2>1, <2>2
  <2>4. m \in Messages /\ m.kind = "CrashDumpComplete"
    BY DEF Messages
  <2> HIDE DEF m
  <2>5. /\ toClient' \in Seq(Messages) /\ toClient' # <<>> /\ toClient'[Len(toClient')] = m
        /\ toClient = <<>> => Head(toClient') = m /\ Len(toClient') = 1 /\ Chain(toClient')
        /\ toClient # <<>> => Head(toClient') = Head(toClient)
        /\ toClient # <<>> /\ Chain(toClient) /\ Follows(toClient[Len(toClient)], m) => Chain(toClient')
    BY <1>1, <2>3, <2>4, QueueAppend
  <2>6. broker.pc # "failed" /\ toClient # <<>> =>
          toClient[Len(toClient)].kind = "Exit" /\ broker.pc \notin {"none", "exited"}
    <3>1. ASSUME broker.pc # "failed", toClient # <<>> PROVE toClient[Len(toClient)].kind = "Exit"
      BY <1>1, <3>1 DEF BrokerInv, LastFits, Written
    <3>2. ASSUME broker.pc \in {"none", "exited"}, toClient # <<>> PROVE FALSE
      <4>1. Len(toClient) = 1 /\ Head(toClient).kind # "Exit"
        BY <3>2 DEF BrokerInv, HeadFits
      <4>2. toClient[Len(toClient)] = Head(toClient)
        BY <1>1, <3>2, <4>1, SeqTail
      <4> QED
        BY <3>1, <3>2, <4>1, <4>2
    <3> QED
      BY <3>1, <3>2
  <2>7. BrokerTypes'
    BY <1>1, <2>2, <2>5 DEF BrokerTypes
  <2>8. Parties'
    BY <1>1, <2>2 DEF BrokerInv, Parties, BrokerRuns
  <2>9. HeadFits'
    BY <1>1, <2>4, <2>5, <2>6 DEF BrokerInv, HeadFits
  <2>10. InOrder'
    <3>1. broker.pc # "failed" /\ toClient # <<>> => Follows(toClient[Len(toClient)], m)
      BY <2>4, <2>6 DEF Follows
    <3> QED
      BY <1>1, <2>5, <3>1 DEF BrokerInv, InOrder
  <2>11. LastFits'
    BY <1>1, <2>2, <2>4, <2>5 DEF LastFits, Written
  <2>12. ServerFits'
    BY <1>1, <2>2 DEF ServerFits
  <2> QED
    BY <2>7, <2>8, <2>9, <2>10, <2>11, <2>12 DEF BrokerInv
<1> QED
  BY <1>2, <1>3

\* PtraceClient reads a token: the call goes on, or it has ended with the answer.
LEMMA ReadAnswerInv == ASSUME BrokerInv, ReadAnswer PROVE BrokerInv'
<1> DEFINE t == Head(toServer)
           left == IF t = "Data" /\ session.left > 0 THEN session.left - 1 ELSE session.left
<1>1. /\ BrokerTypes /\ session \in SessionState /\ session.pc = "answer" /\ toServer # <<>>
      /\ toServer \in Seq(Tokens) /\ toServer' = Tail(toServer) /\ UNCHANGED <<toClient, client, broker>>
      /\ session.left \in Nat /\ session.call \in Requests
  BY DEF BrokerInv, BrokerTypes, SessionState, ServerFits, ReadAnswer
<1>2. Underway /\ broker.pc \in {"request", "answer", "failed"}
  BY <1>1 DEF BrokerInv, Parties, ServerFits, Underway
<1>3. PICK a \in Seq(Tokens), k \in Nat, size \in Nat : Reading(a, k, size)
  BY <1>2 DEF Underway
<1>4. /\ toServer' \in Seq(Tokens) /\ Len(toServer) \in Nat \ {0} /\ Len(toServer') = Len(toServer) - 1
      /\ t = toServer[1] /\ t \in Tokens /\ (toServer' = <<>> <=> Len(toServer) = 1)
      /\ \A i \in 1 .. Len(toServer) - 1 : toServer'[i] = toServer[i + 1]
  BY <1>1, SeqTail
<1> DEFINE n == Len(a)
           s == Len(toServer)
<1>5. /\ n \in Nat /\ s \in Nat \ {0} /\ k + s <= n /\ k < n /\ k + 1 \in 1 .. n /\ (k + 1) - 1 = k
      /\ broker.pc = "answer" => k + s < n
  <2>1. n \in Nat
    BY <1>3
  <2>2. k + s <= n
    BY <1>3 DEF Reading
  <2>3. broker.pc = "answer" => Len(broker.answer) \in Nat \ {0} /\ k + s + Len(broker.answer) = n
    <3>1. broker.answer \in Seq(Tokens) /\ (broker.pc = "answer" => broker.answer # <<>>)
      BY <1>2 DEF BrokerInv, BrokerTypes, BrokerState, Parties
    <3> QED
      BY <1>3, <3>1, SeqEmpty DEF Reading
  <2>4. s \in Nat \ {0}
    BY <1>4
  <2> DEFINE l == Len(broker.answer)
  <2>5. broker.pc = "answer" => l \in Nat \ {0} /\ k + s + l = n
    BY <2>3
  <2> HIDE DEF n, s, l
  <2>6. k < n /\ k + 1 \in 1 .. n /\ (k + 1) - 1 = k
    BY <2>1, <2>2, <2>4
  <2>7. broker.pc = "answer" => k + s < n
    BY <2>1, <2>4, <2>5
  <2> QED
    BY <2>1, <2>2, <2>4, <2>6, <2>7
<1>6. /\ t = a[k + 1] /\ session.last = LastOf(a, k)
      /\ Ends(session.call, t, LeftOf(session.call, size, k + 1)) <=> k + 1 = n
      /\ session.left = LeftOf(session.call, size, k)
      /\ t = "Data" /\ session.call = "ReadMemory" => (k + 1) % 2 = 0 /\ (k + 1) \div 2 <= size
      /\ k + 1 < n /\ t # "Data" /\ session.call = "ReadMemory" => (k + 1) % 2 = 1
  <2>1. t = a[k + 1]
    BY <1>3, <1>4 DEF Reading
  <2> QED
    BY <1>3, <1>5, <2>1 DEF Reading, WellFormed
<1> HIDE DEF t
<1>7. t = "Data" \/ k + 1 < n => left = LeftOf(session.call, size, k + 1)
  <2>1. CASE session.call # "ReadMemory"
    BY <1>6, <2>1 DEF LeftOf
  <2>2. CASE session.call = "ReadMemory" /\ t = "Data"
    <3>1. session.left = size - k \div 2 /\ (k + 1) % 2 = 0 /\ (k + 1) \div 2 <= size
      BY <1>6, <2>2 DEF LeftOf
    <3>2. (k + 1) \div 2 = k \div 2 + 1
      BY <3>1
    <3>3. k \div 2 \in Nat
      OBVIOUS
    <3>4. session.left > 0 /\ session.left - 1 = size - (k + 1) \div 2
      BY <3>1, <3>2, <3>3
    <3> QED
      BY <2>2, <3>4 DEF LeftOf
  <2>3. CASE session.call = "ReadMemory" /\ t # "Data"
    <3> SUFFICES ASSUME k + 1 < n PROVE left = LeftOf(session.call, size, k + 1)
      BY <2>3
    <3>1. session.left = size - k \div 2 /\ (k + 1) % 2 = 1
      BY <1>6, <2>3 DEF LeftOf
    <3>2. (k + 1) \div 2 = k \div 2
      BY <3>1
    <3> QED
      BY <2>3, <3>1, <3>2 DEF LeftOf
  <2> QED
    BY <2>1, <2>2, <2>3
<1>8. Ends(session.call, t, left) <=> k + 1 = n
  <2>1. CASE t = "Data"
    BY <1>6, <1>7, <2>1
  <2>2. CASE t # "Data"
    BY <1>6, <2>2 DEF Ends
  <2> QED
    BY <2>1, <2>2
<1>9. left \in Nat /\ (session.call # "ReadMemory" => left = 0)
  <2>1. session.call # "ReadMemory" => session.left = 0
    BY DEF BrokerInv, Parties
  <2> QED
    BY <1>1, <2>1
<1> HIDE DEF left
<1>10. ASSUME NEW p \in {"exit", "calling"}, session' = Here(p), Ends(session.call, t, left)
       PROVE  BrokerInv'
  <2>1. session' \in SessionState /\ session'.pc = p /\ session'.left = 0 /\ session'.last = "none"
    BY <1>1, <1>10, HereIs
  <2>2. k + 1 = n /\ broker.pc # "answer" /\ toServer' = <<>>
    <3>1. k + 1 = n
      BY <1>8, <1>10
    <3>2. s = 1 /\ broker.pc # "answer"
      <4> HIDE DEF n, s
      <4>1. s = 1
        BY <1>5, <3>1
      <4> QED
        BY <1>5, <3>1, <4>1
    <3> QED
      BY <1>4, <3>1, <3>2
  <2>3. broker.pc # "failed" => toClient = <<>>
    BY <1>2 DEF Underway
  <2>4. BrokerTypes'
    BY <1>1, <1>4, <2>1 DEF BrokerTypes
  <2>5. Parties'
    BY <1>1, <1>2, <2>1, <2>2 DEF BrokerInv, Parties, BrokerRuns
  <2>6. HeadFits' /\ InOrder'
    BY <1>1 DEF BrokerInv, HeadFits, InOrder
  <2>7. LastFits'
    BY <1>1, <2>3 DEF LastFits
  <2>8. ServerFits'
    BY <2>1, <2>2 DEF ServerFits
  <2> QED
    BY <2>4, <2>5, <2>6, <2>7, <2>8 DEF BrokerInv
<1>11. ASSUME session' = [session EXCEPT !.last = t, !.left = left], ~Ends(session.call, t, left)
       PROVE  BrokerInv'
  <2>1. /\ session' \in SessionState /\ session'.pc = "answer" /\ session'.last = t /\ session'.left = left
        /\ session'.call = session.call
    BY <1>1, <1>4, <1>9, <1>11 DEF SessionState
  <2>2. k + 1 < n
    BY <1>5, <1>8, <1>11
  <2>3. BrokerTypes'
    BY <1>1, <1>4, <2>1 DEF BrokerTypes
  <2>4. Parties'
    BY <1>1, <1>2, <1>9, <2>1 DEF BrokerInv, Parties, BrokerRuns
  <2>5. broker.pc # "failed" => toClient = <<>>
    BY <1>2 DEF Underway
  <2>6. HeadFits' /\ InOrder'
    BY <1>1 DEF BrokerInv, HeadFits, InOrder
  <2>7. LastFits'
    BY <1>1, <2>5 DEF LastFits
  <2>8. Reading(a, k + 1, size)'
    <3>1. t = LastOf(a, k + 1) /\ left = LeftOf(session.call, size, k + 1)
      BY <1>6, <1>7, <2>2 DEF LastOf
    <3>2. (k + 1) + Len(toServer') = k + s
      BY <1>4, <1>5
    <3>3. ASSUME NEW i \in 1 .. Len(toServer') PROVE toServer'[i] = a[(k + 1) + i]
      <4>1. i \in 1 .. s - 1 /\ i + 1 \in 1 .. s /\ k + (i + 1) = (k + 1) + i
        BY <1>4
      <4>2. toServer[i + 1] = a[k + (i + 1)]
        BY <1>3, <4>1 DEF Reading
      <4> QED
        BY <1>4, <4>1, <4>2
    <3>4. (k + 1) + Len(toServer') <= n
      BY <1>5, <3>2
    <3> QED
      BY <1>1, <1>3, <2>1, <2>2, <3>1, <3>2, <3>3, <3>4 DEF Reading
  <2>9. Underway'
    <3>1. k + 1 \in Nat
      OBVIOUS
    <3> QED
      BY <1>1, <1>2, <2>8, <3>1 DEF Underway
  <2>10. ServerFits'
    BY <1>1, <2>1, <2>9 DEF ServerFits, Requests
  <2> QED
    BY <2>3, <2>4, <2>6, <2>7, <2>10 DEF BrokerInv
<1>12. \/ session' = Here("exit") /\ Ends(session.call, t, left)
       \/ session' = Here("calling") /\ Ends(session.call, t, left)
       \/ session' = [session EXCEPT !.last = t, !.left = left] /\ ~Ends(session.call, t, left)
  <2>1. session' = IF session.call = "Attach" /\ session.calls = 1 /\ t = "Errno" THEN Here("exit")
                   ELSE IF Ends(session.call, t, left) THEN Here("calling")
                   ELSE [session EXCEPT !.last = t, !.left = left]
    BY DEF ReadAnswer, t, left
  <2>2. t = "Errno" => Ends(session.call, t, left)
    BY DEF Ends
  <2> QED
    BY <2>1, <2>2
<1> QED
  BY <1>10, <1>11, <1>12

\* The beginning.
LEMMA BrokerStart == BrokerInit => BrokerInv
<1> SUFFICES ASSUME BrokerInit PROVE BrokerInv
  OBVIOUS
<1>1. /\ toClient = <<>> /\ toServer = <<>> /\ client = "reading" /\ broker.pc = "none"
      /\ broker.answer = <<>> /\ session.pc = "deciding" /\ session.left = 0
  BY DEF BrokerInit, NoCall
<1>2. broker \in BrokerState
  BY DEF BrokerInit, BrokerState
<1>3. session \in SessionState
  BY BrokerAssumption DEF BrokerInit, NoCall, SessionState, BrokerAssumption
<1>4. BrokerTypes
  BY <1>1, <1>2, <1>3 DEF BrokerTypes
<1>5. Parties
  BY <1>1 DEF Parties, BrokerRuns
<1>6. HeadFits /\ LastFits /\ InOrder
  BY <1>1 DEF HeadFits, LastFits, InOrder, Chain
<1>7. ServerFits
  BY <1>1 DEF ServerFits
<1> QED
  BY <1>4, <1>5, <1>6, <1>7 DEF BrokerInv

\* Every step of the three keeps them in step.
LEMMA BrokerStep == BrokerInv /\ [BrokerNext]_brokerVars => BrokerInv'
<1> SUFFICES ASSUME BrokerInv, [BrokerNext]_brokerVars PROVE BrokerInv'
  OBVIOUS
<1>1. CASE UNCHANGED brokerVars
  <2>1. UNCHANGED <<toClient, toServer, client, broker, session>>
    BY <1>1 DEF brokerVars
  <2>2. BrokerTypes' /\ Parties' /\ HeadFits' /\ InOrder' /\ LastFits'
    BY <2>1 DEF BrokerInv, BrokerTypes, Parties, BrokerRuns, HeadFits, InOrder, LastFits, Written
  <2>3. ServerFits'
    BY <2>1, UnderwayStays DEF BrokerInv, ServerFits
  <2> QED
    BY <2>2, <2>3 DEF BrokerInv
<1>2. CASE ServerHungUp
  <2>1. client' = "returned" /\ ~BrokerRuns /\ UNCHANGED <<toClient, toServer, broker, session>>
    BY <1>2 DEF BrokerInv, ServerHungUp, Parties, BrokerRuns
  <2> QED
    BY <2>1, ClientInv
<1>3. CASE WaitForBroker
  <2>1. /\ ~BrokerRuns /\ UNCHANGED <<toClient, toServer, broker, session>>
        /\ client' \in {"returned"} \cup (IF broker.pc = "exited" THEN {"reading"} ELSE {})
    BY <1>3 DEF BrokerInv, BrokerTypes, BrokerState, WaitForBroker, Parties, BrokerRuns
  <2> QED
    BY <2>1, ClientInv
<1>4. CASE HandlerKilled
  BY <1>4, EndedInv DEF HandlerKilled
<1> QED
  BY <1>1, <1>2, <1>3, <1>4, ForkBrokerInv, SetPtracerInv, DumpCompleteInv, ReadRequestInv,
     ReadPathInv, WriteAnswerInv, ReadEndInv, BrokerKilledInv, DecideInv, ReadErrnoInv, CallInv,
     SendFilePathInv, ReadAnswerInv, AnswerLostInv, CallsDoneInv, DestroyPtraceClientInv,
     SendCompleteInv
     DEF BrokerNext, BrokerProgress

\* The handler, the client and the broker stay well typed.
THEOREM BrokerTypeCorrect == BrokerSpec => []BrokerTypeOK
<1>1. BrokerInv => BrokerTypeOK
  BY DEF BrokerInv, BrokerTypes, BrokerState, SessionState, BrokerTypeOK
<1> QED
  BY <1>1, BrokerStart, BrokerStep, PTL DEF BrokerSpec

\* For any number of calls and pieces: whoever reads from the socket, the client, its broker
\* or the handler, finds what it expects there, whichever of them fails or is killed when.
THEOREM AlwaysInStep == BrokerSpec => []InStep
<1>1. BrokerInv => InStep
  <2> SUFFICES ASSUME BrokerInv PROVE InStep
    OBVIOUS
  <2>1. /\ client = "reading" /\ toClient # <<>> =>
             Head(toClient).kind \in {"ForkBroker", "SetPtracer", "CrashDumpComplete", "CrashDumpFailed"}
        /\ broker.pc = "request" /\ toClient # <<>> => Head(toClient).kind \in Requests \cup {"Exit"}
        /\ broker.pc = "path" /\ toClient # <<>> => Head(toClient).kind = "Path"
    BY DEF BrokerInv, Parties, HeadFits
  <2>2. session.pc = "calling" => toServer = <<>>
    BY DEF BrokerInv, ServerFits
  <2>3. ASSUME session.pc = "answer", toServer # <<>>
        PROVE  Head(toServer) \in Expected(session.call, session.last)
    <3>1. Underway
      BY <2>3 DEF BrokerInv, ServerFits
    <3>2. PICK a \in Seq(Tokens), k \in Nat, size \in Nat : Reading(a, k, size)
      BY <3>1 DEF Underway
    <3>3. Head(toServer) = toServer[1] /\ Len(toServer) \in Nat \ {0}
      BY <2>3, SeqTail DEF BrokerInv, BrokerTypes
    <3>4. toServer[1] = a[k + 1] /\ k + 1 \in 1 .. Len(a) /\ (k + 1) - 1 = k
      BY <3>2, <3>3 DEF Reading
    <3>5. a[k + 1] \in Expected(session.call, session.last)
      BY <3>2, <3>4 DEF Reading, WellFormed
    <3> QED
      BY <3>3, <3>4, <3>5
  <2> QED
    BY <2>1, <2>2, <2>3 DEF InStep
<1> QED
  BY <1>1, BrokerStart, BrokerStep, PTL DEF BrokerSpec

\* The handler waits for the client's next request only once it has told it how this one
\* ended, and what it was told stays to be read.
Told == session.pc = "idle" => client = "returned" \/ toClient # <<>>

StuckInv == BrokerInv /\ Told

\* Nobody is told anything at the beginning.
LEMMA StuckStart == BrokerInit => StuckInv
BY BrokerStart DEF BrokerInit, NoCall, StuckInv, Told

\* Only the client takes that message off the socket.
LEMMA ToldStep == ASSUME StuckInv, [BrokerNext]_brokerVars PROVE Told'
<1>1. /\ toClient \in Seq(Messages) /\ session \in SessionState /\ BrokerInv
      /\ client = "reading" => broker.pc \in {"none", "exited"}
      /\ session.pc = "idle" => client = "returned" \/ toClient # <<>>
      /\ session.pc = "idle" => broker.pc \notin {"path", "answer"}
  BY DEF StuckInv, BrokerInv, BrokerTypes, Parties, Told
<1>2. session.pc = "idle" /\ broker.pc # "failed" /\ toClient # <<>> =>
        toClient[Len(toClient)].kind \in {"CrashDumpComplete", "CrashDumpFailed"}
  BY <1>1 DEF BrokerInv, LastFits, Written
<1>3. CASE session' = session /\ client' = client /\ toClient' = toClient
  BY <1>1, <1>3 DEF Told
<1>4. CASE client' = "returned"
  BY <1>4 DEF Told
<1>5. CASE Receive({"ForkBroker", "SetPtracer"}) /\ session' = session
  <2>1. toClient # <<>> /\ Len(toClient) = 1 /\ broker.pc # "failed"
    BY <1>1, <1>5 DEF Receive, BrokerInv, HeadFits
  <2>2. Head(toClient) = toClient[Len(toClient)]
    BY <1>1, <2>1, SeqTail
  <2>3. session.pc # "idle"
    BY <1>2, <1>5, <2>1, <2>2 DEF Receive
  <2> QED
    BY <1>5, <2>3 DEF Told
<1>6. CASE ReadRequest
  <2>1. /\ toClient # <<>> /\ Head(toClient).kind \in Requests \cup {"Exit"} /\ broker.pc # "failed"
        /\ toClient' = Tail(toClient) /\ session' = session
    BY <1>6 DEF ReadRequest
  <2>2. session.pc = "idle" => Tail(toClient) # <<>>
    <3>1. Tail(toClient) = <<>> => toClient[Len(toClient)] = Head(toClient)
      BY <1>1, <2>1, QueueTail
    <3> QED
      BY <1>2, <2>1, <3>1 DEF Requests
  <2> QED
    BY <2>1, <2>2 DEF Told
<1>7. CASE ReadPath
  BY <1>1, <1>7 DEF ReadPath, Told
<1>8. ASSUME NEW p, session' = Here(p), p # "idle" PROVE Told'
  BY <1>1, <1>8 DEF Told, Here, SessionState
<1>9. ASSUME NEW m, toClient' = Append(toClient, m) PROVE Told'
  <2>1. Append(toClient, m) # <<>>
    BY <1>1, SMT
  <2> QED
    BY <1>9, <2>1 DEF Told
<1>10. CASE Decide
  BY <1>8, <1>9, <1>10 DEF Decide, Send
<1>11. CASE ReadErrno
  BY <1>8, <1>9, <1>11 DEF ReadErrno
<1>12. CASE Call
  <2>1. CASE ClientOpen
    BY <1>9, <1>12, <2>1 DEF Call, Send
  <2>2. CASE ~ClientOpen
    <3>1. session' = [Here("calling") EXCEPT !.calls = MaxCalls]
      BY <1>12, <2>2 DEF Call, Send
    <3> QED
      BY <1>1, <3>1 DEF Told, Here, SessionState
  <2> QED
    BY <2>1, <2>2
<1>13. CASE SendFilePath \/ DestroyPtraceClient \/ SendComplete
  BY <1>8, <1>9, <1>13 DEF SendFilePath, DestroyPtraceClient, SendComplete, Send
<1>14. CASE ReadAnswer
  <2>1. session'.pc # "idle"
    BY <1>1, <1>14 DEF ReadAnswer, Here, SessionState
  <2> QED
    BY <2>1 DEF Told
<1>15. CASE AnswerLost
  BY <1>1, <1>15 DEF AnswerLost, Told, Here, SessionState
<1>16. CASE CallsDone \/ HandlerKilled
  BY <1>8, <1>16 DEF CallsDone, HandlerKilled
<1>17. CASE WaitForBroker
  BY <1>1, <1>17 DEF WaitForBroker, Told
<1>18. CASE ForkBroker \/ SetPtracer
  BY <1>5, <1>18 DEF ForkBroker, SetPtracer, Receive
<1>19. CASE DumpComplete \/ ServerHungUp
  BY <1>4, <1>19 DEF DumpComplete, ServerHungUp
<1>20. CASE WriteAnswer \/ ReadEnd \/ BrokerKilled \/ UNCHANGED brokerVars
  BY <1>3, <1>20 DEF WriteAnswer, ReadEnd, BrokerKilled, brokerVars
<1> QED
  BY <1>6, <1>7, <1>10, <1>11, <1>12, <1>13, <1>14, <1>15, <1>16, <1>17, <1>18, <1>19, <1>20
     DEF BrokerNext, BrokerProgress

\* For any number of calls and pieces: until RequestCrashDump() returns, one of the client, its
\* broker and the handler can go on, whichever of them failed or was killed when.
THEOREM NeverStuck == BrokerSpec => []NobodyStuck
<1>1. StuckInv /\ [BrokerNext]_brokerVars => StuckInv'
  BY BrokerStep, ToldStep DEF StuckInv
<1>2. StuckInv => NobodyStuck
  <2> SUFFICES ASSUME StuckInv, client # "returned", ClientWaits, BrokerWaits, HandlerWaits PROVE FALSE
    BY DEF NobodyStuck
  <2>1. /\ BrokerInv /\ toClient \in Seq(Messages) /\ toServer \in Seq(Tokens)
        /\ client \in {"reading", "waiting"}
        /\ client = "reading" => broker.pc \in {"none", "exited"}
        /\ BrokerRuns => broker.pc = "request" \/ broker.pc = "path"
    BY DEF StuckInv, BrokerInv, BrokerTypes, Parties, BrokerWaits, BrokerRuns
  <2>2. toClient = <<>>
    BY <2>1 DEF BrokerInv, HeadFits, ClientWaits, BrokerWaits
  <2>3. session.pc # "ended"
    BY <2>1, <2>2 DEF ClientWaits, BrokerWaits, ServerOpen
  <2>4. session.pc # "idle"
    BY <2>2 DEF StuckInv, Told
  <2>5. ASSUME session.pc \in {"ptracer", "forking"} PROVE FALSE
    <3>1. PICK t \in {"ErrnoZero", "Errno"} : toServer = <<t>>
      BY <2>1, <2>2, <2>5 DEF BrokerInv, ServerFits
    <3>2. Head(toServer) = t /\ toServer # <<>>
      BY <3>1
    <3> QED
      BY <2>5, <3>2 DEF HandlerWaits
  <2>6. ASSUME session.pc = "answer" PROVE FALSE
    <3>1. broker.pc \in {"request", "path", "answer", "failed"}
      BY <2>1, <2>6 DEF BrokerInv, Parties
    <3>2. client = "waiting" /\ broker.pc \in {"request", "path"}
      BY <2>1, <3>1 DEF ClientWaits, BrokerRuns
    <3>3. Underway
      BY <2>1, <2>2, <2>6, <3>2 DEF BrokerInv, ServerFits
    <3>4. PICK a \in Seq(Tokens), k \in Nat, size \in Nat : Reading(a, k, size)
      BY <3>3 DEF Underway
    <3>5. broker.pc = "request" /\ k + Len(toServer) = Len(a) /\ k < Len(a)
      BY <3>2, <3>3, <3>4 DEF Underway, Reading
    <3>6. toServer # <<>>
      BY <2>1, <3>5, SeqEmpty
    <3>7. Head(toServer) = toServer[1] /\ Len(toServer) \in Nat \ {0}
      BY <2>1, <3>6, SeqTail
    <3>8. toServer[1] = a[k + 1] /\ k + 1 \in 1 .. Len(a) /\ (k + 1) - 1 = k
      BY <3>4, <3>5, <3>7 DEF Reading
    <3>9. a[k + 1] \in Expected(session.call, session.last)
      BY <3>4, <3>8 DEF Reading, WellFormed
    <3> QED
      BY <2>6, <3>6, <3>7, <3>8, <3>9 DEF HandlerWaits
  <2> QED
    BY <2>3, <2>4, <2>5, <2>6 DEF HandlerWaits
<1> QED
  BY <1>1, <1>2, StuckStart, PTL DEF BrokerSpec

----------------------------------------------------------------------------
(***************************************************************************)
(* AnnotationList: client/annotation_list.cc, for any annotations, threads *)
(* and lists.  A chain is a list as a sequence; ListInv has one for every  *)
(* list that was made, and in one of them every annotation that is added.  *)
(***************************************************************************)
USE ListAssumption

\* How many annotations there are, and what a link may lead to.
N == Cardinality(Annotations)
Nodes == Annotations \cup Lists

\* A thread.
SetterState == [pc : {"rest", "get", "set", "load", "claim", "insert"},
                list : Lists \cup {Nowhere}, annotation : Annotations \cup {Nowhere},
                next : Nodes \cup {Nowhere}]

\* The annotations that are in a list for good.
Added == {a \in Annotations : link[a] # Nowhere /\ ~BeingAdded(a)}

\* s has the n annotations of list l, from its head to its tail.
InChain(l, n, s) ==
    /\ n \in Nat /\ s \in [1 .. n -> Added]
    /\ \A i, j \in 1 .. n : s[i] = s[j] => i = j
    /\ head[l] = IF n = 0 THEN l ELSE s[1]
    /\ \A i \in 1 .. n : link[s[i]] = IF i = n THEN l ELSE s[i + 1]

\* Where a thread is tells what it has.
SetterOK(t) ==
    /\ ~At(t, "rest") => setter[t].annotation \in Annotations
    /\ setter[t].pc \in {"set", "load", "claim", "insert"} =>
         setter[t].list \in Lists /\ head[setter[t].list] # Nowhere
    /\ setter[t].pc \in {"load", "claim", "insert"} => registered # Nowhere
    /\ setter[t].pc \in {"claim", "insert"} => setter[t].next # Nowhere
    /\ At(t, "insert") =>
         /\ link[setter[t].annotation] = setter[t].next
         /\ \A u \in Setters : At(u, "insert") /\ setter[u].annotation = setter[t].annotation => u = t

\* The types, the locals of the threads included.
ListTypes ==
    /\ ListTypeOK
    /\ setter \in [Setters -> SetterState]
    /\ sets \in Nat

\* The inductive invariant.
ListInv ==
    /\ ListTypes
    /\ \A t \in Setters : SetterOK(t)
    /\ registered # Nowhere => head[registered] # Nowhere
    /\ \A l \in Lists : head[l] # Nowhere => \E n, s : InChain(l, n, s)
    /\ \A l \in Lists : head[l] \notin {Nowhere, l} => registered # Nowhere
    /\ \A a \in Added : \E l \in Lists : \E n, s : InChain(l, n, s) /\ \E i \in 1 .. n : s[i] = a

\* A chain has no more annotations than there are.
LEMMA ChainIsShort ==
    ASSUME NEW l, NEW n, NEW s, InChain(l, n, s)
    PROVE  n <= N /\ N \in Nat
<1>1. n \in Nat /\ s \in Injection(1 .. n, Annotations)
  BY DEF InChain, Injection, IsInjective, Added
<1>2. IsFiniteSet(1 .. n) /\ Cardinality(1 .. n) = n
  BY <1>1, FS_Interval
<1>3. Cardinality(1 .. n) <= N
  BY <1>1, <1>2, FS_Injection DEF N
<1> QED
  BY <1>2, <1>3, FS_CardinalityType DEF N

\* A walk through the list goes along the chain, and stays at its tail.
LEMMA WalkIsChain ==
    ASSUME NEW l \in Lists, NEW n, NEW s, InChain(l, n, s)
    PROVE  Walk(l) = [k \in 0 .. N |-> IF k < n THEN s[k + 1] ELSE l]
<1> DEFINE g == [k \in 0 .. N |-> IF k < n THEN s[k + 1] ELSE l]
           W == Walk(l)
<1>0. n \in Nat /\ N \in Nat /\ n <= N
  <2>1. n \in Nat
    BY DEF InChain
  <2> QED
    BY <2>1, ChainIsShort
<1>1. g = [k \in 0 .. N |-> IF k = 0 THEN head[l] ELSE NextNode(g[k - 1])]
  <2>1. ASSUME NEW k \in 0 .. N
        PROVE  g[k] = IF k = 0 THEN head[l] ELSE NextNode(g[k - 1])
    <3>1. CASE k = 0
      BY <3>1, <1>0 DEF InChain
    <3>2. CASE k # 0
      <4>1. k - 1 \in 0 .. N /\ k \in Nat
        BY <3>2, <1>0
      <4>2. CASE k - 1 < n
        <5>1. k \in 1 .. n /\ g[k - 1] = s[k]
          BY <1>0, <3>2, <4>1, <4>2
        <5>2. s[k] \in Annotations
          BY <5>1 DEF InChain, Added
        <5>3. NextNode(g[k - 1]) = link[s[k]]
          BY <5>1, <5>2 DEF NextNode
        <5>4. link[s[k]] = IF k = n THEN l ELSE s[k + 1]
          BY <5>1 DEF InChain
        <5> QED
          BY <5>1, <5>3, <5>4, <1>0, <3>2
      <4>3. CASE ~(k - 1 < n)
        <5>1. g[k - 1] = l /\ g[k] = l
          BY <1>0, <3>2, <4>1, <4>3
        <5> QED
          BY <5>1, <3>2 DEF NextNode
      <4> QED
        BY <4>2, <4>3
    <3> QED
      BY <3>1, <3>2
  <2> QED
    BY <2>1
<1>2. W = CHOOSE f : f = [k \in 0 .. N |-> IF k = 0 THEN head[l] ELSE NextNode(f[k - 1])]
  BY DEF Walk, N
<1>3. W = [k \in 0 .. N |-> IF k = 0 THEN head[l] ELSE NextNode(W[k - 1])]
  <2> HIDE DEF g, W
  <2> QED BY <1>1, <1>2
<1>4. ASSUME NEW k \in 0 .. N, W[k] # g[k] PROVE FALSE
  <2> DEFINE T == {j \in 0 .. N : W[j] # g[j]}
  <2>1. PICK j \in T : \A i \in T : j <= i
    <3>1. T \subseteq Nat /\ T # {}
      BY <1>4, <1>0
    <3> QED BY <3>1, SmallestOne
  <2>2. j # 0
    BY <1>1, <1>3, <2>1
  <2>3. j - 1 \in 0 .. N /\ W[j - 1] = g[j - 1]
    BY <1>0, <2>1, <2>2
  <2> HIDE DEF g, W
  <2>4. /\ W[j] = NextNode(W[j - 1])
        /\ g[j] = NextNode(g[j - 1])
    BY <1>1, <1>3, <2>1, <2>2
  <2> QED
    BY <2>1, <2>3, <2>4
<1> QED
  <2> HIDE DEF g
  <2>1. W = [k \in 0 .. N |-> W[k]] /\ g = [k \in 0 .. N |-> g[k]]
    BY <1>1, <1>3
  <2>2. W = g
    BY <2>1, <1>4
  <2> QED
    BY <2>2 DEF g

\* No list has been made at the beginning.
LEMMA ListInitInv == ListInit => ListInv
<1> SUFFICES ASSUME ListInit PROVE ListInv
  OBVIOUS
<1> USE DEF ListInit, AtRest
<1>1. ListTypes
  BY DEF ListTypes, ListTypeOK, SetterState, Nodes
<1>2. \A t \in Setters : SetterOK(t)
  BY DEF SetterOK, At
<1>3. Added = {}
  BY DEF Added
<1> QED
  BY <1>1, <1>2, <1>3 DEF ListInv

\* A step that leaves the heads and the links of the added annotations alone leaves the
\* chains alone.
LEMMA ChainStays ==
    ASSUME NEW l, NEW n, NEW s, InChain(l, n, s), head'[l] = head[l],
           \A a \in Added : a \in Added' /\ link'[a] = link[a]
    PROVE  InChain(l, n, s)'
<1>1. n \in Nat /\ s \in [1 .. n -> Added]
  BY DEF InChain
<1>2. s \in [1 .. n -> Added']
  BY <1>1
<1>3. \A i \in 1 .. n : link'[s[i]] = link[s[i]]
  BY <1>1
<1> QED
  BY <1>1, <1>2, <1>3 DEF InChain

\* What such a step has to show of the rest of the invariant.
LEMMA ListFrame ==
    ASSUME ListInv, ListTypes', \A t \in Setters : SetterOK(t)',
           registered' \in {registered} \cup Lists, registered' # Nowhere => head'[registered'] # Nowhere,
           \A l \in Lists : head'[l] # head[l] => head[l] = Nowhere /\ head'[l] = l,
           Added' = Added, \A a \in Added : link'[a] = link[a]
    PROVE  ListInv'
<1>1. ASSUME NEW l \in Lists, NEW n, NEW s, InChain(l, n, s), head[l] # Nowhere
      PROVE  InChain(l, n, s)'
  BY <1>1, ChainStays
<1>2. ASSUME NEW l \in Lists, head'[l] # Nowhere
      PROVE  \E n, s : InChain(l, n, s)'
  <2>1. CASE head'[l] = head[l]
    BY <1>1, <1>2, <2>1 DEF ListInv
  <2>2. CASE head'[l] # head[l]
    <3>1. InChain(l, 0, <<>>)'
      BY <2>2 DEF InChain
    <3> QED
      BY <3>1
  <2> QED
    BY <2>1, <2>2
<1>3. ASSUME NEW l \in Lists, head'[l] \notin {Nowhere, l}
      PROVE  registered' # Nowhere
  BY <1>3 DEF ListInv
<1>4. ASSUME NEW a \in Added'
      PROVE  \E l \in Lists : \E n, s : InChain(l, n, s)' /\ \E i \in 1 .. n : s[i] = a
  <2>0. PICK l \in Lists : \E n, s : InChain(l, n, s) /\ \E i \in 1 .. n : s[i] = a
    BY DEF ListInv
  <2>1. PICK n, s : InChain(l, n, s) /\ \E i \in 1 .. n : s[i] = a
    BY <2>0
  <2>2. head[l] # Nowhere
    BY <2>1 DEF InChain, Added
  <2> QED
    BY <1>1, <2>1, <2>2
<1> QED
  BY <1>2, <1>3, <1>4 DEF ListInv

\* Every step of every thread keeps the chains: only Insert() makes one longer, at its head.
LEMMA ListNextInv == ListInv /\ [ListNext]_listVars => ListInv'
<1> SUFFICES ASSUME ListInv, [ListNext]_listVars PROVE ListInv'
  OBVIOUS
<1>1. CASE UNCHANGED listVars
  <2>1. Added' = Added
    BY <1>1 DEF Added, BeingAdded, At, listVars
  <2>2. ListTypes' /\ \A t \in Setters : SetterOK(t)'
    BY <1>1 DEF ListInv, ListTypes, ListTypeOK, SetterOK, At, listVars
  <2> QED
    BY <1>1, <2>1, <2>2, ListFrame DEF listVars, ListInv
<1>2. ASSUME NEW t \in Setters, NEW a \in Annotations, SetSize(t, a) PROVE ListInv'
  <2>1. Added' = Added
    BY <1>2 DEF Added, BeingAdded, At, SetSize, ListInv, ListTypes, SetterState
  <2>2. ListTypes'
    <3>0. [setter[t] EXCEPT !.pc = "get", !.annotation = a] \in SetterState
      <4>1. setter[t] \in SetterState
        BY DEF ListInv, ListTypes
      <4> QED
        BY <4>1 DEF SetterState
    <3>1. setter' \in [Setters -> SetterState]
      BY <1>2, <3>0 DEF ListInv, ListTypes, SetSize
    <3>2. \A u \in Setters : setter'[u].pc \in {"rest", "get", "set", "load", "claim", "insert"}
      BY <3>1 DEF SetterState
    <3> QED
      BY <1>2, <3>1, <3>2 DEF ListInv, ListTypes, ListTypeOK, SetSize
  <2>3. \A u \in Setters : SetterOK(u)'
    BY <1>2 DEF ListInv, ListTypes, SetterOK, At, SetSize, SetterState
  <2> QED
    BY <1>2, <2>1, <2>2, <2>3, ListFrame DEF SetSize, ListInv
<1>3. ASSUME NEW t \in Setters, NEW a \in Annotations, ClearAnnotation(t, a) PROVE ListInv'
  <2>1. Added' = Added
    BY <1>3 DEF Added, BeingAdded, At, ClearAnnotation, ListInv, ListTypes, SetterState
  <2>2. ListTypes' /\ \A u \in Setters : SetterOK(u)'
    BY <1>3 DEF ListInv, ListTypes, ListTypeOK, SetterOK, At, ClearAnnotation, SetterState
  <2> QED
    BY <1>3, <2>1, <2>2, ListFrame DEF ClearAnnotation, ListInv
<1>4. ASSUME NEW t \in Setters, Register(t) PROVE ListInv'
  <2>1. Added' = Added
    BY <1>4 DEF Added, BeingAdded, At, Register, ListInv, ListTypes, SetterState
  <2>2. ListTypes' /\ \A u \in Setters : SetterOK(u)'
    BY <1>4 DEF ListInv, ListTypes, ListTypeOK, SetterOK, At, Register, SetterState, Nodes
  <2> QED
    BY <1>4, <2>1, <2>2, ListFrame DEF Register, ListInv, ListTypes, ListTypeOK
<1>5. ASSUME NEW t \in Setters, SetAnnotationsList(t) PROVE ListInv'
  <2>1. Added' = Added
    BY <1>5 DEF Added, BeingAdded, At, SetAnnotationsList, ListInv, ListTypes, SetterState
  <2>2. ListTypes' /\ \A u \in Setters : SetterOK(u)'
    BY <1>5 DEF ListInv, ListTypes, ListTypeOK, SetterOK, At, SetAnnotationsList, SetterState
  <2> QED
    BY <1>5, <2>1, <2>2, ListFrame DEF SetAnnotationsList, ListInv, SetterOK, At
<1>6. ASSUME NEW t \in Setters, LoadHead(t) PROVE ListInv'
  <2>1. Added' = Added
    BY <1>6 DEF Added, BeingAdded, At, LoadHead, ListInv, ListTypes, SetterState
  <2>2. head[setter[t].list] \in Nodes
    BY <1>6 DEF ListInv, ListTypes, ListTypeOK, SetterOK, At, LoadHead, Nodes
  <2>3. ListTypes'
    <3>0. [[setter[t] EXCEPT !.pc = "claim"] EXCEPT !.next = head[setter[t].list]] \in SetterState
      <4>1. setter[t] \in SetterState
        BY DEF ListInv, ListTypes
      <4> QED
        BY <2>2, <4>1 DEF SetterState
    <3>1. setter' \in [Setters -> SetterState]
      BY <1>6, <3>0 DEF ListInv, ListTypes, LoadHead
    <3>2. \A u \in Setters : setter'[u].pc \in {"rest", "get", "set", "load", "claim", "insert"}
      BY <3>1 DEF SetterState
    <3> QED
      BY <1>6, <3>1, <3>2 DEF ListInv, ListTypes, ListTypeOK, LoadHead
  <2>4. \A u \in Setters : SetterOK(u)'
    BY <1>6, <2>2 DEF ListInv, ListTypes, SetterOK, At, LoadHead, SetterState, Nodes
  <2> QED
    BY <1>6, <2>1, <2>3, <2>4, ListFrame DEF LoadHead, ListInv
<1>7. ASSUME NEW t \in Setters, ClaimAnnotation(t) PROVE ListInv'
  <2> DEFINE a == setter[t].annotation
  <2>0. a \in Annotations /\ At(t, "claim") /\ setter[t].next \in Nodes
    BY <1>7 DEF ClaimAnnotation, ListInv, SetterOK, At, ListTypes, SetterState
  <2>1. Added' = Added /\ (link[a] = Nowhere => a \notin Added)
    BY <1>7, <2>0 DEF Added, BeingAdded, At, ClaimAnnotation, ListInv, ListTypes, ListTypeOK, SetterState,
                      AtRest, SetterOK
  <2>2. ListTypes' /\ \A u \in Setters : SetterOK(u)'
    BY <1>7, <2>0 DEF ListInv, ListTypes, ListTypeOK, SetterOK, At, ClaimAnnotation, SetterState, Nodes,
                      AtRest
  <2>3. \A b \in Added : link'[b] = link[b]
    BY <1>7, <2>0, <2>1 DEF ClaimAnnotation, ListInv, ListTypes, ListTypeOK, Added
  <2> QED
    BY <1>7, <2>1, <2>2, <2>3, ListFrame DEF ClaimAnnotation, ListInv
<1>8. ASSUME NEW t \in Setters, InsertFailed(t) PROVE ListInv'
  <2> DEFINE a == setter[t].annotation
  <2>0. a \in Annotations /\ At(t, "insert") /\ head[setter[t].list] \in Nodes
    BY <1>8 DEF InsertFailed, ListInv, SetterOK, At, ListTypes, ListTypeOK, SetterState, Nodes
  <2>1. Added' = Added /\ a \notin Added
    BY <1>8, <2>0 DEF Added, BeingAdded, At, InsertFailed, ListInv, ListTypes, ListTypeOK, SetterState
  <2>2. ListTypes' /\ \A u \in Setters : SetterOK(u)'
    BY <1>8, <2>0 DEF ListInv, ListTypes, ListTypeOK, SetterOK, At, InsertFailed, SetterState, Nodes
  <2> QED
    BY <1>8, <2>0, <2>1, <2>2, ListFrame DEF InsertFailed, ListInv, Added
<1>9. ASSUME NEW t \in Setters, Insert(t) PROVE ListInv'
  <2>0. PICK a \in Annotations, l \in Lists :
          /\ a = setter[t].annotation /\ l = setter[t].list /\ At(t, "insert") /\ a \notin Added
          /\ link[a] = head[l] /\ head[l] \in Nodes /\ registered # Nowhere
    BY <1>9 DEF Insert, ListInv, SetterOK, At, ListTypes, ListTypeOK, SetterState, Nodes, Added, BeingAdded
  <2>1. Added' = Added \cup {a}
    <3>1. \A b \in Annotations \ {a} : BeingAdded(b)' <=> BeingAdded(b)
      BY <1>9, <2>0 DEF Insert, BeingAdded, At, AtRest, ListInv, ListTypes, SetterState
    <3>2. ~BeingAdded(a)'
      BY <1>9, <2>0 DEF Insert, BeingAdded, At, AtRest, ListInv, ListTypes, SetterState, SetterOK
    <3>3. link' = link /\ link[a] # Nowhere
      BY <1>9, <2>0 DEF Insert, Nodes
    <3> QED
      <4>1. \A b \in Annotations : b \in Added' <=> b \in Added \/ b = a
        BY <2>0, <3>1, <3>2, <3>3 DEF Added
      <4>2. Added \subseteq Annotations /\ Added' \subseteq Annotations
        BY DEF Added
      <4> QED
        BY <2>0, <4>1, <4>2
  <2>2. ListTypes' /\ \A u \in Setters : SetterOK(u)'
    BY <1>9, <2>0 DEF ListInv, ListTypes, ListTypeOK, SetterOK, At, Insert, SetterState, Nodes, AtRest
  <2>a. \A m \in Lists \ {l} : head'[m] = head[m]
    BY <1>9, <2>0 DEF Insert, ListInv, ListTypes, ListTypeOK
  <2>b. link' = link
    BY <1>9 DEF Insert
  <2>3. ASSUME NEW m \in Lists \ {l}, NEW n, NEW s, InChain(m, n, s) PROVE InChain(m, n, s)'
    BY <2>1, <2>3, <2>a, <2>b, ChainStays
  <2>4. ASSUME NEW n, NEW s, InChain(l, n, s)
        PROVE  \E m, r : /\ InChain(l, m, r)'
                         /\ \E i \in 1 .. m : r[i] = a
                         /\ \A i \in 1 .. n : \E j \in 1 .. m : r[j] = s[i]
    <3> DEFINE r == [i \in 1 .. n + 1 |-> IF i = 1 THEN a ELSE s[i - 1]]
    <3>1. /\ n \in Nat /\ s \in [1 .. n -> Added]
          /\ \A i, j \in 1 .. n : s[i] = s[j] => i = j
          /\ head[l] = IF n = 0 THEN l ELSE s[1]
          /\ \A i \in 1 .. n : link[s[i]] = IF i = n THEN l ELSE s[i + 1]
      BY <2>4 DEF InChain
    <3>2. r[1] = a /\ \A i \in 1 .. n : i + 1 \in 1 .. n + 1 /\ r[i + 1] = s[i]
      BY <3>1
    <3>3. \A j \in 1 .. n + 1 : j # 1 => j - 1 \in 1 .. n /\ r[j] = s[j - 1]
      BY <3>1
    <3>4. r \in [1 .. n + 1 -> Added']
      BY <2>1, <3>1
    <3>5. \A i, j \in 1 .. n + 1 : r[i] = r[j] => i = j
      <4> HIDE DEF r
      <4> QED BY <2>0, <3>1, <3>2, <3>3
    <3>6. head'[l] = r[1]
      BY <1>9, <2>0, <3>2 DEF Insert, ListInv, ListTypes, ListTypeOK
    <3>7. ASSUME NEW i \in 1 .. n + 1 PROVE link'[r[i]] = IF i = n + 1 THEN l ELSE r[i + 1]
      <4>1. link' = link
        BY <1>9 DEF Insert
      <4>2. CASE i = 1
        BY <2>0, <3>1, <4>1, <4>2
      <4>3. CASE i # 1
        <5>1. i - 1 \in 1 .. n /\ r[i] = s[i - 1]
          BY <3>3, <4>3
        <5>2. link[s[i - 1]] = IF i - 1 = n THEN l ELSE s[i]
          BY <3>1, <5>1
        <5>3. i - 1 # n => r[i + 1] = s[i]
          BY <3>1, <5>1
        <5> QED
          BY <3>1, <4>1, <5>1, <5>2, <5>3
      <4> QED
        BY <4>2, <4>3
    <3> HIDE DEF r
    <3>8. InChain(l, n + 1, r)'
      <4>1. n + 1 \in Nat /\ n + 1 # 0
        BY <3>1
      <4> QED
        BY <3>4, <3>5, <3>6, <3>7, <4>1, Zenon DEF InChain
    <3>9. /\ \E i \in 1 .. n + 1 : r[i] = a
          /\ \A i \in 1 .. n : \E j \in 1 .. n + 1 : r[j] = s[i]
      BY <3>1, <3>2
    <3> WITNESS n + 1, r
    <3> QED
      BY <3>8, <3>9
  <2>5. PICK n0, s0 : InChain(l, n0, s0)
    BY <2>0 DEF ListInv, Nodes
  <2>6. ASSUME NEW m \in Lists, head'[m] # Nowhere PROVE \E n, s : InChain(m, n, s)'
    <3>1. CASE m = l
      BY <2>4, <2>5, <3>1
    <3>2. CASE m # l
      BY <2>3, <2>6, <2>a, <3>2 DEF ListInv
    <3> QED
      BY <3>1, <3>2
  <2>7. ASSUME NEW b \in Added'
        PROVE  \E m \in Lists : \E n, s : InChain(m, n, s)' /\ \E i \in 1 .. n : s[i] = b
    <3>1. CASE b = a
      <4>1. n0 \in Nat
        BY <2>5 DEF InChain
      <4> QED
      BY <2>4, <2>5, <3>1, <4>1
    <3>2. CASE b # a
      <4>0. PICK m \in Lists : \E n, s : InChain(m, n, s) /\ \E i \in 1 .. n : s[i] = b
        BY <2>1, <3>2 DEF ListInv
      <4>1. PICK n, s : InChain(m, n, s) /\ \E i \in 1 .. n : s[i] = b
        BY <4>0
      <4>2. CASE m = l
        BY <2>4, <4>1, <4>2
      <4>3. CASE m # l
        BY <2>3, <4>1, <4>3
      <4> QED
        BY <4>2, <4>3
    <3> QED
      BY <3>1, <3>2
  <2>8. registered' = registered /\ (registered # Nowhere => head'[registered] # Nowhere)
    BY <1>9, <2>0 DEF Insert, ListInv, ListTypes, ListTypeOK
  <2> QED
    BY <2>0, <2>2, <2>6, <2>7, <2>8 DEF ListInv
<1> QED
  BY <1>1, <1>2, <1>3, <1>4, <1>5, <1>6, <1>7, <1>8, <1>9 DEF ListNext

\* The lists, the links and the threads stay well typed.
THEOREM ListTypeCorrect == ListSpec => []ListTypeOK
<1>1. ListInv => ListTypeOK
  BY DEF ListInv, ListTypes
<1> QED
  BY <1>1, ListInitInv, ListNextInv, PTL DEF ListSpec

\* For any annotations, threads and lists: wherever the threads of the client are stopped, a walk
\* through a list ends, and meets every annotation that was added and that none of them is adding.
THEOREM AlwaysReachable == ListSpec => []AnnotationsReachable
<1>1. ListInv => AnnotationsReachable
  <2> SUFFICES ASSUME ListInv PROVE AnnotationsReachable
    OBVIOUS
  <2>1. ASSUME NEW l \in Lists, NEW n, NEW s, InChain(l, n, s)
        PROVE  /\ Walk(l)[N] = l
               /\ \A i \in 1 .. n : i - 1 \in 0 .. N /\ Walk(l)[i - 1] = s[i]
    <3>1. n \in Nat /\ N \in Nat /\ n <= N
      <4>1. n \in Nat
        BY <2>1 DEF InChain
      <4> QED
        BY <2>1, <4>1, ChainIsShort
    <3>2. Walk(l) = [k \in 0 .. N |-> IF k < n THEN s[k + 1] ELSE l]
      BY <2>1, WalkIsChain
    <3> QED
      BY <3>1, <3>2
  <2>2. \A l \in Lists : head[l] # Nowhere => Walk(l)[N] = l
    BY <2>1 DEF ListInv
  <2>3. ASSUME NEW a \in Added
        PROVE  \E l \in Lists :
                 /\ head[l] # Nowhere
                 /\ \E n \in 0 .. N : Walk(l)[n] = a
                 /\ l = registered \/ \E m \in Lists \ {l} : head[m] # Nowhere
    <3>0. PICK l \in Lists : \E n, s : InChain(l, n, s) /\ \E i \in 1 .. n : s[i] = a
      BY DEF ListInv
    <3>1. PICK n, s : InChain(l, n, s) /\ \E i \in 1 .. n : s[i] = a
      BY <3>0
    <3>2. head[l] \notin {Nowhere, l}
      BY <3>1 DEF InChain, Added
    <3>3. registered \in Lists /\ head[registered] # Nowhere
      BY <3>2 DEF ListInv, ListTypes, ListTypeOK
    <3> QED
      BY <2>1, <3>1, <3>2, <3>3
  <2> QED
    BY <2>2, <2>3 DEF AnnotationsReachable, Added, N
<1> QED
  BY <1>1, ListInitInv, ListNextInv, PTL DEF ListSpec

----------------------------------------------------------------------------
(***************************************************************************)
(* RingBuffer: client/length_delimited_ring_buffer.h.                      *)
(*                                                                         *)
(* The array is seen as the last Capacity bytes of an endless one, in      *)
(* which every buffer that was pushed has a position.  The model's         *)
(* recursive functions are shown, one step at a time, to be functions of   *)
(* those positions.                                                        *)
(***************************************************************************)

HIDE ListAssumption
USE RingAssumption

\* Division with remainder.
LEMMA QuotientOf ==
    ASSUME NEW c \in Nat \ {0}, NEW x \in Int
    PROVE  /\ x \div c \in Int /\ x % c \in 0 .. c - 1 /\ x = c * (x \div c) + (x % c)
           /\ x \in Nat => x \div c \in Nat
<1> DEFINE q == x \div c
           m == c * q
<1>1. q \in Int /\ q * c <= x /\ x < q * c + c /\ (x \in Nat => q \in Nat)
  OBVIOUS
<1> HIDE DEF q
<1>2. m \in Int /\ m <= x /\ x < m + c
  BY <1>1
<1>3. x - m \in 0 .. c - 1 /\ x = m + (x - m)
  <2> HIDE DEF m
  <2> QED
    BY <1>2
<1>4. \A r \in 0 .. c - 1 : x = c * q + r => x % c = r
  BY <1>1
<1>5. x % c = x - m
  BY <1>3, <1>4
<1> QED
  BY <1>1, <1>3, <1>5 DEF q

\* Positions in the array.
LEMMA Remainder ==
    ASSUME NEW x \in Int
    PROVE  x % Capacity \in 0 .. Capacity - 1
OBVIOUS

\* A number is its quotient times the capacity and its remainder in one way only.
LEMMA RemainderIs ==
    ASSUME NEW x \in Int, NEW q \in Int, NEW r \in 0 .. Capacity - 1, x = Capacity * q + r
    PROVE  x % Capacity = r
OBVIOUS

\* A number has a quotient by the capacity.
LEMMA Quotient ==
    ASSUME NEW x \in Int
    PROVE  \E q \in Int : x = Capacity * q + (x % Capacity)
BY QuotientOf

\* Adding to an offset, around the end of the array.
LEMMA RemainderAdd ==
    ASSUME NEW x \in Int, NEW y \in Int
    PROVE  ((x % Capacity) + y) % Capacity = (x + y) % Capacity
<1> DEFINE r == x % Capacity
           u == (r + y) % Capacity
           z == x + y
<1>1. PICK q \in Int : x = Capacity * q + (x % Capacity)
  BY Quotient
<1>2. r \in Int /\ r + y \in Int
  BY Remainder
<1>3. PICK t \in Int : r + y = Capacity * t + ((r + y) % Capacity)
  BY <1>2, Quotient
<1>4. u \in 0 .. Capacity - 1
  BY <1>2, Remainder
<1>5. x = Capacity * q + r /\ r + y = Capacity * t + u
  BY <1>1, <1>3
<1> HIDE DEF r, u
<1>6. z = Capacity * (q + t) + u /\ z \in Int /\ q + t \in Int
  BY <1>2, <1>4, <1>5
<1> HIDE DEF z
<1>7. z % Capacity = u
  BY <1>6, <1>4, RemainderIs
<1> QED
  BY <1>7 DEF u, r, z

\* Fewer than Capacity bytes apart, two positions are different bytes of the array.
LEMMA RemainderDiffers ==
    ASSUME NEW x \in Int, NEW y \in Int, x < y, y < x + Capacity
    PROVE  x % Capacity # y % Capacity
<1> SUFFICES ASSUME x % Capacity = y % Capacity PROVE FALSE
  OBVIOUS
<1> DEFINE r == x % Capacity
<1>1. PICK q \in Int : x = Capacity * q + (x % Capacity)
  BY Quotient
<1>2. PICK t \in Int : y = Capacity * t + (y % Capacity)
  BY Quotient
<1>3. r \in Int /\ x = Capacity * q + r /\ y = Capacity * t + r
  BY <1>1, <1>2, Remainder
<1> HIDE DEF r
<1>4. t - q \in Int /\ y - x = Capacity * (t - q)
  BY <1>3
<1> DEFINE d == t - q
<1>5. d \in Int /\ Capacity * d > 0 /\ Capacity * d < Capacity
  BY <1>4
<1> HIDE DEF d
<1>6. CASE d <= 0
  BY <1>5, <1>6
<1>7. CASE d >= 1
  BY <1>5, <1>7
<1> QED
  BY <1>5, <1>6, <1>7

\* Short of the end of the array.
LEMMA RemainderShort ==
    ASSUME NEW x \in Int, NEW d \in Nat, (x % Capacity) + d < Capacity
    PROVE  (x + d) % Capacity = (x % Capacity) + d
<1> DEFINE r == x % Capacity
           z == x + d
<1>1. PICK q \in Int : x = Capacity * q + (x % Capacity)
  BY Quotient
<1>2. r \in 0 .. Capacity - 1 /\ x = Capacity * q + r /\ r + d < Capacity
  BY <1>1, Remainder
<1> HIDE DEF r
<1>3. z \in Int /\ z = Capacity * q + (r + d) /\ r + d \in 0 .. Capacity - 1
  BY <1>2
<1> HIDE DEF z
<1>4. z % Capacity = r + d
  <2> DEFINE s == r + d
  <2> HIDE DEF s
  <2>1. z % Capacity = s
    BY <1>3, RemainderIs DEF s
  <2> QED
    BY <2>1 DEF s
<1> QED
  BY <1>4 DEF r, z

\* How far a byte of the array is from an offset.
LEMMA RemainderBack ==
    ASSUME NEW w \in Int, NEW d \in 0 .. Capacity - 1
    PROVE  (((w + d) % Capacity) - (w % Capacity)) % Capacity = d
<1> DEFINE r == w % Capacity
           u == (w + d) % Capacity
           z == u - r
<1>1. PICK q \in Int : w = Capacity * q + (w % Capacity)
  BY Quotient
<1>2. w + d \in Int
  OBVIOUS
<1>3. PICK t \in Int : w + d = Capacity * t + ((w + d) % Capacity)
  BY <1>2, Quotient
<1>4. r \in Int /\ u \in Int /\ w = Capacity * q + r /\ w + d = Capacity * t + u
  BY <1>1, <1>2, <1>3, Remainder
<1> HIDE DEF r, u
<1>5. z \in Int /\ q - t \in Int /\ z = Capacity * (q - t) + d
  BY <1>4
<1> HIDE DEF z
<1>6. z % Capacity = d
  BY <1>5, RemainderIs
<1> QED
  BY <1>6 DEF z, u, r

----------------------------------------------------------------------------
\* Two functions that agree at 0, and at n whenever they agree at n - 1, are the same.
InStepUpTo(top, f, g) == f[0] = g[0] /\ \A n \in 1 .. top : f[n - 1] = g[n - 1] => f[n] = g[n]

\* They have the same last value.
LEMMA StepByStep ==
    ASSUME NEW top \in Nat, NEW f, NEW g, InStepUpTo(top, f, g)
    PROVE  f[top] = g[top]
<1> USE DEF InStepUpTo
<1> DEFINE T == {n \in 0 .. top : f[n] # g[n]}
<1> SUFFICES ASSUME T # {} PROVE FALSE
  OBVIOUS
<1>1. T \subseteq Nat
  OBVIOUS
<1>2. PICK n \in T : \A m \in T : n <= m
  BY <1>1, SmallestOne
<1>3. n # 0
  OBVIOUS
<1>4. n - 1 \in 0 .. top /\ n - 1 \notin T
  BY <1>2, <1>3
<1> QED
  BY <1>3, <1>4

\* f is defined at n by F, from its value at n - 1.
Recursion(top, x, F, f) == f = [n \in 0 .. top |-> IF n = 0 THEN x ELSE F[<<n, f[n - 1]>>]]

\* There is such a function.
LEMMA RecursionExists ==
    ASSUME NEW top \in Nat, NEW S, NEW x \in S, NEW F \in [(1 .. top) \X S -> S]
    PROVE  \E f \in [0 .. top -> S] : Recursion(top, x, F, f)
<1> USE DEF Recursion
<1> DEFINE Is(M, f) == Recursion(M, x, F, f)
           T == {M \in 0 .. top : ~\E f \in [0 .. M -> S] : Is(M, f)}
<1> SUFFICES ASSUME T # {} PROVE FALSE
  OBVIOUS
<1>1. T \subseteq Nat
  OBVIOUS
<1>2. PICK M \in T : \A L \in T : M <= L
  BY <1>1, SmallestOne
<1>3. M # 0
  <2> SUFFICES ASSUME M = 0 PROVE FALSE
    OBVIOUS
  <2> DEFINE f == [n \in 0 .. 0 |-> x]
  <2>1. f \in [0 .. 0 -> S] /\ Is(0, f)
    OBVIOUS
  <2> HIDE DEF f
  <2> QED
    BY <2>1
<1>4. M - 1 \in Nat /\ M - 1 \notin T
  BY <1>2, <1>3
<1>5. PICK g \in [0 .. M - 1 -> S] : Is(M - 1, g)
  BY <1>4
<1> DEFINE f == [n \in 0 .. M |-> IF n = M THEN F[<<M, g[M - 1]>>] ELSE g[n]]
<1>6. f \in [0 .. M -> S]
  BY <1>4
<1>7. ASSUME NEW n \in 0 .. M PROVE f[n] = IF n = 0 THEN x ELSE F[<<n, f[n - 1]>>]
  <2>1. CASE n = 0
    <3>1. 0 \in 0 .. M - 1
      BY <1>4
    <3>2. g[0] = x
      BY <3>1, <1>5
    <3> QED
      BY <2>1, <3>2, <1>3
  <2>2. CASE n = M
    <3>1. M - 1 \in 0 .. M /\ M - 1 # M
      BY <1>4
    <3>2. f[M - 1] = g[M - 1]
      BY <3>1
    <3> QED
      BY <2>2, <3>2, <1>3
  <2>3. CASE n # 0 /\ n # M
    <3>1. n \in 0 .. M - 1 /\ n - 1 \in 0 .. M - 1 /\ n - 1 # M /\ n - 1 \in 0 .. M
      BY <2>3, <1>4
    <3>2. g[n] = F[<<n, g[n - 1]>>]
      BY <3>1, <2>3, <1>5
    <3> QED
      BY <2>3, <3>1, <3>2
  <2> QED
    BY <2>1, <2>2, <2>3
<1>8. Is(M, f)
  <2>1. f = [n \in 0 .. M |-> f[n]]
    OBVIOUS
  <2> HIDE DEF f
  <2> QED
    BY <2>1, <1>7
<1> QED
  <2> HIDE DEF f
  <2> QED
    BY <1>6, <1>8
----------------------------------------------------------------------------
\* Varints.
Bytes == 0 .. 2 * VarintBase - 1

\* What a longer varint is made of.
LEMMA Digits ==
    ASSUME NEW n \in Nat, n >= VarintBase
    PROVE  /\ n \div VarintBase \in 0 .. n - 1
           /\ (n % VarintBase) + VarintBase \in Bytes /\ (n % VarintBase) + VarintBase >= VarintBase
           /\ n = (n % VarintBase) + VarintBase * (n \div VarintBase)
<1> DEFINE q == n \div VarintBase
           r == n % VarintBase
<1>0. VarintBase \in Nat \ {0} /\ n \in Int
  OBVIOUS
<1>1. q \in Nat /\ r \in 0 .. VarintBase - 1 /\ n = VarintBase * q + r
  BY <1>0, QuotientOf
<1> HIDE DEF q, r
<1>2. VarintBase * q >= 2 * q
  BY <1>1
<1> DEFINE m == VarintBase * q
<1>3. m \in Nat /\ m >= 2 * q /\ n = m + r
  BY <1>1, <1>2
<1>4. q < n
  <2> HIDE DEF m
  <2> QED
    BY <1>1, <1>3
<1>5. n = r + VarintBase * q
  BY <1>1
<1>6. r + VarintBase \in Bytes /\ r + VarintBase >= VarintBase
  BY <1>1 DEF Bytes
<1> QED
  BY <1>1, <1>4, <1>5, <1>6 DEF q, r

\* f has the varints of the numbers up to M.
Varints(M, f) ==
    f = [n \in 0 .. M |-> IF n < VarintBase THEN <<n>>
                          ELSE <<(n % VarintBase) + VarintBase>> \o f[n \div VarintBase]]

\* There is one for every bound,
LEMMA VarintsExist == \A M \in Nat : \E f : Varints(M, f)
<1> DEFINE T == {M \in Nat : ~\E f : Varints(M, f)}
<1> SUFFICES ASSUME T # {} PROVE FALSE
  OBVIOUS
<1>1. T \subseteq Nat
  OBVIOUS
<1>2. PICK M \in T : \A L \in T : M <= L
  BY <1>1, SmallestOne
<1> DEFINE Code(f, n) == IF n < VarintBase THEN <<n>>
                         ELSE <<(n % VarintBase) + VarintBase>> \o f[n \div VarintBase]
<1>3. \E g : \A n \in 0 .. M - 1 : g[n] = Code(g, n)
  <2>1. CASE M = 0
    BY <2>1
  <2>2. CASE M # 0
    <3>1. M - 1 \in Nat /\ M - 1 \notin T
      BY <1>2, <2>2
    <3>2. PICK g : Varints(M - 1, g)
      BY <3>1
    <3>3. \A n \in 0 .. M - 1 : g[n] = Code(g, n)
      BY <3>2 DEF Varints
    <3> QED
      BY <3>3
  <2> QED
    BY <2>1, <2>2
<1>4. PICK g : \A n \in 0 .. M - 1 : g[n] = Code(g, n)
  BY <1>3
<1> DEFINE f == [n \in 0 .. M |-> IF n = M THEN Code(g, n) ELSE g[n]]
<1>5. ASSUME NEW n \in 0 .. M PROVE f[n] = Code(f, n)
  <2>1. f[n] = Code(g, n)
    <3>1. CASE n = M
      BY <3>1
    <3>2. CASE n # M
      <4>1. n \in 0 .. M - 1
        BY <3>2
      <4> QED
        BY <3>2, <4>1, <1>4
    <3> QED
      BY <3>1, <3>2
  <2>2. CASE n < VarintBase
    BY <2>1, <2>2
  <2>3. CASE n >= VarintBase
    <3>0. n \in Nat
      OBVIOUS
    <3>1. n \div VarintBase \in 0 .. n - 1
      BY <2>3, <3>0, Digits
    <3>2. n \div VarintBase \in 0 .. M /\ n \div VarintBase # M
      BY <3>1
    <3>3. f[n \div VarintBase] = g[n \div VarintBase]
      BY <3>2
    <3> QED
      BY <2>1, <3>3
  <2> QED
    BY <2>2, <2>3
<1>6. Varints(M, f)
  <2>1. f = [n \in 0 .. M |-> f[n]]
    OBVIOUS
  <2> HIDE DEF f
  <2> QED
    BY <2>1, <1>5 DEF Varints
<1> QED
  <2> HIDE DEF f
  <2> QED
    BY <1>6

\* so Varint is what its definition says,
LEMMA VarintIs ==
    ASSUME NEW n \in 0 .. Capacity
    PROVE  Varint[n] = IF n < VarintBase THEN <<n>>
                       ELSE <<(n % VarintBase) + VarintBase>> \o Varint[n \div VarintBase]
<1>1. Varint = CHOOSE f : Varints(Capacity, f)
  BY DEF Varint, Varints
<1>2. Varints(Capacity, Varint)
  BY <1>1, VarintsExist
<1> QED
  BY <1>2 DEF Varints

\* the varint of a longer number is a byte and the varint of its quotient,
LEMMA VarintLong ==
    ASSUME NEW n \in 0 .. Capacity, n >= VarintBase
    PROVE  Varint[n] = <<(n % VarintBase) + VarintBase>> \o Varint[n \div VarintBase]
<1> DEFINE v == <<(n % VarintBase) + VarintBase>> \o Varint[n \div VarintBase]
<1>1. Varint[n] = IF n < VarintBase THEN <<n>> ELSE v
  BY VarintIs
<1> HIDE DEF v
<1>2. ~(n < VarintBase)
  OBVIOUS
<1> QED
  BY <1>1, <1>2 DEF v

\* and every varint is a sequence of bytes that is not empty.
LEMMA VarintType ==
    \A n \in 0 .. Capacity : Varint[n] \in Seq(Bytes) /\ Len(Varint[n]) > 0
<1> DEFINE T == {n \in 0 .. Capacity : ~(Varint[n] \in Seq(Bytes) /\ Len(Varint[n]) > 0)}
<1> SUFFICES ASSUME T # {} PROVE FALSE
  OBVIOUS
<1>1. T \subseteq Nat
  OBVIOUS
<1>2. PICK n \in T : \A m \in T : n <= m
  BY <1>1, SmallestOne
<1>3. n \in Nat /\ n \in 0 .. Capacity /\ ~(Varint[n] \in Seq(Bytes) /\ Len(Varint[n]) > 0)
  OBVIOUS
<1>4. CASE n < VarintBase
  <2>1. Varint[n] = <<n>>
    BY <1>3, <1>4, VarintIs
  <2>2. n \in Bytes
    BY <1>3, <1>4 DEF Bytes
  <2> QED
    BY <1>3, <2>1, <2>2
<1>5. CASE n >= VarintBase
  <2> DEFINE q == n \div VarintBase
             d == (n % VarintBase) + VarintBase
  <2>1. q \in 0 .. n - 1 /\ d \in Bytes
    BY <1>3, <1>5, Digits
  <2>2. Varint[n] = <<d>> \o Varint[q]
    BY <1>3, <1>5, VarintLong
  <2> HIDE DEF q, d
  <2>3. q \in 0 .. Capacity /\ q \notin T
    BY <1>2, <1>3, <2>1
  <2>4. Varint[q] \in Seq(Bytes)
    BY <2>3
  <2> QED
    BY <1>3, <2>1, <2>2, <2>4
<1> QED
  BY <1>3, <1>4, <1>5
----------------------------------------------------------------------------
\* Reading.

\* The bytes of the array from position q on are s.
Holds(data, q, s) == \A i \in 1 .. Len(s) : data[(q + i - 1) % Capacity] = s[i]

\* The range from position q up to e.
Between(q, e) == [offset |-> q % Capacity, length |-> e - q]

\* The arrays.
Arrays == [0 .. Capacity - 1 -> Bytes]

\* The varint in the last n bytes before position e.
VarintBefore(data, e, f, n) ==
    LET byte == data[(e - n) % Capacity]
    IN IF byte < VarintBase THEN [length |-> 1, value |-> byte]
       ELSE IF f[n - 1].length = 0 THEN NoVarint
       ELSE [length |-> f[n - 1].length + 1, value |-> byte - VarintBase + VarintBase * f[n - 1].value]

\* f has the varints before e, of which the one at q is what ReadVarint() returns.
Decodes(data, q, e, f) ==
    /\ f[0] = NoVarint
    /\ \A n \in 1 .. e - q : f[n] = VarintBefore(data, e, f, n)
    /\ ReadVarint(data, Between(q, e)) = IF f[e - q].value < LengthLimit THEN f[e - q] ELSE NoVarint

\* ReadVarint() is the last value of such a function.
LEMMA ReadVarintIs ==
    ASSUME NEW data \in Arrays, NEW q \in Nat, NEW e \in Nat, q <= e
    PROVE  \E f : Decodes(data, q, e, f)
<1> DEFINE l == e - q
           bytes == BytesAt(data, Between(q, e), l)
           S == [length : Nat, value : Int]
           Byte(n) == bytes[l - n + 1]
           Step(n, v) == IF Byte(n) < VarintBase THEN [length |-> 1, value |-> Byte(n)]
                         ELSE IF v.length = 0 THEN NoVarint
                         ELSE [length |-> v.length + 1,
                               value |-> Byte(n) - VarintBase + VarintBase * v.value]
           Is(f) == f = [n \in 0 .. l |-> IF n = 0 THEN NoVarint ELSE Step(n, f[n - 1])]
<1>1. l \in Nat
  OBVIOUS
<1>2. ASSUME NEW n \in 1 .. l PROVE Byte(n) = data[(e - n) % Capacity] /\ Byte(n) \in Bytes
  <2>1. l - n + 1 \in 1 .. l
    OBVIOUS
  <2>2. Byte(n) = data[((q % Capacity) + (l - n + 1) - 1) % Capacity]
    BY <2>1 DEF BytesAt, Between
  <2>3. (q % Capacity) + (l - n + 1) - 1 = (q % Capacity) + (l - n) /\ q + (l - n) = e - n
    BY Remainder
  <2>4. ((q % Capacity) + (l - n)) % Capacity = (q + (l - n)) % Capacity
    <3>1. q \in Int /\ l - n \in Int
      OBVIOUS
    <3> HIDE DEF l
    <3> QED
      BY <3>1, RemainderAdd
  <2>5. Byte(n) = data[(e - n) % Capacity]
    BY <2>2, <2>3, <2>4
  <2>6. e - n \in Int
    OBVIOUS
  <2>7. (e - n) % Capacity \in 0 .. Capacity - 1
    BY <2>6, Remainder
  <2> QED
    BY <2>5, <2>7 DEF Arrays
<1> HIDE DEF l, bytes
<1>3. \E f : Is(f)
  <2> DEFINE F == [a \in (1 .. l) \X S |-> Step(a[1], a[2])]
  <2>1. \A n \in 1 .. l, v \in S : Step(n, v) \in S
    BY <1>2 DEF Bytes, NoVarint
  <2>2. F \in [(1 .. l) \X S -> S]
    BY <2>1
  <2>3. NoVarint \in S
    BY DEF NoVarint
  <2>4. \A n \in 1 .. l, v \in S : F[<<n, v>>] = Step(n, v)
    OBVIOUS
  <2> HIDE DEF F, S
  <2>5. PICK f \in [0 .. l -> S] : f = [n \in 0 .. l |-> IF n = 0 THEN NoVarint ELSE F[<<n, f[n - 1]>>]]
    <3>1. \E f \in [0 .. l -> S] : Recursion(l, NoVarint, F, f)
      BY <1>1, <2>2, <2>3, RecursionExists, Zenon
    <3> QED
      BY <3>1 DEF Recursion
  <2> HIDE DEF Step
  <2>6. \A n \in 0 .. l : n # 0 => F[<<n, f[n - 1]>>] = Step(n, f[n - 1])
    <3> SUFFICES ASSUME NEW n \in 0 .. l, n # 0 PROVE F[<<n, f[n - 1]>>] = Step(n, f[n - 1])
      OBVIOUS
    <3>1. n \in 1 .. l /\ n - 1 \in 0 .. l
      BY <1>1
    <3>2. f[n - 1] \in S
      BY <3>1
    <3> QED
      BY <2>4, <3>1, <3>2, Zenon
  <2>7. Is(f)
    BY <2>5, <2>6
  <2> QED
    BY <2>7
<1> DEFINE f == CHOOSE g : Is(g)
<1>4. Is(f)
  BY <1>3
<1>5. ReadVarint(data, Between(q, e)) = IF f[l].value < LengthLimit THEN f[l] ELSE NoVarint
  BY DEF ReadVarint, Between, l, bytes
<1> HIDE DEF f
<1>6. f[0] = NoVarint
  BY <1>1, <1>4
<1>7. ASSUME NEW n \in 1 .. l PROVE f[n] = VarintBefore(data, e, f, n)
  <2>1. f[n] = Step(n, f[n - 1])
    BY <1>1, <1>4
  <2> QED
    BY <1>2, <2>1 DEF VarintBefore
<1> QED
  BY <1>5, <1>6, <1>7 DEF l, Decodes

\* What was encoded is decoded.
LEMMA ReadsVarint ==
    ASSUME NEW data \in Arrays, NEW q \in Nat, NEW e \in Nat, NEW n \in 0 .. Capacity,
           q + Len(Varint[n]) <= e, Holds(data, q, Varint[n])
    PROVE  ReadVarint(data, Between(q, e)) = [length |-> Len(Varint[n]), value |-> n]
<1>0. Varint[n] \in Seq(Bytes) /\ Len(Varint[n]) \in Nat \ {0} /\ q < e
  BY VarintType
<1>1. PICK f : Decodes(data, q, e, f)
  BY <1>0, ReadVarintIs
<1> DEFINE Good(m) == \A k \in 1 .. e - q :
                        Len(Varint[m]) <= k /\ Holds(data, e - k, Varint[m]) =>
                          f[k] = [length |-> Len(Varint[m]), value |-> m]
           T == {m \in 0 .. Capacity : ~Good(m)}
<1>2. ASSUME T # {} PROVE FALSE
  <2>1. T \subseteq Nat
    OBVIOUS
  <2>2. PICK m \in T : \A j \in T : m <= j
    BY <1>2, <2>1, SmallestOne
  <2>3. m \in 0 .. Capacity /\ m \in Nat /\ ~Good(m)
    OBVIOUS
  <2>4. PICK k \in 1 .. e - q : /\ Len(Varint[m]) <= k /\ Holds(data, e - k, Varint[m])
                                /\ f[k] # [length |-> Len(Varint[m]), value |-> m]
    BY <2>3
  <2>5. Varint[m] \in Seq(Bytes) /\ Len(Varint[m]) \in Nat \ {0}
    BY <2>3, VarintType
  <2>6. data[(e - k) % Capacity] = Varint[m][1]
    <3>1. 1 \in 1 .. Len(Varint[m]) /\ (e - k) + 1 - 1 = e - k
      BY <2>5
    <3> QED
      BY <2>4, <3>1 DEF Holds
  <2>7. f[k] = VarintBefore(data, e, f, k)
    BY <1>1 DEF Decodes
  <2> HIDE DEF T, Good
  <2>8. CASE m < VarintBase
    <3>1. Varint[m] = <<m>>
      BY <2>3, <2>8, VarintIs
    <3> QED
      BY <2>4, <2>6, <2>7, <2>8, <3>1 DEF VarintBefore
  <2>9. CASE m >= VarintBase
    <3> DEFINE j == m \div VarintBase
               d == (m % VarintBase) + VarintBase
    <3>0. /\ j \in 0 .. m - 1 /\ d \in Bytes /\ d >= VarintBase
          /\ m = (m % VarintBase) + VarintBase * j
      BY <2>3, <2>9, Digits
    <3>1. j \in 0 .. m - 1 /\ d \in Bytes /\ d >= VarintBase /\ m = d - VarintBase + VarintBase * j
      <4> DEFINE g == m % VarintBase
                 h == VarintBase * j
      <4>1. h \in Int
        BY <3>0
      <4>2. m = g + h /\ g \in Int /\ d = g + VarintBase
        BY <2>3, <3>0
      <4> HIDE DEF g, h
      <4>3. m = d - VarintBase + h
        BY <4>1, <4>2
      <4> QED
        BY <3>0, <4>3 DEF h
    <3>2. Varint[m] = <<d>> \o Varint[j]
      BY <2>3, <2>9, VarintLong
    <3> HIDE DEF d, j
    <3>3. j \in 0 .. Capacity
      BY <2>3, <3>1
    <3>4. Varint[j] \in Seq(Bytes) /\ Len(Varint[j]) \in Nat \ {0}
      BY <3>3, VarintType
    <3>5. Len(Varint[m]) = Len(Varint[j]) + 1 /\ Varint[m][1] = d
      BY <3>1, <3>2, <3>4
    <3>6. \A i \in 1 .. Len(Varint[j]) : Varint[m][i + 1] = Varint[j][i]
      BY <3>1, <3>2, <3>4
    <3>7. k - 1 \in 1 .. e - q /\ Len(Varint[j]) <= k - 1
      BY <2>4, <3>4, <3>5
    <3>8. Holds(data, e - (k - 1), Varint[j])
      <4> SUFFICES ASSUME NEW i \in 1 .. Len(Varint[j])
                   PROVE  data[(e - (k - 1) + i - 1) % Capacity] = Varint[j][i]
        BY DEF Holds
      <4>1. i + 1 \in 1 .. Len(Varint[m]) /\ e - (k - 1) + i - 1 = (e - k) + (i + 1) - 1
        <5> DEFINE l == Len(Varint[j])
        <5>1. l \in Nat /\ i \in 1 .. l /\ Len(Varint[m]) = l + 1 /\ k \in Int /\ e \in Int
          BY <3>4, <3>5
        <5> HIDE DEF l
        <5> QED
          BY <5>1
      <4>2. data[((e - k) + (i + 1) - 1) % Capacity] = Varint[m][i + 1]
        BY <2>4, <4>1 DEF Holds
      <4> QED
        BY <3>6, <4>1, <4>2
    <3>9. j \notin T
      BY <2>2, <2>3, <3>1
    <3>10. f[k - 1] = [length |-> Len(Varint[j]), value |-> j]
      BY <3>3, <3>7, <3>8, <3>9 DEF T, Good
    <3>11. f[k] = [length |-> Len(Varint[j]) + 1, value |-> d - VarintBase + VarintBase * j]
      BY <2>6, <2>7, <3>1, <3>4, <3>5, <3>10 DEF VarintBefore, Bytes
    <3> QED
      BY <2>4, <3>1, <3>5, <3>11
  <2> QED
    BY <2>3, <2>8, <2>9
<1>3. f[e - q] = [length |-> Len(Varint[n]), value |-> n]
  <2>1. Good(n)
    BY <1>2
  <2>2. e - q \in 1 .. e - q /\ e - (e - q) = q /\ Len(Varint[n]) <= e - q
    BY <1>0
  <2> QED
    BY <2>1, <2>2
<1> QED
  BY <1>1, <1>3 DEF Decodes

\* There is no varint in an empty range, and 0 is one.
LEMMA ReadsEnd ==
    ASSUME NEW data \in Arrays, NEW q \in Nat
    PROVE  ReadVarint(data, Between(q, q)) = NoVarint
<1>1. q <= q /\ q - q = 0
  OBVIOUS
<1>2. PICK f : Decodes(data, q, q, f)
  BY <1>1, ReadVarintIs
<1> QED
  BY <1>1, <1>2 DEF Decodes

\* A byte of 0 is a varint.
LEMMA ReadsZero ==
    ASSUME NEW data \in Arrays, NEW q \in Nat, NEW e \in Nat, q < e, data[q % Capacity] = 0
    PROVE  ReadVarint(data, Between(q, e)) = [length |-> 1, value |-> 0]
<1>1. PICK f : Decodes(data, q, e, f)
  BY ReadVarintIs
<1>2. e - q \in 1 .. e - q /\ e - (e - q) = q
  OBVIOUS
<1>3. data[(e - (e - q)) % Capacity] = 0
  BY <1>2
<1>4. VarintBefore(data, e, f, e - q) = [length |-> 1, value |-> 0]
  BY <1>3 DEF VarintBefore
<1>5. f[e - q] = [length |-> 1, value |-> 0]
  BY <1>1, <1>2, <1>4 DEF Decodes
<1> QED
  BY <1>1, <1>5 DEF Decodes

\* The bytes that a range starts with are read.
LEMMA ReadsBytes ==
    ASSUME NEW data \in Arrays, NEW q \in Nat, NEW e, NEW s \in Seq(Bytes), Holds(data, q, s)
    PROVE  BytesAt(data, Between(q, e), Len(s)) = s
<1>1. ASSUME NEW i \in 1 .. Len(s) PROVE data[((q % Capacity) + i - 1) % Capacity] = s[i]
  <2>1. (q % Capacity) + i - 1 = (q % Capacity) + (i - 1) /\ q + (i - 1) = q + i - 1
    BY Remainder
  <2>0. q \in Int /\ i - 1 \in Int
    OBVIOUS
  <2>2. ((q % Capacity) + (i - 1)) % Capacity = (q + (i - 1)) % Capacity
    BY <2>0, RemainderAdd
  <2> QED
    BY <2>1, <2>2 DEF Holds
<1>2. BytesAt(data, Between(q, e), Len(s)) = [i \in 1 .. Len(s) |-> s[i]]
  BY <1>1 DEF BytesAt, Between
<1> QED
  BY <1>2

\* A range less its first bytes starts later and ends where it did.
LEMMA Advances ==
    ASSUME NEW q \in Nat, NEW e \in Nat, NEW d \in Nat, q + d <= e, e - q < LengthLimit
    PROVE  Advance(Between(q, e), d) = Between(q + d, e)
<1>0. q \in Int /\ d \in Int
  OBVIOUS
<1>1. ((q % Capacity) + d) % Capacity = (q + d) % Capacity
  BY <1>0, RemainderAdd
<1>2. (e - q - d) % LengthLimit = e - (q + d)
  OBVIOUS
<1> QED
  BY <1>1, <1>2 DEF Advance, Between
----------------------------------------------------------------------------
\* Items.

\* The buffers that Push() writes as a whole.
Buffers ==
    {b \in Seq(Bytes) : Len(b) \in 1 .. Capacity /\ RoomFor(b) < Capacity /\ 2 * Len(b) <= Capacity}

\* What a buffer looks like in the array.
Coded(b) == Varint[Len(b)] \o b

\* The i-th buffer of s is to start at position p[i].
Positions(s, p) ==
    /\ s \in Seq(Buffers)
    /\ p \in [1 .. Len(s) + 1 -> Nat]
    /\ \A j \in 1 .. Len(s) : p[j + 1] = p[j] + RoomFor(s[j])

\* The buffers from the k-th one on are in the array.
Items(data, s, p, k) == \A j \in k .. Len(s) : Holds(data, p[j], Coded(s[j]))

\* The lengths of a buffer, of its varint and of both.
LEMMA BufferRoom ==
    ASSUME NEW b \in Buffers
    PROVE  /\ b \in Seq(Bytes) /\ Len(b) \in 1 .. Capacity /\ 2 * Len(b) <= Capacity
           /\ Varint[Len(b)] \in Seq(Bytes) /\ Len(Varint[Len(b)]) \in Nat \ {0}
           /\ RoomFor(b) = Len(Varint[Len(b)]) + Len(b) /\ RoomFor(b) \in 2 .. Capacity - 1
           /\ Coded(b) \in Seq(Bytes) /\ Len(Coded(b)) = RoomFor(b)
<1>1. /\ b \in Seq(Bytes) /\ Len(b) \in 1 .. Capacity /\ 2 * Len(b) <= Capacity
      /\ RoomFor(b) < Capacity
  BY DEF Buffers
<1>2. Len(b) \in 0 .. Capacity
  BY <1>1
<1>3. Varint[Len(b)] \in Seq(Bytes) /\ Len(Varint[Len(b)]) \in Nat \ {0}
  BY <1>2, VarintType
<1>4. RoomFor(b) = Len(Varint[Len(b)]) + Len(b)
  BY DEF RoomFor
<1> QED
  BY <1>1, <1>3, <1>4 DEF Coded

\* An item is held if its varint is, and the buffer after it.
LEMMA HoldsCoded ==
    ASSUME NEW data, NEW q \in Int, NEW b \in Buffers
    PROVE  Holds(data, q, Coded(b)) <=>
             Holds(data, q, Varint[Len(b)]) /\ Holds(data, q + Len(Varint[Len(b)]), b)
<1> DEFINE v == Varint[Len(b)]
<1>1. /\ b \in Seq(Bytes) /\ v \in Seq(Bytes) /\ Len(b) \in Nat /\ Len(v) \in Nat
      /\ Coded(b) = v \o b
  BY BufferRoom DEF Coded
<1> HIDE DEF v
<1>2. Len(Coded(b)) = Len(v) + Len(b)
  BY <1>1
<1>3. \A i \in 1 .. Len(v) : Coded(b)[i] = v[i]
  BY <1>1
<1>4. \A i \in 1 .. Len(b) : Coded(b)[Len(v) + i] = b[i]
  BY <1>1
<1>5. ASSUME Holds(data, q, Coded(b)) PROVE Holds(data, q, v) /\ Holds(data, q + Len(v), b)
  <2>1. ASSUME NEW i \in 1 .. Len(v) PROVE data[(q + i - 1) % Capacity] = v[i]
    <3>1. i \in 1 .. Len(Coded(b))
      BY <1>1, <1>2
    <3> QED
      BY <1>3, <1>5, <3>1 DEF Holds
  <2>2. ASSUME NEW i \in 1 .. Len(b) PROVE data[(q + Len(v) + i - 1) % Capacity] = b[i]
    <3>1. Len(v) + i \in 1 .. Len(Coded(b)) /\ q + (Len(v) + i) - 1 = q + Len(v) + i - 1
      BY <1>1, <1>2
    <3>2. data[(q + (Len(v) + i) - 1) % Capacity] = Coded(b)[Len(v) + i]
      BY <1>5, <3>1 DEF Holds
    <3> QED
      BY <1>4, <3>1, <3>2
  <2> QED
    BY <2>1, <2>2 DEF Holds
<1>6. ASSUME Holds(data, q, v), Holds(data, q + Len(v), b) PROVE Holds(data, q, Coded(b))
  <2> SUFFICES ASSUME NEW i \in 1 .. Len(Coded(b))
               PROVE  data[(q + i - 1) % Capacity] = Coded(b)[i]
    BY DEF Holds
  <2>1. CASE i <= Len(v)
    <3>1. i \in 1 .. Len(v)
      BY <1>1, <1>2, <2>1
    <3> QED
      BY <1>3, <1>6, <3>1 DEF Holds
  <2>2. CASE i > Len(v)
    <3>1. /\ i - Len(v) \in 1 .. Len(b) /\ Len(v) + (i - Len(v)) = i
          /\ q + Len(v) + (i - Len(v)) - 1 = q + i - 1
      BY <1>1, <1>2, <2>2
    <3>2. data[(q + Len(v) + (i - Len(v)) - 1) % Capacity] = b[i - Len(v)]
      BY <1>6, <3>1 DEF Holds
    <3>3. Coded(b)[Len(v) + (i - Len(v))] = b[i - Len(v)]
      BY <1>4, <3>1
    <3> QED
      BY <3>1, <3>2, <3>3
  <2> QED
    BY <1>1, <1>2, <2>1, <2>2
<1> QED
  BY <1>5, <1>6 DEF v

\* Every item takes a byte at least.
LEMMA PositionsGrow ==
    ASSUME NEW s, NEW p, Positions(s, p), NEW j \in 1 .. Len(s) + 1
    PROVE  \A k \in j .. Len(s) + 1 : p[k] >= p[j] + (k - j)
<1>1. Len(s) \in Nat /\ p \in [1 .. Len(s) + 1 -> Nat]
  BY DEF Positions
<1> DEFINE T == {k \in j .. Len(s) + 1 : ~(p[k] >= p[j] + (k - j))}
<1> SUFFICES ASSUME T # {} PROVE FALSE
  OBVIOUS
<1>2. T \subseteq Nat
  BY <1>1
<1>3. PICK k \in T : \A i \in T : k <= i
  BY <1>2, SmallestOne
<1>4. k # j /\ k \in j .. Len(s) + 1 /\ ~(p[k] >= p[j] + (k - j))
  BY <1>1
<1>5. k - 1 \in j .. Len(s) + 1 /\ k - 1 \in 1 .. Len(s) /\ k - 1 \notin T
  BY <1>1, <1>3, <1>4
<1>6. p[k - 1] >= p[j] + (k - 1 - j)
  BY <1>5
<1>7. p[k] = p[k - 1] + RoomFor(s[k - 1])
  <2>1. k - 1 + 1 = k
    BY <1>1
  <2> QED
    BY <1>5, <2>1 DEF Positions
<1>8. RoomFor(s[k - 1]) \in Nat \ {0}
  <2>1. s[k - 1] \in Buffers
    BY <1>5 DEF Positions
  <2> QED
    BY <2>1, BufferRoom
<1>9. p[j] \in Nat /\ p[k - 1] \in Nat /\ p[k] \in Nat /\ k \in Int /\ j \in Int
  BY <1>1, <1>4, <1>5
<1> DEFINE x == p[j]
           y == p[k - 1]
           z == p[k]
           r == RoomFor(s[k - 1])
<1>10. /\ x \in Nat /\ y \in Nat /\ z \in Nat /\ r \in Nat \ {0} /\ y >= x + (k - 1 - j) /\ z = y + r
       /\ ~(z >= x + (k - j))
  BY <1>4, <1>6, <1>7, <1>8, <1>9
<1> HIDE DEF T, x, y, z, r
<1> QED
  BY <1>9, <1>10

\* A position of an item, and of the next one.
LEMMA ItemAt ==
    ASSUME NEW s, NEW p, Positions(s, p), NEW j \in 1 .. Len(s)
    PROVE  /\ s[j] \in Buffers /\ p[j] \in Nat /\ p[j + 1] \in Nat
           /\ p[j + 1] = p[j] + RoomFor(s[j]) /\ p[j + 1] <= p[Len(s) + 1]
           /\ p[Len(s) + 1] \in Nat
<1>1. Len(s) \in Nat /\ p \in [1 .. Len(s) + 1 -> Nat] /\ s \in Seq(Buffers)
  BY DEF Positions
<1>2. /\ j \in 1 .. Len(s) + 1 /\ j + 1 \in 1 .. Len(s) + 1 /\ Len(s) + 1 \in 1 .. Len(s) + 1
      /\ Len(s) + 1 \in j + 1 .. Len(s) + 1
  BY <1>1
<1>3. p[Len(s) + 1] >= p[j + 1] + (Len(s) + 1 - (j + 1))
  BY <1>2, PositionsGrow
<1>4. p[j] \in Nat /\ p[j + 1] \in Nat /\ p[Len(s) + 1] \in Nat
  BY <1>1, <1>2
<1>5. p[j + 1] = p[j] + RoomFor(s[j]) /\ s[j] \in Buffers
  BY <1>1 DEF Positions
<1> QED
  BY <1>1, <1>3, <1>4, <1>5

\* Buffer b is what is read from a range, and next is the range after it.
ItemRead(data, range, b, next) ==
    LET w == Len(Varint[Len(b)])
        rest == Advance(range, w)
    IN /\ ReadVarint(data, range) = [length |-> w, value |-> Len(b)]
       /\ w \in Nat \ {0} /\ Len(b) \in 1 .. rest.length
       /\ BytesAt(data, rest, Len(b)) = b
       /\ Advance(rest, Len(b)) = next
       /\ Advance(range, RoomFor(b)) = next

\* The length of an item is read, and its bytes.
LEMMA ReadsItem ==
    ASSUME NEW data \in Arrays, NEW s, NEW p, Positions(s, p), NEW j \in 1 .. Len(s),
           Holds(data, p[j], Coded(s[j])), NEW e \in Nat, p[Len(s) + 1] <= e, e - p[j] <= Capacity
    PROVE  ItemRead(data, Between(p[j], e), s[j], Between(p[j + 1], e))
<1> DEFINE b == s[j]
           w == Varint[Len(b)]
           q == p[j]
           v == ReadVarint(data, Between(q, e))
           rest == Advance(Between(q, e), Len(w))
<1>1. /\ b \in Buffers /\ q \in Nat /\ p[j + 1] = q + RoomFor(b) /\ p[j + 1] <= e /\ p[j + 1] \in Nat
  BY ItemAt
<1>2. /\ b \in Seq(Bytes) /\ Len(b) \in 1 .. Capacity
      /\ w \in Seq(Bytes) /\ Len(w) \in Nat \ {0} /\ RoomFor(b) = Len(w) + Len(b)
  BY <1>1, BufferRoom
<1>3. Holds(data, q, w) /\ Holds(data, q + Len(w), b)
  <2>1. q \in Int
    BY <1>1
  <2> QED
    BY <1>1, <2>1, HoldsCoded
<1>4. e - q <= Capacity /\ e - q < LengthLimit
  BY <1>1
<1> HIDE DEF b, q
<1>5. v = [length |-> Len(w), value |-> Len(b)]
  <2>1. Len(b) \in 0 .. Capacity /\ q + Len(w) <= e
    BY <1>1, <1>2
  <2> QED
    BY <1>1, <1>3, <2>1, ReadsVarint
<1> HIDE DEF w, v
<1>6. rest = Between(q + Len(w), e)
  <2>1. q + Len(w) <= e /\ Len(w) \in Nat
    BY <1>1, <1>2
  <2>2. Advance(Between(q, e), Len(w)) = Between(q + Len(w), e)
    BY <1>1, <1>4, <2>1, Advances
  <2> QED
    BY <1>5, <2>2
<1> HIDE DEF rest
<1>7. Len(b) \in 1 .. rest.length
  BY <1>1, <1>2, <1>6 DEF Between
<1>8. q + Len(w) \in Nat
  BY <1>1, <1>2
<1>9. BytesAt(data, rest, Len(b)) = b
  BY <1>2, <1>3, <1>6, <1>8, ReadsBytes
<1>10. Advance(rest, Len(b)) = Between(p[j + 1], e)
  <2> DEFINE u == q + Len(w)
  <2>1. u \in Nat /\ Len(b) \in Nat /\ u + Len(b) <= e /\ e - u < LengthLimit /\ u + Len(b) = p[j + 1]
    BY <1>1, <1>2, <1>4
  <2>2. rest = Between(u, e)
    BY <1>6
  <2> HIDE DEF u
  <2>3. Advance(Between(u, e), Len(b)) = Between(u + Len(b), e)
    BY <2>1, Advances
  <2> QED
    BY <2>1, <2>2, <2>3
<1>11. Advance(Between(q, e), RoomFor(b)) = Between(p[j + 1], e)
  <2>1. RoomFor(b) \in Nat /\ q + RoomFor(b) <= e
    BY <1>1, <1>2
  <2>2. Advance(Between(q, e), RoomFor(b)) = Between(q + RoomFor(b), e)
    BY <1>1, <1>4, <2>1, Advances
  <2> QED
    BY <1>1, <2>2
<1> QED
  BY <1>2, <1>5, <1>7, <1>9, <1>10, <1>11, Zenon DEF b, q, w, v, rest, ItemRead

\* Buffers of a sequence, one more at a time.
LEMMA SubSeqSteps ==
    ASSUME NEW s, s \in Seq(Buffers), NEW k \in 1 .. Len(s) + 1
    PROVE  /\ SubSeq(s, k, k - 1) = <<>>
           /\ \A j \in k .. Len(s) : Append(SubSeq(s, k, j - 1), s[j]) = SubSeq(s, k, j)
<1>1. SubSeq(s, k, k - 1) = <<>>
  OBVIOUS
<1>2. ASSUME NEW j \in k .. Len(s) PROVE Append(SubSeq(s, k, j - 1), s[j]) = SubSeq(s, k, j)
  OBVIOUS
<1> QED
  BY <1>1, <1>2

\* The reader pops one item after the other, until it comes to the end or to a length of 0.
LEMMA PopsItems ==
    ASSUME NEW data \in Arrays, NEW s, NEW p, Positions(s, p), NEW k \in 1 .. Len(s) + 1,
           Items(data, s, p, k), NEW e \in Nat, p[Len(s) + 1] <= e, e - p[k] <= Capacity,
           LET v == ReadVarint(data, Between(p[Len(s) + 1], e)) IN v.length = 0 \/ v.value = 0
    PROVE  PopAll(data, Between(p[k], e)) = SubSeq(s, k, Len(s))
<1> DEFINE m == Len(s)
           l == e - p[k]
           Step(before) ==
             LET varint == ReadVarint(data, before.range)
                 rest == Advance(before.range, varint.length)
             IN IF varint.length = 0 \/ varint.value \notin 1 .. rest.length THEN before
                ELSE [items |-> Append(before.items, BytesAt(data, rest, varint.value)),
                      range |-> Advance(rest, varint.value)]
           Is(f) == f = [n \in 0 .. l |-> IF n = 0 THEN [items |-> <<>>, range |-> Between(p[k], e)]
                                          ELSE Step(f[n - 1])]
           J(n) == IF k + n <= m + 1 THEN k + n ELSE m + 1
           Reached(j) == [items |-> SubSeq(s, k, j - 1), range |-> Between(p[j], e)]
           g == [n \in 0 .. l |-> Reached(J(n))]
<1>1. m \in Nat /\ s \in Seq(Buffers) /\ p \in [1 .. m + 1 -> Nat]
  BY DEF Positions
<1>2. /\ p[k] \in Nat /\ p[m + 1] \in Nat /\ p[m + 1] >= p[k] + (m + 1 - k) /\ l \in Nat /\ l >= m + 1 - k
      /\ k \in Int
  <2>1. m + 1 \in 1 .. m + 1 /\ m + 1 \in k .. m + 1
    BY <1>1
  <2>2. p[m + 1] >= p[k] + (m + 1 - k)
    BY <2>1, PositionsGrow
  <2> QED
    BY <1>1, <2>1, <2>2
<1>3. ASSUME NEW j \in k .. m PROVE Step(Reached(j)) = Reached(j + 1)
  <2>1. j \in 1 .. Len(s) /\ Holds(data, p[j], Coded(s[j])) /\ e - p[j] <= Capacity
    <3>1. j \in 1 .. Len(s) /\ j \in k .. Len(s) + 1
      BY <1>1
    <3>2. p[j] >= p[k] + (j - k)
      BY <3>1, PositionsGrow
    <3>3. p[j] \in Nat /\ j \in Int
      BY <1>1, <3>1
    <3> QED
      BY <1>2, <3>1, <3>2, <3>3 DEF Items
  <2> DEFINE w == Len(Varint[Len(s[j])])
             b == s[j]
             rest == Advance(Between(p[j], e), w)
  <2>2. /\ ReadVarint(data, Between(p[j], e)) = [length |-> w, value |-> Len(b)]
        /\ w \in Nat \ {0} /\ Len(b) \in 1 .. rest.length
        /\ BytesAt(data, rest, Len(b)) = b
        /\ Advance(rest, Len(b)) = Between(p[j + 1], e)
    <3>1. ItemRead(data, Between(p[j], e), s[j], Between(p[j + 1], e))
      BY <2>1, ReadsItem
    <3> QED
      BY <3>1 DEF ItemRead
  <2>3. Append(SubSeq(s, k, j - 1), b) = SubSeq(s, k, j)
    BY <1>1, SubSeqSteps
  <2>4. j + 1 - 1 = j
    BY <1>1
  <2> HIDE DEF w, b, rest
  <2>5. Step(Reached(j)) = [items |-> Append(SubSeq(s, k, j - 1), b), range |-> Between(p[j + 1], e)]
    <3> DEFINE v == ReadVarint(data, Reached(j).range)
    <3>1. v.length = w /\ v.value = Len(b) /\ Advance(Reached(j).range, v.length) = rest
      BY <2>2 DEF rest
    <3>2. Reached(j).items = SubSeq(s, k, j - 1)
      OBVIOUS
    <3> HIDE DEF v, Reached
    <3>3. Step(Reached(j)) = [items |-> Append(Reached(j).items, BytesAt(data, rest, v.value)), range |-> Advance(rest, v.value)]
      BY <2>2, <3>1 DEF v
    <3> QED
      BY <2>2, <3>1, <3>2, <3>3
  <2>6. Reached(j + 1) = [items |-> SubSeq(s, k, j), range |-> Between(p[j + 1], e)]
    <3> DEFINE i == j + 1
    <3>1. i - 1 = j
      BY <2>4
    <3> HIDE DEF i
    <3>2. Reached(i) = [items |-> SubSeq(s, k, j), range |-> Between(p[i], e)]
      BY <3>1
    <3> QED
      BY <3>2 DEF i
  <2> HIDE DEF Step, Reached
  <2> QED
    BY <2>3, <2>5, <2>6
<1>4. Step(Reached(m + 1)) = Reached(m + 1)
  <2> DEFINE v == ReadVarint(data, Between(p[m + 1], e))
  <2>1. v.length = 0 \/ v.value = 0
    OBVIOUS
  <2> HIDE DEF v
  <2>2. v.length = 0 \/ v.value \notin 1 .. Advance(Between(p[m + 1], e), v.length).length
    BY <2>1
  <2> QED
    BY <2>2 DEF v
<1>5. Reached(k) = [items |-> <<>>, range |-> Between(p[k], e)]
  BY <1>1, SubSeqSteps
<1> HIDE DEF Step, Reached
<1>6. ASSUME NEW n \in 0 .. l
      PROVE  g[n] = IF n = 0 THEN [items |-> <<>>, range |-> Between(p[k], e)] ELSE Step(g[n - 1])
  <2>0. l \in Nat /\ g[n] = Reached(J(n)) /\ (n # 0 => g[n - 1] = Reached(J(n - 1)))
    BY <1>2
  <2>1. CASE n = 0
    BY <1>1, <1>2, <1>5, <2>0, <2>1
  <2>2. CASE n # 0 /\ k + n <= m + 1
    <3>1. J(n - 1) \in k .. m /\ J(n - 1) + 1 = J(n)
      BY <1>1, <1>2, <2>2
    <3> QED
      BY <1>3, <2>0, <2>2, <3>1
  <2>3. CASE n # 0 /\ k + n > m + 1
    <3>1. J(n - 1) = m + 1 /\ J(n) = m + 1
      <4> HIDE DEF l, m
      <4> QED
        BY <1>1, <1>2, <2>3
    <3> QED
      BY <1>4, <2>0, <2>3, <3>1
  <2> QED
    BY <1>1, <1>2, <2>1, <2>2, <2>3
<1>7. Is(g)
  <2>1. g = [n \in 0 .. l |-> g[n]]
    OBVIOUS
  <2> HIDE DEF g
  <2> QED
    BY <2>1, <1>6
<1> DEFINE f == CHOOSE h : Is(h)
<1>8. Is(f)
  <2> HIDE DEF g
  <2> QED
    BY <1>7
<1>9. PopAll(data, Between(p[k], e)) = f[l].items
  BY DEF PopAll, Between, Step
<1>10. f[l] = g[l]
  <2> HIDE DEF f, g, l
  <2>1. f[0] = g[0]
    BY <1>2, <1>6, <1>8
  <2>2. \A n \in 1 .. l : f[n - 1] = g[n - 1] => f[n] = g[n]
    BY <1>2, <1>6, <1>8
  <2> QED
    BY <1>2, <2>1, <2>2, StepByStep DEF InStepUpTo
<1>11. g[l] = Reached(m + 1)
  <2>1. J(l) = m + 1
    <3> HIDE DEF l, m
    <3> QED
      BY <1>1, <1>2
  <2> QED
    BY <1>2, <2>1
<1>12. Reached(m + 1).items = SubSeq(s, k, m)
  BY <1>1 DEF Reached
<1> QED
  BY <1>9, <1>10, <1>11, <1>12

\* From the j-th item on there is room for needed bytes more, and from no earlier one since
\* the k-th.
RoomFrom(s, p, k, needed, j) ==
    /\ Capacity - (p[Len(s) + 1] - p[j]) >= needed
    /\ j = k \/ Capacity - (p[Len(s) + 1] - p[j - 1]) < needed

\* Push() skips the oldest items, and no more than it must.
LEMMA MakesRoom ==
    ASSUME NEW s, NEW p, Positions(s, p), NEW k \in 1 .. Len(s) + 1, ring.data \in Arrays,
           ring.range = Between(p[k], p[Len(s) + 1]), p[Len(s) + 1] - p[k] <= Capacity,
           Items(ring.data, s, p, k), NEW needed \in 1 .. Capacity
    PROVE  \E j \in k .. Len(s) + 1 :
             /\ RoomFrom(s, p, k, needed, j)
             /\ MakeRoom(needed) = [range |-> Between(p[j], p[Len(s) + 1]),
                                    available |-> Capacity - (p[Len(s) + 1] - p[j])]
<1> DEFINE m == Len(s)
           e == p[m + 1]
           Left(j) == Capacity - (e - p[j])
           Step(before) ==
             LET varint == ReadVarint(ring.data, before.range)
                 skip == varint.length + varint.value
             IN IF before.available >= needed \/ varint.length = 0 THEN before
                ELSE [range |-> Advance(before.range, skip), available |-> before.available + skip]
           Start == [range |-> ring.range, available |-> Capacity - ring.range.length]
           Is(f) == f = [n \in 0 .. needed |-> IF n = 0 THEN Start ELSE Step(f[n - 1])]
           Reached(j) == [range |-> Between(p[j], e), available |-> Left(j)]
<1>1. m \in Nat /\ s \in Seq(Buffers) /\ p \in [1 .. m + 1 -> Nat] /\ k \in 1 .. m + 1 /\ e \in Nat
  BY DEF Positions
<1>2. \A j \in k .. m + 1 : p[j] \in Nat /\ p[j] >= p[k] + (j - k) /\ Left(j) \in Int /\ Left(j) >= j - k
  <2> SUFFICES ASSUME NEW j \in k .. m + 1
               PROVE  p[j] \in Nat /\ p[j] >= p[k] + (j - k) /\ Left(j) \in Int /\ Left(j) >= j - k
    OBVIOUS
  <2>1. p[j] \in Nat /\ p[k] \in Nat /\ j \in Int /\ k \in Int
    BY <1>1
  <2>2. p[j] >= p[k] + (j - k)
    BY PositionsGrow
  <2>3. e - p[k] <= Capacity
    OBVIOUS
  <2> HIDE DEF e
  <2> QED
    BY <1>1, <2>1, <2>2, <2>3
<1> DEFINE T == {j \in k .. m + 1 : Left(j) >= needed}
<1>3. T \subseteq Nat /\ m + 1 \in T
  <2>1. Left(m + 1) >= needed /\ m + 1 \in k .. m + 1
    BY <1>1
  <2> HIDE DEF Left
  <2> QED
    BY <1>1, <2>1
<1>4. PICK j \in T : \A i \in T : j <= i
  BY <1>3, SmallestOne
<1>5. /\ j \in k .. m + 1 /\ j \in Int /\ k \in Int /\ Left(j) >= needed
      /\ \A i \in k .. j - 1 : i \in k .. m /\ Left(i) < needed
  <2> HIDE DEF Left
  <2>1. j \in k .. m + 1 /\ j \in Int /\ k \in Int /\ Left(j) >= needed
    BY <1>1
  <2>2. ASSUME NEW i \in k .. j - 1 PROVE i \in k .. m /\ Left(i) < needed
    <3>1. i \in k .. m /\ i \in k .. m + 1 /\ ~(j <= i)
      BY <1>1, <2>1
    <3>2. i \notin T
      BY <1>4, <3>1
    <3>3. ~(Left(i) >= needed) /\ Left(i) \in Int
      BY <1>2, <3>1, <3>2
    <3> QED
      BY <3>1, <3>3
  <2> QED
    BY <2>1, <2>2
<1>6. j - k <= needed
  <2>1. CASE j = k
    BY <1>5, <2>1
  <2>2. CASE j # k
    <3>1. j - 1 \in k .. j - 1 /\ j - 1 \in k .. m + 1
      BY <1>1, <1>5, <2>2
    <3>2. Left(j - 1) \in Int /\ Left(j - 1) >= j - 1 - k /\ Left(j - 1) < needed
      BY <1>2, <1>5, <3>1
    <3> HIDE DEF Left
    <3> QED
      BY <1>5, <3>2
  <2> QED
    BY <2>1, <2>2
<1>7. ASSUME NEW i \in k .. j - 1 PROVE Step(Reached(i)) = Reached(i + 1)
  <2>1. i \in 1 .. Len(s) /\ i \in k .. m + 1 /\ Left(i) < needed /\ i \in k .. m
    BY <1>1, <1>5
  <2>2. p[m + 1] <= e /\ e - p[i] <= Capacity
    <3>1. p[k] \in Nat /\ p[i] \in Nat /\ p[i] >= p[k] + (i - k) /\ e - p[k] <= Capacity /\ i >= k /\ i \in Int
      BY <1>1, <1>2, <2>1
    <3> QED
      BY <1>1, <1>5, <3>1
  <2>3. Holds(ring.data, p[i], Coded(s[i]))
    BY <2>1 DEF Items
  <2>4. ItemRead(ring.data, Between(p[i], e), s[i], Between(p[i + 1], e))
    <3> HIDE DEF e
    <3> QED
      BY <1>1, <2>1, <2>2, <2>3, ReadsItem
  <2> DEFINE w == Len(Varint[Len(s[i])])
             v == ReadVarint(ring.data, Between(p[i], e))
             skip == v.length + v.value
  <2>5. v = [length |-> w, value |-> Len(s[i])] /\ w \in Nat \ {0} /\ RoomFor(s[i]) = w + Len(s[i])
        /\ Advance(Between(p[i], e), RoomFor(s[i])) = Between(p[i + 1], e)
    BY <2>4 DEF ItemRead, RoomFor
  <2>6. v.length # 0 /\ skip = RoomFor(s[i])
    <3> HIDE DEF w, v
    <3> QED
      BY <2>5
  <2>7. Left(i) + RoomFor(s[i]) = Left(i + 1)
    <3>1. /\ p[i] \in Nat /\ p[i + 1] \in Nat /\ RoomFor(s[i]) \in Nat /\ p[i + 1] = p[i] + RoomFor(s[i])
      BY <2>1, ItemAt, BufferRoom
    <3> HIDE DEF e
    <3> QED
      BY <1>1, <3>1
  <2>8. ~(Left(i) >= needed)
    <3>1. Left(i) \in Int
      BY <1>2, <2>1
    <3> HIDE DEF Left
    <3> QED
      BY <2>1, <3>1
  <2>9. Step(Reached(i)) = [range |-> Advance(Between(p[i], e), skip), available |-> Left(i) + skip]
    <3>1. Reached(i).range = Between(p[i], e) /\ Reached(i).available = Left(i)
      OBVIOUS
    <3> HIDE DEF Reached, e, Left
    <3> QED
      BY <2>6, <2>8, <3>1
  <2> HIDE DEF Step, v, skip, Left
  <2> QED
    BY <2>5, <2>6, <2>7, <2>9
<1>8. Step(Reached(j)) = Reached(j)
  <2>1. Reached(j).available >= needed
    BY <1>5
  <2> HIDE DEF Reached
  <2> QED
    BY <2>1
<1>9. Start = Reached(k)
  BY <1>1 DEF Between
<1> DEFINE J(n) == IF k + n <= j THEN k + n ELSE j
           g == [n \in 0 .. needed |-> Reached(J(n))]
<1> HIDE DEF Step, Reached, Start, Left, e, T
<1>10. ASSUME NEW n \in 0 .. needed
       PROVE  g[n] = IF n = 0 THEN Start ELSE Step(g[n - 1])
  <2>0. g[n] = Reached(J(n)) /\ (n # 0 => g[n - 1] = Reached(J(n - 1)))
    OBVIOUS
  <2>1. CASE n = 0
    <3>1. J(n) = k
      BY <1>5, <2>1
    <3> QED
      BY <1>9, <2>0, <2>1, <3>1
  <2>2. CASE n # 0 /\ k + n <= j
    <3>1. J(n - 1) \in k .. j - 1 /\ J(n - 1) + 1 = J(n)
      BY <1>5, <2>2
    <3> QED
      BY <1>7, <2>0, <2>2, <3>1
  <2>3. CASE n # 0 /\ k + n > j
    <3>1. J(n - 1) = j /\ J(n) = j
      BY <1>5, <2>3
    <3> QED
      BY <1>8, <2>0, <2>3, <3>1
  <2> QED
    BY <1>5, <2>1, <2>2, <2>3
<1>11. Is(g)
  <2>1. g = [n \in 0 .. needed |-> g[n]]
    OBVIOUS
  <2> HIDE DEF g
  <2> QED
    BY <2>1, <1>10
<1> DEFINE f == CHOOSE h : Is(h)
<1>12. Is(f)
  <2> HIDE DEF g
  <2> QED
    BY <1>11
<1>13. MakeRoom(needed) = f[needed]
  BY DEF MakeRoom, Step, Start
<1>14. f[needed] = g[needed]
  <2> HIDE DEF f, g
  <2>1. f[0] = g[0]
    BY <1>10, <1>12
  <2>2. \A n \in 1 .. needed : f[n - 1] = g[n - 1] => f[n] = g[n]
    BY <1>10, <1>12
  <2> QED
    BY <2>1, <2>2, StepByStep DEF InStepUpTo
<1>15. g[needed] = Reached(j)
  <2>1. J(needed) = j
    BY <1>5, <1>6
  <2> QED
    BY <2>1
<1>16. MakeRoom(needed) = [range |-> Between(p[j], e), available |-> Capacity - (e - p[j])]
  BY <1>13, <1>14, <1>15 DEF Reached, Left
<1>17. RoomFrom(s, p, k, needed, j)
  <2>1. j # k => j - 1 \in k .. j - 1
    BY <1>5
  <2> QED
    BY <1>5, <2>1 DEF RoomFrom, Left, e
<1> QED
  BY <1>5, <1>16, <1>17 DEF e

\* The newest buffers that fit are those from the k-th one on, if the one before does not.
LEMMA NewestIs ==
    ASSUME NEW s, NEW p, Positions(s, p), NEW k \in 1 .. Len(s) + 1,
           p[Len(s) + 1] - p[k] <= Capacity, k = 1 \/ p[Len(s) + 1] - p[k - 1] > Capacity
    PROVE  Newest(s) = SubSeq(s, k, Len(s))
<1> DEFINE m == Len(s)
           e == p[m + 1]
           Is(f) == f = [n \in 0 .. m |-> IF n = 0 THEN 0 ELSE f[n - 1] + RoomFor(s[m - n + 1])]
           g == [n \in 0 .. m |-> e - p[m + 1 - n]]
<1>1. m \in Nat /\ s \in Seq(Buffers) /\ p \in [1 .. m + 1 -> Nat] /\ e \in Nat /\ k \in 1 .. m + 1 /\ k \in Int
  BY DEF Positions
<1>2. ASSUME NEW n \in 0 .. m PROVE g[n] = IF n = 0 THEN 0 ELSE g[n - 1] + RoomFor(s[m - n + 1])
  <2>1. CASE n = 0
    BY <1>1, <2>1
  <2>2. CASE n # 0
    <3> DEFINE j == m - n + 1
    <3>1. j \in 1 .. Len(s) /\ m + 1 - n = j /\ m + 1 - (n - 1) = j + 1 /\ n - 1 \in 0 .. m
      BY <1>1, <2>2
    <3> HIDE DEF j
    <3>2. p[j] \in Nat /\ p[j + 1] \in Nat /\ RoomFor(s[j]) \in Nat /\ p[j + 1] = p[j] + RoomFor(s[j])
      BY <3>1, ItemAt, BufferRoom
    <3>3. g[n] = e - p[j] /\ g[n - 1] = e - p[j + 1]
      BY <3>1
    <3> HIDE DEF g, e
    <3>4. g[n] = g[n - 1] + RoomFor(s[j])
      BY <1>1, <3>2, <3>3
    <3> QED
      BY <2>2, <3>4 DEF j
  <2> QED
    BY <2>1, <2>2
<1>3. Is(g)
  <2>1. g = [n \in 0 .. m |-> g[n]]
    OBVIOUS
  <2> HIDE DEF g
  <2> QED
    BY <2>1, <1>2
<1> DEFINE f == CHOOSE h : Is(h)
<1>4. Is(f)
  <2> HIDE DEF g
  <2> QED
    BY <1>3
<1>5. ASSUME NEW n \in 0 .. m PROVE f[n] = e - p[m + 1 - n]
  <2> HIDE DEF f
  <2>1. f[n] = g[n]
    <3> HIDE DEF g
    <3>1. f[0] = g[0]
      BY <1>1, <1>2, <1>4
    <3>2. \A i \in 1 .. n : f[i - 1] = g[i - 1] => f[i] = g[i]
      <4> SUFFICES ASSUME NEW i \in 1 .. n, f[i - 1] = g[i - 1] PROVE f[i] = g[i]
        OBVIOUS
      <4>1. i \in 0 .. m /\ i # 0
        BY <1>1
      <4> QED
        BY <1>2, <1>4, <4>1
    <3>3. n \in Nat
      BY <1>1
    <3> QED
      BY <3>1, <3>2, <3>3, StepByStep DEF InStepUpTo
  <2> QED
    BY <2>1
<1> DEFINE S == {n \in 0 .. m : f[n] <= Capacity}
<1>6. Newest(s) = SubSeq(s, m - Max(S) + 1, m)
  BY DEF Newest
<1> HIDE DEF f
<1>7. m + 1 - k \in S
  <2>1. m + 1 - k \in 0 .. m /\ m + 1 - (m + 1 - k) = k
    BY <1>1
  <2>2. f[m + 1 - k] = e - p[k]
    BY <1>5, <2>1
  <2> QED
    BY <2>1, <2>2
<1>8. ASSUME NEW n \in S PROVE n <= m + 1 - k /\ n \in Int
  <2> SUFFICES ASSUME n > m + 1 - k PROVE FALSE
    BY <1>1
  <2>1. n \in 0 .. m /\ f[n] = e - p[m + 1 - n] /\ f[n] <= Capacity
    BY <1>5
  <2> DEFINE j == m + 1 - n
  <2>2. j \in 1 .. k - 1 /\ k # 1 /\ j \in 1 .. Len(s) + 1 /\ k - 1 \in j .. Len(s) + 1 /\ k - 1 \in 1 .. m + 1
    BY <1>1, <2>1
  <2>3. p[k - 1] >= p[j] + (k - 1 - j)
    BY <2>2, PositionsGrow
  <2>4. p[j] \in Nat /\ p[k - 1] \in Nat /\ j \in Int /\ e - p[k - 1] > Capacity
    <3>1. j \in 1 .. m + 1 /\ j \in Int
      BY <1>1, <2>2
    <3>2. p[j] \in Nat /\ p[k - 1] \in Nat
      BY <1>1, <2>2, <3>1
    <3> QED
      BY <2>2, <3>1, <3>2
  <2> HIDE DEF j, e
  <2>5. e - p[j] <= Capacity
    BY <2>1 DEF j
  <2> QED
    BY <1>1, <2>2, <2>3, <2>4, <2>5
<1>9. Max(S) = m + 1 - k
  <2> HIDE DEF S
  <2>1. \E x \in S : \A y \in S : x >= y
    BY <1>1, <1>7, <1>8
  <2>2. Max(S) \in S /\ \A y \in S : Max(S) >= y
    BY <2>1 DEF Max
  <2>3. Max(S) >= m + 1 - k /\ Max(S) <= m + 1 - k /\ Max(S) \in Int
    BY <1>7, <1>8, <2>2
  <2> QED
    BY <1>1, <2>3
<1>10. m - (m + 1 - k) + 1 = k
  BY <1>1
<1> QED
  <2> HIDE DEF S
  <2> QED
    BY <1>6, <1>9, <1>10
----------------------------------------------------------------------------
\* Writing.
LEMMA WritesThem ==
    ASSUME NEW data \in Arrays, NEW w \in Nat, NEW t \in Seq(Bytes), Len(t) <= Capacity,
           NEW range, range.offset = w % Capacity
    PROVE  /\ WriteBytes(t, data, range) \in Arrays
           /\ Holds(WriteBytes(t, data, range), w, t)
           /\ \A q \in Nat, u \in Seq(Bytes) :
                Holds(data, q, u) /\ q + Len(u) <= w /\ w + Len(t) <= q + Capacity =>
                  Holds(WriteBytes(t, data, range), q, u)
<1> DEFINE new == WriteBytes(t, data, range)
           Far(x) == ((x % Capacity) - (w % Capacity)) % Capacity
<1>0. Len(t) \in Nat /\ DOMAIN data = 0 .. Capacity - 1
  BY DEF Arrays
<1>1. \A i \in 0 .. Capacity - 1 :
        LET n == (i - (w % Capacity)) % Capacity
        IN new[i] = IF n < Len(t) THEN t[n + 1] ELSE data[i]
  BY <1>0 DEF WriteBytes
<1>2. new \in Arrays
  <2>1. ASSUME NEW i \in 0 .. Capacity - 1 PROVE new[i] \in Bytes
    <3> DEFINE n == (i - (w % Capacity)) % Capacity
    <3>1. i - (w % Capacity) \in Int
      BY Remainder
    <3>2. n \in Nat
      BY <3>1, Remainder
    <3>3. new[i] = IF n < Len(t) THEN t[n + 1] ELSE data[i]
      BY <1>1
    <3> HIDE DEF n, new
    <3>4. n < Len(t) => n + 1 \in 1 .. Len(t)
      BY <1>0, <3>2
    <3>5. n < Len(t) => t[n + 1] \in Bytes
      BY <3>4
    <3> QED
      BY <3>3, <3>5 DEF Arrays
  <2>2. new = [i \in 0 .. Capacity - 1 |-> new[i]]
    BY <1>0 DEF WriteBytes
  <2> HIDE DEF new
  <2> QED
    BY <2>1, <2>2 DEF Arrays
<1>3. ASSUME NEW x \in Int, Far(x) \in Nat
      PROVE  new[x % Capacity] = IF Far(x) < Len(t) THEN t[Far(x) + 1] ELSE data[x % Capacity]
  <2>1. x % Capacity \in 0 .. Capacity - 1
    BY Remainder
  <2> HIDE DEF new
  <2> QED
    BY <1>1, <2>1
<1> HIDE DEF new
<1>4. Holds(new, w, t)
  <2> SUFFICES ASSUME NEW i \in 1 .. Len(t) PROVE new[(w + i - 1) % Capacity] = t[i]
    BY DEF Holds
  <2> DEFINE d == i - 1
  <2>1. d \in 0 .. Capacity - 1 /\ d < Len(t) /\ d + 1 = i /\ w + i - 1 = w + d /\ w \in Int /\ w + d \in Int
    BY <1>0
  <2> HIDE DEF d
  <2>2. Far(w + d) = d
    BY <2>1, RemainderBack
  <2>3. new[(w + d) % Capacity] = t[d + 1]
    <3>1. Far(w + d) \in Nat
      BY <2>1, <2>2
    <3> QED
      BY <1>3, <2>1, <2>2, <3>1
  <2> QED
    BY <2>1, <2>3
<1>5. ASSUME NEW q \in Nat, NEW u \in Seq(Bytes), Holds(data, q, u),
             q + Len(u) <= w, w + Len(t) <= q + Capacity
      PROVE  Holds(new, q, u)
  <2> SUFFICES ASSUME NEW i \in 1 .. Len(u) PROVE new[(q + i - 1) % Capacity] = u[i]
    BY DEF Holds
  <2> DEFINE x == q + i - 1
             d == x + Capacity - w
  <2>1. x \in Int /\ d \in 0 .. Capacity - 1 /\ d >= Len(t) /\ w + d = x + Capacity /\ w \in Int
    BY <1>0, <1>5
  <2>2. data[x % Capacity] = u[i]
    BY <1>5 DEF Holds
  <2> HIDE DEF d, x
  <2>3. (x + Capacity) % Capacity = x % Capacity
    <3> DEFINE r == x % Capacity
               y == x + Capacity
    <3>1. PICK c \in Int : x = Capacity * c + (x % Capacity)
      BY <2>1, Quotient
    <3>2. x = Capacity * c + r /\ r \in 0 .. Capacity - 1
      BY <2>1, <3>1, Remainder
    <3> HIDE DEF r
    <3>3. y \in Int /\ c + 1 \in Int /\ y = Capacity * (c + 1) + r
      BY <2>1, <3>2
    <3> HIDE DEF y
    <3>4. y % Capacity = r
      BY <3>2, <3>3, RemainderIs
    <3> QED
      BY <3>4 DEF y, r
  <2>4. (((w + d) % Capacity) - (w % Capacity)) % Capacity = d
    BY <2>1, RemainderBack
  <2>5. Far(x) = d
    BY <2>1, <2>3, <2>4
  <2>6. d \in Nat /\ ~(d < Len(t))
    BY <1>0, <2>1
  <2>7. new[x % Capacity] = data[x % Capacity]
    BY <1>3, <2>1, <2>5, <2>6
  <2> QED
    BY <2>2, <2>7 DEF x
<1> QED
  BY <1>2, <1>4, <1>5 DEF new
----------------------------------------------------------------------------
\* What the handler takes of the array has all of the range, and ends with it if it is not
\* the whole array.
Seen(q, e) == Min({Capacity, (q % Capacity) + (e - q)})

\* size_ is within the array, and no position of the range is beyond it.
LEMMA SeenIs ==
    ASSUME NEW q \in Nat, NEW e \in Nat, q <= e, e - q <= Capacity
    PROVE  /\ Seen(q, e) \in 0 .. Capacity
           /\ \A x \in q .. e - 1 : x % Capacity < Seen(q, e)
           /\ Seen(q, e) # Capacity => e % Capacity = Seen(q, e)
<1> DEFINE o == q % Capacity
           l == e - q
<1>1. o \in 0 .. Capacity - 1 /\ l \in Nat /\ q \in Int
  BY Remainder
<1>2. Seen(q, e) = IF o + l <= Capacity THEN o + l ELSE Capacity
  <2>1. Seen(q, e) = Min({Capacity, o + l})
    BY DEF Seen
  <2> HIDE DEF o, l
  <2>2. \E x \in {Capacity, o + l} : \A y \in {Capacity, o + l} : x <= y
    BY <1>1
  <2> QED
    BY <1>1, <2>1, <2>2 DEF Min
<1>3. ASSUME NEW x \in q .. e - 1 PROVE x % Capacity < Seen(q, e)
  <2> DEFINE d == x - q
  <2>1. d \in Nat /\ d < l /\ q + d = x /\ x \in Int
    OBVIOUS
  <2>2. x % Capacity \in 0 .. Capacity - 1
    BY <2>1, Remainder
  <2> HIDE DEF l, d
  <2>3. CASE o + l <= Capacity
    <3>1. o + d < Capacity
      BY <1>1, <2>1, <2>3
    <3>2. (q + d) % Capacity = o + d
      BY <1>1, <2>1, <3>1, RemainderShort
    <3> HIDE DEF o
    <3> QED
      BY <1>1, <1>2, <2>1, <2>3, <3>2
  <2>4. CASE ~(o + l <= Capacity)
    BY <1>2, <2>2, <2>4
  <2> QED
    BY <2>3, <2>4
<1>4. ASSUME Seen(q, e) # Capacity PROVE e % Capacity = Seen(q, e)
  <2>1. o + l < Capacity /\ Seen(q, e) = o + l /\ q + l = e
    BY <1>1, <1>2, <1>4
  <2>2. (q + l) % Capacity = o + l
    <3> HIDE DEF l
    <3> QED
      BY <1>1, <2>1, RemainderShort
  <2> QED
    BY <2>1, <2>2
<1> QED
  BY <1>1, <1>2, <1>3, <1>4

----------------------------------------------------------------------------
\* The invariant.
Ranges == [offset : 0 .. Capacity - 1, length : Nat]

\* The types, with the records whole.
RingTypes ==
    /\ ring \in [data : Arrays, range : Ranges]
    /\ push \in [pc : {"idle", "length", "bytes", "header", "size"}, buffer : Seq(Bytes),
                 readable : Ranges, write : Ranges]

\* Where the next item is to be written.
End(p) == p[Len(pushed) + 1]

\* Buffer i of pushed was written at position p[i] of an endless array, of which the last
\* Capacity bytes are kept.  The range has the buffers from the k-th one on, and no earlier
\* one would fit; those from the j-th one on will stay.
Layout(p, k, j) ==
    /\ Positions(pushed, p)
    /\ k \in 1 .. Len(pushed) + 1 /\ j \in k .. Len(pushed) + 1
    /\ End(p) - p[k] <= Capacity
    /\ k = 1 \/ End(p) - p[k - 1] > Capacity
    /\ ringSize = Seen(p[k], End(p))
    /\ Items(ring.data, pushed, p, j)

\* Where a Push() is tells what it has written.
Pushing(p, k, j) ==
    LET e == End(p)
        b == push.buffer
        varint == Varint[Len(b)]
    IN /\ push.pc = "idle" => j = k
       /\ push.pc # "idle" =>
            /\ b \in Buffers
            /\ push.readable = Between(p[j], e)
            /\ RoomFrom(pushed, p, k, RoomFor(b), j)
       /\ push.pc # "size" => ring.range = Between(p[k], e) /\ writeOffset = e % Capacity
       /\ push.pc = "length" => push.write = Between(e, e + RoomFor(b))
       /\ push.pc = "bytes" =>
            push.write = Between(e + Len(varint), e + RoomFor(b)) /\ Holds(ring.data, e, varint)
       /\ push.pc \in {"header", "size"} => Holds(ring.data, e, Coded(b))
       /\ push.pc = "header" => push.write.offset = (e + RoomFor(b)) % Capacity
       /\ push.pc = "size" =>
            ring.range = Between(p[j], e + RoomFor(b)) /\ writeOffset = (e + RoomFor(b)) % Capacity

\* There is a layout.
RingInv == RingTypes /\ \E p, k, j : Layout(p, k, j) /\ Pushing(p, k, j)

\* What Push() makes room for, WriteBytesToRingBuffer() writes: its check of the first byte
\* of the varint, and that of the buffer.  The theorems are about lengths like that; one run
\* shows what becomes of the others.
WholeBuffers ==
    \A n \in PushLengths \cap (1 .. Capacity) :
      Len(Varint[n]) + n <= Capacity =>
        Fits(1, [length |-> Len(Varint[n]) + n]) /\ Fits(n, [length |-> n])

\* A range between two positions is one of the header's.
LEMMA BetweenType ==
    ASSUME NEW q \in Nat, NEW e \in Nat, q <= e
    PROVE  Between(q, e) \in Ranges
<1>1. q % Capacity \in 0 .. Capacity - 1
  BY Remainder
<1>2. e - q \in Nat
  OBVIOUS
<1> QED
  BY <1>1, <1>2 DEF Between, Ranges

\* The new object is laid out.
LEMMA RingStart == RingInit => RingInv
<1> SUFFICES ASSUME RingInit PROVE RingInv
  OBVIOUS
<1> USE DEF RingInit
<1> DEFINE p == [i \in {1} |-> 0]
<1>1. /\ pushed = <<>> /\ Len(pushed) = 0 /\ push.pc = "idle" /\ writeOffset = 0 /\ ringSize = 0
      /\ ring.range = [offset |-> 0, length |-> 0]
  BY DEF NoPush
<1>2. 0 % Capacity = 0 /\ 0 \in Bytes
  BY DEF Bytes
<1>3. RingTypes
  <2>1. [offset |-> 0, length |-> 0] \in Ranges
    BY DEF Ranges
  <2>2. ring.data \in Arrays
    BY <1>2 DEF Arrays
  <2> QED
    BY <2>1, <2>2 DEF RingTypes, NoPush
<1>4. Between(0, 0) = [offset |-> 0, length |-> 0]
  BY <1>2 DEF Between
<1>5. Positions(pushed, p)
  BY <1>1 DEF Positions
<1>6. End(p) = 0 /\ p[1] = 0
  BY <1>1 DEF End
<1>7. Seen(0, 0) = 0
  <2>1. \E x \in {Capacity, 0} : \A y \in {Capacity, 0} : x <= y
    OBVIOUS
  <2>2. Min({Capacity, 0}) = 0
    BY <2>1 DEF Min
  <2> QED
    <3>1. (0 % Capacity) + (0 - 0) = 0
      BY <1>2
    <3> QED
      BY <2>2, <3>1 DEF Seen
<1>8. Items(ring.data, pushed, p, 1)
  BY <1>1 DEF Items
<1> HIDE DEF p
<1>9. Layout(p, 1, 1)
  BY <1>1, <1>5, <1>6, <1>7, <1>8 DEF Layout
<1>10. Pushing(p, 1, 1)
  BY <1>1, <1>2, <1>4, <1>6 DEF Pushing
<1> QED
  BY <1>3, <1>9, <1>10 DEF RingInv

\* What a layout says about numbers.
LEMMA LayoutFacts ==
    ASSUME NEW p, NEW k, NEW j, Layout(p, k, j)
    PROVE  /\ Len(pushed) \in Nat /\ k \in 1 .. Len(pushed) + 1 /\ j \in 1 .. Len(pushed) + 1
           /\ k \in Int /\ j \in Int /\ k <= j
           /\ p[k] \in Nat /\ p[j] \in Nat /\ End(p) \in Nat
           /\ p[j] >= p[k] + (j - k) /\ p[j] <= End(p) /\ End(p) - p[j] <= Capacity
           /\ p[k] <= p[j] /\ p[k] <= End(p) /\ End(p) - p[k] <= Capacity
<1>1. /\ Len(pushed) \in Nat /\ k \in 1 .. Len(pushed) + 1 /\ j \in 1 .. Len(pushed) + 1
      /\ k \in Int /\ j \in Int /\ k <= j /\ j \in k .. Len(pushed) + 1
      /\ Positions(pushed, p) /\ p \in [1 .. Len(pushed) + 1 -> Nat]
      /\ Len(pushed) + 1 \in j .. Len(pushed) + 1 /\ End(p) - p[k] <= Capacity
  BY DEF Layout, Positions
<1>2. p[j] >= p[k] + (j - k)
  BY <1>1, PositionsGrow
<1>3. End(p) >= p[j] + (Len(pushed) + 1 - j)
  <2>1. \A x \in j .. Len(pushed) + 1 : p[x] >= p[j] + (x - j)
    BY <1>1, PositionsGrow
  <2> QED
    BY <1>1, <2>1 DEF End
<1>4. p[k] \in Nat /\ p[j] \in Nat /\ End(p) \in Nat
  BY <1>1 DEF End
<1> QED
  BY <1>1, <1>2, <1>3, <1>4

\* What is written after the last item leaves those alone that will stay.
LEMMA KeepsItems ==
    ASSUME NEW p, NEW k, NEW j, Layout(p, k, j), ring.data \in Arrays,
           NEW b \in Buffers, RoomFrom(pushed, p, k, RoomFor(b), j),
           NEW w \in Nat, End(p) <= w, NEW t \in Seq(Bytes), w + Len(t) <= End(p) + RoomFor(b),
           NEW range, range.offset = w % Capacity
    PROVE  Items(WriteBytes(t, ring.data, range), pushed, p, j)
<1> SUFFICES ASSUME NEW i \in j .. Len(pushed)
             PROVE  Holds(WriteBytes(t, ring.data, range), p[i], Coded(pushed[i]))
  BY DEF Items
<1> DEFINE u == Coded(pushed[i])
<1>1. /\ Len(pushed) \in Nat /\ j \in 1 .. Len(pushed) + 1 /\ j \in Int
      /\ p[j] \in Nat /\ End(p) \in Nat /\ p[j] <= End(p)
  BY LayoutFacts
<1>2. i \in 1 .. Len(pushed) /\ i \in j .. Len(pushed) + 1 /\ i >= j /\ i \in Int
  BY <1>1
<1>3. Positions(pushed, p) /\ Holds(ring.data, p[i], u)
  BY DEF Layout, Items
<1>4. /\ pushed[i] \in Buffers /\ p[i] \in Nat /\ p[i + 1] = p[i] + RoomFor(pushed[i])
      /\ p[i + 1] <= End(p)
  BY <1>2, <1>3, ItemAt DEF End
<1>5. u \in Seq(Bytes) /\ Len(u) = RoomFor(pushed[i]) /\ RoomFor(pushed[i]) \in Nat
  BY <1>4, BufferRoom
<1>6. p[i] >= p[j] + (i - j)
  BY <1>1, <1>2, <1>3, PositionsGrow
<1>7. RoomFor(b) \in 2 .. Capacity - 1 /\ Len(t) \in Nat /\ Capacity - (End(p) - p[j]) >= RoomFor(b)
  BY BufferRoom DEF RoomFrom, End
<1> HIDE DEF u
<1>8. p[i] + Len(u) <= w
  BY <1>1, <1>4, <1>5
<1>9. w + Len(t) <= p[i] + Capacity /\ Len(t) <= Capacity
  <2>1. p[i] >= p[j]
    BY <1>1, <1>2, <1>4, <1>6
  <2> DEFINE r == RoomFor(b)
             e == End(p)
             l == Len(t)
             x == p[i]
             y == p[j]
  <2>2. /\ r \in 2 .. Capacity - 1 /\ e \in Nat /\ l \in Nat /\ x \in Nat /\ y \in Nat /\ x >= y
        /\ e <= w /\ w + l <= e + r /\ Capacity - (e - y) >= r
    BY <1>1, <1>4, <1>7, <2>1
  <2> HIDE DEF r, e, l, x, y
  <2>3. w + l <= x + Capacity /\ l <= Capacity
    BY <2>2
  <2> QED
    BY <2>3 DEF l, x
<1> QED
  BY <1>3, <1>4, <1>5, <1>8, <1>9, WritesThem DEF u

\* The layout is kept when Push() makes room,
LEMMA PushBeginInv ==
    ASSUME WholeBuffers, RingInv, NEW n \in PushLengths, NEW byte \in PushBytes, PushBegin(n, byte)
    PROVE  RingInv'
<1>1. PICK p, k, i : Layout(p, k, i) /\ Pushing(p, k, i)
  BY DEF RingInv
<1> DEFINE needed == Len(Varint[n]) + n
           b == [x \in 1 .. n |-> byte]
           e == End(p)
           m == Len(pushed)
<1>2. /\ push.pc = "idle" /\ n \in 1 .. Capacity /\ needed <= Capacity
      /\ MakeRoom(needed).available >= needed
      /\ push' = [pc |-> "length", buffer |-> b, readable |-> MakeRoom(needed).range,
                  write |-> [offset |-> writeOffset, length |-> needed]]
      /\ UNCHANGED <<ring, writeOffset, ringSize, pushed>>
  BY DEF PushBegin
<1>3. i = k /\ ring.range = Between(p[k], e) /\ writeOffset = e % Capacity
  BY <1>1, <1>2 DEF Pushing
<1>4. /\ m \in Nat /\ k \in 1 .. m + 1 /\ p[k] \in Nat /\ e \in Nat /\ k \in Int /\ p[k] <= e
      /\ e - p[k] <= Capacity
  BY <1>1, <1>3, LayoutFacts
<1>5. ring.data \in Arrays /\ ring \in [data : Arrays, range : Ranges]
  BY DEF RingInv, RingTypes
<1>6. b \in Seq(Bytes) /\ Len(b) = n
  BY <1>2 DEF Bytes
<1>7. Varint[n] \in Seq(Bytes) /\ Len(Varint[n]) \in Nat \ {0} /\ needed \in 1 .. Capacity
  <2>1. n \in 0 .. Capacity
    BY <1>2
  <2>2. Varint[n] \in Seq(Bytes) /\ Len(Varint[n]) \in Nat \ {0}
    BY <2>1, VarintType
  <2> QED
    BY <1>2, <2>2
<1>8. RoomFor(b) = needed /\ b \in Buffers
  <2>1. RoomFor(b) = needed
    BY <1>6 DEF RoomFor
  <2>2. needed < Capacity /\ 2 * n <= Capacity
    <3>1. Fits(1, [length |-> needed]) /\ Fits(n, [length |-> n])
      BY <1>2 DEF WholeBuffers
    <3> HIDE DEF needed
    <3> QED
      BY <1>2, <1>7, <3>1 DEF Fits
  <2> HIDE DEF needed, b
  <2> QED
    BY <1>2, <1>6, <2>1, <2>2 DEF Buffers
<1> HIDE DEF needed, b
<1>9. PICK j \in k .. m + 1 :
        /\ RoomFrom(pushed, p, k, needed, j)
        /\ MakeRoom(needed) = [range |-> Between(p[j], e), available |-> Capacity - (e - p[j])]
  BY <1>1, <1>3, <1>4, <1>5, <1>7, MakesRoom DEF Layout, End
<1>10. Layout(p, k, j)
  <2>1. Items(ring.data, pushed, p, j)
    BY <1>1, <1>3, <1>4 DEF Layout, Items
  <2> QED
    BY <1>1, <2>1 DEF Layout
<1>11. Layout(p, k, j)'
  BY <1>2, <1>10 DEF Layout, End
<1>12. /\ push'.pc = "length" /\ push'.buffer = b /\ push'.readable = Between(p[j], e)
       /\ push'.write = Between(e, e + needed)
  <2> HIDE DEF e
  <2>1. (e + needed) - e = needed
    BY <1>4, <1>7
  <2>2. Between(e, e + needed) = [offset |-> writeOffset, length |-> needed]
    BY <1>3, <2>1 DEF Between
  <2> QED
    BY <1>2, <1>9, <2>2
<1>13. Pushing(p, k, j)'
  BY <1>2, <1>3, <1>8, <1>9, <1>12 DEF Pushing, End
<1>14. RingTypes'
  <2>1. Between(p[j], e) \in Ranges
    BY <1>10, LayoutFacts, BetweenType
  <2>2. e + needed \in Nat /\ e <= e + needed
    BY <1>4, <1>7
  <2>3. Between(e, e + needed) \in Ranges
    BY <1>4, <2>2, BetweenType
  <2> QED
    BY <1>2, <1>5, <1>6, <1>12, <2>1, <2>3 DEF RingTypes
<1> QED
  BY <1>11, <1>13, <1>14 DEF RingInv

\* when it writes the varint behind the last item,
LEMMA PushLengthInv ==
    ASSUME RingInv, PushLength
    PROVE  RingInv'
<1>1. PICK p, k, j : Layout(p, k, j) /\ Pushing(p, k, j)
  BY DEF RingInv
<1> DEFINE b == push.buffer
           v == Varint[Len(b)]
           e == End(p)
           r == RoomFor(b)
           new == WriteBytes(v, ring.data, push.write)
<1>2. push.pc = "length" /\ UNCHANGED <<writeOffset, ringSize, pushed>>
  BY DEF PushLength
<1>3. /\ b \in Buffers /\ push.readable = Between(p[j], e) /\ RoomFrom(pushed, p, k, r, j)
      /\ ring.range = Between(p[k], e) /\ writeOffset = e % Capacity /\ push.write = Between(e, e + r)
  BY <1>1, <1>2 DEF Pushing
<1>4. /\ e \in Nat /\ ring.data \in Arrays /\ ring \in [data : Arrays, range : Ranges]
  BY <1>1, LayoutFacts DEF RingInv, RingTypes
<1>5. /\ b \in Seq(Bytes) /\ v \in Seq(Bytes) /\ Len(v) \in Nat \ {0} /\ Len(b) \in 1 .. Capacity
      /\ r = Len(v) + Len(b) /\ r \in 2 .. Capacity - 1
  BY <1>3, BufferRoom
<1> HIDE DEF b, v, e, r
<1>6. push.write.offset = e % Capacity /\ push.write.length = r
  BY <1>3, <1>4, <1>5 DEF Between
<1>7. Fits(1, push.write)
  BY <1>5, <1>6 DEF Fits
<1>8. /\ ring' = [ring EXCEPT !.data = new]
      /\ push' = [push EXCEPT !.write = Advance(@, Len(v)), !.pc = "bytes"]
  BY <1>7 DEF PushLength, WriteBytesToRingBuffer, new, v, b
<1>9. /\ e + r \in Nat /\ Len(v) \in Nat /\ e + Len(v) <= e + r /\ (e + r) - e < LengthLimit
      /\ Len(v) <= Capacity /\ e + Len(v) \in Nat
  BY <1>4, <1>5, RingAssumption
<1>10. Advance(push.write, Len(v)) = Between(e + Len(v), e + r)
  <2> DEFINE u == e + r
             l == Len(v)
  <2>1. u \in Nat /\ l \in Nat /\ e + l <= u /\ u - e < LengthLimit /\ push.write = Between(e, u)
    BY <1>3, <1>9
  <2> HIDE DEF u, l
  <2>2. Advance(Between(e, u), l) = Between(e + l, u)
    BY <1>4, <2>1, Advances
  <2> QED
    BY <2>1, <2>2 DEF u, l
<1>11. new \in Arrays /\ Holds(new, e, v)
  BY <1>4, <1>5, <1>6, <1>9, WritesThem
<1>12. Items(new, pushed, p, j)
  <2>1. e <= e
    BY <1>4
  <2> QED
    BY <1>1, <1>3, <1>4, <1>5, <1>6, <1>9, <2>1, KeepsItems DEF e, r
<1> HIDE DEF new
<1>13. ring' \in [data : Arrays, range : Ranges] /\ ring'.data = new /\ ring'.range = ring.range
  BY <1>4, <1>8, <1>11
<1>14. /\ push'.pc = "bytes" /\ push'.buffer = b /\ push'.readable = push.readable
       /\ push'.write = Between(e + Len(v), e + r)
       /\ RingTypes'
  <2>1. Between(e + Len(v), e + r) \in Ranges
    BY <1>9, BetweenType
  <2>2. push \in [pc : {"idle", "length", "bytes", "header", "size"}, buffer : Seq(Bytes),
                  readable : Ranges, write : Ranges]
    BY DEF RingInv, RingTypes
  <2> QED
    BY <1>8, <1>10, <1>13, <2>1, <2>2 DEF RingTypes, b
<1>15. Layout(p, k, j)'
  BY <1>1, <1>2, <1>12, <1>13 DEF Layout, End
<1>16. Pushing(p, k, j)'
  BY <1>2, <1>3, <1>11, <1>13, <1>14 DEF Pushing, End, e, r, v
<1> QED
  BY <1>14, <1>15, <1>16 DEF RingInv

\* when it writes the bytes behind the varint,
LEMMA PushDataInv ==
    ASSUME RingInv, PushData
    PROVE  RingInv'
<1>1. PICK p, k, j : Layout(p, k, j) /\ Pushing(p, k, j)
  BY DEF RingInv
<1> DEFINE b == push.buffer
           v == Varint[Len(b)]
           e == End(p)
           r == RoomFor(b)
           w == e + Len(v)
           new == WriteBytes(b, ring.data, push.write)
<1>2. push.pc = "bytes" /\ UNCHANGED <<writeOffset, ringSize, pushed>>
  BY DEF PushData
<1>3. /\ b \in Buffers /\ push.readable = Between(p[j], e) /\ RoomFrom(pushed, p, k, r, j)
      /\ ring.range = Between(p[k], e) /\ writeOffset = e % Capacity
      /\ push.write = Between(w, e + r) /\ Holds(ring.data, e, v)
  BY <1>1, <1>2 DEF Pushing
<1>4. /\ e \in Nat /\ ring.data \in Arrays /\ ring \in [data : Arrays, range : Ranges]
  BY <1>1, LayoutFacts DEF RingInv, RingTypes
<1>5. /\ b \in Seq(Bytes) /\ v \in Seq(Bytes) /\ Len(v) \in Nat \ {0} /\ Len(b) \in 1 .. Capacity
      /\ r = Len(v) + Len(b) /\ r \in 2 .. Capacity - 1 /\ 2 * Len(b) <= Capacity
  BY <1>3, BufferRoom
<1> HIDE DEF b, v, e, r
<1>6. push.write.offset = w % Capacity /\ push.write.length = Len(b)
  BY <1>3, <1>4, <1>5 DEF Between
<1>7. Fits(Len(b), push.write)
  BY <1>5, <1>6 DEF Fits
<1>8. /\ ring' = [ring EXCEPT !.data = new]
      /\ push' = [push EXCEPT !.write = Advance(@, Len(b)), !.pc = "header"]
  BY <1>7 DEF PushData, WriteBytesToRingBuffer, new, b
<1>9. /\ e + r \in Nat /\ Len(b) \in Nat /\ w + Len(b) <= e + r /\ (e + r) - w < LengthLimit
      /\ w + Len(b) = e + r /\ Len(b) <= Capacity /\ w \in Nat /\ e <= w /\ e + Len(v) <= w
      /\ w + Len(b) <= e + Capacity
  BY <1>4, <1>5, RingAssumption
<1> HIDE DEF w
<1>10. Advance(push.write, Len(b)) = Between(e + r, e + r)
  BY <1>3, <1>9, Advances
<1>11. new \in Arrays /\ Holds(new, w, b) /\ Holds(new, e, v)
  BY <1>3, <1>4, <1>5, <1>6, <1>9, WritesThem
<1>12. Items(new, pushed, p, j)
  BY <1>1, <1>3, <1>4, <1>5, <1>6, <1>9, KeepsItems DEF e, r
<1> HIDE DEF new
<1>13. Holds(new, e, Coded(b))
  <2>1. e \in Int
    BY <1>4
  <2> QED
    BY <1>3, <1>11, <2>1, HoldsCoded DEF w, v
<1>14. ring' \in [data : Arrays, range : Ranges] /\ ring'.data = new /\ ring'.range = ring.range
  BY <1>4, <1>8, <1>11
<1>15. /\ push'.pc = "header" /\ push'.buffer = b /\ push'.readable = push.readable
       /\ push'.write = Between(e + r, e + r)
       /\ RingTypes'
  <2>1. Between(e + r, e + r) \in Ranges
    <3>1. e + r <= e + r
      BY <1>9
    <3> QED
      BY <1>9, <3>1, BetweenType
  <2>2. push \in [pc : {"idle", "length", "bytes", "header", "size"}, buffer : Seq(Bytes),
                  readable : Ranges, write : Ranges]
    BY DEF RingInv, RingTypes
  <2> QED
    BY <1>8, <1>10, <1>14, <2>1, <2>2 DEF RingTypes, b
<1>16. Layout(p, k, j)'
  BY <1>1, <1>2, <1>12, <1>14 DEF Layout, End
<1>17. push'.write.offset = (e + r) % Capacity
  BY <1>15 DEF Between
<1>18. Pushing(p, k, j)'
  BY <1>2, <1>3, <1>13, <1>14, <1>15, <1>17 DEF Pushing, End, e, r, v
<1> QED
  BY <1>15, <1>16, <1>18 DEF RingInv

\* and when it sets the header's range.
LEMMA PushHeaderInv ==
    ASSUME RingInv, PushHeader
    PROVE  RingInv'
<1>1. PICK p, k, j : Layout(p, k, j) /\ Pushing(p, k, j)
  BY DEF RingInv
<1> DEFINE b == push.buffer
           v == Varint[Len(b)]
           e == End(p)
           r == RoomFor(b)
           range == [offset |-> push.readable.offset, length |-> push.readable.length + Len(v) + Len(b)]
<1>2. /\ push.pc = "header" /\ writeOffset' = push.write.offset /\ UNCHANGED <<ringSize, pushed>>
      /\ ring' = [ring EXCEPT !.range = range] /\ push' = [push EXCEPT !.pc = "size"]
  BY DEF PushHeader
<1>3. /\ b \in Buffers /\ push.readable = Between(p[j], e) /\ RoomFrom(pushed, p, k, r, j)
      /\ Holds(ring.data, e, Coded(b)) /\ push.write.offset = (e + r) % Capacity
  BY <1>1, <1>2 DEF Pushing
<1>4. /\ e \in Nat /\ p[j] \in Nat /\ p[j] <= e
      /\ ring \in [data : Arrays, range : Ranges]
      /\ push \in [pc : {"idle", "length", "bytes", "header", "size"}, buffer : Seq(Bytes),
                   readable : Ranges, write : Ranges]
  BY <1>1, LayoutFacts DEF RingInv, RingTypes
<1>5. Len(v) \in Nat \ {0} /\ Len(b) \in 1 .. Capacity /\ r = Len(v) + Len(b) /\ r \in 2 .. Capacity - 1
  BY <1>3, BufferRoom
<1> HIDE DEF b, v, e, r
<1>6. range = Between(p[j], e + r)
  <2>1. (e - p[j]) + Len(v) + Len(b) = (e + r) - p[j]
    BY <1>4, <1>5
  <2> QED
    BY <1>3, <2>1 DEF Between
<1> HIDE DEF range
<1>7. range \in Ranges
  <2>1. e + r \in Nat /\ p[j] <= e + r
    BY <1>4, <1>5
  <2> QED
    BY <1>4, <1>6, <2>1, BetweenType
<1>8. /\ ring'.data = ring.data /\ ring'.range = range
      /\ push'.pc = "size" /\ push'.buffer = b /\ push'.readable = push.readable
      /\ RingTypes'
  BY <1>2, <1>4, <1>7 DEF RingTypes, b
<1>9. Layout(p, k, j)'
  BY <1>1, <1>2, <1>8 DEF Layout, End
<1>10. Pushing(p, k, j)'
  BY <1>2, <1>3, <1>6, <1>8 DEF Pushing, End, e, r, v
<1> QED
  BY <1>8, <1>9, <1>10 DEF RingInv

\* The positions with one buffer more.
Extended(s, p, b, q) ==
    /\ Positions(Append(s, b), q) /\ Len(Append(s, b)) = Len(s) + 1
    /\ \A i \in 1 .. Len(s) + 1 : q[i] = p[i]
    /\ q[Len(s) + 2] = p[Len(s) + 1] + RoomFor(b)

\* There are such positions.
LEMMA Extends ==
    ASSUME NEW s, NEW p, Positions(s, p), NEW b \in Buffers
    PROVE  \E q : Extended(s, p, b, q)
<1> DEFINE m == Len(s)
           new == Append(s, b)
           q == [i \in 1 .. m + 2 |-> IF i = m + 2 THEN p[m + 1] + RoomFor(b) ELSE p[i]]
<1>1. /\ m \in Nat /\ s \in Seq(Buffers) /\ p \in [1 .. m + 1 -> Nat] /\ RoomFor(b) \in Nat
      /\ \A j \in 1 .. m : p[j + 1] = p[j] + RoomFor(s[j])
  <2>1. RoomFor(b) \in 2 .. Capacity - 1
    BY BufferRoom
  <2> QED
    BY <2>1 DEF Positions
<1>2. /\ new \in Seq(Buffers) /\ Len(new) = m + 1 /\ new[m + 1] = b
      /\ \A j \in 1 .. m : new[j] = s[j]
  BY <1>1
<1> HIDE DEF m, new
<1>3. q \in [1 .. m + 2 -> Nat]
  <2> SUFFICES ASSUME NEW i \in 1 .. m + 2
               PROVE  (IF i = m + 2 THEN p[m + 1] + RoomFor(b) ELSE p[i]) \in Nat
    OBVIOUS
  <2>1. m + 1 \in 1 .. m + 1 /\ (i # m + 2 => i \in 1 .. m + 1)
    BY <1>1
  <2> QED
    BY <1>1, <2>1
<1>4. \A i \in 1 .. m + 1 : q[i] = p[i]
  BY <1>1
<1>5. q[m + 2] = p[m + 1] + RoomFor(b)
  BY <1>1
<1> HIDE DEF q
<1>6. ASSUME NEW j \in 1 .. m + 1 PROVE q[j + 1] = q[j] + RoomFor(new[j])
  <2>1. CASE j = m + 1
    <3>1. j + 1 = m + 2
      BY <1>1, <2>1
    <3> QED
      BY <1>2, <1>4, <1>5, <2>1, <3>1
  <2>2. CASE j # m + 1
    <3>1. j \in 1 .. m /\ j + 1 \in 1 .. m + 1
      BY <1>1, <2>2
    <3> QED
      BY <1>1, <1>2, <1>4, <3>1
  <2> QED
    BY <2>1, <2>2
<1>7. Positions(new, q)
  <2>1. m + 1 + 1 = m + 2
    BY <1>1
  <2> QED
    BY <1>2, <1>3, <1>6, <2>1 DEF Positions
<1> QED
  BY <1>2, <1>4, <1>5, <1>7 DEF Extended, m, new

\* The new buffer is one item more.
LEMMA ItemsExtend ==
    ASSUME NEW data, NEW s, NEW p, Positions(s, p), NEW b, NEW q, Extended(s, p, b, q),
           NEW j \in 1 .. Len(s) + 1,
           Items(data, s, p, j), Holds(data, p[Len(s) + 1], Coded(b))
    PROVE  Items(data, Append(s, b), q, j)
<1> DEFINE m == Len(s)
           new == Append(s, b)
<1>1. m \in Nat /\ s \in Seq(Buffers) /\ Len(new) = m + 1
  BY DEF Positions, Extended
<1>2. new[m + 1] = b /\ \A i \in 1 .. m : new[i] = s[i]
  BY <1>1
<1> SUFFICES ASSUME NEW i \in j .. m + 1 PROVE Holds(data, q[i], Coded(new[i]))
  BY <1>1 DEF Items
<1> HIDE DEF new, m
<1>3. i \in 1 .. m + 1 /\ j \in 1 .. m + 1
  BY <1>1 DEF m
<1>4. q[i] = p[i]
  BY <1>3 DEF Extended, m
<1>5. CASE i = m + 1
  BY <1>2, <1>4, <1>5 DEF m
<1>6. CASE i # m + 1
  <2>1. i \in j .. m /\ i \in 1 .. m
    BY <1>1, <1>3, <1>6
  <2> QED
    BY <1>2, <1>4, <2>1 DEF Items, m
<1> QED
  BY <1>5, <1>6

\* With the new buffer, the range has as many as fit.
LEMMA RoomWithNew ==
    ASSUME NEW p, NEW k, NEW j, Layout(p, k, j), NEW b \in Buffers,
           RoomFrom(pushed, p, k, RoomFor(b), j)
    PROVE  /\ End(p) + RoomFor(b) \in Nat /\ p[j] <= End(p) + RoomFor(b)
           /\ (End(p) + RoomFor(b)) - p[j] <= Capacity
           /\ j = 1 \/ (End(p) + RoomFor(b)) - p[j - 1] > Capacity
<1> DEFINE r == RoomFor(b)
           e == End(p)
           x == p[j]
           y == p[j - 1]
<1>1. /\ Len(pushed) \in Nat /\ k \in 1 .. Len(pushed) + 1 /\ j \in 1 .. Len(pushed) + 1
      /\ e \in Nat /\ x \in Nat /\ x <= e
  BY LayoutFacts
<1>2. r \in 2 .. Capacity - 1
  BY BufferRoom
<1>3. j # 1 => y \in Nat
  <2>1. j # 1 => j - 1 \in 1 .. Len(pushed) + 1
    BY <1>1
  <2> QED
    BY <2>1 DEF Layout, Positions
<1>4. Capacity - (e - x) >= r /\ (j = k \/ Capacity - (e - y) < r)
  BY DEF RoomFrom, End
<1>5. j = k => j = 1 \/ e - y > Capacity
  BY DEF Layout
<1> HIDE DEF r, e, x, y
<1>6. e + r \in Nat /\ x <= e + r /\ (e + r) - x <= Capacity
  BY <1>1, <1>2, <1>4
<1>7. j = 1 \/ (e + r) - y > Capacity
  BY <1>1, <1>2, <1>3, <1>4, <1>5
<1> QED
  BY <1>6, <1>7 DEF r, e, x, y

\* When Push() returns, the new buffer is the last one of the layout.
LEMMA PushEndInv ==
    ASSUME RingInv, PushEnd
    PROVE  RingInv'
<1>1. PICK p, k, j : Layout(p, k, j) /\ Pushing(p, k, j)
  BY DEF RingInv
<1> DEFINE b == push.buffer
           e == End(p)
           r == RoomFor(b)
           m == Len(pushed)
<1>2. /\ push.pc = "size" /\ ringSize' = Min({Capacity, ring.range.offset + ring.range.length})
      /\ pushed' = Append(pushed, b) /\ push' = NoPush /\ UNCHANGED <<ring, writeOffset>>
  BY DEF PushEnd
<1>3. /\ b \in Buffers /\ RoomFrom(pushed, p, k, r, j) /\ Holds(ring.data, e, Coded(b))
      /\ ring.range = Between(p[j], e + r) /\ writeOffset = (e + r) % Capacity
  BY <1>1, <1>2 DEF Pushing
<1>4. /\ e \in Nat /\ p[j] \in Nat /\ m \in Nat /\ j \in 1 .. m + 1
      /\ Positions(pushed, p) /\ Items(ring.data, pushed, p, j)
  BY <1>1, LayoutFacts DEF Layout
<1>5. PICK q : Extended(pushed, p, b, q)
  BY <1>3, <1>4, Extends
<1>6. /\ Positions(pushed', q) /\ Len(pushed') = m + 1 /\ q[j] = p[j] /\ q[m + 2] = e + r
      /\ (j # 1 => q[j - 1] = p[j - 1])
  <2>1. j # 1 => j - 1 \in 1 .. m + 1
    BY <1>4
  <2> QED
    BY <1>2, <1>4, <1>5, <2>1 DEF Extended, End
<1>7. End(q)' = e + r
  <2>1. Len(pushed') + 1 = m + 2
    BY <1>4, <1>6
  <2> QED
    BY <1>6, <2>1 DEF End
<1>8. Items(ring.data, pushed', q, j)
  BY <1>2, <1>3, <1>4, <1>5, ItemsExtend DEF End
<1>9. (e + r) - p[j] <= Capacity /\ (j = 1 \/ (e + r) - p[j - 1] > Capacity)
  BY <1>1, <1>3, RoomWithNew
<1>10. ringSize' = Seen(p[j], e + r)
  <2> HIDE DEF e, r
  <2> QED
    BY <1>2, <1>3 DEF Between, Seen
<1>11. j \in 1 .. m + 1 + 1 /\ j \in j .. m + 1 + 1
  BY <1>4
<1> HIDE DEF b, e, r, m
<1>12. Layout(q, j, j)'
  <2>1. q[Len(pushed') + 1] = e + r
    BY <1>7 DEF End
  <2>2. ringSize' = Seen(q[j], q[Len(pushed') + 1])
    BY <1>6, <1>10, <2>1
  <2>3. /\ q[Len(pushed') + 1] - q[j] <= Capacity
        /\ j = 1 \/ q[Len(pushed') + 1] - q[j - 1] > Capacity
    <3>1. q[Len(pushed') + 1] - q[j] = (e + r) - p[j]
      BY <1>6, <2>1
    <3>2. j # 1 => q[Len(pushed') + 1] - q[j - 1] = (e + r) - p[j - 1]
      BY <1>6, <2>1
    <3> QED
      BY <1>9, <3>1, <3>2
  <2>4. Items(ring'.data, pushed', q, j)
    BY <1>2, <1>8
  <2>5. j \in 1 .. Len(pushed') + 1 /\ j \in j .. Len(pushed') + 1
    BY <1>6, <1>11
  <2> QED
    BY <1>6, <2>2, <2>3, <2>4, <2>5 DEF Layout, End
<1>13. push'.pc = "idle" /\ RingTypes'
  <2>1. 0 \in 0 .. Capacity - 1
    OBVIOUS
  <2>2. ring \in [data : Arrays, range : Ranges]
    BY DEF RingInv, RingTypes
  <2>3. NoPush.pc = "idle" /\
        NoPush \in [pc : {"idle", "length", "bytes", "header", "size"}, buffer : Seq(Bytes),
                    readable : Ranges, write : Ranges]
    BY <2>1 DEF NoPush, Ranges
  <2> QED
    BY <1>2, <2>2, <2>3 DEF RingTypes
<1>14. Pushing(q, j, j)'
  BY <1>2, <1>3, <1>6, <1>7, <1>13 DEF Pushing
<1> QED
  BY <1>12, <1>13, <1>14 DEF RingInv

\* No step breaks the layout.
LEMMA RingStep ==
    ASSUME WholeBuffers, RingInv, [RingNext]_ringVars
    PROVE  RingInv'
<1>1. CASE \E n \in PushLengths, byte \in PushBytes : PushBegin(n, byte)
  BY <1>1, PushBeginInv
<1>2. CASE PushLength
  BY <1>2, PushLengthInv
<1>3. CASE PushData
  BY <1>3, PushDataInv
<1>4. CASE PushHeader
  BY <1>4, PushHeaderInv
<1>5. CASE PushEnd
  BY <1>5, PushEndInv
<1>6. CASE UNCHANGED ringVars
  <2>1. UNCHANGED <<ring, writeOffset, ringSize, push, pushed>>
    BY <1>6 DEF ringVars
  <2>2. PICK p, k, j : Layout(p, k, j) /\ Pushing(p, k, j)
    BY DEF RingInv
  <2>3. Layout(p, k, j)'
    BY <2>1, <2>2 DEF Layout, End
  <2>4. Pushing(p, k, j)'
    BY <2>1, <2>2 DEF Pushing, End
  <2>5. RingTypes'
    BY <2>1 DEF RingInv, RingTypes
  <2> QED
    BY <2>3, <2>4, <2>5 DEF RingInv
<1> QED
  BY <1>1, <1>2, <1>3, <1>4, <1>5, <1>6 DEF RingNext

\* Every step of a Push() that writes its buffer as a whole keeps the layout of the array.
LEMMA RingLayoutKept ==
    ASSUME WholeBuffers
    PROVE  RingSpec => []RingInv
<1>1. RingInit => RingInv
  BY RingStart
<1>2. RingInv /\ [RingNext]_ringVars => RingInv'
  BY RingStep
<1> QED
  BY <1>1, <1>2, PTL DEF RingSpec

\* A layout has the types of RingTypeOK,
LEMMA RingInvType == RingInv => RingTypeOK
<1> SUFFICES ASSUME RingInv PROVE RingTypeOK
  OBVIOUS
<1>1. PICK p, k, j : Layout(p, k, j) /\ Pushing(p, k, j)
  BY DEF RingInv
<1> DEFINE b == push.buffer
           e == End(p)
           r == RoomFor(b)
<1>2. /\ ring.data \in Arrays /\ ring.range \in Ranges
      /\ push.pc \in {"idle", "length", "bytes", "header", "size"}
  BY DEF RingInv, RingTypes
<1>3. /\ p[k] \in Nat /\ p[j] \in Nat /\ e \in Nat /\ p[k] <= e /\ e - p[k] <= Capacity
  BY <1>1, LayoutFacts
<1>4. ringSize \in 0 .. Capacity
  BY <1>1, <1>3, SeenIs DEF Layout
<1>5. /\ push.pc = "size" => /\ b \in Buffers /\ RoomFrom(pushed, p, k, r, j)
                             /\ ring.range = Between(p[j], e + r) /\ writeOffset = (e + r) % Capacity
      /\ push.pc # "size" => ring.range = Between(p[k], e) /\ writeOffset = e % Capacity
  BY <1>1 DEF Pushing
<1>6. /\ push.pc = "size" => e + r \in Nat /\ (e + r) - p[j] <= Capacity
  BY <1>1, <1>5, RoomWithNew
<1> HIDE DEF e, r, b
<1>7. ring.range.length <= Capacity
  <2>1. CASE push.pc = "size"
    <3>1. ring.range.length = (e + r) - p[j]
      BY <1>5, <2>1 DEF Between
    <3> QED
      BY <1>6, <2>1, <3>1
  <2>2. CASE push.pc # "size"
    <3>1. ring.range.length = e - p[k]
      BY <1>5, <2>2 DEF Between
    <3> QED
      BY <1>3, <3>1
  <2> QED
    BY <2>1, <2>2
<1>8. writeOffset \in 0 .. Capacity - 1
  <2>1. CASE push.pc = "size"
    <3>1. e + r \in Int
      BY <1>6, <2>1
    <3> QED
      BY <1>5, <2>1, <3>1, Remainder
  <2>2. CASE push.pc # "size"
    <3>1. e \in Int
      BY <1>3
    <3> QED
      BY <1>5, <2>2, <3>1, Remainder
  <2> QED
    BY <2>1, <2>2
<1>9. ring.range.offset \in 0 .. Capacity - 1 /\ ring.range.length \in 0 .. Capacity
  BY <1>2, <1>7 DEF Ranges
<1> QED
  BY <1>2, <1>4, <1>8, <1>9 DEF RingTypeOK, Arrays, Bytes

\* What the handler took has the items that stay, and ends with a 0 if it is not all.
LEMMA TakesItems ==
    ASSUME RingTypes, NEW p, NEW k, NEW j, Layout(p, k, j)
    PROVE  /\ Deserialized \in Arrays /\ Items(Deserialized, pushed, p, j)
           /\ ringSize = Capacity => Deserialized = ring.data
           /\ ringSize # Capacity => Deserialized[End(p) % Capacity] = 0
<1> DEFINE e == End(p)
           seen == Deserialized
<1>1. ring.data \in Arrays /\ DOMAIN ring.data = 0 .. Capacity - 1
  BY DEF RingTypes, Arrays
<1>2. seen = [i \in 0 .. Capacity - 1 |-> IF i < ringSize THEN ring.data[i] ELSE 0]
  BY <1>1 DEF Deserialized
<1>3. /\ p[k] \in Nat /\ p[j] \in Nat /\ e \in Nat /\ p[k] <= e /\ e - p[k] <= Capacity
      /\ p[k] <= p[j] /\ Len(pushed) \in Nat /\ j \in 1 .. Len(pushed) + 1 /\ j \in Int
  BY LayoutFacts
<1>4. /\ ringSize \in 0 .. Capacity
      /\ \A x \in p[k] .. e - 1 : x % Capacity < ringSize
      /\ ringSize # Capacity => e % Capacity = ringSize
  BY <1>3, SeenIs DEF Layout
<1> HIDE DEF seen
<1>5. seen \in Arrays
  BY <1>1, <1>2 DEF Arrays, Bytes
<1>6. \A x \in p[k] .. e - 1 : seen[x % Capacity] = ring.data[x % Capacity]
  <2> SUFFICES ASSUME NEW x \in p[k] .. e - 1 PROVE seen[x % Capacity] = ring.data[x % Capacity]
    OBVIOUS
  <2>1. x \in Int
    BY <1>3
  <2>2. x % Capacity \in 0 .. Capacity - 1
    BY <2>1, Remainder
  <2>3. x % Capacity < ringSize
    BY <1>4
  <2> QED
    BY <1>2, <2>2, <2>3
<1>7. Items(seen, pushed, p, j)
  <2> SUFFICES ASSUME NEW i \in j .. Len(pushed), NEW n \in 1 .. Len(Coded(pushed[i]))
               PROVE  seen[(p[i] + n - 1) % Capacity] = Coded(pushed[i])[n]
    BY DEF Items, Holds
  <2>1. i \in 1 .. Len(pushed) /\ i \in j .. Len(pushed) + 1 /\ i >= j /\ i \in Int
    BY <1>3
  <2>2. /\ pushed[i] \in Buffers /\ p[i] \in Nat /\ p[i + 1] = p[i] + RoomFor(pushed[i])
        /\ p[i + 1] <= e
    BY <2>1, ItemAt DEF Layout, End
  <2>3. Len(Coded(pushed[i])) = RoomFor(pushed[i]) /\ RoomFor(pushed[i]) \in 2 .. Capacity - 1
    BY <2>2, BufferRoom
  <2>4. p[i] >= p[j] + (i - j)
    BY <1>3, <2>1, PositionsGrow DEF Layout
  <2>5. p[i] + n - 1 \in p[k] .. e - 1
    <3> DEFINE l == RoomFor(pushed[i])
               x == p[i]
               y == p[j]
               z == p[k]
    <3>1. /\ l \in Nat /\ n \in 1 .. l /\ x \in Nat /\ y \in Nat /\ z \in Nat /\ e \in Nat
          /\ x + l <= e /\ x >= y + (i - j) /\ z <= y /\ i >= j /\ i \in Int /\ j \in Int
      BY <1>3, <2>1, <2>2, <2>3, <2>4
    <3> HIDE DEF e, l, x, y, z
    <3>2. x + n - 1 \in z .. e - 1
      BY <3>1
    <3> QED
      BY <3>2 DEF x, z
  <2>6. ring.data[(p[i] + n - 1) % Capacity] = Coded(pushed[i])[n]
    BY DEF Layout, Items, Holds
  <2> QED
    BY <1>6, <2>5, <2>6
<1>8. ringSize = Capacity => seen = ring.data
  <2> SUFFICES ASSUME ringSize = Capacity PROVE seen = ring.data
    OBVIOUS
  <2>1. \A i \in 0 .. Capacity - 1 : seen[i] = ring.data[i]
    BY <1>2
  <2> QED
    BY <1>1, <1>5, <2>1 DEF Arrays
<1>9. ringSize # Capacity => seen[e % Capacity] = 0
  <2> SUFFICES ASSUME ringSize # Capacity PROVE seen[e % Capacity] = 0
    OBVIOUS
  <2>1. e % Capacity = ringSize /\ ringSize \in 0 .. Capacity - 1
    BY <1>4
  <2> QED
    BY <1>2, <2>1
<1> QED
  BY <1>5, <1>7, <1>8, <1>9 DEF seen

\* As long as no item has to go, the handler pops the newest buffers.
LEMMA PopsNewest ==
    ASSUME RingTypes, NEW p, NEW k, Layout(p, k, k)
    PROVE  PopAll(Deserialized, Between(p[k], End(p))) = Newest(pushed)
<1> DEFINE e == End(p)
<1>1. Deserialized \in Arrays /\ Items(Deserialized, pushed, p, k)
  BY TakesItems
<1>2. /\ e \in Nat /\ e - p[k] <= Capacity /\ k \in 1 .. Len(pushed) + 1 /\ Positions(pushed, p)
      /\ k = 1 \/ e - p[k - 1] > Capacity
  BY LayoutFacts DEF Layout
<1>3. ReadVarint(Deserialized, Between(e, e)).length = 0 /\ e <= e
  BY <1>1, <1>2, ReadsEnd DEF NoVarint
<1>4. PopAll(Deserialized, Between(p[k], e)) = SubSeq(pushed, k, Len(pushed))
  BY <1>1, <1>2, <1>3, PopsItems DEF End
<1>5. Newest(pushed) = SubSeq(pushed, k, Len(pushed))
  BY <1>2, NewestIs DEF End
<1> QED
  BY <1>4, <1>5

\* In the last step, the handler pops the newest buffers, or all of them but the new one.
LEMMA PopsAfter ==
    ASSUME RingTypes, NEW p, NEW k, NEW j, Layout(p, k, j), Pushing(p, k, j), push.pc = "size"
    PROVE  LET after == Newest(Append(pushed, push.buffer))
           IN PopAll(Deserialized, ring.range) \in {after, Front(after)}
<1> DEFINE b == push.buffer
           e == End(p)
           r == RoomFor(b)
           u == e + r
           m == Len(pushed)
           new == Append(pushed, b)
<1>1. /\ b \in Buffers /\ RoomFrom(pushed, p, k, r, j) /\ Holds(ring.data, e, Coded(b))
      /\ ring.range = Between(p[j], u)
  BY DEF Pushing
<1>2. /\ e \in Nat /\ p[j] \in Nat /\ m \in Nat /\ j \in 1 .. m + 1
      /\ Positions(pushed, p) /\ Items(ring.data, pushed, p, j)
  BY LayoutFacts DEF Layout
<1>3. u \in Nat /\ u - p[j] <= Capacity /\ (j = 1 \/ u - p[j - 1] > Capacity)
  <2>1. /\ e + r \in Nat /\ p[j] <= e + r
        /\ (e + r) - p[j] <= Capacity
        /\ j = 1 \/ (e + r) - p[j - 1] > Capacity
    BY <1>1, RoomWithNew
  <2> QED
    BY <2>1
<1>4. /\ Deserialized \in Arrays /\ Items(Deserialized, pushed, p, j)
      /\ ringSize = Capacity => Deserialized = ring.data
      /\ ringSize # Capacity => Deserialized[e % Capacity] = 0
  BY TakesItems
<1>5. PICK q : Extended(pushed, p, b, q)
  BY <1>1, <1>2, Extends
<1>6. /\ Positions(new, q) /\ Len(new) = m + 1 /\ q[j] = p[j] /\ q[m + 2] = u
      /\ (j # 1 => q[j - 1] = p[j - 1])
  <2>1. j # 1 => j - 1 \in 1 .. m + 1
    BY <1>2
  <2> QED
    BY <1>2, <1>5, <2>1 DEF Extended, End
<1>7. j \in 1 .. Len(new) + 1 /\ q[Len(new) + 1] = u
  <2>1. m + 1 + 1 = m + 2 /\ j \in 1 .. m + 2
    BY <1>2
  <2> QED
    BY <1>6, <2>1
<1>8. Newest(new) = SubSeq(new, j, m + 1)
  <2> HIDE DEF u, new
  <2>1. q[Len(new) + 1] - q[j] <= Capacity /\ (j = 1 \/ q[Len(new) + 1] - q[j - 1] > Capacity)
    BY <1>3, <1>6, <1>7
  <2> QED
    BY <1>6, <1>7, <2>1, NewestIs
<1>9. CASE ringSize = Capacity
  <2>1. Items(Deserialized, new, q, j)
    <3>1. Items(ring.data, new, q, j)
      BY <1>1, <1>2, <1>5, ItemsExtend DEF End
    <3> QED
      BY <1>4, <1>9, <3>1
  <2>2. ReadVarint(Deserialized, Between(u, u)).length = 0 /\ u <= u
    BY <1>3, <1>4, ReadsEnd DEF NoVarint
  <2> HIDE DEF u, new
  <2>3. PopAll(Deserialized, Between(q[j], u)) = SubSeq(new, j, Len(new))
    BY <1>3, <1>4, <1>6, <1>7, <2>1, <2>2, PopsItems
  <2> QED
    BY <1>1, <1>6, <1>8, <2>3 DEF new
<1>10. CASE ringSize # Capacity
  <2>1. e < u /\ e <= u
    <3>1. r \in 2 .. Capacity - 1
      BY <1>1, BufferRoom
    <3> HIDE DEF e, r
    <3> QED
      BY <1>2, <3>1
  <2> HIDE DEF u
  <2>2. ReadVarint(Deserialized, Between(e, u)).value = 0
    BY <1>2, <1>3, <1>4, <1>10, <2>1, ReadsZero
  <2>3. PopAll(Deserialized, Between(p[j], u)) = SubSeq(pushed, j, m)
    BY <1>2, <1>3, <1>4, <2>1, <2>2, PopsItems DEF End
  <2>4. Front(SubSeq(new, j, m + 1)) = SubSeq(pushed, j, m)
    <3>1. pushed \in Seq(Buffers) /\ j \in 1 .. m + 1 /\ m \in Nat
      BY <1>2 DEF Positions
    <3>2. new \in Seq(Buffers) /\ Len(new) = m + 1 /\ \A i \in 1 .. m : new[i] = pushed[i]
      BY <1>1, <3>1
    <3> HIDE DEF new, m
    <3> DEFINE s == SubSeq(new, j, m + 1)
    <3>3. /\ s \in Seq(Buffers) /\ Len(s) = m + 2 - j
          /\ \A i \in 1 .. m + 2 - j : s[i] = new[j + i - 1]
      BY <3>1, <3>2
    <3>4. Front(s) = SubSeq(s, 1, m + 1 - j)
      <4>1. Len(s) - 1 = m + 1 - j
        BY <3>1, <3>3
      <4> HIDE DEF s
      <4> QED
        BY <4>1 DEF Front
    <3> HIDE DEF s
    <3>5. Front(s) \in Seq(Buffers) /\ Len(Front(s)) = m + 1 - j
      BY <3>1, <3>3, <3>4
    <3>6. \A i \in 1 .. m + 1 - j : Front(s)[i] = pushed[j + i - 1]
      <4> SUFFICES ASSUME NEW i \in 1 .. m + 1 - j PROVE Front(s)[i] = pushed[j + i - 1]
        OBVIOUS
      <4>1. i \in 1 .. m + 2 - j /\ j + i - 1 \in 1 .. m
        BY <3>1
      <4>2. Front(s)[i] = s[i]
        BY <3>1, <3>3, <3>4
      <4> QED
        BY <3>2, <3>3, <4>1, <4>2
    <3>7. /\ SubSeq(pushed, j, m) \in Seq(Buffers) /\ Len(SubSeq(pushed, j, m)) = m + 1 - j
          /\ \A i \in 1 .. m + 1 - j : SubSeq(pushed, j, m)[i] = pushed[j + i - 1]
      BY <3>1 DEF m
    <3>8. Front(s) = SubSeq(pushed, j, m)
      BY <3>5, <3>6, <3>7
    <3> QED
      BY <3>8 DEF s
  <2> QED
    BY <1>1, <1>8, <2>3, <2>4
<1> QED
  BY <1>9, <1>10

\* The types of the array, of its range and of the offsets are kept: the range never reaches
\* outside of the array, and the handler never takes more than there is.
THEOREM RingTypeCorrect ==
    ASSUME WholeBuffers
    PROVE  RingSpec => []RingTypeOK
<1>1. RingSpec => []RingInv
  BY RingLayoutKept
<1>2. RingInv => RingTypeOK
  BY RingInvType
<1> QED
  BY <1>1, <1>2, PTL

\* and a reader finds the newest buffers in it.
LEMMA RingInvNewest == RingInv => RingHoldsNewest
<1> SUFFICES ASSUME RingInv PROVE RingHoldsNewest
  OBVIOUS
<1>1. PICK p, k, j : Layout(p, k, j) /\ Pushing(p, k, j)
  BY DEF RingInv
<1>2. RingTypes
  BY DEF RingInv
<1>3. CASE push.pc = "size"
  <2>1. LET after == Newest(Append(pushed, push.buffer))
        IN PopAll(Deserialized, ring.range) \in {after, Front(after)}
    BY <1>1, <1>2, <1>3, PopsAfter
  <2> QED
    BY <1>3, <2>1 DEF RingHoldsNewest
<1>4. CASE push.pc # "size"
  <2>1. ring.range = Between(p[k], End(p))
    BY <1>1, <1>4 DEF Pushing
  <2>2. ASSUME j = k PROVE PopAll(Deserialized, ring.range) = Newest(pushed)
    BY <1>1, <1>2, <2>1, <2>2, PopsNewest
  <2>3. push.pc = "idle" => j = k
    BY <1>1 DEF Pushing
  <2>4. ASSUME push.pc # "idle", push.readable = ring.range PROVE j = k
    <3>1. Between(p[j], End(p)) = Between(p[k], End(p))
      BY <1>1, <2>1, <2>4 DEF Pushing
    <3>2. End(p) - p[j] = End(p) - p[k]
      BY <3>1 DEF Between
    <3>3. /\ End(p) \in Nat /\ p[j] \in Nat /\ p[k] \in Nat /\ j \in Int /\ k \in Int /\ k <= j
          /\ p[j] >= p[k] + (j - k)
      BY <1>1, LayoutFacts
    <3> QED
      BY <3>2, <3>3
  <2> QED
    BY <1>4, <2>2, <2>3, <2>4 DEF RingHoldsNewest
<1> QED
  BY <1>3, <1>4

\* Between two Push() calls a handler reads the newest buffers, as many as there is room
\* for; one that reads after a crash inside a Push() reads those of before or of after,
\* whatever the capacity, the lengths and the bytes, as long as WriteBytesToRingBuffer()
\* writes every buffer that Push() accepts.
THEOREM RingAlwaysHoldsNewest ==
    ASSUME WholeBuffers
    PROVE  RingSpec => []RingHoldsNewest
<1>1. RingSpec => []RingInv
  BY RingLayoutKept
<1>2. RingInv => RingHoldsNewest
  BY RingInvNewest
<1> QED
  BY <1>1, <1>2, PTL
=============================================================================
