------------------------- MODULE CrashLoopDetection -------------------------
(***************************************************************************)
(* util/backtrace/crash_loop_detection.cc: the file in which the client    *)
(* enters each run when it starts the handler, in which the handler marks  *)
(* a run when it handles a dump request, and by which the client decides   *)
(* at its next start whether it needs the safe mode.  Nothing locks it.    *)
(***************************************************************************)
EXTENDS Naturals, Sequences, SequencesExt, FiniteSetsExt

CONSTANTS
    MaxEntries, \* crash_loop_detection_max_entries
    MaxRuns     \* bound: how often the application is run

ASSUME LoopAssumption == MaxEntries \in Nat \ {0} /\ MaxRuns \in Nat

VARIABLES
    csv,      \* the lines of the file: run_uuid_ and whether it is marked
    run,      \* the number of runs begun, which is the run_uuid_ of the last one
    app,      \* the application: "off", "starting", "running", and waiting for its dump, to
              \* die ("crashing") or to go on ("dumping")
    writer,   \* writer[w]: where the application (w = 0) and the handler of run w are between
              \* LoadCrashData() and the end of WriteCrashData(), and the data
    dumped,   \* history: the runs that HandleException() was called for
    crashed,  \* history: the runs that crashed
    disturbed \* history: a write failed or was cut off, or two of them met

loopVars == <<csv, run, app, writer, dumped, crashed, disturbed>>

Handlers == 1 .. MaxRuns
Writers == {0} \cup Handlers
NotWriting == [pc |-> "idle", lines |-> <<>>]

LoopTypeOK ==
    /\ \A i \in DOMAIN csv : csv[i] \in [run : 1 .. MaxRuns, crashed : BOOLEAN]
    /\ run \in 0 .. MaxRuns
    /\ app \in {"off", "starting", "running", "dumping", "crashing"}
    /\ \A w \in Writers : writer[w].pc \in {"idle", "load", "truncate", "write"}
    /\ dumped \subseteq 1 .. MaxRuns /\ crashed \subseteq 1 .. MaxRuns
    /\ disturbed \in BOOLEAN

LoopInit ==
    /\ csv = <<>>
    /\ run = 0
    /\ app = "off"
    /\ writer = [w \in Writers |-> NotWriting]
    /\ dumped = {} /\ crashed = {}
    /\ disturbed = FALSE

HandlersIdle == \A h \in Handlers : writer[h].pc = "idle"

Writes(w, lines) == writer' = [writer EXCEPT ![w] = [pc |-> "truncate", lines |-> lines]]

----------------------------------------------------------------------------
\* LoadCrashData(): the last n lines.
LoadCrashData(n) == SubSeq(csv, IF Len(csv) > n THEN Len(csv) - n + 1 ELSE 1, Len(csv))

\* Mutant: one line too many is kept.
CrashLoopDetectionAppendMutant ==
    Writes(0, Append(LoadCrashData(MaxEntries), [run |-> run', crashed |-> FALSE]))

CrashLoopDetectionAppend ==
    Writes(0, Append(LoadCrashData(MaxEntries - 1), [run |-> run', crashed |-> FALSE]))

\* StartHandler() enters the new run.
StartHandler ==
    /\ app = "off"
    /\ run < MaxRuns
    /\ run' = run + 1
    /\ app' = "starting"
    /\ CrashLoopDetectionAppend
    /\ disturbed' = (disturbed \/ ~HandlersIdle)
    /\ UNCHANGED <<csv, dumped, crashed>>

\* WriteCrashData() opens the file, which empties it, or cannot,
Truncate(w) ==
    /\ writer[w].pc = "truncate"
    /\ \/ /\ csv' = <<>>
          /\ writer' = [writer EXCEPT ![w].pc = "write"]
          /\ UNCHANGED disturbed
       \/ /\ disturbed' = TRUE
          /\ writer' = [writer EXCEPT ![w] = NotWriting]
          /\ UNCHANGED csv
    /\ UNCHANGED <<run, app, dumped, crashed>>

\* and writes the lines.
Write(w) ==
    /\ writer[w].pc = "write"
    /\ csv' = writer[w].lines
    /\ writer' = [writer EXCEPT ![w] = NotWriting]
    /\ UNCHANGED <<run, app, dumped, crashed, disturbed>>

Started ==
    /\ app = "starting"
    /\ writer[0].pc = "idle"
    /\ app' = "running"
    /\ UNCHANGED <<csv, run, writer, dumped, crashed, disturbed>>

\* A crash, or DumpWithoutCrash().  The handler serves one request at a time.
RequestDump(crash) ==
    /\ app = "running"
    /\ writer[run].pc = "idle"
    /\ app' = IF crash THEN "crashing" ELSE "dumping"
    /\ crashed' = IF crash THEN crashed \cup {run} ELSE crashed
    /\ writer' = [writer EXCEPT ![run] = [pc |-> "load", lines |-> <<>>]]
    /\ UNCHANGED <<csv, run, dumped, disturbed>>

\* CrashLoopDetectionSetCrashed(): a run that is not in the file changes nothing.
CrashLoopDetectionSetCrashed(h) ==
    IF \E i \in DOMAIN csv : csv[i].run = h
      THEN Writes(h, [i \in DOMAIN csv |-> [csv[i] EXCEPT !.crashed = @ \/ csv[i].run = h]])
      ELSE writer' = [writer EXCEPT ![h] = NotWriting]

\* HandleException() is not told which of the two it was.
HandleException(h) ==
    /\ writer[h].pc = "load"
    /\ dumped' = dumped \cup {h}
    /\ CrashLoopDetectionSetCrashed(h)
    /\ UNCHANGED <<csv, run, app, crashed, disturbed>>

\* The handler may not trace the client, or does so through a broker: neither marks the run.
LeaveUnmarked(h) ==
    /\ writer[h].pc = "load"
    /\ writer' = [writer EXCEPT ![h] = NotWriting]
    /\ UNCHANGED <<csv, run, app, dumped, crashed, disturbed>>

\* The dump is done, or the wait for it has timed out.
DumpDone ==
    /\ \/ app = "crashing" /\ app' = "off"
       \/ app = "dumping" /\ app' \in {"off", "running"}
    /\ UNCHANGED <<csv, run, writer, dumped, crashed, disturbed>>

\* The application ends, or is killed.
EndRun ==
    /\ app \in {"starting", "running"}
    /\ app' = "off"
    /\ disturbed' = (disturbed \/ writer[0].pc # "idle")
    /\ writer' = [writer EXCEPT ![0] = NotWriting]
    /\ UNCHANGED <<csv, run, dumped, crashed>>

\* A handler is killed.
KillWriter(h) ==
    /\ writer[h].pc # "idle"
    /\ writer' = [writer EXCEPT ![h] = NotWriting]
    /\ disturbed' = TRUE
    /\ UNCHANGED <<csv, run, app, dumped, crashed>>

LoopNext ==
    \/ StartHandler \/ Started \/ DumpDone \/ EndRun
    \/ \E crash \in BOOLEAN : RequestDump(crash)
    \/ \E h \in Handlers : HandleException(h) \/ LeaveUnmarked(h) \/ KillWriter(h)
    \/ \E w \in Writers : Truncate(w) \/ Write(w)

LoopSpec == LoopInit /\ [][LoopNext]_loopVars

----------------------------------------------------------------------------
\* ConsecutiveCrashesCount(): the last lines, back to one that is not marked.
ConsecutiveCrashesCount ==
    LET unmarked == {i \in DOMAIN csv : ~csv[i].crashed}
    IN Len(csv) - (IF unmarked = {} THEN 0 ELSE Max(unmarked))

\* The last runs that are all in this set, as many as the file has lines for.
InARow(runs) ==
    Max({n \in 0 .. Min({run, MaxEntries}) : run - n + 1 .. run \subseteq runs})

\* The next start may read what was neither cut off nor mixed up.
Settled == ~disturbed /\ app = "off" /\ HandlersIdle

\* Then ConsecutiveCrashesCount() is the number of last consecutive runs that
\* HandleException() was called for, whether they crashed or called DumpWithoutCrash().
\* However the writes are cut off or mixed up, the file never grows, has the runs in their
\* order, and marks no run that it was not called for.
DumpsCounted ==
    /\ Settled => ConsecutiveCrashesCount = InARow(dumped)
    /\ Len(csv) <= MaxEntries
    /\ \A i \in DOMAIN csv :
         /\ csv[i].crashed => csv[i].run \in dumped
         /\ \A j \in DOMAIN csv : i < j => csv[i].run < csv[j].run

\* "The number of last consecutive runs having crashed": no others are counted.
OnlyCrashesCounted == Settled => ConsecutiveCrashesCount <= InARow(crashed)
=============================================================================
