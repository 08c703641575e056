---------------------------- MODULE MCComponents ----------------------------
(***************************************************************************)
(* The components that share no state are checked in one run: a behaviour  *)
(* is one of the component that `active' names, and the variables of the   *)
(* others stay as they are.                                                *)
(***************************************************************************)
EXTENDS PruneCrashReports, PtraceBroker, RingBuffer, AnnotationList, CrashLoopDetection,
        WinCapture, WinDatabase, MacDatabase, TLC

CONSTANTS r1, r2, r3

VARIABLE active

\* Two threads of one client, and a second client.
TwoClients == "t1" :> "p1" @@ "t2" :> "p1" @@ "t3" :> "p2"

\* Nothing tells the reports of PruneCrashReports apart.
ReportSymmetry == Permutations(Reports)

\* A component that is not active has one initial state.
PruneRests ==
    /\ place = [u \in Reports |-> "unborn"]
    /\ created = [u \in Reports |-> 0]
    /\ size = [u \in Reports |-> CHOOSE s \in Sizes : TRUE]

ComponentsInit ==
    /\ active \in {"prune", "broker", "ring", "list", "loop", "winCapture", "winDatabase", "mac"}
    /\ active = "prune" \/ PruneRests
    /\ active = "mac" \/ ios = FALSE
    /\ PruneInit /\ BrokerInit /\ RingInit /\ ListInit /\ LoopInit /\ WinInit
    /\ WinDatabaseInit /\ MacInit

inProcessVars == <<ringVars, listVars, loopVars>>
windowsVars == <<winVars, winDatabaseVars>>

ComponentsNext ==
    /\ UNCHANGED active
    /\ \/ /\ active = "prune" /\ PruneNext
          /\ UNCHANGED <<brokerVars, inProcessVars, windowsVars, macVars>>
       \/ /\ active = "broker" /\ BrokerNext
          /\ UNCHANGED <<pruneVars, inProcessVars, windowsVars, macVars>>
       \/ /\ active = "ring" /\ RingNext
          /\ UNCHANGED <<pruneVars, brokerVars, listVars, loopVars, windowsVars, macVars>>
       \/ /\ active = "list" /\ ListNext
          /\ UNCHANGED <<pruneVars, brokerVars, ringVars, loopVars, windowsVars, macVars>>
       \/ /\ active = "loop" /\ LoopNext
          /\ UNCHANGED <<pruneVars, brokerVars, ringVars, listVars, windowsVars, macVars>>
       \/ /\ active = "winCapture" /\ WinNext
          /\ UNCHANGED <<pruneVars, brokerVars, inProcessVars, winDatabaseVars, macVars>>
       \/ /\ active = "winDatabase" /\ WinDatabaseNext
          /\ UNCHANGED <<pruneVars, brokerVars, inProcessVars, winVars, macVars>>
       \/ /\ active = "mac" /\ MacNext
          /\ UNCHANGED <<pruneVars, brokerVars, inProcessVars, windowsVars>>

ComponentsSpec ==
    ComponentsInit /\ [][ComponentsNext]_<<active, pruneVars, brokerVars, inProcessVars,
                                           windowsVars, macVars>>

\* The types of every component's variables.
TypesOK ==
    /\ PruneTypeOK /\ BrokerTypeOK /\ RingTypeOK /\ ListTypeOK /\ LoopTypeOK
    /\ WinTypeOK /\ WinDatabaseTypeOK /\ MacTypeOK
=============================================================================
