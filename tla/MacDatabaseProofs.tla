------------------------- MODULE MacDatabaseProofs -------------------------
(***************************************************************************)
(* Proofs about MacDatabase, for any users, reports and faults.            *)
(***************************************************************************)
EXTENDS MacDatabase, TLAPS

\* What a user may be doing: the names of the operations and how far each gets.
Lookers == {"LookUp", "Upload", "Skip", "Delete", "Request"}
Records == {"upload", "sent", "unmark", "failed", "move", "start", "flag"}

Doing(op) ==
    \/ op.name = "Finish" /\ op.pc = "write"
    \/ op.name = "CleanAttachments" /\ op.pc = "locate"
    \/ op.name \in Lookers /\ op.pc \in {"locate", "lock", "locked"}
    \/ op.name \in {"Skip", "Request"} /\ op.pc = "rename"
    \/ op.name = "Delete" /\ op.pc = "attachments"
    \/ op.name = "Upload" /\ op.pc \in Records

Ops == [name : MacNames \cup {"none", "Finish"}, u : MacReports \cup {NoMacReport},
        pc : {"idle", "write", "locate", "lock", "locked", "rename", "attachments"} \cup Records,
        dir : 1 .. 3]

Attributes == [uploaded : BOOLEAN, requested : BOOLEAN, started : BOOLEAN]

Shape ==
    /\ ios \in BOOLEAN /\ requests \in BOOLEAN
    /\ macOp \in [MacUsers -> Ops]
    /\ \A p \in MacUsers : \/ macOp[p] = Idle
                           \/ /\ macOp[p].u \in MacReports /\ Doing(macOp[p])
                              /\ macOp[p].name \in {"Upload", "Skip"} => macOp[p].dir = 1
                              /\ macOp[p].name = "Request" => requests /\ macOp[p].dir \in {1, 2}

\* Where a report is that somebody writes, names, has attached something to, or has.
Born ==
    /\ \A p \in MacUsers : MacAt(p, "write") =>
         /\ macDir[macOp[p].u] \in {"new", "gone"}
         /\ \A q \in MacUsers : MacAt(q, "write") /\ macOp[q].u = macOp[p].u => q = p
    /\ \A p \in MacUsers : macOp[p].name \in Lookers => macDir[macOp[p].u] \notin {"unborn", "new"}
    /\ \A p \in MacUsers : MacAt(p, "attachments") => macDir[macOp[p].u] = "gone"
    /\ \A u \in macAtt : macDir[u] # "unborn"
    /\ \A u \in macGiven : macDir[u] \in {"pending", "completed"}
    /\ \A u \in macServer : macDir[u] \notin {"unborn", "new"}

\* Unless a report is moved back, it is not in a directory that the cleaning has already
\* looked in.
Passed ==
    \A p \in MacUsers : macOp[p].name = "CleanAttachments" =>
      /\ macDir[macOp[p].u] # "unborn"
      /\ macOp[p].dir \in {2, 3} => macDir[macOp[p].u] # "new"
      /\ macOp[p].dir = 3 /\ ~requests => macDir[macOp[p].u] # "pending"

AttachmentInv == MacTypeOK /\ Shape /\ Born /\ Passed /\ MacAttachmentsKept

USE MacAssumption

\* The directories that each operation looks in.
LEMMA SearchedDirs ==
    /\ \A name \in {"Upload", "Skip"} : Searched(name)[1] = "pending" /\ Len(Searched(name)) = 1
    /\ /\ Searched("Request")[1] = "pending" /\ Searched("Request")[2] = "completed"
       /\ Len(Searched("Request")) = 2
    /\ \A name \in {"LookUp", "Delete", "CleanAttachments"} :
         /\ Searched(name)[1] = "new" /\ Searched(name)[2] = "pending"
         /\ Searched(name)[3] = "completed" /\ Len(Searched(name)) = 3
BY DEF Searched

\* A user that does nothing.
LEMMA IdleOp ==
    /\ Idle \in Ops /\ Idle.name = "none" /\ Idle.pc = "idle" /\ Idle.dir = 1 /\ ~Doing(Idle)
    /\ Idle.name \notin Lookers
BY DEF Idle, Ops, Doing, Lookers, MacNames

\* What returning from an operation does to each user and each lock.
LEMMA Returns ==
    ASSUME MacTypeOK, Shape, NEW p \in MacUsers, Return(p)
    PROVE  /\ macOp' \in [MacUsers -> Ops]
           /\ macOp'[p] = Idle
           /\ \A q \in MacUsers \ {p} : macOp'[q] = macOp[q]
           /\ macLock' \in [MacReports -> MacUsers \cup {NoMacUser}]
           /\ \A u \in MacReports : macLock'[u] = IF macLock[u] = p THEN NoMacUser ELSE macLock[u]
BY IdleOp DEF Return, Release, MacTypeOK, Shape

\* What a step within an operation does to each user.
LEMMA Goes ==
    ASSUME Shape, NEW p \in MacUsers, NEW pc \in {"lock", "locked", "rename", "attachments"} \cup Records,
           Goto(p, pc)
    PROVE  /\ macOp' \in [MacUsers -> Ops]
           /\ macOp'[p].pc = pc /\ macOp'[p].u = macOp[p].u
           /\ macOp'[p].name = macOp[p].name /\ macOp'[p].dir = macOp[p].dir
           /\ \A q \in MacUsers \ {p} : macOp'[q] = macOp[q]
BY DEF Goto, Shape, Ops

\* A user whose pc is known is within that operation.
LEMMA Within ==
    ASSUME Shape, NEW p \in MacUsers, macOp[p].pc # "idle"
    PROVE  /\ macOp[p] # Idle /\ macOp[p].u \in MacReports /\ Doing(macOp[p])
           /\ macOp[p].name \in {"Upload", "Skip"} => macOp[p].dir = 1
           /\ macOp[p].name = "Request" => requests /\ macOp[p].dir \in {1, 2}
           /\ macOp[p].pc = "write" <=> macOp[p].name = "Finish"
           /\ macOp[p].pc \in Records => macOp[p].name = "Upload"
BY IdleOp DEF Shape, Doing, Records, Lookers

\* A step of p that moves no report and removes no attachments.
LEMMA Stays ==
    ASSUME AttachmentInv, NEW p \in MacUsers, macOp[p] # Idle,
           UNCHANGED <<ios, macDir, macAtt, macGiven, requests>>,
           xattr' \in [MacReports -> Attributes],
           macLock' \in [MacReports -> MacUsers \cup {NoMacUser}],
           macFaults' \in 0 .. MaxMacFaults, unrecorded' \subseteq MacReports,
           \/ macServer' = macServer
           \/ macOp[p].pc = "upload" /\ macServer' = macServer \cup {macOp[p].u},
           macOp' \in [MacUsers -> Ops],
           \A q \in MacUsers \ {p} : macOp'[q] = macOp[q],
           \/ macOp'[p] = Idle
           \/ /\ macOp'[p].u = macOp[p].u /\ macOp'[p].dir = macOp[p].dir
              /\ macOp'[p].pc \notin {"write", "attachments"} /\ Doing(macOp'[p])
              /\ macOp[p].name \in Lookers
              /\ \/ macOp'[p].name = macOp[p].name
                 \/ macOp[p].name = "Upload" /\ macOp'[p].name = "Skip"
    PROVE  AttachmentInv'
<1>i. MacTypeOK /\ Shape /\ Born /\ Passed /\ MacAttachmentsKept
  BY DEF AttachmentInv
<1>u. macOp[p].u \in MacReports /\ (macOp[p].pc = "upload" => macOp[p].name = "Upload")
  BY <1>i DEF Shape, Doing
<1>1. Shape'
  BY <1>i, <1>u, IdleOp DEF Shape
<1>2. MacTypeOK'
  BY <1>i, <1>u, <1>1 DEF MacTypeOK, Shape, Ops, Attributes
<1>3. Born'
  BY <1>i, <1>u, IdleOp DEF Born, MacAt, Lookers
<1>4. Passed' /\ MacAttachmentsKept'
  BY <1>i, <1>u, IdleOp DEF Passed, MacAttachmentsKept, Lookers
<1> QED
  BY <1>1, <1>2, <1>3, <1>4 DEF AttachmentInv

\* A step of p that returns and changes nothing else, or only the faults.
LEMMA ReturnStays ==
    ASSUME AttachmentInv, NEW p \in MacUsers, macOp[p] # Idle, Return(p),
           UNCHANGED <<ios, macDir, macAtt, macGiven, macServer, requests>>,
           xattr' \in [MacReports -> Attributes],
           macFaults' \in 0 .. MaxMacFaults, unrecorded' \subseteq MacReports
    PROVE  AttachmentInv'
<1>1. /\ macOp' \in [MacUsers -> Ops]
      /\ macOp'[p] = Idle
      /\ \A q \in MacUsers \ {p} : macOp'[q] = macOp[q]
      /\ macLock' \in [MacReports -> MacUsers \cup {NoMacUser}]
  BY Returns DEF AttachmentInv
<1> QED
  BY <1>1, Stays

\* A step of p that goes on, and moves no report.
LEMMA GotoStays ==
    ASSUME AttachmentInv, NEW p \in MacUsers, macOp[p].pc # "idle",
           NEW pc \in {"lock", "locked", "rename"} \cup Records, Goto(p, pc),
           \/ macOp[p].name \in Lookers /\ pc \in {"lock", "locked"}
           \/ macOp[p].name \in {"Skip", "Request"} /\ pc = "rename"
           \/ macOp[p].name = "Upload" /\ pc \in Records,
           UNCHANGED <<ios, macDir, macAtt, macGiven, requests, unrecorded, macFaults>>,
           \/ macServer' = macServer
           \/ macOp[p].pc = "upload" /\ macServer' = macServer \cup {macOp[p].u},
           xattr' \in [MacReports -> Attributes],
           macLock' \in [MacReports -> MacUsers \cup {NoMacUser}]
    PROVE  AttachmentInv'
<1>1. Shape /\ MacTypeOK
  BY DEF AttachmentInv
<1>2. /\ macOp[p] # Idle /\ macFaults' \in 0 .. MaxMacFaults /\ macOp[p].name \in Lookers
      /\ unrecorded' \subseteq MacReports
  BY <1>1, IdleOp DEF MacTypeOK, Lookers
<1>3. /\ macOp' \in [MacUsers -> Ops]
      /\ macOp'[p].pc = pc /\ macOp'[p].u = macOp[p].u
      /\ macOp'[p].name = macOp[p].name /\ macOp'[p].dir = macOp[p].dir
      /\ \A q \in MacUsers \ {p} : macOp'[q] = macOp[q]
  BY <1>1, Goes
<1>4. pc \notin {"write", "attachments"} /\ Doing(macOp'[p])
  BY <1>3 DEF Doing, Records
<1> QED
  BY <1>2, <1>3, <1>4, Stays

\* The operations that move no report keep AttachmentInv.
LEMMA StayingActions ==
    ASSUME AttachmentInv, NEW p \in MacUsers,
           \/ ObtainReportLock(p) \/ PathGone(p) \/ ReadLocked(p) \/ SkipMac(p) \/ RequestMac(p)
           \/ StartUpload(p) \/ SendMac(p) \/ RemoveStartFailed(p) \/ RecordFailure(p)
           \/ RemoveRequest(p) \/ RemoveStart(p) \/ WriteUploaded(p) \/ Interrupt(p)
    PROVE  AttachmentInv'
<1>t. /\ Shape /\ MacTypeOK /\ xattr \in [MacReports -> Attributes] /\ macFaults \in 0 .. MaxMacFaults
      /\ macLock \in [MacReports -> MacUsers \cup {NoMacUser}]
      /\ macOp[p] # Idle /\ macOp[p].pc # "idle" /\ macOp[p].u \in MacReports
      /\ Doing(macOp[p]) /\ ios \in BOOLEAN /\ unrecorded \subseteq MacReports
  <2>1. Shape /\ MacTypeOK
    BY DEF AttachmentInv
  <2>2. macOp[p] # Idle
    BY IdleOp DEF ObtainReportLock, PathGone, ReadLocked, Locked, SkipMac, RequestMac, StartUpload,
       SendMac, RemoveStartFailed, RecordFailure, RemoveRequest, RemoveStart, WriteUploaded,
       RecordStep, Interrupt, MacAt
  <2> QED
    BY <2>1, <2>2, IdleOp DEF MacTypeOK, Shape, Doing, Records, Attributes
<1>1. CASE ObtainReportLock(p)
  <2>1. macOp[p].name \in Lookers
    BY <1>t, <1>1 DEF ObtainReportLock, MacAt, Doing, Records
  <2>2. CASE Return(p)
    BY <1>t, <1>1, <2>2, ReturnStays DEF ObtainReportLock, ghostVars
  <2>3. CASE ~Return(p)
    <3>1. Goto(p, "locked") /\ macLock' \in [MacReports -> MacUsers \cup {NoMacUser}]
      BY <1>t, <1>1, <2>3 DEF ObtainReportLock
    <3> QED
      BY <1>t, <1>1, <2>1, <3>1, GotoStays DEF ObtainReportLock, ghostVars
  <2> QED
    BY <2>2, <2>3
<1>2. CASE PathGone(p)
  BY <1>t, <1>2, ReturnStays DEF PathGone, ghostVars
<1>3. CASE ReadLocked(p)
  BY <1>t, <1>3, ReturnStays DEF ReadLocked, ghostVars
<1>4. CASE SkipMac(p)
  <2>1. xattr' \in [MacReports -> Attributes]
    BY <1>t, <1>4 DEF SkipMac, Attributes
  <2> QED
    BY <1>t, <1>4, <2>1, GotoStays DEF SkipMac, Locked, ghostVars
<1>5. CASE RequestMac(p)
  <2>1. CASE Return(p) /\ UNCHANGED xattr
    BY <1>t, <1>5, <2>1, ReturnStays DEF RequestMac, ghostVars
  <2>2. CASE ~(Return(p) /\ UNCHANGED xattr)
    <3>1. /\ xattr' = [xattr EXCEPT ![macOp[p].u].requested = TRUE]
          /\ Goto(p, "rename") /\ UNCHANGED macLock
      BY <1>5, <2>2 DEF RequestMac
    <3>2. xattr' \in [MacReports -> Attributes]
      BY <1>t, <3>1 DEF Attributes
    <3> QED
      BY <1>t, <1>5, <3>1, <3>2, GotoStays DEF RequestMac, Locked, ghostVars
  <2> QED
    BY <2>1, <2>2
<1>6. CASE StartUpload(p)
  <2>0. /\ macOp[p].name = "Upload" /\ macOp[p].pc = "locked"
        /\ UNCHANGED <<ios, macDir, macAtt, macGiven, macServer, requests, unrecorded>>
    BY <1>6 DEF StartUpload, Locked, MacAt
  <2>1. CASE Goto(p, "upload") /\ UNCHANGED <<xattr, macLock, macFaults>>
    BY <1>t, <2>0, <2>1, GotoStays DEF Records
  <2>2. CASE /\ xattr' = [xattr EXCEPT ![macOp[p].u].started = TRUE]
             /\ Goto(p, "upload")
             /\ macLock' = [macLock EXCEPT ![macOp[p].u] = NoMacUser]
             /\ UNCHANGED macFaults
    <3>1. xattr' \in [MacReports -> Attributes]
      BY <1>t, <2>2 DEF Attributes
    <3>2. macLock' \in [MacReports -> MacUsers \cup {NoMacUser}]
      BY <1>t, <2>2
    <3> QED
      BY <1>t, <2>0, <2>2, <3>1, <3>2, GotoStays DEF Records
  <2>3. CASE Return(p) /\ UNCHANGED <<xattr, macFaults>>
    BY <1>t, <2>0, <2>3, ReturnStays
  <2>4. CASE /\ macFaults < MaxMacFaults /\ macFaults' = macFaults + 1
             /\ macOp' = [macOp EXCEPT ![p].name = "Skip", ![p].pc = "locate"]
             /\ macLock' = [macLock EXCEPT ![macOp[p].u] = NoMacUser]
             /\ UNCHANGED xattr
    <3>1. macFaults' \in 0 .. MaxMacFaults
      BY <1>t, <2>4
    <3>2. macLock' \in [MacReports -> MacUsers \cup {NoMacUser}]
      BY <1>t, <2>4
    <3>3. macOp' \in [MacUsers -> Ops] /\ \A q \in MacUsers \ {p} : macOp'[q] = macOp[q]
      <4>1. [macOp[p] EXCEPT !.name = "Skip", !.pc = "locate"] \in Ops
        <5>1. \A op \in Ops : [op EXCEPT !.name = "Skip", !.pc = "locate"] \in Ops
          BY DEF Ops, MacNames
        <5> QED
          BY <1>t, <5>1 DEF Shape
      <4> QED
        BY <1>t, <2>4, <4>1 DEF Shape
    <3>4. /\ macOp'[p].u = macOp[p].u /\ macOp'[p].dir = macOp[p].dir
          /\ macOp'[p].pc = "locate" /\ macOp'[p].name = "Skip"
      BY <1>t, <2>4 DEF Shape, Ops
    <3>5. Doing(macOp'[p]) /\ macOp[p].name \in Lookers
      BY <2>0, <3>4 DEF Doing, Lookers
    <3> QED
      BY <1>t, <2>0, <2>4, <3>1, <3>2, <3>3, <3>4, <3>5, Stays
  <2> QED
    BY <1>6, <2>1, <2>2, <2>3, <2>4 DEF StartUpload
<1>7. CASE SendMac(p)
  <2>1. macOp[p].pc = "upload" /\ macOp[p].name = "Upload"
    BY <1>t, <1>7 DEF SendMac, MacAt, Doing, Records
  <2>2. macLock' \in [MacReports -> MacUsers \cup {NoMacUser}]
    BY <1>t, <1>7 DEF SendMac, Release
  <2>3. \E pc \in {"sent", "unmark", "failed"} : Goto(p, pc)
    BY <1>7 DEF SendMac
  <2> QED
    BY <1>t, <1>7, <2>1, <2>2, <2>3, GotoStays DEF SendMac, Records
<1>8. CASE \/ RemoveStartFailed(p) \/ RecordFailure(p) \/ RemoveRequest(p) \/ RemoveStart(p)
           \/ WriteUploaded(p)
  <2>1. xattr' \in [MacReports -> Attributes] /\ UNCHANGED macDir
    <3>1. /\ UNCHANGED macDir
          /\ \/ UNCHANGED xattr
             \/ xattr' = [xattr EXCEPT ![macOp[p].u].requested = FALSE]
             \/ xattr' = [xattr EXCEPT ![macOp[p].u].started = FALSE]
             \/ xattr' = [xattr EXCEPT ![macOp[p].u].uploaded = TRUE]
             \/ xattr' = [xattr EXCEPT ![macOp[p].u].uploaded = FALSE]
      BY <1>8 DEF RemoveStartFailed, RecordFailure, RemoveRequest, RemoveStart, WriteUploaded,
         RecordStep
    <3>2. \A a \in Attributes, b \in BOOLEAN : /\ [a EXCEPT !.requested = b] \in Attributes
                                               /\ [a EXCEPT !.started = b] \in Attributes
                                               /\ [a EXCEPT !.uploaded = b] \in Attributes
      BY DEF Attributes
    <3>3. \A a \in Attributes : [xattr EXCEPT ![macOp[p].u] = a] \in [MacReports -> Attributes]
      BY <1>t
    <3> DEFINE a == xattr[macOp[p].u]
    <3>4. a \in Attributes
      BY <1>t
    <3>5. xattr' \in {xattr, [xattr EXCEPT ![macOp[p].u] = [a EXCEPT !.requested = FALSE]],
                      [xattr EXCEPT ![macOp[p].u] = [a EXCEPT !.started = FALSE]],
                      [xattr EXCEPT ![macOp[p].u] = [a EXCEPT !.uploaded = TRUE]],
                      [xattr EXCEPT ![macOp[p].u] = [a EXCEPT !.uploaded = FALSE]]}
      BY <1>t, <3>1
    <3> HIDE DEF a
    <3>6. /\ [a EXCEPT !.requested = FALSE] \in Attributes /\ [a EXCEPT !.started = FALSE] \in Attributes
          /\ [a EXCEPT !.uploaded = TRUE] \in Attributes
          /\ [a EXCEPT !.uploaded = FALSE] \in Attributes
      BY <3>2, <3>4
    <3> QED
      BY ONLY <1>t, <3>1, <3>3, <3>5, <3>6
  <2>2. macOp[p].name = "Upload"
    BY <1>t, <1>8 DEF RemoveStartFailed, RecordFailure, RemoveRequest, RemoveStart, WriteUploaded,
       RecordStep, MacAt, Doing, Records
  <2>3. /\ UNCHANGED <<macAtt, macGiven, ios, macServer, requests, unrecorded, macFaults>>
        /\ \/ Return(p)
           \/ (\E pc \in Records : Goto(p, pc)) /\ UNCHANGED macLock
    BY <1>8 DEF RemoveStartFailed, RecordFailure, RemoveRequest, RemoveStart, WriteUploaded,
       RecordStep, ghostVars, Records
  <2>4. CASE Return(p)
    BY <1>t, <2>1, <2>3, <2>4, ReturnStays
  <2>5. ASSUME NEW pc \in Records, Goto(p, pc), UNCHANGED macLock PROVE AttachmentInv'
    BY <1>t, <2>1, <2>2, <2>3, <2>5, GotoStays
  <2> QED
    BY <2>3, <2>4, <2>5
<1>9. CASE Interrupt(p)
  <2>1. macFaults' \in 0 .. MaxMacFaults /\ unrecorded' \subseteq MacReports
    BY <1>t, <1>9 DEF Interrupt
  <2> QED
    BY <1>t, <1>9, <2>1, ReturnStays DEF Interrupt
<1> QED
  BY <1>1, <1>2, <1>3, <1>4, <1>5, <1>6, <1>7, <1>8, <1>9

\* The operations that move a report or remove attachments.
LEMMA MovingActions ==
    ASSUME AttachmentInv, NEW p \in MacUsers,
           \/ FinishMac(p) \/ LocateCrashReport(p) \/ Unlink(p) \/ RemoveAttachments(p)
           \/ RenameMac(p) \/ MarkCompleted(p)
    PROVE  AttachmentInv'
<1>i. MacTypeOK /\ Shape /\ Born /\ Passed /\ MacAttachmentsKept
  BY DEF AttachmentInv
<1>t. /\ macOp[p] # Idle /\ macOp[p].pc # "idle" /\ macOp[p].u \in MacReports /\ Doing(macOp[p])
      /\ macDir \in [MacReports -> {"unborn", "new", "pending", "completed", "gone"}]
      /\ macOp[p].dir \in 1 .. 3
      /\ macAtt \subseteq MacReports /\ macGiven \subseteq MacReports /\ macServer \subseteq MacReports
      /\ \A q \in MacUsers : macOp[q] = Idle \/ macOp[q].u \in MacReports
  <2>1. macOp[p].pc # "idle"
    BY DEF FinishMac, LocateCrashReport, Unlink, Locked, RemoveAttachments, RenameMac, MarkCompleted,
       RecordStep, MacAt
  <2> QED
    BY <1>i, <2>1, Within DEF MacTypeOK
<1>1. CASE FinishMac(p)
  <2>1. /\ UNCHANGED <<ios, xattr, macServer, requests, unrecorded, macFaults>> /\ MacAt(p, "write") /\ Return(p)
        /\ \/ /\ macDir[macOp[p].u] = "new"
              /\ macDir' = [macDir EXCEPT ![macOp[p].u] = "pending"]
              /\ macGiven' = macGiven \cup ({macOp[p].u} \cap macAtt) /\ UNCHANGED macAtt
           \/ /\ macDir' = [macDir EXCEPT ![macOp[p].u] = "gone"]
              /\ macAtt' = macAtt \ {macOp[p].u} /\ UNCHANGED macGiven
    BY <1>1 DEF FinishMac, ghostVars
  <2>2. /\ macOp' \in [MacUsers -> Ops] /\ macOp'[p] = Idle
        /\ \A q \in MacUsers \ {p} : macOp'[q] = macOp[q]
        /\ macLock' \in [MacReports -> MacUsers \cup {NoMacUser}]
    BY <1>i, <2>1, Returns
  <2>3. /\ macDir[macOp[p].u] \in {"new", "gone"} /\ macOp[p].u \notin macGiven
        /\ \A q \in MacUsers \ {p} : MacAt(q, "write") => macOp[q].u # macOp[p].u
    BY <1>i, <2>1 DEF Born
  <2>4. Shape'
    BY <1>i, <2>1, <2>2 DEF Shape
  <2>5. MacTypeOK'
    BY <1>i, <1>t, <2>1, <2>2, <2>4 DEF MacTypeOK, Shape, Ops
  <2>6. Born'
    BY <1>i, <1>t, <2>1, <2>2, <2>3, IdleOp DEF Born, MacAt
  <2>7. Passed' /\ MacAttachmentsKept'
    BY <1>i, <1>t, <2>1, <2>2, <2>3, IdleOp DEF Passed, MacAttachmentsKept
  <2> QED
    BY <2>4, <2>5, <2>6, <2>7 DEF AttachmentInv
<1>2. CASE LocateCrashReport(p)
  <2> DEFINE u == macOp[p].u
             name == macOp[p].name
             found == macDir[u] = Searched(name)[macOp[p].dir]
             last == macOp[p].dir = Len(Searched(name))
  <2>0. /\ macOp[p].pc = "locate" /\ UNCHANGED <<ios, macDir, xattr, macGiven, macServer, requests, unrecorded, macFaults>>
        /\ macAtt' = IF last /\ ~found /\ name = "CleanAttachments" THEN macAtt \ {u} ELSE macAtt
        /\ name \in Lookers \cup {"CleanAttachments"}
    BY <1>t, <1>2 DEF LocateCrashReport, ghostVars, MacAt, Doing, Records
  <2>1. CASE ~found /\ ~last
    <3>1. macOp' = [macOp EXCEPT ![p].dir = @ + 1] /\ UNCHANGED macLock /\ UNCHANGED macAtt
      BY <1>2, <2>0, <2>1 DEF LocateCrashReport
    <3>2. /\ name \in {"Request", "LookUp", "Delete", "CleanAttachments"}
          /\ name = "Request" => macOp[p].dir = 1
          /\ macOp[p].dir + 1 \in 1 .. 3
      <4>1. name \notin {"Upload", "Skip"}
        BY <1>i, <1>t, <2>1, SearchedDirs, Within
      <4>2. name = "Request" => macOp[p].dir = 1
        <5>1. name = "Request" => Len(Searched(name)) = 2 /\ macOp[p].dir \in {1, 2}
          BY <1>i, <1>t, SearchedDirs, Within
        <5> QED
          BY <2>1, <5>1
      <4>3. name \in {"LookUp", "Delete", "CleanAttachments"} => macOp[p].dir # 3
        BY <2>1, SearchedDirs
      <4> QED
        BY <1>t, <2>0, <4>1, <4>2, <4>3 DEF Lookers
    <3>3. /\ macOp' \in [MacUsers -> Ops] /\ \A q \in MacUsers \ {p} : macOp'[q] = macOp[q]
          /\ macOp'[p].u = u /\ macOp'[p].dir = macOp[p].dir + 1
          /\ macOp'[p].pc = "locate" /\ macOp'[p].name = name
      <4>1. [macOp[p] EXCEPT !.dir = macOp[p].dir + 1] \in Ops
        <5>1. \A op \in Ops, d \in 1 .. 3 : [op EXCEPT !.dir = d] \in Ops
          BY DEF Ops
        <5> QED
          BY <1>i, <3>2, <5>1 DEF Shape
      <4> QED
        BY <1>i, <2>0, <3>1, <4>1 DEF Shape, Ops
    <3>4. Doing(macOp'[p])
      BY <2>0, <3>3 DEF Doing
    <3>5. Shape'
      BY <1>i, <1>t, <2>0, <3>2, <3>3, <3>4, Within DEF Shape
    <3>6. MacTypeOK'
      BY <1>i, <1>t, <2>0, <3>1, <3>5 DEF MacTypeOK, Shape, Ops
    <3>7. Born'
      BY <1>i, <1>t, <2>0, <3>1, <3>3 DEF Born, MacAt
    <3>8. name = "CleanAttachments" => /\ macOp[p].dir = 1 => macDir[u] # "new"
                                       /\ macOp[p].dir = 2 => macDir[u] # "pending"
      BY <2>1, SearchedDirs
    <3>9. Passed' /\ MacAttachmentsKept'
      BY <1>i, <1>t, <2>0, <3>1, <3>2, <3>3, <3>8 DEF Passed, MacAttachmentsKept
    <3> QED
      BY <3>5, <3>6, <3>7, <3>9 DEF AttachmentInv
  <2>2. CASE found /\ name # "CleanAttachments"
    <3>1. Goto(p, "lock") /\ UNCHANGED macLock /\ UNCHANGED macAtt
      BY <1>2, <2>0, <2>2 DEF LocateCrashReport
    <3>2. macLock' \in [MacReports -> MacUsers \cup {NoMacUser}] /\ xattr' \in [MacReports -> Attributes]
      BY <1>i, <2>0, <3>1 DEF MacTypeOK, Attributes
    <3> QED
      BY <1>t, <2>0, <2>2, <3>1, <3>2, GotoStays
  <2>3. CASE ~(~found /\ ~last) /\ ~(found /\ name # "CleanAttachments")
    <3>1. Return(p)
      BY <1>2, <2>3 DEF LocateCrashReport
    <3>2. /\ macFaults' \in 0 .. MaxMacFaults /\ xattr' \in [MacReports -> Attributes]
          /\ unrecorded' \subseteq MacReports
      BY <1>i, <2>0 DEF MacTypeOK, Attributes
    <3>3. CASE macAtt' = macAtt
      BY <1>t, <2>0, <3>1, <3>2, <3>3, ReturnStays
    <3>4. CASE last /\ ~found /\ name = "CleanAttachments"
      <4>1. /\ macOp' \in [MacUsers -> Ops] /\ macOp'[p] = Idle
            /\ \A q \in MacUsers \ {p} : macOp'[q] = macOp[q]
            /\ macLock' \in [MacReports -> MacUsers \cup {NoMacUser}]
        BY <1>i, <3>1, Returns
      <4>2. macOp[p].dir = 3 /\ macDir[u] # "completed" /\ macAtt' = macAtt \ {u}
        BY <2>0, <3>4, SearchedDirs
      <4>3. ~requests => u \notin macGiven
        BY <1>i, <3>4, <4>2 DEF Passed, Born
      <4>4. Shape'
        BY <1>i, <2>0, <4>1 DEF Shape
      <4>5. MacTypeOK'
        BY <1>i, <1>t, <2>0, <3>2, <4>1, <4>2, <4>4 DEF MacTypeOK, Shape, Ops
      <4>6. Born'
        BY <1>i, <1>t, <2>0, <4>1, <4>2, IdleOp DEF Born, MacAt
      <4>7. Passed' /\ MacAttachmentsKept'
        BY <1>i, <1>t, <2>0, <4>1, <4>2, <4>3, IdleOp DEF Passed, MacAttachmentsKept
      <4> QED
        BY <4>4, <4>5, <4>6, <4>7 DEF AttachmentInv
    <3> QED
      BY <2>0, <3>3, <3>4
  <2> QED
    BY <2>1, <2>2, <2>3
<1>3. CASE Unlink(p)
  <2>1. /\ UNCHANGED <<ios, xattr, macLock, macAtt, macServer, requests, unrecorded, macFaults>>
        /\ macDir' = [macDir EXCEPT ![macOp[p].u] = "gone"]
        /\ macGiven' = macGiven \ {macOp[p].u} /\ Goto(p, "attachments")
        /\ macOp[p].name = "Delete"
    BY <1>3 DEF Unlink, Locked, ghostVars
  <2>2. /\ macOp' \in [MacUsers -> Ops]
        /\ macOp'[p].pc = "attachments" /\ macOp'[p].u = macOp[p].u
        /\ macOp'[p].name = macOp[p].name /\ macOp'[p].dir = macOp[p].dir
        /\ \A q \in MacUsers \ {p} : macOp'[q] = macOp[q]
    BY <1>i, <2>1, Goes
  <2>3. Shape'
    BY <1>i, <1>t, <2>1, <2>2 DEF Shape, Doing
  <2>4. MacTypeOK'
    BY <1>i, <1>t, <2>1, <2>3 DEF MacTypeOK, Shape, Ops
  <2>5. macDir[macOp[p].u] \notin {"unborn", "new"}
    BY <1>i, <2>1 DEF Born, Lookers
  <2>6. Born'
    BY <1>i, <1>t, <2>1, <2>2, <2>5 DEF Born, MacAt
  <2>7. Passed' /\ MacAttachmentsKept'
    BY <1>i, <1>t, <2>1, <2>2 DEF Passed, MacAttachmentsKept
  <2> QED
    BY <2>3, <2>4, <2>6, <2>7 DEF AttachmentInv
<1>4. CASE RemoveAttachments(p)
  <2>1. /\ UNCHANGED <<ios, macDir, xattr, macGiven, macServer, requests, unrecorded, macFaults>>
        /\ macAtt' = macAtt \ {macOp[p].u} /\ Return(p) /\ MacAt(p, "attachments")
    BY <1>4 DEF RemoveAttachments, ghostVars
  <2>2. /\ macOp' \in [MacUsers -> Ops] /\ macOp'[p] = Idle
        /\ \A q \in MacUsers \ {p} : macOp'[q] = macOp[q]
        /\ macLock' \in [MacReports -> MacUsers \cup {NoMacUser}]
    BY <1>i, <2>1, Returns
  <2>3. macOp[p].u \notin macGiven
    BY <1>i, <2>1 DEF Born
  <2>4. Shape'
    BY <1>i, <2>1, <2>2 DEF Shape
  <2>5. MacTypeOK'
    BY <1>i, <1>t, <2>1, <2>2, <2>4 DEF MacTypeOK, Shape, Ops
  <2>6. Born' /\ Passed' /\ MacAttachmentsKept'
    BY <1>i, <1>t, <2>1, <2>2, <2>3, IdleOp DEF Born, MacAt, Passed, MacAttachmentsKept
  <2> QED
    BY <2>4, <2>5, <2>6 DEF AttachmentInv
<1>5. CASE RenameMac(p) \/ MarkCompleted(p)
  <2>1. /\ UNCHANGED <<ios, xattr, macAtt, macGiven, macServer, requests, unrecorded, macFaults>>
        /\ \/ UNCHANGED macDir
           \/ /\ macDir[macOp[p].u] \in {"new", "pending", "completed"}
              /\ macDir' = [macDir EXCEPT ![macOp[p].u] = "completed"]
           \/ /\ macDir[macOp[p].u] \in {"new", "pending", "completed"}
              /\ macDir' = [macDir EXCEPT ![macOp[p].u] = "pending"]
              /\ requests
        /\ macOp[p].name \in Lookers
    <3>1. CASE RenameMac(p)
      <4>1. /\ UNCHANGED <<ios, xattr, macAtt, macGiven, macServer, requests, unrecorded, macFaults>>
            /\ macDir' = [macDir EXCEPT ![macOp[p].u] =
                             IF ~AtPath(p) THEN @
                             ELSE IF macOp[p].name = "Skip" THEN "completed" ELSE "pending"]
            /\ macOp[p].pc = "rename"
        BY <3>1 DEF RenameMac, ghostVars, MacAt
      <4>2. macOp[p].name \in {"Skip", "Request"}
        BY <1>t, <4>1 DEF Doing, Records
      <4>3. AtPath(p) => macDir[macOp[p].u] \in {"new", "pending", "completed"}
        BY <1>i, <1>t, <4>2, SearchedDirs, Within DEF AtPath
      <4>4. macOp[p].name = "Request" => requests
        BY <1>i, <1>t, Within
      <4> QED
        BY <1>t, <4>1, <4>2, <4>3, <4>4 DEF Lookers
    <3>2. CASE MarkCompleted(p)
      <4>1. macOp[p].name = "Upload"
        BY <1>t, <3>2 DEF MarkCompleted, RecordStep, MacAt, Doing, Records
      <4> QED
        BY <1>t, <3>2, <4>1 DEF MarkCompleted, RecordStep, ghostVars, Lookers
    <3> QED
      BY <1>5, <3>1, <3>2
  <2>2. /\ macOp' \in [MacUsers -> Ops]
        /\ macLock' \in [MacReports -> MacUsers \cup {NoMacUser}]
        /\ \A q \in MacUsers \ {p} : macOp'[q] = macOp[q]
        /\ \/ macOp'[p] = Idle
           \/ /\ macOp'[p].pc \in {"start", "flag"} /\ macOp'[p].u = macOp[p].u
              /\ macOp'[p].name = "Upload" /\ macOp[p].name = "Upload"
              /\ macOp'[p].dir = macOp[p].dir
    <3>1. CASE Return(p)
      BY <1>i, <3>1, Returns
    <3>2. CASE ~Return(p)
      <4>1. PICK pc \in {"start", "flag"} : Goto(p, pc) /\ UNCHANGED macLock /\ macOp[p].pc = "move"
        BY <1>5, <3>2 DEF RenameMac, MarkCompleted, RecordStep, MacAt
      <4>2. macOp[p].name = "Upload"
        BY <1>t, <4>1 DEF Doing, Records
      <4> QED
        BY <1>i, <4>1, <4>2, Goes DEF MacTypeOK, Records
    <3> QED
      BY <3>1, <3>2
  <2>3. Shape'
    BY <1>i, <1>t, <2>1, <2>2, Within DEF Shape, Doing, Records
  <2>4. MacTypeOK'
    BY <1>i, <1>t, <2>1, <2>2, <2>3 DEF MacTypeOK, Shape, Ops
  <2>5. macDir[macOp[p].u] \in {"pending", "completed", "gone"}
    BY <1>i, <1>t, <2>1 DEF Born
  <2>6. Born'
    BY <1>i, <1>t, <2>1, <2>2, <2>5, IdleOp DEF Born, MacAt, Lookers
  <2>7. Passed' /\ MacAttachmentsKept'
    BY <1>i, <1>t, <2>1, <2>2, <2>5, IdleOp DEF Passed, MacAttachmentsKept
  <2> QED
    BY <2>3, <2>4, <2>6, <2>7 DEF AttachmentInv
<1> QED
  BY <1>1, <1>2, <1>3, <1>4, <1>5

\* AttachmentInv is inductive.
LEMMA AttachmentNext == AttachmentInv /\ [MacNext]_macVars => AttachmentInv'
<1> SUFFICES ASSUME AttachmentInv, [MacNext]_macVars PROVE AttachmentInv'
  OBVIOUS
<1>i. /\ MacTypeOK /\ Shape /\ Born /\ Passed /\ MacAttachmentsKept
      /\ macDir \in [MacReports -> {"unborn", "new", "pending", "completed", "gone"}]
      /\ macAtt \subseteq MacReports /\ macGiven \subseteq MacReports /\ macServer \subseteq MacReports
      /\ \A q \in MacUsers : macOp[q] = Idle \/ macOp[q].u \in MacReports
  BY DEF AttachmentInv, MacTypeOK
<1>0. CASE UNCHANGED macVars
  BY <1>i, <1>0 DEF macVars, AttachmentInv, MacTypeOK, Shape, Born, Passed, MacAttachmentsKept, MacAt
<1>1. ASSUME NEW p \in MacUsers, NEW u \in MacReports, PrepareMac(p, u) PROVE AttachmentInv'
  <2>1. /\ UNCHANGED <<ios, xattr, macLock, macGiven, macServer, requests, unrecorded, macFaults>>
        /\ macOp[p] = Idle /\ macDir[u] = "unborn"
        /\ macDir' = [macDir EXCEPT ![u] = "new"]
        /\ macAtt' \in {macAtt, macAtt \cup {u}}
        /\ macOp' = [macOp EXCEPT ![p] = [name |-> "Finish", u |-> u, pc |-> "write", dir |-> 1]]
    BY <1>1 DEF PrepareMac, ghostVars
  <2>2. /\ macOp' \in [MacUsers -> Ops] /\ \A q \in MacUsers \ {p} : macOp'[q] = macOp[q]
        /\ macOp'[p].name = "Finish" /\ macOp'[p].u = u /\ macOp'[p].pc = "write"
        /\ macOp'[p].dir = 1
    BY <1>i, <2>1 DEF Shape, Ops
  <2>3. Shape'
    BY <1>i, <2>1, <2>2 DEF Shape, Doing
  <2>4. MacTypeOK'
    BY <1>i, <2>1, <2>3 DEF MacTypeOK, Shape, Ops
  <2>5. Born'
    BY <1>i, <2>1, <2>2, IdleOp DEF Born, MacAt, Lookers
  <2>6. Passed' /\ MacAttachmentsKept'
    BY <1>i, <2>1, <2>2, IdleOp DEF Passed, MacAttachmentsKept
  <2> QED
    BY <2>3, <2>4, <2>5, <2>6 DEF AttachmentInv
<1>2. ASSUME NEW p \in MacUsers, NEW u \in MacReports, NEW name \in MacNames, BeginMac(p, name, u)
      PROVE  AttachmentInv'
  <2>1. /\ UNCHANGED <<ios, macDir, xattr, macLock, macAtt, macGiven, macServer, unrecorded,
                       macFaults>>
        /\ requests' = (requests \/ name = "Request")
        /\ macOp' = [macOp EXCEPT ![p] = [name |-> name, u |-> u, pc |-> "locate", dir |-> 1]]
        /\ name = "CleanAttachments" => u \in macAtt
        /\ name # "CleanAttachments" => macDir[u] \notin {"unborn", "new"}
    BY <1>2 DEF BeginMac
  <2>2. /\ macOp' \in [MacUsers -> Ops] /\ \A q \in MacUsers \ {p} : macOp'[q] = macOp[q]
        /\ macOp'[p].name = name /\ macOp'[p].u = u /\ macOp'[p].pc = "locate"
        /\ macOp'[p].dir = 1 /\ requests' \in BOOLEAN
    BY <1>i, <2>1 DEF Shape, Ops
  <2>3. Doing(macOp'[p])
    BY <2>2 DEF Doing, MacNames, Lookers
  <2>4. Shape'
    BY <1>i, <2>1, <2>2, <2>3 DEF Shape
  <2>5. MacTypeOK'
    BY <1>i, <2>1, <2>4 DEF MacTypeOK, Shape, Ops
  <2>6. Born'
    BY <1>i, <2>1, <2>2 DEF Born, MacAt, Lookers
  <2>7. Passed' /\ MacAttachmentsKept'
    <3>1. ~requests' => ~requests
      BY <2>1
    <3>2. Passed'
      BY <1>i, <2>1, <2>2, <3>1 DEF Passed, Born
    <3>3. MacAttachmentsKept'
      BY <1>i, <2>1, <3>1 DEF MacAttachmentsKept
    <3> QED
      BY <3>2, <3>3
  <2> QED
    BY <2>4, <2>5, <2>6, <2>7 DEF AttachmentInv
<1>3. ASSUME NEW u \in MacReports, CleanNewMac(u) PROVE AttachmentInv'
  <2>1. /\ UNCHANGED <<ios, xattr, macLock, macOp, macAtt, macGiven, macServer, requests, unrecorded, macFaults>>
        /\ macDir[u] = "new" /\ macDir' = [macDir EXCEPT ![u] = "gone"]
    BY <1>3 DEF CleanNewMac, ghostVars
  <2>2. MacTypeOK' /\ Shape'
    BY <1>i, <2>1 DEF MacTypeOK, Shape
  <2>3. Born' /\ Passed' /\ MacAttachmentsKept'
    BY <1>i, <2>1, IdleOp DEF Born, Passed, MacAttachmentsKept, MacAt
  <2> QED
    BY <2>2, <2>3 DEF AttachmentInv
<1>4. ASSUME NEW p \in MacUsers,
             \/ ObtainReportLock(p) \/ PathGone(p) \/ ReadLocked(p) \/ SkipMac(p) \/ RequestMac(p)
             \/ StartUpload(p) \/ SendMac(p) \/ RemoveStartFailed(p) \/ RecordFailure(p)
             \/ RemoveRequest(p) \/ RemoveStart(p) \/ WriteUploaded(p) \/ Interrupt(p)
      PROVE  AttachmentInv'
  BY <1>4, StayingActions
<1>5. ASSUME NEW p \in MacUsers,
             \/ FinishMac(p) \/ LocateCrashReport(p) \/ Unlink(p) \/ RemoveAttachments(p)
             \/ RenameMac(p) \/ MarkCompleted(p)
      PROVE  AttachmentInv'
  BY <1>5, MovingActions
<1> QED
  BY <1>0, <1>1, <1>2, <1>3, <1>4, <1>5 DEF MacNext

\* In every behaviour of the database, AttachmentInv holds.
LEMMA AttachmentAlways == MacSpec => []AttachmentInv
<1>1. ASSUME MacInit PROVE AttachmentInv
  <2>1. Shape
    BY <1>1, IdleOp DEF MacInit, Shape
  <2>2. MacTypeOK
    BY <1>1, IdleOp DEF MacInit, MacTypeOK
  <2>3. Born /\ Passed /\ MacAttachmentsKept
    BY <1>1, IdleOp DEF MacInit, Born, Passed, MacAttachmentsKept, MacAt
  <2> QED
    BY <2>1, <2>2, <2>3 DEF AttachmentInv
<1> QED
  BY <1>1, AttachmentNext, PTL DEF MacSpec

\* Every variable of the macOS and iOS database keeps its type.
THEOREM MacTypes == MacSpec => []MacTypeOK
<1>1. AttachmentInv => MacTypeOK
  BY DEF AttachmentInv
<1> QED
  BY <1>1, AttachmentAlways, PTL

\* Until RequestUpload() is called, CleanOrphanedAttachments() never takes the attachments of
\* a report that was finished and not deleted, though the report moves while it is looked for
\* and whoever is killed.
THEOREM MacAttachmentsStay == MacSpec => []MacAttachmentsKept
<1>1. AttachmentInv => MacAttachmentsKept
  BY DEF AttachmentInv
<1> QED
  BY <1>1, AttachmentAlways, PTL

----------------------------------------------------------------------------
(***************************************************************************)
(* Who uploads.  On macOS an uploader has the lock of its report until it  *)
(* has recorded a success, or has failed; on iOS it has left a mark on it. *)
(***************************************************************************)

\* Where an uploader of macOS has the lock.
Keeping == {"upload", "sent", "move", "start", "flag"}

Held(p) == macOp[p].pc \in {"locked", "rename", "attachments"} \/ (~ios /\ macOp[p].pc \in Keeping)
HasLock == \A p \in MacUsers : Held(p) => macLock[macOp[p].u] = p

\* p sends u, or records what became of it, and has not moved or unmarked it yet.
Sending(p, u) == macOp[p].u = u /\ macOp[p].pc \in {"upload", "sent", "unmark", "move"}

\* p has sent u, and is to record it.
Recording(p, u) == macOp[p].u = u /\ macOp[p].pc \in {"sent", "move", "start", "flag"}

\* p has taken the mark of an upload away, and is to move the report.
Skipping(p, u) == macOp[p].u = u /\ macOp[p].pc = "rename" /\ macOp[p].name = "Skip"

\* Nobody sends u, or has failed to, if the server has it.
Unsent(u) ==
    \A p \in MacUsers : macOp[p].u = u /\ macOp[p].pc \in {"upload", "unmark"} => u \notin macServer

\* macOS: a report stays where its uploader found it, nobody moves one back that was
\* uploaded, and one that the server has says so, or will.
LockedReport(u) ==
    /\ \A p \in MacUsers : macOp[p].u = u =>
         /\ macOp[p].pc \in {"upload", "sent", "move"} => macDir[u] = "pending"
         /\ macOp[p].pc = "flag" => macDir[u] = "completed"
         /\ macOp[p].pc \notin {"start", "unmark"}
         /\ macOp[p].pc = "rename" /\ macOp[p].name = "Request" => ~xattr[u].uploaded
    /\ u \notin unrecorded =>
         /\ Unsent(u)
         /\ u \in macServer => \/ \E p \in MacUsers : Recording(p, u)
                               \/ macDir[u] = "completed" /\ xattr[u].uploaded
                               \/ macDir[u] = "gone"

\* iOS: nobody can begin to upload u, because it is not pending, is marked, or somebody is
\* just moving it.
Guarded(u) ==
    \/ macDir[u] # "pending" \/ xattr[u].started
    \/ \E q \in MacUsers : Skipping(q, u)

\* iOS: a report has one uploader, and nobody can begin to upload one that has an uploader,
\* or that the server has.
MarkedReport(u) ==
    /\ Unsent(u)
    /\ u \in macServer => Guarded(u)
    /\ \A p \in MacUsers : Sending(p, u) => Guarded(u) /\ \A q \in MacUsers \ {p} : ~Sending(q, u)

UploadInv ==
    /\ HasLock
    /\ ~ios => \A u \in MacReports : LockedReport(u)
    /\ ios /\ ~requests => \A u \in MacReports \ unrecorded : MarkedReport(u)

\* A step of p on u need only be looked at for u.
LEMMA Frame ==
    ASSUME UploadInv, NEW p \in MacUsers, NEW u \in MacReports,
           \A q \in MacUsers \ {p} : macOp'[q] = macOp[q],
           macOp[p] = Idle \/ macOp[p].u = u,
           macOp'[p] = Idle \/ macOp'[p].u = u,
           \A v \in MacReports \ {u} : /\ macDir'[v] = macDir[v] /\ xattr'[v] = xattr[v]
                                       /\ v \in macServer' <=> v \in macServer,
           unrecorded \subseteq unrecorded', ios' = ios, ~requests' => ~requests,
           HasLock',
           ~ios => LockedReport(u)',
           ios /\ ~requests' /\ u \notin unrecorded' => MarkedReport(u)'
    PROVE  UploadInv'
<1>1. ASSUME ~ios, NEW v \in MacReports \ {u} PROVE LockedReport(v)'
  BY <1>1, IdleOp DEF UploadInv, LockedReport, Unsent, Recording
<1>2. ASSUME ios, ~requests', NEW v \in MacReports \ {u}, v \notin unrecorded'
      PROVE  MarkedReport(v)'
  <2>1. MarkedReport(v)
    BY <1>2 DEF UploadInv
  <2>2. Unsent(v)'
    BY <1>2, <2>1, IdleOp DEF MarkedReport, Unsent
  <2>3. \A q \in MacUsers : /\ Sending(q, v)' <=> Sending(q, v)
                            /\ Skipping(q, v)' <=> Skipping(q, v)
    BY IdleOp DEF Sending, Skipping
  <2> QED
    BY <2>1, <2>2, <2>3 DEF MarkedReport, Guarded
<1> QED
  BY <1>1, <1>2 DEF UploadInv

\* Returning releases only one's own locks, and going on within an operation none.
LEMMA LockReturned ==
    ASSUME MacTypeOK, Shape, HasLock, NEW p \in MacUsers, Return(p), UNCHANGED ios
    PROVE  HasLock'
<1>1. /\ macOp'[p] = Idle
      /\ \A q \in MacUsers \ {p} : macOp'[q] = macOp[q]
      /\ \A u \in MacReports : macLock'[u] = IF macLock[u] = p THEN NoMacUser ELSE macLock[u]
  BY Returns
<1>2. \A q \in MacUsers : Held(q) => macOp[q].u \in MacReports
  BY Within DEF Held, Keeping
<1>3. ~Held(p)'
  BY <1>1, IdleOp DEF Held, Keeping
<1>4. \A q \in MacUsers \ {p} : Held(q)' => Held(q)
  BY <1>1 DEF Held
<1> QED
  BY <1>1, <1>2, <1>3, <1>4 DEF HasLock

LEMMA LockKept ==
    ASSUME HasLock, NEW p \in MacUsers, UNCHANGED <<ios, macLock>>,
           \A q \in MacUsers \ {p} : macOp'[q] = macOp[q],
           Held(p)' => Held(p) /\ macOp'[p].u = macOp[p].u
    PROVE  HasLock'
<1>1. \A q \in MacUsers \ {p} : Held(q)' => Held(q)
  BY DEF Held
<1> QED
  BY <1>1 DEF HasLock

\* A step of p on u that changes nothing an uploader relies on: neither the report nor who
\* uploads it, unless p stops and its report is excused if that matters.
LEMMA Quiet ==
    ASSUME AttachmentInv, UploadInv, NEW p \in MacUsers, NEW u \in MacReports,
           \A q \in MacUsers \ {p} : macOp'[q] = macOp[q],
           macOp[p] = Idle \/ macOp[p].u = u,
           macOp'[p] = Idle \/ macOp'[p].u = u,
           ~LosesRecord(p) \/ u \in unrecorded',
           macOp'[p].pc \notin Records \cup {"rename"},
           \/ macDir'[u] = macDir[u]
           \/ macDir[u] \in {"unborn", "new"},
           \A v \in MacReports \ {u} : macDir'[v] = macDir[v],
           UNCHANGED <<xattr, macServer, ios>>,
           unrecorded \subseteq unrecorded', ~requests' => ~requests,
           HasLock'
    PROVE  UploadInv'
<1>i. Shape /\ Born
  BY DEF AttachmentInv
<1>1. ASSUME NEW q \in MacUsers, macOp[q].pc \in Records \cup {"rename"}
      PROVE  macOp[q].u \in MacReports /\ macOp[q].name \in Lookers
  BY <1>i, <1>1, Within DEF Records, Doing, Lookers
<1>2. macDir[u] \in {"unborn", "new"} =>
        /\ u \notin macServer
        /\ \A q \in MacUsers : macOp[q].pc \in Records \cup {"rename"} => macOp[q].u # u
  BY <1>i, <1>1 DEF Born
<1>3. \A q \in MacUsers : macOp'[q].pc \in Records \cup {"rename"} => q # p /\ macOp'[q] = macOp[q]
  OBVIOUS
<1>4. ASSUME ~ios PROVE LockedReport(u)'
  <2>1. LockedReport(u)
    BY <1>4 DEF UploadInv
  <2>2. \A q \in MacUsers : macOp'[q].u = u =>
         /\ macOp'[q].pc \in {"upload", "sent", "move"} => macDir'[u] = "pending"
         /\ macOp'[q].pc = "flag" => macDir'[u] = "completed"
         /\ macOp'[q].pc \notin {"start", "unmark"}
         /\ macOp'[q].pc = "rename" /\ macOp'[q].name = "Request" => ~xattr'[u].uploaded
    BY <1>2, <1>3, <2>1 DEF LockedReport, Records
  <2>3. ASSUME u \notin unrecorded' PROVE Unsent(u)'
    BY <1>3, <2>1, <2>3 DEF LockedReport, Unsent, Records
  <2>4. ASSUME u \notin unrecorded', u \in macServer'
        PROVE  \/ \E q \in MacUsers : Recording(q, u)'
               \/ macDir'[u] = "completed" /\ xattr'[u].uploaded
               \/ macDir'[u] = "gone"
    <3>1. ~Recording(p, u)
      BY <1>4, <2>1, <2>4, IdleOp DEF LosesRecord, Recording, LockedReport
    <3> QED
      BY <1>2, <2>1, <2>4, <3>1 DEF LockedReport, Recording
  <2> QED
    BY <2>2, <2>3, <2>4 DEF LockedReport
<1>5. ASSUME ios, ~requests', u \notin unrecorded' PROVE MarkedReport(u)'
  <2>1. MarkedReport(u)
    BY <1>5 DEF UploadInv
  <2>2. \A q \in MacUsers : /\ Sending(q, u)' => Sending(q, u)
                            /\ Skipping(q, u) => Skipping(q, u)'
    BY <1>3, <1>5 DEF Sending, Skipping, Records, LosesRecord
  <2>3. Unsent(u)'
    BY <1>3, <2>1 DEF MarkedReport, Unsent, Records
  <2>4. u \in macServer => macDir'[u] = macDir[u]
    BY <1>2
  <2>5. (\E q \in MacUsers : Sending(q, u)) => macDir'[u] = macDir[u]
    BY <1>2 DEF Sending, Records
  <2> QED
    BY <2>1, <2>2, <2>3, <2>4, <2>5 DEF MarkedReport, Guarded
<1>6. \A v \in MacReports \ {u} : /\ macDir'[v] = macDir[v] /\ xattr'[v] = xattr[v]
                                  /\ v \in macServer' <=> v \in macServer
  OBVIOUS
<1> QED
  BY <1>4, <1>5, <1>6, Frame

\* Nobody else that has, or needs, the lock of the report is at work on it.
LEMMA Alone ==
    ASSUME Shape, HasLock, NEW p \in MacUsers, Held(p)
    PROVE  \A q \in MacUsers \ {p} : Held(q) => macOp[q].u # macOp[p].u
BY DEF HasLock

\* An operation that returns without having changed what an uploader relies on.
LEMMA QuietReturn ==
    ASSUME AttachmentInv, UploadInv, NEW p \in MacUsers, macOp[p] # Idle, Return(p),
           ~LosesRecord(p) \/ macOp[p].u \in unrecorded',
           \/ macDir' = macDir
           \/ /\ macDir[macOp[p].u] \in {"unborn", "new"}
              /\ \A v \in MacReports \ {macOp[p].u} : macDir'[v] = macDir[v],
           UNCHANGED <<xattr, macServer, ios, requests>>, unrecorded \subseteq unrecorded'
    PROVE  UploadInv'
<1>1. macOp[p].u \in MacReports /\ MacTypeOK /\ Shape /\ HasLock
  BY DEF AttachmentInv, Shape, UploadInv
<1>2. macOp'[p] = Idle /\ \A q \in MacUsers \ {p} : macOp'[q] = macOp[q]
  BY <1>1, Returns
<1>3. HasLock'
  BY <1>1, LockReturned
<1>4. macOp'[p].pc \notin Records \cup {"rename"}
  BY <1>2, IdleOp DEF Records
<1>5. /\ macDir'[macOp[p].u] = macDir[macOp[p].u] \/ macDir[macOp[p].u] \in {"unborn", "new"}
      /\ \A v \in MacReports \ {macOp[p].u} : macDir'[v] = macDir[v]
  OBVIOUS
<1> QED
  BY <1>1, <1>2, <1>3, <1>4, <1>5, Quiet

\* The operations that change nothing an uploader relies on.
LEMMA QuietActions ==
    ASSUME AttachmentInv, UploadInv, NEW p \in MacUsers,
           \/ FinishMac(p) \/ LocateCrashReport(p) \/ ObtainReportLock(p) \/ PathGone(p)
           \/ ReadLocked(p) \/ RemoveAttachments(p) \/ Interrupt(p)
           \/ \E u \in MacReports : PrepareMac(p, u) \/ \E name \in MacNames : BeginMac(p, name, u)
    PROVE  UploadInv'
<1>i. /\ MacTypeOK /\ Shape /\ Born /\ HasLock
      /\ macLock \in [MacReports -> MacUsers \cup {NoMacUser}]
      /\ macDir \in [MacReports -> {"unborn", "new", "pending", "completed", "gone"}]
  BY DEF AttachmentInv, UploadInv, MacTypeOK
<1>l. \A q \in MacUsers : macOp[q].pc \notin Records \cup {"rename"} => ~LosesRecord(q)
  BY DEF LosesRecord, Records
<1>1. CASE FinishMac(p)
  <2>1. macOp[p].pc = "write" /\ macDir[macOp[p].u] \in {"new", "gone"}
    BY <1>i, <1>1 DEF FinishMac, MacAt, Born
  <2>2. macOp[p] # Idle /\ macOp[p].u \in MacReports /\ ~LosesRecord(p)
    BY <1>i, <1>l, <2>1, Within DEF Records
  <2>3. /\ \A v \in MacReports \ {macOp[p].u} : macDir'[v] = macDir[v]
        /\ macDir[macOp[p].u] = "gone" => macDir' = macDir
    BY <1>i, <1>1, <2>2 DEF FinishMac
  <2>4. macDir' = macDir \/ macDir[macOp[p].u] \in {"unborn", "new"}
    BY <2>1, <2>3
  <2>5. Return(p) /\ UNCHANGED <<xattr, macServer, ios, requests, unrecorded>>
    BY <1>1 DEF FinishMac, ghostVars
  <2> QED
    BY <2>2, <2>3, <2>4, <2>5, QuietReturn
<1>2. CASE LocateCrashReport(p)
  <2>1. macOp[p].pc = "locate" /\ UNCHANGED <<macDir, xattr, macServer, ios, requests, unrecorded, macFaults>>
    BY <1>2 DEF LocateCrashReport, MacAt, ghostVars
  <2>2. macOp[p] # Idle /\ macOp[p].u \in MacReports /\ ~LosesRecord(p)
    BY <1>i, <1>l, <2>1, Within DEF Records
  <2>3. CASE Return(p)
    BY <2>1, <2>2, <2>3, QuietReturn
  <2>4. CASE ~Return(p)
    <3>1. /\ UNCHANGED macLock
          /\ \/ macOp' = [macOp EXCEPT ![p].dir = @ + 1]
             \/ macOp' = [macOp EXCEPT ![p].pc = "lock"]
      BY <1>2, <2>4 DEF LocateCrashReport, Goto
    <3>2. /\ \A q \in MacUsers \ {p} : macOp'[q] = macOp[q]
          /\ macOp'[p].u = macOp[p].u /\ macOp'[p].pc \in {"locate", "lock"}
      BY <1>i, <2>1, <3>1 DEF Shape, Ops
    <3>3. HasLock'
      BY <1>i, <2>1, <3>1, <3>2, LockKept DEF Held, Keeping
    <3> QED
      BY <2>1, <2>2, <3>2, <3>3, Quiet DEF Records
  <2> QED
    BY <2>3, <2>4
<1>3. CASE ObtainReportLock(p)
  <2>1. macOp[p].pc = "lock" /\ UNCHANGED <<macDir, xattr, macServer, ios, requests, unrecorded, macFaults>>
    BY <1>3 DEF ObtainReportLock, MacAt, ghostVars
  <2>2. macOp[p] # Idle /\ macOp[p].u \in MacReports /\ ~LosesRecord(p)
    BY <1>i, <1>l, <2>1, Within DEF Records
  <2>3. CASE Return(p)
    BY <2>1, <2>2, <2>3, QuietReturn
  <2>4. CASE ~Return(p)
    <3>1. /\ macLock[macOp[p].u] = NoMacUser /\ Goto(p, "locked")
          /\ macLock' = [macLock EXCEPT ![macOp[p].u] = p]
      BY <1>3, <2>4 DEF ObtainReportLock, Lockable
    <3>2. /\ \A q \in MacUsers \ {p} : macOp'[q] = macOp[q]
          /\ macOp'[p].u = macOp[p].u /\ macOp'[p].pc = "locked"
      BY <1>i, <3>1, Goes
    <3>3. \A q \in MacUsers \ {p} : Held(q)' => Held(q)
      BY <2>1, <3>2 DEF Held
    <3>4. HasLock'
      BY <1>i, <2>2, <3>1, <3>2, <3>3 DEF HasLock
    <3> QED
      BY <2>1, <2>2, <3>2, <3>4, Quiet DEF Records
  <2> QED
    BY <2>3, <2>4
<1>4. CASE PathGone(p) \/ ReadLocked(p) \/ RemoveAttachments(p)
  <2>1. /\ macOp[p].pc \in {"locked", "attachments"} /\ Return(p)
        /\ UNCHANGED <<macDir, xattr, macServer, ios, requests, unrecorded, macFaults>>
    BY <1>4 DEF PathGone, ReadLocked, RemoveAttachments, Locked, MacAt, ghostVars
  <2>2. macOp[p] # Idle /\ ~LosesRecord(p)
    BY <1>l, <2>1, IdleOp DEF Records
  <2> QED
    BY <2>1, <2>2, QuietReturn
<1>5. CASE Interrupt(p)
  <2>1. /\ macOp[p] # Idle /\ Return(p)
        /\ unrecorded' = unrecorded \cup {u \in MacReports : macOp[p].u = u /\ LosesRecord(p)}
        /\ UNCHANGED <<ios, macDir, xattr, macServer, requests>>
    BY <1>5 DEF Interrupt
  <2>2. macOp[p].u \in MacReports
    BY <1>i, <2>1 DEF Shape
  <2>3. unrecorded \subseteq unrecorded' /\ (~LosesRecord(p) \/ macOp[p].u \in unrecorded')
    BY <2>1, <2>2
  <2> QED
    BY <2>1, <2>3, QuietReturn
<1>6. ASSUME NEW u \in MacReports, PrepareMac(p, u) PROVE UploadInv'
  <2>1. /\ UNCHANGED <<ios, xattr, macLock, macServer, requests, unrecorded, macFaults>>
        /\ macOp[p] = Idle /\ macDir[u] = "unborn" /\ \A v \in MacReports \ {u} : macDir'[v] = macDir[v]
        /\ macOp' = [macOp EXCEPT ![p] = [name |-> "Finish", u |-> u, pc |-> "write", dir |-> 1]]
    BY <1>i, <1>6 DEF PrepareMac, ghostVars
  <2>2. /\ \A q \in MacUsers \ {p} : macOp'[q] = macOp[q]
        /\ macOp'[p].u = u /\ macOp'[p].pc = "write"
    BY <1>i, <2>1 DEF Shape
  <2>3. HasLock'
    BY <1>i, <2>1, <2>2, LockKept DEF Held, Keeping
  <2>4. ~LosesRecord(p)
    BY <1>l, <2>1, IdleOp DEF Records
  <2> QED
    BY <2>1, <2>2, <2>3, <2>4, Quiet DEF Records
<1>7. ASSUME NEW u \in MacReports, NEW name \in MacNames, BeginMac(p, name, u) PROVE UploadInv'
  <2>1. /\ UNCHANGED <<ios, macDir, xattr, macLock, macServer, unrecorded>> /\ macOp[p] = Idle
        /\ macOp' = [macOp EXCEPT ![p] = [name |-> name, u |-> u, pc |-> "locate", dir |-> 1]]
    BY <1>7 DEF BeginMac
  <2>2. ~requests' => ~requests
    BY <1>7 DEF BeginMac
  <2>3. /\ \A q \in MacUsers \ {p} : macOp'[q] = macOp[q]
        /\ macOp'[p].u = u /\ macOp'[p].pc = "locate"
    BY <1>i, <2>1 DEF Shape
  <2>4. HasLock'
    BY <1>i, <2>1, <2>3, LockKept DEF Held, Keeping
  <2>5. ~LosesRecord(p)
    BY <1>l, <2>1, IdleOp DEF Records
  <2> QED
    BY <2>1, <2>2, <2>3, <2>4, <2>5, Quiet DEF Records
<1> QED
  BY <1>1, <1>2, <1>3, <1>4, <1>5, <1>6, <1>7

\* On macOS, a step of the user that has the lock of u need only be looked at for that user.
LEMMA LockedBy ==
    ASSUME Shape, HasLock, ~ios, NEW p \in MacUsers, NEW u \in MacReports, Held(p), macOp[p].u = u,
           \A q \in MacUsers \ {p} : macOp'[q] = macOp[q],
           LockedReport(u),
           macOp'[p].pc \in {"upload", "sent", "move"} => macDir'[u] = "pending",
           macOp'[p].pc = "flag" => macDir'[u] = "completed",
           macOp'[p].pc \notin {"start", "unmark"},
           macOp'[p].pc = "rename" /\ macOp'[p].name = "Request" => ~xattr'[u].uploaded,
           unrecorded \subseteq unrecorded',
           u \notin unrecorded' =>
             /\ macOp'[p].pc = "upload" => u \notin macServer'
             /\ u \in macServer' => \/ Recording(p, u)'
                                    \/ macDir'[u] = "completed" /\ xattr'[u].uploaded
                                    \/ macDir'[u] = "gone"
    PROVE  LockedReport(u)'
<1>1. \A q \in MacUsers \ {p} : macOp[q].u = u => macOp[q].pc \notin Keeping \cup {"rename", "unmark"}
  BY Alone DEF Held, LockedReport
<1> QED
  BY <1>1 DEF LockedReport, Unsent, Keeping

\* On macOS, the server does not have the report that a user has locked, unless it says so,
\* or this user is the one to record it.
LEMMA ServerKnown ==
    ASSUME Shape, HasLock, ~ios, NEW p \in MacUsers, NEW u \in MacReports, Held(p), macOp[p].u = u,
           LockedReport(u), u \notin unrecorded, u \in macServer
    PROVE  Recording(p, u) \/ macDir[u] = "gone" \/ (macDir[u] = "completed" /\ xattr[u].uploaded)
<1>1. \A q \in MacUsers \ {p} : ~Recording(q, u)
  BY Alone DEF Held, Recording, Keeping
<1> QED
  BY <1>1 DEF LockedReport

\* The operations of those that have a report locked, and are not uploading it.
LEMMA LockedActions ==
    ASSUME AttachmentInv, UploadInv, NEW p \in MacUsers,
           Unlink(p) \/ SkipMac(p) \/ RequestMac(p) \/ RenameMac(p)
    PROVE  UploadInv'
<1>i. /\ MacTypeOK /\ Shape /\ Born /\ HasLock
      /\ xattr \in [MacReports -> Attributes]
      /\ macDir \in [MacReports -> {"unborn", "new", "pending", "completed", "gone"}]
  BY DEF AttachmentInv, UploadInv, MacTypeOK, Attributes
<1>1. macOp[p].pc \in {"locked", "rename"} /\ UNCHANGED <<ios, macServer, requests, unrecorded, macFaults>>
  BY DEF Unlink, SkipMac, RequestMac, RenameMac, Locked, MacAt, ghostVars
<1>u. PICK u \in MacReports : macOp[p].u = u
  BY <1>i, <1>1, Within
<1>t. /\ macOp[p].pc \in {"locked", "rename"} /\ macOp[p] # Idle /\ macOp[p].u = u /\ Held(p)
      /\ macOp[p].name \in {"Upload", "Skip"} => macOp[p].dir = 1
      /\ macOp[p].name = "Request" => requests /\ macOp[p].dir \in {1, 2}
      /\ macOp[p].pc = "rename" => macOp[p].name \in {"Skip", "Request"}
      /\ UNCHANGED <<ios, macServer, requests, unrecorded, macFaults>>
  BY <1>i, <1>1, <1>u, Within DEF Held, Doing, Records
<1>m. ~ios => LockedReport(u)
  BY <1>t DEF UploadInv
<1>s. ios /\ ~requests /\ u \notin unrecorded => MarkedReport(u)
  BY <1>t DEF UploadInv
<1>2. CASE Unlink(p)
  <2>1. /\ UNCHANGED <<xattr, macLock>> /\ macDir' = [macDir EXCEPT ![u] = "gone"]
        /\ Goto(p, "attachments")
    BY <1>t, <1>2 DEF Unlink
  <2>2. /\ \A q \in MacUsers \ {p} : macOp'[q] = macOp[q]
        /\ macOp'[p].pc = "attachments" /\ macOp'[p].u = u
    BY <1>i, <1>t, <2>1, Goes
  <2>3. macDir'[u] = "gone" /\ \A v \in MacReports \ {u} : macDir'[v] = macDir[v]
    BY <1>i, <1>t, <2>1
  <2>4. HasLock'
    BY <1>i, <1>t, <2>1, <2>2, LockKept
  <2>5. ~ios => LockedReport(u)'
    BY <1>i, <1>t, <1>m, <2>2, <2>3, LockedBy
  <2>6. ASSUME ios, ~requests, u \notin unrecorded PROVE MarkedReport(u)'
    BY <1>s, <1>t, <2>2, <2>3, <2>6 DEF MarkedReport, Guarded, Unsent, Sending
  <2> QED
    BY <1>t, <2>1, <2>2, <2>3, <2>4, <2>5, <2>6, Frame
<1>3. CASE SkipMac(p)
  <2>1. /\ UNCHANGED <<macDir, macLock>> /\ Goto(p, "rename") /\ macOp[p].name = "Skip" /\ AtPath(p)
        /\ \A v \in MacReports \ {u} : xattr'[v] = xattr[v]
        /\ macOp[p].pc = "locked"
    BY <1>i, <1>t, <1>3 DEF SkipMac, Locked, MacAt
  <2>2. /\ \A q \in MacUsers \ {p} : macOp'[q] = macOp[q]
        /\ macOp'[p].pc = "rename" /\ macOp'[p].u = u /\ macOp'[p].name = "Skip"
    BY <1>i, <1>t, <2>1, Goes
  <2>3. macDir[u] = "pending"
    BY <1>t, <2>1, SearchedDirs DEF AtPath
  <2>4. HasLock'
    BY <1>i, <1>t, <2>1, <2>2, LockKept
  <2>5. ASSUME ~ios PROVE LockedReport(u)'
    <3>1. u \notin unrecorded => u \notin macServer
      BY <1>i, <1>t, <1>m, <2>1, <2>3, <2>5, ServerKnown DEF Recording
    <3> QED
      BY <1>i, <1>t, <1>m, <2>2, <2>5, <3>1, LockedBy
  <2>6. ASSUME ios, ~requests, u \notin unrecorded PROVE MarkedReport(u)'
    BY <1>s, <1>t, <2>1, <2>2, <2>3, <2>6 DEF MarkedReport, Guarded, Unsent, Sending, Skipping
  <2> QED
    BY <1>t, <2>1, <2>2, <2>4, <2>5, <2>6, Frame
<1>4. CASE RequestMac(p)
  <2>1. /\ macOp[p].name = "Request" /\ AtPath(p) /\ macOp[p].pc = "locked"
        /\ UNCHANGED <<macDir, macServer>>
    BY <1>4 DEF RequestMac, Locked, MacAt, ghostVars
  <2>2. CASE Return(p) /\ UNCHANGED xattr
    BY <1>t, <2>1, <2>2, QuietReturn DEF LosesRecord
  <2>3. CASE ~(Return(p) /\ UNCHANGED xattr)
    <3>1. /\ ~xattr[u].uploaded /\ Goto(p, "rename") /\ UNCHANGED macLock
          /\ xattr' = [xattr EXCEPT ![u].requested = TRUE]
      BY <1>t, <1>4, <2>3 DEF RequestMac
    <3>2. /\ ~xattr'[u].uploaded /\ \A v \in MacReports \ {u} : xattr'[v] = xattr[v]
      BY <1>i, <1>t, <3>1 DEF Attributes
    <3>3. /\ \A q \in MacUsers \ {p} : macOp'[q] = macOp[q]
          /\ macOp'[p].pc = "rename" /\ macOp'[p].u = u
      BY <1>i, <1>t, <3>1, Goes
    <3>4. HasLock'
      BY <1>i, <1>t, <3>1, <3>3, LockKept
    <3>5. macDir[u] \in {"pending", "completed"}
      BY <1>t, <2>1, SearchedDirs DEF AtPath
    <3>6. ASSUME ~ios PROVE LockedReport(u)'
      <4>1. u \notin unrecorded => u \notin macServer
        BY <1>i, <1>t, <1>m, <2>1, <3>1, <3>5, <3>6, ServerKnown DEF Recording
      <4> QED
        BY <1>i, <1>t, <1>m, <3>2, <3>3, <3>6, <4>1, LockedBy
    <3>7. requests
      BY <1>t, <2>1
    <3> QED
      BY <1>t, <2>1, <3>2, <3>3, <3>4, <3>6, <3>7, Frame
  <2> QED
    BY <2>2, <2>3
<1>5. CASE RenameMac(p)
  <2>1. /\ UNCHANGED xattr /\ Return(p) /\ macOp[p].pc = "rename"
        /\ macDir' = [macDir EXCEPT ![u] = IF ~AtPath(p) THEN @
                                           ELSE IF macOp[p].name = "Skip" THEN "completed" ELSE "pending"]
    BY <1>t, <1>5 DEF RenameMac, MacAt
  <2>2. macOp'[p] = Idle /\ \A q \in MacUsers \ {p} : macOp'[q] = macOp[q]
    BY <1>i, <2>1, Returns
  <2>3. HasLock'
    BY <1>i, <1>t, <2>1, LockReturned
  <2>4. /\ \A v \in MacReports \ {u} : macDir'[v] = macDir[v]
        /\ macDir'[u] = macDir[u] \/ (AtPath(p) /\ macDir'[u] \in {"completed", "pending"})
        /\ macOp[p].name = "Skip" /\ AtPath(p) => macDir'[u] = "completed"
    BY <1>i, <1>t, <2>1
  <2>5. /\ macOp[p].name = "Skip" => (AtPath(p) <=> macDir[u] = "pending")
        /\ AtPath(p) => macDir[u] \in {"pending", "completed"}
    BY <1>t, <2>1, SearchedDirs DEF AtPath
  <2>6. ASSUME ~ios PROVE LockedReport(u)'
    <3>1. AtPath(p) /\ u \notin unrecorded => u \notin macServer
      <4>1. macOp[p].name = "Request" => ~xattr[u].uploaded
        BY <1>m, <1>t, <2>1, <2>6 DEF LockedReport
      <4> QED
        BY <1>i, <1>t, <1>m, <2>1, <2>5, <2>6, <4>1, ServerKnown DEF Recording
    <3>2. u \notin unrecorded /\ u \in macServer => \/ macDir[u] = "completed" /\ xattr[u].uploaded
                                                    \/ macDir[u] = "gone"
      BY <1>i, <1>t, <1>m, <2>1, <2>6, ServerKnown DEF Recording
    <3>3. u \notin unrecorded' /\ u \in macServer' => \/ macDir'[u] = "completed" /\ xattr'[u].uploaded
                                                      \/ macDir'[u] = "gone"
      BY <1>t, <2>1, <2>4, <3>1, <3>2
    <3>4. macOp'[p].pc = "idle"
      BY <2>2, IdleOp
    <3> QED
      BY <1>i, <1>t, <1>m, <2>2, <2>6, <3>3, <3>4, LockedBy
  <2>7. ASSUME ios, ~requests, u \notin unrecorded PROVE MarkedReport(u)'
    <3>1. macOp[p].name = "Skip" /\ MarkedReport(u)
      BY <1>s, <1>t, <2>1, <2>7
    <3>2. macDir'[u] = IF macDir[u] = "pending" THEN "completed" ELSE macDir[u]
      BY <2>4, <2>5, <3>1
    <3>3. macOp'[p].pc = "idle"
      BY <2>2, IdleOp
    <3>4. \A q \in MacUsers : (q # p /\ macOp'[q] = macOp[q]) \/ (~Sending(q, u) /\ ~Sending(q, u)')
      BY <2>1, <2>2, <3>3 DEF Sending
    <3> QED
      BY <1>t, <2>2, <3>1, <3>2, <3>3, <3>4 DEF MarkedReport, Guarded, Unsent, Sending
  <2>8. \A v \in MacReports \ {u} : /\ macDir'[v] = macDir[v] /\ xattr'[v] = xattr[v]
                                    /\ v \in macServer' <=> v \in macServer
    BY <1>t, <2>1, <2>4
  <2> QED
    BY <1>t, <2>2, <2>3, <2>6, <2>7, <2>8, Frame
<1> QED
  BY <1>2, <1>3, <1>4, <1>5

\* GetReportForUploading() of macOS and of iOS, which needs the mark to be absent.
LEMMA StartUploadKeeps ==
    ASSUME AttachmentInv, UploadInv, NEW p \in MacUsers, StartUpload(p)
    PROVE  UploadInv'
<1>i. /\ MacTypeOK /\ Shape /\ Born /\ HasLock
      /\ xattr \in [MacReports -> Attributes]
      /\ macLock \in [MacReports -> MacUsers \cup {NoMacUser}]
  BY DEF AttachmentInv, UploadInv, MacTypeOK, Attributes
<1>1. /\ macOp[p].pc = "locked" /\ macOp[p].name = "Upload" /\ AtPath(p)
      /\ UNCHANGED <<ios, macDir, macServer, requests, unrecorded>>
  BY DEF StartUpload, Locked, MacAt
<1>u. PICK u \in MacReports : macOp[p].u = u
  BY <1>i, <1>1, Within
<1>t. /\ macOp[p].u = u /\ macOp[p] # Idle /\ macOp[p].dir = 1 /\ Held(p)
      /\ ~LosesRecord(p)
  BY <1>i, <1>1, <1>u, Within DEF Held, LosesRecord
<1>d. macDir[u] = "pending"
  BY <1>1, <1>t, SearchedDirs DEF AtPath
<1>2. CASE ~ios /\ Goto(p, "upload") /\ UNCHANGED <<xattr, macLock>>
  <2>1. /\ \A q \in MacUsers \ {p} : macOp'[q] = macOp[q]
        /\ macOp'[p].pc = "upload" /\ macOp'[p].u = u
    BY <1>i, <1>t, <1>2, Goes DEF Records
  <2>2. HasLock'
    BY <1>i, <1>1, <1>t, <1>2, <2>1, LockKept
  <2>3. LockedReport(u)
    BY <1>2 DEF UploadInv
  <2>4. u \notin unrecorded => u \notin macServer
    BY <1>i, <1>1, <1>t, <1>d, <1>2, <2>3, ServerKnown DEF Recording
  <2>5. LockedReport(u)'
    BY <1>i, <1>1, <1>t, <1>d, <1>2, <2>1, <2>3, <2>4, LockedBy
  <2> QED
    BY <1>1, <1>t, <1>2, <2>1, <2>2, <2>5, Frame
<1>3. ASSUME ios, macLock' = [macLock EXCEPT ![u] = NoMacUser],
             \A q \in MacUsers \ {p} : macOp'[q] = macOp[q], macOp'[p].pc \in {"upload", "locate"}
      PROVE  HasLock'
  <2>1. ~Held(p)' /\ \A q \in MacUsers \ {p} : Held(q)' => Held(q)
    BY <1>1, <1>3 DEF Held
  <2>2. \A q \in MacUsers \ {p} : Held(q) => macOp[q].u # u /\ macOp[q].u \in MacReports
    BY <1>i, <1>t, Alone, Within DEF Held, Keeping
  <2> QED
    BY <1>i, <1>3, <2>1, <2>2 DEF HasLock
<1>4. CASE /\ ios /\ ~xattr[u].started
           /\ xattr' = [xattr EXCEPT ![u].started = TRUE]
           /\ Goto(p, "upload")
           /\ macLock' = [macLock EXCEPT ![u] = NoMacUser]
  <2>1. /\ \A q \in MacUsers \ {p} : macOp'[q] = macOp[q]
        /\ macOp'[p].pc = "upload" /\ macOp'[p].u = u
    BY <1>i, <1>t, <1>4, Goes DEF Records
  <2>2. HasLock'
    BY <1>3, <1>4, <2>1
  <2>3. xattr'[u].started /\ \A v \in MacReports \ {u} : xattr'[v] = xattr[v]
    BY <1>i, <1>4 DEF Attributes
  <2>4. ASSUME ~requests, u \notin unrecorded PROVE MarkedReport(u)'
    <3>1. MarkedReport(u)
      BY <1>4, <2>4 DEF UploadInv
    <3>2. \A q \in MacUsers : ~Skipping(q, u)
      BY <1>i, <1>1, <1>t, Alone DEF Skipping, Held
    <3>3. \A q \in MacUsers : ~Sending(q, u)
      BY <1>d, <1>4, <3>1, <3>2 DEF MarkedReport, Guarded
    <3>4. u \notin macServer
      BY <1>d, <1>4, <3>1, <3>2 DEF MarkedReport, Guarded
    <3>5. \A q \in MacUsers \ {p} : ~Sending(q, u)'
      BY <2>1, <3>3 DEF Sending
    <3> QED
      BY <1>1, <2>3, <3>4, <3>5 DEF MarkedReport, Guarded, Unsent, Sending
  <2> QED
    BY <1>1, <1>t, <1>4, <2>1, <2>2, <2>3, <2>4, Frame
<1>5. CASE Return(p) /\ UNCHANGED xattr
  BY <1>1, <1>t, <1>5, QuietReturn
<1>6. CASE /\ ios
           /\ macOp' = [macOp EXCEPT ![p].name = "Skip", ![p].pc = "locate"]
           /\ macLock' = [macLock EXCEPT ![u] = NoMacUser]
           /\ UNCHANGED xattr
  <2>1. /\ \A q \in MacUsers \ {p} : macOp'[q] = macOp[q]
        /\ macOp'[p].pc = "locate" /\ macOp'[p].u = u
    BY <1>i, <1>t, <1>6 DEF Shape, Ops
  <2>2. HasLock'
    BY <1>3, <1>6, <2>1
  <2>3. macOp'[p].pc \notin Records \cup {"rename"}
    BY <2>1 DEF Records
  <2> QED
    BY <1>1, <1>t, <1>6, <2>1, <2>2, <2>3, Quiet
<1> QED
  BY <1>t, <1>2, <1>4, <1>5, <1>6 DEF StartUpload

\* Sending a report, and recording what became of it.
LEMMA RecordActions ==
    ASSUME AttachmentInv, UploadInv, NEW p \in MacUsers,
           \/ SendMac(p) \/ RemoveStartFailed(p) \/ RecordFailure(p) \/ RemoveRequest(p)
           \/ MarkCompleted(p) \/ RemoveStart(p) \/ WriteUploaded(p)
    PROVE  UploadInv'
<1>i. /\ MacTypeOK /\ Shape /\ Born /\ HasLock
      /\ xattr \in [MacReports -> Attributes]
      /\ macDir \in [MacReports -> {"unborn", "new", "pending", "completed", "gone"}]
  BY DEF AttachmentInv, UploadInv, MacTypeOK, Attributes
<1>1. macOp[p].pc \in Records /\ UNCHANGED <<ios, requests, unrecorded, macFaults>>
  BY DEF SendMac, RemoveStartFailed, RecordFailure, RemoveRequest, MarkCompleted, RemoveStart,
     WriteUploaded, RecordStep, MacAt, Records, ghostVars
<1>u. PICK u \in MacReports : macOp[p].u = u
  BY <1>i, <1>1, Within DEF Records
<1>t. /\ macOp[p].u = u /\ macOp[p] # Idle /\ (~ios /\ macOp[p].pc \in Keeping => Held(p))
      /\ macDir[u] \in {"pending", "completed", "gone"}
  <2>1. macOp[p] # Idle /\ macOp[p].name \in Lookers
    BY <1>i, <1>1, Within DEF Records, Lookers
  <2> QED
    BY <1>i, <1>1, <1>u, <2>1 DEF Held, Born
<1>m. ~ios => LockedReport(u)
  BY DEF UploadInv
<1>s. ios /\ ~requests /\ u \notin unrecorded => MarkedReport(u)
  BY DEF UploadInv
<1>2. CASE SendMac(p)
  <2>0. /\ macOp[p].pc = "upload" /\ UNCHANGED <<macDir, xattr>>
        /\ \/ Goto(p, "sent") /\ UNCHANGED macLock /\ macServer' = macServer \cup {u}
           \/ Goto(p, IF ios THEN "unmark" ELSE "failed") /\ Release(p) /\ UNCHANGED macServer
    BY <1>t, <1>2 DEF SendMac, MacAt
  <2>k. ~ios => Held(p)
    BY <1>t, <2>0 DEF Keeping
  <2>1. CASE Goto(p, "sent") /\ UNCHANGED macLock /\ macServer' = macServer \cup {u}
    <3>1. /\ \A q \in MacUsers \ {p} : macOp'[q] = macOp[q]
          /\ macOp'[p].pc = "sent" /\ macOp'[p].u = u
      BY <1>i, <1>t, <2>1, Goes DEF Records
    <3>2. HasLock'
      BY <1>i, <1>1, <1>t, <2>0, <2>1, <3>1, LockKept DEF Held, Keeping
    <3>3. ASSUME ~ios PROVE LockedReport(u)'
      <4>1. macDir[u] = "pending" /\ Recording(p, u)'
        BY <1>m, <1>t, <2>0, <3>1, <3>3 DEF LockedReport, Recording
      <4> QED
        BY <1>i, <1>1, <1>m, <1>t, <2>0, <2>k, <3>1, <3>3, <4>1, LockedBy
    <3>4. ASSUME ios, ~requests, u \notin unrecorded PROVE MarkedReport(u)'
      <4>1. MarkedReport(u) /\ Sending(p, u)
        BY <1>s, <1>t, <2>0, <3>4 DEF Sending
      <4>2. \A q \in MacUsers \ {p} : ~Sending(q, u)'
        BY <3>1, <4>1 DEF MarkedReport, Sending
      <4>3. Unsent(u)'
        BY <3>1, <4>2 DEF Unsent, Sending
      <4>4. Guarded(u)'
        BY <2>0, <3>1, <4>1 DEF MarkedReport, Guarded, Skipping
      <4> QED
        BY <4>2, <4>3, <4>4 DEF MarkedReport
    <3>5. \A v \in MacReports \ {u} : v \in macServer' <=> v \in macServer
      BY <2>1
    <3> QED
      BY <1>1, <1>t, <2>0, <3>1, <3>2, <3>3, <3>4, <3>5, Frame
  <2>2. CASE Goto(p, IF ios THEN "unmark" ELSE "failed") /\ Release(p) /\ UNCHANGED macServer
    <3>1. /\ \A q \in MacUsers \ {p} : macOp'[q] = macOp[q]
          /\ macOp'[p].pc = (IF ios THEN "unmark" ELSE "failed") /\ macOp'[p].u = u
      BY <1>i, <1>t, <2>2, Goes DEF Records
    <3>2. HasLock'
      <4>1. \A v \in MacReports : macLock'[v] = IF macLock[v] = p THEN NoMacUser ELSE macLock[v]
        BY <2>2 DEF Release
      <4>2. ~Held(p)' /\ \A q \in MacUsers \ {p} : Held(q)' => Held(q)
        BY <1>1, <3>1 DEF Held, Keeping
      <4>3. \A q \in MacUsers : Held(q) => macOp[q].u \in MacReports
        BY <1>i, Within DEF Held, Keeping
      <4> QED
        BY <1>i, <3>1, <4>1, <4>2, <4>3 DEF HasLock
    <3>3. ASSUME ~ios PROVE LockedReport(u)'
      <4>1. u \notin unrecorded => u \notin macServer
        BY <1>m, <1>t, <2>0, <3>3 DEF LockedReport, Unsent
      <4> QED
        BY <1>i, <1>1, <1>m, <1>t, <2>0, <2>k, <2>2, <3>1, <3>3, <4>1, LockedBy
    <3>4. ASSUME ios, ~requests, u \notin unrecorded PROVE MarkedReport(u)'
      <4>1. MarkedReport(u) /\ Sending(p, u) /\ u \notin macServer
        BY <1>s, <1>t, <2>0, <3>4 DEF MarkedReport, Unsent, Sending
      <4>2. \A q \in MacUsers \ {p} : ~Sending(q, u)'
        BY <3>1, <4>1 DEF MarkedReport, Sending
      <4>3. Guarded(u)'
        BY <2>0, <3>1, <4>1 DEF MarkedReport, Guarded, Skipping
      <4> QED
        BY <2>2, <4>1, <4>2, <4>3 DEF MarkedReport, Unsent
    <3> QED
      BY <1>1, <1>t, <2>0, <2>2, <3>1, <3>2, <3>3, <3>4, Frame
  <2> QED
    BY <2>0, <2>1, <2>2
<1>3. CASE RemoveStartFailed(p) \/ RecordFailure(p)
  <2>1. /\ macOp[p].pc \in {"unmark", "failed"} /\ UNCHANGED <<macDir, macServer>>
        /\ \/ Return(p) /\ UNCHANGED xattr /\ macDir[u] # "pending"
           \/ /\ macOp[p].pc = "unmark" /\ Goto(p, "failed") /\ UNCHANGED macLock
              /\ xattr' = [xattr EXCEPT ![u].started = FALSE] /\ macDir[u] = "pending"
           \/ /\ macOp[p].pc = "failed" /\ Return(p)
              /\ xattr' = [xattr EXCEPT ![u].uploaded = FALSE] /\ macDir[u] = "pending"
    BY <1>t, <1>3 DEF RemoveStartFailed, RecordFailure, RecordStep, MacAt, ghostVars
  <2>2. macOp[p].pc = "unmark" => ios
    BY <1>m, <1>t DEF LockedReport
  <2>3. ~LosesRecord(p)
    BY <2>1, <2>2 DEF LosesRecord
  <2>4. CASE Return(p) /\ UNCHANGED xattr
    BY <1>1, <1>t, <2>1, <2>3, <2>4, QuietReturn
  <2>5. CASE /\ macOp[p].pc = "unmark" /\ Goto(p, "failed") /\ UNCHANGED macLock
             /\ xattr' = [xattr EXCEPT ![u].started = FALSE]
    <3>1. /\ \A q \in MacUsers \ {p} : macOp'[q] = macOp[q]
          /\ macOp'[p].pc = "failed" /\ macOp'[p].u = u
      BY <1>i, <1>t, <2>5, Goes DEF Records
    <3>2. HasLock'
      BY <1>i, <1>1, <2>5, <3>1, LockKept DEF Held, Keeping
    <3>3. ASSUME ~requests, u \notin unrecorded PROVE MarkedReport(u)'
      <4>1. MarkedReport(u) /\ Sending(p, u) /\ u \notin macServer
        BY <1>s, <1>t, <2>2, <2>5, <3>3 DEF MarkedReport, Unsent, Sending
      <4>2. \A q \in MacUsers : ~Sending(q, u)'
        BY <3>1, <4>1 DEF MarkedReport, Sending
      <4> QED
        BY <2>1, <4>1, <4>2 DEF MarkedReport, Unsent
    <3>4. \A v \in MacReports \ {u} : xattr'[v] = xattr[v]
      BY <1>i, <2>5
    <3> QED
      BY <1>1, <1>t, <2>1, <2>2, <2>5, <3>1, <3>2, <3>3, <3>4, Frame
  <2>6. CASE /\ macOp[p].pc = "failed" /\ Return(p)
             /\ xattr' = [xattr EXCEPT ![u].uploaded = FALSE] /\ macDir[u] = "pending"
    <3>1. /\ macOp'[p] = Idle /\ macOp'[p].pc = "idle"
          /\ \A q \in MacUsers \ {p} : macOp'[q] = macOp[q]
      BY <1>i, <2>6, Returns, IdleOp
    <3>2. HasLock'
      BY <1>1, <1>i, <2>6, LockReturned
    <3>3. /\ \A v \in MacReports \ {u} : xattr'[v] = xattr[v]
          /\ xattr'[u].started = xattr[u].started /\ ~xattr'[u].uploaded
      BY <1>i, <2>6 DEF Attributes
    <3>4. ASSUME ~ios PROVE LockedReport(u)'
      <4>1. LockedReport(u)
        BY <1>m, <3>4
      <4>2. \A q \in MacUsers : macOp'[q].u = u =>
              /\ macOp'[q].pc \in {"upload", "sent", "move"} => macDir'[u] = "pending"
              /\ macOp'[q].pc = "flag" => macDir'[u] = "completed"
              /\ macOp'[q].pc \notin {"start", "unmark"}
              /\ macOp'[q].pc = "rename" /\ macOp'[q].name = "Request" => ~xattr'[u].uploaded
        BY <2>1, <3>1, <3>3, <4>1 DEF LockedReport
      <4>3. u \notin unrecorded => Unsent(u)'
        BY <2>1, <3>1, <4>1 DEF LockedReport, Unsent
      <4>4. u \notin unrecorded /\ u \in macServer => \E q \in MacUsers : Recording(q, u)'
        <5>1. ~Recording(p, u)
          BY <2>6 DEF Recording
        <5> QED
          BY <2>6, <3>1, <4>1, <5>1 DEF LockedReport, Recording
      <4> QED
        BY <1>1, <2>1, <4>2, <4>3, <4>4 DEF LockedReport
    <3>5. ASSUME ios, ~requests, u \notin unrecorded PROVE MarkedReport(u)'
      <4>1. MarkedReport(u)
        BY <1>s, <3>5
      <4>2. \A q \in MacUsers : /\ Sending(q, u)' <=> Sending(q, u)
                                /\ Skipping(q, u)' <=> Skipping(q, u)
        BY <2>6, <3>1 DEF Sending, Skipping
      <4>3. Unsent(u)'
        BY <2>1, <3>1, <4>1 DEF MarkedReport, Unsent
      <4>4. Guarded(u)' <=> Guarded(u)
        BY <2>1, <3>3, <4>2 DEF Guarded
      <4> QED
        BY <2>1, <4>1, <4>2, <4>3, <4>4 DEF MarkedReport
    <3> QED
      BY <1>1, <1>t, <2>1, <3>1, <3>2, <3>3, <3>4, <3>5, Frame
  <2> QED
    BY <2>1, <2>4, <2>5, <2>6
<1>4. CASE RemoveRequest(p) \/ MarkCompleted(p)
  <2>1. /\ macOp[p].pc \in {"sent", "move"} /\ UNCHANGED macServer
        /\ \/ macDir[u] # "pending" /\ Return(p) /\ UNCHANGED <<macDir, xattr>>
           \/ /\ macDir[u] = "pending" /\ UNCHANGED macLock
              /\ \/ /\ Goto(p, "move") /\ UNCHANGED macDir /\ macOp[p].pc = "sent"
                    /\ xattr' = [xattr EXCEPT ![u].requested = FALSE]
                 \/ /\ Goto(p, IF ios THEN "start" ELSE "flag") /\ UNCHANGED xattr
                    /\ macDir' = [macDir EXCEPT ![u] = "completed"] /\ macOp[p].pc = "move"
    BY <1>t, <1>4 DEF RemoveRequest, MarkCompleted, RecordStep, MacAt, ghostVars
  <2>2. CASE macDir[u] # "pending"
    <3>1. Return(p) /\ UNCHANGED <<macDir, xattr>>
      BY <2>1, <2>2
    <3>2. /\ macOp'[p] = Idle /\ macOp'[p].pc = "idle"
          /\ \A q \in MacUsers \ {p} : macOp'[q] = macOp[q]
      BY <1>i, <3>1, Returns, IdleOp
    <3>3. HasLock'
      BY <1>1, <1>i, <3>1, LockReturned
    <3>4. ios
      BY <1>m, <1>t, <2>1, <2>2 DEF LockedReport
    <3>5. ASSUME ~requests, u \notin unrecorded PROVE MarkedReport(u)'
      <4>1. MarkedReport(u) /\ macDir[u] \in {"completed", "gone"}
        BY <1>s, <1>t, <2>2, <3>4, <3>5
      <4> QED
        BY <2>1, <3>1, <3>2, <4>1 DEF MarkedReport, Guarded, Unsent, Sending
    <3> QED
      BY <1>1, <1>t, <2>1, <3>1, <3>2, <3>3, <3>4, <3>5, Frame
  <2>3. CASE macDir[u] = "pending"
    <3>1. PICK pc \in {"move", "start", "flag"} :
            /\ Goto(p, pc) /\ UNCHANGED macLock /\ (pc = "start" => ios) /\ (pc = "flag" => ~ios)
            /\ pc = "move" => macDir'[u] = "pending"
            /\ pc # "move" => macDir'[u] = "completed"
            /\ \A v \in MacReports \ {u} : macDir'[v] = macDir[v] /\ xattr'[v] = xattr[v]
            /\ xattr'[u].started = xattr[u].started
      BY <1>i, <2>1, <2>3 DEF Attributes
    <3>2. /\ \A q \in MacUsers \ {p} : macOp'[q] = macOp[q]
          /\ macOp'[p].pc = pc /\ macOp'[p].u = u
      BY <1>i, <1>t, <3>1, Goes DEF Records
    <3>3. HasLock'
      BY <1>i, <1>1, <1>t, <2>1, <3>1, <3>2, LockKept DEF Held, Keeping
    <3>4. Recording(p, u)'
      BY <3>2 DEF Recording
    <3>5. ASSUME ~ios PROVE LockedReport(u)'
      <4>1. Held(p)
        BY <1>t, <2>1, <3>5 DEF Keeping
      <4> QED
        BY <1>i, <1>1, <1>m, <1>t, <2>1, <3>1, <3>2, <3>4, <3>5, <4>1, LockedBy
    <3>6. ASSUME ios, ~requests, u \notin unrecorded PROVE MarkedReport(u)'
      <4>1. MarkedReport(u) /\ Sending(p, u)
        BY <1>s, <1>t, <2>1, <3>6 DEF Sending
      <4>2. \A q \in MacUsers \ {p} : ~Sending(q, u)'
        BY <3>2, <4>1 DEF MarkedReport, Sending
      <4>3. \A q \in MacUsers : Skipping(q, u) => Skipping(q, u)'
        BY <2>1, <3>2 DEF Skipping
      <4>4. Unsent(u)'
        BY <2>1, <3>2, <4>1 DEF MarkedReport, Unsent
      <4>5. Guarded(u)'
        BY <2>3, <3>1, <4>1, <4>3 DEF MarkedReport, Guarded
      <4> QED
        BY <2>1, <4>2, <4>4, <4>5 DEF MarkedReport
    <3> QED
      BY <1>1, <1>t, <2>1, <3>1, <3>2, <3>3, <3>5, <3>6, Frame
  <2> QED
    BY <2>2, <2>3
<1>5. CASE RemoveStart(p) \/ WriteUploaded(p)
  <2>1. /\ macOp[p].pc \in {"start", "flag"} /\ UNCHANGED <<macServer, macDir>>
        /\ macOp[p].pc = "flag" => Return(p)
        /\ \A v \in MacReports \ {u} : xattr'[v] = xattr[v]
        /\ macDir[u] = "completed" /\ macOp[p].pc = "flag" => xattr'[u].uploaded
        /\ macDir[u] # "completed" => UNCHANGED xattr
        /\ Return(p) \/ (Goto(p, "flag") /\ UNCHANGED macLock)
    BY <1>i, <1>t, <1>5 DEF RemoveStart, WriteUploaded, RecordStep, MacAt, ghostVars, Attributes
  <2>2. /\ \A q \in MacUsers \ {p} : macOp'[q] = macOp[q]
        /\ \/ macOp'[p] = Idle /\ macOp'[p].pc = "idle"
           \/ macOp'[p].u = u /\ macOp'[p].pc = "flag"
    BY <1>i, <1>t, <2>1, Returns, Goes, IdleOp DEF Records
  <2>3. HasLock'
    <3>1. CASE Return(p)
      BY <1>1, <1>i, <3>1, LockReturned
    <3>2. CASE Goto(p, "flag") /\ UNCHANGED macLock
      <4>1. macOp'[p].u = u /\ macOp'[p].pc = "flag"
        BY <1>i, <1>t, <3>2, Goes DEF Records
      <4> QED
        BY <1>i, <1>1, <1>t, <2>1, <2>2, <3>2, <4>1, LockKept DEF Held, Keeping
    <3> QED
      BY <2>1, <3>1, <3>2
  <2>4. ASSUME ~ios PROVE LockedReport(u)'
    <3>1. macOp[p].pc = "flag" /\ macDir[u] = "completed"
      BY <1>m, <1>t, <2>1, <2>4 DEF LockedReport
    <3>2. macOp'[p].pc = "idle" /\ Held(p)
      BY <1>i, <1>t, <2>1, <2>4, <3>1, Returns, IdleOp DEF Keeping
    <3> QED
      BY <1>i, <1>1, <1>m, <1>t, <2>1, <2>2, <2>4, <3>1, <3>2, LockedBy
  <2>5. ASSUME ios, ~requests, u \notin unrecorded PROVE MarkedReport(u)'
    <3>1. MarkedReport(u)
      BY <1>s, <2>5
    <3>2. \A q \in MacUsers : /\ Sending(q, u)' <=> Sending(q, u)
                              /\ Skipping(q, u) => Skipping(q, u)'
      BY <2>1, <2>2 DEF Sending, Skipping
    <3>3. Unsent(u)'
      BY <2>1, <2>2, <3>1 DEF MarkedReport, Unsent
    <3>4. macDir[u] = "pending" => UNCHANGED xattr
      BY <2>1
    <3> QED
      BY <2>1, <3>1, <3>2, <3>3, <3>4 DEF MarkedReport, Guarded
  <2>6. macOp'[p] = Idle \/ macOp'[p].u = u
    BY <2>2
  <2> QED
    BY <1>1, <1>t, <2>1, <2>2, <2>3, <2>4, <2>5, <2>6, Frame
<1> QED
  BY <1>2, <1>3, <1>4, <1>5

\* UploadInv is inductive, given AttachmentInv.
LEMMA UploadNext == AttachmentInv /\ UploadInv /\ [MacNext]_macVars => UploadInv'
<1> SUFFICES ASSUME AttachmentInv, UploadInv, [MacNext]_macVars PROVE UploadInv'
  OBVIOUS
<1>0. CASE UNCHANGED macVars
  BY <1>0 DEF macVars, UploadInv, HasLock, Held, LockedReport, MarkedReport, Guarded, Unsent,
     Sending, Recording, Skipping
<1>1. ASSUME NEW u \in MacReports, CleanNewMac(u) PROVE UploadInv'
  <2>1. /\ UNCHANGED <<ios, xattr, macLock, macOp, macServer, requests, unrecorded, macFaults>>
        /\ macDir[u] = "new" /\ \A v \in MacReports \ {u} : macDir'[v] = macDir[v]
    BY <1>1 DEF CleanNewMac, ghostVars, AttachmentInv, MacTypeOK
  <2>2. /\ u \notin macServer
        /\ \A q \in MacUsers : macOp[q].name \in Lookers => macOp[q].u # u
    BY <2>1 DEF AttachmentInv, Born
  <2>3. \A q \in MacUsers : macOp[q].pc \in Records \cup {"rename"} => macOp[q].name \in Lookers
    BY Within DEF AttachmentInv, Records, Doing, Lookers
  <2>4. HasLock'
    BY <2>1 DEF UploadInv, HasLock, Held
  <2>5. ASSUME NEW v \in MacReports, ~ios PROVE LockedReport(v)'
    BY <2>1, <2>2, <2>3, <2>5 DEF UploadInv, LockedReport, Unsent, Recording, Records
  <2>6. ASSUME NEW v \in MacReports \ unrecorded, ios, ~requests PROVE MarkedReport(v)'
    BY <2>1, <2>2, <2>3, <2>6
       DEF UploadInv, MarkedReport, Guarded, Unsent, Sending, Skipping, Records
  <2> QED
    BY <2>1, <2>4, <2>5, <2>6 DEF UploadInv
<1>2. ASSUME NEW p \in MacUsers,
             \/ FinishMac(p) \/ LocateCrashReport(p) \/ ObtainReportLock(p) \/ PathGone(p)
             \/ ReadLocked(p) \/ RemoveAttachments(p) \/ Interrupt(p)
             \/ \E u \in MacReports : PrepareMac(p, u) \/ \E name \in MacNames : BeginMac(p, name, u)
      PROVE  UploadInv'
  BY <1>2, QuietActions
<1>3. ASSUME NEW p \in MacUsers, Unlink(p) \/ SkipMac(p) \/ RequestMac(p) \/ RenameMac(p)
      PROVE  UploadInv'
  BY <1>3, LockedActions
<1>4. ASSUME NEW p \in MacUsers, StartUpload(p) PROVE UploadInv'
  BY <1>4, StartUploadKeeps
<1>5. ASSUME NEW p \in MacUsers,
             \/ SendMac(p) \/ RemoveStartFailed(p) \/ RecordFailure(p) \/ RemoveRequest(p)
             \/ MarkCompleted(p) \/ RemoveStart(p) \/ WriteUploaded(p)
      PROVE  UploadInv'
  BY <1>5, RecordActions
<1> QED
  BY <1>0, <1>1, <1>2, <1>3, <1>4, <1>5 DEF MacNext

\* Nobody sends a report that the server was known to have, and no two send one at a time,
\* whoever is killed, whatever call fails and however long an upload takes, but for the
\* reports that MacUploadedOnce excuses: ObtainReportLock(), GetReportForUploading() and
\* RecordUploadAttempt().
THEOREM MacUploads == MacSpec => []MacUploadedOnce
<1>1. MacInit => UploadInv
  <2> SUFFICES ASSUME MacInit PROVE UploadInv
    OBVIOUS
  <2>1. \A p \in MacUsers : macOp[p].pc = "idle" /\ macServer = {}
    BY IdleOp DEF MacInit
  <2> QED
    BY <2>1 DEF UploadInv, HasLock, Held, LockedReport, MarkedReport, Unsent, Sending, Keeping, MacInit
<1>2. AttachmentInv /\ UploadInv => MacUploadedOnce
  <2> SUFFICES ASSUME AttachmentInv, UploadInv, ios => ~requests,
                      NEW p \in MacUsers, macOp[p].pc = "upload", macOp[p].u \notin unrecorded
               PROVE  /\ macOp[p].u \notin macServer
                      /\ \A q \in MacUsers \ {p} : ~(MacAt(q, "upload") /\ macOp[q].u = macOp[p].u)
    BY DEF MacUploadedOnce, MacAt
  <2>1. macOp[p].u \in MacReports
    BY Within DEF AttachmentInv
  <2>2. CASE ios
    BY <2>1, <2>2 DEF UploadInv, MarkedReport, Unsent, Sending, MacAt
  <2>3. CASE ~ios
    BY <2>1, <2>3 DEF UploadInv, LockedReport, Unsent, HasLock, Held, Keeping, MacAt
  <2> QED
    BY <2>2, <2>3
<1> QED
  BY <1>1, <1>2, AttachmentAlways, UploadNext, PTL DEF MacSpec
=============================================================================
