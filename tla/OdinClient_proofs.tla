-------------------------- MODULE OdinClient_proofs --------------------------
(***************************************************************************)
(* What OdinEngine promises to a client that has the server to itself: an  *)
(* answer made from sources no older than its Test_All, and, but for       *)
(* VerifyLevel 1, that a wakeup is never lost.  With two clients both are  *)
(* false: the other one's files may be ready or busy when the Test_All     *)
(* raises VerifyDate (run unchecked_reply), and a to-do list may be left   *)
(* with busy files only (run stall).                                       *)
(***************************************************************************)
EXTENDS OdinFresh_proofs

OneClient == \A c, d \in Clients : c = d

-----------------------------------------------------------------------------
(* The invariant *)

\* No file was verified in the future.
VerifyDatesOK == VerifyDate <= CurrentDate /\ \A i \in Files : FileVerify[i] <= CurrentDate

\* A source verified since the last Test_All was seen as it was then, or later.
TestedOK ==
  /\ testDisk \in [Clients -> [Sources -> Nat]] /\ DOMAIN reply = Clients
  /\ \A c \in Clients, s \in Sources :
       /\ disk[s] >= testDisk[c][s]
       /\ FileVerify[s] >= VerifyDate => seen[s] >= testDisk[c][s]

\* What was judged since the last Test_All was judged on inputs verified since.
Judged(f) == (FileVerify[f] >= VerifyDate /\ Status[f] > STAT_Error) \/ Valid(f)
CheckedOK(f) == Judged(f) => f \in Reached \/ \A i \in Inputs[f] : FileVerify[i] >= VerifyDate

\* No file is ready or busy when an idle client may send a Test_All.
NothingLeft ==
  \A c \in Clients : (want[c] = NIL /\ mode = "select" /\ c \notin heard) =>
    \A f \in Derived : ~Dispatched(f)

AnsweredIdle == \A c \in Clients : reply[c] # NIL => want[c] = NIL

CheckInv == /\ VerifyDatesOK /\ TestedOK /\ NothingLeft /\ AnsweredIdle
            /\ \A f \in Derived : CheckedOK(f)

-----------------------------------------------------------------------------

\* What was judged stays checked while the verification of its inputs does.
LEMMA KeepChecked ==
  ASSUME TypeOK, TypeOK', UNCHANGED VerifyDate, NEW f \in Derived, CheckedOK(f),
         \A i \in Files : FileVerify[i] >= VerifyDate => FileVerify'[i] >= VerifyDate,
         Judged(f)' => \/ f \in Reached'
                       \/ Judged(f) /\ f \notin Reached
                       \/ \A i \in Inputs[f] : FileVerify[i] >= VerifyDate
  PROVE  CheckedOK(f)'
<1>1. Inputs[f] \in SUBSET Files
  BY GraphAssumption
<1> QED BY <1>1 DEF CheckedOK

\* A stat of a source shows what is on the disk.
LEMMA StatTested ==
  ASSUME TypeOK, SeenOK, VerifyDatesOK, TestedOK, NEW s \in Sources, StatSource(s),
         UNCHANGED <<disk, VerifyDate, testDisk, reply>>
  PROVE  /\ VerifyDatesOK' /\ TestedOK' /\ FileVerify'[s] >= VerifyDate
         /\ \A i \in Files : i # s => FileVerify'[i] = FileVerify[i]
<1>1. /\ s \in Files /\ CurrentDate \in Nat /\ VerifyDate \in Nat
      /\ \A i \in Files : FileVerify[i] \in Nat
      /\ \A r \in Sources : r \in Files /\ seen[r] \in Nat /\ disk[r] \in Nat
      /\ \A c \in Clients, r \in Sources : testDisk[c][r] \in Nat
  BY DEF Files, TypeOK, TestedOK
<1>2. /\ \A r \in Sources : seen'[r] = IF r = s THEN disk[s] ELSE seen[r]
      /\ CurrentDate' \in {CurrentDate, CurrentDate + 1}
      /\ \A i \in Files : FileVerify'[i] = IF i = s THEN CurrentDate' ELSE FileVerify[i]
  BY <1>1 DEF StatSource, TypeOK
<1>3. VerifyDatesOK'
  BY <1>1, <1>2 DEF VerifyDatesOK
<1>4. TestedOK'
  BY <1>1, <1>2 DEF TestedOK
<1> QED BY <1>1, <1>2, <1>3, <1>4 DEF VerifyDatesOK

\* The versions a Test_All found stay behind those verified since.
LEMMA KeepTested ==
  ASSUME TypeOK, TypeOK', VerifyDatesOK, TestedOK,
         UNCHANGED <<seen, VerifyDate, testDisk>>, DOMAIN reply' = Clients,
         \A s \in Sources : disk'[s] >= disk[s], CurrentDate' >= CurrentDate,
         \A i \in Files : \/ FileVerify'[i] = FileVerify[i]
                          \/ i \notin Sources /\ FileVerify'[i] \in {CurrentDate, CurrentDate'}
  PROVE  /\ VerifyDatesOK' /\ TestedOK'
         /\ \A i \in Files : FileVerify[i] >= VerifyDate => FileVerify'[i] >= VerifyDate
<1>1. /\ CurrentDate \in Nat /\ CurrentDate' \in Nat /\ VerifyDate \in Nat
      /\ \A i \in Files : FileVerify[i] \in Nat /\ FileVerify'[i] \in Nat
      /\ \A s \in Sources : s \in Files /\ disk[s] \in Nat /\ disk'[s] \in Nat
      /\ \A c \in Clients, s \in Sources : testDisk[c][s] \in Nat
  BY DEF Files, TypeOK, TestedOK
<1>2. VerifyDatesOK'
  BY <1>1 DEF VerifyDatesOK
<1>3. TestedOK'
  BY <1>1 DEF TestedOK
<1> QED BY <1>1, <1>2, <1>3 DEF VerifyDatesOK

\* Whatever becomes ready or busy is dealt with before an idle client is heard.
LEMMA LeftStep ==
  ASSUME ~MayCrash, OneClient
  PROVE  TypeInv /\ JobInv /\ DispatchedOK /\ NothingLeft /\ [Next]_vars => NothingLeft'
<1> SUFFICES ASSUME TypeOK, LoopOK, BusyHasOneJob, HeaderOK, JobHasRequest, DispatchedOK,
                    NothingLeft, [Next]_vars
             PROVE  NothingLeft'
  BY DEF TypeInv, JobInv
<1>0. /\ \A s \in Sources : s \in Files /\ s \notin Derived
      /\ \A f \in Derived : f \in Files
      /\ STAT_Unknown \notin {STAT_Ready, STAT_Busy}
  BY GraphAssumption DEF Files, STAT_Unknown, STAT_Ready, STAT_Busy
<1>1. ASSUME \A f \in Derived : Dispatched(f)' => Dispatched(f), mode = "select",
             heard \subseteq heard',
             \A c \in Clients : want'[c] = NIL /\ c \notin heard' => want[c] = NIL
      PROVE  NothingLeft'
  BY <1>1 DEF NothingLeft
<1>2. ASSUME mode' # "select" PROVE NothingLeft'
  BY <1>2 DEF NothingLeft
<1>3. ASSUME UNCHANGED <<Status, mode, want>>, heard \subseteq heard' PROVE NothingLeft'
  BY <1>3 DEF NothingLeft, Dispatched
<1>4. ASSUME NEW s \in Sources, Edit(s) PROVE NothingLeft'
  BY <1>3, <1>4 DEF Edit, fileVars, clientVars, loopVars
<1>5. ASSUME NEW s \in Sources, Test(s) PROVE NothingLeft'
  <2>1. \A f \in Derived : Dispatched(f)' => Dispatched(f)
    BY <1>0, <1>5 DEF Test, ClrStatus, Dispatched
  <2> QED BY <1>1, <1>5, <2>1 DEF Test, Selecting, clientVars
<1>6. ASSUME NEW j \in JobIDs, ToolRead(j) PROVE NothingLeft'
  BY <1>3, <1>6 DEF ToolRead, fileVars, clientVars, loopVars
<1>7. ASSUME NEW j \in JobIDs, JobEnds(j) PROVE NothingLeft'
  <2>1. PICK outcome \in Outcomes \cup {"abort"} : Job_Done(j, outcome)
    BY <1>7 DEF JobEnds
  <2>2. PICK f \in Derived : f = job[j].file
    BY <2>1, JobDoneEffect, JobType
  <2>3. \E st : /\ Status' = [Status EXCEPT ![f] = st]
                /\ st # STAT_Busy /\ st # STAT_Ready
    BY <2>1, <2>2, JobDoneEffect
  <2>4. Status \in [Files -> Statuses]
    BY DEF TypeOK
  <2>5. \A g \in Derived : Dispatched(g)' => Dispatched(g)
    BY <1>0, <2>3, <2>4 DEF Dispatched
  <2> QED BY <1>1, <2>1, <2>5 DEF Job_Done, Hear, Selecting
<1>8. ASSUME NEW c \in Clients, TestAll(c) \/ Interrupt(c) PROVE NothingLeft'
  BY <1>3, <1>8 DEF TestAll, Interrupt, Hear, fileVars
<1>9. ASSUME NEW c \in Clients, NEW f \in Derived, Request(c, f) PROVE NothingLeft'
  <2>1. c \in heard' /\ UNCHANGED <<Status, mode>>
    BY <1>9 DEF Request, Hear, fileVars
  <2> QED BY <1>9, <2>1 DEF OneClient, NothingLeft
<1>10. ASSUME NEW c \in Clients, Disconnect(c) PROVE NothingLeft'
  BY <1>10 DEF Disconnect, NothingLeft
<1>11. ASSUME NEW c \in Clients, ServeInterrupted(c) \/ ResumeLaunch(c) \/ StartPush(c)
       PROVE  NothingLeft'
  BY <1>2, <1>11 DEF ServeInterrupted, ResumeLaunch, StartPush
<1>12. ASSUME EndIteration \/ EnterTarget \/ RefreshDispatched \/ UpdateSource \/ EndLaunch
              \/ Compute \/ FlushBroadcast
              \/ (\E i \in Files : Descend(i)) \/ (\E f \in Derived, j \in JobIDs : Exec(f, j))
       PROVE  mode' # "select"
  BY <1>12 DEF EndIteration, EnterTarget, RefreshDispatched, UpdateSource, EndLaunch, Compute,
     FlushBroadcast, Descend, Exec, Visiting, loopVars
<1>13. CASE EndPush
  <2>1. CASE cur \in testing
    <3>1. cur \in Clients /\ want[cur] # NIL /\ UNCHANGED want
      BY <1>13, <2>1 DEF EndPush, LoopOK
    <3> QED BY <3>1 DEF OneClient, NothingLeft
  <2>2. CASE cur \notin testing
    BY <1>2, <1>13, <2>2 DEF EndPush
  <2> QED BY <2>1, <2>2
<1>14. CASE FinishPass
  <2>1. CASE ServerIdle
    <3>1. ASSUME NEW f \in Derived PROVE ~Dispatched(f)'
      <4>1. Status[f] # STAT_Busy
        BY <2>1 DEF ServerIdle, BusyHasOneJob, Active
      <4>2. Status[f] = STAT_Ready => DepStatus[f] # STAT_Unknown
        BY DEF DispatchedOK, Dispatched, DepOK, STAT_Unknown, STAT_Error
      <4>3. Status'[f] = IF Status[f] = STAT_Ready /\ DepStatus[f] # STAT_Unknown
                         THEN STAT_Unknown ELSE Status[f]
        BY <1>0, <1>14, <2>1 DEF FinishPass
      <4> QED BY <1>0, <4>1, <4>2, <4>3 DEF Dispatched
    <3> QED BY <3>1 DEF NothingLeft
  <2>2. CASE ~ServerIdle
    <3>1. ASSUME NEW c \in Clients PROVE want[c] # NIL
      <4>1. CASE \E d \in Clients : want[d] # NIL
        BY <4>1 DEF OneClient
      <4>2. CASE \E j \in JobIDs : job[j] # NIL
        <5>1. PICK j \in Active : TRUE
          BY <4>2 DEF Active
        <5> QED BY <5>1, JobType DEF JobHasRequest, OneClient
      <4> QED BY <2>2, <4>1, <4>2 DEF ServerIdle
    <3>2. UNCHANGED want
      BY <1>14 DEF FinishPass, clientVars
    <3> QED BY <3>1, <3>2 DEF NothingLeft
  <2> QED BY <2>1, <2>2
<1>15. CASE UNCHANGED vars
  BY <1>3, <1>15 DEF vars, fileVars, clientVars, loopVars
<1> QED
  BY <1>2, <1>4, <1>5, <1>6, <1>7, <1>8, <1>9, <1>10, <1>11, <1>12, <1>13, <1>14, <1>15
     DEF Next, Pass, User, Restart

\* A client with an answer has no request.
LEMMA AnsweredStep ==
  ASSUME ~MayCrash
  PROVE  TypeInv /\ TestedOK /\ AnsweredIdle /\ [Next]_vars => AnsweredIdle' /\ DOMAIN reply' = Clients
<1> SUFFICES ASSUME TypeOK, TestedOK, AnsweredIdle, [Next]_vars
             PROVE  AnsweredIdle' /\ DOMAIN reply' = Clients
  BY DEF TypeInv
<1> USE DEF AnsweredIdle
<1>0. DOMAIN reply = Clients /\ DOMAIN want = Clients
  BY DEF TestedOK, TypeOK
<1>1. ASSUME UNCHANGED <<want, reply>> PROVE AnsweredIdle' /\ DOMAIN reply' = Clients
  BY <1>0, <1>1
<1>2. ASSUME NEW s \in Sources, Edit(s) \/ Test(s) PROVE AnsweredIdle' /\ DOMAIN reply' = Clients
  BY <1>1, <1>2 DEF Edit, Test, clientVars
<1>3. ASSUME NEW j \in JobIDs, ToolRead(j) \/ JobEnds(j) PROVE AnsweredIdle' /\ DOMAIN reply' = Clients
  BY <1>1, <1>3 DEF ToolRead, JobEnds, Job_Done, clientVars
<1>4. ASSUME NEW c \in Clients,
             TestAll(c) \/ Interrupt(c) \/ Disconnect(c) \/ (\E f \in Derived : Request(c, f))
      PROVE  AnsweredIdle' /\ DOMAIN reply' = Clients
  BY <1>0, <1>4 DEF TestAll, Interrupt, Disconnect, Request
<1>5. ASSUME NEW c \in Clients, NEW st, EndGet(c, st) PROVE AnsweredIdle' /\ DOMAIN reply' = Clients
  BY <1>0, <1>5 DEF EndGet
<1>6. ASSUME NEW c \in Clients, ServeInterrupted(c) \/ ResumeLaunch(c) \/ StartPush(c)
      PROVE  AnsweredIdle' /\ DOMAIN reply' = Clients
  BY <1>1, <1>5, <1>6 DEF ServeInterrupted, ResumeLaunch, StartPush, clientVars
<1>7. ASSUME EndLaunch PROVE AnsweredIdle' /\ DOMAIN reply' = Clients
  <2>1. CASE EndGet(cur, Status[want[cur]])
    BY <1>0, <2>1 DEF EndGet
  <2>2. CASE UNCHANGED <<want, reply>>
    BY <1>1, <2>2
  <2> QED BY <1>7, <2>1, <2>2 DEF EndLaunch, clientVars
<1>8. ASSUME \/ EndIteration \/ EnterTarget \/ UpdateSource \/ RefreshDispatched \/ Compute
             \/ FlushBroadcast \/ EndPush \/ FinishPass
             \/ (\E i \in Files : Descend(i)) \/ (\E f \in Derived, j \in JobIDs : Exec(f, j))
      PROVE  AnsweredIdle' /\ DOMAIN reply' = Clients
  BY <1>1, <1>8 DEF EndIteration, EnterTarget, UpdateSource, RefreshDispatched, Compute,
     FlushBroadcast, EndPush, FinishPass, Descend, Exec, clientVars
<1>9. CASE UNCHANGED vars
  BY <1>1, <1>9 DEF vars, clientVars
<1> QED
  BY <1>2, <1>3, <1>4, <1>6, <1>7, <1>8, <1>9 DEF Next, Pass, User, Restart

\* Every action keeps what was judged checked since the last Test_All.
LEMMA CheckStep ==
  ASSUME ~MayCrash, OneClient
  PROVE  TypeInv /\ TypeInv' /\ JobInv /\ InputInv /\ FreshInv /\ CheckInv
           /\ DOMAIN reply' = Clients /\ [Next]_vars
           => VerifyDatesOK' /\ TestedOK' /\ \A f \in Derived : CheckedOK(f)'
<1> SUFFICES ASSUME TypeOK, TypeOK', LoopOK, SourcesIdle, HeaderOK, BusyHasOneJob, SeenOK, PassInv,
                    \A f \in Derived : FileOK(f), VerifyDatesOK, TestedOK, NothingLeft,
                    \A f \in Derived : CheckedOK(f), DOMAIN reply' = Clients, [Next]_vars
             PROVE  VerifyDatesOK' /\ TestedOK' /\ \A f \in Derived : CheckedOK(f)'
  BY DEF TypeInv, JobInv, InputInv, FreshInv, CheckInv
<1> DEFINE Kept == VerifyDatesOK' /\ TestedOK' /\ \A f \in Derived : CheckedOK(f)'
           SameJudged == UNCHANGED <<Status, ToBroadcast, job>>
           LessJudged == \A f \in Derived : Judged(f)' => Judged(f)
<1>0. /\ \A s \in Sources : s \in Files /\ s \notin Derived
      /\ \A f \in Derived : f \in Files /\ f \notin Sources
      /\ STAT_Unknown \notin {STAT_Ready, STAT_Busy} /\ ~(STAT_Unknown > STAT_Error)
      /\ ~(STAT_Ready > STAT_Error) /\ ~(STAT_Busy > STAT_Error)
  BY GraphAssumption DEF Files, STAT_Unknown, STAT_Ready, STAT_Busy, STAT_Error
<1>00. /\ CurrentDate \in Nat /\ VerifyDate \in Nat /\ VerifyDate <= CurrentDate
       /\ \A i \in Files : FileVerify[i] \in Nat /\ FileVerify[i] <= CurrentDate
       /\ \A s \in Sources : disk[s] \in Nat /\ seen[s] \in Nat
  BY DEF TypeOK, VerifyDatesOK
\* Nothing is verified, and nothing more judged, by this step.
<1>1. ASSUME UNCHANGED <<seen, FileVerify, VerifyDate, testDisk>>, CurrentDate' >= CurrentDate,
             \A s \in Sources : disk'[s] >= disk[s],
             \A f \in Derived : Judged(f)' => f \in Reached' \/ (Judged(f) /\ f \notin Reached)
      PROVE  Kept
  <2>1. VerifyDatesOK' /\ TestedOK'
    BY <1>1, KeepTested
  <2>2. ASSUME NEW f \in Derived PROVE CheckedOK(f)'
    BY <1>1, KeepChecked
  <2> QED BY <2>1, <2>2
<1>2. ASSUME SameJudged, UNCHANGED <<seen, FileVerify, VerifyDate, testDisk>>,
             CurrentDate' >= CurrentDate, \A s \in Sources : disk'[s] >= disk[s]
      PROVE  Kept
  <2>1. \A f \in Derived : (Judged(f)' <=> Judged(f)) /\ Reached' = Reached
    BY <1>2 DEF Judged, Valid, Dispatched, Canceled, Active, Reached
  <2> QED BY <1>1, <1>2, <2>1
<1>3. ASSUME NEW s \in Sources, Edit(s) PROVE Kept
  <2>1. /\ SameJudged /\ UNCHANGED <<seen, FileVerify, VerifyDate, testDisk, CurrentDate>>
        /\ \A r \in Sources : disk'[r] >= disk[r]
    BY <1>00, <1>3 DEF Edit, fileVars, jobVars, clientVars, TypeOK
  <2> QED BY <1>00, <1>2, <2>1
<1>4. ASSUME NEW j \in JobIDs, ToolRead(j) PROVE Kept
  <2>1. /\ SameJudged /\ UNCHANGED <<disk, seen, FileVerify, VerifyDate, testDisk, CurrentDate>>
    BY <1>4 DEF ToolRead, fileVars, clientVars
  <2> QED BY <1>00, <1>2, <2>1
<1>5. ASSUME NEW c \in Clients, Interrupt(c) \/ (\E f \in Derived : Request(c, f)) PROVE Kept
  <2>1. /\ SameJudged /\ UNCHANGED <<disk, seen, FileVerify, VerifyDate, testDisk, CurrentDate>>
    BY <1>5 DEF Interrupt, Request, fileVars, jobVars
  <2> QED BY <1>00, <1>2, <2>1
<1>6. ASSUME NEW c \in Clients, ServeInterrupted(c) \/ ResumeLaunch(c) \/ StartPush(c) PROVE Kept
  <2>1. /\ SameJudged /\ UNCHANGED <<disk, seen, FileVerify, VerifyDate, testDisk>>
        /\ CurrentDate' \in {CurrentDate, CurrentDate + 1}
    BY <1>6 DEF ServeInterrupted, ResumeLaunch, StartPush, EndGet, fileVars, jobVars, clientVars
  <2> QED BY <1>00, <1>2, <2>1
<1>7. ASSUME EndIteration \/ EnterTarget \/ EndPush \/ EndLaunch \/ (\E i \in Files : Descend(i))
      PROVE  Kept
  <2>1. /\ SameJudged /\ UNCHANGED <<disk, seen, FileVerify, VerifyDate, testDisk, CurrentDate>>
    BY <1>7 DEF EndIteration, EnterTarget, EndPush, EndLaunch, Descend, EndGet, fileVars, jobVars, clientVars
  <2> QED BY <1>00, <1>2, <2>1
<1>8. ASSUME NEW c \in Clients, TestAll(c) PROVE Kept
  <2>1. /\ CurrentDate' = CurrentDate + 1 /\ VerifyDate' = CurrentDate + 1
        /\ UNCHANGED <<disk, seen, Status, FileVerify, job>>
    BY <1>8 DEF TestAll, fileVars, jobVars
  <2>2. /\ testDisk' \in [Clients -> [Sources -> Nat]]
        /\ \A d \in Clients : testDisk'[d] = disk \/ testDisk'[d] = testDisk[d]
    <3>1. disk \in [Sources -> Nat] /\ testDisk \in [Clients -> [Sources -> Nat]]
      BY DEF TypeOK, TestedOK
    <3>2. testDisk' = [testDisk EXCEPT ![c] = disk]
      BY <1>8 DEF TestAll
    <3> QED BY <3>1, <3>2
  <2>3. \A f \in Derived : ~Judged(f)'
    <3>1. \A f \in Derived : ~Dispatched(f)
      BY <1>8 DEF TestAll, Hear, Selecting, Idle, NothingLeft
    <3> QED BY <1>0, <1>00, <2>1, <3>1 DEF Judged, Valid, Dispatched
  <2>4. VerifyDatesOK'
    BY <1>00, <2>1 DEF VerifyDatesOK
  <2>5. TestedOK'
    BY <1>0, <1>00, <2>1, <2>2 DEF TestedOK
  <2> QED BY <2>3, <2>4, <2>5 DEF CheckedOK
<1>9. ASSUME NEW c \in Clients, Disconnect(c) PROVE Kept
  <2> DEFINE files == {job[j].file : j \in {k \in JobIDs : job[k] # NIL /\ job[k].client = c}}
  <2>1. /\ UNCHANGED <<disk, seen, FileVerify, VerifyDate, CurrentDate, ToBroadcast>>
        /\ \A f \in Files : Status'[f] = IF f \in files THEN STAT_Unknown ELSE Status[f]
        /\ \A j \in JobIDs : job'[j] = NIL \/ job'[j] = job[j]
        /\ \A j \in Active : job[j].file \notin files => job'[j] = job[j]
        /\ mode # "push" /\ mode' # "push"
    BY <1>9 DEF Disconnect, DelJob, Selecting, Active
  <2>2. testDisk' = [testDisk EXCEPT ![c] = [s \in Sources |-> 0]]
    BY <1>9 DEF Disconnect
  <2> HIDE DEF files
  <2>3. ASSUME NEW f \in Derived, Judged(f)' PROVE Judged(f) /\ f \notin Reached
    <3>1. f \notin files /\ Status'[f] = Status[f]
      BY <1>0, <2>1, <2>3 DEF Judged, Valid, Dispatched
    <3>2. Canceled(f) => Canceled(f)'
      BY <2>1, <3>1 DEF Canceled, Active
    <3> QED BY <2>1, <2>3, <3>1, <3>2, ReachedIdle DEF Judged, Valid, Dispatched
  <2>4. ASSUME NEW f \in Derived PROVE CheckedOK(f)'
    BY <1>00, <2>1, <2>3, KeepChecked
  <2>5. VerifyDatesOK' /\ TestedOK'
    BY <1>0, <1>00, <2>1, <2>2 DEF VerifyDatesOK, TestedOK
  <2> QED BY <2>4, <2>5
<1>10. ASSUME NEW s \in Sources, Test(s) PROVE Kept
  <2> DEFINE B == Broadcast({s}, Status)
  <2>1. /\ StatSource(s) /\ UNCHANGED <<disk, VerifyDate, testDisk, reply>>
        /\ job' = Cancel(B, Status, job) /\ Reached = {}
    BY <1>10, ReachedIdle DEF Test, Selecting, clientVars
  <2>2. /\ VerifyDatesOK' /\ TestedOK' /\ FileVerify'[s] >= VerifyDate
        /\ \A i \in Files : i # s => FileVerify'[i] = FileVerify[i]
    BY <2>1, StatTested
  <2>3. ASSUME NEW f \in Derived PROVE CheckedOK(f)'
    <3>1. Status'[f] = ClrStatus(B, Status)[f]
      <4>1. Status' = [ClrStatus(B, Status) EXCEPT ![s] = NewStatus(s)]
        BY <1>10 DEF Test
      <4> QED BY <1>0, <4>1 DEF ClrStatus
    <3> HIDE DEF B
    <3>2. Judged(f)' => Judged(f)
      BY <1>0, <2>1, <2>2, <3>1, ClearedFile DEF Judged
    <3>3. \A i \in Files : FileVerify[i] >= VerifyDate => FileVerify'[i] >= VerifyDate
      BY <2>2
    <3> QED BY <2>1, <3>2, <3>3, KeepChecked
  <2> QED BY <2>2, <2>3
\* What follows verifies one derived file, whose sources keep what they were.
<1>11. ASSUME NEW g \in Derived, UNCHANGED <<disk, seen, VerifyDate, testDisk>>,
              CurrentDate' \in {CurrentDate, CurrentDate + 1},
              \A i \in Files : i # g => FileVerify'[i] = FileVerify[i],
              FileVerify'[g] \in {FileVerify[g], CurrentDate, CurrentDate'},
              \A f \in Derived : Judged(f)' =>
                \/ f \in Reached'
                \/ Judged(f) /\ f \notin Reached
                \/ \A i \in Inputs[f] : FileVerify[i] >= VerifyDate
       PROVE  Kept
  <2>1. /\ VerifyDatesOK' /\ TestedOK'
        /\ \A i \in Files : FileVerify[i] >= VerifyDate => FileVerify'[i] >= VerifyDate
    BY <1>0, <1>00, <1>11, KeepTested
  <2>2. ASSUME NEW f \in Derived PROVE CheckedOK(f)'
    BY <1>11, <2>1, KeepChecked
  <2> QED BY <2>1, <2>2
<1>12. ASSUME NEW j \in JobIDs, JobEnds(j) PROVE Kept
  <2>1. PICK outcome \in Outcomes \cup {"abort"} : Job_Done(j, outcome)
    BY <1>12 DEF JobEnds
  <2>2. PICK g \in Derived : j \in Active /\ g = job[j].file /\ Status[g] = STAT_Busy
    BY <2>1, JobDoneEffect, JobType DEF BusyHasOneJob
  <2>3. /\ UNCHANGED <<disk, seen, VerifyDate, testDisk>>
        /\ CurrentDate' \in {CurrentDate, CurrentDate + 1}
        /\ \A i \in Files : i # g => FileVerify'[i] = FileVerify[i]
        /\ FileVerify'[g] \in {FileVerify[g], CurrentDate, CurrentDate'}
    <3>1. UNCHANGED <<disk, seen, VerifyDate, testDisk>>
      BY <2>1 DEF Job_Done
    <3>2. CASE outcome = "abort"
      BY <2>1, <3>1, <3>2 DEF Job_Done, AbortJob
    <3>3. CASE outcome # "abort"
      <4>1. FinishJob(j, outcome)
        BY <2>1, <3>3 DEF Job_Done
      <4>2. \E date \in {CurrentDate, CurrentDate + 1} :
              /\ CurrentDate' = date
              /\ \/ FileVerify' = [FileVerify EXCEPT ![g] = date]
                 \/ FileVerify' = [FileVerify EXCEPT ![g] = CurrentDate]
        BY <2>2, <4>1 DEF FinishJob
      <4> QED BY <1>0, <3>1, <4>2 DEF TypeOK
    <3> QED BY <3>2, <3>3
  <2>4. /\ \A i \in Files : i # g => Status'[i] = Status[i]
        /\ Status'[g] > STAT_Error => ~job[j].canceled
        /\ Status'[g] # STAT_Ready /\ Status'[g] # STAT_Busy
    <3>1. \E st : /\ Status' = [Status EXCEPT ![g] = st]
                  /\ st # STAT_Busy /\ st # STAT_Ready
      BY <2>1, <2>2, JobDoneEffect
    <3>2. Status \in [Files -> Statuses]
      BY DEF TypeOK
    <3> QED BY <1>0, <2>1, <2>2, <3>1, <3>2, JobDoneFile
  <2>5. Reached = {}
    BY <2>1, ReachedIdle DEF Job_Done, Hear, Selecting
  <2>6. Active' = Active \ {j} /\ \A k \in Active' : job'[k] = job[k]
    BY <2>1, JobDoneEffect DEF DelJob, Active
  <2>7. ASSUME NEW f \in Derived, f # g, Judged(f)' PROVE Judged(f)
    <3>1. Canceled(f) => Canceled(f)'
      BY <2>2, <2>6, <2>7 DEF Canceled
    <3> QED BY <1>0, <2>3, <2>4, <2>7, <3>1 DEF Judged, Valid, Dispatched
  <2>8. Judged(g)' => Judged(g)
    <3>1. Judged(g)' => ~job[j].canceled
      BY <2>4 DEF Judged, Valid, Dispatched
    <3>2. ~job[j].canceled => ~Canceled(g)
      BY <2>2 DEF Canceled, BusyHasOneJob
    <3> QED BY <2>2, <3>1, <3>2 DEF Judged, Valid, Dispatched
  <2>9. \A f \in Derived : Judged(f)' => Judged(f) /\ f \notin Reached
    BY <2>5, <2>7, <2>8
  <2> QED BY <1>11, <2>3, <2>9
<1>13. CASE RefreshDispatched
  <2>1. PICK g \in Derived : g = Top /\ Dispatched(g)
    <3>1. Top \in Files
      BY <1>13, StackType DEF RefreshDispatched, Visiting
    <3> QED BY <1>13, <3>1 DEF RefreshDispatched, SourcesIdle, Dispatched, Files
  <2>2. /\ FileVerify' = [FileVerify EXCEPT ![g] = CurrentDate]
        /\ UNCHANGED <<disk, seen, Status, CurrentDate, VerifyDate, testDisk, ToBroadcast, job>>
    BY <1>13, <2>1 DEF RefreshDispatched, jobVars
  <2>3. /\ \A i \in Files : i # g => FileVerify'[i] = FileVerify[i]
        /\ FileVerify'[g] = CurrentDate
    BY <1>0, <2>2 DEF TypeOK
  <2>4. ASSUME NEW f \in Derived, Judged(f)' PROVE Judged(f) /\ Reached' = Reached
    <3>1. Valid(f)' <=> Valid(f)
      BY <2>2 DEF Valid, Dispatched, Canceled, Active
    <3>2. ~(Status[g] > STAT_Error)
      BY <1>0, <2>1 DEF Dispatched
    <3> QED BY <1>0, <2>2, <2>3, <2>4, <3>1, <3>2 DEF Judged, Reached
  <2> QED BY <1>11, <2>2, <2>3, <2>4
<1>14. CASE UpdateSource
  <2>1. PICK s \in Sources :
          /\ s = Top /\ StatSource(s) /\ Status' = [Status EXCEPT ![s] = NewStatus(s)]
          /\ ToBroadcast \subseteq ToBroadcast'
          /\ UNCHANGED <<disk, VerifyDate, testDisk, reply, job>>
    BY <1>14 DEF UpdateSource, jobVars, clientVars
  <2>2. /\ VerifyDatesOK' /\ TestedOK' /\ FileVerify'[s] >= VerifyDate
        /\ \A i \in Files : i # s => FileVerify'[i] = FileVerify[i]
    BY <2>1, StatTested
  <2>3. \A f \in Derived : Status'[f] = Status[f]
    BY <1>0, <2>1 DEF TypeOK
  <2>4. Reached \subseteq Reached'
    BY <2>1, <2>3, BroadcastGrows DEF Reached
  <2>5. ASSUME NEW f \in Derived PROVE CheckedOK(f)'
    <3>1. Judged(f)' => Judged(f)
      BY <1>0, <2>1, <2>2, <2>3 DEF Judged, Valid, Dispatched, Canceled, Active
    <3>2. \A i \in Files : FileVerify[i] >= VerifyDate => FileVerify'[i] >= VerifyDate
      BY <2>2
    <3> QED BY <2>1, <2>4, <3>1, <3>2, KeepChecked
  <2> QED BY <2>2, <2>5
<1>15. CASE Compute
  <2>1. PICK g \in Derived, st \in Statuses :
           /\ g = Top /\ Status' = [Status EXCEPT ![g] = st] /\ st > STAT_Unknown
           /\ UNCHANGED <<ToBroadcast, job>>
    BY <1>15, ComputeFile
  <2>2. /\ FileVerify' = [FileVerify EXCEPT ![g] = CurrentDate]
        /\ UNCHANGED <<disk, seen, CurrentDate, VerifyDate, testDisk>>
        /\ \A i \in Inputs[g] : FileVerify[i] >= VerifyDate
    BY <1>15, <2>1 DEF Compute, IsUpToDate
  <2>3. /\ \A i \in Files : i # g => FileVerify'[i] = FileVerify[i] /\ Status'[i] = Status[i]
        /\ FileVerify'[g] = CurrentDate /\ Status'[g] > STAT_Unknown
    BY <1>0, <2>1, <2>2 DEF TypeOK
  <2>4. Reached \subseteq Reached'
    <3>1. \A h \in Derived : Status[h] > STAT_Unknown => Status'[h] > STAT_Unknown
      BY <1>0, <2>3
    <3> QED BY <2>1, <3>1, BroadcastGrows DEF Reached
  <2>5. ASSUME NEW f \in Derived, f # g, Judged(f)' PROVE Judged(f)
    BY <1>0, <2>1, <2>2, <2>3, <2>5 DEF Judged, Valid, Dispatched, Canceled, Active
  <2>6. \A f \in Derived : Judged(f)' =>
          \/ f \in Reached'
          \/ Judged(f) /\ f \notin Reached
          \/ \A i \in Inputs[f] : FileVerify[i] >= VerifyDate
    BY <2>2, <2>4, <2>5
  <2> QED BY <1>11, <2>2, <2>3, <2>6
<1>16. CASE FlushBroadcast
  <2>1. /\ UNCHANGED <<disk, seen, FileVerify, VerifyDate, testDisk, CurrentDate>>
        /\ Status' = ClrStatus(Reached, Status) /\ job' = Cancel(Reached, Status, job)
    BY <1>16 DEF FlushBroadcast, modVars, clientVars, Reached
  <2>2. ASSUME NEW f \in Derived, Judged(f)' PROVE Judged(f) /\ f \notin Reached
    <3>1. Status'[f] = ClrStatus(Reached, Status)[f]
      BY <2>1
    <3> QED BY <2>1, <2>2, <3>1, ClearedFile DEF Judged
  <2> QED BY <1>00, <1>1, <2>1, <2>2
<1>17. ASSUME NEW g \in Derived, NEW j \in JobIDs, Exec(g, j) PROVE Kept
  <2> DEFINE new == [client |-> cur, file |-> g, canceled |-> FALSE]
  <2>1. /\ UNCHANGED <<disk, seen, CurrentDate, VerifyDate, testDisk>>
        /\ Status[g] = STAT_Ready /\ job[j] = NIL /\ Reached = {}
        /\ \A f \in Files : Status'[f] = IF f = g THEN STAT_Busy ELSE Status[f]
        /\ \A i \in Files : FileVerify'[i] = IF i = g THEN CurrentDate ELSE FileVerify[i]
        /\ \A k \in JobIDs : job'[k] = IF k = j THEN new ELSE job[k]
    BY <1>0, <1>17, ReachedIdle DEF Exec, Launchable, clientVars, TypeOK
  <2> HIDE DEF new
  <2>2. ASSUME NEW f \in Derived, Judged(f)' PROVE Judged(f) /\ f \notin Reached
    <3>1. Canceled(f) => Canceled(f)'
      BY <2>1 DEF Canceled, Active
    <3> QED BY <1>0, <2>1, <2>2, <3>1 DEF Judged, Valid, Dispatched
  <2> QED BY <1>0, <1>11, <2>1, <2>2
<1>18. CASE FinishPass
  <2>1. /\ UNCHANGED <<disk, seen, FileVerify, VerifyDate, testDisk, CurrentDate, job>>
        /\ \A f \in Derived : Status'[f] \in {Status[f], STAT_Unknown}
        /\ Reached = {}
    BY <1>0, <1>18, ReachedIdle DEF FinishPass, jobVars, clientVars
  <2>2. ASSUME NEW f \in Derived, Judged(f)' PROVE Judged(f) /\ f \notin Reached
    BY <1>0, <2>1, <2>2 DEF Judged, Valid, Dispatched, Canceled, Active
  <2> QED BY <1>00, <1>1, <2>1, <2>2
<1>19. CASE UNCHANGED vars
  BY <1>00, <1>2, <1>19 DEF vars, fileVars, jobVars, clientVars
<1> QED
  BY <1>3, <1>4, <1>5, <1>6, <1>7, <1>8, <1>9, <1>10, <1>12, <1>13, <1>14, <1>15, <1>16,
     <1>17, <1>18, <1>19 DEF Next, Pass, User, Restart

\* With a client of its own the server keeps what it judged checked.
LEMMA CheckInvariant ==
  ASSUME ~MayCrash, OneClient
  PROVE  Spec => []CheckInv
<1>1. TypeInv /\ Init => CheckInv
  <2>1. SUFFICES ASSUME TypeOK, Init PROVE CheckInv
    BY DEF TypeInv
  <2>2. \A i \in Files : ~(Status[i] > STAT_Error) /\ Status[i] \notin {STAT_Ready, STAT_Busy}
    BY <2>1 DEF Init, STAT_Unknown, STAT_Error, STAT_Ready, STAT_Busy
  <2>3. \A f \in Derived : ~Judged(f) /\ ~Dispatched(f)
    BY <2>2 DEF Judged, Valid, Dispatched, Files
  <2>4. VerifyDatesOK /\ AnsweredIdle
    BY <2>1 DEF Init, VerifyDatesOK, AnsweredIdle
  <2>5. TestedOK
    BY <2>1 DEF Init, TestedOK
  <2> QED BY <2>3, <2>4, <2>5 DEF CheckInv, CheckedOK, NothingLeft
<1>2. TypeInv /\ TypeInv' /\ JobInv /\ DispatchedOK /\ InputInv /\ FreshInv /\ CheckInv
        /\ [Next]_vars => CheckInv'
  BY CheckStep, LeftStep, AnsweredStep DEF CheckInv
<1> QED BY <1>1, <1>2, TypeInvariant, JobInvariant, DispatchedInvariant, InputInvariant,
           FreshInvariant, PTL DEF Spec

\* What a file judged without error since the last Test_All is made from was
\* read no earlier.
LEMMA CheckedReads ==
  ASSUME TypeOK, InputInv, FreshInv, CheckInv, Reached = {}, NEW w \in Files,
         FileVerify[w] >= VerifyDate, Status[w] > STAT_Error,
         NEW f \in (Needs(w) \cap Derived) \ Stable, data[f] # NIL,
         NEW s \in Inputs[f] \cap Sources, NEW c \in Clients
  PROVE  data[f][s] >= testDisk[c][s]
<1> DEFINE X == {i \in Files : FileVerify[i] >= VerifyDate /\ Status[i] > STAT_Error}
<1>1. ASSUME NEW g \in X \cap Derived PROVE Inputs[g] \subseteq X /\ InputsDone(g, ConfirmDate[g])
  <2>1. InputsDone(g, ConfirmDate[g])
    BY <1>1 DEF InputInv, FileOK
  <2>2. \A i \in Inputs[g] : FileVerify[i] >= VerifyDate
    BY <1>1 DEF CheckInv, CheckedOK, Judged
  <2>3. Inputs[g] \in SUBSET Files
    BY GraphAssumption
  <2> QED BY <2>1, <2>2, <2>3 DEF InputsDone
<1>2. w \in X /\ X \in SUBSET Files
  OBVIOUS
<1>3. f \in X
  <2> HIDE DEF X
  <2> QED BY <1>1, <1>2 DEF Needs
<1>4. s \in X /\ ModDate[s] <= ConfirmDate[f]
  BY <1>1, <1>3 DEF InputsDone
<1>5. /\ s \in Files /\ ModDate[s] \in Nat /\ ConfirmDate[f] \in Nat /\ seen[s] \in Nat
      /\ disk[s] \in Nat /\ testDisk[c][s] \in Nat /\ seen[s] >= testDisk[c][s]
  BY <1>4 DEF TypeOK, CheckInv, TestedOK
<1>6. data[f][s] \in seen[s] .. disk[s]
  <2>1. MadeFrom(f, data[f], ConfirmDate[f], ModDate, seen, disk, data)
    BY DEF FreshInv, HoldsOK
  <2>2. ModDate[s] > ConfirmDate[f] \/ AsRead(s, data[f][s], seen, disk, data)
    BY <2>1 DEF MadeFrom
  <2> HIDE DEF X
  <2>3. ~(ModDate[s] > ConfirmDate[f])
    BY <1>4, <1>5
  <2> QED BY <2>2, <2>3 DEF AsRead
<1> QED BY <1>5, <1>6

\* A client that has the server to itself is answered from sources no older
\* than its Test_All, whatever is edited, aborted or interrupted meanwhile and
\* whatever was left over from its earlier requests.
THEOREM ReplyFresh ==
  ASSUME ~MayCrash, OneClient
  PROVE  Spec => []FreshReply
<1>1. Init => FreshReply
  BY DEF Init, FreshReply
<1>2. TypeInv /\ JobInv /\ InputInv /\ FreshInv /\ CheckInv /\ CheckInv' /\ FreshReply
        /\ [Next]_vars => FreshReply'
  <2> SUFFICES ASSUME TypeOK, LoopOK, JobInv, InputInv, FreshInv, CheckInv, CheckInv',
                      FreshReply, [Next]_vars
               PROVE  FreshReply'
    BY DEF TypeInv
  <2>1. ASSUME UNCHANGED <<data, testDisk>>, \A c \in Clients : reply'[c] \in {reply[c], NIL}
        PROVE  FreshReply'
    BY <2>1 DEF FreshReply
  <2>2. ASSUME UNCHANGED <<data, testDisk, reply>> PROVE FreshReply'
    BY <2>1, <2>2
  <2>3. ASSUME NEW c \in Clients, reply'[c] = NIL PROVE FreshReply'
    BY <2>3 DEF OneClient, FreshReply
  <2>4. ASSUME NEW s \in Sources, Edit(s) \/ Test(s) PROVE FreshReply'
    BY <2>2, <2>4 DEF Edit, Test, modVars, clientVars
  <2>5. ASSUME NEW j \in JobIDs, ToolRead(j) PROVE FreshReply'
    BY <2>2, <2>5 DEF ToolRead, modVars, clientVars
  <2>6. ASSUME NEW j \in JobIDs, JobEnds(j) PROVE FreshReply'
    <3>1. job[j] # NIL /\ UNCHANGED <<reply, want>>
      BY <2>6 DEF JobEnds, Job_Done
    <3>2. j \in Active /\ job[j] \in Jobs
      BY <3>1, JobType DEF Active
    <3>3. PICK c \in Clients : c = job[j].client /\ want[c] # NIL
      BY <3>2 DEF JobInv, JobHasRequest, Jobs
    <3>4. reply'[c] = NIL
      BY <3>1, <3>3 DEF CheckInv, AnsweredIdle
    <3> QED BY <2>3, <3>4
  <2>7. ASSUME NEW c \in Clients,
               TestAll(c) \/ Interrupt(c) \/ Disconnect(c) \/ (\E f \in Derived : Request(c, f))
        PROVE  FreshReply'
    <3>1. CASE Interrupt(c)
      BY <2>2, <3>1 DEF Interrupt, modVars
    <3>2. CASE TestAll(c) \/ Disconnect(c) \/ (\E f \in Derived : Request(c, f))
      <4>1. reply' = [reply EXCEPT ![c] = NIL] /\ DOMAIN reply = Clients
        BY <3>2 DEF TestAll, Disconnect, Request, CheckInv, TestedOK
      <4> QED BY <2>3, <4>1
    <3> QED BY <2>7, <3>1, <3>2
  <2>8. ASSUME NEW c \in Clients, ServeInterrupted(c) PROVE FreshReply'
    <3>1. UNCHANGED data
      BY <2>8 DEF ServeInterrupted, modVars
    <3>2. CASE EndGet(c, STAT_Unknown)
      <4>1. reply'[c].status = STAT_Unknown /\ ~(STAT_Unknown > STAT_Error)
        BY <3>2 DEF EndGet, CheckInv, TestedOK, STAT_Unknown, STAT_Error
      <4> QED BY <4>1 DEF OneClient, FreshReply
    <3>3. CASE UNCHANGED clientVars
      BY <2>2, <3>1, <3>3 DEF clientVars
    <3> QED BY <2>8, <3>2, <3>3 DEF ServeInterrupted
  <2>9. ASSUME NEW c \in Clients, ResumeLaunch(c) \/ StartPush(c) PROVE FreshReply'
    BY <2>2, <2>9 DEF ResumeLaunch, StartPush, modVars, clientVars
  <2>10. CASE EndLaunch
    <3>1. /\ UNCHANGED <<data, Status, FileVerify, testDisk>> /\ mode = "launch"
          /\ cur \in Clients /\ want[cur] \in Derived
      BY <2>10 DEF EndLaunch, EndGet, fileVars, modVars, clientVars, LoopOK, TypeOK
    <3>2. CASE UNCHANGED reply
      BY <2>2, <3>1, <3>2
    <3>3. CASE IsAllDone(want[cur]) /\ EndGet(cur, Status[want[cur]])
      <4>1. PICK w \in Derived : w = want[cur]
        BY <3>1
      <4>2. reply'[cur].file = w /\ reply'[cur].status = Status[w]
        BY <3>1, <3>3, <4>1 DEF EndGet, CheckInv, TestedOK
      <4>3. Reached = {} /\ w \in Files /\ FileVerify[w] >= VerifyDate
        BY <3>1, <3>3, <4>1, ReachedIdle DEF IsAllDone, IsUpToDate, InputInv, Files
      <4>4. ASSUME NEW f \in (Needs(w) \cap Derived) \ Stable, Status[w] > STAT_Error,
                   data[f] # NIL, NEW s \in Inputs[f] \cap Sources
            PROVE  data'[f][s] >= testDisk'[cur][s]
        BY <3>1, <4>3, <4>4, CheckedReads
      <4>5. \A c \in Clients : c = cur
        BY <3>1 DEF OneClient
      <4> QED BY <3>1, <4>2, <4>4, <4>5 DEF FreshReply
    <3> QED BY <2>10, <3>2, <3>3 DEF EndLaunch, clientVars
  <2>11. ASSUME \/ EndIteration \/ EnterTarget \/ UpdateSource \/ RefreshDispatched \/ Compute
                \/ FlushBroadcast \/ EndPush \/ FinishPass
                \/ (\E i \in Files : Descend(i)) \/ (\E f \in Derived, j \in JobIDs : Exec(f, j))
         PROVE  FreshReply'
    BY <2>2, <2>11 DEF EndIteration, EnterTarget, UpdateSource, RefreshDispatched, Compute,
       FlushBroadcast, EndPush, FinishPass, Descend, Exec, modVars, clientVars
  <2>12. CASE UNCHANGED vars
    BY <2>2, <2>12 DEF vars, modVars, clientVars
  <2> QED
    BY <2>4, <2>5, <2>6, <2>7, <2>8, <2>9, <2>10, <2>11, <2>12 DEF Next, Pass, User, Restart
<1> QED BY <1>1, <1>2, TypeInvariant, JobInvariant, InputInvariant, FreshInvariant,
           CheckInvariant, PTL DEF Spec

-----------------------------------------------------------------------------
(* No lost wakeup *)

\* The update pass will not look into f again, and f is not done.
Unfinished(f) == IsUpToDate(f) /\ ~IsAllDone(f)

\* Somebody will: a job, the ToDo list, or the next pass, after a change is
\* broadcast or once an input is finished.
Awaited(f) ==
  \/ f \in Reached \/ Status[f] = STAT_Busy \/ (Status[f] = STAT_Ready /\ f \in todo[cur])
  \/ Status[f] = STAT_Pending /\ \E i \in Inputs[f] : Unfinished(i)

\* In the update pass every file it leaves unfinished is awaited.
PushInv == mode = "push" => /\ rest[cur] = {}
                            /\ \A f \in Derived : Unfinished(f) => Awaited(f)

\* A pass launches something, waits for a job, or completes the request.
LaunchInv == mode = "launch" => Launchable(cur) # {} \/ Active # {} \/ IsAllDone(want[cur])

\* What is left of a ToDo list outside the pass can still be launched.
RestInv == mode \in {"select", "serve"} =>
             \A c \in Clients : rest[c] # {} => Launchable(c) # {} /\ want[c] # NIL

\* A request without jobs is about to be served.
WakeInv == \A c \in Clients :
  (want[c] # NIL /\ Active = {} /\ (mode = "select" \/ (mode = "serve" /\ c \notin due))) => ready

StallInv == testing = {} /\ PushInv /\ LaunchInv /\ RestInv /\ WakeInv

\* The only client sends a Test_All when it has no request.
LEMMA TestingStep == OneClient /\ testing = {} /\ [Next]_vars => testing' = {}
<1> SUFFICES ASSUME OneClient, testing = {}, [Next]_vars PROVE testing' = {}
  OBVIOUS
<1>1. ASSUME NEW c \in Clients, TestAll(c) PROVE testing' = {}
  BY <1>1 DEF TestAll, Idle, OneClient
<1>2. ASSUME NEW c \in Clients, Interrupt(c) \/ Disconnect(c) \/ (\E f \in Derived : Request(c, f))
      PROVE  testing' = {}
  BY <1>2 DEF Interrupt, Disconnect, Request
<1>3. ASSUME NEW s \in Sources, Edit(s) \/ Test(s) PROVE testing' = {}
  BY <1>3 DEF Edit, Test, loopVars
<1>4. ASSUME NEW j \in JobIDs, ToolRead(j) \/ JobEnds(j) PROVE testing' = {}
  BY <1>4 DEF ToolRead, JobEnds, Job_Done, loopVars
<1>5. CASE Restart
  BY <1>5 DEF Restart
<1>6. CASE Pass
  BY <1>6 DEF Pass, EndIteration, EnterTarget, UpdateSource, RefreshDispatched, Compute,
     FlushBroadcast, EndPush, EndLaunch, FinishPass, ServeInterrupted, ResumeLaunch,
     StartPush, Descend, Exec, loopVars
<1> QED BY <1>1, <1>2, <1>3, <1>4, <1>5, <1>6 DEF Next, User, vars, loopVars

\* GetNotUpToDateFile makes a file pending exactly while one of its inputs is
\* unfinished, and puts a ready one on the ToDo list.
LEMMA ComputeAwaits ==
  ASSUME TypeOK, HeaderOK, Compute
  PROVE  \E g \in Derived, st \in Statuses :
           /\ g = Top /\ ~Dispatched(g)
           /\ Status' = [Status EXCEPT ![g] = st]
           /\ st # STAT_Busy /\ st > STAT_Unknown
           /\ st = STAT_Pending <=>
                \E i \in Inputs[g] : Status[i] \in {STAT_Pending, STAT_Ready, STAT_Busy}
           /\ todo' = IF st = STAT_Ready THEN [todo EXCEPT ![cur] = @ \cup {g}] ELSE todo
<1>1. PICK g \in Derived : g = Top
  BY DEF Compute
<1> DEFINE least == Min({STAT_OK} \cup {Status[i] : i \in Inputs[g]})
           min == Get_ToolStatus(least)
           son == Max({1} \cup {ModDate[i] : i \in Inputs[g]})
           again == ModDate[g] > 0 /\ ConfirmDate[g] >= son
<1>2. /\ \/ min < STAT_Error /\ Status' = [Status EXCEPT ![g] = min] /\ UNCHANGED todo
         \/ /\ min > STAT_Error
            /\ Status' = [Status EXCEPT ![g] = Min({min, ErrStatus[g]})] /\ UNCHANGED todo
         \/ /\ min > STAT_Error /\ Status' = [Status EXCEPT ![g] = STAT_Ready]
            /\ todo' = [todo EXCEPT ![cur] = @ \cup {g}]
      /\ ~Dispatched(g) /\ \A i \in Inputs[g] : IsUpToDate(i)
  BY <1>1, Zenon DEF Compute, PushToDo
<1>3. /\ least \in Statuses /\ least \in {STAT_OK} \cup {Status[i] : i \in Inputs[g]}
      /\ \A i \in Inputs[g] : least <= Status[i]
  BY ComputeType
<1> HIDE DEF least
<1>4. \A i \in Inputs[g] : Status[i] \in Statuses /\ Status[i] > STAT_Unknown
  <2>1. Inputs[g] \in SUBSET Files
    BY GraphAssumption
  <2> QED BY <1>2, <2>1 DEF TypeOK, IsUpToDate
<1>5. ErrStatus[g] \in Statuses /\ ErrStatus[g] > STAT_Busy
  BY DEF TypeOK, HeaderOK
<1>6. /\ min \in Statuses /\ min > STAT_Unknown /\ min \notin {STAT_Ready, STAT_Busy}
      /\ min > STAT_Error => min > STAT_Busy
      /\ min = STAT_Pending <=> least \in {STAT_Pending, STAT_Ready, STAT_Busy}
  BY <1>3 DEF Get_ToolStatus, Is_PendingReadyOrBusy_Status, Statuses, STAT_Unknown, STAT_OK,
              STAT_Pending, STAT_Ready, STAT_Busy, STAT_SysAbort, STAT_Error
<1>7. least \in {STAT_Pending, STAT_Ready, STAT_Busy} <=>
        \E i \in Inputs[g] : Status[i] \in {STAT_Pending, STAT_Ready, STAT_Busy}
  <2>1. least = STAT_OK \/ \E i \in Inputs[g] : least = Status[i]
    BY <1>3
  <2>2. least > STAT_Unknown
    BY <1>3, <1>4, <2>1 DEF STAT_OK, STAT_Unknown
  <2>3. STAT_OK \notin {STAT_Pending, STAT_Ready, STAT_Busy}
    BY DEF STAT_OK, STAT_Pending, STAT_Ready, STAT_Busy
  <2>4. ASSUME NEW st \in Statuses, st <= STAT_Busy, st > STAT_Unknown
        PROVE  st \in {STAT_Pending, STAT_Ready, STAT_Busy}
    BY <2>4 DEF Statuses, STAT_Unknown, STAT_OK, STAT_Pending, STAT_Ready, STAT_Busy
  <2>5. ASSUME NEW st \in Statuses, NEW old \in Statuses, st <= old,
               old \in {STAT_Pending, STAT_Ready, STAT_Busy}
        PROVE  st <= STAT_Busy
    BY <2>5 DEF Statuses, STAT_Unknown, STAT_OK, STAT_Pending, STAT_Ready, STAT_Busy
  <2> QED BY <1>3, <1>4, <2>1, <2>2, <2>3, <2>4, <2>5
<1> HIDE DEF min
<1>8. CASE min < STAT_Error /\ Status' = [Status EXCEPT ![g] = min] /\ UNCHANGED todo
  BY <1>1, <1>2, <1>6, <1>7, <1>8
<1>9. ASSUME min > STAT_Error
      PROVE  ~\E i \in Inputs[g] : Status[i] \in {STAT_Pending, STAT_Ready, STAT_Busy}
  BY <1>6, <1>7, <1>9 DEF STAT_Pending, STAT_Error
<1>10. CASE /\ min > STAT_Error
            /\ Status' = [Status EXCEPT ![g] = Min({min, ErrStatus[g]})] /\ UNCHANGED todo
  <2>1. PICK st : st = Min({min, ErrStatus[g]})
    OBVIOUS
  <2>2. st \in {min, ErrStatus[g]}
    BY <1>5, <1>6, <2>1, MinOfTwo
  <2>3. st \in Statuses /\ st > STAT_Busy
    BY <1>5, <1>6, <1>10, <2>2
  <2>4. st \notin {STAT_Pending, STAT_Ready, STAT_Busy} /\ st > STAT_Unknown
    BY <2>3 DEF Statuses, STAT_Unknown, STAT_OK, STAT_Pending, STAT_Ready, STAT_Busy
  <2> QED BY <1>1, <1>2, <1>9, <1>10, <2>1, <2>3, <2>4
<1>11. CASE /\ min > STAT_Error /\ Status' = [Status EXCEPT ![g] = STAT_Ready]
            /\ todo' = [todo EXCEPT ![cur] = @ \cup {g}]
  <2>1. /\ STAT_Ready \in Statuses /\ STAT_Ready \notin {STAT_Pending, STAT_Busy}
        /\ STAT_Ready > STAT_Unknown
    BY DEF Statuses, STAT_Unknown, STAT_OK, STAT_Pending, STAT_Ready, STAT_Busy
  <2> QED BY <1>1, <1>2, <1>9, <1>11, <2>1
<1> QED BY <1>2, <1>8, <1>10, <1>11

\* Whatever a pass makes of a file is awaited while it is unfinished.
LEMMA PushStep ==
  ASSUME ~MayCrash
  PROVE  TypeInv /\ TypeInv' /\ JobInv /\ VerifyDatesOK /\ testing = {} /\ PushInv /\ RestInv
           /\ [Next]_vars => PushInv'
<1> SUFFICES ASSUME TypeOK, TypeOK', LoopOK, SourcesIdle, HeaderOK, VerifyDatesOK, testing = {},
                    PushInv, RestInv, [Next]_vars, mode' = "push"
             PROVE  rest'[cur'] = {} /\ \A f \in Derived : Unfinished(f)' => Awaited(f)'
  BY DEF TypeInv, JobInv, PushInv
<1> DEFINE Kept == rest'[cur'] = {} /\ \A f \in Derived : Unfinished(f)' => Awaited(f)'
<1>0. /\ \A s \in Sources : s \in Files /\ s \notin Derived
      /\ \A f \in Derived : f \in Files /\ Inputs[f] \subseteq Files
      /\ STAT_Unknown \notin {STAT_Pending, STAT_Ready, STAT_Busy}
      /\ \A i \in Files : Unfinished(i) <=>
           /\ FileVerify[i] >= VerifyDate /\ FileVerify[i] >= PendingDate
           /\ Status[i] \in {STAT_Pending, STAT_Ready, STAT_Busy}
      /\ \A i \in Files : Unfinished(i)' <=>
           /\ FileVerify'[i] >= VerifyDate' /\ FileVerify'[i] >= PendingDate'
           /\ Status'[i] \in {STAT_Pending, STAT_Ready, STAT_Busy}
  <2>1. \A f \in Derived : Inputs[f] \in SUBSET Files
    BY GraphAssumption
  <2> QED BY <2>1, GraphAssumption DEF Files, Unfinished, IsUpToDate, IsAllDone,
             Is_PendingReadyOrBusy_Status, STAT_Unknown, STAT_Pending, STAT_Ready, STAT_Busy
<1>1. ASSUME UNCHANGED <<Status, FileVerify, VerifyDate, PendingDate, ToBroadcast, todo, rest,
                         mode, cur>>
      PROVE  Kept
  BY <1>1 DEF PushInv, Unfinished, IsUpToDate, IsAllDone, Awaited, Reached
<1>2. ASSUME NEW s \in Sources, Edit(s) PROVE Kept
  BY <1>1, <1>2 DEF Edit, fileVars, clientVars, loopVars
<1>3. ASSUME NEW j \in JobIDs, ToolRead(j) PROVE Kept
  BY <1>1, <1>3 DEF ToolRead, fileVars, clientVars, loopVars
<1>4. ASSUME EnterTarget \/ (\E i \in Files : Descend(i)) PROVE Kept
  BY <1>1, <1>4 DEF EnterTarget, Descend, fileVars, clientVars
<1>5. ASSUME NEW c \in Clients, StartPush(c) PROVE Kept
  <2>1. rest'[cur'] = {}
    BY <1>5 DEF StartPush, TypeOK
  <2>2. PendingDate' = CurrentDate + 1 /\ UNCHANGED FileVerify
    BY <1>5 DEF StartPush, fileVars
  <2>3. CurrentDate \in Nat /\ \A i \in Files : FileVerify[i] \in Nat /\ FileVerify[i] <= CurrentDate
    BY DEF TypeOK, VerifyDatesOK
  <2>4. \A i \in Files : ~Unfinished(i)'
    BY <1>0, <2>2, <2>3
  <2> QED BY <1>0, <2>1, <2>4
\* The other steps of the pass change the status of one file at most.
<1>6. ASSUME mode = "push", UNCHANGED <<VerifyDate, PendingDate, rest, cur>>, Reached \subseteq Reached',
             todo[cur] \subseteq todo'[cur], NEW t \in Files,
             \A i \in Files : i # t => Status'[i] = Status[i] /\ FileVerify'[i] = FileVerify[i],
             t \in Derived => /\ Unfinished(t)' => Awaited(t)'
                              /\ Unfinished(t) => Unfinished(t)' \/ t \in Reached
      PROVE  Kept
  <2>1. SUFFICES ASSUME NEW f \in Derived, f # t, Unfinished(f)' PROVE Awaited(f)'
    BY <1>6 DEF PushInv
  <2>2. Unfinished(f) /\ Awaited(f)
    BY <1>0, <1>6, <2>1 DEF PushInv
  <2>3. Status'[f] = Status[f]
    BY <1>0, <1>6, <2>1
  <2>4. ASSUME NEW i \in Inputs[f], Unfinished(i), ~Unfinished(i)' PROVE f \in Reached'
    <3>1. i = t
      BY <1>0, <1>6, <2>4
    <3>2. t \in Derived
      BY <1>0, <2>4, <3>1 DEF Files, SourcesIdle
    <3>3. Status[f] > STAT_Unknown
      BY <1>0, <2>2 DEF Unfinished, IsUpToDate
    <3>4. i \in Reached
      BY <1>6, <2>4, <3>1, <3>2
    <3>5. f \in Reached
      BY <3>3, <3>4, BroadcastGoesOn DEF Reached
    <3> QED BY <1>6, <3>5
  <2> QED BY <1>6, <2>2, <2>3, <2>4 DEF Awaited
<1>7. CASE UpdateSource
  <2>1. PICK s \in Sources :
          /\ s = Top /\ StatSource(s) /\ Status' = [Status EXCEPT ![s] = NewStatus(s)]
          /\ ToBroadcast \subseteq ToBroadcast'
          /\ UNCHANGED <<VerifyDate, PendingDate, todo, rest, mode, cur>>
    BY <1>7 DEF UpdateSource, clientVars
  <2>2. \A i \in Files : i # s => Status'[i] = Status[i] /\ FileVerify'[i] = FileVerify[i]
    BY <1>0, <2>1 DEF StatSource, TypeOK
  <2>3. Reached \subseteq Reached'
    <3>1. \A h \in Derived : Status[h] > STAT_Unknown => Status'[h] > STAT_Unknown
      BY <1>0, <2>2
    <3> QED BY <2>1, <3>1, BroadcastGrows DEF Reached
  <2>4. mode = "push" /\ s \in Files /\ s \notin Derived
    BY <1>0, <1>7 DEF UpdateSource, Visiting
  <2> QED BY <1>6, <2>1, <2>2, <2>3, <2>4
<1>8. CASE RefreshDispatched
  <2>1. PICK g \in Derived : g = Top /\ Dispatched(g)
    <3>1. Top \in Files
      BY <1>8, StackType DEF RefreshDispatched, Visiting
    <3> QED BY <1>8, <3>1 DEF RefreshDispatched, SourcesIdle, Dispatched, Files
  <2>2. /\ FileVerify' = [FileVerify EXCEPT ![g] = CurrentDate]
        /\ UNCHANGED <<Status, VerifyDate, PendingDate, ToBroadcast, rest, cur>>
        /\ todo' = [todo EXCEPT ![cur] = @ \cup {g}] /\ mode = "push"
    BY <1>8, <2>1 DEF RefreshDispatched, Visiting, PushToDo
  <2>3. /\ \A i \in Files : i # g => FileVerify'[i] = FileVerify[i]
        /\ FileVerify'[g] = CurrentDate /\ FileVerify[g] <= CurrentDate
        /\ todo'[cur] = todo[cur] \cup {g}
    BY <1>0, <2>2 DEF TypeOK, VerifyDatesOK, LoopOK
  <2>4. Unfinished(g) => Unfinished(g)'
    <3>1. /\ CurrentDate \in Nat /\ VerifyDate \in Nat /\ PendingDate \in Nat /\ FileVerify[g] \in Nat
      BY <1>0 DEF TypeOK
    <3> QED BY <1>0, <2>2, <2>3, <3>1
  <2>5. Awaited(g)'
    BY <2>1, <2>2, <2>3 DEF Awaited, Dispatched
  <2>6. Reached' = Reached
    BY <2>2 DEF Reached
  <2> QED BY <1>0, <1>6, <2>2, <2>3, <2>4, <2>5, <2>6
<1>9. CASE Compute
  <2>1. PICK g \in Derived, st \in Statuses :
          /\ ~Dispatched(g)
          /\ Status' = [Status EXCEPT ![g] = st]
          /\ st # STAT_Busy /\ st > STAT_Unknown
          /\ st = STAT_Pending <=>
               \E i \in Inputs[g] : Status[i] \in {STAT_Pending, STAT_Ready, STAT_Busy}
          /\ todo' = IF st = STAT_Ready THEN [todo EXCEPT ![cur] = @ \cup {g}] ELSE todo
          /\ g = Top
    BY <1>9, ComputeAwaits
  <2>2. /\ FileVerify' = [FileVerify EXCEPT ![g] = CurrentDate] /\ mode = "push"
        /\ UNCHANGED <<VerifyDate, PendingDate, ToBroadcast, rest, cur>>
        /\ \A i \in Inputs[g] : IsUpToDate(i)
    BY <1>9, <2>1 DEF Compute, Visiting
  <2>3. /\ \A i \in Files : i # g => Status'[i] = Status[i] /\ FileVerify'[i] = FileVerify[i]
        /\ Status'[g] = st /\ FileVerify'[g] = CurrentDate
    BY <1>0, <2>1, <2>2 DEF TypeOK
  <2>4. todo[cur] \subseteq todo'[cur] /\ (st = STAT_Ready => g \in todo'[cur])
    BY <2>1, <2>2 DEF TypeOK, LoopOK
  <2>5. Reached \subseteq Reached'
    <3>1. \A h \in Derived : Status[h] > STAT_Unknown => Status'[h] > STAT_Unknown
      BY <1>0, <2>1, <2>3
    <3> QED BY <2>2, <3>1, BroadcastGrows DEF Reached
  <2>6. ASSUME NEW i \in Inputs[g], Status[i] \in {STAT_Pending, STAT_Ready, STAT_Busy}
        PROVE  Unfinished(i) /\ Unfinished(i)'
    <3>1. i # g /\ i \in Files
      BY <1>0, <2>1, NotOwnInput
    <3>2. Unfinished(i)
      BY <2>2, <2>6 DEF Unfinished, IsAllDone, Is_PendingReadyOrBusy_Status
    <3> QED BY <1>0, <2>2, <2>3, <3>1, <3>2
  <2>7. ASSUME Unfinished(g)' PROVE Awaited(g)'
    <3>1. st = STAT_Pending \/ st = STAT_Ready
      BY <1>0, <2>1, <2>3, <2>7
    <3>2. st = STAT_Pending => \E i \in Inputs[g] : Unfinished(i)'
      BY <2>1, <2>6
    <3> QED BY <2>2, <2>3, <2>4, <3>1, <3>2 DEF Awaited
  <2>8. ASSUME Unfinished(g), g \notin Reached PROVE Unfinished(g)'
    <3>1. Status[g] \notin {STAT_Ready, STAT_Busy}
      BY <2>1 DEF Dispatched
    <3>2. \E i \in Inputs[g] : Unfinished(i)
      BY <2>2, <2>8, <3>1 DEF PushInv, Awaited
    <3>3. st = STAT_Pending
      BY <1>0, <2>1, <3>2
    <3>4. FileVerify[g] <= CurrentDate /\ FileVerify[g] \in Nat /\ CurrentDate \in Nat
          /\ VerifyDate \in Nat /\ PendingDate \in Nat
      BY <1>0 DEF VerifyDatesOK, TypeOK
    <3> QED BY <1>0, <2>2, <2>3, <2>8, <3>3, <3>4
  <2> QED BY <1>0, <1>6, <2>2, <2>3, <2>4, <2>5, <2>7, <2>8
<1>10. CASE FlushBroadcast
  <2>1. /\ UNCHANGED <<FileVerify, VerifyDate, PendingDate, todo, rest, mode, cur>> /\ mode = "push"
        /\ \A i \in Files : Status'[i] = IF i \in Reached /\ Status[i] # STAT_Busy
                                         THEN STAT_Unknown ELSE Status[i]
    BY <1>10 DEF FlushBroadcast, ClrStatus, Reached, clientVars, loopVars
  <2>2. SUFFICES ASSUME NEW f \in Derived, Unfinished(f)', Status[f] # STAT_Busy PROVE Awaited(f)'
    BY <1>0, <2>1 DEF PushInv, Awaited
  <2>3. f \notin Reached /\ Status'[f] = Status[f] /\ Unfinished(f)
    BY <1>0, <2>1, <2>2
  <2>4. ASSUME NEW i \in Inputs[f], Unfinished(i) PROVE Unfinished(i)'
    <3>1. Status[f] > STAT_Unknown
      BY <2>3 DEF Unfinished, IsUpToDate
    <3>2. i \notin Reached
      BY <2>3, <3>1, BroadcastGoesOn DEF Reached
    <3> QED BY <1>0, <2>1, <2>4, <3>2
  <2> QED BY <2>1, <2>2, <2>3, <2>4 DEF PushInv, Awaited
<1>11. CASE UNCHANGED vars
  BY <1>1, <1>11 DEF vars, fileVars, clientVars, loopVars
\* The others are not part of the pass.
<1>12. ASSUME NEW j \in JobIDs, JobEnds(j) PROVE FALSE
  BY <1>12 DEF JobEnds, Job_Done, Hear, Selecting
<1>13. ASSUME \/ (\E s \in Sources : Test(s))
              \/ (\E c \in Clients : TestAll(c) \/ Interrupt(c) \/ Disconnect(c))
              \/ (\E c \in Clients, f \in Derived : Request(c, f))
       PROVE  FALSE
  BY <1>13 DEF Test, TestAll, Interrupt, Disconnect, Request, Hear, Selecting
<1>14. ASSUME \/ EndIteration \/ EndPush \/ EndLaunch \/ FinishPass
              \/ (\E c \in Clients : ServeInterrupted(c) \/ ResumeLaunch(c))
              \/ (\E f \in Derived, j \in JobIDs : Exec(f, j))
       PROVE  FALSE
  BY <1>14 DEF EndIteration, EndPush, EndLaunch, FinishPass, ServeInterrupted, ResumeLaunch,
     Exec, loopVars
<1> QED
  BY <1>2, <1>3, <1>4, <1>5, <1>7, <1>8, <1>9, <1>10, <1>11, <1>12, <1>13, <1>14
     DEF Next, Pass, User, Restart

\* The inputs an unfinished target waits for end in a job or in a file that is
\* going to be launched: the graph has no cycle.
LEMMA SomebodyWorks ==
  ASSUME TypeOK, SourcesIdle, ToBroadcast = {}, NEW w \in Derived, Unfinished(w),
         \A f \in Derived : Unfinished(f) => Awaited(f)
  PROVE  \E f \in Derived : Status[f] = STAT_Busy \/ (Status[f] = STAT_Ready /\ f \in todo[cur])
<1> DEFINE X == {f \in Derived : Unfinished(f)}
<1>1. X \in SUBSET Derived /\ X # {}
  OBVIOUS
<1>2. PICK f \in X : Inputs[f] \cap X = {}
  <2> HIDE DEF X
  <2> QED BY <1>1, AcyclicAssumption
<1>3. f \in Derived /\ Awaited(f)
  BY <1>2
<1>4. f \notin Reached
  BY BroadcastNothing DEF Reached
<1>5. ASSUME NEW i \in Inputs[f], Unfinished(i) PROVE FALSE
  <2>1. Inputs[f] \in SUBSET Files
    BY <1>3, GraphAssumption
  <2>2. Status[i] \in {STAT_Pending, STAT_Ready, STAT_Busy}
    BY <1>5 DEF Unfinished, IsAllDone, Is_PendingReadyOrBusy_Status
  <2>3. i \in Derived
    BY <2>1, <2>2 DEF SourcesIdle, Files
  <2> QED BY <1>2, <1>5, <2>3
<1> QED BY <1>3, <1>4, <1>5 DEF Awaited

\* No pass ends with nothing to launch, no job and an unfinished target.
LEMMA LaunchStep ==
  ASSUME ~MayCrash
  PROVE  TypeInv /\ JobInv /\ testing = {} /\ PushInv /\ LaunchInv /\ RestInv /\ [Next]_vars => LaunchInv'
<1> SUFFICES ASSUME TypeOK, LoopOK, SourcesIdle, BusyHasOneJob, testing = {}, PushInv, LaunchInv,
                    RestInv, [Next]_vars, mode' = "launch"
             PROVE  Launchable(cur)' # {} \/ Active' # {} \/ IsAllDone(want[cur])'
  BY DEF TypeInv, JobInv, LaunchInv
<1> DEFINE Kept == Launchable(cur)' # {} \/ Active' # {} \/ IsAllDone(want[cur])'
<1>1. ASSUME UNCHANGED <<fileVars, VerifyDate, PendingDate, job, want, rest, mode, cur>> PROVE Kept
  BY <1>1 DEF LaunchInv, Launchable, Active, IsAllDone, IsUpToDate, fileVars
<1>2. ASSUME NEW s \in Sources, Edit(s) PROVE Kept
  BY <1>1, <1>2 DEF Edit, jobVars, clientVars, loopVars
<1>3. ASSUME NEW j \in JobIDs, ToolRead(j) PROVE Kept
  BY <1>1, <1>3 DEF ToolRead, clientVars, loopVars
<1>4. ASSUME NEW c \in Clients, ResumeLaunch(c) PROVE Kept
  <2>1. /\ mode = "serve" /\ cur' = c /\ rest[c] # {} /\ UNCHANGED <<rest, Status>>
    BY <1>4 DEF ResumeLaunch, clientVars, fileVars
  <2> QED BY <2>1 DEF RestInv, Launchable
<1>5. ASSUME NEW f \in Derived, NEW j \in JobIDs, Exec(f, j) PROVE Kept
  <2>1. job' = [job EXCEPT ![j] = [client |-> cur, file |-> f, canceled |-> FALSE]]
        /\ cur \in Clients
    BY <1>5 DEF Exec, LoopOK
  <2>2. [client |-> cur, file |-> f, canceled |-> FALSE] \in Jobs
    BY <2>1 DEF Jobs
  <2>3. job'[j] # NIL
    BY <2>1, <2>2, ClientAssumption DEF TypeOK
  <2> QED BY <2>3 DEF Active
<1>6. CASE EndPush
  <2>1. /\ mode = "push" /\ ToBroadcast = {} /\ IsUpToDate(want[cur])
        /\ rest' = [rest EXCEPT ![cur] = todo[cur]]
        /\ UNCHANGED <<Status, FileVerify, VerifyDate, PendingDate, job, want, cur>>
        /\ cur \in Clients /\ want[cur] # NIL
    BY <1>6 DEF EndPush, fileVars, jobVars, LoopOK
  <2>2. PICK w \in Derived : w = want[cur]
    BY <2>1 DEF TypeOK
  <2>3. CASE IsAllDone(w)
    BY <2>1, <2>2, <2>3 DEF IsAllDone, IsUpToDate
  <2>4. CASE ~IsAllDone(w)
    <3>1. Unfinished(w)
      BY <2>1, <2>2, <2>4 DEF Unfinished
    <3>2. PICK f \in Derived : Status[f] = STAT_Busy \/ (Status[f] = STAT_Ready /\ f \in todo[cur])
      BY <2>1, <3>1, SomebodyWorks DEF PushInv
    <3>3. Status[f] = STAT_Busy => Active' # {}
      BY <2>1 DEF BusyHasOneJob, Active
    <3>4. Status[f] = STAT_Ready /\ f \in todo[cur] => f \in Launchable(cur)'
      BY <2>1 DEF Launchable, TypeOK
    <3> QED BY <3>2, <3>3, <3>4
  <2> QED BY <2>3, <2>4
<1>7. CASE UNCHANGED vars
  BY <1>1, <1>7 DEF vars, jobVars, clientVars, loopVars
\* The others do not lead to a launch.
<1>8. ASSUME NEW j \in JobIDs, JobEnds(j) PROVE FALSE
  BY <1>8 DEF JobEnds, Job_Done, Hear, Selecting
<1>9. ASSUME \/ (\E s \in Sources : Test(s))
             \/ (\E c \in Clients : TestAll(c) \/ Interrupt(c) \/ Disconnect(c))
             \/ (\E c \in Clients, f \in Derived : Request(c, f))
       PROVE  FALSE
  BY <1>9 DEF Test, TestAll, Interrupt, Disconnect, Request, Hear, Selecting
<1>10. ASSUME \/ EndIteration \/ EnterTarget \/ UpdateSource \/ RefreshDispatched \/ Compute
              \/ FlushBroadcast \/ EndLaunch \/ FinishPass
              \/ (\E c \in Clients : ServeInterrupted(c) \/ StartPush(c))
              \/ (\E i \in Files : Descend(i))
       PROVE  FALSE
  BY <1>10 DEF EndIteration, EnterTarget, UpdateSource, RefreshDispatched, Compute,
     FlushBroadcast, EndLaunch, FinishPass, ServeInterrupted, StartPush, Descend, Visiting, loopVars
<1> QED
  BY <1>2, <1>3, <1>4, <1>5, <1>6, <1>7, <1>8, <1>9, <1>10 DEF Next, Pass, User, Restart

\* What is left to launch stays ready: only an inotify event could clear it, and
\* the database is only cleaned up without a request.
LEMMA RestStep ==
  ASSUME ~MayCrash, OneClient, VerifyLevel # 1
  PROVE  TypeInv /\ JobInv /\ testing = {} /\ RestInv /\ [Next]_vars => RestInv'
<1> SUFFICES ASSUME TypeOK, LoopOK, HeaderOK, BusyHasOneJob, testing = {}, RestInv, [Next]_vars,
                    mode' \in {"select", "serve"}
             PROVE  \A c \in Clients : rest'[c] # {} => Launchable(c)' # {} /\ want'[c] # NIL
  BY DEF TypeInv, JobInv, RestInv
<1> DEFINE Kept == \A c \in Clients : rest'[c] # {} => Launchable(c)' # {} /\ want'[c] # NIL
<1>1. ASSUME mode \in {"select", "serve"}, UNCHANGED rest,
             \A c \in Clients : want[c] # NIL => want'[c] # NIL,
             \A f \in Derived : Status[f] = STAT_Ready => Status'[f] = STAT_Ready
      PROVE  Kept
  <2>1. \A c \in Clients : rest[c] \subseteq Derived
    BY DEF TypeOK
  <2> QED BY <1>1, <2>1 DEF RestInv, Launchable
<1>2. ASSUME NEW c \in Clients, rest'[c] = {} PROVE Kept
  BY <1>2 DEF OneClient
<1>3. ASSUME NEW s \in Sources, Edit(s) \/ Test(s) PROVE Kept
  BY <1>1, <1>3 DEF Edit, Test, fileVars, clientVars, loopVars
<1>4. ASSUME NEW j \in JobIDs, ToolRead(j) PROVE Kept
  BY <1>1, <1>4 DEF ToolRead, fileVars, clientVars, loopVars
<1>5. ASSUME NEW j \in JobIDs, JobEnds(j) PROVE Kept
  <2>1. PICK outcome \in Outcomes \cup {"abort"} : Job_Done(j, outcome)
    BY <1>5 DEF JobEnds
  <2>2. PICK g \in Derived : j \in Active /\ g = job[j].file /\ Status[g] = STAT_Busy
    BY <2>1, JobDoneEffect, JobType DEF BusyHasOneJob
  <2>3. \E st : Status' = [Status EXCEPT ![g] = st]
    BY <2>1, <2>2, JobDoneEffect
  <2>4. \A f \in Derived : Status[f] = STAT_Ready => Status'[f] = STAT_Ready
    BY <2>2, <2>3 DEF TypeOK, Files, STAT_Ready, STAT_Busy
  <2>5. UNCHANGED <<rest, want>> /\ mode = "select"
    BY <2>1 DEF Job_Done, Hear, Selecting
  <2> QED BY <1>1, <2>4, <2>5
<1>6. ASSUME NEW c \in Clients, TestAll(c) \/ Interrupt(c) \/ (\E f \in Derived : Request(c, f))
      PROVE  Kept
  <2>1. UNCHANGED <<Status, rest>> /\ mode = "select"
    BY <1>6 DEF TestAll, Interrupt, Request, Hear, Selecting, fileVars
  <2>2. \A d \in Clients : want[d] # NIL => want'[d] # NIL
    <3>1. ASSUME NEW f \in Derived, Request(c, f) PROVE want[c] = NIL
      BY <3>1 DEF Request, Idle
    <3> QED BY <1>6, <3>1 DEF TestAll, Interrupt, OneClient
  <2> QED BY <1>1, <2>1, <2>2
<1>7. ASSUME NEW c \in Clients, Disconnect(c) PROVE Kept
  <2>1. rest'[c] = {}
    BY <1>7 DEF Disconnect, TypeOK
  <2> QED BY <1>2, <2>1
<1>8. ASSUME NEW c \in Clients, ServeInterrupted(c) PROVE Kept
  <2>1. mode = "serve" /\ UNCHANGED Status
    BY <1>8 DEF ServeInterrupted, fileVars
  <2>2. CASE UNCHANGED clientVars
    BY <1>1, <2>1, <2>2 DEF clientVars
  <2>3. CASE EndGet(c, STAT_Unknown)
    BY <1>2, <2>3 DEF EndGet, TypeOK
  <2> QED BY <1>8, <2>2, <2>3 DEF ServeInterrupted
<1>9. CASE EndIteration
  BY <1>1, <1>9 DEF EndIteration, Selecting, fileVars, clientVars
<1>10. CASE EndLaunch
  <2>1. cur \in Clients /\ want[cur] # NIL /\ UNCHANGED Status
    BY <1>10 DEF EndLaunch, LoopOK, fileVars
  <2>2. CASE Launchable(cur) # {} /\ UNCHANGED clientVars
    BY <2>1, <2>2 DEF OneClient, Launchable, clientVars
  <2>3. CASE EndGet(cur, Status[want[cur]])
    BY <1>2, <2>1, <2>3 DEF EndGet, TypeOK
  <2>4. CASE rest' = [rest EXCEPT ![cur] = {}]
    BY <1>2, <2>1, <2>4 DEF TypeOK
  <2> QED BY <1>10, <2>2, <2>3, <2>4 DEF EndLaunch
<1>11. CASE FinishPass
  <2>1. mode = "serve" /\ UNCHANGED <<rest, want>>
    BY <1>11 DEF FinishPass, clientVars
  <2>2. CASE ServerIdle
    BY <2>1, <2>2 DEF ServerIdle, RestInv
  <2>3. CASE ~ServerIdle
    BY <1>1, <1>11, <2>1, <2>3 DEF FinishPass
  <2> QED BY <2>2, <2>3
<1>12. CASE UNCHANGED vars
  BY <1>1, <1>12 DEF vars, fileVars, clientVars, loopVars
\* The others stay in the pass, or end it at a launch.
<1>13. ASSUME \/ EnterTarget \/ UpdateSource \/ RefreshDispatched \/ Compute \/ FlushBroadcast
              \/ EndPush \/ (\E c \in Clients : ResumeLaunch(c) \/ StartPush(c))
              \/ (\E i \in Files : Descend(i)) \/ (\E f \in Derived, j \in JobIDs : Exec(f, j))
       PROVE  FALSE
  BY <1>13 DEF EnterTarget, UpdateSource, RefreshDispatched, Compute, FlushBroadcast, EndPush,
     ResumeLaunch, StartPush, Descend, Exec, Visiting, loopVars
<1> QED
  BY <1>3, <1>4, <1>5, <1>6, <1>7, <1>8, <1>9, <1>10, <1>11, <1>12, <1>13
     DEF Next, Pass, User, Restart

\* Every action that leaves a request without jobs and outside the pass wakes
\* the select loop.
LEMMA WakeStep ==
  ASSUME OneClient
  PROVE  TypeInv /\ testing = {} /\ LaunchInv /\ WakeInv /\ [Next]_vars => WakeInv'
<1> SUFFICES ASSUME TypeOK, LoopOK, testing = {}, LaunchInv, WakeInv, [Next]_vars,
                    NEW c \in Clients, want'[c] # NIL, Active' = {},
                    mode' = "select" \/ (mode' = "serve" /\ c \notin due')
             PROVE  ready'
  BY DEF TypeInv, WakeInv
<1> USE DEF OneClient
<1>1. ASSUME Active = {}, UNCHANGED <<want, mode, due, ready>> PROVE ready'
  BY <1>1 DEF WakeInv
<1>2. UNCHANGED job => Active = {}
  BY DEF Active
<1>3. Active = {} => NumJobs(c) = 0
  BY FS_EmptySet DEF Active, NumJobs
<1>4. ASSUME NEW s \in Sources, Edit(s) \/ Test(s) PROVE ready'
  BY <1>1, <1>2, <1>4 DEF Edit, Test, StatSource, Wake, jobVars, clientVars, loopVars
<1>5. ASSUME NEW j \in JobIDs, ToolRead(j) \/ JobEnds(j) PROVE ready'
  BY <1>1, <1>2, <1>5 DEF ToolRead, JobEnds, Job_Done, Wake, clientVars, loopVars
<1>6. ASSUME NEW d \in Clients, TestAll(d) \/ Interrupt(d) \/ (\E f \in Derived : Request(d, f))
      PROVE  ready'
  BY <1>1, <1>2, <1>6 DEF TestAll, Interrupt, Request, Wake, jobVars
<1>7. ASSUME NEW d \in Clients, Disconnect(d) PROVE ready'
  BY <1>7 DEF Disconnect, TypeOK
<1>8. ASSUME NEW d \in Clients, ServeInterrupted(d) PROVE ready'
  <2>1. NumJobs(d) = 0
    BY <1>2, <1>3, <1>8 DEF ServeInterrupted, jobVars
  <2> QED BY <1>8, <2>1 DEF ServeInterrupted, EndGet, TypeOK
<1>9. CASE EndIteration
  <2>1. Active = {} /\ UNCHANGED want /\ mode = "select"
    BY <1>2, <1>9 DEF EndIteration, Selecting, jobVars, clientVars
  <2>2. ready
    BY <2>1 DEF WakeInv
  <2> QED BY <1>9, <2>1, <2>2 DEF EndIteration
<1>10. CASE EndLaunch
  <2>1. /\ Active = {} /\ c = cur /\ UNCHANGED <<Status, FileVerify, VerifyDate, PendingDate>>
        /\ mode = "launch"
    BY <1>2, <1>10 DEF EndLaunch, LoopOK, jobVars, fileVars
  <2>2. NumJobs(cur) = 0 /\ MaxJobs # 0
    BY <1>3, <2>1, BoundAssumption
  <2>3. Launchable(cur) = {}
    BY <1>10, <2>2 DEF EndLaunch
  <2>4. IsAllDone(want[cur])
    BY <2>1, <2>3 DEF LaunchInv
  <2>5. EndGet(cur, Status[want[cur]])
    BY <1>10, <2>2, <2>3, <2>4, Zenon DEF EndLaunch
  <2> QED BY <2>1, <2>5 DEF EndGet, TypeOK
<1>11. CASE FinishPass
  <2>1. /\ mode = "serve" /\ c \notin due /\ Active = {} /\ UNCHANGED <<want, ready>>
    BY <1>2, <1>11 DEF FinishPass, jobVars, clientVars
  <2> QED BY <2>1 DEF WakeInv
<1>12. CASE EndPush
  BY <1>12 DEF EndPush
<1>13. CASE Restart
  BY <1>13 DEF Restart
<1>14. CASE UNCHANGED vars
  BY <1>1, <1>2, <1>14 DEF vars, jobVars, clientVars, loopVars
\* The others stay in the pass.
<1>15. ASSUME \/ EnterTarget \/ UpdateSource \/ RefreshDispatched \/ Compute \/ FlushBroadcast
              \/ (\E d \in Clients : ResumeLaunch(d) \/ StartPush(d))
              \/ (\E i \in Files : Descend(i)) \/ (\E f \in Derived, j \in JobIDs : Exec(f, j))
       PROVE  FALSE
  BY <1>15 DEF EnterTarget, UpdateSource, RefreshDispatched, Compute, FlushBroadcast,
     ResumeLaunch, StartPush, Descend, Exec, Visiting, loopVars
<1> QED
  BY <1>4, <1>5, <1>6, <1>7, <1>8, <1>9, <1>10, <1>11, <1>12, <1>13, <1>14, <1>15
     DEF Next, Pass, User

\* No wakeup of a client that has the server to itself is lost: whenever its
\* request has no job running, the select loop has a server action to do.  With
\* inotify (VerifyLevel 1) an event between two launches loses one, with two
\* clients a cleared file of the other does.
THEOREM NeverStalls ==
  ASSUME ~MayCrash, OneClient, VerifyLevel # 1
  PROVE  Spec => []NoStall
<1>1. TypeInv /\ Init => StallInv
  BY DEF Init, StallInv, PushInv, LaunchInv, RestInv, WakeInv
<1>2. TypeInv /\ TypeInv' /\ JobInv /\ CheckInv /\ StallInv /\ [Next]_vars => StallInv'
  BY TestingStep, PushStep, LaunchStep, RestStep, WakeStep DEF StallInv, CheckInv
<1>3. StallInv => NoStall
  BY DEF StallInv, WakeInv, NoStall, Selecting
<1> QED BY <1>1, <1>2, <1>3, TypeInvariant, JobInvariant, CheckInvariant, PTL DEF Spec

=============================================================================
