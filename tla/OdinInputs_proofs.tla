-------------------------- MODULE OdinInputs_proofs --------------------------
(***************************************************************************)
(* What the derived files of OdinEngine that are done or dispatched rest   *)
(* on: their inputs are done without error, no newer than the date they    *)
(* are confirmed with, unless a change is on its way to them.              *)
(***************************************************************************)
EXTENDS OdinEngine_proofs

-----------------------------------------------------------------------------
(* The change broadcast *)

\* Nothing is reached by no change.
LEMMA BroadcastNothing == ASSUME NEW st PROVE Broadcast({}, st) = {}
<1>1. SUFFICES ASSUME NEW f \in Broadcast({}, st) PROVE FALSE
  OBVIOUS
<1>2. \A X \in SUBSET Derived :
        (\A g \in Derived : (Inputs[g] \cap ({} \cup X) # {} /\ st[g] > STAT_Unknown)
                              => g \in X) => f \in X
  BY <1>1 DEF Broadcast
<1>3. {} \in SUBSET Derived
  OBVIOUS
<1> QED BY <1>2, <1>3

\* A change goes from a file it was made to or has reached to its dependents,
\* as far as their status is known.
LEMMA BroadcastGoesOn ==
  ASSUME NEW S, NEW st, NEW g \in Derived, st[g] > STAT_Unknown,
         NEW i \in Inputs[g], i \in S \cup Broadcast(S, st)
  PROVE  g \in Broadcast(S, st)
<1>1. SUFFICES ASSUME NEW X \in SUBSET Derived,
                      \A h \in Derived :
                        (Inputs[h] \cap (S \cup X) # {} /\ st[h] > STAT_Unknown) => h \in X
               PROVE  g \in X
  BY DEF Broadcast
<1>2. i \in S \cup X
  BY <1>1 DEF Broadcast
<1> QED BY <1>1, <1>2

\* More changes, and more files of a known status, reach more.
LEMMA BroadcastGrows ==
  ASSUME NEW S, NEW T, S \subseteq T, NEW st, NEW new,
         \A g \in Derived : st[g] > STAT_Unknown => new[g] > STAT_Unknown
  PROVE  Broadcast(S, st) \subseteq Broadcast(T, new)
<1>1. SUFFICES ASSUME NEW f \in Broadcast(S, st), NEW X \in SUBSET Derived,
                      \A g \in Derived :
                        (Inputs[g] \cap (T \cup X) # {} /\ new[g] > STAT_Unknown) => g \in X
               PROVE  f \in X
  BY DEF Broadcast
<1>2. \A g \in Derived : (Inputs[g] \cap (S \cup X) # {} /\ st[g] > STAT_Unknown) => g \in X
  BY <1>1
<1> QED BY <1>1, <1>2 DEF Broadcast

-----------------------------------------------------------------------------
(* The invariant *)

\* The files a change that was found and not yet broadcast will reach.
Reached == Broadcast(ToBroadcast, Status)

\* The files that were dispatched and not canceled since.
Valid(f) == Dispatched(f) /\ ~Canceled(f)

\* The inputs of f are done without error and not newer than the date.
InputsDone(f, date) ==
  date > 0 /\ \A i \in Inputs[f] : Status[i] > STAT_Error /\ ModDate[i] <= date

\* What is to be built, or is done without error, was judged on inputs that are
\* done.
FileOK(f) ==
  /\ Valid(f) => f \in Reached \/ InputsDone(f, DepModDate[f])
  /\ Status[f] > STAT_Error => /\ f \in Reached \/ InputsDone(f, ConfirmDate[f])
                               /\ ErrStatus[f] > STAT_Error /\ ModDate[f] > 0

PassInv == mode # "push" => ToBroadcast = {}
DatedOK == \A s \in Sources : Status[s] > STAT_Unknown => ModDate[s] > 0
InputInv == PassInv /\ DatedOK /\ \A f \in Derived : FileOK(f)

\* No file is made from itself.
LEMMA NotOwnInput == ASSUME NEW f \in Derived PROVE f \notin Inputs[f]
<1>1. {f} \in SUBSET Derived /\ {f} # {}
  OBVIOUS
<1>2. \E g \in {f} : Inputs[g] \cap {f} = {}
  BY <1>1, AcyclicAssumption
<1> QED BY <1>2

\* Outside the push nothing waits for a broadcast.
LEMMA ReachedIdle == ASSUME PassInv, mode # "push" PROVE Reached = {}
BY BroadcastNothing DEF PassInv, Reached

\* A file stays judged on inputs that are done while these stay as they are or
\* the file is going to hear of the change.
LEMMA KeepFile ==
  ASSUME TypeOK, TypeOK', NEW f \in Derived, FileOK(f),
         Valid(f)' => Valid(f) /\ DepModDate'[f] = DepModDate[f],
         Status'[f] > STAT_Error => /\ Status[f] > STAT_Error
                                    /\ ConfirmDate'[f] = ConfirmDate[f]
                                    /\ ErrStatus'[f] = ErrStatus[f] /\ ModDate'[f] = ModDate[f],
         Valid(f)' \/ Status'[f] > STAT_Error =>
           \/ f \in Reached'
           \/ /\ f \notin Reached
              /\ \A i \in Inputs[f] : Status[i] > STAT_Error =>
                   Status'[i] > STAT_Error /\ ModDate'[i] = ModDate[i]
  PROVE  FileOK(f)'
<1>1. ASSUME f \in Reached' PROVE FileOK(f)'
  BY <1>1 DEF FileOK
<1>2. ASSUME f \notin Reached, NEW date, InputsDone(f, date),
             \A i \in Inputs[f] : Status[i] > STAT_Error =>
               Status'[i] > STAT_Error /\ ModDate'[i] = ModDate[i]
      PROVE  date > 0 /\ \A i \in Inputs[f] : Status'[i] > STAT_Error /\ ModDate'[i] <= date
  BY <1>2 DEF InputsDone
<1> QED BY <1>1, <1>2 DEF FileOK, InputsDone

\* Changes only wait to be broadcast while a pass looks for them.
LEMMA PassStep == PassInv /\ [Next]_vars => PassInv'
<1> SUFFICES ASSUME PassInv, [Next]_vars PROVE PassInv'
  OBVIOUS
<1> USE DEF PassInv
<1>1. ASSUME EndIteration \/ EnterTarget \/ RefreshDispatched \/ EndPush \/ EndLaunch
             \/ FlushBroadcast \/ FinishPass
             \/ (\E i \in Files : Descend(i)) \/ (\E f \in Derived, j \in JobIDs : Exec(f, j))
      PROVE  PassInv'
  BY <1>1 DEF EndIteration, EnterTarget, RefreshDispatched, EndPush, EndLaunch,
     FlushBroadcast, FinishPass, Descend, Exec, Visiting, Selecting, loopVars
<1>2. ASSUME UpdateSource \/ Compute PROVE PassInv'
  BY <1>2 DEF UpdateSource, Compute, Visiting
<1>3. ASSUME NEW c \in Clients, ServeInterrupted(c) \/ ResumeLaunch(c) \/ StartPush(c)
      PROVE  PassInv'
  BY <1>3 DEF ServeInterrupted, ResumeLaunch, StartPush
<1>4. CASE User
  BY <1>4 DEF User, Edit, Test, TestAll, Interrupt, Disconnect, Request, Restart, loopVars
<1>5. ASSUME NEW j \in JobIDs, ToolRead(j) \/ JobEnds(j) PROVE PassInv'
  BY <1>5 DEF ToolRead, JobEnds, Job_Done, loopVars
<1>6. CASE UNCHANGED vars
  BY <1>6 DEF vars, loopVars
<1> QED BY <1>1, <1>2, <1>3, <1>4, <1>5, <1>6 DEF Next, Pass

\* The end of a job only changes the file it built, which is then done without
\* error only when the job was not canceled and its tool reported no error.
LEMMA JobDoneFile ==
  ASSUME TypeOK, HeaderOK, NEW j \in JobIDs, NEW outcome \in Outcomes \cup {"abort"},
         Job_Done(j, outcome)
  PROVE  /\ job[j].file \in Derived /\ UNCHANGED DepModDate
         /\ \A i \in Files : i # job[j].file => Status'[i] = Status[i] /\ ModDate'[i] = ModDate[i]
         /\ \A f \in Derived : f # job[j].file =>
              ConfirmDate'[f] = ConfirmDate[f] /\ ErrStatus'[f] = ErrStatus[f]
         /\ Status'[job[j].file] > STAT_Error =>
              /\ ~job[j].canceled /\ ErrStatus'[job[j].file] > STAT_Error
              /\ ModDate'[job[j].file] > 0
              /\ ConfirmDate'[job[j].file] >= DepModDate[job[j].file]
<1> DEFINE f == job[j].file
           st == Min({DepStatus[f], ExecStatus[outcome]})
<1>0. j \in Active /\ f \in Derived /\ f \in Files /\ ~(STAT_Unknown > STAT_Error)
  <2>1. j \in Active
    BY DEF Job_Done, Active
  <2> QED BY <2>1, JobType DEF Files, STAT_Unknown, STAT_Error
<1>1. CASE outcome = "abort"
  <2>1. UNCHANGED modVars /\ Status' = [Status EXCEPT ![f] = STAT_Unknown]
    BY <1>1 DEF Job_Done, AbortJob
  <2> QED BY <1>0, <2>1 DEF modVars, TypeOK
<1>2. CASE outcome # "abort"
  <2>1. FinishJob(j, outcome) /\ outcome \in {"nofile", "error", "warning", "ok"}
    BY <1>2, BoundAssumption DEF Job_Done
  <2> DEFINE new == IF outcome = "nofile" THEN NIL ELSE out[j]
             renamed == new # NIL /\ Differs(f, new)
             date == IF renamed \/ ModDate[f] = 0 THEN CurrentDate + 1 ELSE CurrentDate
  <2>2. ModDate' = IF date # CurrentDate THEN [ModDate EXCEPT ![f] = date] ELSE ModDate
    BY <2>1, Zenon DEF FinishJob
  <2>3. ConfirmDate' = [ConfirmDate EXCEPT ![f] = Max({ConfirmDate[f], DepModDate[f]})]
    BY <2>1, Zenon DEF FinishJob
  <2>4. ErrStatus' = [ErrStatus EXCEPT ![f] = ExecStatus[outcome]]
    BY <2>1, Zenon DEF FinishJob
  <2>5. Status' = [Status EXCEPT ![f] = DoneStatus(j, st)]
    BY <2>1, Zenon DEF FinishJob
  <2>6. UNCHANGED DepModDate
    BY <2>1, Zenon DEF FinishJob
  <2>7. ExecStatus[outcome] \in Statuses /\ DepStatus[f] \in Statuses
    <3>1. DepStatus[f] \in Statuses
      BY <1>0 DEF TypeOK
    <3> QED BY <2>1, <3>1 DEF ExecStatus, Statuses, STAT_Unknown, STAT_OK, STAT_NoFile,
                              STAT_Error, STAT_Warning
  <2>8. st <= ExecStatus[outcome]
    BY <2>7, MinOfTwo
  <2>9. ExecStatus[outcome] \in Int /\ st \in Int /\ STAT_Error \in Int
    <3>1. st \in {DepStatus[f], ExecStatus[outcome]}
      BY <2>7, MinOfTwo
    <3> QED BY <2>7, <3>1 DEF Statuses, STAT_Unknown, STAT_OK, STAT_Error
  <2>10. Max({ConfirmDate[f], DepModDate[f]}) >= DepModDate[f]
    <3>1. ConfirmDate[f] \in Nat /\ DepModDate[f] \in Nat
      BY <1>0 DEF TypeOK
    <3> QED BY <3>1, MaxOfTwo
  <2>11. ModDate'[f] > 0 /\ \A i \in Files : i # f => ModDate'[i] = ModDate[i]
    <3>1. CurrentDate \in Nat /\ ModDate \in [Files -> Nat]
      BY DEF TypeOK
    <3> QED BY <1>0, <2>2, <3>1
  <2>12. /\ Status'[f] = DoneStatus(j, st) /\ ErrStatus'[f] = ExecStatus[outcome]
        /\ ConfirmDate'[f] = Max({ConfirmDate[f], DepModDate[f]})
    <3>1. Status \in [Files -> Statuses] /\ ErrStatus \in [Derived -> Statuses] /\ ConfirmDate \in [Derived -> Nat]
      BY DEF TypeOK
    <3> QED BY <1>0, <2>3, <2>4, <2>5, <3>1
  <2> HIDE DEF st
  <2>13. Status'[f] > STAT_Error => ~job[j].canceled /\ ErrStatus'[f] > STAT_Error
    BY <1>0, <2>8, <2>9, <2>12 DEF DoneStatus
  <2>14. /\ \A i \in Files : i # f => Status'[i] = Status[i]
         /\ \A g \in Derived : g # f => ConfirmDate'[g] = ConfirmDate[g] /\ ErrStatus'[g] = ErrStatus[g]
    BY <2>3, <2>4, <2>5 DEF TypeOK
  <2> QED BY <1>0, <2>6, <2>10, <2>11, <2>12, <2>13, <2>14
<1> QED BY <1>1, <1>2

\* What GetNotUpToDateFile decides: a file is to be built, or counts as done
\* without error, only when its inputs are done, and is done again when they are.
LEMMA ComputeFile ==
  ASSUME TypeOK, HeaderOK, Compute
  PROVE  \E f \in Derived, st \in Statuses, date \in Nat :
           /\ f = Top /\ ~Dispatched(f)
           /\ Status' = [Status EXCEPT ![f] = st]
           /\ DepModDate' = [DepModDate EXCEPT ![f] = date]
           /\ UNCHANGED <<data, ModDate, ConfirmDate, ErrStatus, ToBroadcast, job, out>>
           /\ st > STAT_Unknown /\ st # STAT_Busy
           /\ st = STAT_Ready =>
                /\ InputsDone(f, date) /\ ~(ModDate[f] > 0 /\ ConfirmDate[f] >= date)
           /\ date \in {1, DepModDate[f]} \cup {ModDate[i] : i \in Inputs[f]}
           /\ st > STAT_Error =>
                InputsDone(f, ConfirmDate[f]) /\ ErrStatus[f] > STAT_Error /\ ModDate[f] > 0
           /\ InputsDone(f, ConfirmDate[f]) /\ ErrStatus[f] > STAT_Error /\ ModDate[f] > 0
                => st > STAT_Error
<1>1. PICK f \in Derived : f = Top
  BY DEF Compute
<1> DEFINE least == Min({STAT_OK} \cup {Status[i] : i \in Inputs[f]})
           min == Get_ToolStatus(least)
           son == Max({1} \cup {ModDate[i] : i \in Inputs[f]})
           again == ModDate[f] > 0 /\ ConfirmDate[f] >= son
<1>2. /\ \/ /\ min < STAT_Error
            /\ Status' = [Status EXCEPT ![f] = min]
            /\ UNCHANGED DepModDate
         \/ /\ min > STAT_Error /\ again
            /\ Status' = [Status EXCEPT ![f] = Min({min, ErrStatus[f]})]
            /\ UNCHANGED DepModDate
         \/ /\ min > STAT_Error /\ ~again
            /\ Status' = [Status EXCEPT ![f] = STAT_Ready]
            /\ DepModDate' = [DepModDate EXCEPT ![f] = son]
      /\ ~Dispatched(f)
      /\ UNCHANGED <<data, ModDate, ConfirmDate, ErrStatus, ToBroadcast, job, out>>
  BY <1>1, Zenon DEF Compute, jobVars
<1>3. /\ least \in Statuses /\ least \in {STAT_OK} \cup {Status[i] : i \in Inputs[f]}
      /\ \A i \in Inputs[f] : least <= Status[i]
      /\ son \in Nat /\ son >= 1 /\ son \in {1} \cup {ModDate[i] : i \in Inputs[f]}
      /\ \A i \in Inputs[f] : son >= ModDate[i]
  BY ComputeType
<1>4. /\ \A i \in Inputs[f] : Status[i] \in Int /\ ModDate[i] \in Nat
      /\ ConfirmDate[f] \in Nat /\ ErrStatus[f] \in Statuses /\ DepModDate[f] \in Nat
      /\ ModDate[f] \in Nat /\ ErrStatus[f] > STAT_Busy
  <2>1. Inputs[f] \in SUBSET Files /\ f \in Files
    BY GraphAssumption DEF Files
  <2>2. Statuses \subseteq Int
    BY DEF Statuses, STAT_Unknown, STAT_OK
  <2>3. /\ \A i \in Files : Status[i] \in Statuses /\ ModDate[i] \in Nat
        /\ ConfirmDate[f] \in Nat /\ ErrStatus[f] \in Statuses /\ DepModDate[f] \in Nat
    BY DEF TypeOK
  <2> QED BY <2>1, <2>2, <2>3 DEF HeaderOK
<1> HIDE DEF least, son
<1>5. /\ min \in Statuses /\ min > STAT_Unknown /\ min \notin {STAT_Ready, STAT_Busy}
      /\ min > STAT_Error <=> least > STAT_Error
  BY <1>3 DEF Get_ToolStatus, Is_PendingReadyOrBusy_Status, Statuses, STAT_Unknown, STAT_OK,
              STAT_Pending, STAT_Ready, STAT_Busy, STAT_SysAbort, STAT_Error
<1>6. min > STAT_Error <=> \A i \in Inputs[f] : Status[i] > STAT_Error
  <2>1. STAT_OK > STAT_Error /\ STAT_Error \in Int /\ least \in Int
    BY <1>3 DEF STAT_OK, STAT_Error, Statuses, STAT_Unknown
  <2> HIDE DEF min
  <2> QED BY <1>3, <1>4, <1>5, <2>1
<1> HIDE DEF min
<1>7. \A date \in Nat : date >= son <=> (date > 0 /\ \A i \in Inputs[f] : ModDate[i] <= date)
  BY <1>3, <1>4
<1>8. /\ Min({min, ErrStatus[f]}) \in {min, ErrStatus[f]}
      /\ Min({min, ErrStatus[f]}) <= ErrStatus[f]
  BY <1>4, <1>5, MinOfTwo
<1>9. STAT_Ready \in Statuses /\ STAT_Ready > STAT_Unknown /\ ~(STAT_Ready > STAT_Error)
      /\ STAT_Ready # STAT_Busy /\ STAT_Unknown \in Int /\ STAT_Error \in Int /\ STAT_Busy \in Int
      /\ STAT_Busy > STAT_Unknown /\ STAT_Busy > STAT_Ready /\ STAT_Ready \in Int
      /\ Statuses \subseteq Int
  BY DEF Statuses, STAT_OK, STAT_Ready, STAT_Unknown, STAT_Error, STAT_Busy
<1>10. CASE min < STAT_Error /\ Status' = [Status EXCEPT ![f] = min] /\ UNCHANGED DepModDate
  <2>1. DepModDate' = [DepModDate EXCEPT ![f] = DepModDate[f]]
    BY <1>10 DEF TypeOK
  <2>2. ~(min > STAT_Error) /\ ~InputsDone(f, ConfirmDate[f])
    BY <1>5, <1>6, <1>9, <1>10 DEF InputsDone
  <2> QED BY <1>1, <1>2, <1>4, <1>5, <1>9, <1>10, <2>1, <2>2
<1>11. CASE /\ min > STAT_Error /\ again
            /\ Status' = [Status EXCEPT ![f] = Min({min, ErrStatus[f]})]
            /\ UNCHANGED DepModDate
  <2> DEFINE st == Min({min, ErrStatus[f]})
  <2>1. DepModDate' = [DepModDate EXCEPT ![f] = DepModDate[f]]
    BY <1>11 DEF TypeOK
  <2>2. InputsDone(f, ConfirmDate[f]) /\ ModDate[f] > 0
    BY <1>4, <1>6, <1>7, <1>11 DEF InputsDone
  <2>3. st \in Statuses /\ st > STAT_Unknown /\ st # STAT_Busy /\ st # STAT_Ready
    <3>1. CASE st = min
      BY <1>5, <3>1
    <3>2. CASE st = ErrStatus[f]
      <4>1. ErrStatus[f] \in Int
        BY <1>4, <1>9
      <4> HIDE DEF st
      <4> QED BY <1>4, <1>9, <3>2, <4>1
    <3> QED BY <1>8, <3>1, <3>2
  <2>4. st > STAT_Error <=> ErrStatus[f] > STAT_Error
    <3>1. min \in Int /\ ErrStatus[f] \in Int /\ st \in {min, ErrStatus[f]} /\ st <= ErrStatus[f]
      BY <1>4, <1>5, <1>8, <1>9
    <3> HIDE DEF st
    <3> QED BY <1>9, <1>11, <3>1
  <2> HIDE DEF st, again
  <2> QED BY <1>1, <1>2, <1>4, <1>11, <2>1, <2>2, <2>3, <2>4 DEF st
<1>12. CASE /\ min > STAT_Error /\ ~again
            /\ Status' = [Status EXCEPT ![f] = STAT_Ready]
            /\ DepModDate' = [DepModDate EXCEPT ![f] = son]
  <2>1. InputsDone(f, son)
    BY <1>3, <1>6, <1>7, <1>12 DEF InputsDone
  <2>2. ~(ModDate[f] > 0 /\ InputsDone(f, ConfirmDate[f]))
    BY <1>4, <1>7, <1>12 DEF InputsDone
  <2> QED BY <1>1, <1>2, <1>3, <1>9, <1>12, <2>1, <2>2
<1> HIDE DEF again
<1> QED BY <1>2, <1>10, <1>11, <1>12

\* A file that a change was broadcast to is neither done nor dispatched with a
\* job that is not canceled.
LEMMA ClearedFile ==
  ASSUME TypeOK, BusyHasOneJob, NEW B, NEW f \in Derived, job' = Cancel(B, Status, job),
         Status'[f] = ClrStatus(B, Status)[f]
  PROVE  /\ Valid(f)' => f \notin B /\ Valid(f)
         /\ Status'[f] > STAT_Error => f \notin B /\ Status[f] > STAT_Error
<1>0. /\ f \in Files /\ STAT_Unknown \notin {STAT_Ready, STAT_Busy} /\ ~(STAT_Unknown > STAT_Error)
      /\ ~(STAT_Busy > STAT_Error)
  BY DEF Files, STAT_Unknown, STAT_Ready, STAT_Busy, STAT_Error
<1>1. Status'[f] = IF f \in B /\ Status[f] # STAT_Busy THEN STAT_Unknown ELSE Status[f]
  BY <1>0 DEF ClrStatus
<1>2. SameJobs
  BY CancelSameJobs
<1>3. Active' = Active /\ \A j \in Active : job'[j].file = job[j].file
  BY <1>2 DEF SameJobs, Active
<1>4. ASSUME f \in B, Status[f] = STAT_Busy PROVE Canceled(f)'
  <2>1. PICK j \in Active : job[j].file = f
    BY <1>4 DEF BusyHasOneJob
  <2>2. job[j] \in Jobs
    BY JobType
  <2>3. job'[j].canceled = TRUE
    BY <1>4, <2>1, <2>2 DEF Cancel, Active, Jobs
  <2> QED BY <1>3, <2>1, <2>3 DEF Canceled
<1>5. ASSUME Canceled(f) PROVE Canceled(f)'
  <2>1. PICK j \in Active : job[j].file = f /\ job[j].canceled
    BY <1>5 DEF Canceled
  <2>2. job[j] \in Jobs
    BY JobType
  <2>3. job'[j].canceled
    BY <2>1, <2>2 DEF Cancel, Active, Jobs
  <2> QED BY <1>3, <2>1, <2>3 DEF Canceled
<1> QED BY <1>0, <1>1, <1>4, <1>5 DEF Valid, Dispatched

\* Every action keeps what files were judged on.
LEMMA InputStep ==
  ASSUME ~MayCrash
  PROVE  TypeInv /\ TypeInv' /\ JobInv /\ InputInv /\ [Next]_vars
           => DatedOK' /\ \A f \in Derived : FileOK(f)'
<1> SUFFICES ASSUME TypeOK, TypeOK', LoopOK, SourcesIdle, HeaderOK, BusyHasOneJob,
                    PassInv, DatedOK, \A f \in Derived : FileOK(f), [Next]_vars
             PROVE  DatedOK' /\ \A f \in Derived : FileOK(f)'
  BY DEF TypeInv, JobInv, InputInv
<1>0. /\ \A s \in Sources : s \in Files /\ s \notin Derived
      /\ \A f \in Derived : f \in Files /\ Inputs[f] \subseteq Files
      /\ \A i \in Files : Status[i] \in Int /\ ModDate[i] \in Nat
      /\ CurrentDate \in Nat
  <2>1. CurrentDate \in Nat /\ \A i \in Files : Status[i] \in Statuses /\ ModDate[i] \in Nat
    BY DEF TypeOK
  <2>2. \A f \in Derived : Inputs[f] \in SUBSET Files
    BY GraphAssumption
  <2>3. Statuses \subseteq Int
    BY DEF Statuses, STAT_Unknown, STAT_OK
  <2> HIDE DEF TypeOK
  <2> QED BY <2>1, <2>2, <2>3, GraphAssumption DEF Files
<1>1. ASSUME UNCHANGED <<Status, ModDate, ConfirmDate, ErrStatus, DepModDate, ToBroadcast, job>>
      PROVE  DatedOK' /\ \A f \in Derived : FileOK(f)'
  BY <1>1 DEF FileOK, DatedOK, Valid, Dispatched, Canceled, Active, InputsDone, Reached
<1>2. ASSUME NEW s \in Sources, Edit(s) PROVE DatedOK' /\ \A f \in Derived : FileOK(f)'
  BY <1>1, <1>2 DEF Edit, fileVars, modVars, jobVars
<1>3. ASSUME NEW j \in JobIDs, ToolRead(j) PROVE DatedOK' /\ \A f \in Derived : FileOK(f)'
  BY <1>1, <1>3 DEF ToolRead, fileVars, modVars
<1>4. ASSUME NEW c \in Clients,
             TestAll(c) \/ Interrupt(c) \/ (\E f \in Derived : Request(c, f))
      PROVE  DatedOK' /\ \A f \in Derived : FileOK(f)'
  BY <1>1, <1>4 DEF TestAll, Interrupt, Request, fileVars, modVars, jobVars
<1>5. ASSUME NEW c \in Clients, ServeInterrupted(c) \/ ResumeLaunch(c) \/ StartPush(c)
      PROVE  DatedOK' /\ \A f \in Derived : FileOK(f)'
  BY <1>1, <1>5 DEF ServeInterrupted, ResumeLaunch, StartPush, fileVars, modVars, jobVars
<1>6. ASSUME \/ EndIteration \/ EnterTarget \/ RefreshDispatched \/ EndPush \/ EndLaunch
             \/ \E i \in Files : Descend(i)
      PROVE  DatedOK' /\ \A f \in Derived : FileOK(f)'
  BY <1>1, <1>6 DEF EndIteration, EnterTarget, RefreshDispatched, EndPush, EndLaunch,
     Descend, fileVars, modVars, jobVars
<1>7. ASSUME NEW s \in Sources, Test(s) PROVE DatedOK' /\ \A f \in Derived : FileOK(f)'
  <2> DEFINE B == Broadcast({s}, Status)
  <2>1. /\ UNCHANGED <<ConfirmDate, ErrStatus, DepModDate, ToBroadcast>>
        /\ \A i \in Files : ModDate'[i] = ModDate[i] \/ (i = s /\ ModDate'[i] = CurrentDate + 1)
        /\ \A i \in Files : Status'[i] = IF i = s THEN NewStatus(s) ELSE ClrStatus(B, Status)[i]
        /\ job' = Cancel(B, Status, job)
        /\ Reached = {} /\ ToBroadcast = {} /\ ModDate[s] # 0
    BY <1>7, ReachedIdle DEF Test, StatSource, Selecting, PassInv, TypeOK, ClrStatus
  <2>2. DatedOK'
    BY <1>0, <2>1 DEF DatedOK, ClrStatus, STAT_Unknown
  <2>3. ASSUME NEW f \in Derived PROVE FileOK(f)'
    <3>1. Status'[f] = ClrStatus(B, Status)[f]
      BY <1>0, <2>1
    <3>2. /\ Valid(f)' => f \notin B /\ Valid(f)
          /\ Status'[f] > STAT_Error => f \notin B /\ Status[f] > STAT_Error
      BY <2>1, <3>1, ClearedFile
    <3>3. ASSUME f \notin B, Status[f] > STAT_Unknown, NEW i \in Inputs[f]
          PROVE  i # s /\ i \notin B
      BY <3>3, BroadcastGoesOn DEF B
    <3>4. Status[f] > STAT_Error \/ Valid(f) => Status[f] > STAT_Unknown
      BY <1>0 DEF Valid, Dispatched, STAT_Unknown, STAT_Error, STAT_Ready, STAT_Busy
    <3> HIDE DEF B
    <3>5. ASSUME f \notin B, Status[f] > STAT_Unknown
          PROVE  \A i \in Inputs[f] : Status'[i] = Status[i] /\ ModDate'[i] = ModDate[i]
      BY <1>0, <2>1, <3>3, <3>5 DEF ClrStatus
    <3>6. f # s
      BY <1>0
    <3> QED BY <1>0, <2>1, <3>2, <3>4, <3>5, <3>6, KeepFile
  <2> QED BY <2>2, <2>3
<1>8. CASE FlushBroadcast
  <2>1. /\ UNCHANGED <<ModDate, ConfirmDate, ErrStatus, DepModDate>>
        /\ Status' = ClrStatus(Reached, Status) /\ job' = Cancel(Reached, Status, job)
    BY <1>8 DEF FlushBroadcast, modVars, Reached
  <2>2. DatedOK'
    BY <1>0, <2>1 DEF DatedOK, ClrStatus, STAT_Unknown
  <2>3. ASSUME NEW f \in Derived PROVE FileOK(f)'
    <3>1. Status'[f] = ClrStatus(Reached, Status)[f]
      BY <2>1
    <3>2. /\ Valid(f)' => f \notin Reached /\ Valid(f)
          /\ Status'[f] > STAT_Error => f \notin Reached /\ Status[f] > STAT_Error
      BY <2>1, <3>1, ClearedFile
    <3>3. ASSUME f \notin Reached, Status[f] > STAT_Unknown, NEW i \in Inputs[f]
          PROVE  i \notin Reached
      BY <3>3, BroadcastGoesOn DEF Reached
    <3>4. Status[f] > STAT_Error \/ Valid(f) => Status[f] > STAT_Unknown
      BY <1>0 DEF Valid, Dispatched, STAT_Unknown, STAT_Error, STAT_Ready, STAT_Busy
    <3>5. ASSUME f \notin Reached, Status[f] > STAT_Unknown
          PROVE  \A i \in Inputs[f] : Status'[i] = Status[i]
      BY <1>0, <2>1, <3>3, <3>5 DEF ClrStatus
    <3>7. Status'[f] > STAT_Error => Status'[f] = Status[f]
      BY <1>0, <3>1, <3>2 DEF ClrStatus
    <3> QED BY <1>0, <2>1, <3>2, <3>4, <3>5, <3>7, KeepFile
  <2> QED BY <2>2, <2>3
<1>9. ASSUME NEW j \in JobIDs, JobEnds(j) PROVE DatedOK' /\ \A f \in Derived : FileOK(f)'
  <2>1. PICK outcome \in Outcomes \cup {"abort"} : Job_Done(j, outcome)
    BY <1>9 DEF JobEnds
  <2>2. PICK g \in Derived : j \in Active /\ g = job[j].file /\ Status[g] = STAT_Busy
    BY <2>1, JobDoneEffect, JobType DEF BusyHasOneJob
  <2>3. /\ UNCHANGED DepModDate
        /\ \A i \in Files : i # g => Status'[i] = Status[i] /\ ModDate'[i] = ModDate[i]
        /\ \A f \in Derived : f # g => ConfirmDate'[f] = ConfirmDate[f] /\ ErrStatus'[f] = ErrStatus[f]
        /\ Status'[g] > STAT_Error =>
             /\ ~job[j].canceled /\ ErrStatus'[g] > STAT_Error /\ ModDate'[g] > 0
             /\ ConfirmDate'[g] >= DepModDate[g]
    BY <2>1, <2>2, JobDoneFile
  <2>4. Status'[g] # STAT_Ready /\ Status'[g] # STAT_Busy
    <3>1. \E st : /\ Status' = [Status EXCEPT ![g] = st]
                  /\ st # STAT_Busy /\ st # STAT_Ready
      BY <2>1, <2>2, JobDoneEffect
    <3>2. Status \in [Files -> Statuses]
      BY DEF TypeOK
    <3> QED BY <1>0, <3>1, <3>2
  <2>5. Reached = {} /\ mode # "push"
    BY <2>1, ReachedIdle DEF Job_Done, Hear, Selecting
  <2>6. Active' = Active \ {j} /\ \A k \in Active' : job'[k] = job[k]
    BY <2>1, JobDoneEffect DEF DelJob, Active
  <2>7. ASSUME NEW f \in Derived, f # g, Canceled(f) PROVE Canceled(f)'
    <3>1. PICK k \in Active : job[k].file = f /\ job[k].canceled
      BY <2>7 DEF Canceled
    <3> QED BY <2>2, <2>6, <2>7, <3>1 DEF Canceled
  <2>8. ASSUME NEW f \in Derived PROVE g \notin Inputs[f] \/ ~InputsDone(f, DepModDate[f])
    BY <2>2 DEF InputsDone, STAT_Busy, STAT_Error
  <2>9. DatedOK'
    BY <1>0, <2>2, <2>3 DEF DatedOK
  <2>10. ASSUME NEW f \in Derived, f # g PROVE FileOK(f)'
    <3>1. Valid(f)' => Valid(f) /\ DepModDate'[f] = DepModDate[f]
      BY <1>0, <2>3, <2>7, <2>10 DEF Valid, Dispatched
    <3>2. \A i \in Inputs[f] : Status[i] > STAT_Error =>
            Status'[i] > STAT_Error /\ ModDate'[i] = ModDate[i]
      BY <1>0, <2>2, <2>3 DEF STAT_Busy, STAT_Error
    <3>3. /\ Status'[f] = Status[f] /\ ConfirmDate'[f] = ConfirmDate[f]
          /\ ErrStatus'[f] = ErrStatus[f] /\ ModDate'[f] = ModDate[f]
      BY <1>0, <2>3, <2>10
    <3> QED BY <2>5, <3>1, <3>2, <3>3, KeepFile
  <2>11. FileOK(g)'
    <3>1. ~Valid(g)'
      BY <2>4 DEF Valid, Dispatched
    <3>2. ASSUME Status'[g] > STAT_Error PROVE InputsDone(g, ConfirmDate[g])'
      <4>1. ~Canceled(g)
        BY <2>2, <2>3, <3>2 DEF Canceled, BusyHasOneJob
      <4>2. InputsDone(g, DepModDate[g])
        BY <2>2, <2>5, <4>1 DEF FileOK, Valid, Dispatched
      <4>3. g \notin Inputs[g]
        BY <2>2, NotOwnInput
      <4>4. ConfirmDate'[g] \in Nat /\ DepModDate[g] \in Nat
        BY <2>2 DEF TypeOK
      <4>5. \A i \in Inputs[g] : Status'[i] > STAT_Error /\ ModDate'[i] = ModDate[i] /\ ModDate[i] \in Nat
        BY <1>0, <2>2, <2>3, <4>2, <4>3 DEF InputsDone
      <4> QED BY <2>3, <3>2, <4>2, <4>4, <4>5 DEF InputsDone
    <3> QED BY <2>3, <3>1, <3>2 DEF FileOK
  <2> QED BY <2>9, <2>10, <2>11
<1>10. ASSUME NEW c \in Clients, Disconnect(c) PROVE DatedOK' /\ \A f \in Derived : FileOK(f)'
  <2> DEFINE mine == {j \in JobIDs : job[j] # NIL /\ job[j].client = c}
             files == {job[j].file : j \in mine}
  <2>1. /\ UNCHANGED <<ModDate, ConfirmDate, ErrStatus, DepModDate>>
        /\ \A f \in Files : Status'[f] = IF f \in files THEN STAT_Unknown ELSE Status[f]
        /\ \A j \in JobIDs : job'[j] = IF j \in mine THEN NIL ELSE job[j]
        /\ Reached = {} /\ mine \subseteq Active
    BY <1>10, ReachedIdle DEF Disconnect, DelJob, Selecting, modVars, Active
  <2>2. \A f \in files : f \in Derived /\ Status[f] = STAT_Busy
    BY <2>1, JobType DEF BusyHasOneJob
  <2>3. \A j \in Active : job[j].file \notin files => j \in Active' /\ job'[j] = job[j]
    BY <2>1 DEF Active
  <2> HIDE DEF files
  <2>4. DatedOK'
    BY <1>0, <2>1, <2>2 DEF DatedOK
  <2>5. ASSUME NEW f \in Derived PROVE FileOK(f)'
    <3>1. Canceled(f) /\ f \notin files => Canceled(f)'
      BY <2>3 DEF Canceled
    <3>2. Valid(f)' => Valid(f)
      BY <1>0, <2>1, <3>1 DEF Valid, Dispatched, STAT_Unknown, STAT_Ready, STAT_Busy
    <3>3. \A i \in Inputs[f] : Status[i] > STAT_Error => Status'[i] > STAT_Error
      BY <1>0, <2>1, <2>2 DEF STAT_Busy, STAT_Error
    <3>4. Status'[f] > STAT_Error => Status[f] > STAT_Error
      BY <1>0, <2>1 DEF STAT_Unknown, STAT_Error
    <3> QED BY <2>1, <3>2, <3>3, <3>4, KeepFile
  <2> QED BY <2>4, <2>5
<1>11. ASSUME NEW g \in Derived, NEW j \in JobIDs, Exec(g, j)
       PROVE  DatedOK' /\ \A f \in Derived : FileOK(f)'
  <2> DEFINE new == [client |-> cur, file |-> g, canceled |-> FALSE]
  <2>1. /\ UNCHANGED <<ModDate, ConfirmDate, ErrStatus, DepModDate>>
        /\ Status[g] = STAT_Ready /\ job[j] = NIL /\ Reached = {}
        /\ \A f \in Files : Status'[f] = IF f = g THEN STAT_Busy ELSE Status[f]
        /\ \A k \in JobIDs : job'[k] = IF k = j THEN new ELSE job[k]
    BY <1>0, <1>11, ReachedIdle DEF Exec, Launchable, modVars, TypeOK
  <2>2. new.file = g /\ ~new.canceled
    OBVIOUS
  <2> HIDE DEF new
  <2>3. \A f \in Derived : Canceled(f) => Canceled(f)'
    BY <2>1 DEF Canceled, Active
  <2>4. DatedOK'
    BY <1>0, <2>1 DEF DatedOK
  <2>5. ASSUME NEW f \in Derived PROVE FileOK(f)'
    <3>1. Valid(f)' => Valid(f)
      BY <1>0, <2>1, <2>3 DEF Valid, Dispatched
    <3>2. \A i \in Inputs[f] : Status[i] > STAT_Error => Status'[i] > STAT_Error
      BY <1>0, <2>1 DEF STAT_Ready, STAT_Error
    <3>3. Status'[f] > STAT_Error => Status[f] > STAT_Error
      BY <1>0, <2>1 DEF STAT_Busy, STAT_Error
    <3> QED BY <2>1, <3>1, <3>2, <3>3, KeepFile
  <2> QED BY <2>4, <2>5
<1>12. CASE FinishPass
  <2>1. PICK left \in SUBSET Derived :
          /\ \A f \in left : Status[f] = STAT_Ready
          /\ \A f \in Files : Status'[f] = IF f \in left THEN STAT_Unknown ELSE Status[f]
    <3>1. CASE ServerIdle
      BY <1>12, <3>1 DEF FinishPass
    <3>2. CASE ~ServerIdle
      <4>1. UNCHANGED Status /\ {} \in SUBSET Derived
        BY <1>12, <3>2 DEF FinishPass
      <4>2. \A f \in Files : Status'[f] = IF f \in {} THEN STAT_Unknown ELSE Status[f]
        BY <4>1
      <4> QED BY <4>1, <4>2
    <3> QED BY <3>1, <3>2
  <2>2. /\ UNCHANGED <<ModDate, ConfirmDate, ErrStatus, DepModDate, job>>
        /\ Reached = {}
    BY <1>12, ReachedIdle DEF FinishPass, modVars, jobVars
  <2>3. DatedOK'
    BY <1>0, <2>1, <2>2 DEF DatedOK
  <2>4. ASSUME NEW f \in Derived PROVE FileOK(f)'
    <3>1. Valid(f)' => Valid(f)
      BY <1>0, <2>1, <2>2 DEF Valid, Dispatched, Canceled, Active, STAT_Unknown, STAT_Ready, STAT_Busy
    <3>2. \A i \in Inputs[f] : Status[i] > STAT_Error => Status'[i] > STAT_Error
      BY <1>0, <2>1 DEF STAT_Ready, STAT_Error
    <3>3. Status'[f] > STAT_Error => Status[f] > STAT_Error
      BY <1>0, <2>1 DEF STAT_Unknown, STAT_Error
    <3> QED BY <2>2, <3>1, <3>2, <3>3, KeepFile
  <2> QED BY <2>3, <2>4
<1>13. CASE UpdateSource
  <2>1. PICK s \in Sources :
          /\ s = Top /\ StatSource(s) /\ Status' = [Status EXCEPT ![s] = NewStatus(s)]
          /\ ToBroadcast' = IF Modified(s) THEN ToBroadcast \cup {s} ELSE ToBroadcast
          /\ UNCHANGED <<ConfirmDate, ErrStatus, DepModDate, job>>
    BY <1>13 DEF UpdateSource, jobVars
  <2>2. /\ \A i \in Files : Status'[i] = IF i = s THEN NewStatus(s) ELSE Status[i]
        /\ \A i \in Files : i # s => ModDate'[i] = ModDate[i]
        /\ ModDate'[s] > 0
        /\ ~Changed(s) => ModDate'[s] = ModDate[s]
    BY <1>0, <2>1 DEF StatSource, Changed, TypeOK
  <2>3. Reached \subseteq Reached'
    <3>1. \A g \in Derived : Status[g] > STAT_Unknown => Status'[g] > STAT_Unknown
      BY <1>0, <2>2
    <3> QED BY <2>1, <3>1, BroadcastGrows DEF Reached
  <2>4. DatedOK'
    BY <1>0, <2>2 DEF DatedOK
  <2>5. ASSUME NEW f \in Derived PROVE FileOK(f)'
    <3>1. Status'[f] = Status[f] /\ ModDate'[f] = ModDate[f] /\ (Valid(f)' => Valid(f))
      BY <1>0, <2>1, <2>2 DEF Valid, Dispatched, Canceled, Active
    <3>2. Valid(f) \/ Status[f] > STAT_Error => Status[f] > STAT_Unknown
      BY <1>0 DEF Valid, Dispatched, STAT_Unknown, STAT_Error, STAT_Ready, STAT_Busy
    <3>3. ASSUME Status[f] > STAT_Unknown, f \notin Reached'
          PROVE  \A i \in Inputs[f] : Status[i] > STAT_Error =>
                   Status'[i] > STAT_Error /\ ModDate'[i] = ModDate[i]
      <4>1. ASSUME s \in Inputs[f], Status[s] > STAT_Error
            PROVE  Status'[s] > STAT_Error /\ ModDate'[s] = ModDate[s]
        <5>1. s \notin ToBroadcast'
          BY <1>0, <2>2, <3>3, <4>1, BroadcastGoesOn DEF Reached
        <5>2. ModDate[s] # 0 /\ Status[s] > STAT_Unknown
          BY <1>0, <4>1 DEF DatedOK, STAT_Error, STAT_Unknown
        <5>3. ~Changed(s) /\ Status[s] = NewStatus(s)
          BY <1>0, <2>1, <5>1, <5>2 DEF Modified, STAT_Unknown
        <5> QED BY <1>0, <2>2, <4>1, <5>3
      <4> QED BY <1>0, <2>2, <4>1
    <3> QED BY <2>1, <2>3, <3>1, <3>2, <3>3, KeepFile
  <2> QED BY <2>4, <2>5
<1>14. CASE Compute
  <2>1. PICK g \in Derived, st \in Statuses, date \in Nat :
           /\ ~Dispatched(g)
           /\ Status' = [Status EXCEPT ![g] = st]
           /\ DepModDate' = [DepModDate EXCEPT ![g] = date]
           /\ UNCHANGED <<ModDate, ConfirmDate, ErrStatus, ToBroadcast, job>>
           /\ st > STAT_Unknown /\ st # STAT_Busy
           /\ st = STAT_Ready => InputsDone(g, date)
           /\ st > STAT_Error =>
                InputsDone(g, ConfirmDate[g]) /\ ErrStatus[g] > STAT_Error /\ ModDate[g] > 0
           /\ InputsDone(g, ConfirmDate[g]) /\ ErrStatus[g] > STAT_Error /\ ModDate[g] > 0
                => st > STAT_Error
    BY <1>14, ComputeFile
  <2>2. \A i \in Files : Status'[i] = IF i = g THEN st ELSE Status[i]
    BY <1>0, <2>1 DEF TypeOK
  <2>3. /\ \A f \in Derived : f # g => DepModDate'[f] = DepModDate[f]
        /\ DepModDate'[g] = date
    BY <2>1 DEF TypeOK
  <2>4. Reached \subseteq Reached'
    <3>1. \A h \in Derived : Status[h] > STAT_Unknown => Status'[h] > STAT_Unknown
      BY <1>0, <2>1, <2>2
    <3> QED BY <2>1, <3>1, BroadcastGrows DEF Reached
  <2>5. DatedOK'
    BY <1>0, <2>1, <2>2 DEF DatedOK
  \* A done input of another file stays done, or the file hears of the change.
  <2>6. ASSUME NEW f \in Derived, f # g PROVE FileOK(f)'
    <3>1. /\ Status'[f] = Status[f] /\ DepModDate'[f] = DepModDate[f] /\ (Valid(f)' => Valid(f))
      BY <1>0, <2>1, <2>2, <2>3, <2>6 DEF Valid, Dispatched, Canceled, Active
    <3>2. Valid(f) \/ Status[f] > STAT_Error => Status[f] > STAT_Unknown
      BY <1>0 DEF Valid, Dispatched, STAT_Unknown, STAT_Error, STAT_Ready, STAT_Busy
    <3>3. ASSUME Status[f] > STAT_Unknown, f \notin Reached'
          PROVE  \A i \in Inputs[f] : Status[i] > STAT_Error => Status'[i] > STAT_Error
      <4>1. ASSUME g \in Inputs[f], Status[g] > STAT_Error PROVE st > STAT_Error
        <5>1. g \notin Reached
          BY <2>4, <3>3, <4>1, BroadcastGoesOn DEF Reached
        <5> QED BY <2>1, <4>1, <5>1 DEF FileOK
      <4> QED BY <1>0, <2>2, <4>1
    <3> QED BY <2>1, <2>4, <3>1, <3>2, <3>3, KeepFile
  <2>7. FileOK(g)'
    <3>1. \A i \in Inputs[g] : Status'[i] = Status[i]
      BY <1>0, <2>2, NotOwnInput
    <3>2. ASSUME NEW d, InputsDone(g, d)
          PROVE  d > 0 /\ \A i \in Inputs[g] : Status'[i] > STAT_Error /\ ModDate'[i] <= d
      BY <2>1, <3>1, <3>2 DEF InputsDone
    <3>3. Status'[g] = st
      BY <1>0, <2>2
    <3> QED BY <2>1, <2>3, <3>2, <3>3 DEF FileOK, InputsDone, Valid, Dispatched
  <2> QED BY <2>5, <2>6, <2>7
<1>15. CASE UNCHANGED vars
  BY <1>1, <1>15 DEF vars, fileVars, modVars, jobVars
<1> QED
  BY <1>2, <1>3, <1>4, <1>5, <1>6, <1>7, <1>8, <1>9, <1>10, <1>11, <1>12, <1>13, <1>14,
     <1>15 DEF Next, Pass, User, Restart

\* What the server builds from is judged in every reachable state, as long as
\* it is not restarted.
LEMMA InputInvariant ==
  ASSUME ~MayCrash
  PROVE  Spec => []InputInv
<1>1. TypeInv /\ Init => InputInv
  BY DEF Init, InputInv, PassInv, DatedOK, FileOK, Valid, Dispatched, Files,
     STAT_Unknown, STAT_Ready, STAT_Busy, STAT_Error
<1>2. TypeInv /\ TypeInv' /\ JobInv /\ InputInv /\ [Next]_vars => InputInv'
  BY InputStep, PassStep DEF InputInv
<1> QED BY <1>1, <1>2, TypeInvariant, JobInvariant, PTL DEF Spec

\* A job is only started, and its output only kept as good, on inputs that are
\* done without error and not newer than the date the output is confirmed with:
\* whatever changes, interrupts, aborted jobs and clients that disconnect come
\* between the visit of GetNotUpToDateFile, LaunchSomeToDos and Local_Job_Done.
THEOREM InputsUsableCorrect ==
  ASSUME ~MayCrash
  PROVE  Spec => []InputsUsable
<1>1. InputInv => InputsUsable
  BY ReachedIdle DEF InputInv, FileOK, InputsUsable, Valid, InputsDone
<1> QED BY <1>1, InputInvariant, PTL

=============================================================================
