------------------------- MODULE OdinEngine_proofs -------------------------
(***************************************************************************)
(* Theorems about OdinEngine, for every graph, number of clients and       *)
(* bound.                                                                  *)
(***************************************************************************)
EXTENDS OdinEngine, FiniteSetTheorems, TLAPS

-----------------------------------------------------------------------------
(* The minimum of some statuses and the maximum of some dates exist: the    *)
(* code computes them in a loop over the inputs (GetNotUpToDateFile).       *)

\* A finite set of dates has a newest one.
LEMMA NewestExists ==
  ASSUME NEW S \in SUBSET Nat, IsFiniteSet(S), S # {}
  PROVE  \E x \in S : \A y \in S : x >= y
<1> DEFINE Newest(X) == \E x \in X : \A y \in X : x >= y
           Bad == {X \in SUBSET S : X # {} /\ ~Newest(X)}
           R == StrictSubsetOrdering(S)
<1>1. SUFFICES ASSUME ~Newest(S) PROVE FALSE
  OBVIOUS
<1>2. IsWellFoundedOn(R, SUBSET S)
  BY FS_StrictSubsetOrderingWellFounded, FS_FiniteSubsetsOfFinite, Zenon
<1>3. Bad \subseteq SUBSET S /\ Bad # {}
  BY <1>1, Zenon
<1> HIDE DEF R
<1>4. PICK X \in Bad : \A Y \in Bad : <<Y, X>> \notin R
  <2> HIDE DEF Bad
  <2> QED BY <1>2, <1>3, WFMin
<1>5. PICK x \in X : TRUE
  BY <1>4
<1>6. X \ {x} # {}
  <2>1. SUFFICES ASSUME X \ {x} = {} PROVE FALSE
    OBVIOUS
  <2>2. \A y \in X : y = x /\ x \in Nat
    BY <2>1, <1>4, <1>5
  <2>3. Newest(X)
    BY <2>2, <1>5
  <2> QED BY <2>3, <1>4
<1>7. <<X \ {x}, X>> \in R
  <2>1. X \in SUBSET S /\ X \ {x} \in SUBSET S
    BY <1>4
  <2>2. X \ {x} \subseteq X /\ X \ {x} # X
    BY <1>5
  <2> QED BY <2>1, <2>2 DEF R, StrictSubsetOrdering
<1>8. Newest(X \ {x})
  BY <1>4, <1>6, <1>7, Zenon
<1>9. PICK m \in X \ {x} : \A y \in X \ {x} : m >= y
  BY <1>8
<1>10. Newest(X)
  <2>1. m \in Nat /\ x \in Nat /\ X \subseteq Nat
    BY <1>4, <1>5, <1>9
  <2>2. CASE x >= m
    <3>1. \A y \in X : x >= y
      BY <2>1, <2>2, <1>9
    <3> QED BY <3>1, <1>5
  <2>3. CASE m >= x
    <3>1. \A y \in X : m >= y
      BY <2>1, <2>3, <1>9
    <3> QED BY <3>1, <1>9
  <2> QED BY <2>1, <2>2, <2>3
<1> QED BY <1>4, <1>10

\* The newest of a finite set of dates is one of them.
LEMMA MaxOfDates ==
  ASSUME NEW S \in SUBSET Nat, IsFiniteSet(S), S # {}
  PROVE  Max(S) \in S /\ \A y \in S : Max(S) >= y
BY NewestExists DEF Max

\* The least of some statuses is one of them.
LEMMA MinOfStatuses ==
  ASSUME NEW S \in SUBSET Statuses, S # {}
  PROVE  Min(S) \in S /\ \A y \in S : Min(S) <= y
<1>1. \E x \in S : \A y \in S : x <= y
  <2> DEFINE T == {12 - x : x \in S}
  <2>0. \A x \in S : x \in 1 .. 12 /\ 12 - x \in Nat /\ 12 - x <= 12
    BY DEF Statuses, STAT_Unknown, STAT_OK
  <2>1. T \subseteq Nat /\ T # {} /\ \A t \in T : t <= 12
    BY <2>0
  <2>2. IsFiniteSet(T)
    BY <2>1, FS_BoundedSetOfNaturals
  <2> HIDE DEF T
  <2>3. PICK t \in T : \A u \in T : t >= u
    BY <2>1, <2>2, NewestExists
  <2>4. PICK x \in S : t = 12 - x
    BY DEF T
  <2>5. \A y \in S : 12 - y \in T /\ y \in Int /\ x \in Int
    BY <2>4 DEF T, Statuses, STAT_Unknown, STAT_OK
  <2>6. \A y \in S : x <= y
    BY <2>3, <2>4, <2>5
  <2> QED BY <2>6
<1> QED BY <1>1 DEF Min

\* The later of two dates and the lesser of two statuses.
LEMMA MaxOfTwo ==
  ASSUME NEW a \in Nat, NEW b \in Nat
  PROVE  Max({a, b}) \in {a, b} /\ Max({a, b}) >= a /\ Max({a, b}) >= b
<1>1. \E x \in {a, b} : \A y \in {a, b} : x >= y
  <2>1. CASE a >= b
    BY <2>1
  <2>2. CASE b >= a
    BY <2>2
  <2> QED BY <2>1, <2>2
<1> QED BY <1>1 DEF Max

LEMMA MinOfTwo ==
  ASSUME NEW a \in Statuses, NEW b \in Statuses
  PROVE  Min({a, b}) \in {a, b} /\ Min({a, b}) <= a /\ Min({a, b}) <= b
<1>1. {a, b} \in SUBSET Statuses /\ {a, b} # {}
  OBVIOUS
<1>2. Min({a, b}) \in {a, b} /\ \A y \in {a, b} : Min({a, b}) <= y
  BY <1>1, MinOfStatuses
<1> QED BY <1>2

-----------------------------------------------------------------------------
(* Types, and where the select loop stands *)

\* What was written to the database is of the type of what is read back.
SavedTypeOK ==
  saved \in [seen : [Sources -> Nat], Status : [Files -> Statuses],
             ModDate : [Files -> Nat], ConfirmDate : [Derived -> Nat],
             FileVerify : [Files -> Nat], ErrStatus : [Derived -> Statuses],
             CurrentDate : Nat, VerifyDate : Nat]

\* The clients still to be served, or to be pushed again for a Test_All, and
\* the one being served, have a request; none is served twice in a pass.
LoopOK ==
  /\ mode = "select" => due = {}
  /\ mode \in {"serve", "launch"} => testing = {}
  /\ mode = "push" => testing = {} \/ (cur \in testing /\ due = {})
  /\ mode \in {"push", "launch"} =>
       cur \in Clients /\ want[cur] # NIL /\ cur \notin due
  /\ \A c \in due \cup testing : want[c] # NIL

\* A source is never pending, ready or busy, nor is it written so.
SourcesIdle ==
  \A s \in Sources : /\ Status[s] \notin {STAT_Pending, STAT_Ready, STAT_Busy}
                     /\ saved.Status[s] \notin {STAT_Pending, STAT_Ready, STAT_Busy}

TypeInv == TypeOK /\ SavedTypeOK /\ LoopOK /\ SourcesIdle


\* The states the server starts in are typed.
LEMMA TypeInit == Init => TypeInv
<1> SUFFICES ASSUME Init PROVE TypeInv
  OBVIOUS
<1>1. STAT_Unknown \in Statuses /\ STAT_OK \in Statuses
  BY DEF Statuses, STAT_Unknown, STAT_OK
<1>2. TypeOK
  <2>1. stack \in Seq(Files)
    BY DEF Init
  <2>2. /\ Status \in [Files -> Statuses] /\ ErrStatus \in [Derived -> Statuses]
        /\ DepStatus \in [Derived -> Statuses]
    BY <1>1 DEF Init
  <2> QED BY <2>1, <2>2 DEF Init, TypeOK
<1>3. SavedTypeOK
  BY <1>1 DEF Init, SavedTypeOK, Database
<1>4. LoopOK
  BY DEF Init, LoopOK
<1>5. SourcesIdle
  BY DEF Init, SourcesIdle, Database, Files, STAT_Unknown, STAT_Pending, STAT_Ready, STAT_Busy
<1> QED BY <1>2, <1>3, <1>4, <1>5 DEF TypeInv

\* A stat keeps the types of what it changes.
LEMMA StatType ==
  ASSUME TypeOK, NEW s \in Sources, StatSource(s)
  PROVE  /\ CurrentDate' \in Nat /\ ModDate' \in [Files -> Nat]
         /\ seen' \in [Sources -> Nat] /\ FileVerify' \in [Files -> Nat]
         /\ ready' \in BOOLEAN
<1>1. s \in Files /\ CurrentDate + 1 \in Nat
  BY DEF Files, TypeOK
<1>2. CASE Changed(s)
  BY <1>1, <1>2 DEF StatSource, TypeOK, Wake
<1>3. CASE ~Changed(s)
  BY <1>1, <1>3 DEF StatSource, TypeOK, Wake
<1> QED BY <1>2, <1>3

\* Clearing the status of some files keeps the types of their headers.
LEMMA ClearType ==
  ASSUME TypeOK, NEW B
  PROVE  /\ ClrStatus(B, Status) \in [Files -> Statuses]
         /\ ClrDep(B, Status, DepStatus) \in [Derived -> Statuses]
         /\ Cancel(B, Status, job) \in [JobIDs -> Jobs \cup {NIL}]
<1>1. STAT_Unknown \in Statuses
  BY DEF Statuses, STAT_Unknown, STAT_OK
<1>2. ClrStatus(B, Status) \in [Files -> Statuses]
  BY <1>1 DEF ClrStatus, TypeOK
<1>3. ClrDep(B, Status, DepStatus) \in [Derived -> Statuses]
  BY <1>1 DEF ClrDep, TypeOK
<1>4. Cancel(B, Status, job) \in [JobIDs -> Jobs \cup {NIL}]
  <2>1. SUFFICES ASSUME NEW j \in JobIDs, job[j] # NIL
                 PROVE  [job[j] EXCEPT !.canceled = TRUE] \in Jobs /\ job[j] \in Jobs
    BY DEF Cancel
  <2>2. job[j] \in Jobs
    BY <2>1 DEF TypeOK
  <2> QED BY <2>2 DEF Jobs
<1> QED BY <1>2, <1>3, <1>4

\* The end of a request keeps the types of the clients' variables.
LEMMA EndGetType ==
  ASSUME TypeOK, NEW c, NEW st, EndGet(c, st)
  PROVE  /\ want' \in [Clients -> Derived \cup {NIL}]
         /\ todo' \in [Clients -> SUBSET Derived] /\ rest' \in [Clients -> SUBSET Derived]
         /\ interrupted' \subseteq Clients /\ tested' \subseteq Clients
         /\ \A d \in Clients : d # c => want'[d] = want[d]
BY DEF EndGet, TypeOK

\* The file on top of the stack, and the stack without it or with one more.
LEMMA StackType ==
  ASSUME TypeOK
  PROVE  /\ stack # <<>> => Top \in Files
         /\ Pop => stack' \in Seq(Files)
         /\ \A i \in Files : Append(stack, i) \in Seq(Files) /\ <<i>> \in Seq(Files)
<1>1. stack \in Seq(Files) /\ Len(stack) \in Nat
  BY DEF TypeOK
<1>2. stack # <<>> => Top \in Files
  BY <1>1 DEF Top
<1>3. Pop => stack' \in Seq(Files)
  BY <1>1 DEF Pop
<1> QED BY <1>1, <1>2, <1>3

\* The outcome of a tool, with the status its inputs gave, is a status.
LEMMA FinishType ==
  ASSUME TypeOK, NEW j \in JobIDs, job[j] # NIL, NEW outcome \in Outcomes,
         outcome # "abort", FinishJob(j, outcome)
  PROVE  /\ DOMAIN data' = Derived /\ CurrentDate' \in Nat
         /\ ModDate' \in [Files -> Nat] /\ ConfirmDate' \in [Derived -> Nat]
         /\ FileVerify' \in [Files -> Nat] /\ DepModDate' \in [Derived -> Nat]
         /\ ErrStatus' \in [Derived -> Statuses] /\ Status' \in [Files -> Statuses]
         /\ interrupted' \subseteq Clients
<1> DEFINE f == job[j].file
           st == Min({DepStatus[f], ExecStatus[outcome]})
<1>1. f \in Derived /\ f \in Files /\ job[j].client \in Clients
  <2>1. job[j] \in Jobs
    BY DEF TypeOK
  <2> QED BY <2>1 DEF Jobs, Files
<1>2. ExecStatus[outcome] \in Statuses
  <2>1. outcome \in {"nofile", "error", "warning", "ok"}
    BY BoundAssumption
  <2> QED BY <2>1 DEF ExecStatus, Statuses, STAT_Unknown, STAT_OK, STAT_NoFile,
                      STAT_Error, STAT_Warning
<1>3. DoneStatus(j, st) \in Statuses
  <2>1. DepStatus[f] \in Statuses
    BY <1>1 DEF TypeOK
  <2>2. st \in Statuses
    BY <1>2, <2>1, MinOfTwo
  <2>3. STAT_Unknown \in Statuses
    BY DEF Statuses, STAT_Unknown, STAT_OK
  <2> QED BY <2>2, <2>3 DEF DoneStatus
<1>4. Max({ConfirmDate[f], DepModDate[f]}) \in Nat
  <2>1. ConfirmDate[f] \in Nat /\ DepModDate[f] \in Nat
    BY <1>1 DEF TypeOK
  <2> QED BY <2>1, MaxOfTwo
<1>5. CurrentDate' \in Nat /\ CurrentDate' \in {CurrentDate, CurrentDate + 1}
  BY DEF FinishJob, TypeOK
<1>6. ModDate' \in [Files -> Nat]
  BY <1>1, <1>5 DEF FinishJob, TypeOK
<1>7. FileVerify' \in [Files -> Nat]
  BY <1>1, <1>5 DEF FinishJob, TypeOK
<1>8. ConfirmDate' \in [Derived -> Nat]
  BY <1>1, <1>4 DEF FinishJob, TypeOK
<1>9. Status' \in [Files -> Statuses] /\ ErrStatus' \in [Derived -> Statuses]
  BY <1>1, <1>2, <1>3 DEF FinishJob, TypeOK
<1>10. interrupted' \subseteq Clients /\ DOMAIN data' = Derived /\ DepModDate' \in [Derived -> Nat]
  BY <1>1 DEF FinishJob, DoInterrupt, TypeOK
<1> QED BY <1>5, <1>6, <1>7, <1>8, <1>9, <1>10

\* What GetNotUpToDateFile makes of the inputs of a derived file is a status
\* and a date.
LEMMA ComputeType ==
  ASSUME TypeOK, NEW f \in Derived
  PROVE  /\ Min({STAT_OK} \cup {Status[i] : i \in Inputs[f]}) \in Statuses
         /\ Max({1} \cup {ModDate[i] : i \in Inputs[f]}) \in Nat
         /\ Min({STAT_OK} \cup {Status[i] : i \in Inputs[f]})
              \in {STAT_OK} \cup {Status[i] : i \in Inputs[f]}
         /\ \A i \in Inputs[f] : Min({STAT_OK} \cup {Status[k] : k \in Inputs[f]}) <= Status[i]
         /\ Max({1} \cup {ModDate[i] : i \in Inputs[f]}) \in {1} \cup {ModDate[i] : i \in Inputs[f]}
         /\ Max({1} \cup {ModDate[i] : i \in Inputs[f]}) >= 1
         /\ \A i \in Inputs[f] : Max({1} \cup {ModDate[k] : k \in Inputs[f]}) >= ModDate[i]
<1>1. Inputs[f] \subseteq Files /\ IsFiniteSet(Inputs[f])
  <2>1. Inputs[f] \in SUBSET Files
    BY GraphAssumption
  <2> QED BY <2>1, GraphAssumption, FS_Subset
<1> DEFINE sts == {STAT_OK} \cup {Status[i] : i \in Inputs[f]}
           mods == {ModDate[i] : i \in Inputs[f]}
<1>2. Min(sts) \in sts /\ \A st \in sts : Min(sts) <= st
  <2>1. sts \subseteq Statuses
    BY <1>1 DEF TypeOK, Statuses, STAT_Unknown, STAT_OK
  <2> QED BY <2>1, MinOfStatuses
<1>3. sts \subseteq Statuses
  BY <1>1 DEF TypeOK, Statuses, STAT_Unknown, STAT_OK
<1>4. mods \subseteq Nat
  BY <1>1 DEF TypeOK
<1>5. IsFiniteSet(mods)
  <2> DEFINE g == [i \in Inputs[f] |-> ModDate[i]]
  <2>1. g \in Surjection(Inputs[f], mods)
    BY DEF Surjection
  <2> QED BY <2>1, <1>1, FS_Surjection
<1>6. /\ Max({1} \cup mods) \in Nat /\ Max({1} \cup mods) \in {1} \cup mods
      /\ \A m \in {1} \cup mods : Max({1} \cup mods) >= m
  <2> HIDE DEF mods
  <2>1. {1} \cup mods \subseteq Nat /\ IsFiniteSet({1} \cup mods)
    BY <1>4, <1>5, FS_AddElement
  <2> QED BY <2>1, MaxOfDates
<1> QED BY <1>2, <1>3, <1>6

\* A file that is computed gets one status and one DepStatus: a ready file has
\* a usable DepStatus, and no file becomes busy before its tool is started.
LEMMA ComputeEffect ==
  ASSUME TypeOK, Compute
  PROVE  /\ \E st, dep \in Statuses :
              /\ Status' = [Status EXCEPT ![Top] = st]
              /\ DepStatus' = [DepStatus EXCEPT ![Top] = dep]
              /\ dep = STAT_Unknown \/ dep > STAT_Error
              /\ ErrStatus[Top] > STAT_Busy =>
                   st # STAT_Busy /\ (st = STAT_Ready => dep > STAT_Error)
         /\ Status' \in [Files -> Statuses] /\ DepStatus' \in [Derived -> Statuses]
         /\ DepModDate' \in [Derived -> Nat] /\ ConfirmDate' = ConfirmDate
         /\ todo' \in [Clients -> SUBSET Derived]
<1> DEFINE least == Min({STAT_OK} \cup {Status[i] : i \in Inputs[Top]})
           min == Get_ToolStatus(least)
           son == Max({1} \cup {ModDate[i] : i \in Inputs[Top]})
<1>1. Top \in Derived /\ Top \in Files
  BY DEF Compute, Files
<1>2. least \in Statuses /\ son \in Nat
  BY <1>1, ComputeType
<1> HIDE DEF least
<1>3. min \in Statuses /\ min \in {STAT_Pending, STAT_SysAbort, STAT_Warning, STAT_OK, STAT_TgtValError}
  BY <1>2 DEF Get_ToolStatus, Is_PendingReadyOrBusy_Status, Statuses, STAT_Unknown, STAT_OK,
              STAT_Pending, STAT_SysAbort, STAT_Warning, STAT_TgtValError, STAT_Error
<1>4. /\ Min({min, ErrStatus[Top]}) \in Statuses
      /\ Min({min, ErrStatus[Top]}) \in {min, ErrStatus[Top]}
  <2>1. ErrStatus[Top] \in Statuses
    BY <1>1 DEF TypeOK
  <2> HIDE DEF min
  <2> QED BY <1>3, <2>1, MinOfTwo
<1> HIDE DEF min, son
<1>5. STAT_Unknown \in Statuses /\ STAT_Ready \in Statuses
  BY DEF Statuses, STAT_Unknown, STAT_OK, STAT_Ready
<1>6. CASE /\ min < STAT_Error
           /\ Status' = [Status EXCEPT ![Top] = min]
           /\ DepStatus' = [DepStatus EXCEPT ![Top] = STAT_Unknown]
           /\ UNCHANGED <<ConfirmDate, DepModDate, todo>>
  <2>1. min # STAT_Busy /\ min # STAT_Ready
    BY <1>3 DEF STAT_Busy, STAT_Ready, STAT_Pending, STAT_SysAbort, STAT_Warning, STAT_OK,
                STAT_TgtValError
  <2> QED BY <1>3, <1>5, <1>6, <2>1 DEF TypeOK
<1>7. CASE /\ min > STAT_Error
           /\ Status' = [Status EXCEPT ![Top] = Min({min, ErrStatus[Top]})]
           /\ DepStatus' = [DepStatus EXCEPT ![Top] = STAT_Unknown]
           /\ UNCHANGED <<ConfirmDate, DepModDate, todo>>
  <2>1. ErrStatus[Top] > STAT_Busy =>
          Min({min, ErrStatus[Top]}) # STAT_Busy /\ Min({min, ErrStatus[Top]}) # STAT_Ready
    BY <1>4, <1>7 DEF STAT_Busy, STAT_Ready, STAT_Error
  <2> QED BY <1>4, <1>5, <1>7, <2>1 DEF TypeOK
<1>8. CASE /\ min > STAT_Error
           /\ Status' = [Status EXCEPT ![Top] = STAT_Ready]
           /\ DepStatus' = [DepStatus EXCEPT ![Top] = min]
           /\ DepModDate' = [DepModDate EXCEPT ![Top] = son]
           /\ PushToDo(Top) /\ UNCHANGED ConfirmDate
  <2>1. STAT_Ready # STAT_Busy
    BY DEF STAT_Ready, STAT_Busy
  <2>2. todo' \in [Clients -> SUBSET Derived]
    BY <1>1, <1>8 DEF TypeOK, PushToDo
  <2> QED BY <1>1, <1>2, <1>3, <1>5, <1>8, <2>1, <2>2 DEF TypeOK
<1> QED BY <1>6, <1>7, <1>8, Zenon DEF Compute, min, son, least

\* Every action keeps the variables of the select loop consistent.
LEMMA LoopStep == TypeOK /\ LoopOK /\ [Next]_vars => LoopOK'
<1> SUFFICES ASSUME TypeOK, LoopOK, [Next]_vars PROVE LoopOK'
  OBVIOUS
<1>0. NIL \notin Clients /\ NIL \notin Derived
  BY GraphAssumption, ClientAssumption DEF Files
<1> USE <1>0 DEF LoopOK
<1>1. ASSUME NEW s \in Sources, Edit(s) \/ Test(s) PROVE LoopOK'
  BY <1>1 DEF Edit, Test, StatSource, Wake, fileVars, modVars, jobVars, clientVars, loopVars
<1>2. ASSUME NEW j \in JobIDs, ToolRead(j) PROVE LoopOK'
  BY <1>2 DEF ToolRead, fileVars, modVars, jobVars, clientVars, loopVars
<1>3. ASSUME NEW j \in JobIDs, JobEnds(j) PROVE LoopOK'
  BY <1>3 DEF JobEnds, Job_Done, Hear, Selecting, Wake, fileVars, modVars, jobVars, clientVars, loopVars
<1>4. ASSUME NEW c \in Clients, TestAll(c) PROVE LoopOK'
  BY <1>4 DEF TestAll, Hear, Selecting, fileVars, modVars, jobVars, clientVars, loopVars
<1>5. ASSUME NEW c \in Clients, NEW f \in Derived, Request(c, f) PROVE LoopOK'
  BY <1>5 DEF Request, Hear, Selecting, Idle, TypeOK, fileVars, modVars, jobVars, clientVars, loopVars
<1>6. ASSUME NEW c \in Clients, Interrupt(c) PROVE LoopOK'
  BY <1>6 DEF Interrupt, Hear, Selecting, fileVars, modVars, jobVars, clientVars, loopVars
<1>7. ASSUME NEW c \in Clients, Disconnect(c) PROVE LoopOK'
  BY <1>7 DEF Disconnect, Selecting, TypeOK, fileVars, modVars, jobVars, clientVars, loopVars
<1>8. ASSUME EndIteration PROVE LoopOK'
  BY <1>8 DEF EndIteration, Selecting, fileVars, modVars, jobVars, clientVars, loopVars
<1>9. ASSUME NEW c \in Clients, ServeInterrupted(c) PROVE LoopOK'
  BY <1>9 DEF ServeInterrupted, EndGet, TypeOK, fileVars, modVars, jobVars, clientVars, loopVars
<1>10. ASSUME NEW c \in Clients, ResumeLaunch(c) PROVE LoopOK'
  BY <1>10 DEF ResumeLaunch, fileVars, modVars, jobVars, clientVars, loopVars
<1>11. ASSUME NEW c \in Clients, StartPush(c) PROVE LoopOK'
  BY <1>11 DEF StartPush, fileVars, modVars, jobVars, clientVars, loopVars
<1>12. ASSUME EnterTarget \/ (\E i \in Files : Descend(i)) PROVE LoopOK'
  BY <1>12 DEF EnterTarget, Descend, fileVars, modVars, jobVars, clientVars, loopVars
<1>13. ASSUME UpdateSource \/ RefreshDispatched \/ Compute PROVE LoopOK'
  BY <1>13 DEF UpdateSource, RefreshDispatched, Compute, StatSource, Wake, fileVars, modVars, jobVars, clientVars, loopVars
<1>14. ASSUME FlushBroadcast PROVE LoopOK'
  BY <1>14 DEF FlushBroadcast, fileVars, modVars, jobVars, clientVars, loopVars
<1>15. ASSUME EndPush PROVE LoopOK'
  BY <1>15 DEF EndPush, fileVars, modVars, jobVars, clientVars, loopVars
<1>16. ASSUME NEW f \in Derived, NEW j \in JobIDs, Exec(f, j) PROVE LoopOK'
  BY <1>16 DEF Exec, fileVars, modVars, jobVars, clientVars, loopVars
<1>17. ASSUME EndLaunch PROVE LoopOK'
  BY <1>17 DEF EndLaunch, EndGet, TypeOK, fileVars, modVars, jobVars, clientVars, loopVars
<1>18. ASSUME FinishPass PROVE LoopOK'
  BY <1>18 DEF FinishPass, fileVars, modVars, jobVars, clientVars, loopVars
<1>19. ASSUME Restart PROVE LoopOK'
  BY <1>19 DEF Restart, fileVars, modVars, jobVars, clientVars, loopVars
<1>20. ASSUME UNCHANGED vars PROVE LoopOK'
  BY <1>20 DEF vars, fileVars, modVars, jobVars, clientVars, loopVars
<1> QED
  BY <1>1, <1>2, <1>3, <1>4, <1>5, <1>6, <1>7, <1>8, <1>9, <1>10, <1>11, <1>12, <1>13, <1>14, <1>15, <1>16, <1>17, <1>18, <1>19, <1>20 DEF Next, Pass, User

\* What is written to the database, and what is read back, is typed.
LEMMA SavedStep == TypeOK /\ SavedTypeOK /\ [Next]_vars => SavedTypeOK'
<1> SUFFICES ASSUME TypeOK, SavedTypeOK, [Next]_vars PROVE SavedTypeOK'
  OBVIOUS
<1>1. CASE FinishPass
  <2>1. Database \in [seen : [Sources -> Nat], Status : [Files -> Statuses],
             ModDate : [Files -> Nat], ConfirmDate : [Derived -> Nat],
             FileVerify : [Files -> Nat], ErrStatus : [Derived -> Statuses],
             CurrentDate : Nat, VerifyDate : Nat]
    BY DEF TypeOK, Database
  <2>2. saved' = Database \/ saved' = saved
    BY <1>1 DEF FinishPass
  <2> QED BY <2>1, <2>2 DEF SavedTypeOK
<1>2. CASE UNCHANGED saved
  BY <1>2 DEF SavedTypeOK
<1>3. FinishPass \/ UNCHANGED saved
  <2>1. Pass => FinishPass \/ UNCHANGED saved
    BY DEF Pass, EndIteration, EnterTarget, UpdateSource, RefreshDispatched, Compute,
           FlushBroadcast, EndPush, EndLaunch, ServeInterrupted, ResumeLaunch,
           StartPush, Descend, Exec
  <2>2. User => UNCHANGED saved
    BY DEF User, Edit, Test, TestAll, Interrupt, Disconnect, Request, Restart
  <2>3. ASSUME NEW j \in JobIDs, ToolRead(j) \/ JobEnds(j) PROVE UNCHANGED saved
    BY <2>3 DEF ToolRead, JobEnds, Job_Done
  <2> QED BY <2>1, <2>2, <2>3 DEF Next, vars
<1> QED BY <1>1, <1>2, <1>3

\* Every action keeps the types of the variables.
LEMMA TypeStep == TypeInv /\ [Next]_vars => TypeOK'
<1> SUFFICES ASSUME TypeOK, SavedTypeOK, LoopOK, SourcesIdle, [Next]_vars PROVE TypeOK'
  BY DEF TypeInv
<1>0. /\ STAT_Unknown \in Statuses /\ STAT_Pending \in Statuses /\ STAT_Ready \in Statuses
      /\ STAT_Busy \in Statuses /\ STAT_SysAbort \in Statuses /\ STAT_NoFile \in Statuses
      /\ STAT_Error \in Statuses /\ STAT_Warning \in Statuses /\ STAT_OK \in Statuses
  BY DEF Statuses, STAT_Unknown, STAT_Pending, STAT_Ready, STAT_Busy, STAT_SysAbort,
         STAT_NoFile, STAT_Error, STAT_Warning, STAT_OK
<1>00. NIL \notin Clients /\ NIL \notin Derived /\ Sources \subseteq Files /\ Derived \subseteq Files
  BY GraphAssumption, ClientAssumption DEF Files
<1> USE <1>0, <1>00 DEF TypeOK
<1>1. ASSUME NEW s \in Sources, Edit(s) PROVE TypeOK'
  BY <1>1 DEF Edit, fileVars, modVars, jobVars, clientVars, loopVars
<1>2. ASSUME NEW s \in Sources, Test(s) PROVE TypeOK'
  BY <1>2, StatType, ClearType DEF Test, NewStatus, fileVars, modVars, jobVars, clientVars, loopVars
<1>3. ASSUME NEW j \in JobIDs, ToolRead(j) PROVE TypeOK'
  BY <1>3 DEF ToolRead, fileVars, modVars, jobVars, clientVars, loopVars
<1>4. ASSUME NEW j \in JobIDs, JobEnds(j) PROVE TypeOK'
  <2>1. PICK outcome \in Outcomes \cup {"abort"} : Job_Done(j, outcome)
    BY <1>4 DEF JobEnds
  <2>2. job[j] # NIL /\ job[j] \in Jobs
    BY <2>1 DEF Job_Done
  <2>2a. job[j].file \in Derived /\ job[j].client \in Clients
    BY <2>2 DEF Jobs
  <2>3. /\ job' \in [JobIDs -> Jobs \cup {NIL}] /\ DOMAIN out' = JobIDs /\ killed' \subseteq JobIDs
        /\ DepStatus' \in [Derived -> Statuses]
    BY <2>1, <2>2 DEF Job_Done, DelJob
  <2>4. CASE outcome = "abort"
    <3>0. AbortJob(j)
      BY <2>1, <2>4 DEF Job_Done
    <3>1. /\ Status' \in [Files -> Statuses] /\ interrupted' \subseteq Clients
      <4>1. Status' \in [Files -> Statuses]
        BY <3>0 DEF AbortJob
      <4>2. interrupted' \subseteq Clients
        BY <3>0, <2>2a DEF AbortJob, DoInterrupt
      <4> QED BY <4>1, <4>2
    <3> QED BY <2>1, <2>2a, <2>3, <2>4, <3>1
            DEF Job_Done, AbortJob, Hear, Selecting, Wake, fileVars, modVars, jobVars, clientVars, loopVars
  <2>5. CASE outcome # "abort"
    BY <2>1, <2>2a, <2>3, <2>5, FinishType DEF Job_Done, Hear, Selecting, Wake, fileVars, modVars, jobVars, clientVars, loopVars
  <2> QED BY <2>4, <2>5
<1>5. ASSUME NEW c \in Clients, TestAll(c) PROVE TypeOK'
  BY <1>5 DEF TestAll, Hear, Selecting, fileVars, modVars, jobVars, clientVars, loopVars
<1>6. ASSUME NEW c \in Clients, NEW f \in Derived, Request(c, f) PROVE TypeOK'
  BY <1>6 DEF Request, Hear, Selecting, Idle, Wake, fileVars, modVars, jobVars, clientVars, loopVars
<1>7. ASSUME NEW c \in Clients, Interrupt(c) PROVE TypeOK'
  BY <1>7 DEF Interrupt, Hear, Selecting, Wake, fileVars, modVars, jobVars, clientVars, loopVars
<1>8. ASSUME NEW c \in Clients, Disconnect(c) PROVE TypeOK'
  BY <1>8 DEF Disconnect, DelJob, Selecting, fileVars, modVars, jobVars, clientVars, loopVars
<1>9. ASSUME EndIteration PROVE TypeOK'
  BY <1>9 DEF EndIteration, Selecting, fileVars, modVars, jobVars, clientVars, loopVars
<1>10. ASSUME NEW c \in Clients, ServeInterrupted(c) PROVE TypeOK'
  BY <1>10, EndGetType DEF ServeInterrupted, fileVars, modVars, jobVars, clientVars, loopVars
<1>11. ASSUME NEW c \in Clients, ResumeLaunch(c) PROVE TypeOK'
  BY <1>11 DEF ResumeLaunch, fileVars, modVars, jobVars, clientVars, loopVars
<1>12. ASSUME NEW c \in Clients, StartPush(c) PROVE TypeOK'
  <2>1. todo' \in [Clients -> SUBSET Derived] /\ rest' \in [Clients -> SUBSET Derived]
    BY <1>12 DEF StartPush
  <2>2. CurrentDate' \in Nat /\ PendingDate' \in Nat
    BY <1>12 DEF StartPush
  <2>3. due' \subseteq Clients /\ mode' = "push" /\ cur' = c
    BY <1>12 DEF StartPush
  <2> QED BY <1>12, <2>1, <2>2, <2>3 DEF StartPush, fileVars, modVars, jobVars, clientVars, loopVars
<1>13. ASSUME EnterTarget \/ (\E i \in Files : Descend(i)) PROVE TypeOK'
  <2>1. stack' \in Seq(Files)
    <3>1. CASE EnterTarget
      <4>1. want[cur] \in Derived
        BY <3>1 DEF EnterTarget, LoopOK
      <4> QED BY <3>1, <4>1, StackType DEF EnterTarget
    <3>2. CASE \E i \in Files : Descend(i)
      BY <3>2, StackType DEF Descend
    <3> QED BY <1>13, <3>1, <3>2
  <2> QED BY <1>13, <2>1 DEF EnterTarget, Descend, fileVars, modVars, jobVars, clientVars, loopVars
<1>14. ASSUME UpdateSource PROVE TypeOK'
  <2>1. stack' \in Seq(Files) /\ Top \in Sources /\ StatSource(Top)
    BY <1>14, StackType DEF UpdateSource
  <2>2. Status' \in [Files -> Statuses] /\ ToBroadcast' \subseteq Sources
    BY <1>14, <2>1 DEF UpdateSource, NewStatus
  <2> QED BY <1>14, <2>1, <2>2, StatType DEF UpdateSource, fileVars, modVars, jobVars, clientVars, loopVars
<1>15. ASSUME RefreshDispatched PROVE TypeOK'
  <2>1. stack' \in Seq(Files) /\ Top \in Files /\ FileVerify' \in [Files -> Nat]
    BY <1>15, StackType DEF RefreshDispatched, Visiting
  <2>2. Top \in Derived
    BY <1>15, <2>1 DEF RefreshDispatched, Dispatched, SourcesIdle, Files
  <2>3. todo' \in [Clients -> SUBSET Derived]
    BY <1>15, <2>2 DEF RefreshDispatched, PushToDo
  <2> QED BY <1>15, <2>1, <2>3 DEF RefreshDispatched, fileVars, modVars, jobVars, clientVars, loopVars
<1>16. ASSUME Compute PROVE TypeOK'
  <2>1. stack' \in Seq(Files) /\ Top \in Derived
    BY <1>16, StackType DEF Compute
  <2>4. FileVerify' \in [Files -> Nat]
    BY <1>16, <2>1 DEF Compute
  <2>5. /\ Status' \in [Files -> Statuses] /\ DepStatus' \in [Derived -> Statuses]
        /\ DepModDate' \in [Derived -> Nat] /\ ConfirmDate' = ConfirmDate
        /\ todo' \in [Clients -> SUBSET Derived]
    BY <1>16, ComputeEffect
  <2> QED BY <1>16, <2>1, <2>4, <2>5 DEF Compute, fileVars, modVars, jobVars, clientVars, loopVars
<1>17. ASSUME FlushBroadcast PROVE TypeOK'
  BY <1>17, ClearType DEF FlushBroadcast, fileVars, modVars, jobVars, clientVars, loopVars
<1>18. ASSUME EndPush PROVE TypeOK'
  BY <1>18 DEF EndPush, LoopOK, fileVars, modVars, jobVars, clientVars, loopVars
<1>19. ASSUME NEW f \in Derived, NEW j \in JobIDs, Exec(f, j) PROVE TypeOK'
  BY <1>19 DEF Exec, LoopOK, Jobs, fileVars, modVars, jobVars, clientVars, loopVars
<1>20. ASSUME EndLaunch PROVE TypeOK'
  BY <1>20, EndGetType DEF EndLaunch, fileVars, modVars, jobVars, clientVars, loopVars
<1>21. ASSUME FinishPass PROVE TypeOK'
  <2>1. Status' \in [Files -> Statuses] /\ DepStatus' \in [Derived -> Statuses]
    <3>1. CASE ServerIdle
      <4>1. PICK left \in SUBSET Derived :
              /\ Status' = [f \in Files |-> IF f \in left THEN STAT_Unknown ELSE Status[f]]
              /\ DepStatus' = [f \in Derived |-> IF f \in left THEN STAT_Unknown ELSE DepStatus[f]]
        BY <1>21, <3>1 DEF FinishPass
      <4> QED BY <4>1
    <3>2. CASE ~ServerIdle
      BY <1>21, <3>2 DEF FinishPass
    <3> QED BY <3>1, <3>2
  <2> QED BY <1>21, <2>1 DEF FinishPass, fileVars, modVars, jobVars, clientVars, loopVars
<1>22. ASSUME Restart PROVE TypeOK'
  <2>1. stack' \in Seq(Files)
    BY <1>22 DEF Restart
  <2>2. /\ seen' \in [Sources -> Nat] /\ Status' \in [Files -> Statuses]
        /\ ModDate' \in [Files -> Nat] /\ ConfirmDate' \in [Derived -> Nat]
        /\ FileVerify' \in [Files -> Nat] /\ ErrStatus' \in [Derived -> Statuses]
        /\ CurrentDate' \in Nat /\ VerifyDate' \in Nat
    BY <1>22 DEF Restart, SavedTypeOK
  <2> QED BY <1>22, <2>1, <2>2 DEF Restart
<1>23. ASSUME UNCHANGED vars PROVE TypeOK'
  BY <1>23 DEF vars, fileVars, modVars, jobVars, clientVars, loopVars
<1> QED
  BY <1>1, <1>2, <1>3, <1>4, <1>5, <1>6, <1>7, <1>8, <1>9, <1>10, <1>11, <1>12, <1>13, <1>14, <1>15, <1>16, <1>17, <1>18, <1>19, <1>20, <1>21, <1>22, <1>23 DEF Next, Pass, User

\* No action makes a source pending, ready or busy.
LEMMA SourcesStep == TypeInv /\ [Next]_vars => SourcesIdle'
<1> SUFFICES ASSUME TypeOK, SourcesIdle, [Next]_vars PROVE SourcesIdle'
  BY DEF TypeInv
<1>0. /\ \A s \in Sources : s \in Files /\ s \notin Derived
      /\ \A s \in Sources : NewStatus(s) \notin {STAT_Pending, STAT_Ready, STAT_Busy}
      /\ STAT_Unknown \notin {STAT_Pending, STAT_Ready, STAT_Busy}
  BY GraphAssumption DEF Files, NewStatus, STAT_Unknown, STAT_Pending, STAT_Ready, STAT_Busy,
     STAT_NoFile, STAT_OK
<1> DEFINE Kept == \A s \in Sources : Status'[s] \in {Status[s], STAT_Unknown, NewStatus(s)}
<1>1. ASSUME Kept, UNCHANGED saved PROVE SourcesIdle'
  BY <1>0, <1>1 DEF SourcesIdle
<1>2. ASSUME NEW s \in Sources, Edit(s) \/ Test(s) PROVE SourcesIdle'
  <2>1. Kept /\ UNCHANGED saved
    BY <1>0, <1>2 DEF Edit, Test, ClrStatus, TypeOK, fileVars
  <2> QED BY <1>1, <2>1
<1>3. ASSUME NEW j \in JobIDs, ToolRead(j) \/ JobEnds(j) PROVE SourcesIdle'
  <2>1. CASE ToolRead(j)
    BY <1>1, <2>1 DEF ToolRead, fileVars
  <2>2. CASE JobEnds(j)
    <3>1. PICK outcome \in Outcomes \cup {"abort"} : Job_Done(j, outcome)
      BY <2>2 DEF JobEnds
    <3>2. job[j].file \in Derived
      BY <3>1 DEF Job_Done, TypeOK, Jobs
    <3>3. \E st : Status' = [Status EXCEPT ![job[j].file] = st]
      BY <3>1, Zenon DEF Job_Done, AbortJob, FinishJob
    <3>4. Kept /\ UNCHANGED saved
      BY <1>0, <3>1, <3>2, <3>3 DEF TypeOK, Job_Done
    <3> QED BY <1>1, <3>4
  <2> QED BY <1>3, <2>1, <2>2
<1>4. ASSUME NEW c \in Clients,
             TestAll(c) \/ Interrupt(c) \/ (\E f \in Derived : Request(c, f))
      PROVE  SourcesIdle'
  BY <1>1, <1>4 DEF TestAll, Interrupt, Request, fileVars
<1>5. ASSUME NEW c \in Clients, Disconnect(c) PROVE SourcesIdle'
  <2>1. Kept /\ UNCHANGED saved
    BY <1>0, <1>5 DEF Disconnect
  <2> QED BY <1>1, <2>1
<1>6. ASSUME NEW c \in Clients, ServeInterrupted(c) \/ ResumeLaunch(c) \/ StartPush(c)
      PROVE  SourcesIdle'
  BY <1>1, <1>6 DEF ServeInterrupted, ResumeLaunch, StartPush, fileVars
<1>7. ASSUME \/ EndIteration \/ EnterTarget \/ RefreshDispatched \/ EndPush \/ EndLaunch
             \/ \E i \in Files : Descend(i)
      PROVE  SourcesIdle'
  BY <1>1, <1>7 DEF EndIteration, EnterTarget, RefreshDispatched, EndPush, EndLaunch,
     Descend, fileVars
<1>8. ASSUME UpdateSource PROVE SourcesIdle'
  <2>1. Kept /\ UNCHANGED saved
    BY <1>0, <1>8 DEF UpdateSource, TypeOK
  <2> QED BY <1>1, <2>1
<1>9. ASSUME Compute PROVE SourcesIdle'
  <2>1. PICK st : Status' = [Status EXCEPT ![Top] = st]
    BY <1>9, ComputeEffect
  <2>2. Top \in Derived /\ UNCHANGED saved
    BY <1>9 DEF Compute
  <2>3. Kept
    BY <1>0, <2>1, <2>2 DEF TypeOK
  <2> QED BY <1>1, <2>2, <2>3
<1>10. ASSUME FlushBroadcast PROVE SourcesIdle'
  <2>1. Kept /\ UNCHANGED saved
    BY <1>0, <1>10 DEF FlushBroadcast, ClrStatus
  <2> QED BY <1>1, <2>1
<1>11. ASSUME NEW f \in Derived, NEW j \in JobIDs, Exec(f, j) PROVE SourcesIdle'
  <2>1. Kept /\ UNCHANGED saved
    BY <1>0, <1>11 DEF Exec, TypeOK
  <2> QED BY <1>1, <2>1
<1>12. ASSUME FinishPass PROVE SourcesIdle'
  <2>1. Kept
    BY <1>0, <1>12 DEF FinishPass
  <2>2. UNCHANGED saved \/ saved'.Status = Status
    BY <1>12 DEF FinishPass, Database
  <2> QED BY <1>0, <2>1, <2>2 DEF SourcesIdle
<1>13. ASSUME Restart PROVE SourcesIdle'
  BY <1>13 DEF Restart, SourcesIdle
<1>14. ASSUME UNCHANGED vars PROVE SourcesIdle'
  BY <1>1, <1>14 DEF vars, fileVars
<1> QED
  BY <1>2, <1>3, <1>4, <1>5, <1>6, <1>7, <1>8, <1>9, <1>10, <1>11, <1>12, <1>13,
     <1>14 DEF Next, Pass, User

\* The typing invariant is inductive.
LEMMA TypeInvariant == Spec => []TypeInv
<1>1. TypeInv /\ [Next]_vars => TypeInv'
  BY LoopStep, SavedStep, TypeStep, SourcesStep DEF TypeInv
<1> QED BY TypeInit, <1>1, PTL DEF Spec

\* Every variable keeps its type, whatever clients, editors, tools and crashes
\* do to the server.
THEOREM TypeCorrect == Spec => []TypeOK
<1>1. TypeInv => TypeOK
  BY DEF TypeInv
<1> QED BY TypeInvariant, <1>1, PTL

-----------------------------------------------------------------------------
(* Jobs, busy files and requests *)

\* What the accounting of jobs rests on: a DepStatus is unknown or usable, an
\* error status is one a tool reports, and no busy file is in the database.
HeaderOK ==
  /\ \A f \in Derived : DepStatus[f] = STAT_Unknown \/ DepStatus[f] > STAT_Error
  /\ \A f \in Derived : ErrStatus[f] > STAT_Busy /\ saved.ErrStatus[f] > STAT_Busy
  /\ \A f \in Derived : saved.Status[f] # STAT_Busy

JobInv == HeaderOK /\ BusyHasOneJob /\ JobHasRequest

\* The table of jobs and the set of busy files may change in other respects.
SameJobs ==
  \A j \in JobIDs : /\ job'[j] = NIL <=> job[j] = NIL
                    /\ job[j] # NIL => /\ job'[j].file = job[j].file
                                       /\ job'[j].client = job[j].client
SameBusy == \A f \in Derived : Status'[f] = STAT_Busy <=> Status[f] = STAT_Busy
SameRequests == \A c \in Clients : want[c] # NIL => want'[c] # NIL

\* The file and the client of a job.
LEMMA JobType ==
  ASSUME TypeOK, NEW j \in Active
  PROVE  job[j] \in Jobs /\ job[j].file \in Derived /\ job[j].client \in Clients
BY DEF TypeOK, Active, Jobs

\* Canceling a job changes neither its file nor its client.
LEMMA CancelSameJobs ==
  ASSUME TypeOK, NEW B, job' = Cancel(B, Status, job)
  PROVE  SameJobs
<1>1. SUFFICES ASSUME NEW j \in JobIDs, job[j] # NIL
               PROVE  /\ [job[j] EXCEPT !.canceled = TRUE] # NIL
                      /\ [job[j] EXCEPT !.canceled = TRUE].file = job[j].file
                      /\ [job[j] EXCEPT !.canceled = TRUE].client = job[j].client
  BY DEF Cancel, SameJobs
<1>2. job[j] \in Jobs
  BY <1>1 DEF TypeOK
<1> QED BY <1>2, ClientAssumption DEF Jobs

\* Jobs agree with busy files as long as neither changes.
LEMMA KeepBusy ==
  ASSUME TypeOK, BusyHasOneJob, SameJobs, SameBusy
  PROVE  BusyHasOneJob'
<1>1. Active' = Active
  BY DEF SameJobs, Active
<1>2. \A j \in Active : j \in JobIDs /\ job[j] # NIL /\ job[j].file \in Derived
  BY JobType DEF Active
<1> QED BY <1>1, <1>2 DEF BusyHasOneJob, SameJobs, SameBusy

\* Jobs have requests as long as neither changes.
LEMMA KeepRequests ==
  ASSUME TypeOK, JobHasRequest, SameJobs, SameRequests
  PROVE  JobHasRequest'
<1>1. Active' = Active
  BY DEF SameJobs, Active
<1>2. \A j \in Active : j \in JobIDs /\ job[j] # NIL /\ job[j].client \in Clients
  BY JobType DEF Active
<1> QED BY <1>1, <1>2 DEF JobHasRequest, SameJobs, SameRequests

\* A request only ends when its client has no job.
LEMMA EndGetRequests ==
  ASSUME TypeOK, JobHasRequest, NEW c \in Clients, NEW st, NumJobs(c) = 0,
         EndGet(c, st), UNCHANGED job
  PROVE  JobHasRequest'
<1> DEFINE mine == {j \in JobIDs : job[j] # NIL /\ job[j].client = c}
<1>1. mine = {}
  <2>1. IsFiniteSet(mine)
    <3>1. mine \in SUBSET JobIDs
      OBVIOUS
    <3> QED BY <3>1, BoundAssumption, FS_Subset
  <2> QED BY <2>1, FS_EmptySet DEF NumJobs
<1>2. \A j \in Active : job[j].client # c /\ job[j].client \in Clients
  BY <1>1, JobType DEF Active
<1>3. \A d \in Clients : d # c => want'[d] = want[d]
  BY EndGetType
<1> QED BY <1>2, <1>3 DEF JobHasRequest, Active

\* A job that ends leaves its file with a status that is neither ready nor
\* busy.
LEMMA JobDoneEffect ==
  ASSUME TypeOK, HeaderOK, NEW j \in JobIDs, NEW outcome \in Outcomes \cup {"abort"},
         Job_Done(j, outcome)
  PROVE  /\ j \in Active /\ DelJob({j})
         /\ \E st : /\ Status' = [Status EXCEPT ![job[j].file] = st]
                    /\ st # STAT_Busy /\ st # STAT_Ready
         /\ DepStatus' = [DepStatus EXCEPT ![job[j].file] = STAT_Unknown]
         /\ \/ ErrStatus' = ErrStatus
            \/ \E st : st > STAT_Busy /\ ErrStatus' = [ErrStatus EXCEPT ![job[j].file] = st]
         /\ UNCHANGED <<want, saved>>
<1>1. /\ j \in Active /\ DelJob({j}) /\ UNCHANGED <<want, saved>>
      /\ DepStatus' = [DepStatus EXCEPT ![job[j].file] = STAT_Unknown]
  BY DEF Job_Done, Active
<1>2. STAT_Unknown # STAT_Busy /\ STAT_Unknown # STAT_Ready
  BY DEF STAT_Unknown, STAT_Busy, STAT_Ready
<1>3. CASE outcome = "abort"
  BY <1>1, <1>2, <1>3 DEF Job_Done, AbortJob, modVars
<1>4. CASE outcome # "abort"
  <2> DEFINE f == job[j].file
             st == Min({DepStatus[f], ExecStatus[outcome]})
  <2>1. FinishJob(j, outcome) /\ f \in Derived
    BY <1>1, <1>4, JobType DEF Job_Done
  <2>2. ExecStatus[outcome] \in Statuses /\ ExecStatus[outcome] > STAT_Busy
    <3>1. outcome \in {"nofile", "error", "warning", "ok"}
      BY <1>4, BoundAssumption
    <3> QED BY <3>1 DEF ExecStatus, Statuses, STAT_Unknown, STAT_OK, STAT_NoFile,
                        STAT_Error, STAT_Warning, STAT_Busy
  <2>3. st # STAT_Busy /\ st # STAT_Ready
    <3>1. DepStatus[f] \in Statuses /\ (DepStatus[f] = STAT_Unknown \/ DepStatus[f] > STAT_Error)
      BY <2>1 DEF TypeOK, HeaderOK
    <3>2. st \in {DepStatus[f], ExecStatus[outcome]}
      BY <2>2, <3>1, MinOfTwo
    <3> QED BY <2>2, <3>1, <3>2 DEF STAT_Unknown, STAT_Busy, STAT_Ready, STAT_Error
  <2>4. DoneStatus(j, st) # STAT_Busy /\ DoneStatus(j, st) # STAT_Ready
    BY <1>2, <2>3 DEF DoneStatus
  <2>5. /\ Status' = [Status EXCEPT ![f] = DoneStatus(j, st)]
        /\ ErrStatus' = [ErrStatus EXCEPT ![f] = ExecStatus[outcome]]
    BY <2>1, Zenon DEF FinishJob
  <2> QED BY <1>1, <2>2, <2>4, <2>5
<1> QED BY <1>3, <1>4


\* Every action keeps the headers fit for the accounting of jobs.
LEMMA HeaderStep == TypeInv /\ JobInv /\ [Next]_vars => HeaderOK'
<1> SUFFICES ASSUME TypeOK, SavedTypeOK, HeaderOK, BusyHasOneJob, [Next]_vars PROVE HeaderOK'
  BY DEF TypeInv, JobInv
<1> DEFINE DepKept == \A f \in Derived : DepStatus'[f] \in {DepStatus[f], STAT_Unknown}
<1>1. ASSUME DepKept, UNCHANGED <<ErrStatus, saved>> PROVE HeaderOK'
  BY <1>1 DEF HeaderOK
<1>2. ASSUME UNCHANGED <<DepStatus, ErrStatus, saved>> PROVE HeaderOK'
  BY <1>2 DEF HeaderOK
<1>3. ASSUME NEW s \in Sources, Edit(s) \/ Test(s) PROVE HeaderOK'
  BY <1>1, <1>3 DEF Edit, Test, ClrDep, fileVars, modVars
<1>4. ASSUME NEW j \in JobIDs, ToolRead(j) PROVE HeaderOK'
  BY <1>2, <1>4 DEF ToolRead, fileVars, modVars
<1>5. ASSUME NEW j \in JobIDs, JobEnds(j) PROVE HeaderOK'
  <2>1. PICK outcome \in Outcomes \cup {"abort"} : Job_Done(j, outcome)
    BY <1>5 DEF JobEnds
  <2>2. /\ DepStatus' = [DepStatus EXCEPT ![job[j].file] = STAT_Unknown]
        /\ UNCHANGED saved
        /\ \/ ErrStatus' = ErrStatus
           \/ \E st : st > STAT_Busy /\ ErrStatus' = [ErrStatus EXCEPT ![job[j].file] = st]
    BY <2>1, JobDoneEffect
  <2> QED BY <2>2 DEF HeaderOK, TypeOK
<1>6. ASSUME NEW c \in Clients,
             TestAll(c) \/ Interrupt(c) \/ (\E f \in Derived : Request(c, f))
      PROVE  HeaderOK'
  BY <1>2, <1>6 DEF TestAll, Interrupt, Request, fileVars, modVars
<1>7. ASSUME NEW c \in Clients, Disconnect(c) PROVE HeaderOK'
  BY <1>1, <1>7 DEF Disconnect, modVars
<1>8. ASSUME NEW c \in Clients, ServeInterrupted(c) \/ ResumeLaunch(c) \/ StartPush(c)
      PROVE  HeaderOK'
  BY <1>2, <1>8 DEF ServeInterrupted, ResumeLaunch, StartPush, fileVars, modVars
<1>9. ASSUME \/ EndIteration \/ EnterTarget \/ UpdateSource \/ RefreshDispatched
             \/ EndPush \/ EndLaunch
             \/ (\E i \in Files : Descend(i))
             \/ (\E f \in Derived, j \in JobIDs : Exec(f, j))
      PROVE  HeaderOK'
  BY <1>2, <1>9 DEF EndIteration, EnterTarget, UpdateSource, RefreshDispatched, EndPush,
     EndLaunch, Descend, Exec, fileVars, modVars
<1>10. ASSUME Compute PROVE HeaderOK'
  <2>1. PICK dep \in Statuses : /\ DepStatus' = [DepStatus EXCEPT ![Top] = dep]
                                /\ dep = STAT_Unknown \/ dep > STAT_Error
    BY <1>10, ComputeEffect
  <2>2. UNCHANGED <<ErrStatus, saved>>
    BY <1>10 DEF Compute
  <2> QED BY <2>1, <2>2 DEF HeaderOK, TypeOK
<1>11. ASSUME FlushBroadcast PROVE HeaderOK'
  BY <1>1, <1>11 DEF FlushBroadcast, ClrDep, modVars
<1>12. ASSUME FinishPass PROVE HeaderOK'
  <2>1. DepKept /\ UNCHANGED ErrStatus
    BY <1>12 DEF FinishPass, modVars
  <2>2. CASE UNCHANGED saved
    BY <1>1, <2>1, <2>2
  <2>3. CASE ServerIdle /\ saved' = Database
    <3>1. \A f \in Derived : Status[f] # STAT_Busy
      BY <2>3 DEF ServerIdle, BusyHasOneJob, Active
    <3>2. saved'.Status = Status /\ saved'.ErrStatus = ErrStatus
      BY <2>3 DEF Database
    <3> QED BY <2>1, <3>1, <3>2 DEF HeaderOK
  <2> QED BY <1>12, <2>2, <2>3 DEF FinishPass
<1>13. ASSUME Restart PROVE HeaderOK'
  BY <1>13 DEF Restart, HeaderOK
<1>14. ASSUME UNCHANGED vars PROVE HeaderOK'
  BY <1>2, <1>14 DEF vars, fileVars, modVars
<1> QED
  BY <1>3, <1>4, <1>5, <1>6, <1>7, <1>8, <1>9, <1>10, <1>11, <1>12, <1>13, <1>14
     DEF Next, Pass, User

\* Every action keeps one job for each busy file and none for any other.
LEMMA BusyStep == TypeInv /\ JobInv /\ [Next]_vars => BusyHasOneJob'
<1> SUFFICES ASSUME TypeOK, LoopOK, HeaderOK, BusyHasOneJob, [Next]_vars PROVE BusyHasOneJob'
  BY DEF TypeInv, JobInv
<1>0. /\ \A s \in Sources : s \notin Derived /\ s \in Files
      /\ \A f \in Derived : f \in Files
      /\ STAT_Unknown # STAT_Busy /\ STAT_Ready # STAT_Busy
  BY GraphAssumption DEF Files, STAT_Unknown, STAT_Ready, STAT_Busy
<1>1. ASSUME SameBusy, UNCHANGED job PROVE BusyHasOneJob'
  BY <1>1, KeepBusy DEF SameJobs
<1>2. ASSUME UNCHANGED <<Status, job>> PROVE BusyHasOneJob'
  BY <1>1, <1>2 DEF SameBusy
<1>3. ASSUME NEW s \in Sources, Edit(s) PROVE BusyHasOneJob'
  BY <1>2, <1>3 DEF Edit, fileVars, jobVars
<1>4. ASSUME NEW s \in Sources, Test(s) PROVE BusyHasOneJob'
  <2>1. SameJobs
    BY <1>4, CancelSameJobs DEF Test
  <2>2. SameBusy
    BY <1>0, <1>4 DEF Test, ClrStatus, SameBusy
  <2> QED BY <2>1, <2>2, KeepBusy
<1>5. ASSUME NEW j \in JobIDs, ToolRead(j) PROVE BusyHasOneJob'
  BY <1>2, <1>5 DEF ToolRead, fileVars
<1>6. ASSUME NEW j \in JobIDs, JobEnds(j) PROVE BusyHasOneJob'
  <2>1. PICK outcome \in Outcomes \cup {"abort"} : Job_Done(j, outcome)
    BY <1>6 DEF JobEnds
  <2>2. PICK st : /\ Status' = [Status EXCEPT ![job[j].file] = st]
                  /\ st # STAT_Busy
    BY <2>1, JobDoneEffect
  <2>3. j \in Active /\ DelJob({j}) /\ job[j].file \in Derived
    BY <2>1, JobDoneEffect, JobType
  <2>4. \A k \in JobIDs : job'[k] = IF k = j THEN NIL ELSE job[k]
    BY <2>3 DEF DelJob
  <2>5. Active' = Active \ {j} /\ \A k \in Active' : job'[k] = job[k]
    BY <2>4 DEF Active
  <2>6. \A k \in Active' : job[k].file # job[j].file /\ job[k].file \in Derived
    BY <2>3, <2>5, JobType DEF BusyHasOneJob
  <2>7. \A f \in Derived : Status'[f] = IF f = job[j].file THEN st ELSE Status[f]
    BY <1>0, <2>2 DEF TypeOK
  <2> QED BY <2>2, <2>5, <2>6, <2>7 DEF BusyHasOneJob
<1>7. ASSUME NEW c \in Clients,
             TestAll(c) \/ Interrupt(c) \/ (\E f \in Derived : Request(c, f))
      PROVE  BusyHasOneJob'
  BY <1>2, <1>7 DEF TestAll, Interrupt, Request, fileVars, jobVars
<1>8. ASSUME NEW c \in Clients, Disconnect(c) PROVE BusyHasOneJob'
  <2> DEFINE mine == {j \in JobIDs : job[j] # NIL /\ job[j].client = c}
             files == {job[j].file : j \in mine}
  <2>1. /\ \A j \in JobIDs : job'[j] = IF j \in mine THEN NIL ELSE job[j]
        /\ \A f \in Derived : Status'[f] = IF f \in files THEN STAT_Unknown ELSE Status[f]
    BY <1>0, <1>8 DEF Disconnect, DelJob
  <2>2. mine \subseteq Active
    BY DEF Active
  <2> HIDE DEF mine
  <2>3. Active' = Active \ mine /\ \A k \in Active' : job'[k] = job[k]
    BY <2>1 DEF Active
  <2>4. \A k \in Active' : job[k].file \notin files /\ job[k].file \in Derived
    BY <2>2, <2>3, JobType DEF BusyHasOneJob
  <2>5. \A j \in Active \cap mine : job[j].file \in files
    OBVIOUS
  <2> HIDE DEF files
  <2>6. \A f \in Derived : Status'[f] = STAT_Busy => f \notin files /\ Status[f] = STAT_Busy
    BY <1>0, <2>1
  <2>7. \A k \in Active' : Status'[job'[k].file] = STAT_Busy
    BY <2>1, <2>3, <2>4 DEF BusyHasOneJob
  <2>8. \A f \in Derived : Status'[f] = STAT_Busy => \E j \in Active' : job'[j].file = f
    BY <2>3, <2>5, <2>6 DEF BusyHasOneJob
  <2>9. \A j, k \in Active' : job'[j].file = job'[k].file => j = k
    BY <2>3 DEF BusyHasOneJob
  <2> QED BY <2>7, <2>8, <2>9 DEF BusyHasOneJob
<1>9. ASSUME NEW c \in Clients, ServeInterrupted(c) \/ ResumeLaunch(c) \/ StartPush(c)
      PROVE  BusyHasOneJob'
  BY <1>2, <1>9 DEF ServeInterrupted, ResumeLaunch, StartPush, fileVars, jobVars
<1>10. ASSUME \/ EndIteration \/ EnterTarget \/ RefreshDispatched \/ EndPush \/ EndLaunch
              \/ \E i \in Files : Descend(i)
       PROVE  BusyHasOneJob'
  BY <1>2, <1>10 DEF EndIteration, EnterTarget, RefreshDispatched, EndPush, EndLaunch,
     Descend, fileVars, jobVars
<1>11. ASSUME UpdateSource PROVE BusyHasOneJob'
  <2>1. SameBusy
    BY <1>0, <1>11 DEF UpdateSource, SameBusy, TypeOK
  <2> QED BY <1>1, <1>11, <2>1 DEF UpdateSource, jobVars
<1>12. ASSUME Compute PROVE BusyHasOneJob'
  <2>1. Top \in Derived /\ ~Dispatched(Top) /\ UNCHANGED job
    BY <1>12 DEF Compute, jobVars
  <2>2. ErrStatus[Top] > STAT_Busy
    BY <2>1 DEF HeaderOK
  <2>3. PICK st : Status' = [Status EXCEPT ![Top] = st] /\ st # STAT_Busy
    BY <1>12, <2>2, ComputeEffect
  <2>4. SameBusy
    BY <1>0, <2>1, <2>3 DEF Dispatched, SameBusy, TypeOK
  <2> QED BY <1>1, <2>1, <2>4
<1>13. ASSUME FlushBroadcast PROVE BusyHasOneJob'
  <2>1. SameJobs
    BY <1>13, CancelSameJobs DEF FlushBroadcast
  <2>2. SameBusy
    BY <1>0, <1>13 DEF FlushBroadcast, ClrStatus, SameBusy
  <2> QED BY <2>1, <2>2, KeepBusy
<1>14. ASSUME NEW f \in Derived, NEW j \in JobIDs, Exec(f, j) PROVE BusyHasOneJob'
  <2> DEFINE new == [client |-> cur, file |-> f, canceled |-> FALSE]
  <2>1. /\ Status[f] # STAT_Busy /\ job[j] = NIL
        /\ \A k \in JobIDs : job'[k] = IF k = j THEN new ELSE job[k]
        /\ \A g \in Derived : Status'[g] = IF g = f THEN STAT_Busy ELSE Status[g]
    BY <1>0, <1>14 DEF Exec, Launchable, TypeOK
  <2>2. new # NIL
    <3>1. cur \in Clients
      BY <1>14 DEF LoopOK, Exec
    <3>2. new \in Jobs
      BY <3>1 DEF Jobs
    <3> QED BY <3>2, ClientAssumption
  <2>3. Active' = Active \cup {j} /\ j \notin Active
    BY <2>1, <2>2 DEF Active
  <2>4. new.file = f
    OBVIOUS
  <2> HIDE DEF new
  <2>5. \A k \in Active : k # j /\ job'[k] = job[k] /\ job[k].file \in Derived /\ job[k].file # f
    BY <2>1, <2>3, JobType DEF BusyHasOneJob, Active
  <2>6. job'[j].file = f
    BY <2>1, <2>4
  <2>7. \A k \in Active' : Status'[job'[k].file] = STAT_Busy
    BY <2>1, <2>3, <2>5, <2>6 DEF BusyHasOneJob
  <2>8. \A g \in Derived : Status'[g] = STAT_Busy => \E k \in Active' : job'[k].file = g
    BY <2>1, <2>3, <2>5, <2>6 DEF BusyHasOneJob
  <2>9. \A i, k \in Active' : job'[i].file = job'[k].file => i = k
    BY <2>3, <2>5, <2>6 DEF BusyHasOneJob
  <2> QED BY <2>7, <2>8, <2>9 DEF BusyHasOneJob
<1>15. ASSUME FinishPass PROVE BusyHasOneJob'
  <2>1. SameBusy
    BY <1>0, <1>15 DEF FinishPass, SameBusy
  <2> QED BY <1>1, <1>15, <2>1 DEF FinishPass, jobVars
<1>16. ASSUME Restart PROVE BusyHasOneJob'
  BY <1>16 DEF Restart, HeaderOK, BusyHasOneJob, Active
<1>17. ASSUME UNCHANGED vars PROVE BusyHasOneJob'
  BY <1>2, <1>17 DEF vars, fileVars, jobVars
<1> QED
  BY <1>3, <1>4, <1>5, <1>6, <1>7, <1>8, <1>9, <1>10, <1>11, <1>12, <1>13, <1>14,
     <1>15, <1>16, <1>17 DEF Next, Pass, User

\* Every action keeps a request for each client with a job.
LEMMA RequestStep == TypeInv /\ JobInv /\ [Next]_vars => JobHasRequest'
<1> SUFFICES ASSUME TypeOK, LoopOK, HeaderOK, JobHasRequest, [Next]_vars PROVE JobHasRequest'
  BY DEF TypeInv, JobInv
<1>1. ASSUME UNCHANGED <<job, want>> PROVE JobHasRequest'
  BY <1>1, KeepRequests DEF SameJobs, SameRequests
<1>2. ASSUME SameJobs, UNCHANGED want PROVE JobHasRequest'
  BY <1>2, KeepRequests DEF SameRequests
<1>3. ASSUME NEW s \in Sources, Edit(s) PROVE JobHasRequest'
  BY <1>1, <1>3 DEF Edit, jobVars, clientVars
<1>4. ASSUME NEW s \in Sources, Test(s) PROVE JobHasRequest'
  BY <1>2, <1>4, CancelSameJobs DEF Test, clientVars
<1>5. ASSUME NEW j \in JobIDs, ToolRead(j) PROVE JobHasRequest'
  BY <1>1, <1>5 DEF ToolRead, clientVars
<1>6. ASSUME NEW j \in JobIDs, JobEnds(j) PROVE JobHasRequest'
  <2>1. PICK outcome \in Outcomes \cup {"abort"} : Job_Done(j, outcome)
    BY <1>6 DEF JobEnds
  <2>2. DelJob({j}) /\ UNCHANGED want
    BY <2>1, JobDoneEffect
  <2>3. Active' \subseteq Active /\ \A k \in Active' : job'[k] = job[k]
    BY <2>2 DEF DelJob, Active
  <2> QED BY <2>2, <2>3 DEF JobHasRequest
<1>7. ASSUME NEW c \in Clients, TestAll(c) \/ Interrupt(c) PROVE JobHasRequest'
  BY <1>1, <1>7 DEF TestAll, Interrupt, jobVars
<1>8. ASSUME NEW c \in Clients, NEW f \in Derived, Request(c, f) PROVE JobHasRequest'
  <2>1. UNCHANGED job /\ want' = [want EXCEPT ![c] = f] /\ f # NIL
    BY <1>8, GraphAssumption DEF Request, jobVars, Files
  <2>2. SameRequests
    BY <2>1 DEF SameRequests, TypeOK
  <2> QED BY <2>1, <2>2, KeepRequests DEF SameJobs
<1>9. ASSUME NEW c \in Clients, Disconnect(c) PROVE JobHasRequest'
  <2>1. /\ \A j \in JobIDs : job'[j] = IF job[j] # NIL /\ job[j].client = c
                                       THEN NIL ELSE job[j]
        /\ \A d \in Clients : d # c => want'[d] = want[d]
    BY <1>9 DEF Disconnect, DelJob, TypeOK
  <2>2. \A j \in Active' : j \in Active /\ job'[j] = job[j] /\ job[j].client # c
    BY <2>1 DEF Active
  <2>3. \A j \in Active' : job[j].client \in Clients
    BY <2>2, JobType
  <2> QED BY <2>1, <2>2, <2>3 DEF JobHasRequest
<1>10. ASSUME NEW c \in Clients, ServeInterrupted(c) PROVE JobHasRequest'
  <2>1. CASE NumJobs(c) = 0
    BY <1>10, <2>1, EndGetRequests DEF ServeInterrupted, jobVars
  <2>2. CASE NumJobs(c) # 0
    BY <1>1, <1>10, <2>2 DEF ServeInterrupted, jobVars, clientVars
  <2> QED BY <2>1, <2>2
<1>11. ASSUME NEW c \in Clients, ResumeLaunch(c) \/ StartPush(c) PROVE JobHasRequest'
  BY <1>1, <1>11 DEF ResumeLaunch, StartPush, jobVars, clientVars
<1>12. ASSUME \/ EndIteration \/ EnterTarget \/ UpdateSource \/ RefreshDispatched
              \/ Compute \/ EndPush
              \/ \E i \in Files : Descend(i)
       PROVE  JobHasRequest'
  BY <1>1, <1>12 DEF EndIteration, EnterTarget, UpdateSource, RefreshDispatched, Compute,
     EndPush, Descend, jobVars, clientVars
<1>13. ASSUME FlushBroadcast PROVE JobHasRequest'
  BY <1>2, <1>13, CancelSameJobs DEF FlushBroadcast, clientVars
<1>14. ASSUME NEW f \in Derived, NEW j \in JobIDs, Exec(f, j) PROVE JobHasRequest'
  <2> DEFINE new == [client |-> cur, file |-> f, canceled |-> FALSE]
  <2>1. /\ \A k \in JobIDs : job'[k] = IF k = j THEN new ELSE job[k]
        /\ UNCHANGED want /\ want[cur] # NIL
    BY <1>14 DEF Exec, TypeOK, LoopOK, clientVars
  <2>2. new.client = cur
    OBVIOUS
  <2> HIDE DEF new
  <2> QED BY <2>1, <2>2 DEF JobHasRequest, Active
<1>15. ASSUME EndLaunch PROVE JobHasRequest'
  <2>1. CASE Launchable(cur) = {} /\ NumJobs(cur) = 0 /\ IsAllDone(want[cur])
    <3>1. cur \in Clients /\ EndGet(cur, Status[want[cur]]) /\ UNCHANGED job
      BY <1>15, <2>1 DEF EndLaunch, LoopOK, jobVars
    <3> QED BY <2>1, <3>1, EndGetRequests
  <2>2. CASE ~(Launchable(cur) = {} /\ NumJobs(cur) = 0 /\ IsAllDone(want[cur]))
    BY <1>1, <1>15, <2>2 DEF EndLaunch, jobVars, clientVars
  <2> QED BY <2>1, <2>2
<1>16. ASSUME FinishPass PROVE JobHasRequest'
  BY <1>1, <1>16 DEF FinishPass, jobVars, clientVars
<1>17. ASSUME Restart PROVE JobHasRequest'
  BY <1>17 DEF Restart, JobHasRequest, Active
<1>18. ASSUME UNCHANGED vars PROVE JobHasRequest'
  BY <1>1, <1>18 DEF vars, jobVars, clientVars
<1> QED
  BY <1>3, <1>4, <1>5, <1>6, <1>7, <1>8, <1>9, <1>10, <1>11, <1>12, <1>13, <1>14,
     <1>15, <1>16, <1>17, <1>18 DEF Next, Pass, User

\* The accounting of jobs holds in every reachable state.
LEMMA JobInvariant == Spec => []JobInv
<1>1. Init => JobInv
  BY DEF Init, JobInv, HeaderOK, BusyHasOneJob, JobHasRequest, Active, Database, Files,
     STAT_Unknown, STAT_Busy, STAT_OK
<1>2. TypeInv /\ JobInv /\ [Next]_vars => JobInv'
  BY HeaderStep, BusyStep, RequestStep DEF JobInv
<1> QED BY <1>1, <1>2, TypeInvariant, PTL DEF Spec

\* A file is busy exactly while one job builds it, whatever interrupts, deaths
\* of clients, broadcasts and crashes come between: the assertions of
\* Local_Job_Done and Clr_Status on it never fail.
THEOREM OneJobPerBusyFile == Spec => []BusyHasOneJob
<1>1. JobInv => BusyHasOneJob
  BY DEF JobInv
<1> QED BY JobInvariant, <1>1, PTL

\* A request is not answered while a job of its client runs: the assertion of
\* End_Get_OdinFile never fails.
THEOREM JobsHaveRequests == Spec => []JobHasRequest
<1>1. JobInv => JobHasRequest
  BY DEF JobInv
<1> QED BY JobInvariant, <1>1, PTL

-----------------------------------------------------------------------------
(* What a dispatched file was judged on *)

DispatchedOK == \A f \in Derived : Dispatched(f) => DepOK(f)

\* Unless the server restarts, every action leaves a usable DepStatus in each
\* ready or busy file.
LEMMA DispatchedStep ==
  ASSUME ~MayCrash
  PROVE  TypeInv /\ JobInv /\ DispatchedOK /\ [Next]_vars => DispatchedOK'
<1> SUFFICES ASSUME TypeOK, SourcesIdle, HeaderOK, DispatchedOK, [Next]_vars PROVE DispatchedOK'
  BY DEF TypeInv, JobInv
<1>0. /\ \A s \in Sources : s \notin Derived
      /\ \A f \in Derived : f \in Files
      /\ STAT_Unknown \notin {STAT_Ready, STAT_Busy}
  BY GraphAssumption DEF Files, STAT_Unknown, STAT_Ready, STAT_Busy
<1> USE DEF Dispatched, DepOK
\* Each file keeps its header or is no longer dispatched.
<1> DEFINE Kept == \A f \in Derived :
                     \/ Status'[f] = Status[f] /\ DepStatus'[f] = DepStatus[f]
                     \/ Status'[f] \notin {STAT_Ready, STAT_Busy}
<1>1. ASSUME Kept PROVE DispatchedOK'
  BY <1>1 DEF DispatchedOK
<1>2. ASSUME UNCHANGED <<Status, DepStatus>> PROVE DispatchedOK'
  BY <1>2 DEF DispatchedOK
<1>3. ASSUME NEW s \in Sources, Edit(s) PROVE DispatchedOK'
  BY <1>2, <1>3 DEF Edit, fileVars
<1>4. ASSUME NEW s \in Sources, Test(s) PROVE DispatchedOK'
  <2>1. Kept
    BY <1>0, <1>4 DEF Test, ClrStatus, ClrDep
  <2> QED BY <1>1, <2>1
<1>5. ASSUME NEW j \in JobIDs, ToolRead(j) PROVE DispatchedOK'
  BY <1>2, <1>5 DEF ToolRead, fileVars
<1>6. ASSUME NEW j \in JobIDs, JobEnds(j) PROVE DispatchedOK'
  <2>1. PICK outcome \in Outcomes \cup {"abort"} : Job_Done(j, outcome)
    BY <1>6 DEF JobEnds
  <2>2. PICK st : /\ Status' = [Status EXCEPT ![job[j].file] = st]
                  /\ st # STAT_Busy /\ st # STAT_Ready
    BY <2>1, JobDoneEffect
  <2>3. DepStatus' = [DepStatus EXCEPT ![job[j].file] = STAT_Unknown]
    BY <2>1, JobDoneEffect
  <2>4. Kept
    BY <1>0, <2>2, <2>3 DEF TypeOK
  <2> QED BY <1>1, <2>4
<1>7. ASSUME NEW c \in Clients,
             TestAll(c) \/ Interrupt(c) \/ (\E f \in Derived : Request(c, f))
      PROVE  DispatchedOK'
  BY <1>2, <1>7 DEF TestAll, Interrupt, Request, fileVars
<1>8. ASSUME NEW c \in Clients, Disconnect(c) PROVE DispatchedOK'
  <2>1. Kept
    BY <1>0, <1>8 DEF Disconnect
  <2> QED BY <1>1, <2>1
<1>9. ASSUME NEW c \in Clients, ServeInterrupted(c) \/ ResumeLaunch(c) \/ StartPush(c)
      PROVE  DispatchedOK'
  BY <1>2, <1>9 DEF ServeInterrupted, ResumeLaunch, StartPush, fileVars
<1>10. ASSUME \/ EndIteration \/ EnterTarget \/ RefreshDispatched \/ EndPush \/ EndLaunch
              \/ \E i \in Files : Descend(i)
       PROVE  DispatchedOK'
  BY <1>2, <1>10 DEF EndIteration, EnterTarget, RefreshDispatched, EndPush, EndLaunch,
     Descend, fileVars
<1>11. ASSUME UpdateSource PROVE DispatchedOK'
  <2>1. Kept
    BY <1>0, <1>11 DEF UpdateSource, TypeOK
  <2> QED BY <1>1, <2>1
<1>12. ASSUME Compute PROVE DispatchedOK'
  <2>1. ErrStatus[Top] > STAT_Busy
    BY <1>12 DEF Compute, HeaderOK
  <2>2. PICK st, dep \in Statuses :
          /\ Status' = [Status EXCEPT ![Top] = st]
          /\ DepStatus' = [DepStatus EXCEPT ![Top] = dep]
          /\ st # STAT_Busy /\ (st = STAT_Ready => dep > STAT_Error)
    BY <1>12, <2>1, ComputeEffect
  <2> QED BY <1>0, <2>2 DEF DispatchedOK, TypeOK
<1>13. ASSUME FlushBroadcast PROVE DispatchedOK'
  <2>1. Kept
    BY <1>0, <1>13 DEF FlushBroadcast, ClrStatus, ClrDep
  <2> QED BY <1>1, <2>1
<1>14. ASSUME NEW f \in Derived, NEW j \in JobIDs, Exec(f, j) PROVE DispatchedOK'
  BY <1>0, <1>14 DEF Exec, Launchable, DispatchedOK, TypeOK
<1>15. ASSUME FinishPass PROVE DispatchedOK'
  <2>1. Kept
    BY <1>0, <1>15 DEF FinishPass
  <2> QED BY <1>1, <2>1
<1>16. ASSUME Restart PROVE DispatchedOK'
  BY <1>16 DEF Restart
<1>17. ASSUME UNCHANGED vars PROVE DispatchedOK'
  BY <1>2, <1>17 DEF vars, fileVars
<1> QED
  BY <1>3, <1>4, <1>5, <1>6, <1>7, <1>8, <1>9, <1>10, <1>11, <1>12, <1>13, <1>14,
     <1>15, <1>16, <1>17 DEF Next, Pass, User

\* Every ready or busy file has a usable DepStatus, as long as the server is not
\* restarted.
LEMMA DispatchedInvariant ==
  ASSUME ~MayCrash
  PROVE  Spec => []DispatchedOK
<1>1. Init => DispatchedOK
  BY DEF Init, DispatchedOK, Dispatched, Files, STAT_Unknown, STAT_Ready, STAT_Busy
<1>2. TypeInv /\ JobInv /\ DispatchedOK /\ [Next]_vars => DispatchedOK'
  BY DispatchedStep
<1> QED BY <1>1, <1>2, TypeInvariant, JobInvariant, PTL DEF Spec

\* A server that is not restarted never meets a ready or busy file whose
\* DepStatus it cannot use: the assertions FORBIDDEN(DepStatus <= STAT_Error) of
\* GetNotUpToDateFile, Exec and Local_Job_Done never fail.
THEOREM DispatchedDepCorrect ==
  ASSUME ~MayCrash
  PROVE  Spec => []DispatchedDepOK
<1>1. TypeInv /\ JobInv /\ DispatchedOK => DispatchedDepOK
  <2> SUFFICES ASSUME TypeInv, JobInv, DispatchedOK PROVE DispatchedDepOK
    OBVIOUS
  <2>1. ASSUME Visiting, Dispatched(Top) PROVE DepOK(Top)
    <3>1. Top \in Files
      BY <2>1, StackType DEF TypeInv, Visiting
    <3>2. Top \in Derived
      BY <2>1, <3>1 DEF TypeInv, SourcesIdle, Dispatched, Files
    <3> QED BY <2>1, <3>2 DEF DispatchedOK
  <2>2. ASSUME mode = "launch", NEW f \in Launchable(cur) PROVE DepOK(f)
    <3>1. f \in Derived /\ Status[f] = STAT_Ready
      BY <2>2 DEF TypeInv, TypeOK, LoopOK, Launchable
    <3> QED BY <3>1 DEF DispatchedOK, Dispatched
  <2>3. ASSUME NEW j \in Active PROVE DepOK(job[j].file)
    BY <2>3, JobType DEF TypeInv, JobInv, BusyHasOneJob, DispatchedOK, Dispatched
  <2> QED BY <2>1, <2>2, <2>3 DEF DispatchedDepOK
<1> QED BY <1>1, TypeInvariant, JobInvariant, DispatchedInvariant, PTL

=============================================================================
