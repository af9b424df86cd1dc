-------------------------- MODULE OdinFresh_proofs --------------------------
(***************************************************************************)
(* What the derived files of OdinEngine hold: each is made from what its   *)
(* inputs were when its tool read them, and an input that is something     *)
(* else now has a newer date than the file was confirmed with.             *)
(***************************************************************************)
EXTENDS OdinInputs_proofs

-----------------------------------------------------------------------------
(* The files a file is made from *)

\* A file needs its inputs and what they need.
LEMMA NeedsInputs ==
  ASSUME NEW f \in Derived, NEW i \in Inputs[f]
  PROVE  i \in Needs(f) /\ Needs(i) \subseteq Needs(f)
<1>1. i \in Files
  BY GraphAssumption
<1>2. SUFFICES ASSUME NEW X \in SUBSET Files, f \in X,
                      \A g \in X \cap Derived : Inputs[g] \subseteq X
               PROVE  i \in X /\ Needs(i) \subseteq X
  BY <1>1 DEF Needs
<1>3. i \in X
  BY <1>2
<1> QED BY <1>2, <1>3 DEF Needs

\* A change only reaches the files that need what changed.
LEMMA BroadcastNeeds ==
  ASSUME NEW S, NEW st, NEW f \in Broadcast(S, st)
  PROVE  Needs(f) \cap S # {}
<1> DEFINE X == {g \in Derived : Needs(g) \cap S # {}}
<1>1. ASSUME NEW g \in Derived, Inputs[g] \cap (S \cup X) # {} PROVE g \in X
  <2>1. PICK i \in Inputs[g] : i \in S \cup X
    BY <1>1
  <2>2. i \in Needs(g) /\ Needs(i) \subseteq Needs(g)
    BY NeedsInputs
  <2> QED BY <2>1, <2>2
<1>2. X \in SUBSET Derived
  OBVIOUS
<1> HIDE DEF X
<1>3. f \in X
  BY <1>1, <1>2 DEF Broadcast
<1> QED BY <1>3 DEF X

-----------------------------------------------------------------------------
(* The invariant *)

\* Given the versions lo at the last stat, the versions hi on the disk and the
\* contents dat: x is what input i was at some time after lo, or what it holds.
AsRead(i, x, lo, hi, dat) == IF i \in Sources THEN x \in lo[i] .. hi[i] ELSE dat[i] \in {x, NIL}

\* x is what the tool of f makes of its inputs, except those newer than date.
MadeFrom(f, x, date, mod, lo, hi, dat) ==
  x # NIL =>
    IF f \in Stable THEN x = {}
    ELSE /\ x = [i \in Inputs[f] |-> x[i]]
         /\ \A i \in Inputs[f] : mod[i] > date \/ AsRead(i, x[i], lo, hi, dat)

DatesOK ==
  /\ CurrentDate >= 1 /\ \A i \in Files : ModDate[i] <= CurrentDate
  /\ \A f \in Derived : ConfirmDate[f] <= CurrentDate /\ DepModDate[f] <= CurrentDate
SeenOK == \A s \in Sources : seen[s] <= disk[s]
OutOK == \A j \in JobIDs : job[j] = NIL => out[j] = NIL
HeldOK ==
  \A f \in Derived : /\ ErrStatus[f] > STAT_Error /\ ModDate[f] > 0 => data[f] # NIL
                     /\ ModDate[f] = 0 => ConfirmDate[f] = 0
                     /\ Dispatched(f) => DepModDate[f] >= ConfirmDate[f]
HoldsOK == \A f \in Derived : MadeFrom(f, data[f], ConfirmDate[f], ModDate, seen, disk, data)
JobOutOK(j) == MadeFrom(job[j].file, out[j], DepModDate[job[j].file], ModDate, seen, disk, data)
OutputsOK == \A j \in Active : JobOutOK(j)

FreshInv == DatesOK /\ SeenOK /\ OutOK /\ HeldOK /\ HoldsOK /\ OutputsOK

\* An input that becomes something else gets a date newer than all there are.
Redated ==
  /\ CurrentDate' >= CurrentDate
  /\ \A i \in Files :
       \/ ModDate'[i] = CurrentDate + 1
       \/ /\ ModDate'[i] = ModDate[i]
          /\ i \in Sources => seen'[i] = seen[i] /\ disk'[i] >= disk[i]
          /\ i \in Derived => data'[i] \in {data[i], NIL}

\* So what was made of the inputs then is still made of them.
LEMMA KeepMade ==
  ASSUME TypeOK, TypeOK', Redated, NEW f \in Derived, NEW x, NEW date \in Nat,
         date <= CurrentDate, MadeFrom(f, x, date, ModDate, seen, disk, data)
  PROVE  MadeFrom(f, x, date, ModDate', seen', disk', data')
<1>1. SUFFICES ASSUME NEW i \in Inputs[f],
                      ModDate[i] > date \/ AsRead(i, x[i], seen, disk, data)
               PROVE  ModDate'[i] > date \/ AsRead(i, x[i], seen', disk', data')
  BY DEF MadeFrom
<1>2. i \in Files /\ CurrentDate \in Nat
  BY GraphAssumption DEF TypeOK
<1>3. CASE ModDate'[i] = CurrentDate + 1
  BY <1>2, <1>3
<1>4. CASE /\ ModDate'[i] = ModDate[i]
           /\ i \in Sources => seen'[i] = seen[i] /\ disk'[i] >= disk[i]
           /\ i \in Derived => data'[i] \in {data[i], NIL}
  <2>1. CASE ModDate[i] > date
    BY <1>4, <2>1
  <2>2. CASE i \in Sources /\ AsRead(i, x[i], seen, disk, data)
    <3>1. seen[i] \in Nat /\ disk[i] \in Nat /\ disk'[i] \in Nat
      BY <2>2 DEF TypeOK
    <3> QED BY <1>4, <2>2, <3>1 DEF AsRead
  <2>3. CASE i \notin Sources /\ AsRead(i, x[i], seen, disk, data)
    BY <1>2, <1>4, <2>3 DEF AsRead, Files
  <2> QED BY <1>1, <2>1, <2>2, <2>3
<1> QED BY <1>2, <1>3, <1>4 DEF Redated

\* Files and jobs keep what they hold while no file gets an output.
LEMMA KeepFresh ==
  ASSUME TypeOK, TypeOK', FreshInv, DatesOK', SeenOK', OutOK', Redated,
         UNCHANGED <<data, ConfirmDate, ErrStatus>>,
         \A f \in Derived : ModDate'[f] = ModDate[f],
         \A f \in Derived : Dispatched(f)' =>
           \/ Dispatched(f) /\ DepModDate'[f] = DepModDate[f]
           \/ DepModDate'[f] >= ConfirmDate[f],
         \A j \in Active' :
           \/ JobOutOK(j)'
           \/ /\ j \in Active /\ out'[j] = out[j] /\ job'[j].file = job[j].file
              /\ DepModDate'[job[j].file] = DepModDate[job[j].file]
  PROVE  FreshInv'
<1>1. HeldOK'
  BY DEF FreshInv, HeldOK
<1>2. HoldsOK'
  <2>1. SUFFICES ASSUME NEW f \in Derived
                 PROVE  MadeFrom(f, data[f], ConfirmDate[f], ModDate', seen', disk', data')
    BY DEF HoldsOK
  <2>2. ConfirmDate[f] \in Nat /\ ConfirmDate[f] <= CurrentDate
    BY DEF FreshInv, DatesOK, TypeOK
  <2> QED BY <2>2, KeepMade DEF FreshInv, HoldsOK
<1>3. ASSUME NEW j \in Active', j \in Active, out'[j] = out[j], job'[j].file = job[j].file,
             DepModDate'[job[j].file] = DepModDate[job[j].file]
      PROVE  JobOutOK(j)'
  <2>1. PICK f \in Derived : f = job[j].file
    BY <1>3, JobType
  <2>2. DepModDate[f] \in Nat /\ DepModDate[f] <= CurrentDate
    BY DEF FreshInv, DatesOK, TypeOK
  <2>3. MadeFrom(f, out[j], DepModDate[f], ModDate, seen, disk, data)
    BY <1>3, <2>1 DEF FreshInv, OutputsOK, JobOutOK
  <2>4. MadeFrom(f, out[j], DepModDate[f], ModDate', seen', disk', data')
    BY <2>2, <2>3, KeepMade
  <2> QED BY <1>3, <2>1, <2>4 DEF JobOutOK
<1>4. OutputsOK'
  BY <1>3 DEF OutputsOK
<1> QED BY <1>1, <1>2, <1>4 DEF FreshInv

\* A stat gives a source a new date when its version on the disk is another.
LEMMA StatRedates ==
  ASSUME TypeOK, DatesOK, SeenOK, NEW s \in Sources, StatSource(s),
         UNCHANGED <<disk, data, ConfirmDate>>,
         \A f \in Derived : DepModDate'[f] = DepModDate[f]
  PROVE  /\ Redated /\ DatesOK' /\ SeenOK'
         /\ \A f \in Derived : ModDate'[f] = ModDate[f]
<1>1. /\ s \in Files /\ s \notin Derived /\ CurrentDate \in Nat
      /\ \A i \in Files : ModDate[i] \in Nat
      /\ \A f \in Derived : f \in Files /\ ConfirmDate[f] \in Nat /\ DepModDate[f] \in Nat
      /\ \A r \in Sources : r \in Files /\ seen[r] \in Nat /\ disk[r] \in Nat
  BY GraphAssumption DEF Files, TypeOK
<1>2. /\ seen' = [seen EXCEPT ![s] = disk[s]]
      /\ CurrentDate' = IF Changed(s) THEN CurrentDate + 1 ELSE CurrentDate
      /\ ModDate' = IF Changed(s) THEN [ModDate EXCEPT ![s] = CurrentDate + 1] ELSE ModDate
  BY DEF StatSource
<1>3. \A r \in Sources : seen'[r] = IF r = s THEN disk[s] ELSE seen[r]
  BY <1>2 DEF TypeOK
<1>4. \A i \in Files : ModDate'[i] = IF i = s /\ Changed(s) THEN CurrentDate + 1 ELSE ModDate[i]
  BY <1>2 DEF TypeOK
<1>5. SeenOK'
  BY <1>1, <1>3 DEF SeenOK
<1>6. DatesOK'
  BY <1>1, <1>2, <1>4 DEF DatesOK
<1>7. ~Changed(s) => disk[s] = seen[s]
  BY DEF Changed
<1>8. Redated
  BY <1>1, <1>2, <1>3, <1>4, <1>7 DEF Redated
<1> QED BY <1>1, <1>4, <1>5, <1>6, <1>8

\* What the result of a tool makes of its file f: it holds the new content, under
\* the date when that is something else.
Replaces(f, result, new, date) ==
  /\ data' = [data EXCEPT ![f] = new]
  /\ new = NIL \/ new = result
  /\ ErrStatus'[f] > STAT_Error => new # NIL
  /\ date \in {CurrentDate, CurrentDate + 1} /\ CurrentDate' = date
  /\ ModDate'[f] = IF date # CurrentDate THEN CurrentDate + 1 ELSE ModDate[f]
  /\ \A i \in Files : i # f => ModDate'[i] = ModDate[i]
  /\ ModDate'[f] > 0
  /\ date = CurrentDate => new \in {data[f], NIL}
  /\ ConfirmDate'[f] = Max({ConfirmDate[f], DepModDate[f]})
  /\ \A g \in Derived : g # f => ConfirmDate'[g] = ConfirmDate[g] /\ ErrStatus'[g] = ErrStatus[g]
  /\ UNCHANGED DepModDate

\* The output of a finished job replaces what its file held, under a new date
\* when it is something else.
LEMMA FinishOutput ==
  ASSUME TypeOK, DatesOK, NEW j \in Active, NEW outcome \in Outcomes, outcome # "abort",
         FinishJob(j, outcome), NEW f \in Derived, f = job[j].file
  PROVE  \E new, date : Replaces(f, out[j], new, date)
<1> DEFINE new == IF outcome = "nofile" THEN NIL ELSE out[j]
           renamed == new # NIL /\ Differs(f, new)
           date == IF renamed \/ ModDate[f] = 0 THEN CurrentDate + 1 ELSE CurrentDate
<1>1. out[j] # NIL
  BY Zenon DEF FinishJob
<1>2. data' = [data EXCEPT ![f] = new] /\ CurrentDate' = date
  BY Zenon DEF FinishJob
<1>3. ModDate' = IF date # CurrentDate THEN [ModDate EXCEPT ![f] = date] ELSE ModDate
  BY Zenon DEF FinishJob
<1>4. /\ ConfirmDate' = [ConfirmDate EXCEPT ![f] = Max({ConfirmDate[f], DepModDate[f]})]
      /\ ErrStatus' = [ErrStatus EXCEPT ![f] = ExecStatus[outcome]] /\ UNCHANGED DepModDate
  BY Zenon DEF FinishJob
<1>5. CurrentDate \in Nat /\ ModDate \in [Files -> Nat] /\ f \in Files
      /\ ConfirmDate \in [Derived -> Nat] /\ ErrStatus \in [Derived -> Statuses]
  BY DEF TypeOK, Files
<1>6. ErrStatus'[f] > STAT_Error => outcome # "nofile"
  <2>1. ~(STAT_NoFile > STAT_Error) /\ ExecStatus["nofile"] = STAT_NoFile
    BY DEF STAT_NoFile, STAT_Error, ExecStatus
  <2> QED BY <1>4, <1>5, <2>1
<1>7. date = CurrentDate => ~renamed /\ ModDate[f] # 0
  BY <1>5
<1>8. ~renamed /\ new # NIL => new = data[f]
  BY DEF Differs
<1>9. date \in {CurrentDate, CurrentDate + 1}
  OBVIOUS
<1>10. /\ ErrStatus'[f] > STAT_Error => new # NIL
       /\ new = NIL \/ new = out[j]
  BY <1>1, <1>6
<1> HIDE DEF new, renamed, date
<1>11. /\ ModDate'[f] = IF date # CurrentDate THEN CurrentDate + 1 ELSE ModDate[f]
       /\ \A i \in Files : i # f => ModDate'[i] = ModDate[i]
       /\ ModDate'[f] > 0
  BY <1>3, <1>5, <1>7, <1>9
<1>12. /\ ConfirmDate'[f] = Max({ConfirmDate[f], DepModDate[f]})
       /\ \A g \in Derived : g # f => ConfirmDate'[g] = ConfirmDate[g] /\ ErrStatus'[g] = ErrStatus[g]
  BY <1>4, <1>5
<1> QED BY <1>2, <1>4, <1>7, <1>8, <1>9, <1>10, <1>11, <1>12 DEF Replaces

\* Every action keeps what files and running jobs hold.
LEMMA FreshStep ==
  ASSUME ~MayCrash
  PROVE  TypeInv /\ TypeInv' /\ JobInv /\ InputInv /\ FreshInv /\ [Next]_vars => FreshInv'
<1> SUFFICES ASSUME TypeOK, TypeOK', LoopOK, SourcesIdle, HeaderOK, BusyHasOneJob, FreshInv,
                    \A f \in Derived : FileOK(f), [Next]_vars
             PROVE  FreshInv'
  BY DEF TypeInv, JobInv, InputInv
<1>0. /\ \A s \in Sources : s \in Files /\ s \notin Derived
      /\ \A f \in Derived : f \in Files
      /\ STAT_Unknown \notin {STAT_Ready, STAT_Busy}
  BY GraphAssumption DEF Files, STAT_Unknown, STAT_Ready, STAT_Busy
<1>00. /\ CurrentDate \in Nat /\ \A i \in Files : ModDate[i] \in Nat
       /\ \A s \in Sources : seen[s] \in Nat /\ disk[s] \in Nat
       /\ \A f \in Derived : ConfirmDate[f] \in Nat /\ DepModDate[f] \in Nat
  BY DEF TypeOK
<1> DEFINE HeadersKept == UNCHANGED <<data, ModDate, ConfirmDate, ErrStatus, DepModDate>>
           JobsKept == \A j \in JobIDs :
                         \/ /\ job'[j] # NIL /\ job[j] # NIL /\ job'[j].file = job[j].file
                            /\ out'[j] = out[j]
                         \/ job'[j] = NIL /\ out'[j] = NIL
           DispatchedKept == \A f \in Derived : Dispatched(f)' => Dispatched(f)
\* Nothing is read or written by this step, but dates may pass and jobs end.
<1>1. ASSUME HeadersKept, JobsKept, DispatchedKept, UNCHANGED <<disk, seen>>,
             CurrentDate' \in Nat, CurrentDate' >= CurrentDate
      PROVE  FreshInv'
  <2>1. DatesOK' /\ SeenOK'
    BY <1>00, <1>1 DEF FreshInv, DatesOK, SeenOK
  <2>2. OutOK' /\ \A j \in Active' : j \in Active /\ out'[j] = out[j] /\ job'[j].file = job[j].file
    BY <1>1 DEF OutOK, Active
  <2>3. Redated
    BY <1>00, <1>1 DEF Redated
  <2> QED BY <1>1, <2>1, <2>2, <2>3, KeepFresh
<1>2. ASSUME HeadersKept, UNCHANGED <<disk, seen, Status, job, out, CurrentDate>> PROVE FreshInv'
  BY <1>2 DEF FreshInv, DatesOK, SeenOK, OutOK, HeldOK, HoldsOK, OutputsOK, JobOutOK, Dispatched, Active
<1>3. ASSUME NEW B, job' = Cancel(B, Status, job), UNCHANGED out PROVE JobsKept
  BY <1>3, CancelSameJobs DEF SameJobs, FreshInv, OutOK
<1>4. ASSUME NEW s \in Sources, Edit(s) PROVE FreshInv'
  <2>1. /\ HeadersKept /\ UNCHANGED <<seen, Status, job, out, CurrentDate>>
        /\ \A r \in Sources : disk'[r] >= disk[r] /\ disk'[r] \in Nat
    BY <1>4, <1>00 DEF Edit, modVars, fileVars, jobVars, TypeOK
  <2>2. DatesOK' /\ OutOK' /\ Active' = Active
    BY <2>1 DEF FreshInv, DatesOK, OutOK, Active
  <2>3. SeenOK'
    BY <1>00, <2>1 DEF FreshInv, SeenOK
  <2>4. Redated
    BY <1>00, <2>1 DEF Redated
  <2>5. \A f \in Derived : Dispatched(f)' => Dispatched(f)
    BY <2>1 DEF Dispatched
  <2> QED BY <1>0, <2>1, <2>2, <2>3, <2>4, <2>5, KeepFresh
<1>5. ASSUME NEW s \in Sources, Test(s) PROVE FreshInv'
  <2>1. /\ StatSource(s) /\ UNCHANGED <<disk, data, ConfirmDate, ErrStatus, DepModDate, out>>
        /\ job' = Cancel(Broadcast({s}, Status), Status, job)
        /\ \A f \in Derived : Dispatched(f)' => Dispatched(f)
    BY <1>0, <1>5 DEF Test, ClrStatus, Dispatched
  <2>2. /\ Redated /\ DatesOK' /\ SeenOK'
        /\ \A f \in Derived : ModDate'[f] = ModDate[f]
    BY <2>1, StatRedates DEF FreshInv
  <2>3. JobsKept
    BY <1>3, <2>1
  <2>4. OutOK' /\ \A j \in Active' : j \in Active /\ out'[j] = out[j] /\ job'[j].file = job[j].file
    BY <2>3 DEF OutOK, Active
  <2> QED BY <2>1, <2>2, <2>4, KeepFresh
<1>6. ASSUME NEW c \in Clients,
             \/ TestAll(c) \/ Interrupt(c) \/ (\E f \in Derived : Request(c, f))
             \/ ServeInterrupted(c) \/ ResumeLaunch(c) \/ StartPush(c)
      PROVE  FreshInv'
  <2>1. HeadersKept /\ UNCHANGED <<disk, seen, Status, job, out>>
    BY <1>6 DEF TestAll, Interrupt, Request, ServeInterrupted, ResumeLaunch, StartPush,
       modVars, fileVars, jobVars
  <2>2. CurrentDate' \in {CurrentDate, CurrentDate + 1}
    BY <1>6 DEF TestAll, Interrupt, Request, ServeInterrupted, ResumeLaunch, StartPush
  <2>3. JobsKept /\ DispatchedKept
    BY <2>1 DEF FreshInv, OutOK, Dispatched
  <2>4. CurrentDate' \in Nat /\ CurrentDate' >= CurrentDate
    BY <1>00, <2>2
  <2> QED BY <1>1, <2>1, <2>3, <2>4
<1>7. ASSUME \/ EndIteration \/ EnterTarget \/ RefreshDispatched \/ EndPush \/ EndLaunch
             \/ \E i \in Files : Descend(i)
      PROVE  FreshInv'
  BY <1>2, <1>7 DEF EndIteration, EnterTarget, RefreshDispatched, EndPush, EndLaunch,
     Descend, fileVars, modVars, jobVars
<1>8. ASSUME FlushBroadcast \/ FinishPass PROVE FreshInv'
  <2>1. HeadersKept /\ UNCHANGED <<disk, seen, out, CurrentDate>>
    BY <1>8 DEF FlushBroadcast, FinishPass, modVars, jobVars
  <2>2. DispatchedKept
    <3>1. CASE FlushBroadcast
      BY <1>0, <3>1 DEF FlushBroadcast, ClrStatus, Dispatched
    <3>2. CASE FinishPass
      BY <1>0, <3>2 DEF FinishPass, Dispatched
    <3> QED BY <1>8, <3>1, <3>2
  <2>3. JobsKept
    <3>1. CASE FlushBroadcast
      BY <1>3, <3>1 DEF FlushBroadcast
    <3>2. CASE FinishPass
      BY <3>2 DEF FinishPass, jobVars, FreshInv, OutOK
    <3> QED BY <1>8, <3>1, <3>2
  <2> QED BY <1>00, <1>1, <2>1, <2>2, <2>3
<1>9. ASSUME NEW c \in Clients, Disconnect(c) PROVE FreshInv'
  <2>1. HeadersKept /\ UNCHANGED <<disk, seen, CurrentDate>>
    BY <1>9 DEF Disconnect, modVars
  <2>2. DispatchedKept
    BY <1>0, <1>9 DEF Disconnect, Dispatched
  <2>3. JobsKept
    BY <1>9 DEF Disconnect, DelJob, FreshInv, OutOK
  <2> QED BY <1>00, <1>1, <2>1, <2>2, <2>3
<1>10. ASSUME NEW g \in Derived, NEW j \in JobIDs, Exec(g, j) PROVE FreshInv'
  <2>1. /\ HeadersKept /\ UNCHANGED <<disk, seen, out, CurrentDate>>
        /\ job[j] = NIL /\ \A k \in JobIDs : k # j => job'[k] = job[k]
        /\ \A f \in Derived : Dispatched(f)' => Dispatched(f)
    BY <1>0, <1>10 DEF Exec, Launchable, Dispatched, TypeOK, modVars
  <2>2. DatesOK' /\ SeenOK' /\ OutOK' /\ Redated
    BY <1>00, <2>1 DEF FreshInv, DatesOK, SeenOK, OutOK, Redated
  <2>3. ASSUME NEW k \in Active'
        PROVE  JobOutOK(k)' \/ (k \in Active /\ out'[k] = out[k] /\ job'[k].file = job[k].file)
    <3>1. CASE k = j
      BY <2>1, <3>1 DEF FreshInv, OutOK, JobOutOK, MadeFrom
    <3>2. CASE k # j
      BY <2>1, <3>2 DEF Active
    <3> QED BY <3>1, <3>2
  <2> QED BY <2>1, <2>2, <2>3, KeepFresh
<1>11. ASSUME NEW j \in JobIDs, ToolRead(j) PROVE FreshInv'
  <2>1. /\ HeadersKept /\ UNCHANGED <<disk, seen, Status, job, CurrentDate>>
        /\ job[j] # NIL /\ out' = [out EXCEPT ![j] = Content(job[j].file, OnDisk)]
    BY <1>11 DEF ToolRead, modVars, fileVars
  <2>2. /\ \A k \in JobIDs : out'[k] = IF k = j THEN Content(job[j].file, OnDisk) ELSE out[k]
        /\ Active' = Active /\ j \in Active
    BY <2>1 DEF TypeOK, Active
  <2>3. DatesOK' /\ SeenOK' /\ OutOK' /\ Redated /\ DispatchedKept
    BY <1>00, <2>1, <2>2 DEF FreshInv, DatesOK, SeenOK, OutOK, Redated, Dispatched
  <2>4. JobOutOK(j)'
    <3>1. PICK f \in Derived : f = job[j].file
      BY <2>2, JobType
    <3>2. Inputs[f] \in SUBSET Files
      BY GraphAssumption
    <3>3. CASE f \in Stable
      BY <2>1, <2>2, <3>1, <3>3 DEF JobOutOK, MadeFrom, Content
    <3>4. CASE f \notin Stable
      <4> DEFINE x == [i \in Inputs[f] |-> OnDisk[i]]
      <4>1. out'[j] = x /\ x = [i \in Inputs[f] |-> x[i]]
        BY <2>2, <3>1, <3>4 DEF Content
      <4>2. ASSUME NEW i \in Inputs[f] PROVE AsRead(i, x[i], seen, disk, data)
        BY <1>00, <3>2, <4>2 DEF OnDisk, AsRead, FreshInv, SeenOK
      <4> HIDE DEF x
      <4> QED BY <2>1, <3>1, <3>4, <4>1, <4>2 DEF JobOutOK, MadeFrom
    <3> QED BY <3>3, <3>4
  <2>5. ASSUME NEW k \in Active'
        PROVE  JobOutOK(k)' \/ (k \in Active /\ out'[k] = out[k] /\ job'[k].file = job[k].file)
    BY <2>1, <2>2, <2>4 DEF Active
  <2> QED BY <2>1, <2>3, <2>5, KeepFresh
<1>12. ASSUME NEW j \in JobIDs, JobEnds(j) PROVE FreshInv'
  <2>1. PICK outcome \in Outcomes \cup {"abort"} : Job_Done(j, outcome)
    BY <1>12 DEF JobEnds
  <2>2. PICK f \in Derived : j \in Active /\ f = job[j].file /\ Status[f] = STAT_Busy
    BY <2>1, JobDoneEffect, JobType DEF BusyHasOneJob
  <2>3. UNCHANGED <<disk, seen>>
    BY <2>1 DEF Job_Done
  <2>4. \A k \in JobIDs : /\ job'[k] = IF k = j THEN NIL ELSE job[k]
                          /\ out'[k] = IF k = j THEN NIL ELSE out[k]
    BY <2>1, JobDoneEffect DEF DelJob
  <2>5. DispatchedKept /\ ~Dispatched(f)'
    <3>1. \E st : /\ Status' = [Status EXCEPT ![f] = st]
                  /\ st # STAT_Busy /\ st # STAT_Ready
      BY <2>1, <2>2, JobDoneEffect
    <3>2. Status \in [Files -> Statuses]
      BY DEF TypeOK
    <3> QED BY <1>0, <3>1, <3>2 DEF Dispatched
  <2>6. CASE outcome = "abort"
    <3>1. HeadersKept /\ UNCHANGED CurrentDate
      BY <2>1, <2>6 DEF Job_Done, AbortJob, modVars
    <3>2. JobsKept
      BY <2>4 DEF FreshInv, OutOK
    <3> QED BY <1>00, <1>1, <2>3, <2>5, <3>1, <3>2
  <2>7. CASE outcome # "abort"
    <3>1. FinishJob(j, outcome) /\ outcome \in Outcomes
      BY <2>1, <2>7 DEF Job_Done
    <3>2. PICK new, date : Replaces(f, out[j], new, date)
      <4>1. DatesOK
        BY DEF FreshInv
      <4> QED BY <2>2, <2>7, <3>1, <4>1, FinishOutput
    <3> USE DEF Replaces
    <3>3. /\ \A g \in Derived : data'[g] = IF g = f THEN new ELSE data[g]
          /\ CurrentDate' >= CurrentDate
      BY <1>00, <3>2 DEF TypeOK
    <3>4. ConfirmDate'[f] = DepModDate[f]
      <4>1. DepModDate[f] >= ConfirmDate[f]
        BY <2>2 DEF FreshInv, HeldOK, Dispatched
      <4>2. /\ Max({ConfirmDate[f], DepModDate[f]}) \in {ConfirmDate[f], DepModDate[f]}
            /\ Max({ConfirmDate[f], DepModDate[f]}) >= DepModDate[f]
        BY <1>00, MaxOfTwo
      <4> QED BY <1>00, <3>2, <4>1, <4>2
    <3>5. Redated
      <4>1. ASSUME NEW i \in Files
            PROVE  \/ ModDate'[i] = CurrentDate + 1
                   \/ /\ ModDate'[i] = ModDate[i]
                      /\ i \in Derived => data'[i] \in {data[i], NIL}
        BY <3>2, <3>3
      <4> QED BY <1>00, <2>3, <3>3, <4>1 DEF Redated
    <3>6. DatesOK' /\ SeenOK' /\ OutOK'
      <4>1. \A i \in Files : ModDate'[i] <= CurrentDate'
        BY <1>0, <1>00, <3>2 DEF FreshInv, DatesOK
      <4>2. DatesOK'
        BY <1>0, <1>00, <3>2, <3>3, <3>4, <4>1 DEF FreshInv, DatesOK
      <4> QED BY <2>3, <2>4, <4>2 DEF FreshInv, SeenOK, OutOK
    <3>7. HeldOK'
      <4>1. ASSUME NEW g \in Derived, g # f
            PROVE  /\ data'[g] = data[g] /\ ModDate'[g] = ModDate[g] /\ ConfirmDate'[g] = ConfirmDate[g]
                   /\ ErrStatus'[g] = ErrStatus[g] /\ DepModDate'[g] = DepModDate[g]
        BY <1>0, <3>2, <3>3, <4>1
      <4> QED BY <2>5, <3>2, <3>3, <4>1 DEF FreshInv, HeldOK
    <3>8. ASSUME NEW g \in Derived PROVE MadeFrom(g, data'[g], ConfirmDate'[g], ModDate', seen', disk', data')
      <4>1. CASE g = f
        <5>1. CASE new = NIL
          BY <3>3, <4>1, <5>1 DEF MadeFrom
        <5>2. CASE new = out[j]
          <6>1. MadeFrom(f, new, DepModDate[f], ModDate, seen, disk, data)
            BY <2>2, <5>2 DEF FreshInv, OutputsOK, JobOutOK
          <6>2. DepModDate[f] <= CurrentDate
            BY DEF FreshInv, DatesOK
          <6>3. MadeFrom(f, new, DepModDate[f], ModDate', seen', disk', data')
            BY <1>00, <3>5, <6>1, <6>2, KeepMade
          <6> QED BY <3>3, <3>4, <4>1, <6>3
        <5> QED BY <3>2, <5>1, <5>2
      <4>2. CASE g # f
        <5>1. MadeFrom(g, data[g], ConfirmDate[g], ModDate, seen, disk, data) /\ ConfirmDate[g] <= CurrentDate
          BY DEF FreshInv, HoldsOK, DatesOK
        <5>2. MadeFrom(g, data[g], ConfirmDate[g], ModDate', seen', disk', data')
          BY <1>00, <3>5, <5>1, KeepMade
        <5> QED BY <3>2, <3>3, <4>2, <5>2
      <4> QED BY <4>1, <4>2
    <3>9. ASSUME NEW k \in Active' PROVE JobOutOK(k)'
      <4>1. PICK g \in Derived : k \in Active /\ g = job[k].file /\ job'[k] = job[k] /\ out'[k] = out[k]
        BY <2>4, JobType DEF Active
      <4>2. MadeFrom(g, out[k], DepModDate[g], ModDate, seen, disk, data) /\ DepModDate[g] <= CurrentDate
        BY <4>1 DEF FreshInv, OutputsOK, JobOutOK, DatesOK
      <4>3. MadeFrom(g, out[k], DepModDate[g], ModDate', seen', disk', data')
        BY <1>00, <3>5, <4>2, KeepMade
      <4> QED BY <3>2, <4>1, <4>3 DEF JobOutOK
    <3> QED BY <3>6, <3>7, <3>8, <3>9 DEF FreshInv, HoldsOK, OutputsOK
  <2> QED BY <2>6, <2>7
<1>13. CASE UpdateSource \/ Compute
  <2>1. CASE UpdateSource
    <3>1. PICK s \in Sources :
            /\ StatSource(s) /\ Status' = [Status EXCEPT ![s] = NewStatus(s)]
            /\ UNCHANGED <<disk, data, ConfirmDate, ErrStatus, DepModDate, job, out>>
      BY <2>1 DEF UpdateSource, jobVars
    <3>2. DispatchedKept /\ OutOK' /\ Active' = Active
      BY <1>0, <3>1 DEF Dispatched, TypeOK, FreshInv, OutOK, Active
    <3>3. /\ Redated /\ DatesOK' /\ SeenOK'
          /\ \A f \in Derived : ModDate'[f] = ModDate[f]
      BY <3>1, StatRedates DEF FreshInv
    <3> QED BY <3>1, <3>2, <3>3, KeepFresh
  <2>2. CASE Compute
    <3>1. PICK g \in Derived, st \in Statuses, date \in Nat :
           /\ ~Dispatched(g)
           /\ Status' = [Status EXCEPT ![g] = st]
           /\ DepModDate' = [DepModDate EXCEPT ![g] = date]
           /\ UNCHANGED <<data, ModDate, ConfirmDate, ErrStatus, ToBroadcast, job, out>>
           /\ st # STAT_Busy
           /\ st = STAT_Ready => ~(ModDate[g] > 0 /\ ConfirmDate[g] >= date)
           /\ date \in {1, DepModDate[g]} \cup {ModDate[i] : i \in Inputs[g]}
      BY <2>2, ComputeFile
    <3>2. UNCHANGED <<disk, seen, CurrentDate>>
      BY <2>2 DEF Compute
    <3>3. date <= CurrentDate
      <4>1. \A i \in Inputs[g] : i \in Files
        BY GraphAssumption
      <4> QED BY <1>00, <3>1, <4>1 DEF FreshInv, DatesOK
    <3>4. \A f \in Derived : DepModDate'[f] = IF f = g THEN date ELSE DepModDate[f]
      BY <3>1 DEF TypeOK
    <3>5. DatesOK' /\ SeenOK' /\ OutOK' /\ Redated
      BY <1>00, <3>1, <3>2, <3>3, <3>4 DEF FreshInv, DatesOK, SeenOK, OutOK, Redated
    <3>6. ASSUME NEW f \in Derived, Dispatched(f)'
          PROVE  \/ Dispatched(f) /\ DepModDate'[f] = DepModDate[f]
                 \/ DepModDate'[f] >= ConfirmDate[f]
      <4>1. Status \in [Files -> Statuses]
        BY DEF TypeOK
      <4>2. CASE f # g
        BY <1>0, <3>1, <3>4, <3>6, <4>1, <4>2 DEF Dispatched
      <4>3. CASE f = g
        <5>1. st = STAT_Ready
          BY <1>0, <3>1, <3>6, <4>1, <4>3 DEF Dispatched
        <5>2. ModDate[g] = 0 => ConfirmDate[g] = 0
          BY DEF FreshInv, HeldOK
        <5>3. ModDate[g] \in Nat /\ ConfirmDate[g] \in Nat
          BY <1>0, <1>00
        <5> QED BY <3>1, <3>4, <4>3, <5>1, <5>2, <5>3
      <4> QED BY <4>2, <4>3
    <3>7. \A j \in Active : job[j].file # g /\ job[j].file \in Derived
      BY <3>1, JobType DEF BusyHasOneJob, Dispatched
    <3>8. Active' = Active
      BY <3>1 DEF Active
    <3> QED BY <3>1, <3>4, <3>5, <3>6, <3>7, <3>8, KeepFresh
  <2> QED BY <1>13, <2>1, <2>2
<1>14. CASE UNCHANGED vars
  BY <1>2, <1>14 DEF vars, fileVars, modVars, jobVars
<1> QED
  BY <1>4, <1>5, <1>6, <1>7, <1>8, <1>9, <1>10, <1>11, <1>12, <1>13, <1>14
     DEF Next, Pass, User, Restart

\* What files and running jobs hold is what their inputs were, in every
\* reachable state of a server that is not restarted.
LEMMA FreshInvariant ==
  ASSUME ~MayCrash
  PROVE  Spec => []FreshInv
<1>1. Init => FreshInv
  <2>1. ASSUME Init PROVE DatesOK /\ SeenOK /\ OutOK
    BY <2>1, GraphAssumption DEF Init, DatesOK, SeenOK, OutOK, Files
  <2>2. ASSUME Init PROVE HeldOK
    BY <2>2 DEF Init, HeldOK, Dispatched, Files, STAT_Unknown, STAT_Ready, STAT_Busy
  <2>3. ASSUME Init PROVE HoldsOK /\ OutputsOK
    BY <2>3 DEF Init, HoldsOK, OutputsOK, MadeFrom, Active
  <2> QED BY <2>1, <2>2, <2>3 DEF FreshInv
<1>2. TypeInv /\ TypeInv' /\ JobInv /\ InputInv /\ FreshInv /\ [Next]_vars => FreshInv'
  BY FreshStep
<1> QED BY <1>1, <1>2, TypeInvariant, JobInvariant, InputInvariant, PTL DEF Spec

\* A derived file that is done without error is up to date: whatever came
\* between the reading of its inputs and the end of its job, once every change
\* of the files it needs was seen and broadcast it holds what its tool makes of
\* what they are now.
THEOREM DoneFresh ==
  ASSUME ~MayCrash
  PROVE  Spec => []DoneIsFresh
<1>1. TypeInv /\ InputInv /\ FreshInv => DoneIsFresh
  <2>1. SUFFICES ASSUME TypeOK, InputInv, FreshInv, NEW f \in Derived, Status[f] > STAT_Error,
                        \A s \in Needs(f) \cap Sources : disk[s] = seen[s] /\ s \notin ToBroadcast
                 PROVE  data[f] = Content(f, Recorded)
    BY DEF TypeInv, DoneIsFresh
  <2>2. f \notin Reached
    <3>1. Needs(f) \cap ToBroadcast = {}
      BY <2>1 DEF TypeOK
    <3> QED BY <3>1, BroadcastNeeds DEF Reached
  <2>3. InputsDone(f, ConfirmDate[f]) /\ data[f] # NIL
    BY <2>1, <2>2 DEF InputInv, FileOK, FreshInv, HeldOK
  <2>4. CASE f \in Stable
    BY <2>1, <2>3, <2>4 DEF FreshInv, HoldsOK, MadeFrom, Content
  <2>5. CASE f \notin Stable
    <3>1. /\ data[f] = [i \in Inputs[f] |-> data[f][i]]
          /\ \A i \in Inputs[f] : ModDate[i] > ConfirmDate[f] \/ AsRead(i, data[f][i], seen, disk, data)
      BY <2>1, <2>3, <2>5 DEF FreshInv, HoldsOK, MadeFrom
    <3>2. ASSUME NEW i \in Inputs[f] PROVE data[f][i] = Recorded[i]
      <4>1. i \in Files /\ ModDate[i] \in Nat /\ ConfirmDate[f] \in Nat
        <5>1. Inputs[f] \in SUBSET Files
          BY GraphAssumption
        <5> QED BY <2>1, <5>1 DEF TypeOK
      <4>2. AsRead(i, data[f][i], seen, disk, data)
        BY <2>3, <3>1, <4>1 DEF InputsDone
      <4>3. CASE i \in Sources
        <5>1. i \in Needs(f) \cap Sources /\ seen[i] \in Nat
          BY <2>1, <4>3, NeedsInputs DEF TypeOK
        <5>2. disk[i] = seen[i]
          BY <2>1, <5>1
        <5> QED BY <4>1, <4>2, <4>3, <5>1, <5>2 DEF AsRead, Recorded
      <4>4. CASE i \notin Sources
        <5>1. i \in Derived /\ Status[i] > STAT_Error
          BY <2>3, <4>1, <4>4 DEF Files, InputsDone
        <5>2. data[i] # NIL
          BY <2>1, <5>1 DEF InputInv, FileOK, FreshInv, HeldOK
        <5> QED BY <4>1, <4>2, <4>4, <5>2 DEF AsRead, Recorded
      <4> QED BY <4>3, <4>4
    <3> QED BY <2>5, <3>1, <3>2 DEF Content
  <2> QED BY <2>4, <2>5
<1> QED BY <1>1, TypeInvariant, InputInvariant, FreshInvariant, PTL

=============================================================================
