---------------------------- MODULE OdinEngine ----------------------------
(***************************************************************************)
(* The incremental-build engine of the Odin server: the dependency         *)
(* database, the update pass (GetReqs / GetNotUpToDateFile), change        *)
(* broadcasting, the job table, and the select loop that serves the        *)
(* requests of several clients (pkg/odin/odin/if-get.c, if-bcast.c,        *)
(* if-client.cc, if-exec.c, if-update.c, if-fhacc.c, if-fhstat.c,          *)
(* if-fhsrc.c, if-candrv.c, if-filhdr.c, if-info.c, if-ipc.c).             *)
(*                                                                         *)
(* The graph is acyclic and static; every derived file is the single       *)
(* output of an external tool whose inputs are the files Inputs[f].  A     *)
(* source is a plain file whose content is its version number; a derived   *)
(* file's content is the function of the contents its tool read.  The      *)
(* server is one thread: its update pass is split into steps so that       *)
(* editors and tools interleave with it, but no message is handled while   *)
(* the pass is under way.                                                  *)
(***************************************************************************)
EXTENDS OdinStatus, Integers, Sequences

CONSTANTS
  Sources,       \* plain source files
  Derived,       \* outputs of external tools
  Inputs,        \* [Derived -> SUBSET (Sources \cup Derived)]
  Stable,        \* derived files whose content never depends on the inputs
  Clients,       \* the slots of connected clients
  JobIDs,        \* the JOB directories
  MaxJobs,       \* jobs one client may have running
  KeepGoing,     \* TRUE: an error in a tool does not interrupt the request
  VerifyLevel,   \* 0, 1 (inotify) or 2 (check before each command)
  Absent,        \* versions at which a source does not exist on the disk
  MaxVersion,    \* bound: the last version an editor writes
  Outcomes,      \* how a tool may end (see Local_Job_Done)
  MayInterrupt,  \* the clients whose user may hit ctrl-C
  MayDie,        \* the clients that may disconnect
  MayCrash,      \* TRUE: the server may be killed and started again
  NIL            \* no file, no client, no job, no content

Files == Sources \cup Derived

Jobs == [client : Clients, file : Derived, canceled : BOOLEAN]

ASSUME GraphAssumption ==
  /\ Sources \cap Derived = {} /\ NIL \notin Files /\ IsFiniteSet(Files)
  /\ Inputs \in [Derived -> SUBSET Files]
  /\ Stable \subseteq Derived

\* Of any derived files, one is made from none of the others.
ASSUME AcyclicAssumption ==
  \A X \in SUBSET Derived : X # {} => \E f \in X : Inputs[f] \cap X = {}

ASSUME ClientAssumption ==
  /\ NIL \notin Clients /\ NIL \notin Jobs
  /\ MayInterrupt \subseteq Clients /\ MayDie \subseteq Clients

ASSUME BoundAssumption ==
  /\ JobIDs \subseteq Nat /\ IsFiniteSet(JobIDs)
  /\ MaxJobs \in Nat \ {0} /\ MaxVersion \in Nat /\ VerifyLevel \in 0 .. 2
  /\ KeepGoing \in BOOLEAN /\ MayCrash \in BOOLEAN
  /\ Outcomes \subseteq {"abort", "nofile", "error", "warning", "ok"}

VARIABLES
  \* the world outside the server
  disk,          \* version of each source on the disk
  \* the persistent header of a file (tps_HdrInf)
  seen,          \* version of a source at its last stat (SysModTime)
  data,          \* content of a derived file in the cache
  Status,        \* HdrInf.Status
  ModDate,       \* HdrInf.ModDate
  ConfirmDate,   \* HdrInf.ConfirmDate
  FileVerify,    \* HdrInf.VerifyDate
  ErrStatus,     \* the minimum of HdrInf.ErrStatusWord
  \* the in-core part of a header
  DepStatus, DepModDate,
  \* global dates
  CurrentDate, VerifyDate, PendingDate,
  ToBroadcast,   \* sources whose change is still to be broadcast
  \* jobs: [client, file, canceled] or NIL, and what their tools have read
  job, out, killed,
  \* clients: target, ToDo list, ToDo from LastToDo on, Interrupted; whether
  \* Test_All was sent and the versions then on the disk; the last answer
  want, todo, rest, interrupted, tested, testDisk, reply,
  \* the select loop
  mode, cur, stack, due, testing, heard, ready,
  saved          \* the database as last written by Update_Info

fileVars   == <<Status, FileVerify, DepStatus>>
modVars    == <<data, ModDate, ConfirmDate, ErrStatus, DepModDate>>
jobVars    == <<job, out, killed>>
clientVars == <<want, todo, rest, interrupted, tested, testDisk, reply>>
loopVars   == <<mode, cur, stack, due, testing, heard, ready>>
vars == <<disk, seen, fileVars, modVars, CurrentDate, VerifyDate, PendingDate,
          ToBroadcast, jobVars, clientVars, loopVars, saved>>

-----------------------------------------------------------------------------
(* Predicates on the database *)

\* Faulty: a status is trusted whatever the date it was verified at.
IsUpToDate_Unverified(f) == Status[f] > STAT_Unknown
\* Faulty: a file verified at VerifyDate itself does not count.
IsUpToDate_Strict(f) == Status[f] > STAT_Unknown /\ FileVerify[f] > VerifyDate

\* The answer for f need not be computed again in this pass.
IsUpToDate(f) ==
  /\ FileVerify[f] >= VerifyDate
  /\ Is_PendingReadyOrBusy_Status(Status[f]) => FileVerify[f] >= PendingDate
  /\ Status[f] > STAT_Unknown

IsAllDone(f) == IsUpToDate(f) /\ ~Is_PendingReadyOrBusy_Status(Status[f])

\* What a tool makes of the contents it read.
Content(f, read) == IF f \in Stable THEN {} ELSE [i \in Inputs[f] |-> read[i]]

\* What is on the disk now, and what the database says is.
OnDisk == [i \in Files |-> IF i \in Sources THEN disk[i] ELSE data[i]]
Recorded == [i \in Files |-> IF i \in Sources THEN seen[i] ELSE data[i]]

\* Faulty: only the direct dependents hear of a change.
Broadcast_Direct(S, st) == {f \in Derived : Inputs[f] \cap S # {} /\ st[f] > STAT_Unknown}

\* The files a change of S is broadcast to: those that depend on S through
\* files whose status is above STAT_Unknown, where Broadcast_Mod stops.
Broadcast(S, st) ==
  {f \in Derived : \A X \in SUBSET Derived :
     (\A g \in Derived : (Inputs[g] \cap (S \cup X) # {} /\ st[g] > STAT_Unknown)
                           => g \in X) => f \in X}

\* Faulty: a busy file loses its status while its job runs on.
ClrStatus_Busy(B, st) == [f \in Files |-> IF f \in B THEN STAT_Unknown ELSE st[f]]
ClrDep_Busy(B, st, dep) == [f \in Derived |-> IF f \in B THEN STAT_Unknown ELSE dep[f]]

\* Clr_Status on the files in B: a busy file keeps its status and its job is
\* canceled, any other becomes unknown.
ClrStatus(B, st) ==
  [f \in Files |-> IF f \in B /\ st[f] # STAT_Busy THEN STAT_Unknown ELSE st[f]]
ClrDep(B, st, dep) ==
  [f \in Derived |-> IF f \in B /\ st[f] # STAT_Busy THEN STAT_Unknown ELSE dep[f]]
Cancel(B, st, jobs) ==
  [j \in JobIDs |-> IF jobs[j] # NIL
                    THEN IF jobs[j].file \in B /\ st[jobs[j].file] = STAT_Busy
                         THEN [jobs[j] EXCEPT !.canceled = TRUE]
                         ELSE jobs[j]
                    ELSE NIL]

\* Faulty: a canceled job is not counted.
NumJobs_Live(c) ==
  Cardinality({j \in JobIDs : job[j] # NIL /\ job[j].client = c /\ ~job[j].canceled})
\* Client->NumJobs.
NumJobs(c) == Cardinality({j \in JobIDs : job[j] # NIL /\ job[j].client = c})

Database == [seen |-> seen, Status |-> Status, ModDate |-> ModDate,
             ConfirmDate |-> ConfirmDate, FileVerify |-> FileVerify,
             ErrStatus |-> ErrStatus, CurrentDate |-> CurrentDate,
             VerifyDate |-> VerifyDate]

Init ==
  /\ disk = [s \in Sources |-> 0] /\ seen = [s \in Sources |-> 0]
  /\ data = [f \in Derived |-> NIL]
  /\ Status = [f \in Files |-> STAT_Unknown]
  /\ ModDate = [f \in Files |-> 0] /\ FileVerify = [f \in Files |-> 0]
  /\ ConfirmDate = [f \in Derived |-> 0]
  /\ ErrStatus = [f \in Derived |-> STAT_OK]
  /\ DepStatus = [f \in Derived |-> STAT_Unknown]
  /\ DepModDate = [f \in Derived |-> 0]
  /\ CurrentDate = 1 /\ VerifyDate = 1 /\ PendingDate = 0
  /\ ToBroadcast = {}
  /\ job = [j \in JobIDs |-> NIL] /\ out = [j \in JobIDs |-> NIL] /\ killed = {}
  /\ want = [c \in Clients |-> NIL]
  /\ todo = [c \in Clients |-> {}] /\ rest = [c \in Clients |-> {}]
  /\ interrupted = {} /\ tested = {}
  /\ testDisk = [c \in Clients |-> [s \in Sources |-> 0]]
  /\ reply = [c \in Clients |-> NIL]
  /\ mode = "select" /\ cur = NIL /\ stack = <<>>
  /\ due = {} /\ testing = {} /\ heard = {} /\ ready = FALSE
  /\ saved = Database

-----------------------------------------------------------------------------
(* The world outside the server: editors and the tools it has started *)

Edit(s) ==
  /\ disk[s] < MaxVersion
  /\ disk' = [disk EXCEPT ![s] = @ + 1]
  /\ UNCHANGED <<seen, fileVars, modVars, CurrentDate, VerifyDate, PendingDate,
                 ToBroadcast, jobVars, clientVars, loopVars, saved>>

\* The tool of job j reads its inputs.
ToolRead(j) ==
  /\ job[j] # NIL /\ out[j] = NIL
  /\ out' = [out EXCEPT ![j] = Content(job[j].file, OnDisk)]
  /\ UNCHANGED <<disk, seen, fileVars, modVars, CurrentDate, VerifyDate,
                 PendingDate, ToBroadcast, job, killed, clientVars, loopVars, saved>>

\* Faulty: the select loop may block although there is something to do.
Wake_Lost == UNCHANGED ready
\* IsAny_ReadyServerAction: the next iteration runs a server action.
Wake == ready' = TRUE

-----------------------------------------------------------------------------
(* One source is stat'ed: the part of Update_SrcFilHdr common to its uses *)

Changed(s) == disk[s] # seen[s] \/ ModDate[s] = 0
NewStatus(s) == IF disk[s] \in Absent THEN STAT_NoFile ELSE STAT_OK

\* Set_ModDate takes a new date when the file changed.
StatSource(s) ==
  LET date == IF Changed(s) THEN CurrentDate + 1 ELSE CurrentDate
  IN /\ CurrentDate' = date
     /\ ModDate' = IF Changed(s) THEN [ModDate EXCEPT ![s] = date] ELSE ModDate
     /\ seen' = [seen EXCEPT ![s] = disk[s]]
     /\ FileVerify' = [FileVerify EXCEPT ![s] = date]
     /\ Wake

-----------------------------------------------------------------------------
(* Messages.  The select loop reads at most one message of each client in   *)
(* an iteration, and inotify events before them.                            *)

Selecting == mode = "select" /\ testing = {}
Hear(c) == Selecting /\ c \notin heard /\ heard' = heard \cup {c}
Idle(c) == want[c] = NIL

\* Local_Test_All: everything must be verified again, starting with the
\* targets of the requests under way.
TestAll(c) ==
  /\ VerifyLevel >= 1 /\ Idle(c) /\ c \notin tested /\ Hear(c)
  /\ CurrentDate' = CurrentDate + 1 /\ VerifyDate' = CurrentDate + 1
  /\ tested' = tested \cup {c} /\ testDisk' = [testDisk EXCEPT ![c] = disk]
  /\ reply' = [reply EXCEPT ![c] = NIL]
  /\ testing' = {d \in Clients : want[d] # NIL}
  /\ UNCHANGED <<disk, seen, fileVars, modVars, PendingDate, ToBroadcast, jobVars,
                 want, todo, rest, interrupted, mode, cur, stack, due, ready, saved>>

\* Local_Get_OdinFile.
Request(c, f) ==
  /\ Idle(c) /\ (VerifyLevel = 0 \/ c \in tested) /\ Hear(c)
  /\ want' = [want EXCEPT ![c] = f] /\ reply' = [reply EXCEPT ![c] = NIL]
  /\ tested' = IF VerifyLevel = 2 THEN tested \ {c} ELSE tested
  /\ Wake
  /\ UNCHANGED <<disk, seen, fileVars, modVars, CurrentDate, VerifyDate,
                 PendingDate, ToBroadcast, jobVars, todo, rest, interrupted,
                 testDisk, mode, cur, stack, due, testing, saved>>

\* Local_Test of a file inotify reports: the change is broadcast at once.
Test(s) ==
  LET B == Broadcast({s}, Status)
  IN /\ VerifyLevel = 1 /\ Selecting /\ heard = {}
     /\ ModDate[s] # 0 /\ disk[s] # seen[s]
     /\ StatSource(s)
     /\ Status' = [ClrStatus(B, Status) EXCEPT ![s] = NewStatus(s)]
     /\ DepStatus' = ClrDep(B, Status, DepStatus)
     /\ job' = Cancel(B, Status, job)
     /\ UNCHANGED <<disk, data, ConfirmDate, ErrStatus, DepModDate, VerifyDate,
                    PendingDate, ToBroadcast, out, killed, clientVars, mode, cur,
                    stack, due, testing, heard, saved>>

\* Local_Do_Interrupt(true): ctrl-C kills the client's jobs.
Interrupt(c) ==
  /\ c \in MayInterrupt /\ want[c] # NIL /\ c \notin interrupted /\ Hear(c)
  /\ interrupted' = interrupted \cup {c} /\ Wake
  /\ killed' = killed \cup {j \in JobIDs : job[j] # NIL /\ job[j].client = c}
  /\ UNCHANGED <<disk, seen, fileVars, modVars, CurrentDate, VerifyDate,
                 PendingDate, ToBroadcast, job, out, want, todo, rest, tested,
                 testDisk, reply, mode, cur, stack, due, testing, saved>>

-----------------------------------------------------------------------------
(* Local_Job_Done: a tool has ended *)

\* Faulty: the status of a tool that ends without a report is not set.
ExecStatus_Uninit == [nofile |-> STAT_NoFile, error |-> STAT_Error,
                      warning |-> STAT_Warning, ok |-> STAT_Unknown - 1]
\* Get_ExecStatus: the status a tool reports for its output.
ExecStatus == [nofile |-> STAT_NoFile, error |-> STAT_Error,
               warning |-> STAT_Warning, ok |-> STAT_OK]

\* Local_Do_Interrupt(false): no effect on a client without a request.
DoInterrupt(c) == interrupted' = IF want[c] # NIL THEN interrupted \cup {c}
                                                 ELSE interrupted

DelJob(J) ==
  /\ job' = [j \in JobIDs |-> IF j \in J THEN NIL ELSE job[j]]
  /\ out' = [j \in JobIDs |-> IF j \in J THEN NIL ELSE out[j]]
  /\ killed' = killed \ J

\* The tool was killed or failed: its output is unknown, the request of its
\* client is interrupted.
AbortJob(j) ==
  LET f == job[j].file  c == job[j].client
  IN /\ j \in killed \/ "abort" \in Outcomes
     /\ Status' = [Status EXCEPT ![f] = STAT_Unknown]
     /\ DoInterrupt(c)
     /\ UNCHANGED <<FileVerify, modVars, CurrentDate>>

\* Update_File compares the new output with the one in the cache.
Differs(f, new) == ModDate[f] = 0 \/ data[f] # new

\* Faulty: that the job was canceled is forgotten.
DoneStatus_Kept(j, st) == st
\* The output of a canceled job was made from inputs that have changed.
DoneStatus(j, st) == IF job[j].canceled THEN STAT_Unknown ELSE st

\* Do_Update and Update_File: the output replaces the old one only when it
\* differs; a canceled job leaves its file unknown.
FinishJob(j, outcome) ==
  LET f == job[j].file  c == job[j].client
      new == IF outcome = "nofile" THEN NIL ELSE out[j]
      st == Min({DepStatus[f], ExecStatus[outcome]})
      renamed == new # NIL /\ Differs(f, new)
      date == IF renamed \/ ModDate[f] = 0 THEN CurrentDate + 1 ELSE CurrentDate
  IN /\ out[j] # NIL
     /\ data' = [data EXCEPT ![f] = new]
     /\ CurrentDate' = date
     /\ ModDate' = IF date # CurrentDate THEN [ModDate EXCEPT ![f] = date] ELSE ModDate
     /\ ConfirmDate' = [ConfirmDate EXCEPT ![f] = Max({@, DepModDate[f]})]
     /\ ErrStatus' = [ErrStatus EXCEPT ![f] = ExecStatus[outcome]]
     /\ Status' = [Status EXCEPT ![f] = DoneStatus(j, st)]
     /\ FileVerify' = [FileVerify EXCEPT ![f] = IF renamed THEN date ELSE CurrentDate]
     /\ IF outcome = "error" /\ ~KeepGoing THEN DoInterrupt(c)
                                           ELSE UNCHANGED interrupted
     /\ UNCHANGED DepModDate

Job_Done(j, outcome) ==
  /\ job[j] # NIL /\ Hear(job[j].client)
  /\ IF outcome = "abort" THEN AbortJob(j) ELSE FinishJob(j, outcome)
  /\ DepStatus' = [DepStatus EXCEPT ![job[j].file] = STAT_Unknown]
  /\ DelJob({j})
  /\ Wake
  /\ UNCHANGED <<disk, seen, VerifyDate, PendingDate, ToBroadcast, want, todo,
                 rest, tested, testDisk, reply, mode, cur, stack, due, testing,
                 saved>>

\* Purge_Clients: the client is gone; its jobs are taken as aborted.  It runs
\* after the last message of the iteration.
Disconnect(c) ==
  LET mine == {j \in JobIDs : job[j] # NIL /\ job[j].client = c}
      files == {job[j].file : j \in mine}
  IN /\ c \in MayDie /\ Selecting /\ c \notin heard
     /\ want[c] # NIL \/ c \in tested \/ reply[c] # NIL
     /\ heard' = Clients
     /\ want' = [want EXCEPT ![c] = NIL] /\ reply' = [reply EXCEPT ![c] = NIL]
     /\ todo' = [todo EXCEPT ![c] = {}] /\ rest' = [rest EXCEPT ![c] = {}]
     /\ interrupted' = interrupted \ {c} /\ tested' = tested \ {c}
     /\ testDisk' = [testDisk EXCEPT ![c] = [s \in Sources |-> 0]]
     /\ Status' = [f \in Files |-> IF f \in files THEN STAT_Unknown ELSE Status[f]]
     /\ DepStatus' = [f \in Derived |-> IF f \in files THEN STAT_Unknown ELSE DepStatus[f]]
     /\ DelJob(mine)
     /\ ready' = (ready \/ mine # {})
     /\ UNCHANGED <<disk, seen, FileVerify, modVars, CurrentDate, VerifyDate,
                    PendingDate, ToBroadcast, mode, cur, stack, due, testing, saved>>

-----------------------------------------------------------------------------
(* ServerAction: one pass over the clients with a request *)

EndIteration ==
  /\ Selecting /\ (heard # {} \/ ready)
  /\ mode' = "serve" /\ ready' = FALSE
  /\ due' = IF ready THEN {c \in Clients : want[c] # NIL} ELSE {}
  /\ UNCHANGED <<disk, seen, fileVars, modVars, CurrentDate, VerifyDate,
                 PendingDate, ToBroadcast, jobVars, clientVars, cur, stack,
                 testing, heard, saved>>

\* End_Get_OdinFile.
EndGet(c, status) ==
  /\ want' = [want EXCEPT ![c] = NIL]
  /\ todo' = [todo EXCEPT ![c] = {}] /\ rest' = [rest EXCEPT ![c] = {}]
  /\ interrupted' = interrupted \ {c}
  /\ reply' = [reply EXCEPT ![c] = [file |-> want[c], status |-> status]]
  /\ UNCHANGED <<tested, testDisk>>

\* An interrupted request ends when the last of its jobs has.
ServeInterrupted(c) ==
  /\ mode = "serve" /\ c \in due /\ c \in interrupted
  /\ due' = due \ {c}
  /\ IF NumJobs(c) = 0 THEN EndGet(c, STAT_Unknown) ELSE UNCHANGED clientVars
  /\ UNCHANGED <<disk, seen, fileVars, modVars, CurrentDate, VerifyDate,
                 PendingDate, ToBroadcast, jobVars, mode, cur, stack, testing,
                 heard, ready, saved>>

\* Part of the ToDo list is still to be launched: MaxJobs jobs were running.
ResumeLaunch(c) ==
  /\ mode = "serve" /\ c \in due /\ c \notin interrupted /\ rest[c] # {}
  /\ mode' = "launch" /\ cur' = c /\ due' = due \ {c}
  /\ UNCHANGED <<disk, seen, fileVars, modVars, CurrentDate, VerifyDate,
                 PendingDate, ToBroadcast, jobVars, clientVars, stack, testing,
                 heard, ready, saved>>

\* Push_AllReqs begins: called by ServerAction, or by Local_Test_All after
\* Ret_ToDo.
StartPush(c) ==
  /\ \/ /\ mode = "serve" /\ c \in due /\ c \notin interrupted /\ rest[c] = {}
        /\ due' = due \ {c} /\ UNCHANGED <<todo, rest>>
     \/ /\ mode = "select" /\ c \in testing
        /\ todo' = [todo EXCEPT ![c] = {}] /\ rest' = [rest EXCEPT ![c] = {}]
        /\ UNCHANGED due
  /\ mode' = "push" /\ cur' = c
  /\ CurrentDate' = CurrentDate + 1 /\ PendingDate' = CurrentDate + 1
  /\ UNCHANGED <<disk, seen, fileVars, modVars, VerifyDate, ToBroadcast, jobVars,
                 want, interrupted, tested, testDisk, reply, stack, testing,
                 heard, ready, saved>>

-----------------------------------------------------------------------------
(* GetReqs: depth first from the client's target.  The stack holds the      *)
(* files GetNotUpToDateFile is running on.                                  *)

Top == stack[Len(stack)]
Pop == stack' = SubSeq(stack, 1, Len(stack) - 1)
Visiting == mode = "push" /\ stack # <<>>
Dispatched(f) == Status[f] \in {STAT_Ready, STAT_Busy}
PushToDo(f) == todo' = [todo EXCEPT ![cur] = @ \cup {f}]

EnterTarget ==
  /\ mode = "push" /\ stack = <<>> /\ ToBroadcast = {} /\ ~IsUpToDate(want[cur])
  /\ stack' = <<want[cur]>>
  /\ UNCHANGED <<disk, seen, fileVars, modVars, CurrentDate, VerifyDate,
                 PendingDate, ToBroadcast, jobVars, clientVars, mode, cur, due,
                 testing, heard, ready, saved>>

Descend(i) ==
  /\ Visiting /\ Top \in Derived /\ ~Dispatched(Top)
  /\ i \in Inputs[Top] /\ ~IsUpToDate(i)
  /\ stack' = Append(stack, i)
  /\ UNCHANGED <<disk, seen, fileVars, modVars, CurrentDate, VerifyDate,
                 PendingDate, ToBroadcast, jobVars, clientVars, mode, cur, due,
                 testing, heard, ready, saved>>

\* Faulty: a change that leaves the status as it was is not broadcast.
Modified_Status(s) == ModDate[s] # 0 /\ Status[s] \notin {STAT_Unknown, NewStatus(s)}
\* The dependents of s must hear of the stat.
Modified(s) == /\ ModDate[s] # 0
               /\ Changed(s) \/ Status[s] \notin {STAT_Unknown, NewStatus(s)}

\* Update_SrcFilHdr(FilHdr, true): the change is broadcast after the descent.
UpdateSource ==
  /\ Visiting /\ Top \in Sources
  /\ StatSource(Top)
  /\ Status' = [Status EXCEPT ![Top] = NewStatus(Top)]
  /\ ToBroadcast' = IF Modified(Top) THEN ToBroadcast \cup {Top} ELSE ToBroadcast
  /\ Pop
  /\ UNCHANGED <<disk, data, DepStatus, ConfirmDate, ErrStatus, DepModDate,
                 VerifyDate, PendingDate, jobVars, clientVars, mode, cur, due,
                 testing, heard, saved>>

\* A file that is to be built, or is being built, is not looked into.  The
\* server dies in FORBIDDEN(DepStatus <= STAT_Error) when its header was read
\* back from the database.
RefreshDispatched ==
  /\ Visiting /\ Dispatched(Top) /\ DepStatus[Top] > STAT_Error
  /\ FileVerify' = [FileVerify EXCEPT ![Top] = CurrentDate]
  /\ PushToDo(Top) /\ Pop
  /\ UNCHANGED <<disk, seen, Status, DepStatus, modVars, CurrentDate, VerifyDate,
                 PendingDate, ToBroadcast, jobVars, want, rest, interrupted,
                 tested, testDisk, reply, mode, cur, due, testing, heard, ready,
                 saved>>

\* All inputs are up to date: what GetNotUpToDateFile makes of their statuses
\* and modification dates.
Compute ==
  LET f == Top
      min == Get_ToolStatus(Min({STAT_OK} \cup {Status[i] : i \in Inputs[f]}))
      son == Max({1} \cup {ModDate[i] : i \in Inputs[f]})
  IN /\ Visiting /\ f \in Derived /\ ~Dispatched(f)
     /\ \A i \in Inputs[f] : IsUpToDate(i)
     /\ FileVerify' = [FileVerify EXCEPT ![f] = CurrentDate]
     /\ \/ /\ min < STAT_Error
           /\ Status' = [Status EXCEPT ![f] = min]
           /\ DepStatus' = [DepStatus EXCEPT ![f] = STAT_Unknown]
           /\ UNCHANGED <<ConfirmDate, DepModDate, todo>>
        \/ /\ min > STAT_Error /\ ModDate[f] > 0 /\ ConfirmDate[f] >= son
           /\ Status' = [Status EXCEPT ![f] = Min({min, ErrStatus[f]})]
           /\ DepStatus' = [DepStatus EXCEPT ![f] = STAT_Unknown]
           /\ UNCHANGED <<ConfirmDate, DepModDate, todo>>
        \/ /\ min > STAT_Error /\ ~(ModDate[f] > 0 /\ ConfirmDate[f] >= son)
           /\ Status' = [Status EXCEPT ![f] = STAT_Ready]
           /\ DepStatus' = [DepStatus EXCEPT ![f] = min]
           /\ DepModDate' = [DepModDate EXCEPT ![f] = son]
           /\ PushToDo(f)
           /\ UNCHANGED ConfirmDate
     /\ Pop
     /\ UNCHANGED <<disk, seen, data, ModDate, ErrStatus, CurrentDate, VerifyDate,
                    PendingDate, ToBroadcast, jobVars, want, rest, interrupted,
                    tested, testDisk, reply, mode, cur, due, testing, heard,
                    ready, saved>>

\* Do_ToBroadcast, after each descent from the target.
FlushBroadcast ==
  LET B == Broadcast(ToBroadcast, Status)
  IN /\ mode = "push" /\ stack = <<>> /\ ToBroadcast # {}
     /\ Status' = ClrStatus(B, Status)
     /\ DepStatus' = ClrDep(B, Status, DepStatus)
     /\ job' = Cancel(B, Status, job)
     /\ ToBroadcast' = {}
     /\ UNCHANGED <<disk, seen, FileVerify, modVars, CurrentDate, VerifyDate,
                    PendingDate, out, killed, clientVars, loopVars, saved>>

EndPush ==
  /\ mode = "push" /\ stack = <<>> /\ ToBroadcast = {} /\ IsUpToDate(want[cur])
  /\ rest' = [rest EXCEPT ![cur] = todo[cur]]
  /\ mode' = IF cur \in testing THEN "select" ELSE "launch"
  /\ cur' = IF cur \in testing THEN NIL ELSE cur
  /\ testing' = testing \ {cur}
  /\ UNCHANGED <<disk, seen, fileVars, modVars, CurrentDate, VerifyDate,
                 PendingDate, ToBroadcast, jobVars, want, todo, interrupted,
                 tested, testDisk, reply, stack, due, heard, ready, saved>>

-----------------------------------------------------------------------------
(* LaunchSomeToDos, Exec, and the end of ServerAction *)

Launchable(c) == {f \in rest[c] : Status[f] = STAT_Ready}

\* Exec: the file's tool starts in the first free JOB directory.
Exec(f, j) ==
  /\ mode = "launch" /\ f \in Launchable(cur) /\ NumJobs(cur) # MaxJobs
  /\ job[j] = NIL /\ \A k \in JobIDs : job[k] = NIL => j <= k
  /\ Status' = [Status EXCEPT ![f] = STAT_Busy]
  /\ FileVerify' = [FileVerify EXCEPT ![f] = CurrentDate]
  /\ job' = [job EXCEPT ![j] = [client |-> cur, file |-> f, canceled |-> FALSE]]
  /\ UNCHANGED <<disk, seen, DepStatus, modVars, CurrentDate, VerifyDate,
                 PendingDate, ToBroadcast, out, killed, clientVars, loopVars, saved>>

\* Every job that could be started has been.  The request is complete when
\* nothing is left to launch, nothing runs and the target is done.
EndLaunch ==
  /\ mode = "launch"
  /\ mode' = "serve" /\ cur' = NIL
  /\ IF Launchable(cur) # {}
     THEN NumJobs(cur) = MaxJobs /\ UNCHANGED clientVars
     ELSE IF NumJobs(cur) = 0 /\ IsAllDone(want[cur])
          THEN EndGet(cur, Status[want[cur]])
          ELSE /\ rest' = [rest EXCEPT ![cur] = {}]
               /\ UNCHANGED <<want, todo, interrupted, tested, testDisk, reply>>
  /\ UNCHANGED <<disk, seen, fileVars, modVars, CurrentDate, VerifyDate,
                 PendingDate, ToBroadcast, jobVars, stack, due, testing, heard,
                 ready, saved>>

\* Faulty: the database is cleaned up with requests under way.
ServerIdle_Always == TRUE
\* IsAny_ServerAction is false.
ServerIdle == (\A c \in Clients : want[c] = NIL) /\ (\A j \in JobIDs : job[j] = NIL)

\* CleanUp when no client has a request or a job: the database is written and
\* then the headers in core that are still ready are cleared (DepStatus is
\* unknown in one that was read back after a restart and not yet visited).
FinishPass ==
  /\ mode = "serve" /\ due = {}
  /\ mode' = "select" /\ heard' = {}
  /\ IF ServerIdle
     THEN LET left == {f \in Derived : Status[f] = STAT_Ready /\ DepStatus[f] # STAT_Unknown}
          IN /\ saved' = IF MayCrash THEN Database ELSE saved
             /\ Status' = [f \in Files |-> IF f \in left THEN STAT_Unknown ELSE Status[f]]
             /\ DepStatus' = [f \in Derived |-> IF f \in left THEN STAT_Unknown ELSE DepStatus[f]]
     ELSE UNCHANGED <<saved, Status, DepStatus>>
  /\ UNCHANGED <<disk, seen, FileVerify, modVars, CurrentDate, VerifyDate,
                 PendingDate, ToBroadcast, jobVars, clientVars, cur, stack, due,
                 testing, ready>>

-----------------------------------------------------------------------------
\* The server is killed and started again: Init_Info reads what was written.
Restart ==
  /\ MayCrash
  /\ seen' = saved.seen /\ Status' = saved.Status /\ ModDate' = saved.ModDate
  /\ ConfirmDate' = saved.ConfirmDate /\ FileVerify' = saved.FileVerify
  /\ ErrStatus' = saved.ErrStatus
  /\ CurrentDate' = saved.CurrentDate /\ VerifyDate' = saved.VerifyDate
  /\ DepStatus' = [f \in Derived |-> STAT_Unknown]
  /\ DepModDate' = [f \in Derived |-> 0]
  /\ PendingDate' = 0 /\ ToBroadcast' = {}
  /\ job' = [j \in JobIDs |-> NIL] /\ out' = [j \in JobIDs |-> NIL] /\ killed' = {}
  /\ want' = [c \in Clients |-> NIL]
  /\ todo' = [c \in Clients |-> {}] /\ rest' = [c \in Clients |-> {}]
  /\ interrupted' = {} /\ tested' = {}
  /\ testDisk' = [c \in Clients |-> [s \in Sources |-> 0]]
  /\ reply' = [c \in Clients |-> NIL]
  /\ mode' = "select" /\ cur' = NIL /\ stack' = <<>>
  /\ due' = {} /\ testing' = {} /\ heard' = {} /\ ready' = FALSE
  /\ UNCHANGED <<disk, data, saved>>

-----------------------------------------------------------------------------
Pass == \/ EndIteration \/ EnterTarget \/ UpdateSource \/ RefreshDispatched
        \/ Compute \/ FlushBroadcast \/ EndPush \/ EndLaunch \/ FinishPass
        \/ \E c \in Clients : ServeInterrupted(c) \/ ResumeLaunch(c) \/ StartPush(c)
        \/ \E i \in Files : Descend(i)
        \/ \E f \in Derived, j \in JobIDs : Exec(f, j)

JobEnds(j) == \E outcome \in Outcomes \cup {"abort"} : Job_Done(j, outcome)

User == \/ \E s \in Sources : Edit(s) \/ Test(s)
        \/ \E c \in Clients : TestAll(c) \/ Interrupt(c) \/ Disconnect(c)
        \/ \E c \in Clients, f \in Derived : Request(c, f)
        \/ Restart

Next == Pass \/ User \/ \E j \in JobIDs : ToolRead(j) \/ JobEnds(j)

\* The server's loop keeps running, a started tool reads its inputs and ends,
\* and each iteration of the select loop reads every socket with a message.
Fairness == /\ WF_vars(Pass)
            /\ \A j \in JobIDs : WF_vars(ToolRead(j)) /\ SF_vars(JobEnds(j))

Spec == Init /\ [][Next]_vars
FairSpec == Spec /\ Fairness

-----------------------------------------------------------------------------
(* Properties *)

Active == {j \in JobIDs : job[j] # NIL}

\* The files f is made from, directly or not, and f.
Needs(f) == {i \in Files : \A X \in SUBSET Files :
               (f \in X /\ \A g \in X \cap Derived : Inputs[g] \subseteq X) => i \in X}

\* Every variable keeps its type.
TypeOK ==
  /\ disk \in [Sources -> Nat] /\ seen \in [Sources -> Nat]
  /\ DOMAIN data = Derived
  /\ Status \in [Files -> Statuses] /\ ErrStatus \in [Derived -> Statuses]
  /\ DepStatus \in [Derived -> Statuses]
  /\ ModDate \in [Files -> Nat] /\ FileVerify \in [Files -> Nat]
  /\ ConfirmDate \in [Derived -> Nat] /\ DepModDate \in [Derived -> Nat]
  /\ CurrentDate \in Nat /\ VerifyDate \in Nat /\ PendingDate \in Nat
  /\ ToBroadcast \subseteq Sources
  /\ job \in [JobIDs -> Jobs \cup {NIL}]
  /\ DOMAIN out = JobIDs /\ killed \subseteq JobIDs
  /\ want \in [Clients -> Derived \cup {NIL}]
  /\ todo \in [Clients -> SUBSET Derived] /\ rest \in [Clients -> SUBSET Derived]
  /\ interrupted \subseteq Clients /\ tested \subseteq Clients
  /\ mode \in {"select", "serve", "push", "launch"}
  /\ cur \in Clients \cup {NIL} /\ stack \in Seq(Files)
  /\ due \subseteq Clients /\ testing \subseteq Clients /\ heard \subseteq Clients
  /\ ready \in BOOLEAN

\* A file is busy exactly while one job builds it: otherwise Local_Job_Done
\* dies in FORBIDDEN(Status != STAT_Busy), or Clr_Status in "Could not find
\* canceled job".
BusyHasOneJob ==
  /\ \A j \in Active : Status[job[j].file] = STAT_Busy
  /\ \A f \in Derived : Status[f] = STAT_Busy => \E j \in Active : job[j].file = f
  /\ \A j, k \in Active : job[j].file = job[k].file => j = k

\* A client with a job has a request: End_Get_OdinFile is not reached while
\* jobs of the client run (FORBIDDEN(Client_Job(CurrentClient) != NIL)).
JobHasRequest == \A j \in Active : want[job[j].client] # NIL

\* What a job is about to be, or is being, run on stays usable: outside the
\* update pass the inputs of a ready file, and of a busy one whose job is not
\* canceled, are done without error and not newer than the date the output will be
\* confirmed with.
Canceled(f) == \E j \in Active : job[j].file = f /\ job[j].canceled
InputsUsable ==
  mode # "push" =>
    \A f \in Derived : Dispatched(f) /\ ~Canceled(f) =>
      \A i \in Inputs[f] : Status[i] > STAT_Error /\ ModDate[i] <= DepModDate[f]

\* The DepStatus of a ready or busy file is usable where it is used:
\* GetNotUpToDateFile, Exec and Local_Job_Done die in
\* FORBIDDEN(DepStatus <= STAT_Error) otherwise.
DepOK(f) == DepStatus[f] > STAT_Error
DispatchedDepOK ==
  /\ Visiting /\ Dispatched(Top) => DepOK(Top)
  /\ mode = "launch" => \A f \in Launchable(cur) : DepOK(f)
  /\ \A j \in Active : DepOK(job[j].file)

\* A derived file that is done without error holds what its tool makes of the
\* recorded contents of its inputs, once every change on the disk was seen and
\* broadcast.
DoneIsFresh ==
  \A f \in Derived :
    (/\ Status[f] > STAT_Error
     /\ \A s \in Needs(f) \cap Sources : disk[s] = seen[s] /\ s \notin ToBroadcast)
    => data[f] = Content(f, Recorded)

\* No lost wakeup: while a client waits and no job runs, the select loop has a
\* server action to do (IsAny_ReadyServerAction) and will not block.
NoStall == ((\E c \in Clients : want[c] # NIL) /\ Active = {} /\ Selecting) => ready

\* A successful answer is made from sources no older than they were on the disk
\* when the client sent the Test_All of its command (or session).
FreshReply ==
  \A c \in Clients : (reply[c] # NIL /\ reply[c].status > STAT_Error) =>
    \A f \in (Needs(reply[c].file) \cap Derived) \ Stable : data[f] # NIL =>
      \A s \in Inputs[f] \cap Sources : data[f][s] >= testDisk[c][s]

\* Every request is answered.
RequestsEnd == \A c \in Clients : want[c] # NIL ~> want[c] = NIL

=============================================================================
