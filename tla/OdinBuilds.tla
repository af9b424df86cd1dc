----------------------------- MODULE OdinBuilds -----------------------------
(***************************************************************************)
(* The builds of one Odin client (if-build.c, if-rbs.c, if-system.c) and   *)
(* the remote build servers it starts (rbs.c).  The Odin server sends      *)
(* builds and aborts; the client runs each build in a slot, as a child     *)
(* process or on a remote host, and answers each with one Job_Done.        *)
(*                                                                         *)
(* A job is the pair of its JobID, which names a directory and is used     *)
(* again, and of a number of its own, n, which no code sees: it tells the  *)
(* builds of one JobID apart in the properties.                            *)
(***************************************************************************)
EXTENDS Integers, Sequences, FiniteSets

CONSTANTS
  Hosts,        \* names of remote hosts in BuildHosts
  Local,        \* Host = NIL: the build runs as a child of the client
  Layouts,      \* the BuildHosts a client may start with, one host per slot
  MaxBuilds,    \* $MaxBuilds: number of slots, and the server's MaxJobs
  JobIDs,       \* JOB directories of the server
  Pids,         \* process numbers the client's children may get
  BoolBytes,    \* sizeof(bool) in the client
  MaxJobNum     \* bound: builds the server sends in a behavior

ASSUME BuildsAssumption ==
  /\ MaxBuilds \in Nat \ {0} /\ Local \notin Hosts
  /\ Layouts \subseteq [1..MaxBuilds -> Hosts \cup {Local}]
  /\ JobIDs \subseteq 1..255 /\ Pids \subseteq Nat \ {0}
  /\ BoolBytes \in 1..4 /\ MaxJobNum \in Nat

\* loop tells a host from the other places the client can be at.
ASSUME HostsAssumption == Hosts \cap {"select", "reap", "dead"} = {}

VARIABLES
  issued,     \* the server: the number of the build of each JobID, or 0
  sent,       \* the server: number of builds sent
  aborted,    \* the server: the builds it has sent Abort_Build for
  toClient,   \* messages from the server to the client
  toServer,   \* Job_Done messages from the client to the server
  slots,      \* the client: the list of tps_Build
  proc,       \* the client's children
  sigChild,   \* the client: SigChild
  loop,       \* the client: where IPC_Get_Commands is
  fd,         \* the client: the hosts it has a connection to
  rbsPid,     \* the client: RBS_Id of each host, 0 when there is none
  remote,     \* the remote build server at the other end of the connection
  toHost,     \* messages on the connection to the host
  bytes,      \* bytes on the connection from the host
  running,    \* the remote build server: its builds
  orphans,    \* builds whose remote build server ended: their tools may run on
  hit         \* the builds SIGINT was sent to

serverVars == <<issued, sent, aborted>>
clientVars == <<slots, proc, sigChild, loop, fd, rbsPid>>
hostVars == <<remote, toHost, bytes, running, orphans>>
vars == <<serverVars, toClient, toServer, clientVars, hostVars, hit>>

Nums == 1..MaxJobNum
Jobs == [id : JobIDs, n : Nums]
FreeSlot == [id |-> 0, n |-> 0]
Slots == 1..MaxBuilds

Init ==
  /\ issued = [j \in JobIDs |-> 0] /\ sent = 0 /\ aborted = {}
  /\ toClient = <<>> /\ toServer = <<>>
  /\ \E layout \in Layouts :
       slots = [i \in Slots |-> [host |-> layout[i], job |-> FreeSlot, pid |-> 0]]
  /\ proc = [p \in Pids |-> [state |-> "none", n |-> 0]]
  /\ sigChild = FALSE /\ loop = "select"
  /\ fd = {} /\ rbsPid = [h \in Hosts |-> 0]
  /\ remote = [h \in Hosts |-> "none"]
  /\ toHost = [h \in Hosts |-> <<>>] /\ bytes = [h \in Hosts |-> <<>>]
  /\ running = [h \in Hosts |-> {}] /\ orphans = {} /\ hit = {}

FreePids == {p \in Pids : proc[p].state = "none"}
Builds(queue) == {i \in DOMAIN queue : queue[i].type = "build"}

-----------------------------------------------------------------------------
(* The Odin server: Exec, Do_Interrupt and Local_Job_Done of OdinEngine.     *)
(* A JobID that is free is used again in any order.  Pids bounds the children *)
(* of the client: a build is sent when one is left for it.                   *)

SendBuild(j) ==
  /\ issued[j] = 0 /\ (sent = 0 => \A k \in JobIDs : j <= k)
  /\ Cardinality({k \in JobIDs : issued[k] # 0}) < MaxBuilds
  /\ sent < MaxJobNum /\ Cardinality(FreePids) > Cardinality(Builds(toClient))
  /\ sent' = sent + 1 /\ issued' = [issued EXCEPT ![j] = sent + 1]
  /\ toClient' = Append(toClient, [type |-> "build", job |-> [id |-> j, n |-> sent + 1]])
  /\ UNCHANGED <<aborted, toServer, clientVars, hostVars, hit>>

SendAbort(j) ==
  /\ issued[j] # 0 /\ issued[j] \notin aborted
  /\ aborted' = aborted \cup {issued[j]}
  /\ toClient' = Append(toClient, [type |-> "abort", job |-> [id |-> j, n |-> issued[j]]])
  /\ UNCHANGED <<issued, sent, toServer, clientVars, hostVars, hit>>

ReadAnswer ==
  /\ toServer # <<>>
  /\ issued' = [issued EXCEPT ![Head(toServer).id] = 0]
  /\ toServer' = Tail(toServer)
  /\ UNCHANGED <<sent, aborted, toClient, clientVars, hostVars, hit>>

-----------------------------------------------------------------------------
(* Slots of the client *)

JobID_Build(id) == {i \in Slots : slots[i].job.id = id}
BuildID_Build(p) == {i \in Slots : slots[i].pid = p}

\* Faulty: only the JobID, only the BuildID, only the job is reset.
Released_ID(b) == [b EXCEPT !.job.id = 0, !.pid = 0]
Released_Job(b) == [b EXCEPT !.pid = 0]
Released_Pid(b) == [b EXCEPT !.job = FreeSlot]
Released(b) == [host |-> b.host, job |-> FreeSlot, pid |-> 0]

\* S in the order of the list.
Orders(S) == {q \in [1..Cardinality(S) -> S] : \A k, m \in DOMAIN q : k < m => q[k] < q[m]}

\* Build_Done of the slots S of the list, in its order.
BuildsDone(S, list) ==
  /\ \E q \in Orders(S) : toServer' = toServer \o [k \in DOMAIN q |-> list[q[k]].job]
  /\ slots' = [i \in Slots |-> IF i \in S THEN Released(list[i]) ELSE list[i]]

\* Faulty: the builds of the other hosts, the free slots are canceled too.
Cancel_Builds_All(h, list) == {i \in Slots : list[i].job.id # 0}
Cancel_Builds_Free(h, list) == {i \in Slots : list[i].host = h}
Cancel_Builds(h, list) == {i \in Slots : list[i].host = h /\ list[i].job.id # 0}

\* RBS_Close on a host with a connection.
RBS_Close(h, list) == BuildsDone(Cancel_Builds(h, list), list) /\ fd' = fd \ {h}

\* FORBIDDEN: the client ends in an assertion.
Dies == loop' = "dead" /\ UNCHANGED <<slots, toServer>>

-----------------------------------------------------------------------------
(* Messages of the server: Local_Do_Build, Local_Abort_Build *)

Message(type) == loop = "select" /\ toClient # <<>> /\ Head(toClient).type = type
Received == Head(toClient).job

\* The first slot without a job.  With none, the loop runs past MaxBuilds.
NextSlot == CHOOSE i \in JobID_Build(0) : \A k \in JobID_Build(0) : i <= k
SlotOK == JobID_Build(0) # {} /\ slots[NextSlot].pid = 0
Taken(p) == [slots EXCEPT ![NextSlot] = [host |-> @.host, job |-> Received, pid |-> p]]
Fork(p, n) == p \in FreePids /\ proc' = [proc EXCEPT ![p] = [state |-> "runs", n |-> n]]

\* Local_Do_Build on a local slot, or its assertions when no slot is free.
StartLocal(p) ==
  /\ Message("build") /\ toClient' = Tail(toClient)
  /\ IF SlotOK
     THEN /\ slots[NextSlot].host = Local
          /\ Fork(p, Received.n) /\ slots' = Taken(p) /\ UNCHANGED <<toServer, loop>>
     ELSE Dies /\ UNCHANGED proc
  /\ UNCHANGED <<serverVars, sigChild, fd, rbsPid, hostVars, hit>>

\* RBS_Do_Build without a connection: the host's server is started as a child
\* and connects.  The builds of a server before it are not its own.
StartHost(h, p) ==
  /\ Message("build") /\ SlotOK /\ slots[NextSlot].host = h /\ h \notin fd
  /\ toClient' = Tail(toClient)
  /\ Fork(p, 0) /\ rbsPid' = [rbsPid EXCEPT ![h] = p] /\ fd' = fd \cup {h}
  /\ remote' = [remote EXCEPT ![h] = "up"]
  /\ toHost' = [toHost EXCEPT ![h] = <<Head(toClient)>>]
  /\ bytes' = [bytes EXCEPT ![h] = <<>>] /\ running' = [running EXCEPT ![h] = {}]
  /\ slots' = Taken(0)
  /\ UNCHANGED <<serverVars, toServer, sigChild, loop, orphans, hit>>

\* RBS_Do_Build on a connection.  Writing to a server that is gone may seem to
\* work; when it does not the connection is closed, and this build is canceled
\* with the others of the host.
SendToHost(h) ==
  /\ Message("build") /\ SlotOK /\ slots[NextSlot].host = h /\ h \in fd
  /\ toClient' = Tail(toClient)
  /\ \/ /\ toHost' = [toHost EXCEPT ![h] = Append(@, Head(toClient))]
        /\ slots' = Taken(0) /\ UNCHANGED <<toServer, fd>>
     \/ remote[h] = "dead" /\ RBS_Close(h, Taken(0)) /\ UNCHANGED toHost
  /\ UNCHANGED <<serverVars, proc, sigChild, loop, rbsPid, remote, bytes, running,
                 orphans, hit>>

\* Local_Abort_Build: the build may have ended already.
AbortEnded ==
  /\ Message("abort") /\ JobID_Build(Received.id) = {}
  /\ toClient' = Tail(toClient)
  /\ UNCHANGED <<serverVars, toServer, clientVars, hostVars, hit>>

AbortLocal ==
  /\ Message("abort")
  /\ \E i \in JobID_Build(Received.id) :
       slots[i].host = Local /\ hit' = hit \cup {proc[slots[i].pid].n}
  /\ toClient' = Tail(toClient)
  /\ UNCHANGED <<serverVars, toServer, clientVars, hostVars>>

\* RBS_Abort_Build.
AbortRemote(h) ==
  /\ Message("abort")
  /\ \E i \in JobID_Build(Received.id) : slots[i].host = h
  /\ toClient' = Tail(toClient)
  /\ \/ toHost' = [toHost EXCEPT ![h] = Append(@, Head(toClient))]
        /\ UNCHANGED <<slots, toServer, fd>>
     \/ remote[h] = "dead" /\ RBS_Close(h, slots) /\ UNCHANGED toHost
  /\ UNCHANGED <<serverVars, proc, sigChild, loop, rbsPid, remote, bytes, running,
                 orphans, hit>>

-----------------------------------------------------------------------------
(* SIGCHLD: ChildAction *)

\* Is_ActiveBuild: a build on a remote host has no process of the client's.
Is_ActiveBuild == \E i \in Slots : slots[i].pid # 0
Zombies == {p \in Pids : proc[p].state = "zombie"}

ChildAction ==
  /\ loop = "select" /\ sigChild
  /\ sigChild' = FALSE /\ loop' = "reap"
  /\ UNCHANGED <<serverVars, toClient, toServer, slots, proc, fd, rbsPid, hostVars, hit>>

\* Faulty: one child is waited for per signal.
MoreChildren_One == FALSE
\* ChildAction calls SystemWait again.
MoreChildren == Is_ActiveBuild /\ Zombies # {}

ChildActionEnds ==
  /\ loop = "reap" /\ ~MoreChildren
  /\ loop' = "select"
  /\ UNCHANGED <<serverVars, toClient, toServer, slots, proc, sigChild, fd, rbsPid,
                 hostVars, hit>>

SystemWait(p) ==
  /\ loop = "reap" /\ Is_ActiveBuild /\ p \in Zombies
  /\ proc' = [proc EXCEPT ![p] = [state |-> "none", n |-> 0]]

\* The child was a remote build server: RBS_Done.
HostReaped(h, p) ==
  /\ SystemWait(p) /\ rbsPid[h] = p
  /\ rbsPid' = [rbsPid EXCEPT ![h] = 0]
  /\ IF h \in fd THEN RBS_Close(h, slots) ELSE UNCHANGED <<slots, toServer, fd>>
  /\ UNCHANGED <<serverVars, toClient, sigChild, loop, hostVars, hit>>

\* The child was a build, or the client knows nothing of it.
BuildReaped(p) ==
  /\ SystemWait(p) /\ \A h \in Hosts : rbsPid[h] # p
  /\ IF BuildID_Build(p) = {} THEN Dies
                              ELSE BuildsDone(BuildID_Build(p), slots) /\ UNCHANGED loop
  /\ UNCHANGED <<serverVars, toClient, sigChild, fd, rbsPid, hostVars, hit>>

-----------------------------------------------------------------------------
(* Answers of a remote build server: RBS_Get_Msg *)

IntBytes(n) == <<n, 0, 0, 0>>
AnswerBytes == Len(IntBytes(0)) + BoolBytes

\* The JobID in the first bytes; 0 stands for any number that is none.
ReadID(b) == IF SubSeq(b, 2, 4) = <<0, 0, 0>> THEN b[1] ELSE 0

AtHost(h) == loop = h \/ (loop = "select" /\ h \in fd)

\* IPC_Read blocks the client when the answer is incomplete.
GetAnswer(h) ==
  /\ AtHost(h) /\ bytes[h] # <<>>
  /\ IF Len(bytes[h]) < AnswerBytes
     THEN /\ remote[h] = "up" /\ loop = "select" /\ loop' = h
          /\ UNCHANGED <<bytes, slots, toServer>>
     ELSE /\ bytes' = [bytes EXCEPT ![h] = SubSeq(@, AnswerBytes + 1, Len(@))]
          /\ LET id == ReadID(bytes[h])
             IN IF id = 0 \/ JobID_Build(id) = {} THEN Dies
                ELSE BuildsDone(JobID_Build(id), slots) /\ loop' = "select"
  /\ UNCHANGED <<serverVars, toClient, proc, sigChild, fd, rbsPid, remote, toHost,
                 running, orphans, hit>>

\* End of file.
HostGone(h) ==
  /\ AtHost(h) /\ Len(bytes[h]) < AnswerBytes /\ remote[h] = "dead"
  /\ RBS_Close(h, slots) /\ loop' = "select"
  /\ UNCHANGED <<serverVars, toClient, proc, sigChild, rbsPid, hostVars, hit>>

-----------------------------------------------------------------------------
(* The remote build server of a host *)

HostMessage(h, type) ==
  /\ remote[h] = "up" /\ toHost[h] # <<>> /\ Head(toHost[h]).type = type
  /\ toHost' = [toHost EXCEPT ![h] = Tail(@)]

HostBuild(h) ==
  /\ HostMessage(h, "build")
  /\ running' = [running EXCEPT ![h] = @ \cup {Head(toHost[h]).job}]
  /\ UNCHANGED <<serverVars, toClient, toServer, clientVars, remote, bytes, orphans, hit>>

\* Faulty: the host interrupts all it runs.
HostBuilds_All(h, id) == running[h]
\* JobID_Build of the remote build server.
HostBuilds(h, id) == {b \in running[h] : b.id = id}

HostAbort(h) ==
  /\ HostMessage(h, "abort")
  /\ hit' = hit \cup {b.n : b \in HostBuilds(h, Head(toHost[h]).job.id)}
  /\ UNCHANGED <<serverVars, toClient, toServer, clientVars, remote, bytes, running, orphans>>

\* A build of the host ends: its SIGCHLD is answered with two ints.
HostBuildEnds(h, b, abort) ==
  /\ remote[h] = "up" /\ b \in running[h]
  /\ running' = [running EXCEPT ![h] = @ \ {b}]
  /\ bytes' = [bytes EXCEPT ![h] = @ \o IntBytes(b.id) \o IntBytes(abort)]
  /\ UNCHANGED <<serverVars, toClient, toServer, clientVars, remote, toHost, orphans, hit>>

\* The remote build server ends; its process at the client ends later.  Exit sends
\* SIGINT to its builds and waits for none, an assertion or a kill sends nothing:
\* the tools are orphans.  What it has written may be lost when it had not read
\* all, and it may end between the two ints of an answer.
HostDies(h) ==
  /\ remote[h] = "up"
  /\ remote' = [remote EXCEPT ![h] = "dead"]
  /\ running' = [running EXCEPT ![h] = {}]
  /\ orphans' = orphans \cup running[h]
  /\ hit' = hit \/ hit' = hit \cup {b.n : b \in running[h]}
  /\ toHost' = [toHost EXCEPT ![h] = <<>>]
  /\ \/ UNCHANGED bytes
     \/ toHost[h] # <<>> /\ bytes' = [bytes EXCEPT ![h] = <<>>]
     \/ bytes[h] # <<>> /\ bytes' = [bytes EXCEPT ![h] = SubSeq(@, 1, Len(@) - 4)]
  /\ proc' = [proc EXCEPT ![rbsPid[h]].state = "exits"]
  /\ UNCHANGED <<serverVars, toClient, toServer, slots, sigChild, loop, fd, rbsPid>>

-----------------------------------------------------------------------------
\* A child of the client ends: a tool at any time, a remote build server's
\* process after the server.
ChildEnds(p) ==
  /\ \/ proc[p].state = "runs" /\ proc[p].n # 0
     \/ proc[p].state = "exits"
  /\ proc' = [proc EXCEPT ![p].state = "zombie"]
  /\ sigChild' = TRUE
  /\ UNCHANGED <<serverVars, toClient, toServer, slots, loop, fd, rbsPid, hostVars, hit>>

-----------------------------------------------------------------------------
Client == \/ AbortEnded \/ AbortLocal \/ ChildAction \/ ChildActionEnds
          \/ \E p \in Pids : StartLocal(p) \/ BuildReaped(p)
          \/ \E h \in Hosts : SendToHost(h) \/ AbortRemote(h)
                              \/ GetAnswer(h) \/ HostGone(h)
          \/ \E h \in Hosts, p \in Pids : StartHost(h, p) \/ HostReaped(h, p)

HostBuildEnd(h, b) == \E abort \in {0, 1} : HostBuildEnds(h, b, abort)

Next == \/ Client \/ ReadAnswer
        \/ \E j \in JobIDs : SendBuild(j) \/ SendAbort(j)
        \/ \E p \in Pids : ChildEnds(p)
        \/ \E h \in Hosts : HostBuild(h) \/ HostAbort(h) \/ HostDies(h)
        \/ \E h \in Hosts, b \in Jobs : HostBuildEnd(h, b)

Spec == Init /\ [][Next]_vars

\* The client's and the servers' loops keep running, and tools end.
Fairness == /\ WF_vars(Client) /\ WF_vars(ReadAnswer)
            /\ \A p \in Pids : WF_vars(ChildEnds(p))
            /\ \A h \in Hosts : WF_vars(HostBuild(h) \/ HostAbort(h))
            /\ \A h \in Hosts, b \in Jobs : WF_vars(HostBuildEnd(h, b))

FairSpec == Spec /\ Fairness

-----------------------------------------------------------------------------
(* Properties *)

\* Every variable keeps its type.
TypeOK ==
  /\ issued \in [JobIDs -> 0..MaxJobNum] /\ sent \in 0..MaxJobNum /\ aborted \subseteq Nums
  /\ toClient \in Seq([type : {"build", "abort"}, job : Jobs]) /\ toServer \in Seq(Jobs)
  /\ slots \in [Slots -> [host : Hosts \cup {Local}, job : Jobs \cup {FreeSlot},
                          pid : Pids \cup {0}]]
  /\ proc \in [Pids -> [state : {"none", "runs", "exits", "zombie"}, n : 0..MaxJobNum]]
  /\ sigChild \in BOOLEAN /\ loop \in {"select", "reap", "dead"} \cup Hosts
  /\ fd \subseteq Hosts /\ rbsPid \in [Hosts -> Pids \cup {0}]
  /\ remote \in [Hosts -> {"none", "up", "dead"}]
  /\ toHost \in [Hosts -> Seq([type : {"build", "abort"}, job : Jobs])]
  /\ bytes \in [Hosts -> Seq(0..255)] /\ running \in [Hosts -> SUBSET Jobs]
  /\ orphans \subseteq Jobs /\ hit \subseteq 0..MaxJobNum

\* No assertion of the client fails: a slot is free when a build arrives, and
\* whatever ends, a child or a build on a host, is known to the client.
NoForbidden == loop # "dead"

\* A slot is free when a build arrives, and the client knows its children by a slot
\* or by the RBS_Id of a host.  The exception is a host's server that has ended:
\* ChildAction, which waits for none while only remote builds run, may find it after
\* its RBS_Id was given to the next one, and then Build_Done fails.
ChildrenKnown ==
  /\ Message("build") => SlotOK
  /\ \A p \in Pids : proc[p].state # "none" =>
       \/ BuildID_Build(p) # {}
       \/ \E h \in Hosts : rbsPid[h] = p
       \/ proc[p].n = 0 /\ proc[p].state # "runs"

\* Every Job_Done is for the build the server has under that JobID, and there is
\* one per build: FORBIDDEN(Job == NIL) in Local_Job_Done, and the end of one
\* build is never taken for that of the next in the same directory.
AnswersMatch ==
  /\ \A k \in DOMAIN toServer : issued[toServer[k].id] = toServer[k].n
  /\ \A k, m \in DOMAIN toServer : toServer[k] = toServer[m] => k = m

\* The client and its hosts do for the server what OdinJobs promises.
Service == INSTANCE OdinJobs
ImplementsJobs == Service!Spec

\* A build that was answered no longer runs, and will not be started: its JOB
\* directory is free to be cleared and used by the next one.  The exception is a
\* build whose remote build server ended under it: it is answered as canceled, and
\* its tool is left to itself (orphans).
Unanswered == {issued[j] : j \in JobIDs} \ {toServer[k].n : k \in DOMAIN toServer}
AnsweredIsOver ==
  /\ \A p \in Pids : proc[p].state = "runs" => proc[p].n \in Unanswered \cup {0}
  /\ \A h \in Hosts :
       /\ \A b \in running[h] : b.n \in Unanswered
       /\ remote[h] = "up" =>
            \A i \in Builds(toHost[h]) : toHost[h][i].job.n \in Unanswered

\* Only builds the server has aborted are interrupted, although an abort may
\* arrive when the build has ended and its JobID is in use again; and those a
\* remote build server still had when it ended.
OnlyAbortedHit == hit \subseteq aborted \cup {b.n : b \in orphans}

\* Every build is answered, whatever becomes of its host, by a client that neither
\* ends in an assertion nor waits for ever for the rest of an answer it has read
\* out of step.
BuildsAnswered == \/ <>[](loop \in Hosts)
                  \/ \A j \in JobIDs : issued[j] # 0 ~> issued[j] = 0 \/ loop = "dead"
=============================================================================
