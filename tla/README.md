# Formal models of Odin and of parts of xju

The repository holds `odin/xju-odin`, the Odin build tool (a C server that keeps
a cache of derived files up to date for several clients), the `xju` C++ and
Python libraries, and several applications and generators built on them.  This
project models the parts whose correctness is hardest to test in TLA+, checks
them with TLC and proves their central invariants with TLAPS: the incremental
build server of Odin, the builds of its clients on local and remote hosts, the
multi-address pinger of `xju/ip/icmp`, and the performance log of `xju/cmc` with
its mirror.  Source paths below are relative to
`src/odin/xju-odin/pkg/odin/` unless they start with `src/`.

## 1. Inventory

### Odin

One server process per cache holds the dependency database; each user runs a
client process.  Clients send requests over a socket and build: the server
decides *what* to run and asks a client to run it.

| Component | State it keeps | Operations | Interacts with | What is hard | What makes it correct |
|---|---|---|---|---|---|
| Status order (`inc/Status_.h`, `if-filtyp.c`) | none | compare, `Get_ToolStatus` | everything | the order itself carries meaning | a tool runs only on usable inputs |
| Update pass (`if-get.c`, `if-fhacc.c`, `if-fhstat.c`) | header of each file: status, four dates; `CurrentDate`, `VerifyDate`, `PendingDate` | `GetReqs`, `GetNotUpToDateFile`, `Update_SrcFilHdr` | broadcast, to-do lists | sources change while it runs; several clients' passes alternate | what is reported done was made from what its inputs are recorded to be |
| Broadcast (`if-bcast.c`) | none of its own | `Broadcast`, `Broadcast_Mod`, `Clr_Status` | headers, jobs | busy files; where the broadcast stops | no dependent of a changed file stays done |
| Job dispatch (`if-exec.c`, `if-update.c`) | outputs in the cache | `Exec`, `Local_Job_Done`, `Update_File` | job table, client | end of a tool after its inputs changed | canceled output is not trusted; an equal output keeps its date |
| Request server (`if-client.cc`, `if-ipc.c`, `if-candrv.c`, `if-fhsrc.c`) | per client: target, to-do list and position, jobs, interrupt; ready flag | `ServerAction`, `LaunchSomeToDos`, `Local_Test_All`, `Local_Do_Interrupt`, `Purge_Clients`, `IPC_Get_Commands` | all of the above | message interleaving, ctrl-C, death of a client, lost wakeups | every request ends; jobs, busy files and requests agree |
| Dependency database (`if-filhdr.c`, `if-info.c`) | file of headers | `Init_Info`, `Update_Info`, `CleanUp` | headers in core | a crash between a rename in the cache and the write of the header | what is read back is true of the cache |
| inotify (`if-inotify.cc`) | watches | event to `Local_Test` | update pass | events during a pass | a change is heard of |
| Build slots (`if-build.c`, `if-system.c`) | per client: list of slots (JobID, process, host) | `Local_Do_Build`, `Local_Abort_Build`, `ChildAction`, `Build_Done` | server, processes, hosts | abort racing the end of a tool; failure of fork; death of a host | each build is answered exactly once |
| Remote build hosts (`if-rbs.c`, `rbs.c`) | per host: process, pipes | `RBS_Do_Build`, `RBS_Abort_Build`, `RBS_Get_Msg`, `RBS_Close` | build slots | framing, EOF, restart of a host | client and host agree on the stream |
| IPC stubs (`if-stub.c`, `if-ipc.c`, `ipcgen`) | line buffers | blocking calls | all processes | partial reads | messages arrive whole and in order |
| Command language (`if-main.c`, `if-cmd.c`, `if-oclex.c`, `if-lex.c`, `if-yylex.c`, `if-env.c`) | one session | parse and send | server | signals | outside the model |
| Derivation graph (`if-drv*.c`, `if-edg.c`, `if-filprm.c`, `if-filpval.c`) | static graph of tools, parameter sets | path search | update pass | search order | outside the model so far |
| Internal tools (`if-systools.c`, `if-execint.c`, `if-depend.c`, `if-filelm.c`, `if-filinp.c`) | lists of elements | run in the server | update pass | circular requests | outside the model so far |

### xju

| Component | State it keeps | Operations | Interacts with | What is hard | What makes it correct |
|---|---|---|---|---|---|
| Pinger (`src/xju/ip/icmp/Pinger.hcp`) | `requests_` by deadline, `targets_` with an iterator into them, `currentSequence_`, `stop_`, one mutex and condition | `run`, `stop`; two threads of its own: `runAlarmClock`, `runReceiver` | a socket, a collector of results, a fake or real clock | three threads share the requests; waits without a predicate; late and repeated answers; 16-bit sequence numbers | each ping has one result, an answer counts for its own request, no wakeup is lost |
| Bucket store (`src/xju/cmc/tstore.py`) | files of a directory; in memory the size of each | create, append, trim, delete, reopen | files | memory and disk drift apart when a write is short or fails | limits on buckets and bytes hold |
| Performance log (`src/xju/cmc/perflog.py`) | the store, one writer; a mirror's store | `Recorder.record`, `fetch`, `get_some_unseen_data`, `write_unseen_data` | its mirror, by batches that may be lost | eviction and replacement of buckets between the steps of a sync; deaths; torn lines | records stay readable, the mirror follows and catches up |

### Other parts of the repository

* `src/xju`: threads, `NotifyingList`, `Observer`, `Event`, `Ring` (one thread
  each, or wrappers of the system's); `ssh/transport` (`Rekeyer`, one packet at a
  time on one thread); the other `cmc` primitives; codecs (`http`, `json`,
  `snmp`, `crypt`, `tls`), which are stateless and better served by their tests.
* `src/hcp`: a sequential splitter of `.hcp` files.  `src/omnicxy`: a CORBA code
  generator and its run-time glue.  `src/dion`, `src/lanstats`, `src/ruf`,
  `src/xwl`, `src/mypy-plugins`, `src/example`, `src/xo`: small applications,
  tooling and examples.

## 2. Modules

| Module | Models |
|---|---|
| `OdinStatus` | the ordered status codes and `Get_ToolStatus` |
| `OdinEngine` | the server: update pass, broadcast, job dispatch, select loop, database |
| `MCOdinEngine` | small dependency graphs and the view of a state used by TLC |
| `OdinEngine_proofs` | theorems about `OdinEngine`: types, jobs and busy files, assertions on `DepStatus` |
| `OdinInputs_proofs` | the inputs of done and dispatched files |
| `OdinFresh_proofs` | the contents of files, of tools' outputs and of what they were made from |
| `OdinClient_proofs` | what a client that is alone is answered, and that it is not forgotten |
| `OdinJobs` | what the server takes a client for: each build it sends is answered once |
| `OdinBuilds` | one client's build slots, its child processes, and the remote build servers it starts; implements `OdinJobs` |
| `MCOdinBuilds` | small lists of build hosts |
| `OdinBuilds_proofs` | theorems about `OdinBuilds`: types, one answer for each build, the refinement |
| `OdinAnswers_proofs` | when a build is over, which builds are interrupted, which children a client knows, when no assertion fails |
| `Ping` | what a pinger promises: one ping of an address at a time, with one result |
| `Pinger` | the three threads of the pinger, the clock and the network; implements `Ping` |
| `MCPinger` | the view of a state used by TLC |
| `Pinger_proofs` | theorems about `Pinger` |
| `TStore` | the bucket store: operators that give the store an operation leaves, whole or cut short |
| `PerfLog` | a log, its recorder, its mirror and the sync between them |
| `MCPerfLog` | the instance TLC checks |
| `PerfLog_proofs` | theorems about `PerfLog` and the stores of `TStore` |

`OdinEngine` and `OdinBuilds` meet at three messages.  The engine's `Exec` and
`Interrupt` are the `SendBuild` and `SendAbort` of the builds; their
`ReadAnswer` is the engine's `Job_Done`.  What the engine assumes of a client,
one `Job_Done` for each job and none for any other, is `OdinJobs`: its actions
are those of the server on the jobs of one client, and `Answer`, by which the
client answers some of the open builds, each once.  `OdinBuilds` is shown to
implement it with the identity on `issued`, `sent` and `toServer`; that every
build is answered is `BuildsAnswered`.

### OdinEngine: state

* **World.** `disk[s]` is the version of a source on the disk; an editor raises
  it at any moment, also in the middle of an update pass, and a version in
  `Absent` means that the file does not exist.  `data[f]` is the content of a
  derived file in the cache: a function from its inputs to the contents the tool
  read, so that "fresh" can be stated exactly.  A file in `Stable` has a content
  that does not depend on its inputs (a tool whose output a change of a comment
  does not alter).
* **Headers** (`tps_HdrInf`): `seen[s]` stands for `SysModTime`; `Status`,
  `ModDate`, `ConfirmDate`, `FileVerify` (`VerifyDate` of the header),
  `ErrStatus` (the minimum of `ErrStatusWord`); in core only `DepStatus`,
  `DepModDate`.
* **Jobs**: `job[j]` is `[client, file, canceled]` or `NIL`; `out[j]` is what the
  tool has read; `killed` the jobs a ctrl-C was sent to.
* **Clients**: `want` (`Client->FilHdr`), `todo` and `rest` (the `ToDo` list and
  what of it is not yet behind `LastToDo`), `interrupted`, `reply` (the last
  answer), `tested`/`testDisk` (ghost: a `Test_All` was sent, and what was on the
  disk then).
* **Select loop**: `mode` (`select`, `serve`, `push`, `launch`), `cur`
  (`CurrentClient`), `stack` (the recursion of `GetReqs`), `due` (clients still to
  be served in this pass), `testing` (clients `Local_Test_All` still has to push),
  `heard` (clients whose message of this iteration was read), `ready`
  (`IsAny_ReadyServerAction`).
* `saved`: the database as `Update_Info` last wrote it.

### OdinEngine: actions

| Action | Code |
|---|---|
| `Edit`, `ToolRead` | the environment: an editor, a tool reading its inputs |
| `TestAll`, `StartPush` (second disjunct) | `Local_Test_All` |
| `Request` | `Local_Get_OdinFile` |
| `Test` | an inotify event: `Local_Test` |
| `Interrupt` | `Local_Do_Interrupt(true)` |
| `Job_Done` = `AbortJob` or `FinishJob` | `Local_Job_Done`, `Do_Update`, `Update_File` |
| `Disconnect` | `Purge_Clients` |
| `EndIteration`, `ServeInterrupted`, `ResumeLaunch`, `StartPush` | `IPC_Get_Commands`, `ServerAction` |
| `EnterTarget`, `Descend`, `UpdateSource`, `RefreshDispatched`, `Compute` | `GetReqs`, `GetNotUpToDateFile`, `Update_SrcFilHdr` |
| `FlushBroadcast`, `EndPush` | `Do_ToBroadcast`, end of `Push_AllReqs` |
| `Exec`, `EndLaunch` | `LaunchSomeToDos`, `Exec`, `End_Get_OdinFile` |
| `FinishPass` | end of the iteration, `CleanUp` when nothing is under way |
| `Restart` | the server is killed at any point and started again: `Init_Info` |

The server is one thread.  A handler that touches nothing the environment can
change meanwhile is one action.  The update pass stats sources while editors
write them and tools read them, so it is a sequence of actions of which each
stats one source or judges one file; no message is read between them, as in the
code (`Selecting` guards every handler).

### OdinBuilds

* **Server**: `issued[j]` is the build the server has under JobID `j`; each build
  has a number that no code sees, because JobIDs are used again.
* **Client**: `slots` is the list of `tps_Build`; `proc` its children (tools and
  the local processes of hosts' servers); `sigChild`; `fd` the hosts with a
  connection; `rbsPid` (`RBS_Id`); `loop` is `select`, `reap` (in `ChildAction`),
  the host `IPC_Read` blocks on, or `dead` (a `FORBIDDEN` failed).
* **Host**: `remote`, `running`, the messages to it and the *bytes* from it: the
  answer is two ints of four bytes, and the client reads four bytes and
  `BoolBytes`, so that it may lose step.

| Action | Code |
|---|---|
| `StartLocal` | `Local_Do_Build` on a local slot, and its assertions |
| `StartHost`, `SendToHost` | `RBS_Do_Build` without and with a connection, also to a server that is gone |
| `AbortEnded`, `AbortLocal`, `AbortRemote` | `Local_Abort_Build`, `RBS_Abort_Build` |
| `ChildAction`, `HostReaped`, `BuildReaped`, `ChildActionEnds` | `ChildAction`: one `SystemWait` each, children may end in between |
| `GetAnswer`, `HostGone` | `RBS_Get_Msg`: an answer or part of one, end of file (`RBS_Close`, `Cancel_Builds`) |
| `HostBuild`, `HostAbort`, `HostBuildEnds`, `HostDies` | the main loop and `Exit` of `rbs.c` |
| `ChildEnds` | the environment: a child ends |

A JobID that is free is used again in any order; the first build takes the
lowest, as the JobIDs of a client that has none are alike.

A fork always succeeds, a started server connects at once, and the process that
carries it on the client's machine does not end before it.  When a server ends its
tools do not: `Exit` sends them SIGINT and waits for none, an assertion or a kill
sends nothing.  They become `orphans`, builds the client answers as canceled while
their tools may run on; no step of the model reads the set.  The list of hosts is
fixed.

| Reduction (`MCOdinBuilds`) | Why nothing is lost |
|---|---|
| `LowestPid`: a new child takes the lowest free number | free numbers are alike: no step compares two of them, and a free one is in no slot and in no `RBS_Id` |
| `View`: of `hit` and `orphans` only what `OnlyAbortedHit` would object to | no step reads either, and each build is interrupted, aborted or orphaned for good |

### Pinger

* **Shared state, under the mutex.** `requests` is `requests_`; `targets[a]` the
  request the iterator of an address points to, or `None` for `end()`;
  `currentSequence`, `stop`.
* **Threads.** `sender` with `next` and `t` is where `run` is in its loop or in
  the joins at its end; `alarm` is `awake`, `waits` (until one of `until`, if any)
  or `ended`; `receiver` is `select` or `ended`.
* **World.** `now`, the clock; `net`, the echo requests of which an answer may
  still arrive, any number of times and in any order; `round` counts the rounds
  of `run`, and tells requests apart that have the same sequence number;
  `reported` is the last call of the collector for each address.

| Action | Code |
|---|---|
| `Send`, `SendFails`, `Skip` | an iteration of `run`: a request goes out, `sendto` fails, or the last ping of the address is not over |
| `LoopEnds`, `AlarmJoined`, `ReceiverJoined` | the end of `run`: the destructors of its threads |
| `Stop` | `stop`, from any thread at any time |
| `AlarmClock`, `AlarmEnds` | an iteration of `runAlarmClock`: all expired requests are retried or reported, then it waits |
| `Receive`, `ReceiverEnds` | an iteration of `runReceiver` |
| `Tick` | time passes, unless `run` is `MaxLag` behind |

Each action is what a thread does between taking the mutex and waiting or
releasing it.  `Signal` moves a waiting alarm clock on at once; a wait may also end
without reason (`Spurious`), which the loops of the code do not tell from a
signal.  Clocks of microseconds are ticks.  A pinger of no address, and
messages that answer nothing, are left out.

### TStore and PerfLog

A store is `[sizes, files]`: the sizes the process believes and the bytes in
the directory.  A bucket is its start and an id (the time it was created), a
byte is `<<record, position, length>>`, so that a property can tell whether a
line is whole.  Where an operation has several steps on the disk, an operator
gives the set of stores on the way (`Deleting`, `Creating`, `Preparing`,
`Applying`): a failure leaves one of them, a death one of them as `Open` reads it
again.

| Action | Code |
|---|---|
| `Record` | `Recorder.record`: make room, create the bucket, append |
| `RecordFails`, `RecordShort`, `SourceDies` | a step of it raises, `write` takes part of the record and `record` returns as if it had taken all, the process dies and reopens |
| `GetSeen` | `Tracker.get_seen` |
| `GetSomeUnseenData` | `PerfLog.get_some_unseen_data`, in any order of the dictionaries it loops over, with any of the buckets to read unreadable: `read_failed` returns and they are skipped (when it raises, the sync is lost: `SyncLost`) |
| `WriteUnseenData` | `Tracker.write_unseen_data`, one item per step, with its assertions |
| `WriteFails`, `WriteShort`, `MirrorDies`, `SyncLost` | a step of it raises or is cut short, the mirror dies, a message of the sync is lost |

Records are made at any time between the steps of a sync.  `writes` is a history of
what `write` took of each record, all or part; no step reads it.

### Abstractions of OdinEngine

* The graph is acyclic and static, each derived file is the single output of one
  external tool.  Circular requests and their pending passes, virtual lists,
  copies, structured members and target values are left out, so `STAT_Pending`
  only appears between the files of one pass.
* `ToDo` is a set: the order in which a client's files are launched is
  arbitrary.  The order in which inputs are visited and clients served is
  arbitrary too.  The code has one fixed order of each; what holds in the model
  holds for it.
* A tool reads all its inputs at one moment between its start and its end.
* Versions are always told apart: the granularity of modification times is left
  out, and so are symbolic links and directories above a source.  All contents
  of a derived file have the same size.
* `Disconnect` ends the reading of messages of its iteration, as `Purge_Clients`
  follows the reading of all sockets.
* `Update_Info` runs in `CleanUp` only; the write a full header table forces in
  the middle of a request and the exit of the server with its last client are
  left out.

## 3. Properties

| Property | What it says | Hazard it is aimed at |
|---|---|---|
| `TypeOK` | types | |
| `BusyHasOneJob` | a file is busy exactly while one job builds it | broadcast, ctrl-C, death and crash around a running tool (`FORBIDDEN` in `Local_Job_Done`, `FATALERROR` in `Clr_Status`) |
| `JobHasRequest` | no request ends while its client's jobs run | `FORBIDDEN` in `End_Get_OdinFile` |
| `DispatchedDepOK` | a ready or busy file has a usable `DepStatus` where it is used | three `FORBIDDEN`s on it |
| `InputsUsable` | outside a pass, inputs of dispatched files stay done, without error, and not newer than the date their output will be confirmed with | dispatch on statuses other clients' passes may move |
| `DoneIsFresh` | a file done without error holds what its tool makes of the recorded contents of its inputs | edits during a pass, during a tool, cancellation, comparison of outputs, crash |
| `NoStall` | while a client waits and no job runs, the select loop will not block (one session) | lost wakeups |
| `FreshReply` | a successful answer is made from sources no older than the `Test_All` of its command | answers from another client's build |
| `RequestsEnd` | every request ends | all of the above, starvation |
| `ChildrenKnown` | a build that arrives finds a free slot, and the client knows each child by a slot or an `RBS_Id`, but for a host's server that has ended | slots reset in part, children nobody knows |
| `NoForbidden` | no assertion of the client fails | answers read out of step (`builds_framing`) |
| `AnswersMatch` | each `Job_Done` is for the build the server has under that JobID, one per build | reuse of JobIDs, cancellation of a host's builds racing their answers |
| `AnsweredIsOver` | the tool of an answered build no longer runs nor will be started, by the client or by any host's server; but for a tool whose server ended under it | death of a host, cancellation of the wrong slots |
| `OnlyAbortedHit` | only builds the server aborted are sent SIGINT, and those a host's server still had when it ended | an abort that arrives after its build, when the JobID is in use again |
| `ImplementsJobs` | the client is one of `OdinJobs`: a step answers open builds, each once, or the server sees nothing of it | as `AnswersMatch`, over whole behaviors |
| `BuildsAnswered` | every build is answered, unless the client ends in an assertion or blocks for good in the read of an answer | lost SIGCHLD, death of a host |
| `IteratorsValid` | no iterator of `targets_` outlives its request, and each request is its address's | two threads insert and two erase |
| `NoOversleep` | a waiting alarm clock wakes up for every request | a request added between the computation of the wait and the wait |
| `AnswersOwn` | an accepted answer belongs to the request that waits | late and repeated answers, retries, sequence numbers that come round |
| `ImplementsPing` | an address sees the pings of `Ping` | a result reported twice, or by two threads; one retry too many |
| `PingEnds`, `StopReturns` | every ping has a result unless the pinger is stopped, and `stop` makes `run` return | lost signals, joins in the wrong order |
| `AnswerCounts` | an answer to a request that waits is accepted | sequence numbers at their limit |
| `WithinLimits` | a store is within its limits in memory and on the disk | a short write counted whole, eviction after the fact |
| `Kept` | what `write` took of a record, all or part, stays in its bucket's file until that bucket is evicted | writes at a size that is not the file's |
| `FetchedOrHidden` | a write cut short loses its own record and the next of its bucket; all others are fetched until they are evicted | short writes nobody notices, torn lines |
| `MirrorIsPrefix` | a mirrored bucket is a prefix of its source | lost, repeated or partly applied syncs, buckets that are replaced in between |
| `AllAccepted` | no assertion of `write_unseen_data` fails | limits of the mirror while a batch is half applied |
| `OldestGo` | a log deletes the oldest buckets, just enough of them for the record of the call, and only in a call of `record` | eviction that goes too far, or at an append that fits |
| `MirrorConverges` | once recording stops, the mirror becomes a copy | a bucket that is never sent, or never deleted |

## 4. Runs

| Run | Configuration | Shows |
|---|---|---|
| `one` | 1 client, `f1 <- s1`, `f2 <- f1, s2`, `VerifyLevel` 2, every outcome, ctrl-C, one edit of each source | `TypeOK`, `DoneIsFresh`, `NoStall`, `FreshReply`, `RequestsEnd` |
| `two` | 2 clients, `f1 <- s1`, `f2 <- f1`, `f1` stable, inotify, one interrupts, the other may disconnect, tools may fail, two edits of which one deletes the source | `BusyHasOneJob`, `JobHasRequest`, `DispatchedDepOK`, `InputsUsable` |
| `shared` | 2 clients, `VerifyLevel` 0, two job slots each, one interrupts or disconnects with its jobs running, the source may disappear, the server may be killed anywhere | `BusyHasOneJob`, `RequestsEnd` |
| `stall` | 2 clients, `VerifyLevel` 2 | `RequestsEnd` is **violated** |
| `unchecked_reply` | 2 clients, one edit | `FreshReply` is **violated** |
| `crash_stale` | 1 client, one edit, crash | `DoneIsFresh` is **violated** |
| `crash_ready` | 1 client, `f3 <- f1, f2`, one job slot, ctrl-C, crash | `DispatchedDepOK` is **violated** |
| `builds` | 2 slots (local, remote, mixed), 3 builds, 3 process numbers, `BoolBytes` 1 | `TypeOK`, `ChildrenKnown`, `AnswersMatch`, `AnsweredIsOver`, `OnlyAbortedHit`, `ImplementsJobs`, `BuildsAnswered` |
| `builds_framing` | 2 slots on one host, `BoolBytes` 1 | `NoForbidden` is **violated** |
| `pinger` | 2 addresses, 2 retries, time-out of two steps, answers up to two rounds late, spurious wakeups, 6 sequence numbers | `TypeOK`, `IteratorsValid`, `NoOversleep`, `AnswersOwn`, `ImplementsPing`, `PingEnds`, `StopReturns` |
| `pinger_wrap` | the same, `run` never late | `AnswerCounts` is **violated** |
| `perflog` | 2 buckets of 3 starts, 4 bytes, 3 records of 1 or 2 bytes, batches of 2 bytes, 2 faults | `TypeOK`, `WithinLimits`, `Kept`, `FetchedOrHidden`, `MirrorIsPrefix`, `AllAccepted`, `OldestGo`, `MirrorConverges` |

**Bounds.** Every hazard needs at most two clients (the one that waits and the
one that interferes), a chain of two derived files (so that a change has an
indirect dependent) and one edit of a source during a request (so that the
recorded content differs from the one a tool read); `crash_ready` needs two
independent inputs, because with one job slot one of them must still be ready
when the request is interrupted.  `MaxVersion` bounds edits, `JobIDs` jobs.
Dates grow without bound; `View` in `MCOdinEngine` replaces them by their ranks:
the code only compares dates with each other and with 0 and 1, and every new one
is larger than all others, so states with equal ranks have the same behaviours.
`VerifyDate` and `PendingDate` are compared with `FileVerify` only, so the view
keeps, for each file, the outcome of the comparison.

In `builds` three builds over two slots use a JobID and a slot twice while
another build runs.  `BoolBytes` is `sizeof(bool)`, 1 with the `bool` of
`stdbool.h` that `gmc.h` includes, so a second remote build is answered out of
step as in the code; `builds_framing` shows how that ends, and `builds` that the
rest of the protocol is right until it does.  Three process numbers are enough for
a tool, a host's server that has ended but was not waited for, and its successor:
the zombie that section 5 describes is in the run.  There, and when answers are
out of step, the client ends in an assertion or waits for ever for the rest of an
answer; `ChildrenKnown` and `BuildsAnswered` state these as their exceptions, and
the other properties hold through them.

In `pinger` the six sequence numbers are those of two rounds of three requests,
so they come round while answers of two rounds may be under way (`Memory`):
`MemoryAssumption` is met with equality, as tight as it can be.  `MaxLag` and
`MaxLead` bound how far `run` is behind or ahead of the clock; two ticks, a whole
time-out, let retries overtake the next round.  Time, rounds and results grow
without bound: `View` in `MCPinger` keeps differences of times and of rounds,
which are all that a step reads.

In `perflog` three records over two buckets and four bytes force every kind of
eviction, by number and by size, and a start whose bucket was evicted and is
created again under another id; batches of two bytes split a bucket over two
syncs.  Two faults are enough for a fault in the recovery from another.

**Deadlock** is checked in every run of the engine: a user can always ask again.
The runs of `OdinBuilds` stop after `MaxJobNum` builds.

**Fairness** (`FairSpec`).  The server's loop is one thread that keeps running
once there is something to do: `WF(Pass)`.  A tool is a process that reads its
inputs and ends: `WF(ToolRead(j))`, and its end is read eventually because each
iteration of the loop reads every socket with a message, whatever the other
clients send: `SF(JobEnds(j))`.  Nothing is assumed of editors and users.
`FairSpec` of `OdinBuilds` assumes the same of a client's loop, of the servers of
hosts and of tools; a host may die at any time and need not.  `FairSpec` of
`Pinger` lets time pass and runs each thread when it is due; answers need not
arrive, and a wait is not assumed to end without a reason, so liveness does not
rest on spurious wakeups.  `FairSpec` of `PerfLog` syncs again and again, as the
callers of `Tracker` do: weak fairness of `Sync`, written `[]<><<Sync>>_vars`
because a step of a sync is always possible.

## 5. Findings

1. **A client may wait with nothing running** (`stall`, `if-client.cc:734`).
   `ServerAction` takes a non-NIL `LastToDo` to mean that files are left to
   launch; `Local_Test_All` leaves it non-NIL with busy files only.  A `Job_Done`
   read in the same iteration is then not followed by a new push, and nothing
   sets the ready flag again: the request waits until an unrelated event.  One
   client is enough when it follows changes (`VerifyLevel` 1) and has one job
   slot: an inotify event clears the ready files `LastToDo` still holds, and the
   end of the running job finds none of them to launch.
2. **An answer may predate the check of the sources** (`unchecked_reply`,
   `if-get.c:69`).  A busy file is not looked into, so a second client is answered
   from a build that read a source before it changed.
3. **A crash may leave a stale file as up to date** (`crash_stale`,
   `if-update.c:85`).  The output is in the cache before its header is in the
   database; built again after the crash it is found equal and keeps its date.
4. **A crash may leave a ready file in the database** (`crash_ready`,
   `if-get.c:71`), and the server then ends in an assertion at the next request.
5. **A remote build server's answers are read out of step** (`builds_framing`,
   `rbs.c:249`).  The outcome is written as an int and read as a `bool`.
6. **Answers to some retries are ignored** (`pinger_wrap`,
   `src/xju/ip/icmp/Pinger.hcp:261`).  The number of a retry is an `int` that may
   exceed the 16 bits of the wire, and is then equal to no number that comes
   back: such a retry can only time out.

Three more are stated as exceptions of properties that hold.  While only remote
builds run, `ChildAction` waits for no child (`if-build.c:253`).  A host whose end
of file is seen before its SIGCHLD then leaves a zombie; its next build starts a
new server and overwrites `RBS_Id`, and when a local build makes `ChildAction`
wait, the old process belongs to no slot and no host: `FORBIDDEN` in `Build_Done`.  Run `builds` has this behaviour, and
`ChildrenKnown` says that an ended server is the only child the client may not
know.

A remote build server that ends leaves its tools behind (`rbs.c:297`), and the
client answers their builds as canceled: the next job of that JobID may share its
JOB directory with a tool that still writes.  `AnsweredIsOver` names these builds
(`orphans`) as its exception.

A short write of a record is not noticed (`src/xju/cmc/tstore.py:183`): `record`
returns, and that record and the next one of its bucket are not fetched.
`FetchedOrHidden` states this loss, and that there is no other.

## 6. Proofs

`OdinEngine_proofs` proves, for every graph, every number of clients and every
value of the bounds, from `GraphAssumption`, `ClientAssumption` and
`BoundAssumption` (disjoint finite sets of sources and derived files, `NIL`
outside all of them, finitely many job directories):

* `TypeCorrect`: `Spec => []TypeOK`.  `TypeOK` is not inductive.  `TypeInv` adds
  `LoopOK` (who is served, and that it has a request: the target is entered, the
  job given its client and the to-do list extended only then), `SavedTypeOK` (a
  restart reads what was written) and `SourcesIdle` (a source is never
  dispatched, so the stack's top is a derived file where a to-do is pushed).
  The statuses and dates `Compute` derives are a minimum and a maximum over the
  inputs; `NewestExists` shows that they exist, by well-foundedness of strict
  inclusion among the subsets of a finite set.
* `OneJobPerBusyFile` and `JobsHaveRequests`: `BusyHasOneJob` and
  `JobHasRequest`, proved together as `JobInv` with `HeaderOK`: a job's outcome
  is the minimum of its `DepStatus` and its exit status, so it is not "busy"
  because a `DepStatus` is unknown or above `STAT_Error`; and a restart reads no
  busy file because `CleanUp` writes only when no job runs.
* `DispatchedDepCorrect`: `DispatchedDepOK` for a server that is not restarted.
  `crash_ready` shows that the assumption is needed.

TLC checked `TypeInv` and `JobInv` as invariants of the instances of `two` and
`shared` before they were proved.

The next three modules build on each other and on these, and are about a server
that is not restarted (`~MayCrash`; `crash_stale` and `crash_ready` show what a
restart breaks).  They also use `AcyclicAssumption`: no set of files rests on
itself, as circular requests are not modelled.

* `InputsUsableCorrect`: `InputsUsable`.  `InputInv` says of *every* state, within
  passes too, what `InputsUsable` says between them: the inputs of a file that is
  done or dispatched are done, or the file is one that the broadcast under way
  will reach (`Reached`), or its job is canceled.  It needs `PassInv`, by which
  nothing waits to be broadcast outside `push`.  That the broadcast reaches all
  that it has to is a fact about the closure of a finite graph.
* `DoneFresh`: `DoneIsFresh`.  `FreshInv` compares what a file holds with the dates
  (`MadeFrom`): of each input it was made from what the input was when its tool
  read it, and an input that has changed since has a `ModDate` above the
  `ConfirmDate`.  So the comparison of dates by which `Compute` confirms a file is
  one of contents.  The same is said of the outputs of the tools that run, with
  their `DepModDate`.
* `ReplyFresh` and `NeverStalls`: `FreshReply` and `NoStall` for one client
  (`OneClient`; `unchecked_reply` and `stall` are the counterexamples with two).
  `CheckInv` says that a file judged since the last `Test_All` was judged on inputs
  verified since, which needs `NothingLeft`: when an idle client sends a `Test_All`
  no file is ready or busy.  `StallInv` follows a request through the select loop:
  what a push leaves to do is on the to-do list, what a launch leaves is held by a
  job, and outside both the ready flag is set or a job runs.  `NeverStalls` takes
  a `VerifyLevel` other than 1; finding 1 says what happens with it.

`OdinBuilds_proofs` proves, from `BuildsAssumption`, for any number of hosts,
slots and builds and any width of `bool`:

* `TypeCorrect`: `Spec => []TypeOK`.  `TypeInv` adds `Procs`, which process is
  whose: `AbortLocal` reads the number of a slot's process, so a slot with a job
  on a local host must have a process that is its alone.
* `AnswersAlwaysMatch` and `BuildsImplementJobs`: `AnswersMatch` and
  `ImplementsJobs`.  Both rest on `Own`: a build the server has is in one place,
  its message on the way to the client, a slot, or an answer on the way back.
  There is one lemma for each way a build moves; `OwnDone`, for builds that go
  from slots to answers, also shows that the step is `OdinJobs!Answer`.  Neither
  depends on what hosts do: they hold when answers are read out of step, since
  the client answers for a slot or dies.

`OdinAnswers_proofs` adds what hosts do, with no further hypothesis than
`HostsAssumption` (a host's name is none of the places of the client's loop):

* `AnsweredBuildsOver`: `AnsweredIsOver`, which looks at every host, up or not.
  `Idle` says that a host without a server runs nothing: what it ran became orphans
  in the step in which the server ended.  The invariant `Places` has three parts: a
  tool is the process of a slot until it is reaped (`Watched`); a host that is up
  has its connection and its process (`Connected`); what a host has been sent,
  runs or has answered are different builds, all in slots of that host, and the
  bytes on the way back are those answers, in order (`AtHosts`), or are out of
  step, and then the client can only die of them.  Hosts that died may have left
  half of an answer (`Framed`).
* `AbortedBuildsHit`: `OnlyAbortedHit`, with the SIGINTs of `Exit` among `orphans`.  An abort and a build in the same queue with
  the same JobID are for the same build if the abort is the later one
  (`AbortsOK`), for the server's queue with the slots, and for each host's with
  what it runs.
* `KnowsItsChildren`: `ChildrenKnown`, with no hypothesis on the slots or the width
  of `bool`.  A build finds a free slot because the builds in the slots and the one
  that arrives have different JobIDs, of which the server never has more than slots
  (`SlotFound`).  A child that runs is the tool of a slot, or a server that is up,
  and that server is the one the `RBS_Id` of its host gives (`ServersUp`): only a
  server that has ended can have lost its `RBS_Id` to the next one.
* `NeverForbidden`: `NoForbidden` is false in general (finding 5, and the zombie that
  section 5 describes); it holds if all slots are local, whatever the width of `bool`, where
  nothing is read from a host, and, if all are remote, for a `bool` of four bytes,
  the width `rbs.c` writes: finding 5 is then the only way such a client ends in an
  assertion, whatever its hosts do.

`Pinger_proofs` proves, from `PingerAssumption`, for any number of addresses,
retries and time-outs, without the bounds of the run:

* `TypeCorrect`, `IteratorsCorrect` and `NeverOversleeps`: `TypeOK`,
  `IteratorsValid` and `NoOversleep`, each inductive given those before it.
* `PingerImplementsPing`: every step of `Pinger` is one of `Ping` under the
  mapping `sent[a]` = requests sent so far in the ping of `a`, `last` =
  `reported`.  It needs `IteratorsValid`: a request that expires must be the one
  its address waits for.
* `AnswersAreOwn`: `AnswersOwn`, also from `MemoryAssumption`.  The inductive
  invariant relates each sequence number to its round and retry modulo `SeqMod`
  (`NumbersFrom`), and says that an answer under way is to no later request of its
  address than the one that waits and less than `Memory` rounds older
  (`RoundsPast`, `AnswersPast`).

`PerfLog_proofs` proves, from `StoreAssumption` (`create_bucket` asserts that there
may be at least two buckets) and `LogAssumption` (the constants are numbers, no
record is empty, and a batch may hold a byte), for any starts, limits, record
lengths, number of records and faults:

* About `TStore`: each operation, whole or cut short at any step, leaves a store
  that is `Sound` (typed, one bucket of a start, in memory at least as long as on
  the disk, within its limits), and of which the caller knows what changed: the
  buckets deleted are the oldest (`OldestOf`), a file only grows (`Extends`).  The
  sizes are summed by the library's `SumFunctionOnSet`; that it adds an element,
  and is monotone, is proved from the recursive function it is, which is shown to
  exist on the subsets of a finite set.
* `Types`, `Limits`: `TypeOK` and `WithinLimits`, from the first.
* `PrefixMirrored`: `MirrorIsPrefix`.  `Mirrors` says of every bucket of the mirror
  that is not torn that its size in memory is that of its file, and a prefix of
  the source's if the source still has it; `Carries` says of each item of the
  batch on its way that it is a part of the file it was read from, which has only
  grown since.
* `BatchAccepted`: `AllAccepted`.  The assertions of `write_unseen_data` hold while
  a batch is half applied because it was made to fit a source that was itself
  within the limits (`Fits`, by which an item starts at 0 or where the mirror's
  file ends): the invariant keeps that earlier source, as one that exists, since
  the source may have moved on.
* `RecordsKept` and `FewHidden`: `Kept` and `FetchedOrHidden`, both about every
  write, also one that was cut short or of a process that died in it.  `WritesInv`
  says where in its file each write's data is (`Holds`).  A second invariant says
  that a write that was neither cut short nor follows one that was is a line of its
  own, and that a bucket's file ends in the middle of a line only if the last write
  to it was cut short: so the record after such a write ends the line, and the one
  after that begins a new one (`PutShown`, `UntouchedShown`).
* `OldestGoFirst` also rests on `CallNeeds`: whatever step a call of `record` ends
  at, a bucket it has deleted was one that its record, or the bucket the record
  needs, left no room for.

Only model-checked:

* `RequestsEnd`, `BuildsAnswered`, `PingEnds`, `StopReturns` and `MirrorConverges`,
  because liveness under fairness and `ENABLED` are beyond the prover.

## 7. Not modelled

PROJECT.json gives the reason for each component that is `not_modelled`, and
says of each one that is modelled partly what its model leaves out.  In short:

* Odin: circular requests with their pending passes, virtual lists, copies and
  structured members, which depend on outputs of the internal tools; framing of
  the sockets; writes of the database in the middle of a request; failures of
  fork; a change of `BuildHosts` or `MaxBuilds` between builds; a host's server
  that dies before it connects.  The command language and the derivation graph
  compiler are sequential, and the engine starts from what they yield.
* Performance log: a loss of power (nothing is synced to the disk, so what it may
  leave is up to the file system); a directory that cannot be removed;
  `trim_trailing_partial_record`, which a caller may apply to a batch so that the
  mirror holds whole records only (it also drops the last marker of a batch of
  deletions, and all of a record longer than the batch); decoding of columns and the time range of `fetch`.  Without a loss of
  power a source's bucket never shrinks below what the mirror has seen, so reading
  again from 0 happens for new buckets only.
* Other parts of `xju` keep their state on one thread, or are thin layers over
  the system's primitives; the remaining directories are sequential tools,
  stateless codecs, generated code and applications.  Their tests reach what a
  model would.

## 8. What is left

Each of these needs a model of its own size, in this order:

1. An abstract specification of incremental building (what a request promises),
   implemented by `OdinEngine` without restarts and with one client; `DoneFresh`
   and `ReplyFresh` are its safety part.  With two clients or with restarts,
   findings 1 to 4 are its counterexamples.
2. Circular requests (`PendingDate`, `Push_Pending`) and virtual lists in the
   engine; writes of the database in the middle of a request.
