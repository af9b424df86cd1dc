-------------------------- MODULE OdinBuilds_proofs --------------------------
(***************************************************************************)
(* Theorems about OdinBuilds for any number of hosts, slots and builds.    *)
(***************************************************************************)
EXTENDS OdinBuilds, FiniteSetTheorems, SequenceTheorems, WellFoundedInduction, TLAPS

-----------------------------------------------------------------------------
(* Sequences and slots *)

Messages == [type : {"build", "abort"}, job : Jobs]

\* The first of some slots exists, so NextSlot is a free slot.
LEMMA FirstExists ==
  ASSUME NEW S \in SUBSET Nat, S # {}
  PROVE  \E i \in S : \A k \in S : i <= k
<1> DEFINE R == OpToRel(<, Nat)
<1>1. PICK i \in S : \A k \in S : <<k, i>> \notin R
  BY NatLessThanWellFounded, WFMin, Zenon DEF R
<1>2. ASSUME NEW k \in S PROVE i <= k
  <2>1. ~(k < i) BY <1>1, Zenon DEF R, OpToRel
  <2> QED BY <2>1, SMT
<1> QED BY <1>2

LEMMA NextSlotFree ==
  ASSUME BuildsAssumption, JobID_Build(0) # {}
  PROVE  NextSlot \in Slots /\ slots[NextSlot].job.id = 0
<1>1. JobID_Build(0) \in SUBSET Nat
  BY SMT DEF JobID_Build, Slots, BuildsAssumption
<1>2. NextSlot \in JobID_Build(0)
  BY <1>1, FirstExists, Zenon DEF NextSlot
<1> QED BY <1>2, Zenon DEF JobID_Build

LEMMA JobFacts ==
  ASSUME BuildsAssumption
  PROVE  /\ FreeSlot \notin Jobs
         /\ \A job \in Jobs : job.id \in JobIDs /\ job.n \in Nums /\ job.id # 0 /\ job.n # 0
         /\ \A job \in Jobs \cup {FreeSlot} : job.id = 0 <=> job = FreeSlot
BY SMT DEF BuildsAssumption, Jobs, FreeSlot, Nums

LEMMA SlotsInt == BuildsAssumption => Slots \subseteq Int
  BY SMT DEF Slots, BuildsAssumption

\* The answers of the slots S, in their order.
LEMMA DoneAnswers ==
  ASSUME BuildsAssumption, NEW S \in SUBSET Slots, NEW list, \A i \in S : list[i].job \in Jobs,
         NEW q \in Orders(S)
  PROVE  /\ [k \in DOMAIN q |-> list[q[k]].job] \in Seq(Jobs)
         /\ \A k \in DOMAIN q : q[k] \in S
         /\ \A k, m \in DOMAIN q : q[k] = q[m] => k = m
<1>1. IsFiniteSet(Slots)
  BY FS_Interval, SMT DEF Slots, BuildsAssumption
<1>2. IsFiniteSet(S) BY <1>1, FS_Subset
<1>3. Cardinality(S) \in Nat BY <1>2, FS_CardinalityType
<1>4. /\ q \in [1..Cardinality(S) -> S]
      /\ \A k, m \in DOMAIN q : k < m => q[k] < q[m]
  BY Zenon DEF Orders
<1>5. \A k \in DOMAIN q : q[k] \in S BY <1>4
<1>6. [k \in DOMAIN q |-> list[q[k]].job] \in [1..Cardinality(S) -> Jobs]
  BY <1>4, <1>5
<1>7. [k \in DOMAIN q |-> list[q[k]].job] \in Seq(Jobs)
  <2> DEFINE answers == [k \in DOMAIN q |-> list[q[k]].job]
  <2>1. answers \in [1..Cardinality(S) -> Jobs] BY <1>6
  <2> HIDE DEF answers
  <2>2. [1..Cardinality(S) -> Jobs] \in {[1..n -> Jobs] : n \in Nat} BY <1>3, Zenon
  <2>3. answers \in UNION {[1..n -> Jobs] : n \in Nat} BY <2>1, <2>2, Zenon
  <2>4. answers \in Seq(Jobs) BY <2>3, SeqDef, Zenon
  <2> QED BY <2>4 DEF answers
<1>8. ASSUME NEW k \in DOMAIN q, NEW m \in DOMAIN q, q[k] = q[m] PROVE k = m
  <2>0. S \subseteq Int BY SlotsInt
  <2>1. q[k] \in Int /\ q[m] \in Int BY <1>5, <1>8, <2>0, Zenon
  <2>3. k \in 1..Cardinality(S) /\ m \in 1..Cardinality(S) BY <1>4, <1>8, Zenon
  <2>4. k \in Int /\ m \in Int BY <2>3, <1>3, SMT
  <2>2. ~(q[k] < q[m]) /\ ~(q[m] < q[k]) BY <2>1, <1>8, SMT
  <2>5. ~(k < m) /\ ~(m < k) BY <2>2, <1>4, <1>8, Zenon
  <2> QED BY <2>4, <2>5, SMT
<1> QED BY <1>5, <1>7, <1>8

-----------------------------------------------------------------------------
(* Types, and which process is whose *)

SlotType == [host : Hosts \cup {Local}, job : Jobs \cup {FreeSlot}, pid : Pids \cup {0}]
ProcType == [state : {"none", "runs", "exits", "zombie"}, n : 0..MaxJobNum]

\* A slot with a process has its build, and runs as that process alone; a local
\* build has a process.  Servers' processes build nothing and are of one host.
ProcsOK(pr, list, pids) ==
  /\ \A i \in Slots : list[i].pid # 0 =>
       /\ list[i].job # FreeSlot
       /\ pr[list[i].pid].n = list[i].job.n /\ pr[list[i].pid].state \in {"runs", "zombie"}
       /\ \A k \in Slots : list[k].pid = list[i].pid => k = i
  /\ \A i \in Slots : list[i].host = Local /\ list[i].job # FreeSlot => list[i].pid # 0
  /\ \A h \in Hosts : pids[h] # 0 =>
       /\ pr[pids[h]].n = 0 /\ pr[pids[h]].state # "none"
       /\ \A g \in Hosts : pids[g] = pids[h] => g = h
Procs == ProcsOK(proc, slots, rbsPid)

LEMMA MessageType ==
  ASSUME TypeOK, NEW type, Message(type)
  PROVE  /\ Head(toClient) \in Messages /\ Received \in Jobs
         /\ Tail(toClient) \in Seq(Messages)
<1>1. toClient \in Seq(Messages) /\ toClient # <<>>
  BY DEF TypeOK, Messages, Message
<1>2. Head(toClient) \in Messages /\ Tail(toClient) \in Seq(Messages)
  BY <1>1, HeadTailProperties
<1> QED BY <1>2 DEF Received, Messages

LEMMA TakenType ==
  ASSUME BuildsAssumption, TypeOK, SlotOK, Message("build"), NEW p \in Pids \cup {0}
  PROVE  /\ Taken(p) \in [Slots -> SlotType]
         /\ NextSlot \in Slots /\ slots[NextSlot].job = FreeSlot /\ slots[NextSlot].pid = 0
         /\ \A i \in Slots : Taken(p)[i] = IF i = NextSlot
              THEN [host |-> slots[i].host, job |-> Received, pid |-> p] ELSE slots[i]
<1>1. NextSlot \in Slots /\ slots[NextSlot].job.id = 0 /\ slots[NextSlot].pid = 0
  BY NextSlotFree DEF SlotOK
<1>2. slots \in [Slots -> SlotType] BY DEF TypeOK, SlotType
<1>3. slots[NextSlot].job = FreeSlot
  BY <1>1, <1>2, JobFacts DEF SlotType
<1>4. Received \in Jobs BY MessageType
<1>5. \A i \in Slots : Taken(p)[i] = IF i = NextSlot
        THEN [host |-> slots[i].host, job |-> Received, pid |-> p] ELSE slots[i]
  BY <1>1, <1>2, Zenon DEF Taken
<1>6. Taken(p) \in [Slots -> SlotType]
  <2>1. [host |-> slots[NextSlot].host, job |-> Received, pid |-> p] \in SlotType
    BY <1>1, <1>2, <1>4 DEF SlotType
  <2> QED BY <1>1, <1>2, <2>1, Zenon DEF Taken
<1> QED BY <1>1, <1>3, <1>5, <1>6

\* What BuildsDone does to the slots and the answers.
LEMMA DoneType ==
  ASSUME BuildsAssumption, TypeOK, NEW list \in [Slots -> SlotType], NEW S \in SUBSET Slots,
         \A i \in S : list[i].job # FreeSlot, BuildsDone(S, list)
  PROVE  /\ slots' \in [Slots -> SlotType] /\ toServer' \in Seq(Jobs)
         /\ \A i \in Slots : slots'[i] = IF i \in S
              THEN [host |-> list[i].host, job |-> FreeSlot, pid |-> 0] ELSE list[i]
<1>1. \A i \in S : list[i].job \in Jobs BY DEF SlotType
<1>2. PICK q \in Orders(S) : toServer' = toServer \o [k \in DOMAIN q |-> list[q[k]].job]
  BY DEF BuildsDone
<1>3. [k \in DOMAIN q |-> list[q[k]].job] \in Seq(Jobs)
  BY <1>1, DoneAnswers
<1>4. toServer' \in Seq(Jobs)
  BY <1>2, <1>3, ConcatProperties DEF TypeOK
<1>5. \A i \in Slots : Released(list[i]) = [host |-> list[i].host, job |-> FreeSlot, pid |-> 0]
  BY DEF Released
<1>6. slots' = [i \in Slots |-> IF i \in S THEN Released(list[i]) ELSE list[i]]
  BY DEF BuildsDone
<1>7. \A i \in Slots : slots'[i] = IF i \in S
              THEN [host |-> list[i].host, job |-> FreeSlot, pid |-> 0] ELSE list[i]
  BY <1>5, <1>6
<1>8. slots' \in [Slots -> SlotType]
  <2>1. ASSUME NEW i \in Slots PROVE slots'[i] \in SlotType
    <3>1. list[i] \in SlotType BY <2>1
    <3>2. list[i].host \in Hosts \cup {Local} BY <3>1 DEF SlotType
    <3>3. [host |-> list[i].host, job |-> FreeSlot, pid |-> 0] \in SlotType
      BY <3>2 DEF SlotType
    <3> QED BY <1>7, <2>1, <3>1, <3>3, Zenon
  <2> QED BY <1>6, <2>1, Zenon
<1> QED BY <1>4, <1>7, <1>8

LEMMA DoneProcs ==
  ASSUME BuildsAssumption, TypeOK, NEW list \in [Slots -> SlotType], NEW S \in SUBSET Slots,
         \A i \in S : list[i].job # FreeSlot, BuildsDone(S, list),
         NEW pr, NEW pids, ProcsOK(pr, list, pids)
  PROVE  ProcsOK(pr, slots', pids)
<1>1. \A i \in Slots : slots'[i] = IF i \in S
         THEN [host |-> list[i].host, job |-> FreeSlot, pid |-> 0] ELSE list[i]
  BY DoneType
<1>2. ASSUME NEW i \in Slots, slots'[i].pid # 0 \/ slots'[i].job # FreeSlot
      PROVE  slots'[i] = list[i]
  <2>1. CASE i \in S
    <3>1. slots'[i] = [host |-> list[i].host, job |-> FreeSlot, pid |-> 0]
      BY <1>1, <2>1
    <3> QED BY <1>2, <3>1
  <2> QED BY <1>1, <2>1
<1>3. ASSUME NEW i \in Slots, slots'[i].pid # 0
      PROVE  /\ slots'[i].job # FreeSlot
             /\ pr[slots'[i].pid].n = slots'[i].job.n
             /\ pr[slots'[i].pid].state \in {"runs", "zombie"}
             /\ \A k \in Slots : slots'[k].pid = slots'[i].pid => k = i
  <2>1. slots'[i] = list[i] BY <1>2, <1>3
  <2>2. ASSUME NEW k \in Slots, slots'[k].pid = slots'[i].pid PROVE k = i
    <3>1. slots'[k] = list[k] BY <1>2, <1>3, <2>2
    <3> QED BY <1>3, <2>1, <2>2, <3>1 DEF ProcsOK
  <2> QED BY <1>3, <2>1, <2>2 DEF ProcsOK
<1>4. ASSUME NEW i \in Slots, slots'[i].host = Local, slots'[i].job # FreeSlot
      PROVE  slots'[i].pid # 0
  BY <1>2, <1>4 DEF ProcsOK
<1> QED BY <1>3, <1>4 DEF ProcsOK

\* A child that is forked is no other's process.
LEMMA ForkFacts ==
  ASSUME BuildsAssumption, TypeOK, NEW p, NEW n \in 0..MaxJobNum, Fork(p, n)
  PROVE  /\ p \in Pids /\ p # 0 /\ proc[p].state = "none" /\ proc' \in [Pids -> ProcType]
         /\ proc'[p] = [state |-> "runs", n |-> n]
         /\ \A q \in Pids : q # p => proc'[q] = proc[q]
<1>1. p \in Pids /\ proc[p].state = "none" BY DEF Fork, FreePids
<1>2. p # 0 BY <1>1, SMT DEF BuildsAssumption
<1>3. proc \in [Pids -> ProcType] /\ [state |-> "runs", n |-> n] \in ProcType
  BY DEF TypeOK, ProcType
<1> QED BY <1>1, <1>2, <1>3 DEF Fork

LEMMA ChildFacts ==
  ASSUME BuildsAssumption, TypeOK, NEW p, SystemWait(p)
  PROVE  /\ p \in Pids /\ p # 0 /\ proc[p].state = "zombie" /\ proc' \in [Pids -> ProcType]
         /\ \A q \in Pids : q # p => proc'[q] = proc[q]
<1>1. p \in Pids /\ proc[p].state = "zombie" BY DEF SystemWait, Zombies
<1>2. p # 0 BY <1>1, SMT DEF BuildsAssumption
<1>3. proc \in [Pids -> ProcType] BY DEF TypeOK, ProcType
<1>4. [state |-> "none", n |-> 0] \in ProcType BY SMT DEF BuildsAssumption, ProcType
<1> QED BY <1>1, <1>2, <1>3, <1>4 DEF SystemWait

LEMMA CancelFacts ==
  ASSUME BuildsAssumption, NEW list \in [Slots -> SlotType], NEW h
  PROVE  /\ Cancel_Builds(h, list) \in SUBSET Slots
         /\ \A i \in Slots : i \in Cancel_Builds(h, list)
              <=> list[i].host = h /\ list[i].job # FreeSlot
BY JobFacts, Zenon DEF Cancel_Builds, SlotType

LEMMA PartType ==
  ASSUME NEW S, NEW s \in Seq(S), NEW m \in Nat \ {0}, NEW n \in Nat
  PROVE  SubSeq(s, m, Len(s)) \in Seq(S) /\ SubSeq(s, 1, Len(s) - n) \in Seq(S)
<1>1. Len(s) \in Nat /\ \A i \in 1..Len(s) : s[i] \in S
  BY LenProperties, ElementOfSeq
<1>2. \A i \in m..Len(s) : s[i] \in S BY <1>1, SMT
<1>3. \A i \in 1..(Len(s) - n) : s[i] \in S BY <1>1, SMT
<1>4. Len(s) \in Int /\ Len(s) - n \in Int /\ m \in Int /\ 1 \in Int BY <1>1, SMT
<1>5. SubSeq(s, m, Len(s)) \in Seq(S) BY <1>2, <1>4, SubSeqProperties, Zenon
<1>6. SubSeq(s, 1, Len(s) - n) \in Seq(S) BY <1>3, <1>4, SubSeqProperties, Zenon
<1> QED BY <1>5, <1>6

\* The parts of TypeOK.
ServerType == issued \in [JobIDs -> 0..MaxJobNum] /\ sent \in 0..MaxJobNum /\ aborted \subseteq Nums
QueueType == toClient \in Seq(Messages) /\ toServer \in Seq(Jobs)
ClientType ==
  /\ slots \in [Slots -> SlotType] /\ proc \in [Pids -> ProcType]
  /\ sigChild \in BOOLEAN /\ loop \in {"select", "reap", "dead"} \cup Hosts
  /\ fd \subseteq Hosts /\ rbsPid \in [Hosts -> Pids \cup {0}]
HostType ==
  /\ remote \in [Hosts -> {"none", "up", "dead"}] /\ toHost \in [Hosts -> Seq(Messages)]
  /\ bytes \in [Hosts -> Seq(0..255)] /\ running \in [Hosts -> SUBSET Jobs]
  /\ orphans \subseteq Jobs /\ hit \subseteq 0..MaxJobNum
LEMMA TypeParts == TypeOK <=> ServerType /\ QueueType /\ ClientType /\ HostType
  BY Zenon DEF TypeOK, ServerType, QueueType, ClientType, HostType, Messages, SlotType, ProcType

TypeInv == TypeOK /\ Procs

LEMMA InitTypes == BuildsAssumption /\ Init => TypeInv
<1> SUFFICES ASSUME BuildsAssumption, Init PROVE TypeInv OBVIOUS
<1>1. PICK layout \in Layouts :
        slots = [i \in Slots |-> [host |-> layout[i], job |-> FreeSlot, pid |-> 0]]
  BY DEF Init
<1>2. layout \in [Slots -> Hosts \cup {Local}] BY DEF BuildsAssumption, Slots
<1>3. slots \in [Slots -> SlotType] BY <1>1, <1>2 DEF SlotType
<1>4. 0 \in 0..MaxJobNum BY SMT DEF BuildsAssumption
<1>5. ServerType BY <1>4 DEF Init, ServerType
<1>6. QueueType BY EmptySeq DEF Init, QueueType
<1>7. ClientType
  <2>1. proc \in [Pids -> ProcType] BY <1>4 DEF Init, ProcType
  <2> QED BY <1>3, <2>1 DEF Init, ClientType
<1>8. HostType BY EmptySeq DEF Init, HostType
<1>9. Procs BY <1>1 DEF Procs, ProcsOK, Init
<1> QED BY <1>5, <1>6, <1>7, <1>8, <1>9, TypeParts DEF TypeInv

\* BuildsDone of some builds, before which one may be in a slot.
LEMMA DoneTypes ==
  ASSUME BuildsAssumption, TypeInv, NEW list \in [Slots -> SlotType], NEW S \in SUBSET Slots,
         \A i \in S : list[i].job # FreeSlot, BuildsDone(S, list), ProcsOK(proc, list, rbsPid)
  PROVE  toServer' \in Seq(Jobs) /\ slots' \in [Slots -> SlotType]
         /\ ProcsOK(proc, slots', rbsPid)
BY DoneType, DoneProcs DEF TypeInv

LEMMA CloseTypes ==
  ASSUME BuildsAssumption, TypeInv, NEW list \in [Slots -> SlotType], NEW h,
         ProcsOK(proc, list, rbsPid), RBS_Close(h, list)
  PROVE  toServer' \in Seq(Jobs) /\ slots' \in [Slots -> SlotType]
         /\ ProcsOK(proc, slots', rbsPid) /\ fd' \subseteq fd
<1>1. /\ Cancel_Builds(h, list) \in SUBSET Slots
      /\ \A i \in Cancel_Builds(h, list) : list[i].job # FreeSlot
  BY CancelFacts
<1> QED BY <1>1, DoneTypes DEF RBS_Close

\* A build that takes a slot of a host.
LEMMA TakenForHost ==
  ASSUME BuildsAssumption, TypeInv, SlotOK, Message("build"), slots[NextSlot].host # Local
  PROVE  ProcsOK(proc, Taken(0), rbsPid)
<1>1. /\ NextSlot \in Slots /\ slots[NextSlot].job = FreeSlot /\ slots[NextSlot].pid = 0
      /\ \A i \in Slots : Taken(0)[i] = IF i = NextSlot
           THEN [host |-> slots[i].host, job |-> Received, pid |-> 0] ELSE slots[i]
  BY TakenType DEF TypeInv
<1>2. \A i \in Slots : i # NextSlot => Taken(0)[i] = slots[i] BY <1>1
<1>3. Taken(0)[NextSlot].pid = 0 /\ Taken(0)[NextSlot].host # Local
  <2>1. Taken(0)[NextSlot] = [host |-> slots[NextSlot].host, job |-> Received, pid |-> 0]
    BY <1>1, Zenon
  <2> QED BY <2>1
<1>4. ProcsOK(proc, slots, rbsPid) BY DEF TypeInv, Procs
<1> DEFINE list == Taken(0)
<1> HIDE DEF list
<1>5. \A i \in Slots : i # NextSlot => list[i] = slots[i] BY <1>2 DEF list
<1>6. list[NextSlot].pid = 0 /\ list[NextSlot].host # Local BY <1>3 DEF list
<1>7. ProcsOK(proc, list, rbsPid) BY <1>1, <1>4, <1>5, <1>6 DEF ProcsOK
<1> QED BY <1>7 DEF list

LEMMA TypeStep == BuildsAssumption /\ TypeInv /\ [Next]_vars => TypeInv'
<1> SUFFICES ASSUME BuildsAssumption, TypeInv, [Next]_vars PROVE TypeInv'
  OBVIOUS
<1>0. ServerType /\ QueueType /\ ClientType /\ HostType BY TypeParts DEF TypeInv
<1>T. ServerType' /\ QueueType' /\ ClientType' /\ HostType' => TypeOK'
  BY Zenon DEF TypeOK, ServerType, QueueType, ClientType, HostType, Messages, SlotType, ProcType
<1>P. ProcsOK(proc, slots, rbsPid) BY DEF TypeInv, Procs
<1>1. ASSUME NEW j \in JobIDs, SendBuild(j) PROVE TypeInv'
  <2>1. sent + 1 \in 0..MaxJobNum /\ sent + 1 \in Nums
    BY <1>0, <1>1, SMT DEF SendBuild, ServerType, Nums, BuildsAssumption
  <2>2. [type |-> "build", job |-> [id |-> j, n |-> sent + 1]] \in Messages
    BY <2>1 DEF Messages, Jobs
  <2>3. ServerType' BY <1>0, <1>1, <2>1, Zenon DEF SendBuild, ServerType
  <2>4. QueueType' BY <1>0, <1>1, <2>2, AppendProperties DEF SendBuild, QueueType
  <2>5. ClientType' /\ HostType' BY <1>0, <1>1 DEF SendBuild, ClientType, HostType, clientVars, hostVars
  <2>6. Procs' BY <1>P, <1>1 DEF SendBuild, clientVars, Procs, ProcsOK
  <2> QED BY <1>T, <2>3, <2>4, <2>5, <2>6 DEF TypeInv
<1>2. ASSUME NEW j \in JobIDs, SendAbort(j) PROVE TypeInv'
  <2>1. issued[j] \in Nums
    BY <1>0, <1>2, SMT DEF SendAbort, ServerType, Nums, BuildsAssumption
  <2>2. [type |-> "abort", job |-> [id |-> j, n |-> issued[j]]] \in Messages
    BY <2>1 DEF Messages, Jobs
  <2>3. ServerType' BY <1>0, <1>2, <2>1 DEF SendAbort, ServerType
  <2>4. QueueType' BY <1>0, <1>2, <2>2, AppendProperties DEF SendAbort, QueueType
  <2>5. ClientType' /\ HostType' BY <1>0, <1>2 DEF SendAbort, ClientType, HostType, clientVars, hostVars
  <2>6. Procs' BY <1>P, <1>2 DEF SendAbort, clientVars, Procs, ProcsOK
  <2> QED BY <1>T, <2>3, <2>4, <2>5, <2>6 DEF TypeInv
<1>3. ASSUME ReadAnswer PROVE TypeInv'
  <2>1. 0 \in 0..MaxJobNum BY SMT DEF BuildsAssumption
  <2>2. ServerType' BY <1>0, <1>3, <2>1, Zenon DEF ReadAnswer, ServerType
  <2>3. QueueType' BY <1>0, <1>3, HeadTailProperties DEF ReadAnswer, QueueType
  <2>4. ClientType' /\ HostType' BY <1>0, <1>3 DEF ReadAnswer, ClientType, HostType, clientVars, hostVars
  <2>5. Procs' BY <1>P, <1>3 DEF ReadAnswer, clientVars, Procs, ProcsOK
  <2> QED BY <1>T, <2>2, <2>3, <2>4, <2>5 DEF TypeInv
<1>4. ASSUME NEW p \in Pids, StartLocal(p) PROVE TypeInv'
  <2>1. Message("build") /\ toClient' = Tail(toClient)
        /\ UNCHANGED <<serverVars, sigChild, fd, rbsPid, hostVars, hit>>
    BY <1>4 DEF StartLocal
  <2>2. Received \in Jobs /\ toClient' \in Seq(Messages)
    BY <2>1, MessageType DEF TypeInv
  <2>3. ServerType' /\ HostType' BY <1>0, <2>1 DEF ServerType, HostType, serverVars, hostVars
  <2>4. CASE SlotOK
    <3>1. /\ slots[NextSlot].host = Local /\ Fork(p, Received.n) /\ slots' = Taken(p)
          /\ UNCHANGED <<toServer, loop>>
      BY <1>4, <2>4 DEF StartLocal
    <3>2. Received.n # 0 /\ Received.n \in 0..MaxJobNum BY <2>2, SMT DEF Jobs, Nums
    <3>3. /\ p # 0 /\ proc[p].state = "none" /\ proc' \in [Pids -> ProcType]
          /\ proc'[p] = [state |-> "runs", n |-> Received.n]
          /\ \A q \in Pids : q # p => proc'[q] = proc[q]
      BY <3>1, <3>2, ForkFacts DEF TypeInv
    <3>4. /\ slots' \in [Slots -> SlotType] /\ NextSlot \in Slots
          /\ \A i \in Slots : slots'[i] = IF i = NextSlot
               THEN [host |-> slots[i].host, job |-> Received, pid |-> p] ELSE slots[i]
      BY <2>1, <2>4, <3>1, TakenType DEF TypeInv
    <3>5. ClientType' BY <1>0, <2>1, <3>1, <3>3, <3>4 DEF ClientType
    <3>6. QueueType' BY <1>0, <2>2, <3>1 DEF QueueType
    <3>7. slots'[NextSlot].job = Received /\ slots'[NextSlot].pid = p BY <3>4
    <3>8. \A i \in Slots : i # NextSlot => slots'[i] = slots[i] /\ slots[i].pid # p
      <4>1. \A i \in Slots : slots[i].pid # p BY <1>P, <3>3 DEF ProcsOK
      <4> QED BY <3>4, <4>1
    <3>9. Received # FreeSlot BY <2>2, JobFacts
    <3>10. Procs'
      <4>0. rbsPid' = rbsPid BY <2>1
      <4>1. ASSUME NEW i \in Slots, slots'[i].pid # 0
            PROVE  /\ slots'[i].job # FreeSlot
                   /\ proc'[slots'[i].pid].n = slots'[i].job.n
                   /\ proc'[slots'[i].pid].state \in {"runs", "zombie"}
                   /\ \A k \in Slots : slots'[k].pid = slots'[i].pid => k = i
        <5>1. CASE i = NextSlot BY <3>3, <3>7, <3>8, <3>9, <5>1
        <5>2. CASE i # NextSlot
          <6>1. slots'[i] = slots[i] /\ slots[i].pid # p BY <3>8, <5>2
          <6>2. slots[i].pid \in Pids BY <1>0, <4>1, <6>1 DEF ClientType, SlotType
          <6>3. proc'[slots[i].pid] = proc[slots[i].pid] BY <3>3, <6>1, <6>2
          <6> QED BY <1>P, <3>7, <3>8, <4>1, <6>1, <6>3 DEF ProcsOK
        <5> QED BY <5>1, <5>2
      <4>2. ASSUME NEW i \in Slots, slots'[i].host = Local, slots'[i].job # FreeSlot
            PROVE  slots'[i].pid # 0
        BY <1>P, <3>3, <3>7, <3>8, <4>2 DEF ProcsOK
      <4>3. ASSUME NEW h \in Hosts, rbsPid'[h] # 0
            PROVE  /\ proc'[rbsPid'[h]].n = 0 /\ proc'[rbsPid'[h]].state # "none"
                   /\ \A g \in Hosts : rbsPid'[g] = rbsPid'[h] => g = h
        <5>1. rbsPid[h] \in Pids BY <1>0, <4>0, <4>3 DEF ClientType
        <5>2. rbsPid[h] # p BY <1>P, <3>3, <4>0, <4>3 DEF ProcsOK
        <5> QED BY <1>P, <3>3, <4>0, <4>3, <5>1, <5>2 DEF ProcsOK
      <4> QED BY <4>1, <4>2, <4>3 DEF Procs, ProcsOK
    <3> QED BY <1>T, <2>3, <3>5, <3>6, <3>10 DEF TypeInv
  <2>5. CASE ~SlotOK
    <3>1. loop' = "dead" /\ UNCHANGED <<slots, toServer, proc>>
      BY <1>4, <2>5 DEF StartLocal, Dies
    <3>2. ClientType' /\ QueueType' BY <1>0, <2>1, <2>2, <3>1 DEF ClientType, QueueType
    <3>3. Procs' BY <1>P, <2>1, <3>1 DEF Procs, ProcsOK
    <3> QED BY <1>T, <2>3, <3>2, <3>3 DEF TypeInv
  <2> QED BY <2>4, <2>5
<1>5. ASSUME NEW h \in Hosts, NEW p \in Pids, StartHost(h, p) PROVE TypeInv'
  <2>1. /\ Message("build") /\ SlotOK /\ slots[NextSlot].host = h /\ toClient' = Tail(toClient)
        /\ Fork(p, 0) /\ rbsPid' = [rbsPid EXCEPT ![h] = p] /\ fd' = fd \cup {h}
        /\ remote' = [remote EXCEPT ![h] = "up"]
        /\ toHost' = [toHost EXCEPT ![h] = <<Head(toClient)>>]
        /\ bytes' = [bytes EXCEPT ![h] = <<>>] /\ running' = [running EXCEPT ![h] = {}]
        /\ slots' = Taken(0)
        /\ UNCHANGED <<serverVars, toServer, sigChild, loop, orphans, hit>>
    BY <1>5 DEF StartHost
  <2>2. Head(toClient) \in Messages /\ toClient' \in Seq(Messages)
    BY <2>1, MessageType DEF TypeInv
  <2>3. 0 \in 0..MaxJobNum BY SMT DEF BuildsAssumption
  <2>4. /\ p # 0 /\ proc[p].state = "none" /\ proc' \in [Pids -> ProcType]
        /\ proc'[p] = [state |-> "runs", n |-> 0]
        /\ \A q \in Pids : q # p => proc'[q] = proc[q]
    BY <2>1, <2>3, ForkFacts DEF TypeInv
  <2>5. slots' \in [Slots -> SlotType] BY <2>1, TakenType DEF TypeInv
  <2>6. slots[NextSlot].host # Local BY <2>1 DEF BuildsAssumption
  <2>7. ProcsOK(proc, slots', rbsPid) BY <2>1, <2>6, TakenForHost
  <2>8. ServerType' /\ QueueType' BY <1>0, <2>1, <2>2 DEF ServerType, QueueType, serverVars
  <2>9. ClientType' BY <1>0, <2>1, <2>4, <2>5 DEF ClientType
  <2>10. HostType'
    <3>1. <<Head(toClient)>> \in Seq(Messages) BY <2>2
    <3>2. <<>> \in Seq(0..255) BY EmptySeq
    <3> QED BY <1>0, <2>1, <3>1, <3>2 DEF HostType
  <2>11. Procs'
    <3>1. ASSUME NEW i \in Slots, slots'[i].pid # 0
          PROVE  slots'[i].pid # p /\ proc'[slots'[i].pid] = proc[slots'[i].pid]
      <4>1. slots'[i].pid \in Pids BY <2>5, <3>1 DEF SlotType
      <4>2. slots'[i].pid # p BY <2>4, <2>7, <3>1 DEF ProcsOK
      <4> QED BY <2>4, <4>1, <4>2
    <3>2. ASSUME NEW g \in Hosts, rbsPid[g] # 0
          PROVE  rbsPid[g] # p /\ proc'[rbsPid[g]] = proc[rbsPid[g]]
      <4>1. rbsPid[g] \in Pids BY <1>0, <3>2 DEF ClientType
      <4>2. rbsPid[g] # p BY <2>4, <2>7, <3>2 DEF ProcsOK
      <4> QED BY <2>4, <4>1, <4>2
    <3>3. rbsPid'[h] = p /\ \A g \in Hosts : g # h => rbsPid'[g] = rbsPid[g]
      BY <1>0, <2>1 DEF ClientType
    <3>4. ASSUME NEW g \in Hosts, rbsPid'[g] # 0
          PROVE  /\ proc'[rbsPid'[g]].n = 0 /\ proc'[rbsPid'[g]].state # "none"
                 /\ \A k \in Hosts : rbsPid'[k] = rbsPid'[g] => k = g
      <4>1. CASE g = h BY <2>4, <3>2, <3>3, <4>1
      <4>2. CASE g # h
        <5>1. rbsPid'[g] = rbsPid[g] /\ rbsPid[g] # p /\ proc'[rbsPid[g]] = proc[rbsPid[g]]
          BY <3>2, <3>3, <3>4, <4>2
        <5> QED BY <2>7, <3>3, <3>4, <4>2, <5>1 DEF ProcsOK
      <4> QED BY <4>1, <4>2
    <3>5. ProcsOK(proc', slots', rbsPid') BY <2>7, <3>1, <3>4 DEF ProcsOK
    <3> QED BY <3>5 DEF Procs, ProcsOK
  <2> QED BY <1>T, <2>8, <2>9, <2>10, <2>11 DEF TypeInv
<1>6. ASSUME NEW h \in Hosts, SendToHost(h) PROVE TypeInv'
  <2>1. /\ Message("build") /\ SlotOK /\ slots[NextSlot].host = h /\ toClient' = Tail(toClient)
        /\ UNCHANGED <<serverVars, proc, sigChild, loop, rbsPid, remote, bytes, running, orphans, hit>>
    BY <1>6 DEF SendToHost
  <2>2. Head(toClient) \in Messages /\ toClient' \in Seq(Messages)
    BY <2>1, MessageType DEF TypeInv
  <2>3. Taken(0) \in [Slots -> SlotType] BY <2>1, TakenType DEF TypeInv
  <2>4. slots[NextSlot].host # Local BY <2>1 DEF BuildsAssumption
  <2>5. ProcsOK(proc, Taken(0), rbsPid) BY <2>1, <2>4, TakenForHost
  <2>6. /\ toServer' \in Seq(Jobs) /\ slots' \in [Slots -> SlotType] /\ fd' \subseteq fd
        /\ ProcsOK(proc, slots', rbsPid) /\ toHost' \in [Hosts -> Seq(Messages)]
    <3>1. CASE /\ toHost' = [toHost EXCEPT ![h] = Append(@, Head(toClient))]
               /\ slots' = Taken(0) /\ UNCHANGED <<toServer, fd>>
      <4>1. toHost' \in [Hosts -> Seq(Messages)]
        BY <1>0, <2>2, <3>1, AppendProperties DEF HostType
      <4> QED BY <1>0, <2>3, <2>5, <3>1, <4>1 DEF QueueType
    <3>2. CASE RBS_Close(h, Taken(0)) /\ UNCHANGED toHost
      BY <1>0, <2>3, <2>5, <3>2, CloseTypes DEF HostType
    <3> QED BY <1>6, <3>1, <3>2 DEF SendToHost
  <2>7. ServerType' /\ QueueType' BY <1>0, <2>1, <2>2, <2>6 DEF ServerType, QueueType, serverVars
  <2>8. ClientType' BY <1>0, <2>1, <2>6 DEF ClientType
  <2>9. HostType' BY <1>0, <2>1, <2>6 DEF HostType
  <2>10. Procs' BY <2>1, <2>6 DEF Procs, ProcsOK
  <2> QED BY <1>T, <2>7, <2>8, <2>9, <2>10 DEF TypeInv
<1>7. ASSUME AbortEnded PROVE TypeInv'
  <2>1. toClient' \in Seq(Messages) BY <1>7, MessageType DEF TypeInv, AbortEnded
  <2>2. ServerType' /\ ClientType' /\ HostType'
    BY <1>0, <1>7 DEF AbortEnded, serverVars, ServerType, ClientType, HostType, clientVars, hostVars
  <2>3. QueueType' BY <1>0, <1>7, <2>1 DEF AbortEnded, QueueType
  <2>4. Procs' BY <1>P, <1>7 DEF AbortEnded, clientVars, Procs, ProcsOK
  <2> QED BY <1>T, <2>2, <2>3, <2>4 DEF TypeInv
<1>8. ASSUME AbortLocal PROVE TypeInv'
  <2>1. Message("abort") /\ toClient' = Tail(toClient)
        /\ UNCHANGED <<serverVars, toServer, clientVars, hostVars>>
    BY <1>8 DEF AbortLocal
  <2>2. PICK i \in JobID_Build(Received.id) :
          slots[i].host = Local /\ hit' = hit \cup {proc[slots[i].pid].n}
    BY <1>8 DEF AbortLocal
  <2>3. Received \in Jobs /\ toClient' \in Seq(Messages)
    BY <2>1, MessageType DEF TypeInv
  <2>4. i \in Slots /\ slots[i] \in SlotType /\ slots[i].job # FreeSlot
    BY <1>0, <2>2, <2>3, JobFacts DEF JobID_Build, ClientType, FreeSlot
  <2>5. slots[i].pid \in Pids
    <3>1. slots[i].pid # 0 BY <1>P, <2>2, <2>4, Zenon DEF ProcsOK
    <3> QED BY <2>4, <3>1 DEF SlotType
  <2>6. proc[slots[i].pid].n \in 0..MaxJobNum BY <1>0, <2>5 DEF ClientType, ProcType
  <2>7. HostType' BY <1>0, <2>1, <2>2, <2>6, ZenonT(30) DEF HostType, hostVars
  <2>8. ServerType' /\ QueueType' /\ ClientType'
    BY <1>0, <2>1, <2>3 DEF serverVars, clientVars, ServerType, QueueType, ClientType
  <2>9. Procs' BY <1>P, <2>1 DEF clientVars, Procs, ProcsOK
  <2> QED BY <1>T, <2>7, <2>8, <2>9 DEF TypeInv
<1>9. ASSUME NEW h \in Hosts, AbortRemote(h) PROVE TypeInv'
  <2>1. /\ Message("abort") /\ toClient' = Tail(toClient)
        /\ UNCHANGED <<serverVars, proc, sigChild, loop, rbsPid, remote, bytes, running, orphans, hit>>
    BY <1>9 DEF AbortRemote
  <2>2. Head(toClient) \in Messages /\ toClient' \in Seq(Messages)
    BY <2>1, MessageType DEF TypeInv
  <2>3. /\ toServer' \in Seq(Jobs) /\ slots' \in [Slots -> SlotType] /\ fd' \subseteq fd
        /\ ProcsOK(proc, slots', rbsPid) /\ toHost' \in [Hosts -> Seq(Messages)]
    <3>1. CASE /\ toHost' = [toHost EXCEPT ![h] = Append(@, Head(toClient))]
               /\ UNCHANGED <<slots, toServer, fd>>
      <4>1. toHost' \in [Hosts -> Seq(Messages)]
        BY <1>0, <2>2, <3>1, AppendProperties DEF HostType
      <4> QED BY <1>0, <1>P, <3>1, <4>1 DEF QueueType, ClientType
    <3>2. CASE RBS_Close(h, slots) /\ UNCHANGED toHost
      BY <1>0, <1>P, <3>2, CloseTypes DEF HostType, ClientType
    <3> QED BY <1>9, <3>1, <3>2 DEF AbortRemote
  <2>4. ServerType' /\ QueueType' BY <1>0, <2>1, <2>2, <2>3 DEF ServerType, QueueType, serverVars
  <2>5. ClientType' BY <1>0, <2>1, <2>3 DEF ClientType
  <2>6. HostType' BY <1>0, <2>1, <2>3 DEF HostType
  <2>7. Procs' BY <2>1, <2>3 DEF Procs, ProcsOK
  <2> QED BY <1>T, <2>4, <2>5, <2>6, <2>7 DEF TypeInv
<1>10. ASSUME ChildAction \/ ChildActionEnds PROVE TypeInv'
  <2>1. ServerType' /\ QueueType' /\ ClientType' /\ HostType'
    <3>1. CASE ChildAction
      BY <1>0, <3>1 DEF ChildAction, serverVars, hostVars, ServerType, QueueType, ClientType, HostType
    <3>2. CASE ChildActionEnds
      BY <1>0, <3>2 DEF ChildActionEnds, serverVars, hostVars,
                        ServerType, QueueType, ClientType, HostType
    <3> QED BY <1>10, <3>1, <3>2
  <2>2. Procs' BY <1>P, <1>10 DEF ChildAction, ChildActionEnds, Procs, ProcsOK
  <2> QED BY <1>T, <2>1, <2>2 DEF TypeInv
<1>11. ASSUME NEW h \in Hosts, NEW p \in Pids, HostReaped(h, p) PROVE TypeInv'
  <2>1. /\ SystemWait(p) /\ rbsPid[h] = p /\ rbsPid' = [rbsPid EXCEPT ![h] = 0]
        /\ UNCHANGED <<serverVars, toClient, sigChild, loop, hostVars, hit>>
    BY <1>11 DEF HostReaped
  <2>2. /\ p # 0 /\ proc' \in [Pids -> ProcType]
        /\ \A q \in Pids : q # p => proc'[q] = proc[q]
    <3>1. TypeOK BY DEF TypeInv
    <3> QED BY <2>1, <3>1, ChildFacts, ZenonT(30)
  <2>3. /\ toServer' \in Seq(Jobs) /\ slots' \in [Slots -> SlotType] /\ fd' \subseteq fd
        /\ ProcsOK(proc, slots', rbsPid)
    <3>1. CASE RBS_Close(h, slots) BY <1>0, <1>P, <3>1, CloseTypes DEF ClientType
    <3>2. CASE UNCHANGED <<slots, toServer, fd>>
      BY <1>0, <1>P, <3>2 DEF ClientType, QueueType
    <3> QED BY <1>11, <3>1, <3>2 DEF HostReaped
  <2>4. ServerType' /\ QueueType' /\ HostType'
    BY <1>0, <2>1, <2>3 DEF ServerType, QueueType, HostType, serverVars, hostVars
  <2>5. ClientType' BY <1>0, <2>1, <2>2, <2>3 DEF ClientType
  <2>6. ASSUME NEW i \in Slots, slots'[i].pid # 0
        PROVE  proc'[slots'[i].pid] = proc[slots'[i].pid]
    <3>1. slots'[i].pid \in Pids /\ slots'[i].job \in Jobs
      BY <2>3, <2>6 DEF ProcsOK, SlotType
    <3>2. slots'[i].job.n # 0 BY <3>1, JobFacts
    <3>3. slots'[i].pid # p BY <2>1, <2>2, <2>3, <2>6, <3>2 DEF ProcsOK
    <3> QED BY <2>2, <3>1, <3>3
  <2>7. ASSUME NEW g \in Hosts, rbsPid'[g] # 0
        PROVE  /\ proc'[rbsPid'[g]].n = 0 /\ proc'[rbsPid'[g]].state # "none"
               /\ \A k \in Hosts : rbsPid'[k] = rbsPid'[g] => k = g
    <3>1. g # h /\ rbsPid'[g] = rbsPid[g] BY <1>0, <2>1, <2>7 DEF ClientType
    <3>2. rbsPid[g] \in Pids BY <1>0, <2>7, <3>1 DEF ClientType
    <3>3. rbsPid[g] # p BY <1>P, <2>1, <2>2, <3>1 DEF ProcsOK
    <3>4. proc'[rbsPid[g]] = proc[rbsPid[g]] BY <2>2, <3>2, <3>3
    <3>5. rbsPid'[h] = 0 /\ \A k \in Hosts : k # h => rbsPid'[k] = rbsPid[k]
      BY <1>0, <2>1 DEF ClientType
    <3> QED BY <1>P, <2>7, <3>1, <3>4, <3>5 DEF ProcsOK
  <2>8. ProcsOK(proc', slots', rbsPid') BY <2>3, <2>6, <2>7 DEF ProcsOK
  <2>9. Procs' BY <2>8 DEF Procs, ProcsOK
  <2> QED BY <1>T, <2>4, <2>5, <2>9 DEF TypeInv
<1>12. ASSUME NEW p \in Pids, BuildReaped(p) PROVE TypeInv'
  <2>1. /\ SystemWait(p) /\ \A h \in Hosts : rbsPid[h] # p
        /\ UNCHANGED <<serverVars, toClient, sigChild, fd, rbsPid, hostVars, hit>>
    BY <1>12 DEF BuildReaped
  <2>2. /\ p # 0 /\ proc' \in [Pids -> ProcType]
        /\ \A q \in Pids : q # p => proc'[q] = proc[q]
    BY <2>1, ChildFacts DEF TypeInv
  <2>3. /\ toServer' \in Seq(Jobs) /\ slots' \in [Slots -> SlotType]
        /\ ProcsOK(proc, slots', rbsPid) /\ \A i \in Slots : slots'[i].pid # p
        /\ loop' \in {"select", "reap", "dead"} \cup Hosts
    <3>1. CASE BuildID_Build(p) = {}
      <4>1. loop' = "dead" /\ UNCHANGED <<slots, toServer>>
        BY <1>12, <3>1 DEF BuildReaped, Dies
      <4> QED BY <1>0, <1>P, <3>1, <4>1 DEF BuildID_Build, QueueType, ClientType
    <3>2. CASE BuildID_Build(p) # {}
      <4>1. BuildsDone(BuildID_Build(p), slots) /\ UNCHANGED loop
        BY <1>12, <3>2 DEF BuildReaped
      <4>2. /\ BuildID_Build(p) \in SUBSET Slots
            /\ \A i \in BuildID_Build(p) : slots[i].job # FreeSlot
        BY <1>P, <2>2 DEF BuildID_Build, ProcsOK
      <4>3. /\ slots' \in [Slots -> SlotType] /\ toServer' \in Seq(Jobs)
            /\ ProcsOK(proc, slots', rbsPid)
        BY <1>0, <1>P, <4>1, <4>2, DoneTypes DEF ClientType
      <4>4. \A i \in Slots : slots'[i] = IF i \in BuildID_Build(p)
              THEN [host |-> slots[i].host, job |-> FreeSlot, pid |-> 0] ELSE slots[i]
        BY <1>0, <4>1, <4>2, DoneType DEF TypeInv, ClientType
      <4>5. ASSUME NEW i \in Slots PROVE slots'[i].pid # p
        <5>1. CASE i \in BuildID_Build(p)
          <6>1. slots'[i] = [host |-> slots[i].host, job |-> FreeSlot, pid |-> 0] BY <4>4, <5>1
          <6> QED BY <2>2, <6>1
        <5>2. CASE i \notin BuildID_Build(p)
          <6>1. slots'[i] = slots[i] BY <4>4, <5>2
          <6> QED BY <5>2, <6>1 DEF BuildID_Build
        <5> QED BY <5>1, <5>2
      <4> QED BY <1>0, <4>1, <4>3, <4>5 DEF ClientType
    <3> QED BY <3>1, <3>2
  <2>4. ServerType' /\ QueueType' /\ HostType'
    BY <1>0, <2>1, <2>3 DEF ServerType, QueueType, HostType, serverVars, hostVars
  <2>5. ClientType' BY <1>0, <2>1, <2>2, <2>3 DEF ClientType
  <2>6. ASSUME NEW i \in Slots, slots'[i].pid # 0
        PROVE  proc'[slots'[i].pid] = proc[slots'[i].pid]
    BY <2>2, <2>3, <2>6 DEF SlotType
  <2>7. ASSUME NEW h \in Hosts, rbsPid[h] # 0 PROVE proc'[rbsPid[h]] = proc[rbsPid[h]]
    BY <1>0, <2>1, <2>2, <2>7 DEF ClientType
  <2>8. ProcsOK(proc', slots', rbsPid) BY <2>3, <2>6, <2>7 DEF ProcsOK
  <2>9. rbsPid' = rbsPid BY <2>1
  <2>10. Procs' BY <2>8, <2>9 DEF Procs, ProcsOK
  <2> QED BY <1>T, <2>4, <2>5, <2>10 DEF TypeInv
<1>13. ASSUME NEW h \in Hosts, GetAnswer(h) PROVE TypeInv'
  <2>1. UNCHANGED <<serverVars, toClient, proc, sigChild, fd, rbsPid, remote, toHost, running, orphans, hit>>
    BY <1>13 DEF GetAnswer
  <2>2. /\ bytes' \in [Hosts -> Seq(0..255)] /\ toServer' \in Seq(Jobs)
        /\ slots' \in [Slots -> SlotType] /\ ProcsOK(proc, slots', rbsPid)
        /\ loop' \in {"select", "reap", "dead"} \cup Hosts
    <3>1. CASE Len(bytes[h]) < AnswerBytes
      BY <1>0, <1>P, <1>13, <3>1 DEF GetAnswer, QueueType, ClientType, HostType
    <3>2. CASE ~(Len(bytes[h]) < AnswerBytes)
      <4> DEFINE id == ReadID(bytes[h])
      <4>1. /\ bytes' = [bytes EXCEPT ![h] = SubSeq(@, AnswerBytes + 1, Len(@))]
            /\ IF id = 0 \/ JobID_Build(id) = {} THEN Dies
               ELSE BuildsDone(JobID_Build(id), slots) /\ loop' = "select"
        BY <1>13, <3>2 DEF GetAnswer
      <4>2. bytes' \in [Hosts -> Seq(0..255)]
        <5>1. AnswerBytes + 1 \in Nat \ {0}
          BY SMT DEF AnswerBytes, IntBytes, BuildsAssumption
        <5>2. SubSeq(bytes[h], AnswerBytes + 1, Len(bytes[h])) \in Seq(0..255)
          BY <1>0, <5>1, PartType DEF HostType
        <5> QED BY <1>0, <4>1, <5>2 DEF HostType
      <4>3. CASE Dies BY <1>0, <1>P, <4>2, <4>3 DEF Dies, QueueType, ClientType
      <4>4. CASE id # 0 /\ BuildsDone(JobID_Build(id), slots) /\ loop' = "select"
        <5>1. /\ JobID_Build(id) \in SUBSET Slots
              /\ \A i \in JobID_Build(id) : slots[i].job # FreeSlot
          BY <4>4 DEF JobID_Build, FreeSlot
        <5> QED BY <1>0, <1>P, <4>2, <4>4, <5>1, DoneTypes DEF ClientType
      <4> QED BY <4>1, <4>3, <4>4
    <3> QED BY <3>1, <3>2
  <2>3. ServerType' /\ QueueType' /\ HostType'
    BY <1>0, <2>1, <2>2 DEF ServerType, QueueType, HostType, serverVars
  <2>4. ClientType' BY <1>0, <2>1, <2>2 DEF ClientType
  <2>5. Procs' BY <2>1, <2>2 DEF Procs, ProcsOK
  <2> QED BY <1>T, <2>3, <2>4, <2>5 DEF TypeInv
<1>14. ASSUME NEW h \in Hosts, HostGone(h) PROVE TypeInv'
  <2>1. RBS_Close(h, slots) /\ loop' = "select"
        /\ UNCHANGED <<serverVars, toClient, proc, sigChild, rbsPid, hostVars, hit>>
    BY <1>14 DEF HostGone
  <2>2. /\ toServer' \in Seq(Jobs) /\ slots' \in [Slots -> SlotType] /\ fd' \subseteq fd
        /\ ProcsOK(proc, slots', rbsPid)
    BY <1>0, <1>P, <2>1, CloseTypes DEF ClientType
  <2>3. ServerType' /\ QueueType' /\ HostType'
    BY <1>0, <2>1, <2>2 DEF ServerType, QueueType, HostType, serverVars, hostVars
  <2>4. ClientType' BY <1>0, <2>1, <2>2 DEF ClientType
  <2>5. Procs' BY <2>1, <2>2 DEF Procs, ProcsOK
  <2> QED BY <1>T, <2>3, <2>4, <2>5 DEF TypeInv
<1>15. ASSUME NEW h \in Hosts, NEW type, HostMessage(h, type)
       PROVE  Head(toHost[h]) \in Messages /\ toHost' \in [Hosts -> Seq(Messages)]
  <2>1. toHost[h] \in Seq(Messages) /\ toHost[h] # <<>> BY <1>0, <1>15 DEF HostMessage, HostType
  <2>2. Head(toHost[h]) \in Messages /\ Tail(toHost[h]) \in Seq(Messages)
    BY <2>1, HeadTailProperties
  <2> QED BY <1>0, <1>15, <2>2 DEF HostMessage, HostType
<1>16. ASSUME NEW h \in Hosts, HostBuild(h) PROVE TypeInv'
  <2>1. Head(toHost[h]).job \in Jobs /\ toHost' \in [Hosts -> Seq(Messages)]
    BY <1>15, <1>16 DEF HostBuild, Messages
  <2>2. HostType' BY <1>0, <1>16, <2>1 DEF HostBuild, HostType
  <2>3. ServerType' /\ QueueType' /\ ClientType'
    BY <1>0, <1>16 DEF HostBuild, ServerType, QueueType, ClientType, serverVars, clientVars
  <2>4. Procs' BY <1>P, <1>16 DEF HostBuild, clientVars, Procs, ProcsOK
  <2> QED BY <1>T, <2>2, <2>3, <2>4 DEF TypeInv
<1>17. ASSUME NEW h \in Hosts, HostAbort(h) PROVE TypeInv'
  <2>1. toHost' \in [Hosts -> Seq(Messages)] BY <1>15, <1>17 DEF HostAbort
  <2>2. running[h] \subseteq Jobs BY <1>0 DEF HostType
  <2>3. \A b \in HostBuilds(h, Head(toHost[h]).job.id) : b.n \in 0..MaxJobNum
    BY <2>2, SMT DEF HostBuilds, Jobs, Nums
  <2>4. HostType'
    <3>1. hit' = hit \cup {b.n : b \in HostBuilds(h, Head(toHost[h]).job.id)}
      BY <1>17, Zenon DEF HostAbort
    <3>2. hit' \subseteq 0..MaxJobNum
      <4> DEFINE new == {b.n : b \in HostBuilds(h, Head(toHost[h]).job.id)}
      <4>1. hit \subseteq 0..MaxJobNum BY <1>0 DEF HostType
      <4>2. ASSUME NEW x \in new PROVE x \in 0..MaxJobNum
        <5>1. PICK b \in HostBuilds(h, Head(toHost[h]).job.id) : x = b.n BY <4>2
        <5> QED BY <2>3, <5>1
      <4>3. hit' = hit \cup new BY <3>1
      <4> HIDE DEF new
      <4> QED BY <4>1, <4>2, <4>3, Zenon
    <3> QED BY <1>0, <1>17, <2>1, <3>2, Zenon DEF HostAbort, HostType
  <2>5. ServerType' /\ QueueType' /\ ClientType'
    BY <1>0, <1>17 DEF HostAbort, ServerType, QueueType, ClientType, serverVars, clientVars
  <2>6. Procs' BY <1>P, <1>17 DEF HostAbort, clientVars, Procs, ProcsOK
  <2> QED BY <1>T, <2>4, <2>5, <2>6 DEF TypeInv
<1>18. ASSUME NEW h \in Hosts, NEW b \in Jobs, NEW abort \in {0, 1}, HostBuildEnds(h, b, abort)
       PROVE  TypeInv'
  <2>1. IntBytes(b.id) \in Seq(0..255) /\ IntBytes(abort) \in Seq(0..255)
    <3>1. b.id \in 0..255 /\ abort \in 0..255 /\ 0 \in 0..255
      <4>1. b.id \in JobIDs BY JobFacts
      <4>2. b.id \in 1..255 BY <4>1, Zenon DEF BuildsAssumption
      <4> QED BY <4>2, <1>18, SMT
    <3> QED BY <3>1 DEF IntBytes
  <2>2. bytes[h] \o IntBytes(b.id) \o IntBytes(abort) \in Seq(0..255)
    BY <1>0, <2>1, ConcatProperties DEF HostType
  <2>3. HostType' BY <1>0, <1>18, <2>2 DEF HostBuildEnds, HostType
  <2>4. ServerType' /\ QueueType' /\ ClientType'
    BY <1>0, <1>18 DEF HostBuildEnds, ServerType, QueueType, ClientType, serverVars, clientVars
  <2>5. Procs' BY <1>P, <1>18 DEF HostBuildEnds, clientVars, Procs, ProcsOK
  <2> QED BY <1>T, <2>3, <2>4, <2>5 DEF TypeInv
<1>19. ASSUME NEW h \in Hosts, HostDies(h) PROVE TypeInv'
  <2>1. bytes' \in [Hosts -> Seq(0..255)]
    <3>1. CASE UNCHANGED bytes BY <1>0, <3>1 DEF HostType
    <3>2. CASE bytes' = [bytes EXCEPT ![h] = <<>>]
      BY <1>0, <3>2, EmptySeq DEF HostType
    <3>3. CASE bytes' = [bytes EXCEPT ![h] = SubSeq(@, 1, Len(@) - 4)]
      <4>1. SubSeq(bytes[h], 1, Len(bytes[h]) - 4) \in Seq(0..255)
        BY <1>0, PartType, 1 \in Nat \ {0}, 4 \in Nat DEF HostType
      <4> QED BY <1>0, <3>3, <4>1 DEF HostType
    <3> QED BY <1>19, <3>1, <3>2, <3>3 DEF HostDies
  <2>2. /\ remote' \in [Hosts -> {"none", "up", "dead"}] /\ toHost' \in [Hosts -> Seq(Messages)]
        /\ running' \in [Hosts -> SUBSET Jobs]
    BY <1>0, <1>19, EmptySeq DEF HostDies, HostType
  <2>3. HostType'
    <3>1. running[h] \subseteq Jobs BY <1>0 DEF HostType
    <3>2. orphans' \subseteq Jobs BY <1>0, <1>19, <3>1 DEF HostDies, HostType
    <3>3. hit' \subseteq 0..MaxJobNum
      <4> DEFINE new == {b.n : b \in running[h]}
      <4>1. hit \subseteq 0..MaxJobNum BY <1>0 DEF HostType
      <4>2. \A b \in running[h] : b.n \in 0..MaxJobNum BY <3>1, SMT DEF Jobs, Nums
      <4>3. ASSUME NEW x \in new PROVE x \in 0..MaxJobNum
        <5>1. PICK b \in running[h] : x = b.n BY <4>3
        <5> QED BY <4>2, <5>1
      <4>4. hit' = hit \/ hit' = hit \cup new BY <1>19 DEF HostDies
      <4> HIDE DEF new
      <4> QED BY <4>1, <4>3, <4>4, Zenon
    <3> QED BY <2>1, <2>2, <3>2, <3>3 DEF HostType
  <2>4. /\ proc' \in [Pids -> ProcType]
        /\ \A q \in Pids : q # rbsPid[h] => proc'[q] = proc[q]
        /\ \A q \in Pids : proc'[q].n = proc[q].n
        /\ rbsPid[h] \in Pids => proc'[rbsPid[h]].state = "exits"
    <3>1. proc' = [proc EXCEPT ![rbsPid[h]].state = "exits"] BY <1>19 DEF HostDies
    <3>2. rbsPid[h] \in Pids =>
            proc' = [proc EXCEPT ![rbsPid[h]] = [proc[rbsPid[h]] EXCEPT !.state = "exits"]]
      BY <3>1
    <3>3. proc \in [Pids -> ProcType] BY <1>0 DEF ClientType
    <3>4. \A q \in Pids : /\ [proc[q] EXCEPT !.state = "exits"] \in ProcType
                          /\ [proc[q] EXCEPT !.state = "exits"].n = proc[q].n
                          /\ [proc[q] EXCEPT !.state = "exits"].state = "exits"
      <4>1. ASSUME NEW x \in ProcType
            PROVE  /\ [x EXCEPT !.state = "exits"] \in ProcType
                   /\ [x EXCEPT !.state = "exits"].n = x.n
                   /\ [x EXCEPT !.state = "exits"].state = "exits"
        BY DEF ProcType
      <4> QED BY <3>3, <4>1
    <3>5. CASE rbsPid[h] \in Pids BY <3>2, <3>3, <3>4, <3>5, ZenonT(30)
    <3>6. CASE rbsPid[h] \notin Pids
      <4>1. proc' = proc BY <3>1, <3>3, <3>6
      <4> QED BY <3>3, <3>6, <4>1
    <3> QED BY <3>5, <3>6
  <2>5. ServerType' /\ QueueType' /\ ClientType'
    BY <1>0, <1>19, <2>4 DEF HostDies, ServerType, QueueType, ClientType, serverVars
  <2>6. slots' = slots /\ rbsPid' = rbsPid BY <1>19 DEF HostDies
  <2>7. ASSUME NEW i \in Slots, slots[i].pid # 0 PROVE proc'[slots[i].pid] = proc[slots[i].pid]
    <3>1. slots[i].pid \in Pids /\ slots[i].job \in Jobs
      BY <1>0, <1>P, <2>7 DEF ProcsOK, ClientType, SlotType
    <3>2. slots[i].job.n # 0 BY <3>1, JobFacts
    <3>3. slots[i].pid # rbsPid[h] BY <1>P, <2>7, <3>2 DEF ProcsOK
    <3> QED BY <2>4, <3>1, <3>3
  <2>8. ASSUME NEW g \in Hosts, rbsPid[g] # 0
        PROVE  proc'[rbsPid[g]].n = 0 /\ proc'[rbsPid[g]].state # "none"
    <3>1. rbsPid[g] \in Pids BY <1>0, <2>8 DEF ClientType
    <3> QED BY <1>P, <2>4, <2>8, <3>1 DEF ProcsOK
  <2>9. ProcsOK(proc', slots, rbsPid) BY <1>P, <2>7, <2>8 DEF ProcsOK
  <2>10. Procs' BY <2>6, <2>9 DEF Procs, ProcsOK
  <2> QED BY <1>T, <2>3, <2>5, <2>10 DEF TypeInv
<1>20. ASSUME NEW p \in Pids, ChildEnds(p) PROVE TypeInv'
  <2>1. /\ proc' \in [Pids -> ProcType] /\ proc'[p].state = "zombie"
        /\ \A q \in Pids : q # p => proc'[q] = proc[q]
        /\ \A q \in Pids : proc'[q].n = proc[q].n
    BY <1>0, <1>20 DEF ChildEnds, ClientType, ProcType
  <2>2. ServerType' /\ QueueType' /\ ClientType' /\ HostType'
    BY <1>0, <1>20, <2>1 DEF ChildEnds, ServerType, QueueType, ClientType, HostType,
                             serverVars, hostVars
  <2>3. slots' = slots /\ rbsPid' = rbsPid BY <1>20 DEF ChildEnds
  <2>4. ASSUME NEW i \in Slots, slots[i].pid # 0
        PROVE  /\ proc'[slots[i].pid].n = slots[i].job.n
               /\ proc'[slots[i].pid].state \in {"runs", "zombie"}
    <3>1. slots[i].pid \in Pids BY <1>0, <2>4 DEF ClientType, SlotType
    <3> QED BY <1>P, <2>1, <2>4, <3>1 DEF ProcsOK
  <2>5. ASSUME NEW g \in Hosts, rbsPid[g] # 0
        PROVE  proc'[rbsPid[g]].n = 0 /\ proc'[rbsPid[g]].state # "none"
    <3>1. rbsPid[g] \in Pids BY <1>0, <2>5 DEF ClientType
    <3> QED BY <1>P, <2>1, <2>5, <3>1 DEF ProcsOK
  <2>6. ProcsOK(proc', slots, rbsPid) BY <1>P, <2>4, <2>5 DEF ProcsOK
  <2>7. Procs' BY <2>3, <2>6 DEF Procs, ProcsOK
  <2> QED BY <1>T, <2>2, <2>7 DEF TypeInv
<1>21. ASSUME UNCHANGED vars PROVE TypeInv'
  <2>1. ServerType' /\ QueueType' /\ ClientType' /\ HostType'
    BY <1>0, <1>21 DEF vars, serverVars, clientVars, hostVars,
                       ServerType, QueueType, ClientType, HostType
  <2>2. Procs' BY <1>P, <1>21 DEF vars, clientVars, Procs, ProcsOK
  <2> QED BY <1>T, <2>1, <2>2 DEF TypeInv
<1> QED
  <2>1. CASE Client
    BY <2>1, <1>4, <1>5, <1>6, <1>7, <1>8, <1>9, <1>10, <1>11, <1>12, <1>13, <1>14 DEF Client
  <2> QED
    BY <2>1, <1>1, <1>2, <1>3, <1>16, <1>17, <1>18, <1>19, <1>20, <1>21 DEF Next, HostBuildEnd

\* The type invariant of OdinBuilds.
THEOREM TypeCorrect == Spec => []TypeOK
<1>1. Init => TypeInv BY InitTypes, BuildsAssumption
<1>2. TypeInv /\ [Next]_vars => TypeInv' BY TypeStep, BuildsAssumption
<1>3. TypeInv => TypeOK BY DEF TypeInv
<1> QED BY <1>1, <1>2, <1>3, PTL DEF Spec

-----------------------------------------------------------------------------
(* A build the server has under a JobID is in one place: on its way to the   *)
(* client, in a slot, or answered.  The proofs of AnswersMatch and of        *)
(* ImplementsJobs rest on it.                                                *)

OwnOK(is, queue, list, answers) ==
  /\ \A k \in Builds(queue) : is[queue[k].job.id] = queue[k].job.n
  /\ \A i \in Slots : list[i].job # FreeSlot => is[list[i].job.id] = list[i].job.n
  /\ \A k \in DOMAIN answers : is[answers[k].id] = answers[k].n
  /\ \A k, m \in Builds(queue) : queue[k].job.id = queue[m].job.id => k = m
  /\ \A i, k \in Slots : list[i].job # FreeSlot /\ list[k].job.id = list[i].job.id => k = i
  /\ \A k, m \in DOMAIN answers : answers[k].id = answers[m].id => k = m
  /\ \A k \in Builds(queue), i \in Slots : list[i].job.id # queue[k].job.id
  /\ \A k \in Builds(queue), m \in DOMAIN answers : answers[m].id # queue[k].job.id
  /\ \A i \in Slots, m \in DOMAIN answers : list[i].job.id # answers[m].id
Own == OwnOK(issued, toClient, slots, toServer)

\* What is queued after the head, and before or at the end.
LEMMA TailBuilds ==
  ASSUME NEW queue \in Seq(Messages), queue # <<>>
  PROVE  /\ \A k \in Builds(Tail(queue)) : k + 1 \in Builds(queue) /\ k + 1 # 1
                                           /\ Tail(queue)[k] = queue[k + 1]
         /\ \A k, m \in Builds(Tail(queue)) : k + 1 = m + 1 => k = m
         /\ Head(queue).type = "build" => 1 \in Builds(queue) /\ Head(queue) = queue[1]
<1>1. /\ Tail(queue) \in Seq(Messages) /\ Len(Tail(queue)) = Len(queue) - 1
      /\ \A i \in 1..Len(Tail(queue)) : Tail(queue)[i] = queue[i + 1]
  BY HeadTailProperties
<1>2. Len(queue) \in Nat \ {0} BY EmptySeq
<1>3. DOMAIN queue = 1..Len(queue) /\ DOMAIN Tail(queue) = 1..Len(Tail(queue))
  BY <1>1, LenProperties
<1>4. ASSUME NEW k \in Builds(Tail(queue))
      PROVE  k + 1 \in Builds(queue) /\ k \in Nat /\ k + 1 # 1 /\ Tail(queue)[k] = queue[k + 1]
  <2>1. k \in 1..(Len(queue) - 1) /\ Tail(queue)[k].type = "build"
    BY <1>1, <1>3 DEF Builds
  <2>2. k + 1 \in 1..Len(queue) /\ k \in Nat /\ k + 1 # 1 BY <1>2, <2>1, SMT
  <2>3. Tail(queue)[k] = queue[k + 1] BY <1>1, <2>1
  <2> QED BY <1>3, <2>1, <2>2, <2>3 DEF Builds
<1>5. ASSUME NEW k \in Builds(Tail(queue)), NEW m \in Builds(Tail(queue)), k + 1 = m + 1
      PROVE  k = m
  <2>1. k \in Nat /\ m \in Nat BY <1>4
  <2> QED BY <1>5, <2>1, SMT
<1>6. Head(queue) = queue[1] BY SMT
<1>7. 1 \in DOMAIN queue BY <1>2, <1>3, SMT
<1> QED BY <1>4, <1>5, <1>6, <1>7 DEF Builds

LEMMA QueueJobs ==
  ASSUME NEW queue \in Seq(Messages), NEW k \in Builds(queue)
  PROVE  queue[k].job \in Jobs
<1>1. k \in 1..Len(queue) BY LenProperties DEF Builds
<1>2. queue[k] \in Messages BY <1>1, ElementOfSeq
<1> QED BY <1>2 DEF Messages

LEMMA AppendBuilds ==
  ASSUME NEW queue \in Seq(Messages), NEW m \in Messages
  PROVE  \A k \in Builds(Append(queue, m)) :
           \/ k \in Builds(queue) /\ Append(queue, m)[k] = queue[k]
           \/ k = Len(queue) + 1 /\ Append(queue, m)[k] = m /\ m.type = "build"
<1>1. /\ Append(queue, m) \in Seq(Messages) /\ Len(Append(queue, m)) = Len(queue) + 1
      /\ \A i \in 1..Len(queue) : Append(queue, m)[i] = queue[i]
      /\ Append(queue, m)[Len(queue) + 1] = m
  BY AppendProperties
<1>2. Len(queue) \in Nat /\ DOMAIN queue = 1..Len(queue) BY LenProperties
<1> DEFINE longer == Append(queue, m)
<1> SUFFICES ASSUME NEW k \in Builds(longer)
             PROVE  \/ k \in Builds(queue) /\ longer[k] = queue[k]
                    \/ k = Len(queue) + 1 /\ longer[k] = m /\ m.type = "build"
  OBVIOUS
<1> HIDE DEF longer
<1>3. k \in 1..(Len(queue) + 1) /\ longer[k].type = "build"
  BY <1>1, LenProperties DEF Builds, longer
<1>4. k \in 1..Len(queue) \/ k = Len(queue) + 1 BY <1>2, <1>3, SMT
<1> QED BY <1>1, <1>2, <1>3, <1>4 DEF Builds, longer

\* The server sends a build under a JobID it has free.
LEMMA OwnSendMessage ==
  ASSUME BuildsAssumption, TypeInv, Own, NEW j \in JobIDs, NEW n \in Nums, issued[j] = 0,
         NEW msg \in Messages, msg.job.id = j, msg.job.n = n
  PROVE  OwnOK([issued EXCEPT ![j] = n], Append(toClient, msg), slots, toServer)
<1> DEFINE is == [issued EXCEPT ![j] = n]
           queue == Append(toClient, msg)
<1>0. ServerType /\ QueueType /\ ClientType BY TypeParts DEF TypeInv
<1>1. msg \in Messages /\ msg.job.id = j /\ msg.job.n = n OBVIOUS
<1>2. is[j] = n /\ \A i \in JobIDs : i # j => is[i] = issued[i]
  BY <1>0 DEF ServerType
<1>3. ASSUME NEW k \in Builds(toClient)
      PROVE  /\ toClient[k].job.id # j /\ is[toClient[k].job.id] = toClient[k].job.n
  <2>1. toClient[k].job \in Jobs BY <1>0, QueueJobs DEF QueueType
  <2> QED BY <1>2, <2>1, JobFacts DEF Own, OwnOK
<1>4. ASSUME NEW i \in Slots
      PROVE  /\ slots[i].job.id # j
             /\ slots[i].job # FreeSlot => is[slots[i].job.id] = slots[i].job.n
  <2>1. CASE slots[i].job = FreeSlot BY <2>1, 0 \notin JobIDs DEF FreeSlot, BuildsAssumption
  <2>2. CASE slots[i].job # FreeSlot
    <3>1. slots[i].job \in Jobs BY <1>0, <2>2 DEF ClientType, SlotType
    <3> QED BY <1>2, <2>2, <3>1, JobFacts DEF Own, OwnOK
  <2> QED BY <2>1, <2>2
<1>5. ASSUME NEW k \in DOMAIN toServer
      PROVE  toServer[k].id # j /\ is[toServer[k].id] = toServer[k].n
  <2>1. toServer[k] \in Jobs BY <1>0, LenProperties, ElementOfSeq DEF QueueType
  <2> QED BY <1>2, <2>1, JobFacts DEF Own, OwnOK
<1> HIDE DEF is
<1>6. ASSUME NEW k \in Builds(queue)
      PROVE  \/ k \in Builds(toClient) /\ queue[k] = toClient[k]
             \/ k = Len(toClient) + 1 /\ queue[k] = msg
  <2>1. toClient \in Seq(Messages) BY <1>0 DEF QueueType
  <2>2. /\ Len(queue) = Len(toClient) + 1 /\ queue \in Seq(Messages)
        /\ \A i \in 1..Len(toClient) : queue[i] = toClient[i]
        /\ queue[Len(toClient) + 1] = msg
    BY <2>1, AppendProperties
  <2> HIDE DEF queue
  <2>3. k \in 1..(Len(toClient) + 1) /\ queue[k].type = "build"
    BY <1>6, <2>2, LenProperties DEF Builds
  <2>4. Len(toClient) \in Nat /\ DOMAIN toClient = 1..Len(toClient) BY <2>1, LenProperties
  <2>5. k \in 1..Len(toClient) \/ k = Len(toClient) + 1 BY <2>3, <2>4, SMT
  <2> QED BY <2>2, <2>3, <2>4, <2>5 DEF Builds
<1> HIDE DEF queue
<1>7. OwnOK(is, queue, slots, toServer)
  <2>1. \A k \in Builds(queue) : is[queue[k].job.id] = queue[k].job.n
    BY <1>1, <1>2, <1>3, <1>6
  <2>2. \A k, m \in Builds(queue) : queue[k].job.id = queue[m].job.id => k = m
    BY <1>1, <1>3, <1>6 DEF Own, OwnOK
  <2>3. \A k \in Builds(queue), i \in Slots : slots[i].job.id # queue[k].job.id
    BY <1>1, <1>4, <1>6 DEF Own, OwnOK
  <2>4. \A k \in Builds(queue), m \in DOMAIN toServer : toServer[m].id # queue[k].job.id
    BY <1>1, <1>5, <1>6 DEF Own, OwnOK
  <2> QED BY <1>4, <1>5, <2>1, <2>2, <2>3, <2>4 DEF Own, OwnOK
<1> QED BY <1>7 DEF is, queue

LEMMA OwnSend ==
  ASSUME BuildsAssumption, TypeInv, Own, NEW j \in JobIDs, NEW n \in Nums, issued[j] = 0
  PROVE  OwnOK([issued EXCEPT ![j] = n],
               Append(toClient, [type |-> "build", job |-> [id |-> j, n |-> n]]), slots, toServer)
<1> DEFINE msg == [type |-> "build", job |-> [id |-> j, n |-> n]]
<1>1. msg \in Messages /\ msg.job.id = j /\ msg.job.n = n BY DEF Messages, Jobs
<1> HIDE DEF msg
<1>2. OwnOK([issued EXCEPT ![j] = n], Append(toClient, msg), slots, toServer)
  BY <1>1, OwnSendMessage
<1> QED BY <1>2 DEF msg

\* The server sends an abort; the client reads a message.
LEMMA OwnAbort ==
  ASSUME TypeInv, Own, NEW m \in Messages, m.type = "abort"
  PROVE  OwnOK(issued, Append(toClient, m), slots, toServer)
<1> DEFINE queue == Append(toClient, m)
<1>1. toClient \in Seq(Messages) BY DEF TypeInv, TypeOK, Messages
<1>2. ASSUME NEW k \in Builds(queue)
      PROVE  k \in Builds(toClient) /\ queue[k] = toClient[k]
  <2>1. k \in Builds(Append(toClient, m)) BY <1>2
  <2> QED BY <1>1, <2>1, AppendBuilds
<1> HIDE DEF queue
<1>3. OwnOK(issued, queue, slots, toServer) BY <1>2 DEF Own, OwnOK
<1> QED BY <1>3 DEF queue

LEMMA OwnTail ==
  ASSUME TypeInv, Own, toClient # <<>>
  PROVE  OwnOK(issued, Tail(toClient), slots, toServer)
<1> DEFINE queue == Tail(toClient)
<1>1. toClient \in Seq(Messages) BY DEF TypeInv, TypeOK, Messages
<1>2. /\ \A k \in Builds(queue) : k + 1 \in Builds(toClient) /\ queue[k] = toClient[k + 1]
      /\ \A k, m \in Builds(queue) : k + 1 = m + 1 => k = m
  BY <1>1, TailBuilds
<1> HIDE DEF queue
<1>3. OwnOK(issued, queue, slots, toServer)
  <2>1. \A k, m \in Builds(queue) : queue[k].job.id = queue[m].job.id => k = m
    BY <1>2 DEF Own, OwnOK
  <2> QED BY <1>2, <2>1 DEF Own, OwnOK
<1> QED BY <1>3 DEF queue

\* A build goes from the head of the queue to a slot.
LEMMA OwnTake ==
  ASSUME BuildsAssumption, TypeInv, Own, SlotOK, Message("build"), NEW p \in Pids \cup {0}
  PROVE  OwnOK(issued, Tail(toClient), Taken(p), toServer)
<1> DEFINE queue == Tail(toClient)
           list == Taken(p)
<1>1. toClient \in Seq(Messages) /\ toClient # <<>> /\ Head(toClient).type = "build"
  BY DEF TypeInv, TypeOK, Messages, Message
<1>2. /\ \A k \in Builds(queue) : k + 1 \in Builds(toClient) /\ k + 1 # 1
                                  /\ queue[k] = toClient[k + 1]
      /\ 1 \in Builds(toClient) /\ Received = toClient[1].job
  BY <1>1, TailBuilds DEF Received
<1>3. /\ NextSlot \in Slots /\ slots[NextSlot].job = FreeSlot
      /\ \A i \in Slots : list[i] = IF i = NextSlot
           THEN [host |-> slots[i].host, job |-> Received, pid |-> p] ELSE slots[i]
  BY TakenType DEF TypeInv
<1>4. list[NextSlot].job = Received
  <2>1. list[NextSlot] = [host |-> slots[NextSlot].host, job |-> Received, pid |-> p]
    BY <1>3, Zenon
  <2> QED BY <2>1
<1>5. \A i \in Slots : i # NextSlot => list[i] = slots[i] BY <1>3
<1>6. OwnOK(issued, queue, slots, toServer) BY <1>1, OwnTail
<1>7. Received \in Jobs /\ Received # FreeSlot BY MessageType, JobFacts DEF TypeInv
<1> HIDE DEF queue, list
<1>8. OwnOK(issued, queue, list, toServer)
  <2>1. ASSUME NEW i \in Slots, list[i].job # FreeSlot
        PROVE  issued[list[i].job.id] = list[i].job.n
    BY <1>2, <1>4, <1>5, <1>6, <2>1 DEF Own, OwnOK
  <2>2. ASSUME NEW i \in Slots, NEW k \in Slots, list[i].job # FreeSlot,
               list[k].job.id = list[i].job.id
        PROVE  k = i
    BY <1>2, <1>4, <1>5, <1>6, <2>2 DEF Own, OwnOK
  <2>3. ASSUME NEW k \in Builds(queue), NEW i \in Slots PROVE list[i].job.id # queue[k].job.id
    BY <1>2, <1>4, <1>5, <1>6 DEF Own, OwnOK
  <2>4. ASSUME NEW i \in Slots, NEW m \in DOMAIN toServer PROVE list[i].job.id # toServer[m].id
    BY <1>2, <1>4, <1>5, <1>6 DEF Own, OwnOK
  <2> QED BY <1>6, <2>1, <2>2, <2>3, <2>4 DEF OwnOK
<1> QED BY <1>8 DEF queue, list

\* The server reads an answer, and has the JobID free.
LEMMA OwnRead ==
  ASSUME BuildsAssumption, TypeInv, Own, toServer # <<>>
  PROVE  OwnOK([issued EXCEPT ![Head(toServer).id] = 0], toClient, slots, Tail(toServer))
<1> DEFINE j == Head(toServer).id
           is == [issued EXCEPT ![j] = 0]
           rest == Tail(toServer)
<1>0. ServerType /\ QueueType /\ ClientType BY TypeParts DEF TypeInv
<1>1. /\ toServer \in Seq(Jobs) /\ Len(toServer) \in Nat \ {0}
      /\ DOMAIN toServer = 1..Len(toServer) /\ Head(toServer) = toServer[1]
  BY <1>0, EmptySeq, LenProperties DEF QueueType
<1>2. /\ rest \in Seq(Jobs) /\ Len(rest) = Len(toServer) - 1
      /\ \A k \in 1..Len(rest) : rest[k] = toServer[k + 1]
  BY <1>1, HeadTailProperties
<1>3. /\ 1 \in DOMAIN toServer /\ j = toServer[1].id
      /\ \A k \in DOMAIN rest : /\ k + 1 \in DOMAIN toServer /\ k + 1 # 1
                                /\ rest[k] = toServer[k + 1]
      /\ \A k, m \in DOMAIN rest : k + 1 = m + 1 => k = m
  <2>1. DOMAIN rest = 1..(Len(toServer) - 1) BY <1>2, LenProperties
  <2> QED BY <1>1, <1>2, <2>1, SMT
<1>4. \A i \in JobIDs : i # j => is[i] = issued[i] BY <1>0 DEF ServerType
<1>5. \A k \in Builds(toClient) : toClient[k].job.id \in JobIDs
  BY <1>0, QueueJobs, JobFacts DEF QueueType
<1>6. \A k \in DOMAIN toServer : toServer[k].id \in JobIDs
  BY <1>1, ElementOfSeq, JobFacts
<1>7. \A i \in Slots : slots[i].job # FreeSlot => slots[i].job.id \in JobIDs
  BY <1>0, JobFacts DEF ClientType, SlotType
<1> HIDE DEF is, rest, j
<1>8. OwnOK(is, toClient, slots, rest)
  <2>1. ASSUME NEW k \in Builds(toClient) PROVE is[toClient[k].job.id] = toClient[k].job.n
    <3>1. toClient[k].job.id # j /\ issued[toClient[k].job.id] = toClient[k].job.n
      BY <1>3 DEF Own, OwnOK
    <3> QED BY <1>4, <1>5, <3>1
  <2>2. ASSUME NEW i \in Slots, slots[i].job # FreeSlot
        PROVE  is[slots[i].job.id] = slots[i].job.n
    <3>1. slots[i].job.id # j /\ issued[slots[i].job.id] = slots[i].job.n
      BY <1>3, <2>2 DEF Own, OwnOK
    <3> QED BY <1>4, <1>7, <2>2, <3>1
  <2>3. ASSUME NEW k \in DOMAIN rest PROVE is[rest[k].id] = rest[k].n
    <3>1. k + 1 \in DOMAIN toServer /\ k + 1 # 1 /\ rest[k] = toServer[k + 1] BY <1>3
    <3>2. toServer[k + 1].id # j BY <1>3, <3>1 DEF Own, OwnOK
    <3>3. issued[toServer[k + 1].id] = toServer[k + 1].n BY <3>1 DEF Own, OwnOK
    <3> QED BY <1>4, <1>6, <3>1, <3>2, <3>3
  <2>4. \A k, m \in DOMAIN rest : rest[k].id = rest[m].id => k = m
    BY <1>3 DEF Own, OwnOK
  <2> QED BY <1>3, <2>1, <2>2, <2>3, <2>4 DEF Own, OwnOK
<1> QED BY <1>8 DEF is, rest, j

\* Some builds go from their slots to the answers: a step of OdinJobs.
LEMMA OwnDone ==
  ASSUME BuildsAssumption, TypeInv, NEW queue \in Seq(Messages), NEW list \in [Slots -> SlotType],
         OwnOK(issued, queue, list, toServer),
         NEW S \in SUBSET Slots, \A i \in S : list[i].job # FreeSlot, BuildsDone(S, list),
         UNCHANGED <<issued, sent>>
  PROVE  OwnOK(issued, queue, slots', toServer') /\ Service!Answer
<1>0. ServerType /\ QueueType BY TypeParts DEF TypeInv
<1>1. PICK q \in Orders(S) : toServer' = toServer \o [k \in DOMAIN q |-> list[q[k]].job]
  BY DEF BuildsDone
<1> DEFINE new == [k \in DOMAIN q |-> list[q[k]].job]
           len == Len(toServer)
<1>2. \A i \in S : list[i].job \in Jobs BY DEF SlotType
<1>3. /\ new \in Seq(Jobs) /\ \A k \in DOMAIN q : q[k] \in S
      /\ \A k, m \in DOMAIN q : q[k] = q[m] => k = m
  BY <1>2, DoneAnswers
<1>4. DOMAIN q = DOMAIN new /\ \A k \in DOMAIN new : new[k] = list[q[k]].job
  OBVIOUS
<1>5. \A i \in Slots : slots'[i] = IF i \in S
         THEN [host |-> list[i].host, job |-> FreeSlot, pid |-> 0] ELSE list[i]
  BY DoneType DEF TypeInv
<1>6. toServer' = toServer \o new BY <1>1
<1> HIDE DEF new
<1>7. /\ toServer \in Seq(Jobs) /\ len \in Nat /\ DOMAIN toServer = 1..len
      /\ Len(new) \in Nat /\ DOMAIN new = 1..Len(new)
      /\ toServer' \in Seq(Jobs) /\ Len(toServer') = len + Len(new)
      /\ DOMAIN toServer' = 1..(len + Len(new))
      /\ \A k \in 1..(len + Len(new)) :
           toServer'[k] = IF k <= len THEN toServer[k] ELSE new[k - len]
  BY <1>0, <1>3, <1>6, ConcatProperties, LenProperties DEF QueueType
<1>8. ASSUME NEW k \in DOMAIN toServer'
      PROVE  \/ k \in DOMAIN toServer /\ toServer'[k] = toServer[k]
             \/ k - len \in DOMAIN new /\ toServer'[k] = new[k - len]
  BY <1>7, <1>8, SMT
<1>9. ASSUME NEW k \in DOMAIN toServer', NEW m \in DOMAIN toServer', k - len = m - len
      PROVE  k = m
  BY <1>7, <1>9, SMT
\* An answer of S is its builds', and open.
<1>10. ASSUME NEW k \in DOMAIN new
       PROVE  /\ q[k] \in Slots /\ q[k] \in S /\ new[k] = list[q[k]].job /\ new[k] \in Jobs
              /\ issued[new[k].id] = new[k].n
              /\ \A m \in DOMAIN toServer : toServer[m].id # new[k].id
              /\ \A m \in DOMAIN new : new[m].id = new[k].id => m = k
  <2>1. q[k] \in S /\ q[k] \in Slots /\ new[k] = list[q[k]].job /\ list[q[k]].job # FreeSlot
    BY <1>3, <1>4
  <2>2. new[k] \in Jobs BY <1>2, <2>1
  <2>3. \A m \in DOMAIN toServer : toServer[m].id # new[k].id BY <2>1 DEF OwnOK
  <2>4. ASSUME NEW m \in DOMAIN new, new[m].id = new[k].id PROVE m = k
    <3>1. q[m] \in Slots /\ new[m] = list[q[m]].job BY <1>3, <1>4
    <3>2. q[m] = q[k] BY <2>1, <2>4, <3>1 DEF OwnOK
    <3> QED BY <1>3, <1>4, <3>2
  <2>5. issued[new[k].id] = new[k].n BY <2>1 DEF OwnOK
  <2> QED BY <2>1, <2>2, <2>3, <2>4, <2>5
<1>11. ASSUME NEW i \in Slots
       PROVE  \/ i \notin S /\ slots'[i] = list[i]
              \/ i \in S /\ slots'[i].job = FreeSlot
  <2>1. CASE i \in S
    <3>1. slots'[i] = [host |-> list[i].host, job |-> FreeSlot, pid |-> 0]
      BY <1>5, <2>1, Zenon
    <3> QED BY <2>1, <3>1
  <2> QED BY <1>5, <2>1
<1>12. OwnOK(issued, queue, slots', toServer')
  <2>1. \A i \in Slots : slots'[i].job # FreeSlot => issued[slots'[i].job.id] = slots'[i].job.n
    BY <1>11 DEF OwnOK
  <2>2. \A k \in DOMAIN toServer' : issued[toServer'[k].id] = toServer'[k].n
    BY <1>8, <1>10 DEF OwnOK
  <2>3. ASSUME NEW i \in Slots, NEW k \in Slots, slots'[i].job # FreeSlot,
               slots'[k].job.id = slots'[i].job.id
        PROVE  k = i
    <3>1. slots'[i] = list[i] BY <1>11, <2>3
    <3>2. list[i].job \in Jobs /\ list[i].job.id # 0 BY <2>3, <3>1, JobFacts DEF SlotType
    <3>3. slots'[k].job # FreeSlot BY <2>3, <3>1, <3>2 DEF FreeSlot
    <3>4. slots'[k] = list[k] BY <1>11, <3>3
    <3> QED BY <2>3, <3>1, <3>4 DEF OwnOK
  <2>4. ASSUME NEW k \in DOMAIN toServer', NEW m \in DOMAIN toServer',
               toServer'[k].id = toServer'[m].id
        PROVE  k = m
    <3>1. CASE k \in DOMAIN toServer /\ toServer'[k] = toServer[k]
      BY <1>8, <1>10, <2>4, <3>1 DEF OwnOK
    <3>2. CASE k - len \in DOMAIN new /\ toServer'[k] = new[k - len]
      <4>1. m - len \in DOMAIN new /\ toServer'[m] = new[m - len]
        BY <1>8, <1>10, <2>4, <3>2
      <4>2. m - len = k - len BY <1>10, <2>4, <3>2, <4>1
      <4> QED BY <1>9, <4>2
    <3> QED BY <1>8, <3>1, <3>2
  <2>5. ASSUME NEW k \in Builds(queue), NEW i \in Slots PROVE slots'[i].job.id # queue[k].job.id
    <3>1. queue[k].job.id # 0 BY QueueJobs, JobFacts
    <3> QED BY <1>11, <3>1 DEF OwnOK, FreeSlot
  <2>6. ASSUME NEW k \in Builds(queue), NEW m \in DOMAIN toServer'
        PROVE  toServer'[m].id # queue[k].job.id
    <3>1. CASE m \in DOMAIN toServer /\ toServer'[m] = toServer[m]
      BY <3>1 DEF OwnOK
    <3>2. CASE m - len \in DOMAIN new /\ toServer'[m] = new[m - len]
      <4>1. q[m - len] \in Slots /\ toServer'[m] = list[q[m - len]].job BY <1>10, <3>2
      <4> QED BY <4>1 DEF OwnOK
    <3> QED BY <1>8, <3>1, <3>2
  <2>7. ASSUME NEW i \in Slots, NEW m \in DOMAIN toServer'
        PROVE  slots'[i].job.id # toServer'[m].id
    <3>1. CASE slots'[i].job = FreeSlot
      <4>1. toServer'[m] \in Jobs BY <1>7, ElementOfSeq
      <4> QED BY <3>1, <4>1, JobFacts DEF FreeSlot
    <3>2. CASE slots'[i] = list[i] /\ i \notin S /\ slots'[i].job # FreeSlot
      <4>1. CASE m \in DOMAIN toServer /\ toServer'[m] = toServer[m]
        BY <3>2, <4>1 DEF OwnOK
      <4>2. CASE m - len \in DOMAIN new /\ toServer'[m] = new[m - len]
        <5>1. q[m - len] \in S /\ q[m - len] \in Slots /\ toServer'[m] = list[q[m - len]].job
          BY <1>10, <4>2
        <5> QED BY <3>2, <5>1 DEF OwnOK
      <4> QED BY <1>8, <4>1, <4>2
    <3> QED BY <1>11, <3>1, <3>2
  <2> QED BY <2>1, <2>2, <2>3, <2>4, <2>5, <2>6, <2>7 DEF OwnOK
<1>13. SubSeq(toServer', Len(toServer) + 1, Len(toServer')) = new
  <2> DEFINE part == SubSeq(toServer', len + 1, Len(toServer'))
  <2>1. \A k \in (len + 1)..Len(toServer') : toServer'[k] \in Jobs
    BY <1>7, ElementOfSeq, SMT
  <2>2. len + 1 \in Int /\ Len(toServer') \in Int BY <1>7, SMT
  <2>3. /\ part \in Seq(Jobs)
        /\ Len(part) = IF len + 1 <= Len(toServer') THEN Len(toServer') - (len + 1) + 1 ELSE 0
        /\ \A i \in 1..(Len(toServer') - (len + 1) + 1) : part[i] = toServer'[len + 1 + i - 1]
    BY <2>1, <2>2, SubSeqProperties
  <2> HIDE DEF part
  <2>4. Len(part) = Len(new) BY <1>7, <2>3, SMT
  <2>5. ASSUME NEW i \in 1..Len(part) PROVE part[i] = new[i]
    <3>1. i \in 1..(Len(toServer') - (len + 1) + 1) /\ len + 1 + i - 1 = len + i
      BY <1>7, <2>4, SMT
    <3>2. part[i] = toServer'[len + i] BY <2>3, <3>1
    <3>3. len + i \in 1..(len + Len(new)) /\ ~(len + i <= len) /\ len + i - len = i
      BY <1>7, <2>4, SMT
    <3>4. toServer'[len + i] = new[len + i - len] BY <1>7, <3>3
    <3>5. new[len + i - len] = new[i] BY <3>3
    <3> QED BY <3>2, <3>4, <3>5
  <2>6. part = new BY <1>3, <2>3, <2>4, <2>5, SeqEqual
  <2> QED BY <2>6 DEF part
<1>14. new \in Seq(Service!Open)
  <2>1. ASSUME NEW k \in 1..Len(new) PROVE new[k] \in Service!Open
    <3>1. k \in DOMAIN new BY <1>7
    <3>2. /\ new[k] \in Jobs /\ issued[new[k].id] = new[k].n
          /\ \A m \in DOMAIN toServer : toServer[m].id # new[k].id
      BY <1>10, <3>1
    <3>3. new[k].id \in JobIDs /\ new[k].n # 0 /\ new[k] = [id |-> new[k].id, n |-> new[k].n]
      BY <3>2, JobFacts DEF Jobs
    <3>4. new[k] \notin Service!Answered BY <3>2 DEF Service!Answered
    <3>5. new[k] \in {[id |-> j, n |-> issued[j]] : j \in {i \in JobIDs : issued[i] # 0}}
      BY <3>2, <3>3
    <3> QED BY <3>4, <3>5, Zenon DEF Service!Open
  <2>2. new \in [1..Len(new) -> Service!Open] BY <1>3, <2>1, LenProperties
  <2>3. [1..Len(new) -> Service!Open] \in {[1..n -> Service!Open] : n \in Nat} BY <1>7, Zenon
  <2>4. new \in UNION {[1..n -> Service!Open] : n \in Nat} BY <2>2, <2>3, Zenon
  <2> QED BY <2>4, SeqDef, Zenon
<1>15. Service!Answer
  <2>1. \A k, m \in DOMAIN new : new[k] = new[m] => k = m BY <1>10
  <2>2. UNCHANGED <<issued, sent>> OBVIOUS
  <2> DEFINE part == SubSeq(toServer', Len(toServer) + 1, Len(toServer'))
  <2>3. part = new BY <1>13
  <2> HIDE DEF part
  <2>4. /\ toServer' = toServer \o part /\ part \in Seq(Service!Open)
        /\ \A k, m \in DOMAIN part : part[k] = part[m] => k = m
    BY <1>6, <1>14, <2>1, <2>3
  <2> USE DEF part
  <2> QED BY <2>2, <2>4, Zenon DEF Service!Answer
<1> QED BY <1>12, <1>15

LEMMA OwnNext ==
  ASSUME NEW is, NEW queue, NEW list, NEW answers, OwnOK(is, queue, list, answers),
         issued' = is, toClient' = queue, slots' = list, toServer' = answers
  PROVE  Own'
BY DEF Own, OwnOK, Builds

LEMMA InitOwn == BuildsAssumption /\ Init => Own /\ Service!Init
<1> SUFFICES ASSUME BuildsAssumption, Init PROVE Own /\ Service!Init
  OBVIOUS
<1>1. PICK layout \in Layouts :
        slots = [i \in Slots |-> [host |-> layout[i], job |-> FreeSlot, pid |-> 0]]
  BY DEF Init
<1>2. \A i \in Slots : slots[i].job = FreeSlot BY <1>1
<1>3. DOMAIN toClient = {} /\ DOMAIN toServer = {} BY SMT DEF Init
<1>4. Own BY <1>2, <1>3 DEF Own, OwnOK, Builds
<1> QED BY <1>4 DEF Init, Service!Init

\* Every step is one of OdinJobs, or changes nothing the server knows of.
LEMMA ServiceStep ==
  BuildsAssumption /\ TypeInv /\ Own /\ [Next]_vars => Own' /\ [Service!Next]_Service!vars
<1> SUFFICES ASSUME BuildsAssumption, TypeInv, Own, [Next]_vars
             PROVE  Own' /\ [Service!Next]_Service!vars
  OBVIOUS
<1>0. ServerType /\ QueueType /\ ClientType BY TypeParts DEF TypeInv
<1>A. Service!Answer => [Service!Next]_Service!vars BY DEF Service!Next
<1>S. UNCHANGED <<issued, sent, toServer>> => [Service!Next]_Service!vars BY DEF Service!vars
<1>O. OwnOK(issued, toClient, slots, toServer) BY DEF Own
\* Actions that leave the places of builds alone, or read a message alone.
<1>U. UNCHANGED <<issued, sent, toClient, slots, toServer>> =>
        Own' /\ [Service!Next]_Service!vars
  BY <1>S, <1>O, OwnNext
<1>T. toClient # <<>> /\ toClient' = Tail(toClient) /\ UNCHANGED <<issued, sent, slots, toServer>>
        => Own' /\ [Service!Next]_Service!vars
  BY <1>S, OwnTail, OwnNext
\* Closing a connection, after a message is read or without.
<1>C. ASSUME NEW list \in [Slots -> SlotType], NEW h, RBS_Close(h, list),
             toClient' \in Seq(Messages), OwnOK(issued, toClient', list, toServer),
             UNCHANGED <<issued, sent>>
      PROVE  Own' /\ [Service!Next]_Service!vars
  <2>1. /\ Cancel_Builds(h, list) \in SUBSET Slots
        /\ \A i \in Cancel_Builds(h, list) : list[i].job # FreeSlot
    BY CancelFacts
  <2>2. OwnOK(issued, toClient', slots', toServer') /\ Service!Answer
    BY <1>C, <2>1, OwnDone DEF RBS_Close
  <2> QED BY <1>A, <1>C, <2>2, OwnNext
<1>1. ASSUME NEW j \in JobIDs, SendBuild(j) PROVE Own' /\ [Service!Next]_Service!vars
  <2>1. sent + 1 \in Nums
    BY <1>0, <1>1, SMT DEF SendBuild, ServerType, Nums, BuildsAssumption
  <2>2. OwnOK(issued', toClient', slots, toServer) BY <1>1, <2>1, OwnSend DEF SendBuild
  <2>3. Own' BY <1>1, <2>2, OwnNext DEF SendBuild, clientVars
  <2>4. Service!Send(j) BY <1>1 DEF SendBuild, Service!Send
  <2> QED BY <2>3, <2>4 DEF Service!Next
<1>2. ASSUME NEW j \in JobIDs, SendAbort(j) PROVE Own' /\ [Service!Next]_Service!vars
  <2>1. issued[j] \in Nums
    BY <1>0, <1>2, SMT DEF SendAbort, ServerType, Nums, BuildsAssumption
  <2> DEFINE m == [type |-> "abort", job |-> [id |-> j, n |-> issued[j]]]
  <2>2. m \in Messages /\ m.type = "abort" BY <2>1 DEF Messages, Jobs
  <2>3. toClient' = Append(toClient, m) BY <1>2 DEF SendAbort
  <2> HIDE DEF m
  <2>4. OwnOK(issued, toClient', slots, toServer) BY <2>2, <2>3, OwnAbort
  <2>5. UNCHANGED <<issued, sent, slots, toServer>> BY <1>2 DEF SendAbort, clientVars
  <2> QED BY <1>S, <2>4, <2>5, OwnNext
<1>3. ASSUME ReadAnswer PROVE Own' /\ [Service!Next]_Service!vars
  <2>1. OwnOK(issued', toClient, slots, toServer') BY <1>3, OwnRead DEF ReadAnswer
  <2>2. Own' BY <1>3, <2>1, OwnNext DEF ReadAnswer, clientVars
  <2>3. Service!Read BY <1>3 DEF ReadAnswer, Service!Read
  <2> QED BY <2>2, <2>3 DEF Service!Next
<1>4. ASSUME NEW p \in Pids, StartLocal(p) PROVE Own' /\ [Service!Next]_Service!vars
  <2>1. /\ Message("build") /\ toClient # <<>> /\ toClient' = Tail(toClient)
        /\ UNCHANGED <<issued, sent>>
    BY <1>4 DEF StartLocal, Message, serverVars
  <2>2. CASE SlotOK
    <3>1. slots' = Taken(p) /\ UNCHANGED toServer BY <1>4, <2>2 DEF StartLocal
    <3>2. OwnOK(issued, Tail(toClient), Taken(p), toServer) BY <2>1, <2>2, OwnTake
    <3> QED BY <1>S, <2>1, <3>1, <3>2, OwnNext
  <2>3. CASE ~SlotOK BY <1>4, <1>T, <2>1, <2>3 DEF StartLocal, Dies
  <2> QED BY <2>2, <2>3
<1>5. ASSUME NEW h \in Hosts, NEW p \in Pids, StartHost(h, p)
      PROVE  Own' /\ [Service!Next]_Service!vars
  <2>1. /\ Message("build") /\ SlotOK /\ toClient' = Tail(toClient) /\ slots' = Taken(0)
        /\ UNCHANGED <<issued, sent, toServer>>
    BY <1>5 DEF StartHost, serverVars
  <2>2. OwnOK(issued, Tail(toClient), Taken(0), toServer) BY <2>1, OwnTake
  <2> QED BY <1>S, <2>1, <2>2, OwnNext
<1>6. ASSUME NEW h \in Hosts, SendToHost(h) PROVE Own' /\ [Service!Next]_Service!vars
  <2>1. /\ Message("build") /\ SlotOK /\ toClient' = Tail(toClient)
        /\ UNCHANGED <<issued, sent>>
    BY <1>6 DEF SendToHost, serverVars
  <2>2. OwnOK(issued, toClient', Taken(0), toServer) BY <2>1, OwnTake
  <2>3. Taken(0) \in [Slots -> SlotType] /\ toClient' \in Seq(Messages)
    BY <2>1, TakenType, MessageType DEF TypeInv
  <2>4. CASE slots' = Taken(0) /\ UNCHANGED toServer BY <1>S, <2>1, <2>2, <2>4, OwnNext
  <2>5. CASE RBS_Close(h, Taken(0)) BY <1>C, <2>1, <2>2, <2>3, <2>5
  <2> QED BY <1>6, <2>4, <2>5 DEF SendToHost
<1>7. ASSUME AbortEnded \/ AbortLocal PROVE Own' /\ [Service!Next]_Service!vars
  BY <1>7, <1>T DEF AbortEnded, AbortLocal, Message, serverVars, clientVars
<1>8. ASSUME NEW h \in Hosts, AbortRemote(h) PROVE Own' /\ [Service!Next]_Service!vars
  <2>1. Message("abort") /\ toClient # <<>> /\ toClient' = Tail(toClient) /\ UNCHANGED <<issued, sent>>
    BY <1>8 DEF AbortRemote, Message, serverVars
  <2>2. toClient' \in Seq(Messages) /\ OwnOK(issued, toClient', slots, toServer)
    BY <2>1, MessageType, OwnTail DEF TypeInv
  <2>3. CASE UNCHANGED <<slots, toServer>> BY <1>T, <2>1, <2>3
  <2>4. CASE RBS_Close(h, slots) BY <1>0, <1>C, <2>1, <2>2, <2>4 DEF ClientType
  <2> QED BY <1>8, <2>3, <2>4 DEF AbortRemote
<1>9. ASSUME ChildAction \/ ChildActionEnds PROVE Own' /\ [Service!Next]_Service!vars
  BY <1>9, <1>U DEF ChildAction, ChildActionEnds, serverVars
<1>10. ASSUME NEW h \in Hosts, RBS_Close(h, slots), UNCHANGED <<serverVars, toClient>>
       PROVE  Own' /\ [Service!Next]_Service!vars
  <2>1. UNCHANGED <<issued, sent, toClient>> BY <1>10 DEF serverVars
  <2>2. slots \in [Slots -> SlotType] /\ toClient' \in Seq(Messages)
    BY <1>0, <2>1 DEF ClientType, QueueType
  <2>3. OwnOK(issued, toClient', slots, toServer) BY <1>O, <2>1
  <2> QED BY <1>10, <1>C, <2>1, <2>2, <2>3
<1>11. ASSUME NEW S \in SUBSET Slots, \A i \in S : slots[i].job # FreeSlot, BuildsDone(S, slots),
              UNCHANGED <<serverVars, toClient>>
       PROVE  Own' /\ [Service!Next]_Service!vars
  <2>1. UNCHANGED <<issued, sent, toClient>> BY <1>11 DEF serverVars
  <2>2. slots \in [Slots -> SlotType] /\ toClient \in Seq(Messages)
    BY <1>0 DEF ClientType, QueueType
  <2>3. OwnOK(issued, toClient, slots', toServer') /\ Service!Answer
    BY <1>11, <1>O, <2>1, <2>2, OwnDone
  <2> QED BY <1>A, <2>1, <2>3, OwnNext
<1>12. ASSUME NEW h \in Hosts, NEW p \in Pids, HostReaped(h, p)
       PROVE  Own' /\ [Service!Next]_Service!vars
  <2>1. UNCHANGED <<serverVars, toClient>> BY <1>12 DEF HostReaped
  <2>2. CASE RBS_Close(h, slots) BY <1>10, <2>1, <2>2
  <2>3. CASE UNCHANGED <<slots, toServer>> BY <1>U, <2>1, <2>3 DEF serverVars
  <2> QED BY <1>12, <2>2, <2>3 DEF HostReaped
<1>13. ASSUME NEW p \in Pids, BuildReaped(p) PROVE Own' /\ [Service!Next]_Service!vars
  <2>1. UNCHANGED <<serverVars, toClient>> BY <1>13 DEF BuildReaped
  <2>2. CASE UNCHANGED <<slots, toServer>> BY <1>U, <2>1, <2>2 DEF serverVars
  <2>3. CASE BuildsDone(BuildID_Build(p), slots)
    <3>1. p # 0 BY <1>13, ChildFacts DEF BuildReaped, TypeInv
    <3>2. /\ BuildID_Build(p) \in SUBSET Slots
          /\ \A i \in BuildID_Build(p) : slots[i].job # FreeSlot
      BY <3>1 DEF BuildID_Build, TypeInv, Procs, ProcsOK
    <3> QED BY <1>11, <2>1, <2>3, <3>2
  <2> QED BY <1>13, <2>2, <2>3 DEF BuildReaped, Dies
<1>14. ASSUME NEW h \in Hosts, GetAnswer(h) PROVE Own' /\ [Service!Next]_Service!vars
  <2>1. UNCHANGED <<serverVars, toClient>> BY <1>14 DEF GetAnswer
  <2> DEFINE id == ReadID(bytes[h])
  <2>2. CASE UNCHANGED <<slots, toServer>> BY <1>U, <2>1, <2>2 DEF serverVars
  <2>3. CASE id # 0 /\ BuildsDone(JobID_Build(id), slots)
    <3>1. /\ JobID_Build(id) \in SUBSET Slots
          /\ \A i \in JobID_Build(id) : slots[i].job # FreeSlot
      BY <2>3 DEF JobID_Build, FreeSlot
    <3> QED BY <1>11, <2>1, <2>3, <3>1
  <2> QED BY <1>14, <2>2, <2>3 DEF GetAnswer, Dies
<1>15. ASSUME NEW h \in Hosts, HostGone(h) PROVE Own' /\ [Service!Next]_Service!vars
  BY <1>10, <1>15 DEF HostGone
<1>16. ASSUME NEW h \in Hosts, HostBuild(h) \/ HostAbort(h) \/ HostDies(h)
       PROVE  Own' /\ [Service!Next]_Service!vars
  BY <1>16, <1>U DEF HostBuild, HostAbort, HostDies, serverVars, clientVars
<1>17. ASSUME NEW h \in Hosts, NEW b \in Jobs, HostBuildEnd(h, b)
       PROVE  Own' /\ [Service!Next]_Service!vars
  BY <1>17, <1>U DEF HostBuildEnd, HostBuildEnds, serverVars, clientVars
<1>18. ASSUME NEW p \in Pids, ChildEnds(p) PROVE Own' /\ [Service!Next]_Service!vars
  BY <1>18, <1>U DEF ChildEnds, serverVars
<1>19. ASSUME UNCHANGED vars PROVE Own' /\ [Service!Next]_Service!vars
  BY <1>19, <1>U DEF vars, serverVars, clientVars
<1> QED
  <2>1. CASE Client
    BY <2>1, <1>4, <1>5, <1>6, <1>7, <1>8, <1>9, <1>12, <1>13, <1>14, <1>15 DEF Client
  <2> QED BY <2>1, <1>1, <1>2, <1>3, <1>16, <1>17, <1>18, <1>19 DEF Next

\* Every Job_Done is for the build the server has under its JobID, and there is
\* one per build, whatever becomes of the client's children and hosts.
THEOREM AnswersAlwaysMatch == Spec => []AnswersMatch
<1>1. Init => TypeInv /\ Own BY InitTypes, InitOwn, BuildsAssumption
<1>2. TypeInv /\ Own /\ [Next]_vars => TypeInv' /\ Own'
  BY TypeStep, ServiceStep, BuildsAssumption
<1>3. Own => AnswersMatch BY DEF Own, OwnOK, AnswersMatch
<1> QED BY <1>1, <1>2, <1>3, PTL DEF Spec

\* A client and its hosts do what OdinJobs promises the server.
THEOREM BuildsImplementJobs == Spec => ImplementsJobs
<1>1. Init => TypeInv /\ Own /\ Service!Init BY InitTypes, InitOwn, BuildsAssumption
<1>2. TypeInv /\ Own /\ [Next]_vars => TypeInv' /\ Own' /\ [Service!Next]_Service!vars
  BY TypeStep, ServiceStep, BuildsAssumption
<1> QED BY <1>1, <1>2, PTL DEF Spec, ImplementsJobs, Service!Spec

=============================================================================
