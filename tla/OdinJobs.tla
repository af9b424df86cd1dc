------------------------------ MODULE OdinJobs ------------------------------
(***************************************************************************)
(* What the Odin server takes a client for: a build it sends is answered   *)
(* once, by a Job_Done with its JobID, and no other JobID is answered.     *)
(* Local_Job_Done relies on it (FORBIDDEN when there is no such job), and  *)
(* so does New_Job, which gives an answered job's directory to the next. *)
(***************************************************************************)
EXTENDS Integers, Sequences

CONSTANTS JobIDs, MaxJobNum

VARIABLES
  issued,   \* the number of the build under way of each JobID, or 0
  sent,     \* number of builds sent
  toServer  \* answers on their way

vars == <<issued, sent, toServer>>

Answered == {toServer[k] : k \in DOMAIN toServer}
Open == {[id |-> j, n |-> issued[j]] : j \in {k \in JobIDs : issued[k] # 0}} \ Answered

Init == issued = [j \in JobIDs |-> 0] /\ sent = 0 /\ toServer = <<>>

\* Exec
Send(j) ==
  /\ issued[j] = 0 /\ sent < MaxJobNum
  /\ sent' = sent + 1 /\ issued' = [issued EXCEPT ![j] = sent + 1]
  /\ UNCHANGED toServer

\* The client answers some of the open builds, each once.
Answer ==
  LET new == SubSeq(toServer', Len(toServer) + 1, Len(toServer'))
  IN /\ toServer' = toServer \o new /\ new \in Seq(Open)
     /\ \A k, m \in DOMAIN new : new[k] = new[m] => k = m
     /\ UNCHANGED <<issued, sent>>

\* Local_Job_Done
Read ==
  /\ toServer # <<>>
  /\ issued' = [issued EXCEPT ![Head(toServer).id] = 0]
  /\ toServer' = Tail(toServer) /\ UNCHANGED sent

Next == Answer \/ Read \/ \E j \in JobIDs : Send(j)

Spec == Init /\ [][Next]_vars
=============================================================================
