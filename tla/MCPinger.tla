------------------------------ MODULE MCPinger ------------------------------
(***************************************************************************)
(* Small instances of Pinger for TLC.  Only differences of times and of    *)
(* rounds matter to a step, so the view drops the origin of both, and the  *)
(* results reported, which no step reads and the refinement checks in      *)
(* every step.                                                             *)
(***************************************************************************)
EXTENDS Pinger

\* How long until d; all times that have come are alike.
Left(d) == IF d > now THEN d - now ELSE 0
\* Rounds since n; all rounds of which no answer may arrive are alike.
Age(n) == IF round - n < Memory THEN round - n ELSE Memory
RequestView(r) == <<r.address, r.retry, r.sequence, Age(r.round), Left(r.deadline)>>
View == <<{RequestView(r) : r \in requests},
          [a \in Addresses |-> IF Busy(a) THEN RequestView(targets[a]) ELSE <<>>],
          currentSequence, stop, sender, next, IF sender = "loop" THEN t - now ELSE 0,
          alarm, {Left(d) : d \in until}, receiver,
          {<<m.to, m.sequence, m.retry, Age(m.round)>> : m \in net}>>
=============================================================================
