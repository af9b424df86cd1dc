------------------------------- MODULE Pinger -------------------------------
(***************************************************************************)
(* The multi-address pinger of xju/ip/icmp (Pinger.hcp): a thread that     *)
(* sends an echo request to each address in turn, an alarm clock that      *)
(* retries what is not answered in time and a receiver, which share the    *)
(* requests under one mutex.  Each action is what a thread does between    *)
(* taking the mutex and waiting or releasing it.                           *)
(*                                                                         *)
(* The network may lose, delay, reorder and repeat answers.  A request is  *)
(* known by its address, round and retry, which no code sees.              *)
(***************************************************************************)
EXTENDS Integers, FiniteSets

CONSTANTS
  N,                \* number of addresses, visited in the order 1..N
  MaxRetries,
  TimeoutPerRetry,  \* in ticks of the clock
  Step,             \* ticks from one request of run to the next
  FirstSequence,
  SeqMod,           \* 2^16: an echo's sequence number has two bytes
  Memory,           \* bound: rounds after which an answer arrives no more
  Spurious,         \* TRUE: a wait may end although nothing happened
  MaxLag, MaxLead   \* bounds: ticks that run may be behind or ahead of time

ASSUME PingerAssumption ==
  /\ N \in Nat \ {0} /\ MaxRetries \in Nat /\ TimeoutPerRetry \in Nat \ {0}
  /\ Step \in Nat /\ FirstSequence \in Int /\ SeqMod \in Nat \ {0}
  /\ Memory \in Nat \ {0} /\ Spurious \in BOOLEAN /\ MaxLag \in Nat /\ MaxLead \in Nat

\* An answer is gone before the sequence numbers come round again.
ASSUME MemoryAssumption == Memory * (MaxRetries + 1) <= SeqMod

VARIABLES
  requests,         \* requests_
  targets,          \* targets_: the request its iterator points to, or end()
  currentSequence,  \* currentSequence_
  stop,             \* stop_
  now,              \* the steady clock
  sender,           \* where run is
  next, t,          \* run: the next address and its time
  alarm, until,     \* where runAlarmClock is, and the time it waits for if any
  receiver,         \* where runReceiver is
  round,            \* rounds run has completed
  net,              \* the echo requests of which an answer may yet arrive
  reported          \* the last call of the collector for each address

shared == <<requests, targets, reported>>
senderVars == <<sender, next, t, currentSequence, round>>
alarmVars == <<alarm, until>>
vars == <<shared, senderVars, alarmVars, receiver, stop, now, net>>

Addresses == 1..N

\* targets_ of an address without a request.
None == [address |-> 0]
Busy(a) == targets[a] # None

Nothing == [result |-> "none", retry |-> 0]
Reported(a, result, retry) == [reported EXCEPT ![a] = [result |-> result, retry |-> retry]]

\* The echo request on the wire: encodeEcho keeps two bytes of the sequence.
Echo(r) == [to |-> r.address, sequence |-> r.sequence % SeqMod,
            round |-> r.round, retry |-> r.retry]

Init ==
  /\ requests = {} /\ targets = [a \in Addresses |-> None]
  /\ currentSequence = FirstSequence % SeqMod /\ stop = FALSE
  /\ now = 0 /\ sender = "loop" /\ next = 1 /\ t = 0
  /\ alarm = "awake" /\ until = {} /\ receiver = "select"
  /\ round = 0 /\ net = {} /\ reported = [a \in Addresses |-> Nothing]

-----------------------------------------------------------------------------
(* run *)

\* Faulty: the retries of a round share the numbers of the next; not 16 bits.
NextSequence_One(s) == (s + 1) % SeqMod
NextSequence_Wide(s) == s + MaxRetries + 1
NextSequence(s) == (s + MaxRetries + 1) % SeqMod

\* changed_.wait(l,t) has ended.
SenderWakes == sender = "loop" /\ (now >= t \/ (Spurious /\ t - now < MaxLead))

Heard(messages) == {m \in messages : round' - m.round < Memory}

\* t+=step and the step of the for loop.
Advance(messages) ==
  /\ t' = t + Step
  /\ IF next = N
     THEN next' = 1 /\ currentSequence' = NextSequence(currentSequence) /\ round' = round + 1
     ELSE next' = next + 1 /\ UNCHANGED <<currentSequence, round>>
  /\ net' = Heard(messages)

\* Faulty: the alarm clock is left waiting.
Signal_Lost == UNCHANGED alarm
\* changed_.signal: the alarm clock, if it waits, takes the mutex next.
Signal == alarm' = IF alarm = "waits" THEN "awake" ELSE alarm

Request == [address |-> next, retry |-> 0, sequence |-> currentSequence, round |-> round,
            deadline |-> t + TimeoutPerRetry]

Send ==
  /\ SenderWakes /\ ~stop /\ ~Busy(next)
  /\ requests' = requests \cup {Request} /\ targets' = [targets EXCEPT ![next] = Request]
  /\ Advance(net \cup {Echo(Request)}) /\ Signal
  /\ UNCHANGED <<reported, sender, until, receiver, stop, now>>

SendFails ==
  /\ SenderWakes /\ ~stop /\ ~Busy(next)
  /\ reported' = Reported(next, "sendFailed", 0) /\ Advance(net)
  /\ UNCHANGED <<requests, targets, sender, alarmVars, receiver, stop, now>>

\* The previous ping of the address is not over.
Skip ==
  /\ SenderWakes /\ ~stop /\ Busy(next)
  /\ Advance(net)
  /\ UNCHANGED <<shared, sender, alarmVars, receiver, stop, now>>

\* The loop ends; the destructors join the alarm clock, tell the receiver to
\* stop and join it.
LoopEnds ==
  /\ sender = "loop" /\ stop /\ sender' = "joinsAlarm"
  /\ UNCHANGED <<shared, next, t, currentSequence, round, alarmVars, receiver, stop, now, net>>

AlarmJoined ==
  /\ sender = "joinsAlarm" /\ alarm = "ended" /\ sender' = "joinsReceiver"
  /\ UNCHANGED <<shared, next, t, currentSequence, round, alarmVars, receiver, stop, now, net>>

ReceiverJoined ==
  /\ sender = "joinsReceiver" /\ receiver = "ended" /\ sender' = "returned"
  /\ UNCHANGED <<shared, next, t, currentSequence, round, alarmVars, receiver, stop, now, net>>

-----------------------------------------------------------------------------
(* stop, which any thread may call *)

Stop ==
  /\ ~stop /\ stop' = TRUE /\ Signal
  /\ UNCHANGED <<shared, senderVars, until, receiver, now, net>>

-----------------------------------------------------------------------------
(* runAlarmClock *)

AlarmDue == alarm = "awake" \/ (alarm = "waits" /\ \E d \in until : d <= now)
AlarmWakes == AlarmDue \/ (alarm = "waits" /\ Spurious)

Expired == {r \in requests : r.deadline <= now}

\* Faulty: one retry too many.
LastTry_Late(r) == r.retry = MaxRetries + 1
LastTry(r) == r.retry = MaxRetries

Again(r) == [address |-> r.address, retry |-> r.retry + 1, sequence |-> r.sequence + 1,
             round |-> r.round, deadline |-> now + TimeoutPerRetry]

\* Faulty: the iterator to the request that was erased is kept.
Target_Kept(S, gone, a) == IF \E r \in S : r.address = a
                           THEN CHOOSE r \in S : r.address = a ELSE targets[a]
\* The iterator of a when S are inserted and gone are erased.
Target(S, gone, a) == IF \E r \in S : r.address = a
                      THEN CHOOSE r \in S : r.address = a
                      ELSE IF \E r \in gone : r.address = a THEN None ELSE targets[a]

\* Faulty: the retries just sent are not waited for.
Earliest_Old(S) == {d \in {r.deadline : r \in S \cap requests} :
                      \A r \in S \cap requests : d <= r.deadline}
\* (*requests_.begin()).first, if any.
Earliest(S) == {d \in {r.deadline : r \in S} : \A r \in S : d <= r.deadline}

\* Of the expired requests, failed are those whose retry cannot be sent.
Retried(failed) == {Again(r) : r \in {q \in Expired : ~LastTry(q)} \ failed}
Over(failed, a) == {r \in Expired : r.address = a /\ (LastTry(r) \/ r \in failed)}
Outcome(failed, r) == IF r \in failed THEN [result |-> "sendFailed", retry |-> r.retry + 1]
                      ELSE [result |-> "timeout", retry |-> r.retry]

AlarmClock(failed) ==
  /\ AlarmWakes /\ ~stop
  /\ requests' = (requests \ Expired) \cup Retried(failed)
  /\ targets' = [a \in Addresses |-> Target(Retried(failed), Expired, a)]
  /\ reported' = [a \in Addresses |-> IF Over(failed, a) = {} THEN reported[a]
                    ELSE Outcome(failed, CHOOSE r \in Over(failed, a) : TRUE)]
  /\ net' = net \cup {Echo(r) : r \in Retried(failed)}
  /\ alarm' = "waits" /\ until' = Earliest(requests')
  /\ UNCHANGED <<senderVars, receiver, stop, now>>

AlarmEnds ==
  /\ AlarmWakes /\ stop /\ alarm' = "ended"
  /\ UNCHANGED <<shared, senderVars, until, receiver, stop, now, net>>

-----------------------------------------------------------------------------
(* runReceiver: an echo reply, or a router's copy of the request in a       *)
(* destination unreachable message.  All others are ignored.                *)

\* The sequence decodeEcho returns is compared with that of the request.
Accepts(m) == Busy(m.to) /\ targets[m.to].sequence = m.sequence

Receive(m, result) ==
  /\ receiver = "select" /\ m \in net /\ Accepts(m)
  /\ reported' = Reported(m.to, result, targets[m.to].retry)
  /\ requests' = requests \ {targets[m.to]}
  /\ targets' = [targets EXCEPT ![m.to] = None]
  /\ UNCHANGED <<senderVars, alarmVars, receiver, stop, now, net>>

ReceiverEnds ==
  /\ receiver = "select" /\ sender = "joinsReceiver" /\ receiver' = "ended"
  /\ UNCHANGED <<shared, senderVars, alarmVars, stop, now, net>>

-----------------------------------------------------------------------------
Tick ==
  /\ sender = "loop" => now - t < MaxLag
  /\ now' = now + 1
  /\ UNCHANGED <<shared, senderVars, alarmVars, receiver, stop, net>>

Sender == Send \/ SendFails \/ Skip \/ LoopEnds \/ AlarmJoined \/ ReceiverJoined
Alarm == \/ \E failed \in SUBSET {r \in Expired : ~LastTry(r)} : AlarmClock(failed)
         \/ AlarmEnds

Next == \/ Sender \/ Alarm \/ ReceiverEnds \/ Stop \/ Tick
        \/ \E m \in net, result \in {"pinged", "unreachable"} : Receive(m, result)

Spec == Init /\ [][Next]_vars

\* The threads run when it is time and time passes; answers need not arrive, and
\* no wait need end without a reason.
FairSpec == /\ Spec /\ WF_vars(ReceiverEnds) /\ WF_vars(Tick)
            /\ WF_vars((stop \/ now >= t) /\ Sender) /\ WF_vars(AlarmDue /\ Alarm)

-----------------------------------------------------------------------------
(* Properties *)

Requests == [address : Addresses, retry : 0..MaxRetries, sequence : Nat, round : Nat, deadline : Nat]
Messages == [to : Addresses, sequence : 0..(SeqMod - 1), round : Nat, retry : 0..MaxRetries]

\* Every variable keeps its type: sequence numbers on the wire and of the next
\* round have 16 bits, and no request is a retry more than MaxRetries.
TypeOK ==
  /\ requests \in SUBSET Requests /\ targets \in [Addresses -> Requests \cup {None}]
  /\ currentSequence \in 0..(SeqMod - 1) /\ stop \in BOOLEAN /\ now \in Nat
  /\ sender \in {"loop", "joinsAlarm", "joinsReceiver", "returned"}
  /\ next \in Addresses /\ t \in Nat
  /\ alarm \in {"awake", "waits", "ended"} /\ until \in SUBSET Nat
  /\ receiver \in {"select", "ended"} /\ round \in Nat
  /\ net \in SUBSET Messages
  /\ reported \in [Addresses -> [result : {"none", "pinged", "unreachable", "timeout",
                                           "sendFailed"}, retry : Nat]]

\* The iterators of targets_ and the requests are in step: none points to a
\* request that was erased, and each request is its address's.
IteratorsValid ==
  /\ \A a \in Addresses : Busy(a) => targets[a] \in requests /\ targets[a].address = a
  /\ \A r \in requests : targets[r.address] = r

\* While the alarm clock waits it wakes up for every request, those that were
\* added after it began to wait included.
NoOversleep ==
  alarm = "waits" => \A r \in requests : \E d \in until : d <= r.deadline

\* An answer that is accepted is an answer to the request that is waiting for
\* one, never a late one to an earlier retry or round.
AnswersOwn ==
  \A m \in net : Accepts(m) => /\ m.round = targets[m.to].round
                               /\ m.retry = targets[m.to].retry

\* "Declares success on successful response": the receiver knows the answer to
\* every request that waits for one.
AnswerCounts == \A r \in requests : Echo(r) \in net => Accepts(Echo(r))

\* Each address sees the pings that Ping promises, whatever the threads do.
Pings == INSTANCE Ping WITH
  sent <- [a \in Addresses |-> IF targets[a] = None THEN 0 ELSE targets[a].retry + 1],
  last <- reported

ImplementsPing == Pings!Spec

\* Every ping has a result, unless the pinger is stopped.
PingEnds == \A a \in Addresses : Busy(a) ~> (~Busy(a) \/ stop)

\* stop makes run return.
StopReturns == stop ~> sender = "returned"
=============================================================================
