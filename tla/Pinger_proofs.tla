---------------------------- MODULE Pinger_proofs ----------------------------
(***************************************************************************)
(* Theorems about Pinger for any number of addresses and retries.          *)
(*                                                                         *)
(* TypeOK and IteratorsValid are inductive.  NoOversleep holds because a   *)
(* set of deadlines has a least one and whoever adds a request signals.    *)
(* AnswersOwn needs Numbering, which says where each sequence number comes *)
(* from and which echo requests may still be answered.                     *)
(***************************************************************************)
EXTENDS Pinger, WellFoundedInduction, TLAPS

-----------------------------------------------------------------------------
(* Types *)

\* None points to no request.
LEMMA NoneIsNoRequest == None \notin Requests
  BY SMT DEF None, Requests, Addresses

LEMMA RequestType ==
  ASSUME TypeOK, PingerAssumption
  PROVE  Request \in Requests /\ Echo(Request) \in Messages
  BY PingerAssumption, SMT DEF TypeOK, Request, Requests, Echo, Messages

\* A retry is a request, of the same address and round.
LEMMA AgainType ==
  ASSUME TypeOK, PingerAssumption, NEW r \in requests, ~LastTry(r)
  PROVE  /\ Again(r) \in Requests /\ Echo(Again(r)) \in Messages
         /\ Again(r).address = r.address /\ Again(r).round = r.round
         /\ Again(r).retry = r.retry + 1 /\ Again(r).sequence = r.sequence + 1
         /\ Again(r).deadline = now + TimeoutPerRetry
<1>1. r \in Requests BY DEF TypeOK
<1>2. r.retry \in 0..MaxRetries /\ r.retry # MaxRetries
  BY <1>1, SMT DEF Requests, LastTry
<1>3. now + TimeoutPerRetry \in Nat /\ r.retry + 1 \in 0..MaxRetries
  <2>1. now \in Nat /\ TimeoutPerRetry \in Nat /\ MaxRetries \in Nat
    BY Zenon DEF TypeOK, PingerAssumption
  <2> QED BY <1>2, <2>1, SMT
<1>4. Again(r) \in Requests
  BY <1>1, <1>3, SMT DEF Again, Requests
<1>5. Echo(Again(r)) \in Messages
  BY <1>4, SMT DEF Echo, Messages, Requests, PingerAssumption
<1> QED BY <1>4, <1>5 DEF Again

LEMMA RetriedType ==
  ASSUME TypeOK, PingerAssumption, NEW failed
  PROVE  /\ Retried(failed) \in SUBSET Requests
         /\ {Echo(r) : r \in Retried(failed)} \in SUBSET Messages
  BY AgainType, Zenon DEF Retried, Expired

\* The iterator of an address points to a request inserted for it, to none
\* when its request was only erased, and else where it pointed before.
LEMMA TargetValue ==
  ASSUME NEW S, NEW gone, NEW a
  PROVE  \/ Target(S, gone, a) \in S /\ Target(S, gone, a).address = a
         \/ /\ \A r \in S : r.address # a
            /\ \/ (\E r \in gone : r.address = a) /\ Target(S, gone, a) = None
               \/ (\A r \in gone : r.address # a) /\ Target(S, gone, a) = targets[a]
  BY Zenon DEF Target

\* What Advance does to the variables of run.
LEMMA AdvanceType ==
  ASSUME TypeOK, PingerAssumption, NEW messages \in SUBSET Messages, Advance(messages)
  PROVE  /\ t' \in Nat /\ next' \in Addresses /\ currentSequence' \in 0..(SeqMod - 1)
         /\ round' \in Nat /\ net' \in SUBSET Messages
<1>1. t' \in Nat BY SMT DEF Advance, TypeOK, PingerAssumption
<1>2. next' \in Addresses /\ round' \in Nat
  BY SMT DEF Advance, TypeOK, PingerAssumption, Addresses
<1>3. currentSequence' \in 0..(SeqMod - 1)
  BY SMT DEF Advance, TypeOK, PingerAssumption, NextSequence
<1>4. net' \in SUBSET Messages BY DEF Advance, Heard
<1> QED BY <1>1, <1>2, <1>3, <1>4

LEMMA OutcomeType ==
  ASSUME TypeOK, PingerAssumption, NEW failed, NEW r \in requests
  PROVE  Outcome(failed, r) \in [result : {"timeout", "sendFailed"}, retry : Nat]
<1>1. r.retry \in Nat BY SMT DEF TypeOK, Requests, PingerAssumption
<1> QED BY <1>1, SMT DEF Outcome

LEMMA TypeInit == PingerAssumption /\ Init => TypeOK
<1> SUFFICES ASSUME PingerAssumption, Init PROVE TypeOK
  OBVIOUS
<1>1. currentSequence \in 0..(SeqMod - 1)
  BY SMT DEF PingerAssumption, Init
<1>2. next \in Addresses
  BY SMT DEF PingerAssumption, Init, Addresses
<1>3. targets \in [Addresses -> Requests \cup {None}]
  BY DEF Init
<1>4. reported \in [Addresses -> [result : {"none", "pinged", "unreachable", "timeout",
                                         "sendFailed"}, retry : Nat]]
  BY SMT DEF Init, Nothing
<1>5. now \in Nat /\ t \in Nat /\ round \in Nat
  BY DEF Init
<1>6. requests \in SUBSET Requests /\ until \in SUBSET Nat /\ net \in SUBSET Messages
  BY DEF Init
<1>7. /\ stop \in BOOLEAN /\ sender \in {"loop", "joinsAlarm", "joinsReceiver", "returned"}
      /\ alarm \in {"awake", "waits", "ended"} /\ receiver \in {"select", "ended"}
  BY DEF Init
<1> QED BY <1>1, <1>2, <1>3, <1>4, <1>5, <1>6, <1>7 DEF TypeOK

LEMMA TypeNext ==
  ASSUME PingerAssumption, TypeOK, [Next]_vars
  PROVE  TypeOK'
<1>1. CASE Send
  <2>1. Request \in Requests /\ net \cup {Echo(Request)} \in SUBSET Messages
    BY RequestType DEF TypeOK
  <2>2. /\ t' \in Nat /\ next' \in Addresses /\ currentSequence' \in 0..(SeqMod - 1)
        /\ round' \in Nat /\ net' \in SUBSET Messages
    BY <1>1, <2>1, AdvanceType DEF Send
  <2>3. requests' \in SUBSET Requests /\ targets' \in [Addresses -> Requests \cup {None}]
    BY <1>1, <2>1 DEF Send, TypeOK
  <2>4. alarm' \in {"awake", "waits", "ended"}
    BY <1>1 DEF Send, Signal, TypeOK
  <2> QED BY <1>1, <2>2, <2>3, <2>4 DEF Send, TypeOK
<1>2. CASE SendFails
  <2>1. /\ t' \in Nat /\ next' \in Addresses /\ currentSequence' \in 0..(SeqMod - 1)
        /\ round' \in Nat /\ net' \in SUBSET Messages
    BY <1>2, AdvanceType DEF SendFails, TypeOK
  <2> QED BY <1>2, <2>1, SMT DEF SendFails, TypeOK, Reported, alarmVars
<1>3. CASE Skip
  <2>1. /\ t' \in Nat /\ next' \in Addresses /\ currentSequence' \in 0..(SeqMod - 1)
        /\ round' \in Nat /\ net' \in SUBSET Messages
    BY <1>3, AdvanceType DEF Skip, TypeOK
  <2> QED BY <1>3, <2>1 DEF Skip, TypeOK, shared, alarmVars
<1>4. CASE LoopEnds \/ AlarmJoined \/ ReceiverJoined
  BY <1>4 DEF LoopEnds, AlarmJoined, ReceiverJoined, TypeOK, shared, alarmVars
<1>5. CASE Stop
  BY <1>5 DEF Stop, Signal, TypeOK, shared, senderVars
<1>6. ASSUME NEW failed, AlarmClock(failed) PROVE TypeOK'
  <2>1. requests' \in SUBSET Requests /\ net' \in SUBSET Messages
    BY <1>6, RetriedType DEF AlarmClock, TypeOK
  <2>2. targets' \in [Addresses -> Requests \cup {None}]
    <3>1. ASSUME NEW a \in Addresses
          PROVE  Target(Retried(failed), Expired, a) \in Requests \cup {None}
      BY TargetValue, RetriedType DEF TypeOK
    <3> QED BY <1>6, <3>1 DEF AlarmClock
  <2>3. reported' \in [Addresses -> [result : {"none", "pinged", "unreachable", "timeout",
                                               "sendFailed"}, retry : Nat]]
    <3>1. ASSUME NEW a \in Addresses, Over(failed, a) # {}
          PROVE  Outcome(failed, CHOOSE r \in Over(failed, a) : TRUE)
                   \in [result : {"timeout", "sendFailed"}, retry : Nat]
      BY <3>1, OutcomeType DEF Over, Expired
    <3> QED BY <1>6, <3>1 DEF AlarmClock, TypeOK
  <2>4. until' \in SUBSET Nat
    BY <1>6, <2>1 DEF AlarmClock, Earliest, Requests
  <2> QED BY <1>6, <2>1, <2>2, <2>3, <2>4 DEF AlarmClock, TypeOK, senderVars
<1>7. CASE AlarmEnds
  BY <1>7 DEF AlarmEnds, TypeOK, shared, senderVars
<1>8. CASE ReceiverEnds
  BY <1>8 DEF ReceiverEnds, TypeOK, shared, senderVars, alarmVars
<1>9. CASE Tick
  BY <1>9, SMT DEF Tick, TypeOK, shared, senderVars, alarmVars
<1>10. ASSUME NEW m \in net, NEW result \in {"pinged", "unreachable"}, Receive(m, result)
       PROVE  TypeOK'
  <2>1. m.to \in Addresses BY SMT DEF TypeOK, Messages
  <2>2. targets[m.to] \in Requests
    BY <1>10, <2>1 DEF Receive, Accepts, Busy, TypeOK
  <2>3. targets[m.to].retry \in Nat
    BY <2>2, SMT DEF Requests, PingerAssumption
  <2> QED BY <1>10, <2>1, <2>3 DEF Receive, Reported, TypeOK, senderVars, alarmVars
<1>11. CASE UNCHANGED vars
  BY <1>11 DEF TypeOK, vars, shared, senderVars, alarmVars
<1> QED
  BY <1>1, <1>2, <1>3, <1>4, <1>5, <1>6, <1>7, <1>8, <1>9, <1>10, <1>11
     DEF Next, Sender, Alarm

\* Every variable keeps its type, whatever the threads and the network do.
THEOREM TypeCorrect == Spec => []TypeOK
<1>1. Init => TypeOK
  BY TypeInit, PingerAssumption
<1>2. TypeOK /\ [Next]_vars => TypeOK'
  BY TypeNext, PingerAssumption
<1> QED BY <1>1, <1>2, PTL DEF Spec

-----------------------------------------------------------------------------
(* Iterators *)

\* An address without a request has no request in requests_.
LEMMA OnlyBusyHaveRequests ==
  ASSUME TypeOK, IteratorsValid, NEW a \in Addresses, ~Busy(a)
  PROVE  \A r \in requests : r.address # a
BY NoneIsNoRequest DEF IteratorsValid, Busy, TypeOK

\* Retries: one at most for each address, none for an address whose ping is over.
LEMMA RetriedValue ==
  ASSUME TypeOK, PingerAssumption, IteratorsValid, NEW failed, NEW q \in Retried(failed)
  PROVE  /\ q.address \in Addresses
         /\ targets[q.address] \in Expired \ failed /\ ~LastTry(targets[q.address])
         /\ q = Again(targets[q.address])
<1>1. PICK r \in Expired \ failed : ~LastTry(r) /\ q = Again(r)
  BY DEF Retried
<1>2. r \in requests /\ r \in Requests
  BY <1>1 DEF Expired, TypeOK
<1>3. q.address = r.address
  BY <1>1, <1>2, AgainType
<1>4. r.address \in Addresses BY <1>2 DEF Requests
<1>5. targets[r.address] = r BY <1>2 DEF IteratorsValid
<1> QED BY <1>1, <1>3, <1>4, <1>5

LEMMA IteratorsNext ==
  ASSUME PingerAssumption, TypeOK, IteratorsValid, [Next]_vars
  PROVE  IteratorsValid'
<1>1. CASE Send
  <2>1. Request.address = next /\ next \in Addresses
    BY DEF Request, TypeOK
  <2>2. ~Busy(next) BY <1>1 DEF Send
  <2>3. \A r \in requests : r.address # next /\ r.address \in Addresses
    BY <2>1, <2>2, OnlyBusyHaveRequests DEF TypeOK, Requests
  <2>4. targets' = [targets EXCEPT ![next] = Request] /\ requests' = requests \cup {Request}
    BY <1>1 DEF Send
  <2> QED BY <2>1, <2>3, <2>4 DEF IteratorsValid, Busy, TypeOK
<1>2. ASSUME NEW failed, AlarmClock(failed) PROVE IteratorsValid'
  <2> DEFINE T(a) == Target(Retried(failed), Expired, a)
  <2>1. /\ requests' = (requests \ Expired) \cup Retried(failed)
        /\ \A a \in Addresses : targets'[a] = T(a)
    BY <1>2 DEF AlarmClock
  <2>2. ASSUME NEW a \in Addresses, T(a) # None
        PROVE  T(a) \in requests' /\ T(a).address = a
    <3>1. CASE T(a) \in Retried(failed) /\ T(a).address = a
      BY <3>1, <2>1
    <3>2. CASE (\A r \in Expired : r.address # a) /\ T(a) = targets[a]
      <4>1. targets[a] \in requests /\ targets[a].address = a
        BY <2>2, <3>2 DEF IteratorsValid, Busy
      <4> QED BY <2>1, <3>2, <4>1
    <3> QED BY <2>2, <3>1, <3>2, TargetValue
  <2>3. ASSUME NEW r \in requests \ Expired PROVE T(r.address) = r
    <3>1. r.address \in Addresses /\ targets[r.address] = r
      BY DEF IteratorsValid, TypeOK, Requests
    <3>2. \A q \in Expired : q.address # r.address
      BY <3>1 DEF IteratorsValid, Expired
    <3>3. \A q \in Retried(failed) : q.address # r.address
      BY <3>1, RetriedValue
    <3> QED BY <3>1, <3>2, <3>3, TargetValue
  <2>4. ASSUME NEW q \in Retried(failed) PROVE T(q.address) = q
    <3>1. T(q.address) \in Retried(failed) /\ T(q.address).address = q.address
      BY TargetValue
    <3> QED BY <3>1, RetriedValue
  <2>5. \A r \in requests' : r.address \in Addresses /\ T(r.address) = r
    BY <2>1, <2>3, <2>4, RetriedValue DEF TypeOK, Requests
  <2> QED BY <2>1, <2>2, <2>5 DEF IteratorsValid, Busy
<1>3. ASSUME NEW m \in net, NEW result, Receive(m, result) PROVE IteratorsValid'
  <2>1. m.to \in Addresses /\ targets[m.to] # None
    BY <1>3 DEF Receive, Accepts, Busy, TypeOK, Messages
  <2>2. targets[m.to] \in requests /\ targets[m.to].address = m.to
    BY <2>1 DEF IteratorsValid, Busy
  <2>3. \A r \in requests : r.address \in Addresses BY DEF TypeOK, Requests
  <2>4. /\ requests' = requests \ {targets[m.to]}
        /\ targets' = [targets EXCEPT ![m.to] = None]
    BY <1>3 DEF Receive
  <2> QED BY <2>1, <2>2, <2>3, <2>4 DEF IteratorsValid, Busy, TypeOK
<1>4. CASE SendFails \/ Skip \/ LoopEnds \/ AlarmJoined \/ ReceiverJoined \/ Stop \/ AlarmEnds
           \/ ReceiverEnds \/ Tick \/ UNCHANGED vars
  <2>1. UNCHANGED <<requests, targets>>
    BY <1>4 DEF SendFails, Skip, LoopEnds, AlarmJoined, ReceiverJoined, Stop, AlarmEnds,
                ReceiverEnds, Tick, vars, shared
  <2> QED BY <2>1 DEF IteratorsValid, Busy
<1> QED BY <1>1, <1>2, <1>3, <1>4 DEF Next, Sender, Alarm

\* No iterator of targets_ points to an erased request and each address has one
\* request at most, although two threads insert and two erase.
THEOREM IteratorsCorrect == Spec => []IteratorsValid
<1>1. Init => IteratorsValid
  BY DEF Init, IteratorsValid, Busy
<1>2. TypeOK /\ IteratorsValid /\ [Next]_vars => IteratorsValid'
  BY IteratorsNext, PingerAssumption
<1> QED BY <1>1, <1>2, TypeCorrect, PTL DEF Spec

-----------------------------------------------------------------------------
(* The alarm clock's wait *)

\* A set of numbers has a least one.
LEMMA LeastNumber ==
  ASSUME NEW S \in SUBSET Nat, S # {}
  PROVE  \E d \in S : \A e \in S : d <= e
<1> DEFINE R == {ss \in Nat \X Nat : ss[1] < ss[2]}
<1>1. OpToRel(<, Nat) = R
  BY Zenon DEF OpToRel
<1>2. IsWellFoundedOn(R, Nat)
  BY <1>1, NatLessThanWellFounded, Zenon
<1>3. PICK x \in S : \A y \in S : ~(<<y, x>> \in R)
  BY <1>2, WFMin, Zenon
<1>4. ASSUME NEW y \in S, y < x PROVE FALSE
  <2>1. <<y, x>> \in Nat \X Nat /\ <<y, x>>[1] = y /\ <<y, x>>[2] = x
    OBVIOUS
  <2> QED BY <1>3, <1>4, <2>1
<1> QED BY <1>4

\* The first deadline of a set of requests is before each of them.
LEMMA EarliestIsFirst ==
  ASSUME NEW S \in SUBSET Requests, NEW r \in S
  PROVE  \E d \in Earliest(S) : d <= r.deadline
<1> DEFINE D == {q.deadline : q \in S}
<1>1. D \in SUBSET Nat /\ r.deadline \in D
  BY DEF Requests
<1>2. PICK d \in D : \A e \in D : d <= e
  BY <1>1, LeastNumber
<1>3. d \in Earliest(S)
  BY <1>2 DEF Earliest
<1> QED BY <1>1, <1>2, <1>3

LEMMA NoOversleepNext ==
  ASSUME TypeOK, TypeOK', NoOversleep, [Next]_vars
  PROVE  NoOversleep'
<1>1. CASE Send \/ Stop
  BY <1>1 DEF Send, Stop, Signal, NoOversleep
<1>2. ASSUME NEW failed, AlarmClock(failed) PROVE NoOversleep'
  <2>1. until' = Earliest(requests') /\ requests' \in SUBSET Requests
    BY <1>2 DEF AlarmClock, TypeOK
  <2> QED BY <2>1, EarliestIsFirst DEF NoOversleep
<1>3. ASSUME NEW m \in net, NEW result, Receive(m, result) PROVE NoOversleep'
  BY <1>3 DEF Receive, NoOversleep, alarmVars
<1>4. CASE SendFails \/ Skip \/ LoopEnds \/ AlarmJoined \/ ReceiverJoined \/ ReceiverEnds
           \/ Tick \/ UNCHANGED vars
  BY <1>4 DEF SendFails, Skip, LoopEnds, AlarmJoined, ReceiverJoined, ReceiverEnds, Tick,
              vars, shared, alarmVars, NoOversleep
<1>5. CASE AlarmEnds
  BY <1>5 DEF AlarmEnds, NoOversleep
<1> QED BY <1>1, <1>2, <1>3, <1>4, <1>5 DEF Next, Sender, Alarm

\* A waiting alarm clock wakes up for every request, also for one that run adds
\* while it waits: no signal is lost between computing the wait and waiting.
THEOREM NeverOversleeps == Spec => []NoOversleep
<1>1. Init => NoOversleep
  BY DEF Init, NoOversleep
<1>2. TypeOK /\ TypeOK' /\ NoOversleep /\ [Next]_vars => NoOversleep'
  BY NoOversleepNext
<1> QED BY <1>1, <1>2, TypeCorrect, PTL DEF Spec

-----------------------------------------------------------------------------
(* Refinement *)

LEMMA PingsKeep ==
  ASSUME UNCHANGED <<targets, reported>>
  PROVE  UNCHANGED Pings!vars
BY DEF Pings!vars

LEMMA PingsNext ==
  ASSUME PingerAssumption, TypeOK, TypeOK', IteratorsValid, [Next]_vars
  PROVE  [Pings!Next]_(Pings!vars)
<1> DEFINE sent == [a \in Addresses |-> IF targets[a] = None THEN 0 ELSE targets[a].retry + 1]
<1> SUFFICES ASSUME ~UNCHANGED <<targets, reported>> PROVE Pings!Next
  BY PingsKeep
<1>0. DOMAIN sent' = Addresses /\ DOMAIN reported' = Addresses
  BY DEF TypeOK
<1> SUFFICES \A a \in Addresses : \/ Pings!Keep(a) \/ Pings!Begin(a) \/ Pings!Retry(a)
                                  \/ Pings!Answered(a) \/ Pings!TimedOut(a) \/ Pings!SendFailed(a)
  BY <1>0 DEF Pings!Next
<1> TAKE a \in Addresses
<1>1. CASE Send
  <2>1. CASE a # next
    BY <1>1, <2>1 DEF Send, Pings!Keep, TypeOK
  <2>2. CASE a = next
    <3>1. sent[a] = 0
      BY <1>1, <2>2 DEF Send, Busy
    <3>2. Request # None /\ Request.retry = 0
      BY NoneIsNoRequest, RequestType DEF Request
    <3>3. sent'[a] = 1 /\ reported'[a] = reported[a]
      BY <1>1, <2>2, <3>2 DEF Send, TypeOK
    <3> QED BY <3>1, <3>3 DEF Pings!Begin
  <2> QED BY <2>1, <2>2
<1>2. CASE SendFails
  <2>1. CASE a # next
    BY <1>2, <2>1 DEF SendFails, Reported, Pings!Keep, TypeOK
  <2>2. CASE a = next
    <3>1. sent[a] = 0 /\ sent'[a] = 0
      BY <1>2, <2>2 DEF SendFails, Busy
    <3>2. reported'[a] = [result |-> "sendFailed", retry |-> 0]
      BY <1>2, <2>2 DEF SendFails, Reported, TypeOK
    <3>3. 0 \in 0..MaxRetries BY DEF PingerAssumption
    <3> QED BY <3>1, <3>2, <3>3 DEF Pings!SendFailed, Pings!End
  <2> QED BY <2>1, <2>2
<1>3. ASSUME NEW failed \in SUBSET {r \in Expired : ~LastTry(r)}, AlarmClock(failed)
      PROVE  \/ Pings!Keep(a) \/ Pings!Retry(a) \/ Pings!TimedOut(a) \/ Pings!SendFailed(a)
  <2> DEFINE r == targets[a]
             T == Target(Retried(failed), Expired, a)
  <2>1. /\ targets'[a] = T
        /\ reported'[a] = IF Over(failed, a) = {} THEN reported[a]
                          ELSE Outcome(failed, CHOOSE q \in Over(failed, a) : TRUE)
    BY <1>3 DEF AlarmClock
  <2>2. \A q \in Expired : q.address = a => q = r
    BY DEF Expired, IteratorsValid
  <2>3. CASE \A q \in Expired : q.address # a
    <3>1. \A q \in Retried(failed) : q.address # a
      BY <2>3, RetriedValue, AgainType DEF Expired
    <3>2. T = targets[a] /\ Over(failed, a) = {}
      BY <2>3, <3>1, TargetValue DEF Over
    <3> QED BY <2>1, <3>2 DEF Pings!Keep
  <2>4. CASE r \in Expired /\ r.address = a
    <3>1. r \in requests /\ r \in Requests /\ r # None
      BY <2>4, NoneIsNoRequest DEF Expired, TypeOK
    <3>2. sent[a] = r.retry + 1 /\ r.retry \in 0..MaxRetries
      BY <3>1 DEF Requests
    <3>3. CASE LastTry(r) \/ r \in failed
      <4>1. Over(failed, a) = {r}
        BY <2>2, <2>4, <3>3 DEF Over
      <4>2. reported'[a] = Outcome(failed, r)
        BY <2>1, <4>1
      <4>3. \A q \in Retried(failed) : q.address # a
        BY <3>3, RetriedValue
      <4>4. sent'[a] = 0
        BY <2>1, <2>4, <4>3, TargetValue
      <4>5. CASE r \in failed
        <5>1. reported'[a] = [result |-> "sendFailed", retry |-> r.retry + 1]
          BY <4>2, <4>5 DEF Outcome
        <5>2. sent[a] \in 0..MaxRetries
          BY <3>2, <4>5 DEF LastTry, PingerAssumption
        <5> QED BY <3>2, <4>4, <5>1, <5>2 DEF Pings!SendFailed, Pings!End
      <4>6. CASE r \notin failed
        <5>1. r.retry = MaxRetries BY <3>3, <4>6 DEF LastTry
        <5>2. reported'[a] = [result |-> "timeout", retry |-> MaxRetries]
          BY <4>2, <4>6, <5>1 DEF Outcome
        <5>3. sent[a] = 1 + MaxRetries
          BY <3>2, <5>1 DEF PingerAssumption
        <5> QED BY <4>4, <5>2, <5>3 DEF Pings!TimedOut, Pings!End
      <4> QED BY <4>5, <4>6
    <3>4. CASE ~LastTry(r) /\ r \notin failed
      <4>1. Over(failed, a) = {}
        BY <2>2, <3>4 DEF Over
      <4>2. Again(r) \in Retried(failed) /\ Again(r).address = a /\ Again(r).retry = r.retry + 1
        BY <2>4, <3>1, <3>4, AgainType DEF Retried
      <4>3. T \in Retried(failed) /\ T.address = a
        BY <4>2, TargetValue
      <4>4. T = Again(r)
        BY <4>3, RetriedValue
      <4>5. T # None
        BY <3>1, <3>4, <4>4, AgainType, NoneIsNoRequest
      <4>6. sent'[a] = r.retry + 2
        BY <2>1, <3>2, <4>2, <4>4, <4>5
      <4>7. sent[a] \in 1..MaxRetries
        BY <3>2, <3>4 DEF LastTry, PingerAssumption
      <4> QED BY <2>1, <3>2, <4>1, <4>6, <4>7 DEF Pings!Retry
    <3> QED BY <3>3, <3>4
  <2> QED BY <2>2, <2>3, <2>4
<1>4. ASSUME NEW m \in net, NEW result \in {"pinged", "unreachable"}, Receive(m, result)
      PROVE  Pings!Keep(a) \/ Pings!Answered(a)
  <2>1. CASE a # m.to
    BY <1>4, <2>1 DEF Receive, Reported, Pings!Keep, TypeOK
  <2>2. CASE a = m.to
    <3>1. targets[a] # None /\ targets[a] \in Requests
      BY <1>4, <2>2 DEF Receive, Accepts, Busy, TypeOK
    <3>2. sent[a] = targets[a].retry + 1 /\ targets[a].retry \in Nat
      BY <3>1 DEF Requests, PingerAssumption
    <3>3. sent'[a] = 0 /\ reported'[a] = [result |-> result, retry |-> sent[a] - 1]
      BY <1>4, <2>2, <3>2 DEF Receive, Reported, TypeOK
    <3> QED BY <3>2, <3>3 DEF Pings!Answered, Pings!End
  <2> QED BY <2>1, <2>2
<1>5. CASE Skip \/ LoopEnds \/ AlarmJoined \/ ReceiverJoined \/ Stop \/ AlarmEnds
           \/ ReceiverEnds \/ Tick \/ UNCHANGED vars
  BY <1>5 DEF Skip, LoopEnds, AlarmJoined, ReceiverJoined, Stop, AlarmEnds,
              ReceiverEnds, Tick, vars, shared
<1> QED BY <1>1, <1>2, <1>3, <1>4, <1>5 DEF Next, Sender, Alarm

\* Pinger implements Ping: one ping of an address at a time, of 1 + MaxRetries
\* requests at most, ended by one result that its number of requests justifies.
THEOREM PingerImplementsPing == Spec => ImplementsPing
<1>1. Init => Pings!Init
  BY DEF Init, Pings!Init, Nothing, Pings!Nothing
<1>2. TypeOK /\ TypeOK' /\ IteratorsValid /\ [Next]_vars => [Pings!Next]_(Pings!vars)
  BY PingsNext, PingerAssumption
<1> QED BY <1>1, <1>2, TypeCorrect, IteratorsCorrect, PTL DEF Spec, ImplementsPing, Pings!Spec

-----------------------------------------------------------------------------
(* Sequence numbers *)

\* The number of retry n of round k, before it is cut to 16 bits.
Number(k, n) == FirstSequence + k * (MaxRetries + 1) + n

\* x and y are the same number modulo SeqMod.
Congruent(x, y) == \E q \in Int : x = y - q * SeqMod

\* Where numbers come from, and which echo requests may still be answered: of an
\* address none newer than its request nor Memory rounds older.
NumbersFrom ==
  /\ Congruent(currentSequence, Number(round, 0))
  /\ \A r \in requests : Congruent(r.sequence, Number(r.round, r.retry))
  /\ \A m \in net : Congruent(m.sequence, Number(m.round, m.retry))
RoundsPast ==
  /\ \A r \in requests : r.round < round \/ (r.round = round /\ r.address < next)
  /\ \A m \in net : m.round < round \/ (m.round = round /\ m.to < next)
AnswersPast ==
  \A m \in net, r \in requests :
    m.to = r.address => /\ m.round < r.round \/ (m.round = r.round /\ m.retry <= r.retry)
                        /\ r.round - m.round < Memory

LEMMA NumberType ==
  ASSUME PingerAssumption, NEW k \in Nat, NEW n \in Nat
  PROVE  /\ Number(k, n) \in Int /\ Number(k, n + 1) = Number(k, n) + 1
         /\ Number(k + 1, n) = Number(k, n) + MaxRetries + 1
<1>1. k * (MaxRetries + 1) \in Int BY SMT DEF PingerAssumption
<1>2. (k + 1) * (MaxRetries + 1) = k * (MaxRetries + 1) + (MaxRetries + 1)
  BY SMT DEF PingerAssumption
<1> QED BY <1>1, <1>2, SMT DEF Number, PingerAssumption

\* Cutting a number to 16 bits keeps it, modulo SeqMod.
LEMMA CutCongruent ==
  ASSUME PingerAssumption, NEW x \in Int, NEW y \in Int, Congruent(x, y)
  PROVE  Congruent(x % SeqMod, y)
<1>1. PICK q \in Int : x = y - q * SeqMod
  BY DEF Congruent
<1>2. x = SeqMod * (x \div SeqMod) + (x % SeqMod) /\ x \div SeqMod \in Int
  BY SMT DEF PingerAssumption
<1>3. (q + (x \div SeqMod)) * SeqMod = q * SeqMod + SeqMod * (x \div SeqMod)
  BY <1>2, SMT DEF PingerAssumption
<1>4. x % SeqMod \in Int /\ q * SeqMod \in Int /\ SeqMod * (x \div SeqMod) \in Int
  BY <1>2, SMT DEF PingerAssumption
<1>5. x % SeqMod = y - (q + (x \div SeqMod)) * SeqMod
  BY <1>1, <1>2, <1>3, <1>4, SMT
<1>6. q + (x \div SeqMod) \in Int
  BY <1>2
<1> HIDE DEF Congruent
<1> QED BY <1>5, <1>6, Zenon DEF Congruent

\* Adding the same to both keeps numbers congruent.
LEMMA AddCongruent ==
  ASSUME PingerAssumption, NEW x \in Int, NEW y \in Int, NEW d \in Int, Congruent(x, y)
  PROVE  Congruent(x + d, y + d)
<1>1. PICK q \in Int : x = y - q * SeqMod
  BY DEF Congruent
<1>2. q * SeqMod \in Int BY SMT DEF PingerAssumption
<1>3. x + d = y + d - q * SeqMod BY <1>1, <1>2, SMT
<1> QED BY <1>3 DEF Congruent

LEMMA SelfCongruent ==
  ASSUME PingerAssumption, NEW x \in Int
  PROVE  Congruent(x, x)
<1>1. x = x - 0 * SeqMod BY SMT DEF PingerAssumption
<1> QED BY <1>1 DEF Congruent

\* No multiple of M lies strictly between 0 and M.
LEMMA NoMultipleBetween ==
  ASSUME NEW M \in Nat \ {0}, NEW q \in Int, 0 < q * M
  PROVE  M <= q * M
<1>1. CASE q <= 0 BY <1>1, SMT
<1>2. CASE q >= 1 BY <1>2, SMT
<1> QED BY <1>1, <1>2, SMT

\* Numbers of less than Memory rounds that are the same modulo SeqMod are of the
\* same round and retry: this is where a round must skip MaxRetries + 1 numbers.
LEMMA SameNumber ==
  ASSUME PingerAssumption, MemoryAssumption,
         NEW k \in Nat, NEW j \in Nat, NEW n \in 0..MaxRetries, NEW i \in 0..MaxRetries,
         j < k \/ (j = k /\ i <= n), k - j < Memory,
         NEW x \in Int, Congruent(x, Number(k, n)), Congruent(x, Number(j, i))
  PROVE  j = k /\ i = n
<1> DEFINE R == MaxRetries + 1
           D == (k - j) * R + n - i
<1>0. R \in Nat \ {0} /\ SeqMod \in Nat \ {0} /\ Memory \in Nat
  BY SMT DEF PingerAssumption
<1>1. PICK p \in Int : x = Number(k, n) - p * SeqMod BY DEF Congruent
<1>2. PICK q \in Int : x = Number(j, i) - q * SeqMod BY DEF Congruent
<1>3. D = (p - q) * SeqMod
  <2>1. (p - q) * SeqMod = p * SeqMod - q * SeqMod BY <1>0, SMT
  <2>2. (k - j) * R = k * R - j * R BY <1>0, SMT
  <2>3. p * SeqMod \in Int /\ q * SeqMod \in Int /\ k * R \in Int /\ j * R \in Int
    BY <1>0, SMT
  <2>4. FirstSequence \in Int BY DEF PingerAssumption
  <2>5. FirstSequence + k * R + n - p * SeqMod = FirstSequence + j * R + i - q * SeqMod
    BY <1>1, <1>2 DEF Number
  <2> HIDE DEF R
  <2> QED BY <2>1, <2>2, <2>3, <2>4, <2>5, SMT
<1>4. CASE j = k
  <2>1. D = n - i BY <1>0, <1>4, SMT
  <2>2. n - i < SeqMod
    <3>1. R <= Memory * R BY <1>0, SMT DEF PingerAssumption
    <3>2. Memory * R <= SeqMod BY DEF MemoryAssumption
    <3>3. Memory * R \in Int BY <1>0, SMT
    <3>4. n - i < R BY DEF PingerAssumption
    <3> HIDE DEF R
    <3> QED BY <1>0, <3>1, <3>2, <3>3, <3>4, SMT
  <2>3. ~(0 < D)
    BY <1>0, <1>3, <2>1, <2>2, NoMultipleBetween, SMT
  <2> QED BY <1>4, <2>1, <2>3, SMT
<1>5. CASE j < k
  <2>1. R <= (k - j) * R BY <1>0, <1>5, SMT
  <2>2. (k - j) * R <= (Memory - 1) * R BY <1>0, SMT
  <2>3. (Memory - 1) * R = Memory * R - R BY <1>0, SMT
  <2>4. Memory * R <= SeqMod BY DEF MemoryAssumption
  <2>5. (k - j) * R \in Int /\ Memory * R \in Int BY <1>0, SMT
  <2>6. n - i < R /\ i - n < R BY SMT DEF PingerAssumption
  <2>7. 0 < D /\ D < SeqMod
    <3> HIDE DEF R
    <3> QED BY <1>0, <2>1, <2>2, <2>3, <2>4, <2>5, <2>6, SMT
  <2> QED BY <1>0, <1>3, <2>7, NoMultipleBetween, SMT
<1> QED BY <1>4, <1>5

LEMMA NumbersFromNext ==
  ASSUME PingerAssumption, TypeOK, NumbersFrom, [Next]_vars
  PROVE  NumbersFrom'
<1>1. /\ currentSequence \in Int /\ round \in Nat /\ MaxRetries \in Nat
      /\ Congruent(currentSequence, Number(round, 0))
  BY SMT DEF NumbersFrom, TypeOK, PingerAssumption
<1>2. ASSUME NEW messages, Advance(messages)
      PROVE  Congruent(currentSequence', Number(round', 0)) /\ net' \in SUBSET messages
  <2>1. net' \in SUBSET messages BY <1>2 DEF Advance, Heard
  <2>2. CASE next = N
    <3>1. currentSequence' = (currentSequence + (MaxRetries + 1)) % SeqMod /\ round' = round + 1
      BY <1>1, <1>2, <2>2, SMT DEF Advance, NextSequence
    <3>2. Number(round + 1, 0) = Number(round, 0) + (MaxRetries + 1) /\ Number(round, 0) \in Int
      BY <1>1, NumberType, SMT
    <3>3. MaxRetries + 1 \in Int BY <1>1
    <3>4. Congruent(currentSequence + (MaxRetries + 1), Number(round, 0) + (MaxRetries + 1))
      BY <1>1, <3>2, <3>3, AddCongruent
    <3>5. Congruent((currentSequence + (MaxRetries + 1)) % SeqMod, Number(round + 1, 0))
      BY <1>1, <3>2, <3>3, <3>4, CutCongruent
    <3> QED BY <2>1, <3>1, <3>5
  <2>3. CASE next # N
    BY <1>1, <1>2, <2>1, <2>3 DEF Advance
  <2> QED BY <2>2, <2>3
<1>3. CASE Send
  <2>1. Congruent(Request.sequence, Number(Request.round, Request.retry))
    BY <1>1 DEF Request
  <2>2. Congruent(Echo(Request).sequence, Number(Echo(Request).round, Echo(Request).retry))
    <3>1. Number(round, 0) \in Int BY <1>1, NumberType
    <3>2. Congruent(currentSequence % SeqMod, Number(round, 0))
      BY <1>1, <3>1, CutCongruent
    <3> QED BY <3>2 DEF Request, Echo
  <2>3. requests' = requests \cup {Request} /\ Advance(net \cup {Echo(Request)})
    BY <1>3 DEF Send
  <2> QED BY <1>2, <2>1, <2>2, <2>3 DEF NumbersFrom
<1>4. CASE SendFails \/ Skip
  <2>1. Advance(net) /\ requests' = requests
    BY <1>4 DEF SendFails, Skip, shared
  <2> QED BY <1>2, <2>1 DEF NumbersFrom
<1>5. ASSUME NEW failed, AlarmClock(failed) PROVE NumbersFrom'
  <2>1. ASSUME NEW q \in Retried(failed)
        PROVE  /\ Congruent(q.sequence, Number(q.round, q.retry))
               /\ Congruent(Echo(q).sequence, Number(Echo(q).round, Echo(q).retry))
    <3>1. PICK r \in requests : ~LastTry(r) /\ q = Again(r)
      BY DEF Retried, Expired
    <3>2. /\ q.sequence = r.sequence + 1 /\ q.round = r.round /\ q.retry = r.retry + 1
          /\ q \in Requests /\ r \in Requests
      BY <3>1, AgainType DEF TypeOK
    <3>3. /\ r.sequence \in Int /\ q.sequence \in Int /\ r.round \in Nat /\ r.retry \in Nat
          /\ q.round \in Nat /\ q.retry \in Nat
      BY <3>2, SMT DEF Requests, PingerAssumption
    <3>4. /\ Number(r.round, r.retry) \in Int /\ Number(q.round, q.retry) \in Int
          /\ Number(q.round, q.retry) = Number(r.round, r.retry) + 1
      <4>1. /\ Number(r.round, r.retry) \in Int
            /\ Number(r.round, r.retry + 1) = Number(r.round, r.retry) + 1
        BY <3>3, NumberType
      <4>2. Number(q.round, q.retry) = Number(r.round, r.retry + 1)
        BY <3>2
      <4> QED BY <4>1, <4>2
    <3>5. Congruent(r.sequence, Number(r.round, r.retry))
      BY <3>1 DEF NumbersFrom
    <3>6. Congruent(q.sequence, Number(q.round, q.retry))
      BY <3>2, <3>3, <3>4, <3>5, AddCongruent
    <3>7. Congruent(q.sequence % SeqMod, Number(q.round, q.retry))
      BY <3>3, <3>4, <3>6, CutCongruent
    <3> QED BY <3>6, <3>7 DEF Echo
  <2>2. /\ requests' = (requests \ Expired) \cup Retried(failed)
        /\ net' = net \cup {Echo(r) : r \in Retried(failed)}
        /\ UNCHANGED <<currentSequence, round>>
    BY <1>5 DEF AlarmClock, senderVars
  <2> QED BY <2>1, <2>2 DEF NumbersFrom
<1>6. ASSUME NEW m \in net, NEW result, Receive(m, result) PROVE NumbersFrom'
  BY <1>6 DEF Receive, NumbersFrom, senderVars
<1>7. CASE LoopEnds \/ AlarmJoined \/ ReceiverJoined \/ Stop \/ AlarmEnds
           \/ ReceiverEnds \/ Tick \/ UNCHANGED vars
  BY <1>7 DEF LoopEnds, AlarmJoined, ReceiverJoined, Stop, AlarmEnds, ReceiverEnds, Tick,
              vars, shared, senderVars, NumbersFrom
<1> QED BY <1>3, <1>4, <1>5, <1>6, <1>7 DEF Next, Sender, Alarm

LEMMA RoundsPastNext ==
  ASSUME PingerAssumption, TypeOK, RoundsPast, [Next]_vars
  PROVE  RoundsPast'
<1> DEFINE Past(k, a) == k < round \/ (k = round /\ a < next)
<1>0. round \in Nat /\ next \in Nat /\ N \in Nat /\ next <= N
  BY SMT DEF TypeOK, Addresses, PingerAssumption
<1>1. ASSUME NEW messages \in SUBSET Messages, Advance(messages)
      PROVE  /\ \A k \in Nat, a \in Addresses :
                  Past(k, a) \/ (k = round /\ a = next) =>
                    k < round' \/ (k = round' /\ a < next')
             /\ net' \in SUBSET messages
  <2>1. CASE next = N
    <3>1. round' = round + 1 BY <1>1, <2>1 DEF Advance
    <3>2. net' \in SUBSET messages BY <1>1 DEF Advance, Heard
    <3> QED BY <1>0, <3>1, <3>2, SMT
  <2>2. CASE next # N
    <3>1. round' = round /\ next' = next + 1 BY <1>1, <2>2 DEF Advance
    <3>2. net' \in SUBSET messages BY <1>1 DEF Advance, Heard
    <3> QED BY <1>0, <3>1, <3>2, SMT DEF Addresses
  <2> QED BY <2>1, <2>2
<1>2. \A r \in requests : r.round \in Nat /\ r.address \in Addresses
  BY DEF TypeOK, Requests
<1>3. \A m \in Messages : m.round \in Nat /\ m.to \in Addresses
  BY DEF Messages
<1>4. CASE Send
  <2>1. requests' = requests \cup {Request} /\ Advance(net \cup {Echo(Request)})
    BY <1>4 DEF Send
  <2>2. net \cup {Echo(Request)} \in SUBSET Messages
    BY RequestType DEF TypeOK
  <2>3. /\ Request.round = round /\ Request.address = next
        /\ Echo(Request).round = round /\ Echo(Request).to = next
    BY DEF Request, Echo
  <2>4. next \in Addresses BY DEF TypeOK
  <2>5. \A r \in requests' : r.round \in Nat /\ r.address \in Addresses
                             /\ (Past(r.round, r.address) \/ (r.round = round /\ r.address = next))
    BY <1>0, <1>2, <2>1, <2>3, <2>4 DEF RoundsPast
  <2>6. \A m \in net \cup {Echo(Request)} :
          m.round \in Nat /\ m.to \in Addresses
          /\ (Past(m.round, m.to) \/ (m.round = round /\ m.to = next))
    BY <1>3, <2>2, <2>3 DEF RoundsPast
  <2> QED BY <1>1, <2>1, <2>2, <2>5, <2>6 DEF RoundsPast
<1>5. CASE SendFails \/ Skip
  <2>1. Advance(net) /\ requests' = requests /\ net \in SUBSET Messages
    BY <1>5 DEF SendFails, Skip, shared, TypeOK
  <2> QED BY <1>1, <1>2, <1>3, <2>1 DEF RoundsPast
<1>6. ASSUME NEW failed, AlarmClock(failed) PROVE RoundsPast'
  <2>1. ASSUME NEW q \in Retried(failed)
        PROVE  Past(q.round, q.address) /\ Echo(q).round = q.round /\ Echo(q).to = q.address
    <3>1. PICK r \in requests : ~LastTry(r) /\ q = Again(r)
      BY DEF Retried, Expired
    <3> QED BY <3>1, AgainType DEF RoundsPast, Echo
  <2>2. /\ requests' = (requests \ Expired) \cup Retried(failed)
        /\ net' = net \cup {Echo(r) : r \in Retried(failed)}
        /\ UNCHANGED <<next, round>>
    BY <1>6 DEF AlarmClock, senderVars
  <2> QED BY <2>1, <2>2 DEF RoundsPast
<1>7. ASSUME NEW m \in net, NEW result, Receive(m, result) PROVE RoundsPast'
  BY <1>7 DEF Receive, RoundsPast, senderVars
<1>8. CASE LoopEnds \/ AlarmJoined \/ ReceiverJoined \/ Stop \/ AlarmEnds
           \/ ReceiverEnds \/ Tick \/ UNCHANGED vars
  BY <1>8 DEF LoopEnds, AlarmJoined, ReceiverJoined, Stop, AlarmEnds, ReceiverEnds, Tick,
              vars, shared, senderVars, RoundsPast
<1> QED BY <1>4, <1>5, <1>6, <1>7, <1>8 DEF Next, Sender, Alarm

LEMMA AnswersPastNext ==
  ASSUME PingerAssumption, TypeOK, IteratorsValid, RoundsPast, AnswersPast, [Next]_vars
  PROVE  AnswersPast'
<1>1. ASSUME net' \in SUBSET net, requests' \in SUBSET requests PROVE AnswersPast'
  BY <1>1 DEF AnswersPast
<1>2. CASE Send
  <2>1. /\ requests' = requests \cup {Request}
        /\ \A m \in net' : m \in net \cup {Echo(Request)} /\ round' - m.round < Memory
        /\ round' \in {round, round + 1}
    BY <1>2 DEF Send, Advance, Heard
  <2>2. /\ Request.round = round /\ Request.address = next /\ Request.retry = 0
        /\ Echo(Request).round = round /\ Echo(Request).to = next /\ Echo(Request).retry = 0
    BY DEF Request, Echo
  <2>3. \A r \in requests : r.address # next
    BY <1>2, OnlyBusyHaveRequests DEF Send, TypeOK
  <2>4. round \in Nat /\ next \in Nat /\ Memory \in Nat \ {0}
        /\ \A m \in net : m.round \in Nat /\ m.to \in Nat
    BY SMT DEF TypeOK, Addresses, Messages, PingerAssumption
  <2>5. ASSUME NEW m \in net', m.to = next
        PROVE  /\ m.round < round \/ (m.round = round /\ m.retry <= 0)
               /\ round - m.round < Memory
    <3>1. CASE m = Echo(Request)
      BY <2>2, <2>4, <3>1, SMT
    <3>2. CASE m \in net
      <4>1. m.round < round
        BY <2>4, <2>5, <3>2, SMT DEF RoundsPast
      <4> QED BY <2>1, <2>4, <3>2, <4>1, SMT
    <3> QED BY <2>1, <3>1, <3>2
  <2>6. ASSUME NEW m \in net', NEW r \in requests, m.to = r.address PROVE m \in net
    BY <2>1, <2>2, <2>3, <2>6
  <2> QED BY <2>1, <2>2, <2>5, <2>6 DEF AnswersPast
<1>3. ASSUME NEW failed, AlarmClock(failed) PROVE AnswersPast'
  <2>1. /\ requests' = (requests \ Expired) \cup Retried(failed)
        /\ net' = net \cup {Echo(r) : r \in Retried(failed)}
    BY <1>3 DEF AlarmClock
  <2>2. ASSUME NEW q \in Retried(failed)
        PROVE  \E r \in Expired : /\ r \in requests /\ q.address = r.address
                                  /\ q.round = r.round /\ q.retry = r.retry + 1
                                  /\ r.round \in Nat /\ r.retry \in Nat
    <3>1. PICK r \in Expired : ~LastTry(r) /\ q = Again(r)
      BY DEF Retried
    <3>2. r \in requests /\ r.round \in Nat /\ r.retry \in Nat
      BY SMT DEF Expired, TypeOK, Requests, PingerAssumption
    <3> QED BY <3>1, <3>2, AgainType
  <2>3. \A m \in net : m.round \in Nat /\ m.retry \in Nat
    BY SMT DEF TypeOK, Messages, PingerAssumption
  <2>4. ASSUME NEW m \in net, NEW q \in Retried(failed), m.to = q.address
        PROVE  /\ m.round < q.round \/ (m.round = q.round /\ m.retry <= q.retry)
               /\ q.round - m.round < Memory
    BY <2>2, <2>3, <2>4, SMT DEF AnswersPast
  <2>5. ASSUME NEW p \in Retried(failed), NEW q \in Retried(failed), p.address = q.address
        PROVE  p = q
    BY <2>5, RetriedValue
  <2>6. ASSUME NEW p \in Retried(failed), NEW r \in requests \ Expired
        PROVE  p.address # r.address
    BY RetriedValue DEF IteratorsValid
  <2>7. \A q \in Retried(failed) :
          /\ Echo(q).to = q.address /\ Echo(q).round = q.round /\ Echo(q).retry = q.retry
          /\ q.retry <= q.retry /\ q.round - q.round < Memory
    <3>1. \A q \in Retried(failed) : q.retry \in Nat /\ q.round \in Nat
      BY <2>2
    <3> QED BY <3>1, SMT DEF Echo, PingerAssumption
  <2>8. ASSUME NEW m \in net', NEW r \in requests', m.to = r.address
        PROVE  /\ m.round < r.round \/ (m.round = r.round /\ m.retry <= r.retry)
               /\ r.round - m.round < Memory
    <3>1. CASE m \in net /\ r \in requests
      BY <2>8, <3>1 DEF AnswersPast
    <3>2. CASE m \in net /\ r \in Retried(failed)
      BY <2>4, <2>8, <3>2
    <3>3. CASE m \in {Echo(q) : q \in Retried(failed)}
      BY <2>1, <2>5, <2>6, <2>7, <2>8, <3>3
    <3> QED BY <2>1, <3>1, <3>2, <3>3
  <2> QED BY <2>8 DEF AnswersPast
<1>4. CASE SendFails \/ Skip
  BY <1>1, <1>4 DEF SendFails, Skip, Advance, Heard, shared
<1>5. ASSUME NEW m \in net, NEW result, Receive(m, result) PROVE AnswersPast'
  BY <1>1, <1>5 DEF Receive
<1>6. CASE LoopEnds \/ AlarmJoined \/ ReceiverJoined \/ Stop \/ AlarmEnds
           \/ ReceiverEnds \/ Tick \/ UNCHANGED vars
  BY <1>1, <1>6 DEF LoopEnds, AlarmJoined, ReceiverJoined, Stop, AlarmEnds, ReceiverEnds, Tick,
                    vars, shared
<1> QED BY <1>2, <1>3, <1>4, <1>5, <1>6 DEF Next, Sender, Alarm

LEMMA NumberingOwn ==
  ASSUME PingerAssumption, MemoryAssumption, TypeOK, IteratorsValid, NumbersFrom, AnswersPast
  PROVE  AnswersOwn
<1> SUFFICES ASSUME NEW m \in net, Accepts(m)
             PROVE  m.round = targets[m.to].round /\ m.retry = targets[m.to].retry
  BY DEF AnswersOwn
<1> DEFINE r == targets[m.to]
<1>1. m \in Messages BY DEF TypeOK
<1>2. r \in requests /\ r.address = m.to /\ r.sequence = m.sequence
  BY <1>1 DEF Accepts, IteratorsValid, Busy, Messages
<1>3. r \in Requests BY <1>2 DEF TypeOK
<1>4. /\ m.round \in Nat /\ m.retry \in 0..MaxRetries /\ m.sequence \in Int
      /\ r.round \in Nat /\ r.retry \in 0..MaxRetries
  BY <1>1, <1>3, SMT DEF Messages, Requests, PingerAssumption
<1>5. /\ Congruent(m.sequence, Number(r.round, r.retry))
      /\ Congruent(m.sequence, Number(m.round, m.retry))
  BY <1>2 DEF NumbersFrom
<1>6. /\ m.round < r.round \/ (m.round = r.round /\ m.retry <= r.retry)
      /\ r.round - m.round < Memory
  BY <1>2 DEF AnswersPast
<1> HIDE DEF r
<1> QED BY <1>4, <1>5, <1>6, SameNumber DEF r

\* A receiver takes an answer for the request it belongs to, however late or often
\* it comes and although sequence numbers come round, provided that no answer is
\* Memory rounds late and those rounds have different numbers (MemoryAssumption).
THEOREM AnswersAreOwn == Spec => []AnswersOwn
<1> DEFINE Numbering == NumbersFrom /\ RoundsPast /\ AnswersPast
<1>1. Init => Numbering
  <2> SUFFICES ASSUME Init PROVE Numbering
    OBVIOUS
  <2>1. Number(0, 0) = FirstSequence /\ FirstSequence \in Int
    BY PingerAssumption, SMT DEF Number, PingerAssumption
  <2>2. Congruent(FirstSequence % SeqMod, FirstSequence)
    BY <2>1, PingerAssumption, SelfCongruent, CutCongruent
  <2> QED BY <2>1, <2>2 DEF Init, NumbersFrom, RoundsPast, AnswersPast
<1>2. TypeOK /\ IteratorsValid /\ Numbering /\ [Next]_vars => Numbering'
  BY NumbersFromNext, RoundsPastNext, AnswersPastNext, PingerAssumption
<1>3. TypeOK /\ IteratorsValid /\ Numbering => AnswersOwn
  BY NumberingOwn, PingerAssumption, MemoryAssumption
<1> QED BY <1>1, <1>2, <1>3, TypeCorrect, IteratorsCorrect, PTL DEF Spec
=============================================================================
