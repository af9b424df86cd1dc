-------------------------------- MODULE Ping --------------------------------
(***************************************************************************)
(* What a Pinger promises (the comments of CollectorIf and run in          *)
(* Pinger.hcp): one ping of an address at a time, each of at most          *)
(* 1 + MaxRetries requests, and each with one result.                      *)
(***************************************************************************)
EXTENDS Naturals

CONSTANTS Addresses, MaxRetries

VARIABLES
  sent,    \* requests sent in the ping of each address, 0 when there is none
  last     \* the result it had last, with the number of failures before it

vars == <<sent, last>>

Nothing == [result |-> "none", retry |-> 0]

Init == sent = [a \in Addresses |-> 0] /\ last = [a \in Addresses |-> Nothing]

Begin(a) == sent[a] = 0 /\ sent'[a] = 1 /\ last'[a] = last[a]

Retry(a) == sent[a] \in 1..MaxRetries /\ sent'[a] = sent[a] + 1 /\ last'[a] = last[a]

End(a, result, retry) == sent'[a] = 0 /\ last'[a] = [result |-> result, retry |-> retry]

\* An answer may come to any request, the time is out only after the last one.
Answered(a) == sent[a] > 0 /\ \E result \in {"pinged", "unreachable"} :
                                 End(a, result, sent[a] - 1)
TimedOut(a) == sent[a] = 1 + MaxRetries /\ End(a, "timeout", MaxRetries)
SendFailed(a) == sent[a] \in 0..MaxRetries /\ End(a, "sendFailed", sent[a])

Keep(a) == sent'[a] = sent[a] /\ last'[a] = last[a]

\* The addresses are independent: any of them may take a step.
Next == /\ DOMAIN sent' = Addresses /\ DOMAIN last' = Addresses
        /\ \A a \in Addresses : \/ Keep(a) \/ Begin(a) \/ Retry(a)
                                \/ Answered(a) \/ TimedOut(a) \/ SendFailed(a)

Spec == Init /\ [][Next]_vars
=============================================================================
