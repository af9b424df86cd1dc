------------------------- MODULE OdinAnswers_proofs -------------------------
(***************************************************************************)
(* Theorems about OdinBuilds for any number of hosts, slots and builds: a  *)
(* build the server may take for over is over, no abort interrupts another *)
(* build than its own, and under what conditions no assertion of a client  *)
(* fails.                                                                  *)
(***************************************************************************)
EXTENDS OdinBuilds_proofs

-----------------------------------------------------------------------------
(* A host that is up has each of the client's builds at most once: on its    *)
(* way, running, or ended with its answer on the way back.                   *)

Aborts(queue) == {k \in DOMAIN queue : queue[k].type = "abort"}

\* The builds in the slots of a host.
Held(h, list) == {list[i].job : i \in {k \in Slots : list[k].host = h /\ list[k].job # FreeSlot}}

WorkOK(held, queue, run) ==
  /\ run \subseteq held /\ \A k \in Builds(queue) : queue[k].job \in held
  /\ \A x, y \in run : x.id = y.id => x = y
  /\ \A k, m \in Builds(queue) : queue[k].job.id = queue[m].job.id => k = m
  /\ \A k \in Builds(queue), x \in run : queue[k].job.id # x.id

\* The bytes are the answers of the builds ended, in order; a host that died
\* may have left half of an answer after them.
Framed(b, ended, up) ==
  /\ \/ Len(b) = 8 * Len(ended)
     \/ ~up /\ Len(b) = 8 * Len(ended) + 4
  /\ \A k \in 1..Len(ended) :
       /\ b[8 * k - 7] = ended[k].id
       /\ b[8 * k - 6] = 0 /\ b[8 * k - 5] = 0 /\ b[8 * k - 4] = 0
       /\ b[8 * k - 2] = 0 /\ b[8 * k - 1] = 0 /\ b[8 * k] = 0

EndedOK(held, ended, up, queue, run) ==
  /\ \A k \in 1..Len(ended) : ended[k] \in held
  /\ \A k, m \in 1..Len(ended) : ended[k].id = ended[m].id => k = m
  /\ up => \A k \in 1..Len(ended) :
             /\ \A x \in run : x.id # ended[k].id
             /\ \A m \in Builds(queue) : queue[m].job.id # ended[k].id

\* A client whose bool is other than an int goes out of step: what it reads next
\* starts with a 0, and no job has that JobID.
OutOfStep(b) == BoolBytes # 4 /\ b # <<>> /\ b[1] = 0
BytesOK(b, held, up, queue, run) ==
  \/ \E ended \in Seq(Jobs) : Framed(b, ended, up) /\ EndedOK(held, ended, up, queue, run)
  \/ OutOfStep(b)

LEMMA NoBytes == \A held, up, queue, run : BytesOK(<<>>, held, up, queue, run)
<1> SUFFICES ASSUME NEW held, NEW up, NEW queue, NEW run PROVE BytesOK(<<>>, held, up, queue, run)
  OBVIOUS
<1>1. <<>> \in Seq(Jobs) /\ Len(<<>>) = 0 BY EmptySeq
<1>2. 1..0 = {} BY SMT
<1>3. Framed(<<>>, <<>>, up) BY <1>1, <1>2, SMT DEF Framed
<1>4. EndedOK(held, <<>>, up, queue, run) BY <1>1, <1>2 DEF EndedOK
<1> QED BY <1>1, <1>3, <1>4 DEF BytesOK

\* More slots of the host are in use, or others changed.
LEMMA HeldMore ==
  ASSUME NEW held, NEW more, held \subseteq more, NEW queue, NEW run
  PROVE  /\ WorkOK(held, queue, run) => WorkOK(more, queue, run)
         /\ \A b, up : BytesOK(b, held, up, queue, run) => BytesOK(b, more, up, queue, run)
<1>1. WorkOK(held, queue, run) => WorkOK(more, queue, run) BY DEF WorkOK
<1>2. ASSUME NEW b, NEW up, BytesOK(b, held, up, queue, run)
      PROVE  BytesOK(b, more, up, queue, run)
  <2>1. CASE OutOfStep(b) BY <2>1 DEF BytesOK
  <2>2. ASSUME NEW ended \in Seq(Jobs), Framed(b, ended, up), EndedOK(held, ended, up, queue, run)
        PROVE  BytesOK(b, more, up, queue, run)
    <3>1. EndedOK(more, ended, up, queue, run) BY <2>2 DEF EndedOK
    <3> QED BY <2>2, <3>1 DEF BytesOK
  <2> QED BY <1>2, <2>1, <2>2 DEF BytesOK
<1> QED BY <1>1, <1>2

\* A build is sent to the host.
LEMMA HostSent ==
  ASSUME NEW held, NEW queue \in Seq(Messages), NEW run, NEW m \in Messages,
         m.type = "build" => \A x \in held : x.id # m.job.id,
         NEW more, held \subseteq more, m.type = "build" => m.job \in more
  PROVE  /\ WorkOK(held, queue, run) => WorkOK(more, Append(queue, m), run)
         /\ \A b, up : BytesOK(b, held, up, queue, run) => BytesOK(b, more, up, Append(queue, m), run)
<1> DEFINE longer == Append(queue, m)
<1>1. \A k \in Builds(longer) : \/ k \in Builds(queue) /\ longer[k] = queue[k]
                                \/ k = Len(queue) + 1 /\ longer[k] = m /\ m.type = "build"
  BY AppendBuilds
<1>2. held \subseteq more /\ (m.type = "build" => m.job \in more) OBVIOUS
<1> HIDE DEF longer
<1>3. ASSUME WorkOK(held, queue, run) PROVE WorkOK(more, longer, run)
  <2>1. run \subseteq more BY <1>2, <1>3 DEF WorkOK
  <2>2. \A k \in Builds(longer) : longer[k].job \in more BY <1>1, <1>2, <1>3 DEF WorkOK
  <2>3. \A k, n \in Builds(longer) : longer[k].job.id = longer[n].job.id => k = n
    BY <1>1, <1>3 DEF WorkOK
  <2>4. \A k \in Builds(longer), x \in run : longer[k].job.id # x.id
    BY <1>1, <1>3 DEF WorkOK
  <2> QED BY <1>3, <2>1, <2>2, <2>3, <2>4 DEF WorkOK
<1>4. ASSUME NEW b, NEW up, BytesOK(b, held, up, queue, run) PROVE BytesOK(b, more, up, longer, run)
  <2>1. CASE OutOfStep(b) BY <2>1 DEF BytesOK
  <2>2. ASSUME NEW ended \in Seq(Jobs), Framed(b, ended, up), EndedOK(held, ended, up, queue, run)
        PROVE  BytesOK(b, more, up, longer, run)
    <3>1. \A k \in 1..Len(ended) : m.type = "build" => ended[k].id # m.job.id
      BY <2>2 DEF EndedOK
    <3>2. EndedOK(more, ended, up, longer, run) BY <1>1, <1>2, <2>2, <3>1 DEF EndedOK
    <3> QED BY <2>2, <3>2 DEF BytesOK
  <2> QED BY <1>4, <2>1, <2>2 DEF BytesOK
<1> QED BY <1>3, <1>4 DEF longer

\* The host reads a message.
LEMMA HostReads ==
  ASSUME NEW held, NEW queue \in Seq(Messages), queue # <<>>, NEW run, NEW more,
         \A x \in more : x \in run \/ (Head(queue).type = "build" /\ x = Head(queue).job)
  PROVE  /\ WorkOK(held, queue, run) => WorkOK(held, Tail(queue), more)
         /\ \A b, up : BytesOK(b, held, up, queue, run) => BytesOK(b, held, up, Tail(queue), more)
<1> DEFINE rest == Tail(queue)
<1>1. /\ \A k \in Builds(rest) : k + 1 \in Builds(queue) /\ k + 1 # 1 /\ rest[k] = queue[k + 1]
      /\ \A k, m \in Builds(rest) : k + 1 = m + 1 => k = m
      /\ Head(queue).type = "build" => 1 \in Builds(queue) /\ Head(queue) = queue[1]
  BY TailBuilds
<1>2. \A x \in more : x \in run \/ (1 \in Builds(queue) /\ x = queue[1].job)
  BY <1>1
<1> HIDE DEF rest
<1>3. ASSUME WorkOK(held, queue, run) PROVE WorkOK(held, rest, more)
  <2>1. more \subseteq held BY <1>2, <1>3 DEF WorkOK
  <2>2. \A x, y \in more : x.id = y.id => x = y BY <1>2, <1>3 DEF WorkOK
  <2>3. \A k \in Builds(rest) : rest[k].job \in held BY <1>1, <1>3 DEF WorkOK
  <2>4. \A k, m \in Builds(rest) : rest[k].job.id = rest[m].job.id => k = m
    BY <1>1, <1>3 DEF WorkOK
  <2>5. \A k \in Builds(rest), x \in more : rest[k].job.id # x.id
    BY <1>1, <1>2, <1>3 DEF WorkOK
  <2> QED BY <2>1, <2>2, <2>3, <2>4, <2>5 DEF WorkOK
<1>4. ASSUME NEW b, NEW up, BytesOK(b, held, up, queue, run) PROVE BytesOK(b, held, up, rest, more)
  <2>1. CASE OutOfStep(b) BY <2>1 DEF BytesOK
  <2>2. ASSUME NEW ended \in Seq(Jobs), Framed(b, ended, up), EndedOK(held, ended, up, queue, run)
        PROVE  BytesOK(b, held, up, rest, more)
    <3>1. EndedOK(held, ended, up, rest, more) BY <1>1, <1>2, <2>2 DEF EndedOK
    <3> QED BY <2>2, <3>1 DEF BytesOK
  <2> QED BY <1>4, <2>1, <2>2 DEF BytesOK
<1> QED BY <1>3, <1>4 DEF rest

\* A build of the host ends, and is answered.
LEMMA Joined ==
  ASSUME NEW S, NEW s \in Seq(S), NEW t \in Seq(S)
  PROVE  /\ s \o t \in Seq(S) /\ Len(s \o t) = Len(s) + Len(t)
         /\ \A i \in 1..Len(s) : (s \o t)[i] = s[i]
         /\ \A i \in 1..Len(t) : (s \o t)[Len(s) + i] = t[i]
<1> DEFINE st == s \o t
<1>1. /\ st \in Seq(S) /\ Len(st) = Len(s) + Len(t)
      /\ \A i \in 1..(Len(s) + Len(t)) : st[i] = IF i <= Len(s) THEN s[i] ELSE t[i - Len(s)]
  BY ConcatProperties, Zenon
<1>2. Len(s) \in Nat /\ Len(t) \in Nat BY LenProperties, Zenon
<1> HIDE DEF st
<1>3. ASSUME NEW i \in 1..Len(s) PROVE st[i] = s[i] BY <1>1, <1>2, SMT
<1>4. ASSUME NEW i \in 1..Len(t) PROVE st[Len(s) + i] = t[i]
  <2>1. /\ Len(s) + i \in 1..(Len(s) + Len(t)) /\ ~(Len(s) + i <= Len(s))
        /\ Len(s) + i - Len(s) = i
    BY <1>2, SMT
  <2> QED BY <1>1, <2>1
<1> QED BY <1>1, <1>3, <1>4 DEF st

AnswerAfter(longer, b, x) ==
  /\ Len(longer) = Len(b) + 8
  /\ \A i \in 1..Len(b) : longer[i] = b[i]
  /\ longer[Len(b) + 1] = x
  /\ \A i \in {2, 3, 4, 6, 7, 8} : longer[Len(b) + i] = 0

LEMMA AnswerWritten ==
  ASSUME NEW S, NEW b \in Seq(S), NEW x \in S, NEW a \in S, 0 \in S
  PROVE  AnswerAfter(b \o IntBytes(x) \o IntBytes(a), b, x)
<1> DEFINE first == IntBytes(x)
           second == IntBytes(a)
           one == b \o first
           two == one \o second
<1>1. /\ first \in Seq(S) /\ Len(first) = 4 /\ first[1] = x
      /\ first[2] = 0 /\ first[3] = 0 /\ first[4] = 0
  BY DEF IntBytes
<1>2. /\ second \in Seq(S) /\ Len(second) = 4
      /\ second[2] = 0 /\ second[3] = 0 /\ second[4] = 0
  BY DEF IntBytes
<1> HIDE DEF first, second
<1>3. /\ one \in Seq(S) /\ Len(one) = Len(b) + Len(first)
      /\ \A i \in 1..Len(b) : one[i] = b[i]
      /\ \A i \in 1..Len(first) : one[Len(b) + i] = first[i]
  <2>1. first \in Seq(S) BY <1>1
  <2> QED BY <2>1, Joined
<1> HIDE DEF one
<1>4. /\ two \in Seq(S) /\ Len(two) = Len(one) + Len(second)
      /\ \A i \in 1..Len(one) : two[i] = one[i]
      /\ \A i \in 1..Len(second) : two[Len(one) + i] = second[i]
  <2>1. one \in Seq(S) /\ second \in Seq(S) BY <1>2, <1>3
  <2> QED BY <2>1, Joined
<1> HIDE DEF two
<1>5. Len(b) \in Nat BY LenProperties, Zenon
<1>6. ASSUME NEW i \in 1..Len(b) PROVE two[i] = b[i]
  <2>1. i \in 1..Len(one) BY <1>1, <1>3, <1>5, SMT
  <2> QED BY <1>3, <1>4, <2>1
<1>7. ASSUME NEW i \in 1..4 PROVE two[Len(b) + i] = first[i]
  <2>1. Len(b) + i \in 1..Len(one) BY <1>1, <1>3, <1>5, SMT
  <2> QED BY <1>1, <1>3, <1>4, <2>1
<1>8. ASSUME NEW i \in 1..4 PROVE two[Len(b) + 4 + i] = second[i]
  BY <1>1, <1>2, <1>3, <1>4
<1>9. two[Len(b) + 1] = x BY <1>1, <1>7
<1>10. two[Len(b) + 2] = 0 /\ two[Len(b) + 3] = 0 /\ two[Len(b) + 4] = 0
  BY <1>1, <1>7
<1>11. two[Len(b) + 6] = 0 /\ two[Len(b) + 7] = 0 /\ two[Len(b) + 8] = 0
  <2>1. Len(b) + 4 + 2 = Len(b) + 6 /\ Len(b) + 4 + 3 = Len(b) + 7 /\ Len(b) + 4 + 4 = Len(b) + 8
    BY <1>5, SMT
  <2>2. two[Len(b) + 4 + 2] = 0 /\ two[Len(b) + 4 + 3] = 0 /\ two[Len(b) + 4 + 4] = 0
    BY <1>2, <1>8
  <2> QED BY <2>1, <2>2
<1>12. Len(two) = Len(b) + 8 BY <1>1, <1>2, <1>3, <1>4, <1>5, SMT
<1>13. \A i \in {2, 3, 4, 6, 7, 8} : two[Len(b) + i] = 0 BY <1>10, <1>11
<1>14. AnswerAfter(two, b, x) BY <1>6, <1>9, <1>12, <1>13 DEF AnswerAfter
<1> QED BY <1>14 DEF one, two, first, second

LEMMA HostEnded ==
  ASSUME NEW held, NEW queue, NEW run \in SUBSET Jobs, NEW x \in run, WorkOK(held, queue, run),
         NEW S, x.id \in S, NEW a \in S, 0 \in S, NEW b \in Seq(S)
  PROVE  /\ WorkOK(held, queue, run \ {x})
         /\ BytesOK(b, held, TRUE, queue, run) =>
              BytesOK(b \o IntBytes(x.id) \o IntBytes(a), held, TRUE, queue, run \ {x})
<1> DEFINE longer == b \o IntBytes(x.id) \o IntBytes(a)
           less == run \ {x}
<1>1. /\ Len(longer) = Len(b) + 8 /\ \A i \in 1..Len(b) : longer[i] = b[i]
      /\ longer[Len(b) + 1] = x.id
      /\ \A i \in {2, 3, 4, 6, 7, 8} : longer[Len(b) + i] = 0
  <2>1. AnswerAfter(longer, b, x.id) BY AnswerWritten, Zenon
  <2> HIDE DEF longer
  <2> QED BY <2>1 DEF AnswerAfter
<1>2. Len(b) \in Nat BY LenProperties
<1> HIDE DEF longer
<1>3. WorkOK(held, queue, less) BY DEF WorkOK
<1>4. ASSUME BytesOK(b, held, TRUE, queue, run) PROVE BytesOK(longer, held, TRUE, queue, less)
  <2>1. CASE OutOfStep(b)
    <3>1. Len(b) # 0 BY <2>1, EmptySeq DEF OutOfStep
    <3>2. longer[1] = 0 BY <1>1, <1>2, <2>1, <3>1, SMT DEF OutOfStep
    <3>3. longer # <<>> BY <1>1, <1>2, SMT
    <3>4. BoolBytes # 4 BY <2>1 DEF OutOfStep
    <3> QED BY <3>2, <3>3, <3>4 DEF OutOfStep, BytesOK
  <2>2. ASSUME NEW ended \in Seq(Jobs), Framed(b, ended, TRUE),
               EndedOK(held, ended, TRUE, queue, run)
        PROVE  BytesOK(longer, held, TRUE, queue, less)
    <3> DEFINE more == Append(ended, x)
    <3>1. /\ more \in Seq(Jobs) /\ Len(more) = Len(ended) + 1
          /\ \A k \in 1..Len(ended) : more[k] = ended[k]
          /\ more[Len(ended) + 1] = x
      BY AppendProperties
    <3> HIDE DEF more
    <3>2. Len(ended) \in Nat /\ Len(b) = 8 * Len(ended) BY <2>2, LenProperties DEF Framed
    <3>3. ASSUME NEW k \in 1..Len(more)
          PROVE  k \in 1..Len(ended) \/ k = Len(ended) + 1
      BY <3>1, <3>2, SMT
    <3>4. Framed(longer, more, TRUE)
      <4>1. Len(longer) = 8 * Len(more) BY <1>1, <3>1, <3>2, SMT
      <4>2. ASSUME NEW k \in 1..Len(more)
            PROVE  /\ longer[8 * k - 7] = more[k].id
                   /\ longer[8 * k - 6] = 0 /\ longer[8 * k - 5] = 0 /\ longer[8 * k - 4] = 0
                   /\ longer[8 * k - 2] = 0 /\ longer[8 * k - 1] = 0 /\ longer[8 * k] = 0
        <5>1. CASE k \in 1..Len(ended)
          <6>1. /\ b[8 * k - 7] = ended[k].id
                /\ b[8 * k - 6] = 0 /\ b[8 * k - 5] = 0 /\ b[8 * k - 4] = 0
                /\ b[8 * k - 2] = 0 /\ b[8 * k - 1] = 0 /\ b[8 * k] = 0
            BY <2>2, <5>1 DEF Framed
          <6>2. \A i \in {0, 1, 2, 4, 5, 6, 7} : 8 * k - i \in 1..Len(b)
            BY <3>2, <5>1, SMT
          <6>3. 8 * k = 8 * k - 0 BY <5>1, SMT
          <6>4. /\ longer[8 * k - 7] = b[8 * k - 7] /\ longer[8 * k - 6] = b[8 * k - 6]
                /\ longer[8 * k - 5] = b[8 * k - 5] /\ longer[8 * k - 4] = b[8 * k - 4]
                /\ longer[8 * k - 2] = b[8 * k - 2] /\ longer[8 * k - 1] = b[8 * k - 1]
                /\ longer[8 * k] = b[8 * k]
            BY <1>1, <6>2, <6>3
          <6>5. more[k] = ended[k] BY <3>1, <5>1
          <6> QED BY <6>1, <6>4, <6>5
        <5>2. CASE k = Len(ended) + 1
          <6>1. /\ 8 * k - 7 = Len(b) + 1 /\ 8 * k - 6 = Len(b) + 2 /\ 8 * k - 5 = Len(b) + 3
                /\ 8 * k - 4 = Len(b) + 4 /\ 8 * k - 2 = Len(b) + 6 /\ 8 * k - 1 = Len(b) + 7
                /\ 8 * k = Len(b) + 8
            BY <3>2, <5>2, SMT
          <6> QED BY <1>1, <3>1, <5>2, <6>1
        <5> QED BY <3>3, <5>1, <5>2
      <4> QED BY <4>1, <4>2 DEF Framed
    <3>5. EndedOK(held, more, TRUE, queue, less)
      <4>1. \A k \in 1..Len(more) : more[k] \in held
        BY <2>2, <3>1, <3>3 DEF EndedOK, WorkOK
      <4>2. \A k \in 1..Len(ended) : ended[k].id # x.id BY <2>2 DEF EndedOK
      <4>3. \A k, m \in 1..Len(more) : more[k].id = more[m].id => k = m
        BY <2>2, <3>1, <3>3, <4>2 DEF EndedOK
      <4>4. \A y \in less : y \in run /\ y.id # x.id BY DEF WorkOK
      <4>5. \A m \in Builds(queue) : queue[m].job.id # x.id BY DEF WorkOK
      <4>6. \A k \in 1..Len(more) : /\ \A y \in less : y.id # more[k].id
                                    /\ \A m \in Builds(queue) : queue[m].job.id # more[k].id
        BY <2>2, <3>1, <3>3, <4>4, <4>5 DEF EndedOK
      <4> QED BY <4>1, <4>3, <4>6 DEF EndedOK
    <3> QED BY <3>1, <3>4, <3>5 DEF BytesOK
  <2> QED BY <1>4, <2>1, <2>2 DEF BytesOK
<1> QED BY <1>3, <1>4 DEF longer, less

\* The host dies: its answers are cut short, or lost.
LEMMA HostLost ==
  ASSUME NEW S, NEW b \in Seq(S), NEW held, NEW queue, NEW run, BytesOK(b, held, TRUE, queue, run),
         NEW after, \/ after = b \/ after = <<>>
                    \/ b # <<>> /\ after = SubSeq(b, 1, Len(b) - 4),
         NEW anyQueue, NEW anyRun
  PROVE  BytesOK(after, held, FALSE, anyQueue, anyRun)
<1>1. CASE after = b
  <2>1. CASE OutOfStep(b) BY <1>1, <2>1 DEF BytesOK
  <2>2. ASSUME NEW ended \in Seq(Jobs), Framed(b, ended, TRUE), EndedOK(held, ended, TRUE, queue, run)
        PROVE  BytesOK(after, held, FALSE, anyQueue, anyRun)
    <3>1. Framed(b, ended, FALSE) BY <2>2 DEF Framed
    <3>2. EndedOK(held, ended, FALSE, anyQueue, anyRun) BY <2>2 DEF EndedOK
    <3> QED BY <1>1, <3>1, <3>2 DEF BytesOK
  <2> QED BY <2>1, <2>2 DEF BytesOK
<1>2. CASE after = <<>> BY <1>2, NoBytes
<1>3. CASE b # <<>> /\ after = SubSeq(b, 1, Len(b) - 4) /\ after # <<>>
  <2>1. Len(b) \in Nat /\ Len(b) - 4 \in Int BY LenProperties, SMT
  <2>2. \A i \in 1..(Len(b) - 4) : b[i] \in S
    <3>1. \A i \in 1..(Len(b) - 4) : i \in 1..Len(b) BY <2>1, SMT
    <3> QED BY <3>1, ElementOfSeq
  <2>3. /\ after \in Seq(S) /\ Len(after) = IF 1 <= Len(b) - 4 THEN Len(b) - 4 - 1 + 1 ELSE 0
        /\ \A i \in 1..(Len(b) - 4 - 1 + 1) : after[i] = b[1 + i - 1]
    BY <1>3, <2>1, <2>2, SubSeqProperties
  <2>4. Len(after) # 0 BY <1>3, <2>3, EmptySeq
  <2>5. /\ Len(after) = Len(b) - 4 /\ Len(b) - 4 >= 1
        /\ \A i \in 1..(Len(b) - 4) : after[i] = b[i]
    BY <2>1, <2>3, <2>4, SMT
  <2>6. CASE OutOfStep(b)
    <3>1. after[1] = b[1] BY <2>1, <2>5, SMT
    <3> QED BY <1>3, <2>6, <3>1 DEF OutOfStep, BytesOK
  <2>7. ASSUME NEW ended \in Seq(Jobs), Framed(b, ended, TRUE), EndedOK(held, ended, TRUE, queue, run)
        PROVE  BytesOK(after, held, FALSE, anyQueue, anyRun)
    <3> DEFINE less == SubSeq(ended, 1, Len(ended) - 1)
    <3>1. Len(ended) \in Nat /\ Len(b) = 8 * Len(ended) BY <2>7, LenProperties DEF Framed
    <3>2. Len(ended) \in Nat \ {0} /\ Len(ended) - 1 \in Int BY <2>5, <3>1, SMT
    <3>3. \A i \in 1..(Len(ended) - 1) : ended[i] \in Jobs
      <4>1. \A i \in 1..(Len(ended) - 1) : i \in 1..Len(ended) BY <3>2, SMT
      <4> QED BY <4>1, ElementOfSeq
    <3>4. /\ less \in Seq(Jobs)
          /\ Len(less) = IF 1 <= Len(ended) - 1 THEN Len(ended) - 1 - 1 + 1 ELSE 0
          /\ \A i \in 1..(Len(ended) - 1 - 1 + 1) : less[i] = ended[1 + i - 1]
      BY <3>2, <3>3, SubSeqProperties
    <3> HIDE DEF less
    <3>5. /\ Len(less) = Len(ended) - 1
          /\ \A i \in 1..Len(less) : less[i] = ended[i] /\ i \in 1..Len(ended)
      <4>1. Len(less) = Len(ended) - 1
        <5>1. Len(less) = IF 1 <= Len(ended) - 1 THEN Len(ended) - 1 - 1 + 1 ELSE 0 BY <3>4
        <5> DEFINE n == Len(ended)
                   m == Len(less)
        <5>2. n \in Nat \ {0} /\ m = IF 1 <= n - 1 THEN n - 1 - 1 + 1 ELSE 0 BY <3>2, <5>1
        <5> HIDE DEF n, m
        <5>3. m = n - 1 BY <5>2, SMT
        <5> QED BY <5>3 DEF n, m
      <4>2. ASSUME NEW i \in 1..Len(less) PROVE less[i] = ended[i] /\ i \in 1..Len(ended)
        <5>1. /\ i \in 1..(Len(ended) - 1 - 1 + 1) /\ 1 + i - 1 = i
              /\ i \in 1..Len(ended)
          BY <3>2, <4>1, SMT
        <5> QED BY <3>4, <5>1
      <4> QED BY <4>1, <4>2
    <3>6. Framed(after, less, FALSE)
      <4>1. Len(after) = 8 * Len(less) + 4 BY <2>5, <3>1, <3>2, <3>5, SMT
      <4>2. ASSUME NEW k \in 1..Len(less)
            PROVE  /\ after[8 * k - 7] = less[k].id
                   /\ after[8 * k - 6] = 0 /\ after[8 * k - 5] = 0 /\ after[8 * k - 4] = 0
                   /\ after[8 * k - 2] = 0 /\ after[8 * k - 1] = 0 /\ after[8 * k] = 0
        <5>1. /\ b[8 * k - 7] = ended[k].id
              /\ b[8 * k - 6] = 0 /\ b[8 * k - 5] = 0 /\ b[8 * k - 4] = 0
              /\ b[8 * k - 2] = 0 /\ b[8 * k - 1] = 0 /\ b[8 * k] = 0
          BY <2>7, <3>5 DEF Framed
        <5>2. \A i \in {0, 1, 2, 4, 5, 6, 7} : 8 * k - i \in 1..(Len(b) - 4)
          <6>1. k \in Int /\ k >= 1 /\ k <= Len(ended) - 1 BY <3>2, <3>5, SMT
          <6>2. 8 * k >= 8 /\ 8 * k <= Len(b) - 8 /\ 8 * k \in Int BY <2>1, <3>1, <6>1, SMT
          <6> QED BY <2>1, <6>2, SMT
        <5>3. 8 * k = 8 * k - 0 BY <3>2, <3>5, SMT
        <5>4. /\ after[8 * k - 7] = b[8 * k - 7] /\ after[8 * k - 6] = b[8 * k - 6]
              /\ after[8 * k - 5] = b[8 * k - 5] /\ after[8 * k - 4] = b[8 * k - 4]
              /\ after[8 * k - 2] = b[8 * k - 2] /\ after[8 * k - 1] = b[8 * k - 1]
              /\ after[8 * k] = b[8 * k]
          BY <2>5, <5>2, <5>3
        <5> QED BY <3>5, <5>1, <5>4
      <4> QED BY <4>1, <4>2 DEF Framed
    <3>7. EndedOK(held, less, FALSE, anyQueue, anyRun) BY <2>7, <3>5 DEF EndedOK
    <3> QED BY <3>4, <3>6, <3>7 DEF BytesOK
  <2> QED BY <2>6, <2>7 DEF BytesOK
<1> QED BY <1>1, <1>2, <1>3

\* The client reads an answer: it is that of a build in a slot of the host, which
\* neither runs there nor is on its way.
LEMMA HostAnswered ==
  ASSUME BuildsAssumption, NEW S, NEW b \in Seq(S), NEW held, NEW up, NEW queue, NEW run,
         BytesOK(b, held, up, queue, run), ~(Len(b) < AnswerBytes), ReadID(b) # 0
  PROVE  \E x \in held :
           /\ x.id = ReadID(b)
           /\ up => /\ \A y \in run : y.id # x.id
                    /\ \A m \in Builds(queue) : queue[m].job.id # x.id
           /\ \A left : {y \in held : y.id # x.id} \subseteq left =>
                BytesOK(SubSeq(b, AnswerBytes + 1, Len(b)), left, up, queue, run)
<1>1. BoolBytes \in 1..4 /\ AnswerBytes = 4 + BoolBytes BY DEF BuildsAssumption, AnswerBytes, IntBytes
<1>2. b[1] # 0 /\ ReadID(b) = b[1] BY DEF ReadID
<1>3. PICK ended \in Seq(Jobs) : Framed(b, ended, up) /\ EndedOK(held, ended, up, queue, run)
  BY <1>2 DEF BytesOK, OutOfStep
<1> DEFINE bs == AnswerBytes
           x == ended[1]
           rest == SubSeq(b, bs + 1, Len(b))
<1>4. Len(b) \in Nat /\ Len(ended) \in Nat BY LenProperties
<1>5. Len(ended) \in Nat \ {0} /\ Len(b) >= 8 * Len(ended) /\ Len(b) >= 8
  BY <1>1, <1>3, <1>4, SMT DEF Framed
<1>6. 1 \in 1..Len(ended) BY <1>5, SMT
<1>7. x \in held BY <1>3, <1>6 DEF EndedOK
<1>8. b[1] = x.id /\ b[6] = 0 /\ b[7] = 0 /\ b[8] = 0
  <2>1. 8 * 1 - 7 = 1 /\ 8 * 1 - 2 = 6 /\ 8 * 1 - 1 = 7 /\ 8 * 1 = 8 BY SMT
  <2>2. b[8 * 1 - 7] = x.id /\ b[8 * 1 - 2] = 0 /\ b[8 * 1 - 1] = 0 /\ b[8 * 1] = 0
    BY <1>3, <1>6 DEF Framed
  <2> QED BY <2>1, <2>2
<1>9. up => /\ \A y \in run : y.id # x.id
            /\ \A m \in Builds(queue) : queue[m].job.id # x.id
  BY <1>3, <1>6 DEF EndedOK
<1>10. bs \in 5..8 /\ bs = 4 + BoolBytes BY <1>1, SMT
<1> HIDE DEF bs
<1>11. /\ rest \in Seq(S) /\ Len(rest) = Len(b) - bs
       /\ \A i \in 1..(Len(b) - bs) : rest[i] = b[bs + i]
  <2>1. bs + 1 \in Int /\ Len(b) \in Int BY <1>4, <1>10, SMT
  <2>2. \A i \in (bs + 1)..Len(b) : b[i] \in S
    <3>1. \A i \in (bs + 1)..Len(b) : i \in 1..Len(b) BY <1>4, <1>10, SMT
    <3> QED BY <3>1, ElementOfSeq
  <2>3. /\ rest \in Seq(S)
        /\ Len(rest) = IF bs + 1 <= Len(b) THEN Len(b) - (bs + 1) + 1 ELSE 0
        /\ \A i \in 1..(Len(b) - (bs + 1) + 1) : rest[i] = b[bs + 1 + i - 1]
    BY <2>1, <2>2, SubSeqProperties
  <2> HIDE DEF rest
  <2>4. Len(rest) = Len(b) - bs BY <1>4, <1>5, <1>10, <2>3, SMT
  <2>5. ASSUME NEW i \in 1..(Len(b) - bs) PROVE rest[i] = b[bs + i]
    <3>1. i \in 1..(Len(b) - (bs + 1) + 1) /\ bs + 1 + i - 1 = bs + i BY <1>4, <1>10, SMT
    <3> QED BY <2>3, <3>1
  <2> QED BY <2>3, <2>4, <2>5
<1> HIDE DEF rest
<1>12. ASSUME NEW left, {y \in held : y.id # x.id} \subseteq left
       PROVE  BytesOK(rest, left, up, queue, run)
  <2>1. CASE bs # 8
    <3>1. bs + 1 \in {6, 7, 8} /\ 1 \in 1..(Len(b) - bs) BY <1>4, <1>5, <1>10, <2>1, SMT
    <3>2. rest[1] = 0 BY <1>8, <1>11, <3>1
    <3>3. rest # <<>> BY <1>11, <3>1, SMT
    <3>4. BoolBytes # 4 BY <1>10, <2>1, SMT
    <3> QED BY <3>2, <3>3, <3>4 DEF OutOfStep, BytesOK
  <2>2. CASE bs = 8
    <3> DEFINE others == Tail(ended)
    <3>1. ended # <<>> BY <1>5
    <3>2. /\ others \in Seq(Jobs) /\ Len(others) = Len(ended) - 1
          /\ \A k \in 1..Len(others) : others[k] = ended[k + 1]
      BY <3>1, HeadTailProperties
    <3> HIDE DEF others
    <3>3. \A k \in 1..Len(others) : k + 1 \in 1..Len(ended) /\ k + 1 # 1 /\ k \in Nat
      BY <1>5, <3>2, SMT
    <3>4. Framed(rest, others, up)
      <4>1. \/ Len(rest) = 8 * Len(others)
            \/ ~up /\ Len(rest) = 8 * Len(others) + 4
        <5>1. CASE Len(b) = 8 * Len(ended) BY <1>4, <1>11, <2>2, <3>2, <5>1, SMT
        <5>2. CASE ~up /\ Len(b) = 8 * Len(ended) + 4
          <6>1. Len(rest) = 8 * Len(others) + 4 BY <1>4, <1>11, <2>2, <3>2, <5>2, SMT
          <6> QED BY <5>2, <6>1
        <5> QED BY <1>3, <5>1, <5>2 DEF Framed
      <4>2. ASSUME NEW k \in 1..Len(others)
            PROVE  /\ rest[8 * k - 7] = others[k].id
                   /\ rest[8 * k - 6] = 0 /\ rest[8 * k - 5] = 0 /\ rest[8 * k - 4] = 0
                   /\ rest[8 * k - 2] = 0 /\ rest[8 * k - 1] = 0 /\ rest[8 * k] = 0
        <5> DEFINE n == k + 1
        <5>1. n \in 1..Len(ended) /\ others[k] = ended[n] BY <3>2, <3>3
        <5>2. /\ b[8 * n - 7] = ended[n].id
              /\ b[8 * n - 6] = 0 /\ b[8 * n - 5] = 0 /\ b[8 * n - 4] = 0
              /\ b[8 * n - 2] = 0 /\ b[8 * n - 1] = 0 /\ b[8 * n] = 0
          BY <1>3, <5>1 DEF Framed
        <5>3. /\ 8 * n - 7 = 8 + (8 * k - 7) /\ 8 * n - 6 = 8 + (8 * k - 6)
              /\ 8 * n - 5 = 8 + (8 * k - 5) /\ 8 * n - 4 = 8 + (8 * k - 4)
              /\ 8 * n - 2 = 8 + (8 * k - 2) /\ 8 * n - 1 = 8 + (8 * k - 1)
              /\ 8 * n = 8 + 8 * k
          BY <3>3, SMT
        <5>4. \A i \in {0, 1, 2, 4, 5, 6, 7} : 8 * k - i \in 1..(Len(b) - bs)
          <6>1. k \in Int /\ k >= 1 /\ k <= Len(ended) - 1 BY <1>5, <3>2, <3>3, SMT
          <6>2. 8 * k >= 8 /\ 8 * k <= Len(b) - 8 /\ 8 * k \in Int BY <1>4, <1>5, <6>1, SMT
          <6> QED BY <1>4, <2>2, <6>2, SMT
        <5>5. 8 * k = 8 * k - 0 BY <3>3, SMT
        <5>6. /\ rest[8 * k - 7] = b[8 + (8 * k - 7)] /\ rest[8 * k - 6] = b[8 + (8 * k - 6)]
              /\ rest[8 * k - 5] = b[8 + (8 * k - 5)] /\ rest[8 * k - 4] = b[8 + (8 * k - 4)]
              /\ rest[8 * k - 2] = b[8 + (8 * k - 2)] /\ rest[8 * k - 1] = b[8 + (8 * k - 1)]
              /\ rest[8 * k] = b[8 + 8 * k]
          BY <1>11, <2>2, <5>4, <5>5
        <5> QED BY <5>1, <5>2, <5>3, <5>6
      <4> QED BY <4>1, <4>2 DEF Framed
    <3>5. EndedOK(left, others, up, queue, run)
      <4>1. ASSUME NEW k \in 1..Len(others) PROVE others[k] \in held /\ others[k].id # x.id
        <5>1. k + 1 \in 1..Len(ended) /\ k + 1 # 1 /\ others[k] = ended[k + 1] BY <3>2, <3>3
        <5>2. ended[k + 1].id # ended[1].id BY <1>3, <1>6, <5>1 DEF EndedOK
        <5>3. ended[k + 1] \in held BY <1>3, <5>1 DEF EndedOK
        <5> QED BY <5>1, <5>2, <5>3
      <4>2. \A k \in 1..Len(others) : others[k] \in left BY <1>12, <4>1
      <4>3. ASSUME NEW k \in 1..Len(others), NEW m \in 1..Len(others), others[k].id = others[m].id
            PROVE  k = m
        <5>1. /\ k + 1 \in 1..Len(ended) /\ m + 1 \in 1..Len(ended)
              /\ ended[k + 1].id = ended[m + 1].id
          BY <3>2, <3>3, <4>3
        <5>2. k + 1 = m + 1 BY <1>3, <5>1 DEF EndedOK
        <5> QED BY <3>3, <5>2, SMT
      <4>4. up => \A k \in 1..Len(others) :
                    /\ \A y \in run : y.id # others[k].id
                    /\ \A m \in Builds(queue) : queue[m].job.id # others[k].id
        BY <1>3, <3>2, <3>3 DEF EndedOK
      <4> QED BY <4>2, <4>3, <4>4 DEF EndedOK
    <3> QED BY <3>2, <3>4, <3>5 DEF BytesOK
  <2> QED BY <2>1, <2>2
<1> QED BY <1>2, <1>7, <1>8, <1>9, <1>12 DEF rest, bs

-----------------------------------------------------------------------------
(* Where the client's builds are: a tool is the process of a slot until it   *)
(* is reaped, a host that is up has its connection and its process, and what *)
(* it holds is in slots of its own.                                          *)

WatchedOK(pr, list) ==
  /\ \A i \in Slots : list[i].pid # 0 => list[i].host = Local
  /\ \A p \in Pids : pr[p].state # "none" /\ pr[p].n # 0 => \E i \in Slots : list[i].pid = p
Watched == WatchedOK(proc, slots)

Connected ==
  /\ loop \in Hosts => loop \in fd
  /\ \A h \in Hosts : remote[h] = "up" =>
       h \in fd /\ rbsPid[h] # 0 /\ proc[rbsPid[h]].state = "runs"

WorkAt(h) == remote[h] = "up" => WorkOK(Held(h, slots), toHost[h], running[h])
BytesAt(h) == BytesOK(bytes[h], Held(h, slots), remote[h] = "up", toHost[h], running[h])
AtHosts == /\ \A h \in Hosts : WorkAt(h)
           /\ loop = "dead" \/ \A h \in fd : BytesAt(h)

Places == Watched /\ Connected /\ AtHosts

\* What taking a slot changes.
LEMMA TakenFields ==
  ASSUME BuildsAssumption, TypeInv, SlotOK, Message("build"), NEW p \in Pids \cup {0}
  PROVE  /\ NextSlot \in Slots /\ Taken(p) \in [Slots -> SlotType]
         /\ slots[NextSlot].job = FreeSlot /\ slots[NextSlot].pid = 0
         /\ Taken(p)[NextSlot].host = slots[NextSlot].host
         /\ Taken(p)[NextSlot].job = Received /\ Taken(p)[NextSlot].pid = p
         /\ \A i \in Slots : i # NextSlot => Taken(p)[i] = slots[i]
<1>1. /\ NextSlot \in Slots /\ Taken(p) \in [Slots -> SlotType]
      /\ slots[NextSlot].job = FreeSlot /\ slots[NextSlot].pid = 0
      /\ \A i \in Slots : Taken(p)[i] = IF i = NextSlot
           THEN [host |-> slots[i].host, job |-> Received, pid |-> p] ELSE slots[i]
  BY TakenType DEF TypeInv
<1> DEFINE list == Taken(p)
<1>2. list[NextSlot] = [host |-> slots[NextSlot].host, job |-> Received, pid |-> p]
  BY <1>1, Zenon
<1>3. \A i \in Slots : i # NextSlot => list[i] = slots[i] BY <1>1
<1> HIDE DEF list
<1>4. /\ list[NextSlot].host = slots[NextSlot].host /\ list[NextSlot].job = Received
      /\ list[NextSlot].pid = p
  BY <1>2
<1> QED BY <1>1, <1>3, <1>4 DEF list

\* What taking and releasing slots leaves to a host.
LEMMA TakenHeld ==
  ASSUME BuildsAssumption, TypeInv, SlotOK, Message("build"), NEW p \in Pids \cup {0}
  PROVE  /\ \A h : Held(h, slots) \subseteq Held(h, Taken(p))
         /\ Received \in Held(slots[NextSlot].host, Taken(p))
<1> DEFINE list == Taken(p)
<1>1. /\ NextSlot \in Slots /\ slots[NextSlot].job = FreeSlot
      /\ list[NextSlot].host = slots[NextSlot].host /\ list[NextSlot].job = Received
      /\ \A i \in Slots : i # NextSlot => list[i] = slots[i]
  BY TakenFields
<1>2. Received \in Jobs /\ Received # FreeSlot BY MessageType, JobFacts DEF TypeInv
<1> HIDE DEF list
<1>6. Received \in Held(slots[NextSlot].host, list)
  BY <1>1, <1>2, Zenon DEF Held
<1>7. ASSUME NEW h, NEW x \in Held(h, slots) PROVE x \in Held(h, list)
  <2>1. PICK i \in Slots : slots[i].host = h /\ slots[i].job # FreeSlot /\ x = slots[i].job
    BY Zenon DEF Held
  <2>2. list[i] = slots[i] BY <1>1, <2>1
  <2> QED BY <2>1, <2>2, Zenon DEF Held
<1>8. \A h : Held(h, slots) \subseteq Held(h, list) BY <1>7
<1> QED BY <1>6, <1>8 DEF list

\* Slots that hold no build of h are released.
LEMMA DoneHeld ==
  ASSUME BuildsAssumption, TypeOK, NEW list \in [Slots -> SlotType], NEW S \in SUBSET Slots,
         \A i \in S : list[i].job # FreeSlot, BuildsDone(S, list), NEW h,
         NEW gone, \A i \in S : list[i].host = h => list[i].job.id \in gone
  PROVE  {x \in Held(h, list) : x.id \notin gone} \subseteq Held(h, slots')
<1>1. \A i \in Slots : slots'[i] = IF i \in S
         THEN [host |-> list[i].host, job |-> FreeSlot, pid |-> 0] ELSE list[i]
  BY DoneType
<1>2. ASSUME NEW x \in Held(h, list), x.id \notin gone PROVE x \in Held(h, slots')
  <2>1. PICK i \in Slots : list[i].host = h /\ list[i].job # FreeSlot /\ x = list[i].job
    BY Zenon DEF Held
  <2>2. i \notin S BY <1>2, <2>1
  <2>3. slots'[i] = list[i] BY <1>1, <2>2
  <2> QED BY <2>1, <2>3, Zenon DEF Held
<1> QED BY <1>2

LEMMA OthersHeld ==
  ASSUME BuildsAssumption, TypeOK, NEW list \in [Slots -> SlotType], NEW S \in SUBSET Slots,
         \A i \in S : list[i].job # FreeSlot, BuildsDone(S, list), NEW h,
         \A i \in S : list[i].host # h
  PROVE  Held(h, list) \subseteq Held(h, slots')
<1>1. \A i \in S : list[i].host = h => list[i].job.id \in {} OBVIOUS
<1>2. {x \in Held(h, list) : x.id \notin {}} \subseteq Held(h, slots') BY <1>1, DoneHeld, Zenon
<1> QED BY <1>2

\* Processes of the slots released have ended; none has to.
LEMMA DoneWatched ==
  ASSUME BuildsAssumption, TypeOK, NEW list \in [Slots -> SlotType], NEW S \in SUBSET Slots,
         \A i \in S : list[i].job # FreeSlot, BuildsDone(S, list),
         NEW pr, WatchedOK(pr, list),
         NEW after, \A p \in Pids : after[p].state # "none" /\ after[p].n # 0 =>
                      /\ pr[p].state # "none" /\ pr[p].n # 0
                      /\ \A i \in S : list[i].pid # p
  PROVE  WatchedOK(after, slots')
<1>1. \A i \in Slots : slots'[i] = IF i \in S
         THEN [host |-> list[i].host, job |-> FreeSlot, pid |-> 0] ELSE list[i]
  BY DoneType
<1>2. ASSUME NEW i \in Slots, slots'[i].pid # 0 PROVE slots'[i].host = Local
  <2>1. i \notin S
    <3>1. CASE i \in S
      <4>1. slots'[i] = [host |-> list[i].host, job |-> FreeSlot, pid |-> 0] BY <1>1, <3>1
      <4> QED BY <1>2, <4>1
    <3> QED BY <3>1
  <2> QED BY <1>1, <1>2, <2>1 DEF WatchedOK
<1>3. ASSUME NEW p \in Pids, after[p].state # "none" /\ after[p].n # 0
      PROVE  \E i \in Slots : slots'[i].pid = p
  <2>1. PICK i \in Slots : list[i].pid = p BY <1>3 DEF WatchedOK
  <2>2. i \notin S BY <1>3, <2>1
  <2>3. slots'[i] = list[i] BY <1>1, <2>2
  <2> QED BY <2>1, <2>3
<1> QED BY <1>2, <1>3 DEF WatchedOK

\* A host that has no step of its own.
LEMMA HostStays ==
  ASSUME NEW h \in Hosts, remote'[h] = remote[h], toHost'[h] = toHost[h],
         running'[h] = running[h], bytes'[h] = bytes[h], Held(h, slots) \subseteq Held(h, slots')
  PROVE  (WorkAt(h) => WorkAt(h)') /\ (BytesAt(h) => BytesAt(h)')
<1> DEFINE held == Held(h, slots)
           more == Held(h, slots')
           queue == toHost[h]
           run == running[h]
<1>1. /\ WorkOK(held, queue, run) => WorkOK(more, queue, run)
      /\ \A b, up : BytesOK(b, held, up, queue, run) => BytesOK(b, more, up, queue, run)
  BY HeldMore
<1>2. WorkAt(h) => WorkAt(h)' BY <1>1 DEF WorkAt, Held
<1>3. BytesAt(h) => BytesAt(h)' BY <1>1 DEF BytesAt, Held
<1> QED BY <1>2, <1>3

\* The build that an answer of h is about is in one slot, of h.
LEMMA AnswerSlot ==
  ASSUME BuildsAssumption, HostsAssumption, TypeInv, Own, Places, NEW h \in Hosts, AtHost(h),
         ~(Len(bytes[h]) < AnswerBytes), ReadID(bytes[h]) # 0
  PROVE  \E i \in Slots :
           /\ JobID_Build(ReadID(bytes[h])) = {i} /\ slots[i].host = h
           /\ slots[i].job # FreeSlot /\ slots[i].pid = 0
           /\ remote[h] = "up" => /\ \A y \in running[h] : y.id # ReadID(bytes[h])
                                  /\ \A m \in Builds(toHost[h]) :
                                       toHost[h][m].job.id # ReadID(bytes[h])
           /\ \A left : {y \in Held(h, slots) : y.id # ReadID(bytes[h])} \subseteq left =>
                BytesOK(SubSeq(bytes[h], AnswerBytes + 1, Len(bytes[h])), left,
                        remote[h] = "up", toHost[h], running[h])
<1> DEFINE id == ReadID(bytes[h])
           S == 0..255
<1>1. loop # "dead" /\ h \in fd
  BY Zenon DEF AtHost, HostsAssumption, Places, Connected
<1>2. BytesAt(h) BY <1>1 DEF Places, AtHosts
<1>3. bytes[h] \in Seq(S) BY DEF TypeInv, TypeOK
<1> HIDE DEF S
<1>4. PICK x \in Held(h, slots) :
        /\ x.id = id
        /\ remote[h] = "up" => /\ \A y \in running[h] : y.id # x.id
                               /\ \A m \in Builds(toHost[h]) : toHost[h][m].job.id # x.id
        /\ \A left : {y \in Held(h, slots) : y.id # x.id} \subseteq left =>
             BytesOK(SubSeq(bytes[h], AnswerBytes + 1, Len(bytes[h])), left,
                     remote[h] = "up", toHost[h], running[h])
  <2> DEFINE b == bytes[h]
             up == remote[h] = "up"
             queue == toHost[h]
             run == running[h]
             held == Held(h, slots)
  <2>1. /\ b \in Seq(S) /\ BytesOK(b, held, up, queue, run) /\ ~(Len(b) < AnswerBytes)
        /\ ReadID(b) # 0
    BY <1>2, <1>3 DEF BytesAt
  <2> HIDE DEF b, up, queue, run, held
  <2>2. \E x \in held :
           /\ x.id = ReadID(b)
           /\ up => /\ \A y \in run : y.id # x.id
                    /\ \A m \in Builds(queue) : queue[m].job.id # x.id
           /\ \A left : {y \in held : y.id # x.id} \subseteq left =>
                BytesOK(SubSeq(b, AnswerBytes + 1, Len(b)), left, up, queue, run)
    BY <2>1, HostAnswered
  <2> QED BY <2>2 DEF b, up, queue, run, held
<1>5. PICK i \in Slots : slots[i].host = h /\ slots[i].job # FreeSlot /\ x = slots[i].job
  BY Zenon DEF Held
<1>6. JobID_Build(id) = {i}
  <2>1. \A k \in Slots : slots[k].job.id = slots[i].job.id => k = i
    BY <1>5 DEF Own, OwnOK
  <2> QED BY <1>4, <1>5, <2>1 DEF JobID_Build
<1>7. slots[i].pid = 0
  BY <1>5 DEF Places, Watched, WatchedOK, BuildsAssumption
<1>8. /\ remote[h] = "up" => /\ \A y \in running[h] : y.id # id
                             /\ \A m \in Builds(toHost[h]) : toHost[h][m].job.id # id
      /\ \A left : {y \in Held(h, slots) : y.id # id} \subseteq left =>
           BytesOK(SubSeq(bytes[h], AnswerBytes + 1, Len(bytes[h])), left,
                   remote[h] = "up", toHost[h], running[h])
  <2> HIDE DEF id
  <2> QED BY <1>4
<1> QED BY <1>5, <1>6, <1>7, <1>8

LEMMA WatchedStep ==
  ASSUME BuildsAssumption, HostsAssumption, TypeInv, Own, Places, [Next]_vars
  PROVE  Watched'
<1>0. ServerType /\ QueueType /\ ClientType BY TypeParts DEF TypeInv
<1>W. WatchedOK(proc, slots) BY DEF Places, Watched
<1>U. UNCHANGED <<slots, proc>> => Watched' BY <1>W DEF Watched, WatchedOK
<1>E. Watched' <=> WatchedOK(proc', slots') BY DEF Watched, WatchedOK
\* A process the slots have nothing of ends, or another starts.
<1>P. ASSUME UNCHANGED slots,
             \A p \in Pids : proc'[p].state # "none" /\ proc'[p].n # 0 =>
               proc[p].state # "none" /\ proc[p].n # 0
      PROVE  Watched'
  BY <1>W, <1>E, <1>P DEF WatchedOK
<1>T. SlotOK /\ Message("build") =>
        WatchedOK(proc, Taken(0)) /\ Taken(0) \in [Slots -> SlotType]
  <2> SUFFICES ASSUME SlotOK, Message("build") PROVE WatchedOK(proc, Taken(0)) /\ Taken(0) \in [Slots -> SlotType]
    OBVIOUS
  <2> DEFINE list == Taken(0)
  <2>1. /\ NextSlot \in Slots /\ slots[NextSlot].pid = 0 /\ list \in [Slots -> SlotType]
        /\ list[NextSlot].host = slots[NextSlot].host /\ list[NextSlot].pid = 0
        /\ \A i \in Slots : i # NextSlot => list[i] = slots[i]
    BY TakenFields
  <2> HIDE DEF list
  <2>2. \A i \in Slots : list[i].host = slots[i].host /\ list[i].pid = slots[i].pid
    BY <2>1
  <2>3. WatchedOK(proc, list) BY <1>W, <2>2 DEF WatchedOK
  <2> QED BY <2>1, <2>3 DEF list
\* A connection is closed.
<1>C. ASSUME NEW list \in [Slots -> SlotType], NEW h \in Hosts, WatchedOK(proc, list),
             RBS_Close(h, list),
             \A p \in Pids : proc'[p].state # "none" /\ proc'[p].n # 0 =>
               proc[p].state # "none" /\ proc[p].n # 0
      PROVE  Watched'
  <2> DEFINE S == Cancel_Builds(h, list)
  <2>1. /\ S \in SUBSET Slots
        /\ \A i \in Slots : i \in S <=> list[i].host = h /\ list[i].job # FreeSlot
    BY <1>C, CancelFacts
  <2>2. BuildsDone(S, list) BY <1>C DEF RBS_Close
  <2> HIDE DEF S
  <2>3. \A i \in S : list[i].pid = 0 BY <1>C, <2>1 DEF WatchedOK, BuildsAssumption
  <2>4. \A p \in Pids, i \in S : list[i].pid # p
    <3>1. \A p \in Pids : p # 0 BY SMT DEF BuildsAssumption
    <3> QED BY <2>3, <3>1
  <2>5. \A i \in S : list[i].job # FreeSlot BY <2>1
  <2>6. TypeOK BY DEF TypeInv
  <2>7. WatchedOK(proc', slots') BY <1>C, <2>1, <2>2, <2>4, <2>5, <2>6, DoneWatched
  <2> QED BY <1>E, <2>7
<1>1. ASSUME NEW p \in Pids, StartLocal(p) PROVE Watched'
  <2>1. CASE SlotOK
    <3>1. /\ Message("build") /\ slots[NextSlot].host = Local /\ Fork(p, Received.n)
          /\ slots' = Taken(p)
      BY <1>1, <2>1 DEF StartLocal
    <3>2. /\ NextSlot \in Slots /\ slots'[NextSlot].host = slots[NextSlot].host
          /\ slots'[NextSlot].pid = p
          /\ \A i \in Slots : i # NextSlot => slots'[i] = slots[i]
      BY <2>1, <3>1, TakenFields
    <3>3. slots'[NextSlot].host = Local /\ slots'[NextSlot].pid = p BY <3>1, <3>2
    <3>4. \A i \in Slots : i # NextSlot => slots'[i] = slots[i] BY <3>2
    <3>5. Received.n \in 0..MaxJobNum
      <4>1. Received \in Jobs BY <3>1, MessageType DEF TypeInv
      <4> QED BY <4>1, SMT DEF Jobs, Nums
    <3>6. \A q \in Pids : q # p => proc'[q] = proc[q] BY <3>1, <3>5, ForkFacts DEF TypeInv
    <3>7. ASSUME NEW i \in Slots, slots'[i].pid # 0 PROVE slots'[i].host = Local
      BY <1>W, <3>3, <3>4, <3>7 DEF WatchedOK
    <3>8. ASSUME NEW q \in Pids, proc'[q].state # "none", proc'[q].n # 0
          PROVE  \E i \in Slots : slots'[i].pid = q
      <4>1. CASE q = p BY <3>2, <3>3, <4>1
      <4>2. CASE q # p
        <5>1. PICK i \in Slots : slots[i].pid = q BY <1>W, <3>6, <3>8, <4>2 DEF WatchedOK
        <5>2. q # 0 BY SMT DEF BuildsAssumption
        <5>3. slots[NextSlot].pid = 0 BY <2>1, <3>1, TakenFields
        <5>4. slots'[i] = slots[i] BY <3>4, <5>1, <5>2, <5>3
        <5> QED BY <5>1, <5>4
      <4> QED BY <4>1, <4>2
    <3> QED BY <1>E, <3>7, <3>8 DEF WatchedOK
  <2>2. CASE ~SlotOK BY <1>1, <1>U, <2>2 DEF StartLocal, Dies
  <2> QED BY <2>1, <2>2
<1>2. ASSUME NEW h \in Hosts, NEW p \in Pids, StartHost(h, p) PROVE Watched'
  <2>1. Message("build") /\ SlotOK /\ Fork(p, 0) /\ slots' = Taken(0) BY <1>2 DEF StartHost
  <2>2. 0 \in 0..MaxJobNum BY SMT DEF BuildsAssumption
  <2>3. /\ proc'[p] = [state |-> "runs", n |-> 0]
        /\ \A q \in Pids : q # p => proc'[q] = proc[q]
    BY <2>1, <2>2, ForkFacts DEF TypeInv
  <2>4. WatchedOK(proc, slots') BY <1>T, <2>1
  <2>5. proc'[p].n = 0 BY <2>3
  <2>6. \A q \in Pids : proc'[q].n # 0 => proc'[q] = proc[q] BY <2>3, <2>5
  <2> QED BY <1>E, <2>4, <2>6 DEF WatchedOK
<1>3. ASSUME NEW h \in Hosts, SendToHost(h) PROVE Watched'
  <2>1. Message("build") /\ SlotOK /\ UNCHANGED proc BY <1>3 DEF SendToHost
  <2>2. CASE slots' = Taken(0) BY <1>T, <1>E, <2>1, <2>2
  <2>3. CASE RBS_Close(h, Taken(0)) BY <1>T, <1>C, <2>1, <2>3
  <2> QED BY <1>3, <2>2, <2>3 DEF SendToHost
<1>4. ASSUME NEW h \in Hosts, UNCHANGED proc, RBS_Close(h, slots) PROVE Watched'
  BY <1>0, <1>4, <1>C, <1>W DEF ClientType
<1>5. ASSUME NEW h \in Hosts, AbortRemote(h) \/ HostGone(h) PROVE Watched'
  BY <1>5, <1>4, <1>U DEF AbortRemote, HostGone
<1>6. ASSUME NEW h \in Hosts, NEW p \in Pids, HostReaped(h, p) PROVE Watched'
  <2>1. /\ SystemWait(p) /\ (RBS_Close(h, slots) \/ UNCHANGED slots)
    BY <1>6 DEF HostReaped
  <2>2. /\ \A q \in Pids : q # p => proc'[q] = proc[q]
    BY <2>1, ChildFacts DEF TypeInv
  <2>3. proc'[p].state = "none"
    BY <1>0, <2>1 DEF SystemWait, ClientType
  <2>4. \A q \in Pids : proc'[q].state # "none" /\ proc'[q].n # 0 =>
          proc[q].state # "none" /\ proc[q].n # 0
    BY <2>2, <2>3
  <2>5. slots \in [Slots -> SlotType] BY <1>0 DEF ClientType
  <2> QED BY <1>C, <1>P, <1>W, <2>1, <2>4, <2>5
<1>7. ASSUME NEW p \in Pids, BuildReaped(p) PROVE Watched'
  <2>1. SystemWait(p) BY <1>7 DEF BuildReaped
  <2>2. p # 0 /\ \A q \in Pids : q # p => proc'[q] = proc[q]
    BY <2>1, ChildFacts DEF TypeInv
  <2>3. proc'[p].state = "none"
    BY <1>0, <2>1 DEF SystemWait, ClientType
  <2>4. \A q \in Pids : proc'[q].state # "none" /\ proc'[q].n # 0 =>
          proc[q].state # "none" /\ proc[q].n # 0 /\ q # p
    BY <2>2, <2>3
  <2>5. CASE UNCHANGED slots BY <1>P, <2>4, <2>5
  <2>6. CASE BuildsDone(BuildID_Build(p), slots)
    <3> DEFINE S == BuildID_Build(p)
    <3>1. /\ S \in SUBSET Slots /\ \A i \in S : slots[i].pid = p BY DEF BuildID_Build
    <3>2. \A i \in S : slots[i].job # FreeSlot
      BY <2>2, <3>1 DEF TypeInv, Procs, ProcsOK
    <3>3. TypeOK /\ slots \in [Slots -> SlotType] BY <1>0 DEF TypeInv, ClientType
    <3>4. BuildsDone(S, slots) BY <2>6
    <3> HIDE DEF S
    <3>5. \A q \in Pids : proc'[q].state # "none" /\ proc'[q].n # 0 =>
            /\ proc[q].state # "none" /\ proc[q].n # 0
            /\ \A i \in S : slots[i].pid # q
      BY <2>4, <3>1
    <3>6. WatchedOK(proc', slots') BY <1>W, <3>1, <3>2, <3>3, <3>4, <3>5, DoneWatched
    <3> QED BY <1>E, <3>6
  <2> QED BY <1>7, <2>5, <2>6 DEF BuildReaped, Dies
<1>8. ASSUME NEW h \in Hosts, GetAnswer(h) PROVE Watched'
  <2> DEFINE id == ReadID(bytes[h])
  <2>1. UNCHANGED proc BY <1>8 DEF GetAnswer
  <2>2. CASE UNCHANGED slots BY <1>U, <2>1, <2>2
  <2>3. CASE ~(Len(bytes[h]) < AnswerBytes) /\ id # 0 /\ BuildsDone(JobID_Build(id), slots)
    <3>1. AtHost(h) BY <1>8 DEF GetAnswer
    <3>2. PICK i \in Slots : JobID_Build(id) = {i} /\ slots[i].job # FreeSlot /\ slots[i].pid = 0
      BY <2>3, <3>1, AnswerSlot
    <3>3. {i} \in SUBSET Slots /\ \A k \in {i} : slots[k].job # FreeSlot /\ slots[k].pid = 0
      BY <3>2
    <3>4. TypeOK /\ slots \in [Slots -> SlotType] BY <1>0 DEF TypeInv, ClientType
    <3>5. \A q \in Pids : q # 0 BY SMT DEF BuildsAssumption
    <3>6. WatchedOK(proc', slots')
      <4> DEFINE S == {i}
      <4>1. BuildsDone(S, slots) BY <2>3, <3>2
      <4>2. S \in SUBSET Slots /\ \A k \in S : slots[k].job # FreeSlot BY <3>3
      <4>3. \A q \in Pids : proc'[q].state # "none" /\ proc'[q].n # 0 =>
              /\ proc[q].state # "none" /\ proc[q].n # 0
              /\ \A k \in S : slots[k].pid # q
        BY <2>1, <3>3, <3>5
      <4> HIDE DEF S
      <4> QED BY <1>W, <3>4, <4>1, <4>2, <4>3, DoneWatched
    <3> QED BY <1>E, <3>6
  <2> QED BY <1>8, <2>2, <2>3 DEF GetAnswer, Dies
<1>9. ASSUME NEW h \in Hosts, HostDies(h) PROVE Watched'
  <2>1. UNCHANGED slots /\ proc' = [proc EXCEPT ![rbsPid[h]].state = "exits"]
    BY <1>9 DEF HostDies
  <2>2. proc \in [Pids -> ProcType] BY <1>0 DEF ClientType
  <2>3. \A p \in Pids : p # rbsPid[h] => proc'[p] = proc[p] BY <2>1, <2>2
  <2>4. rbsPid[h] # 0 /\ rbsPid[h] \in Pids => proc'[rbsPid[h]].n = 0
    BY <2>1, <2>2 DEF TypeInv, Procs, ProcsOK, ProcType
  <2>5. \A p \in Pids : p # 0 BY SMT DEF BuildsAssumption
  <2>6. \A p \in Pids : proc'[p].n # 0 => proc'[p] = proc[p] BY <2>3, <2>4, <2>5
  <2> QED BY <1>P, <2>1, <2>6
<1>10. ASSUME NEW p \in Pids, ChildEnds(p) PROVE Watched'
  <2>1. UNCHANGED slots /\ proc' = [proc EXCEPT ![p].state = "zombie"]
    BY <1>10 DEF ChildEnds
  <2>2. proc \in [Pids -> ProcType] BY <1>0 DEF ClientType
  <2>3. \A q \in Pids : q # p => proc'[q] = proc[q] BY <2>1, <2>2
  <2>4. proc[p].state # "none" /\ proc'[p].n = proc[p].n
    BY <1>10, <2>1, <2>2 DEF ChildEnds, ProcType
  <2>5. \A q \in Pids : proc'[q].n # 0 /\ proc'[q].state # "none" =>
          proc[q].state # "none" /\ proc[q].n # 0
    BY <2>3, <2>4
  <2> QED BY <1>P, <2>1, <2>5
<1>11. ASSUME UNCHANGED clientVars PROVE Watched' BY <1>11, <1>U DEF clientVars
<1>12. ASSUME AbortEnded \/ AbortLocal \/ ChildAction \/ ChildActionEnds \/ UNCHANGED vars
       PROVE  Watched'
  BY <1>12, <1>U DEF AbortEnded, AbortLocal, ChildAction, ChildActionEnds, clientVars, vars
<1>13. ASSUME NEW h \in Hosts, HostBuild(h) \/ HostAbort(h) PROVE Watched'
  BY <1>11, <1>13 DEF HostBuild, HostAbort
<1>14. ASSUME NEW h \in Hosts, NEW b \in Jobs, HostBuildEnd(h, b) PROVE Watched'
  BY <1>11, <1>14 DEF HostBuildEnd, HostBuildEnds
<1>15. ASSUME NEW j \in JobIDs, SendBuild(j) \/ SendAbort(j) PROVE Watched'
  BY <1>11, <1>15 DEF SendBuild, SendAbort
<1>16. ASSUME ReadAnswer PROVE Watched' BY <1>11, <1>16 DEF ReadAnswer
<1> QED
  <2>1. CASE Client BY <2>1, <1>1, <1>2, <1>3, <1>5, <1>6, <1>7, <1>8, <1>12 DEF Client
  <2> QED BY <2>1, <1>9, <1>10, <1>12, <1>13, <1>14, <1>15, <1>16 DEF Next

\* A host whose connection is closed is not up.
LEMMA ClosedIsDown ==
  ASSUME TypeInv, Places, NEW h \in Hosts, NEW p, HostReaped(h, p)
  PROVE  remote[h] # "up"
<1>1. rbsPid[h] = p /\ proc[p].state = "zombie" BY DEF HostReaped, SystemWait, Zombies
<1> QED BY <1>1 DEF Places, Connected

LEMMA ConnectedStep ==
  ASSUME BuildsAssumption, HostsAssumption, TypeInv, Own, Places, [Next]_vars
  PROVE  Connected'
<1>0. ClientType /\ HostType BY TypeParts DEF TypeInv
<1>1. loop \in Hosts => loop \in fd BY DEF Places, Connected
<1>2. \A h \in Hosts : remote[h] = "up" =>
        h \in fd /\ rbsPid[h] # 0 /\ proc[rbsPid[h]].state = "runs"
  BY DEF Places, Connected
<1>H. "select" \notin Hosts /\ "reap" \notin Hosts /\ "dead" \notin Hosts BY DEF HostsAssumption
<1>P. \A h \in Hosts : rbsPid[h] # 0 => proc[rbsPid[h]].n = 0 /\ rbsPid[h] \in Pids
                         /\ \A g \in Hosts : rbsPid[g] = rbsPid[h] => g = h
  BY <1>0 DEF ClientType, TypeInv, Procs, ProcsOK
\* Nothing of a connection changes, or the client is between two messages.
<1>U. ASSUME UNCHANGED <<fd, remote, rbsPid, proc>>,
             UNCHANGED loop \/ loop' \in {"select", "reap", "dead"}
      PROVE  Connected'
  BY <1>1, <1>2, <1>H, <1>U DEF Connected
\* The connection of a host that is not up is closed.
<1>C. ASSUME NEW h \in Hosts, remote[h] # "up", fd' = fd \/ fd' = fd \ {h},
             UNCHANGED <<remote, rbsPid, proc>>, loop' \in {"select", "reap", "dead"}
      PROVE  Connected'
  <2>1. loop' \notin Hosts BY <1>C, <1>H
  <2>2. ASSUME NEW g \in Hosts, remote'[g] = "up"
        PROVE  g \in fd' /\ rbsPid'[g] # 0 /\ proc'[rbsPid'[g]].state = "runs"
    BY <1>2, <1>C, <2>2
  <2> QED BY <2>1, <2>2 DEF Connected
<1>3. ASSUME NEW p \in Pids, StartLocal(p) PROVE Connected'
  <2>1. /\ loop = "select" /\ loop' \in {"select", "dead"} /\ UNCHANGED <<fd, remote, rbsPid>>
    BY <1>3 DEF StartLocal, Message, Dies, hostVars
  <2>2. CASE UNCHANGED proc BY <1>U, <2>1, <2>2
  <2>3. CASE SlotOK
    <3>1. Message("build") /\ Fork(p, Received.n) BY <1>3, <2>3 DEF StartLocal
    <3>2. Received.n \in 0..MaxJobNum
      <4>1. Received \in Jobs BY <3>1, MessageType DEF TypeInv
      <4> QED BY <4>1, SMT DEF Jobs, Nums
    <3>3. proc[p].state = "none" /\ \A q \in Pids : q # p => proc'[q] = proc[q]
      <4>1. TypeOK BY DEF TypeInv
      <4> QED BY <3>1, <3>2, <4>1, ForkFacts, ZenonT(30)
    <3>4. ASSUME NEW g \in Hosts, remote'[g] = "up"
          PROVE  g \in fd' /\ rbsPid'[g] # 0 /\ proc'[rbsPid'[g]].state = "runs"
      <4>1. g \in fd /\ rbsPid[g] # 0 /\ proc[rbsPid[g]].state = "runs" BY <1>2, <2>1, <3>4
      <4>2. rbsPid[g] \in Pids /\ rbsPid[g] # p BY <1>P, <3>3, <4>1
      <4> QED BY <2>1, <3>3, <4>1, <4>2
    <3> QED BY <1>H, <2>1, <3>4 DEF Connected
  <2> QED BY <1>3, <2>2, <2>3 DEF StartLocal
<1>4. ASSUME NEW h \in Hosts, NEW p \in Pids, StartHost(h, p) PROVE Connected'
  <2>1. /\ loop' = "select" /\ Fork(p, 0) /\ rbsPid' = [rbsPid EXCEPT ![h] = p]
        /\ fd' = fd \cup {h} /\ remote' = [remote EXCEPT ![h] = "up"]
    BY <1>4 DEF StartHost, Message
  <2>2. 0 \in 0..MaxJobNum BY SMT DEF BuildsAssumption
  <2>3. /\ p # 0 /\ proc[p].state = "none" /\ proc'[p] = [state |-> "runs", n |-> 0]
        /\ \A q \in Pids : q # p => proc'[q] = proc[q]
    BY <2>1, <2>2, ForkFacts DEF TypeInv
  <2>4. ASSUME NEW g \in Hosts, remote'[g] = "up"
        PROVE  g \in fd' /\ rbsPid'[g] # 0 /\ proc'[rbsPid'[g]].state = "runs"
    <3>1. CASE g = h
      <4>1. rbsPid'[g] = p BY <1>0, <2>1, <3>1 DEF ClientType
      <4> QED BY <2>1, <2>3, <3>1, <4>1
    <3>2. CASE g # h
      <4>1. rbsPid'[g] = rbsPid[g] /\ remote'[g] = remote[g]
        BY <1>0, <2>1, <3>2 DEF ClientType, HostType
      <4>2. g \in fd /\ rbsPid[g] # 0 /\ proc[rbsPid[g]].state = "runs" BY <1>2, <2>4, <4>1
      <4>3. rbsPid[g] \in Pids /\ rbsPid[g] # p BY <1>P, <2>3, <4>2
      <4> QED BY <2>1, <2>3, <4>1, <4>2, <4>3
    <3> QED BY <3>1, <3>2
  <2> QED BY <1>H, <2>1, <2>4 DEF Connected
<1>5. ASSUME NEW h \in Hosts, SendToHost(h) \/ AbortRemote(h) PROVE Connected'
  <2>1. loop' = "select" /\ UNCHANGED <<remote, rbsPid, proc>>
    BY <1>5 DEF SendToHost, AbortRemote, Message
  <2>2. fd' = fd \/ (remote[h] = "dead" /\ fd' = fd \ {h})
    BY <1>5 DEF SendToHost, AbortRemote, RBS_Close
  <2>3. CASE fd' = fd BY <1>U, <2>1, <2>3
  <2>4. CASE remote[h] = "dead" /\ fd' = fd \ {h} BY <1>C, <2>1, <2>4
  <2> QED BY <2>2, <2>3, <2>4
<1>6. ASSUME NEW h \in Hosts, HostGone(h) PROVE Connected'
  <2>1. loop' = "select" /\ UNCHANGED <<remote, rbsPid, proc>> /\ remote[h] = "dead"
        /\ fd' = fd \ {h}
    BY <1>6 DEF HostGone, RBS_Close, hostVars
  <2> QED BY <1>C, <2>1
<1>7. ASSUME NEW h \in Hosts, NEW p \in Pids, HostReaped(h, p) PROVE Connected'
  <2>1. remote[h] # "up" BY <1>7, ClosedIsDown
  <2>2. /\ loop' = "reap" /\ UNCHANGED remote /\ rbsPid[h] = p /\ SystemWait(p)
        /\ rbsPid' = [rbsPid EXCEPT ![h] = 0] /\ (fd' = fd \/ fd' = fd \ {h})
    BY <1>7 DEF HostReaped, SystemWait, RBS_Close, hostVars
  <2>3. p # 0 /\ \A q \in Pids : q # p => proc'[q] = proc[q]
    <3>1. TypeOK BY DEF TypeInv
    <3>2. SystemWait(p) BY <2>2
    <3> QED BY <3>1, <3>2, ChildFacts
  <2>4. ASSUME NEW g \in Hosts, remote'[g] = "up"
        PROVE  g \in fd' /\ rbsPid'[g] # 0 /\ proc'[rbsPid'[g]].state = "runs"
    <3>1. g # h BY <2>1, <2>2, <2>4
    <3>2. rbsPid'[g] = rbsPid[g] BY <1>0, <2>2, <3>1 DEF ClientType
    <3>3. g \in fd /\ rbsPid[g] # 0 /\ proc[rbsPid[g]].state = "runs" BY <1>2, <2>2, <2>4
    <3>4. rbsPid[g] \in Pids /\ rbsPid[g] # p BY <1>P, <2>2, <3>1, <3>3
    <3> QED BY <2>2, <2>3, <3>1, <3>2, <3>3, <3>4
  <2> QED BY <1>H, <2>2, <2>4 DEF Connected
<1>8. ASSUME NEW p \in Pids, BuildReaped(p) PROVE Connected'
  <2>1. /\ loop' \in {"reap", "dead"} /\ UNCHANGED <<fd, rbsPid, remote>> /\ SystemWait(p)
        /\ \A h \in Hosts : rbsPid[h] # p
    BY <1>8 DEF BuildReaped, SystemWait, Dies, hostVars
  <2>2. \A q \in Pids : q # p => proc'[q] = proc[q] BY <2>1, ChildFacts DEF TypeInv
  <2>3. ASSUME NEW g \in Hosts, remote'[g] = "up"
        PROVE  g \in fd' /\ rbsPid'[g] # 0 /\ proc'[rbsPid'[g]].state = "runs"
    <3>1. g \in fd /\ rbsPid[g] # 0 /\ proc[rbsPid[g]].state = "runs" BY <1>2, <2>1, <2>3
    <3>2. rbsPid[g] \in Pids BY <1>P, <3>1
    <3> QED BY <2>1, <2>2, <3>1, <3>2
  <2> QED BY <1>H, <2>1, <2>3 DEF Connected
<1>9. ASSUME NEW h \in Hosts, GetAnswer(h) PROVE Connected'
  <2>1. UNCHANGED <<fd, remote, rbsPid, proc>> /\ AtHost(h) BY <1>9 DEF GetAnswer
  <2>2. CASE loop' \in {"select", "reap", "dead"} BY <1>U, <2>1, <2>2
  <2>3. CASE loop = "select" /\ loop' = h
    <3>1. h \in fd BY <1>H, <2>1, <2>3 DEF AtHost
    <3> QED BY <1>2, <2>1, <2>3, <3>1 DEF Connected
  <2> QED BY <1>9, <2>2, <2>3 DEF GetAnswer, Dies
<1>10. ASSUME NEW h \in Hosts, HostDies(h) PROVE Connected'
  <2>1. /\ remote[h] = "up" /\ remote' = [remote EXCEPT ![h] = "dead"]
        /\ proc' = [proc EXCEPT ![rbsPid[h]].state = "exits"]
        /\ UNCHANGED <<loop, fd, rbsPid>>
    BY <1>10 DEF HostDies
  <2>2. ASSUME NEW g \in Hosts, remote'[g] = "up"
        PROVE  g \in fd' /\ rbsPid'[g] # 0 /\ proc'[rbsPid'[g]].state = "runs"
    <3>1. g # h /\ remote[g] = "up" BY <1>0, <2>1, <2>2 DEF HostType
    <3>2. g \in fd /\ rbsPid[g] # 0 /\ proc[rbsPid[g]].state = "runs" BY <1>2, <3>1
    <3>3. rbsPid[g] # rbsPid[h] /\ rbsPid[g] \in Pids BY <1>2, <1>P, <2>1, <3>1, <3>2
    <3>4. proc'[rbsPid[g]] = proc[rbsPid[g]] BY <1>0, <2>1, <3>3 DEF ClientType
    <3> QED BY <2>1, <3>2, <3>4
  <2> QED BY <1>1, <2>1, <2>2 DEF Connected
<1>11. ASSUME NEW p \in Pids, ChildEnds(p) PROVE Connected'
  <2>1. /\ (proc[p].state = "runs" /\ proc[p].n # 0) \/ proc[p].state = "exits"
        /\ proc' = [proc EXCEPT ![p].state = "zombie"] /\ UNCHANGED <<loop, fd, rbsPid, remote>>
    BY <1>11 DEF ChildEnds, hostVars
  <2>2. ASSUME NEW g \in Hosts, remote'[g] = "up"
        PROVE  g \in fd' /\ rbsPid'[g] # 0 /\ proc'[rbsPid'[g]].state = "runs"
    <3>1. g \in fd /\ rbsPid[g] # 0 /\ proc[rbsPid[g]].state = "runs" BY <1>2, <2>1, <2>2
    <3>2. rbsPid[g] \in Pids /\ proc[rbsPid[g]].n = 0 BY <1>P, <3>1
    <3>3. rbsPid[g] # p BY <2>1, <3>1, <3>2
    <3>4. proc'[rbsPid[g]] = proc[rbsPid[g]] BY <1>0, <2>1, <3>2, <3>3 DEF ClientType
    <3> QED BY <2>1, <3>1, <3>4
  <2> QED BY <1>1, <2>1, <2>2 DEF Connected
<1>12. ASSUME AbortEnded \/ AbortLocal \/ ChildAction \/ ChildActionEnds \/ UNCHANGED vars
       PROVE  Connected'
  BY <1>12, <1>U DEF AbortEnded, AbortLocal, ChildAction, ChildActionEnds, clientVars, hostVars, vars
<1>13. ASSUME NEW h \in Hosts, HostBuild(h) \/ HostAbort(h) PROVE Connected'
  BY <1>13, <1>U DEF HostBuild, HostAbort, clientVars
<1>14. ASSUME NEW h \in Hosts, NEW b \in Jobs, HostBuildEnd(h, b) PROVE Connected'
  BY <1>14, <1>U DEF HostBuildEnd, HostBuildEnds, clientVars
<1>15. ASSUME NEW j \in JobIDs, SendBuild(j) \/ SendAbort(j) PROVE Connected'
  BY <1>15, <1>U DEF SendBuild, SendAbort, clientVars, hostVars
<1>16. ASSUME ReadAnswer PROVE Connected' BY <1>16, <1>U DEF ReadAnswer, clientVars, hostVars
<1> QED
  <2>1. CASE Client BY <2>1, <1>3, <1>4, <1>5, <1>6, <1>7, <1>8, <1>9, <1>12 DEF Client
  <2> QED BY <2>1, <1>10, <1>11, <1>12, <1>13, <1>14, <1>15, <1>16 DEF Next

LEMMA NextAtHost ==
  ASSUME NEW h
  PROVE  /\ WorkAt(h)' <=>
              (remote'[h] = "up" => WorkOK(Held(h, slots'), toHost'[h], running'[h]))
         /\ BytesAt(h)' <=>
              BytesOK(bytes'[h], Held(h, slots'), remote'[h] = "up", toHost'[h], running'[h])
BY DEF WorkAt, BytesAt, Held

LEMMA AtHostsStep ==
  ASSUME BuildsAssumption, HostsAssumption, TypeInv, Own, Places, [Next]_vars
  PROVE  AtHosts'
<1>0. QueueType /\ ClientType /\ HostType /\ TypeOK BY TypeParts DEF TypeInv
<1>1. \A h \in Hosts : WorkAt(h) BY DEF Places, AtHosts
<1>2. loop = "dead" \/ \A h \in fd : BytesAt(h) BY DEF Places, AtHosts
<1>H. "select" \notin Hosts /\ "reap" \notin Hosts /\ "dead" \notin Hosts BY DEF HostsAssumption
<1>F. fd \subseteq Hosts /\ fd' \subseteq Hosts
  <2>1. TypeInv' BY TypeStep
  <2> QED BY <1>0, <2>1 DEF ClientType, TypeInv, TypeOK
\* A step of one host h, or of none, by a client that is alive or stays dead.
<1>S. ASSUME NEW h, fd' \subseteq fd \cup {h}, loop = "dead" => loop' = "dead",
             \A g \in Hosts : g # h => /\ remote'[g] = remote[g] /\ toHost'[g] = toHost[g]
                                       /\ running'[g] = running[g] /\ bytes'[g] = bytes[g]
                                       /\ Held(g, slots) \subseteq Held(g, slots'),
             h \in Hosts => WorkAt(h)',
             h \in Hosts /\ h \in fd' /\ loop' # "dead" => BytesAt(h)'
      PROVE  AtHosts'
  <2>1. \A g \in Hosts : g # h => (WorkAt(g) => WorkAt(g)') /\ (BytesAt(g) => BytesAt(g)')
    BY <1>S, HostStays
  <2>2. ASSUME NEW g \in Hosts PROVE WorkAt(g)' BY <1>1, <1>S, <2>1
  <2>3. ASSUME loop' # "dead", NEW g \in fd' PROVE BytesAt(g)'
    <3>1. CASE g = h
      <4>1. h \in Hosts BY <1>F, <2>3, <3>1
      <4> QED BY <1>S, <2>3, <3>1, <4>1
    <3>2. CASE g # h
      <4>1. g \in fd /\ g \in Hosts BY <1>F, <1>S, <2>3, <3>2
      <4>2. BytesAt(g) BY <1>2, <1>S, <2>3, <4>1
      <4> QED BY <2>1, <3>2, <4>1, <4>2
    <3> QED BY <3>1, <3>2
  <2> QED BY <2>2, <2>3 DEF AtHosts
\* Nothing of a host changes.
<1>U. ASSUME UNCHANGED <<fd, remote, toHost, running, bytes>>, loop = "dead" => loop' = "dead",
             \A g : Held(g, slots) \subseteq Held(g, slots')
      PROVE  AtHosts'
  <2>1. \A g \in Hosts : (WorkAt(g) => WorkAt(g)') /\ (BytesAt(g) => BytesAt(g)')
    BY <1>U, HostStays
  <2>2. \A g \in Hosts : WorkAt(g)' BY <1>1, <2>1
  <2>3. ASSUME loop' # "dead", NEW g \in fd' PROVE BytesAt(g)'
    <3>1. g \in fd /\ g \in Hosts /\ loop # "dead" BY <1>F, <1>U, <2>3
    <3> QED BY <1>2, <2>1, <3>1
  <2> QED BY <2>2, <2>3 DEF AtHosts
\* The connection of a host that is not up is closed.
<1>C. ASSUME NEW list \in [Slots -> SlotType], NEW h \in Hosts, RBS_Close(h, list),
             remote[h] # "up", UNCHANGED hostVars, loop = "dead" => loop' = "dead",
             \A g : Held(g, slots) \subseteq Held(g, list)
      PROVE  AtHosts'
  <2> DEFINE S == Cancel_Builds(h, list)
  <2>1. /\ S \in SUBSET Slots
        /\ \A i \in Slots : i \in S <=> list[i].host = h /\ list[i].job # FreeSlot
    BY <1>C, CancelFacts
  <2>2. BuildsDone(S, list) /\ fd' = fd \ {h} BY <1>C DEF RBS_Close
  <2> HIDE DEF S
  <2>3. ASSUME NEW g \in Hosts, g # h PROVE Held(g, slots) \subseteq Held(g, slots')
    <3>1. \A i \in S : list[i].job # FreeSlot /\ list[i].host # g BY <2>1, <2>3
    <3>2. Held(g, list) \subseteq Held(g, slots') BY <1>0, <1>C, <2>1, <2>2, <3>1, OthersHeld
    <3> QED BY <1>C, <3>2
  <2>4. WorkAt(h)' BY <1>C DEF WorkAt, hostVars
  <2>5. UNCHANGED <<remote, toHost, running, bytes>> BY <1>C DEF hostVars
  <2>6. fd' \subseteq fd \cup {h} /\ h \notin fd' BY <2>2
  <2> QED BY <1>C, <1>S, <2>3, <2>4, <2>5, <2>6
<1>T. \A p \in Pids \cup {0} : SlotOK /\ Message("build") =>
        /\ \A g : Held(g, slots) \subseteq Held(g, Taken(p))
        /\ Received \in Held(slots[NextSlot].host, Taken(p))
  BY TakenHeld
\* A build that arrives is of no slot.
<1>N. ASSUME Message("build"), NEW h, NEW x \in Held(h, slots) PROVE x.id # Received.id
  <2>1. toClient \in Seq(Messages) /\ toClient # <<>> /\ Head(toClient).type = "build"
    BY <1>0, <1>N DEF QueueType, Message
  <2>2. 1 \in Builds(toClient) /\ Received = toClient[1].job
    BY <2>1, TailBuilds DEF Received
  <2>3. PICK i \in Slots : x = slots[i].job BY <1>N, Zenon DEF Held
  <2> QED BY <2>2, <2>3 DEF Own, OwnOK
<1>3. ASSUME NEW p \in Pids, StartLocal(p) PROVE AtHosts'
  <2>1. /\ Message("build") /\ loop = "select" /\ UNCHANGED <<fd, remote, toHost, running, bytes>>
        /\ (SlotOK /\ slots' = Taken(p)) \/ UNCHANGED slots
    BY <1>3 DEF StartLocal, Message, Dies, hostVars
  <2>2. \A g : Held(g, slots) \subseteq Held(g, slots') BY <1>T, <2>1
  <2> QED BY <1>U, <2>1, <2>2
<1>4. ASSUME NEW h \in Hosts, NEW p \in Pids, StartHost(h, p) PROVE AtHosts'
  <2>1. /\ Message("build") /\ SlotOK /\ slots[NextSlot].host = h /\ slots' = Taken(0)
        /\ loop = "select" /\ fd' = fd \cup {h}
        /\ remote' = [remote EXCEPT ![h] = "up"]
        /\ toHost' = [toHost EXCEPT ![h] = <<Head(toClient)>>]
        /\ bytes' = [bytes EXCEPT ![h] = <<>>] /\ running' = [running EXCEPT ![h] = {}]
    BY <1>4 DEF StartHost, Message
  <2> DEFINE m == Head(toClient)
             more == Held(h, slots')
  <2>2. m \in Messages /\ m.type = "build" /\ m.job = Received
    BY <2>1, MessageType DEF TypeInv, Message, Received
  <2>3. m.job \in more BY <1>T, <2>1, <2>2
  <2>4. toHost'[h] = <<m>> /\ bytes'[h] = <<>> /\ running'[h] = {}
    BY <1>0, <2>1 DEF HostType
  <2>5. WorkOK(more, <<m>>, {})
    <3>1. \A k \in Builds(<<m>>) : k = 1 /\ <<m>>[k] = m BY DEF Builds
    <3> HIDE DEF m, more
    <3> QED BY <2>3, <3>1 DEF WorkOK
  <2>6. WorkAt(h)' BY <2>4, <2>5 DEF WorkAt, Held
  <2>7. BytesAt(h)' BY <2>4, NoBytes DEF BytesAt
  <2>8. \A g \in Hosts : g # h => /\ remote'[g] = remote[g] /\ toHost'[g] = toHost[g]
                                  /\ running'[g] = running[g] /\ bytes'[g] = bytes[g]
                                  /\ Held(g, slots) \subseteq Held(g, slots')
    BY <1>0, <1>T, <2>1 DEF HostType
  <2> QED BY <1>S, <2>1, <2>6, <2>7, <2>8
\* A message is written to the connection of a host.
<1>W. ASSUME NEW h \in Hosts, NEW m \in Messages, toHost' = [toHost EXCEPT ![h] = Append(@, m)],
             UNCHANGED <<fd, remote, running, bytes>>, loop # "dead", h \in fd' => h \in fd,
             \A g : Held(g, slots) \subseteq Held(g, slots'),
             m.type = "build" => /\ m.job \in Held(h, slots')
                                 /\ \A x \in Held(h, slots) : x.id # m.job.id
      PROVE  AtHosts'
  <2>1. toHost[h] \in Seq(Messages) /\ toHost'[h] = Append(toHost[h], m)
    BY <1>0, <1>W DEF HostType
  <2> DEFINE held == Held(h, slots)
             more == Held(h, slots')
             queue == toHost[h]
             run == running[h]
  <2>2. /\ m.type = "build" => \A x \in held : x.id # m.job.id
        /\ held \subseteq more /\ (m.type = "build" => m.job \in more)
        /\ queue \in Seq(Messages)
    BY <1>W, <2>1
  <2> HIDE DEF held, more, queue, run
  <2>3. /\ WorkOK(held, queue, run) => WorkOK(more, Append(queue, m), run)
        /\ \A b, up : BytesOK(b, held, up, queue, run) => BytesOK(b, more, up, Append(queue, m), run)
    BY <2>2, HostSent
  <2> USE DEF held, more, queue, run
  <2>4. WorkAt(h)' BY <1>1, <1>W, <2>1, <2>3 DEF WorkAt, Held
  <2>5. ASSUME h \in fd' PROVE BytesAt(h)'
    <3>1. BytesAt(h) BY <1>2, <1>W, <2>5
    <3>2. BytesOK(bytes[h], held, remote[h] = "up", queue, run) BY <3>1 DEF BytesAt
    <3>3. BytesOK(bytes[h], more, remote[h] = "up", Append(queue, m), run) BY <2>3, <3>2
    <3> QED BY <1>W, <2>1, <3>3, NextAtHost
  <2>6. \A g \in Hosts : g # h => toHost'[g] = toHost[g] BY <1>0, <1>W DEF HostType
  <2>7. fd' \subseteq fd \cup {h} BY <1>W
  <2> QED BY <1>S, <1>W, <2>4, <2>5, <2>6, <2>7
<1>5. ASSUME NEW h \in Hosts, SendToHost(h) PROVE AtHosts'
  <2>1. /\ Message("build") /\ SlotOK /\ slots[NextSlot].host = h /\ loop = "select"
        /\ UNCHANGED <<loop, remote, bytes, running, orphans>>
    BY <1>5 DEF SendToHost, Message
  <2> DEFINE m == Head(toClient)
  <2>2. m \in Messages /\ m.job = Received BY <2>1, MessageType DEF TypeInv, Received
  <2>3. CASE /\ toHost' = [toHost EXCEPT ![h] = Append(@, m)]
             /\ slots' = Taken(0) /\ UNCHANGED fd
    <3>1. m.job \in Held(h, slots') /\ \A g : Held(g, slots) \subseteq Held(g, slots')
      BY <1>T, <2>1, <2>2, <2>3
    <3>2. \A x \in Held(h, slots) : x.id # m.job.id BY <1>N, <2>1, <2>2
    <3>3. loop # "dead" BY <2>1
    <3> HIDE DEF m
    <3> QED BY <1>W, <2>1, <2>2, <2>3, <3>1, <3>2, <3>3
  <2>4. CASE remote[h] = "dead" /\ RBS_Close(h, Taken(0)) /\ UNCHANGED toHost
    <3>1. Taken(0) \in [Slots -> SlotType] BY <2>1, TakenFields
    <3>2. \A g : Held(g, slots) \subseteq Held(g, Taken(0)) BY <1>T, <2>1
    <3>3. UNCHANGED hostVars BY <2>1, <2>4 DEF hostVars
    <3>4. remote[h] # "up" BY <2>4
    <3> DEFINE list == Taken(0)
    <3>5. /\ list \in [Slots -> SlotType] /\ RBS_Close(h, list)
          /\ \A g : Held(g, slots) \subseteq Held(g, list)
      BY <2>4, <3>1, <3>2
    <3> HIDE DEF list
    <3> QED BY <1>C, <2>1, <3>3, <3>4, <3>5
  <2> QED BY <1>5, <2>3, <2>4 DEF SendToHost
<1>6. ASSUME NEW h \in Hosts, AbortRemote(h) PROVE AtHosts'
  <2>1. /\ Message("abort") /\ loop = "select" /\ UNCHANGED <<loop, remote, bytes, running, orphans>>
    BY <1>6 DEF AbortRemote, Message
  <2> DEFINE m == Head(toClient)
  <2>2. m \in Messages /\ m.type = "abort" BY <2>1, MessageType DEF TypeInv, Message
  <2>3. CASE toHost' = [toHost EXCEPT ![h] = Append(@, m)] /\ UNCHANGED <<slots, fd>>
    <3>1. \A g : Held(g, slots) \subseteq Held(g, slots') BY <2>3
    <3>2. loop # "dead" /\ m.type # "build" BY <2>1, <2>2
    <3> HIDE DEF m
    <3> QED BY <1>W, <2>1, <2>2, <2>3, <3>1, <3>2
  <2>4. CASE remote[h] = "dead" /\ RBS_Close(h, slots) /\ UNCHANGED toHost
    <3>1. UNCHANGED hostVars BY <2>1, <2>4 DEF hostVars
    <3> QED BY <1>0, <1>C, <2>1, <2>4, <3>1 DEF ClientType
  <2> QED BY <1>6, <2>3, <2>4 DEF AbortRemote
<1>7. ASSUME NEW h \in Hosts, HostGone(h) PROVE AtHosts'
  <2>1. /\ remote[h] = "dead" /\ RBS_Close(h, slots) /\ UNCHANGED hostVars /\ AtHost(h)
    BY <1>7 DEF HostGone
  <2>2. loop # "dead" BY <1>H, <2>1 DEF AtHost
  <2> QED BY <1>0, <1>C, <2>1, <2>2 DEF ClientType
<1>8. ASSUME NEW h \in Hosts, NEW p \in Pids, HostReaped(h, p) PROVE AtHosts'
  <2>1. remote[h] # "up" BY <1>8, ClosedIsDown
  <2>2. UNCHANGED <<hostVars, loop>> BY <1>8 DEF HostReaped
  <2>3. CASE RBS_Close(h, slots) BY <1>0, <1>C, <2>1, <2>2, <2>3 DEF ClientType
  <2>4. CASE UNCHANGED <<slots, fd>> BY <1>U, <2>2, <2>4 DEF hostVars
  <2> QED BY <1>8, <2>3, <2>4 DEF HostReaped
<1>9. ASSUME NEW p \in Pids, BuildReaped(p) PROVE AtHosts'
  <2>1. /\ SystemWait(p) /\ loop = "reap" /\ UNCHANGED <<fd, remote, toHost, running, bytes>>
    BY <1>9 DEF BuildReaped, SystemWait, hostVars
  <2>2. CASE UNCHANGED slots BY <1>U, <2>1, <2>2
  <2>3. CASE BuildsDone(BuildID_Build(p), slots)
    <3> DEFINE S == BuildID_Build(p)
    <3>1. p # 0 BY <2>1, ChildFacts DEF TypeInv
    <3>2. S \in SUBSET Slots /\ \A i \in S : slots[i].pid = p BY DEF BuildID_Build
    <3>3. \A i \in S : slots[i].job # FreeSlot /\ slots[i].host = Local
      BY <3>1, <3>2 DEF TypeInv, Procs, ProcsOK, Places, Watched, WatchedOK
    <3>4. BuildsDone(S, slots) BY <2>3
    <3> HIDE DEF S
    <3>5. ASSUME NEW g \in Hosts PROVE Held(g, slots) \subseteq Held(g, slots')
      <4>1. g # Local BY DEF BuildsAssumption
      <4>2. \A i \in S : slots[i].host # g BY <3>3, <4>1
      <4> QED BY <1>0, <3>2, <3>3, <3>4, <4>2, OthersHeld DEF ClientType
    <3>6. \A g \in Hosts : WorkAt(g)' /\ (BytesAt(g) => BytesAt(g)')
      BY <1>1, <2>1, <3>5, HostStays
    <3> QED BY <1>2, <1>F, <2>1, <3>6 DEF AtHosts
  <2> QED BY <1>9, <2>2, <2>3 DEF BuildReaped, Dies
<1>10. ASSUME NEW h \in Hosts, GetAnswer(h) PROVE AtHosts'
  <2> DEFINE id == ReadID(bytes[h])
  <2>1. UNCHANGED <<fd, remote, toHost, running>> /\ AtHost(h)
    BY <1>10 DEF GetAnswer
  <2>2. loop # "dead" BY <1>H, <2>1 DEF AtHost
  <2>3. CASE UNCHANGED <<bytes, slots>> BY <1>U, <2>1, <2>2, <2>3
  <2>4. CASE /\ ~(Len(bytes[h]) < AnswerBytes)
             /\ bytes' = [bytes EXCEPT ![h] = SubSeq(@, AnswerBytes + 1, Len(@))]
             /\ Dies
    <3>1. UNCHANGED slots /\ loop' = "dead" BY <2>4 DEF Dies
    <3>2. WorkAt(h)'
      <4>1. remote[h] = "up" => WorkOK(Held(h, slots), toHost[h], running[h])
        BY <1>1 DEF WorkAt
      <4>2. UNCHANGED <<slots, remote, toHost, running>> BY <2>1, <3>1
      <4> QED BY <4>1, <4>2, NextAtHost
    <3>3. \A g \in Hosts : g # h => /\ remote'[g] = remote[g] /\ toHost'[g] = toHost[g]
                                    /\ running'[g] = running[g] /\ bytes'[g] = bytes[g]
                                    /\ Held(g, slots) \subseteq Held(g, slots')
      BY <1>0, <2>1, <2>4, <3>1 DEF HostType
    <3> QED BY <1>S, <2>1, <3>1, <3>2, <3>3
  <2>5. CASE /\ ~(Len(bytes[h]) < AnswerBytes) /\ id # 0
             /\ bytes' = [bytes EXCEPT ![h] = SubSeq(@, AnswerBytes + 1, Len(@))]
             /\ BuildsDone(JobID_Build(id), slots)
    <3> DEFINE rest == SubSeq(bytes[h], AnswerBytes + 1, Len(bytes[h]))
    <3>1. PICK i \in Slots :
            /\ JobID_Build(id) = {i} /\ slots[i].host = h /\ slots[i].job # FreeSlot
            /\ remote[h] = "up" => /\ \A y \in running[h] : y.id # id
                                   /\ \A m \in Builds(toHost[h]) : toHost[h][m].job.id # id
            /\ \A left : {y \in Held(h, slots) : y.id # id} \subseteq left =>
                 BytesOK(rest, left, remote[h] = "up", toHost[h], running[h])
      BY <2>1, <2>5, AnswerSlot
    <3>2. slots[i].job.id = id
      <4>1. i \in JobID_Build(id) BY <3>1
      <4> QED BY <4>1 DEF JobID_Build
    <3> DEFINE S == {i}
    <3>3. BuildsDone(S, slots) /\ S \in SUBSET Slots BY <2>5, <3>1
    <3>4. \A k \in S : slots[k].job # FreeSlot /\ slots[k].host = h /\ slots[k].job.id = id
      BY <3>1, <3>2
    <3>5. bytes'[h] = rest BY <1>0, <2>5 DEF HostType
    <3> HIDE DEF id, S, rest
    <3>6. {y \in Held(h, slots) : y.id # id} \subseteq Held(h, slots')
      <4>1. \A k \in S : slots[k].host = h => slots[k].job.id \in {id} BY <3>4
      <4>2. {y \in Held(h, slots) : y.id \notin {id}} \subseteq Held(h, slots')
        BY <1>0, <3>3, <3>4, <4>1, DoneHeld, Zenon DEF ClientType
      <4> QED BY <4>2
    <3>7. ASSUME NEW g \in Hosts, g # h PROVE Held(g, slots) \subseteq Held(g, slots')
      <4>1. \A k \in S : slots[k].job # FreeSlot /\ slots[k].host # g BY <3>4, <3>7
      <4> QED BY <1>0, <3>3, <4>1, OthersHeld DEF ClientType
    <3>8. WorkAt(h)'
      <4> SUFFICES ASSUME remote[h] = "up"
                   PROVE  WorkOK(Held(h, slots'), toHost[h], running[h])
        BY <2>1 DEF WorkAt, Held
      <4>1. WorkOK(Held(h, slots), toHost[h], running[h]) BY <1>1 DEF WorkAt
      <4>2. \A y \in running[h] : y \in Held(h, slots') BY <3>1, <3>6, <4>1 DEF WorkOK
      <4>3. \A m \in Builds(toHost[h]) : toHost[h][m].job \in Held(h, slots')
        BY <3>1, <3>6, <4>1 DEF WorkOK
      <4> QED BY <4>1, <4>2, <4>3 DEF WorkOK
    <3>9. BytesAt(h)'
      <4>1. BytesOK(rest, Held(h, slots'), remote[h] = "up", toHost[h], running[h])
        BY <3>1, <3>6
      <4> QED BY <2>1, <3>5, <4>1 DEF BytesAt, Held
    <3>10. \A g \in Hosts : g # h => bytes'[g] = bytes[g] BY <1>0, <2>5 DEF HostType
    <3>11. fd' \subseteq fd \cup {h} BY <2>1
    <3> QED BY <1>S, <2>1, <2>2, <3>7, <3>8, <3>9, <3>10, <3>11
  <2> QED BY <1>10, <2>3, <2>4, <2>5 DEF GetAnswer
<1>11. ASSUME NEW h \in Hosts, HostBuild(h) \/ HostAbort(h) PROVE AtHosts'
  <2>1. /\ remote[h] = "up" /\ toHost[h] # <<>>
        /\ toHost' = [toHost EXCEPT ![h] = Tail(@)]
        /\ UNCHANGED <<slots, fd, loop, remote, bytes>>
    BY <1>11 DEF HostBuild, HostAbort, HostMessage, clientVars
  <2> DEFINE held == Held(h, slots)
             queue == toHost[h]
             run == running[h]
             more == running'[h]
  <2>2. /\ \A g \in Hosts : g # h => running'[g] = running[g]
        /\ \A x \in more : x \in run \/ (Head(queue).type = "build" /\ x = Head(queue).job)
    BY <1>0, <1>11 DEF HostBuild, HostAbort, HostMessage, HostType
  <2>3. queue \in Seq(Messages) /\ toHost'[h] = Tail(queue) BY <1>0, <2>1 DEF HostType
  <2>4. queue # <<>> BY <2>1
  <2> HIDE DEF held, queue, run, more
  <2>5. /\ WorkOK(held, queue, run) => WorkOK(held, Tail(queue), more)
        /\ \A b, up : BytesOK(b, held, up, queue, run) => BytesOK(b, held, up, Tail(queue), more)
    BY <2>2, <2>3, <2>4, HostReads
  <2> USE DEF held, queue, run, more
  <2>6. WorkAt(h)'
    <3>1. WorkOK(held, queue, run) BY <1>1, <2>1 DEF WorkAt
    <3>2. WorkOK(held, Tail(queue), more) BY <2>5, <3>1
    <3> QED BY <2>1, <2>3, <3>2, NextAtHost
  <2>7. ASSUME h \in fd', loop' # "dead" PROVE BytesAt(h)'
    <3>1. BytesAt(h) BY <1>2, <2>1, <2>7
    <3>2. BytesOK(bytes[h], held, remote[h] = "up", queue, run) BY <3>1 DEF BytesAt
    <3>3. BytesOK(bytes[h], held, remote[h] = "up", Tail(queue), more) BY <2>5, <3>2
    <3> QED BY <2>1, <2>3, <3>3, NextAtHost
  <2>8. \A g \in Hosts : g # h => /\ toHost'[g] = toHost[g]
                                  /\ Held(g, slots) \subseteq Held(g, slots')
    BY <1>0, <2>1 DEF HostType
  <2>9. fd' \subseteq fd \cup {h} BY <2>1
  <2> QED BY <1>S, <2>1, <2>2, <2>6, <2>7, <2>8, <2>9
<1>12. ASSUME NEW h \in Hosts, NEW b \in Jobs, HostBuildEnd(h, b) PROVE AtHosts'
  <2>1. PICK a \in {0, 1} : HostBuildEnds(h, b, a) BY <1>12 DEF HostBuildEnd
  <2>2. /\ remote[h] = "up" /\ b \in running[h]
        /\ running' = [running EXCEPT ![h] = @ \ {b}]
        /\ bytes' = [bytes EXCEPT ![h] = @ \o IntBytes(b.id) \o IntBytes(a)]
        /\ UNCHANGED <<slots, fd, loop, remote, toHost>>
    BY <2>1 DEF HostBuildEnds, clientVars
  <2> DEFINE S == 0..255
             held == Held(h, slots)
             queue == toHost[h]
             run == running[h]
             old == bytes[h]
  <2>3. old \in Seq(S) /\ run \in SUBSET Jobs /\ b \in run BY <1>0, <2>2 DEF HostType
  <2>4. b.id \in S /\ a \in S /\ 0 \in S
    <3>1. b.id \in JobIDs BY DEF Jobs
    <3>2. JobIDs \subseteq 0..255 BY SMT DEF BuildsAssumption
    <3>3. a \in 0..255 /\ 0 \in 0..255 BY SMT
    <3> QED BY <3>1, <3>2, <3>3
  <2>5. WorkOK(held, queue, run) BY <1>1, <2>2 DEF WorkAt
  <2>6. running'[h] = run \ {b} /\ bytes'[h] = old \o IntBytes(b.id) \o IntBytes(a)
    BY <1>0, <2>2 DEF HostType
  <2> HIDE DEF S, held, queue, run, old
  <2>7. /\ WorkOK(held, queue, run \ {b})
        /\ BytesOK(old, held, TRUE, queue, run) =>
             BytesOK(old \o IntBytes(b.id) \o IntBytes(a), held, TRUE, queue, run \ {b})
    BY <2>3, <2>4, <2>5, HostEnded
  <2> USE DEF held, queue, run, old
  <2>8. WorkAt(h)'
    <3>1. WorkOK(held, queue, run \ {b}) BY <2>7
    <3>2. Held(h, slots') = held /\ toHost'[h] = queue BY <2>2
    <3> QED BY <2>6, <3>1, <3>2, NextAtHost
  <2>9. h \in fd' /\ loop' # "dead" => BytesAt(h)'
    <3>1. ASSUME h \in fd', loop' # "dead" PROVE BytesAt(h)'
      <4>1. BytesAt(h) BY <1>2, <2>2, <3>1
      <4>2. remote[h] = "up" <=> TRUE BY <2>2
      <4>3. BytesOK(old, held, TRUE, queue, run) BY <4>1, <4>2 DEF BytesAt, BytesOK, Framed, EndedOK
      <4>4. BytesOK(bytes'[h], held, TRUE, queue, running'[h]) BY <2>6, <2>7, <4>3
      <4>5. BytesOK(bytes'[h], held, remote[h] = "up", queue, running'[h])
        BY <4>2, <4>4 DEF BytesOK, Framed, EndedOK
      <4> QED BY <2>2, <4>5 DEF BytesAt, Held
    <3> QED BY <3>1
  <2>10. \A g \in Hosts : g # h => /\ running'[g] = running[g] /\ bytes'[g] = bytes[g]
                                   /\ Held(g, slots) \subseteq Held(g, slots')
    BY <1>0, <2>2 DEF HostType
  <2>11. fd' \subseteq fd \cup {h} BY <2>2
  <2> QED BY <1>S, <2>2, <2>8, <2>9, <2>10, <2>11
<1>13. ASSUME NEW h \in Hosts, HostDies(h) PROVE AtHosts'
  <2>1. /\ remote[h] = "up" /\ remote' = [remote EXCEPT ![h] = "dead"]
        /\ running' = [running EXCEPT ![h] = {}] /\ toHost' = [toHost EXCEPT ![h] = <<>>]
        /\ UNCHANGED <<slots, fd, loop>>
    BY <1>13 DEF HostDies
  <2> DEFINE S == 0..255
             old == bytes[h]
             after == bytes'[h]
  <2>2. /\ after = old \/ after = <<>> \/ (old # <<>> /\ after = SubSeq(old, 1, Len(old) - 4))
        /\ \A g \in Hosts : g # h => bytes'[g] = bytes[g]
    BY <1>0, <1>13 DEF HostDies, HostType
  <2>3. old \in Seq(S) BY <1>0 DEF HostType
  <2>4. remote'[h] = "dead" /\ \A g \in Hosts : g # h => remote'[g] = remote[g]
    BY <1>0, <2>1 DEF HostType
  <2>5. WorkAt(h)' BY <2>4 DEF WorkAt
  <2>6. h \in fd' /\ loop' # "dead" => BytesAt(h)'
    <3>1. ASSUME h \in fd', loop' # "dead" PROVE BytesAt(h)'
      <4> DEFINE held == Held(h, slots)
      <4>1. BytesAt(h) BY <1>2, <2>1, <3>1
      <4>2. remote[h] = "up" <=> TRUE BY <2>1
      <4>3. BytesOK(old, held, TRUE, toHost[h], running[h])
        BY <4>1, <4>2 DEF BytesAt, BytesOK, Framed, EndedOK
      <4> HIDE DEF S, old, after
      <4>4. BytesOK(after, held, FALSE, toHost'[h], running'[h]) BY <2>2, <2>3, <4>3, HostLost
      <4>5. remote'[h] = "up" <=> FALSE BY <2>4
      <4>6. BytesOK(after, held, remote'[h] = "up", toHost'[h], running'[h])
        BY <4>4, <4>5 DEF BytesOK, Framed, EndedOK
      <4> QED BY <2>1, <4>6 DEF BytesAt, Held, after
    <3> QED BY <3>1
  <2>7. \A g \in Hosts : g # h => /\ toHost'[g] = toHost[g] /\ running'[g] = running[g]
                                  /\ Held(g, slots) \subseteq Held(g, slots')
    BY <1>0, <2>1 DEF HostType
  <2>8. fd' \subseteq fd \cup {h} BY <2>1
  <2> QED BY <1>S, <2>1, <2>2, <2>4, <2>5, <2>6, <2>7, <2>8
\* Nothing that a slot or a host has changes.
<1>14. ASSUME UNCHANGED <<slots, fd, remote, toHost, running, bytes>>, loop = "dead" => loop' = "dead"
       PROVE  AtHosts'
  <2>1. \A g : Held(g, slots) \subseteq Held(g, slots') BY <1>14
  <2> QED BY <1>14, <1>U, <2>1
<1>15. ASSUME AbortEnded \/ AbortLocal \/ ChildAction \/ ChildActionEnds \/ ReadAnswer \/ UNCHANGED vars
       PROVE  AtHosts'
  BY <1>14, <1>15 DEF AbortEnded, AbortLocal, ChildAction, ChildActionEnds, ReadAnswer,
                      clientVars, hostVars, vars
<1>16. ASSUME NEW j \in JobIDs, SendBuild(j) \/ SendAbort(j) PROVE AtHosts'
  BY <1>14, <1>16 DEF SendBuild, SendAbort, clientVars, hostVars
<1>17. ASSUME NEW p \in Pids, ChildEnds(p) PROVE AtHosts'
  BY <1>14, <1>17 DEF ChildEnds, hostVars
<1> QED
  <2>1. CASE Client BY <2>1, <1>3, <1>4, <1>5, <1>6, <1>7, <1>8, <1>9, <1>10, <1>15 DEF Client
  <2> QED BY <2>1, <1>11, <1>12, <1>13, <1>15, <1>16, <1>17 DEF Next

-----------------------------------------------------------------------------
(* No two builds have a number.                                              *)

Numbers ==
  /\ \A j \in JobIDs : issued[j] <= sent
  /\ \A j, k \in JobIDs : issued[j] = issued[k] /\ issued[j] # 0 => j = k

LEMMA NumbersStep ==
  ASSUME BuildsAssumption, TypeInv, Own, Numbers, [Next]_vars
  PROVE  Numbers'
<1>0. issued \in [JobIDs -> 0..MaxJobNum] /\ sent \in 0..MaxJobNum /\ MaxJobNum \in Nat
  BY DEF TypeInv, TypeOK, BuildsAssumption
<1>1. ASSUME NEW j \in JobIDs, SendBuild(j) PROVE Numbers'
  <2>1. sent' = sent + 1 /\ issued' = [issued EXCEPT ![j] = sent + 1]
    BY <1>1 DEF SendBuild
  <2>2. sent \in Int /\ \A k \in JobIDs : issued[k] \in Int /\ issued[k] <= sent
    BY <1>0, SMT DEF Numbers
  <2>3. issued'[j] = sent + 1 /\ \A k \in JobIDs : k # j => issued'[k] = issued[k]
    BY <1>0, <2>1
  <2>4. ASSUME NEW k \in JobIDs PROVE issued'[k] <= sent' BY <2>1, <2>2, <2>3, SMT
  <2>5. \A k \in JobIDs : k # j => issued'[k] # sent + 1
    <3>1. \A k \in JobIDs : issued[k] # sent + 1 BY <2>2, SMT
    <3> QED BY <2>3, <3>1
  <2>6. ASSUME NEW i \in JobIDs, NEW k \in JobIDs, issued'[i] = issued'[k], issued'[i] # 0
        PROVE  i = k
    BY <2>3, <2>5, <2>6 DEF Numbers
  <2> QED BY <2>4, <2>6 DEF Numbers
<1>2. ASSUME ReadAnswer PROVE Numbers'
  <2>1. UNCHANGED sent /\ issued' = [issued EXCEPT ![Head(toServer).id] = 0]
    BY <1>2 DEF ReadAnswer
  <2>2. \A k \in JobIDs : issued'[k] = 0 \/ issued'[k] = issued[k] BY <1>0, <2>1
  <2>3. 0 <= sent BY <1>0, SMT
  <2>4. \A k \in JobIDs : issued'[k] <= sent' BY <2>1, <2>2, <2>3 DEF Numbers
  <2>5. \A i, k \in JobIDs : issued'[i] = issued'[k] /\ issued'[i] # 0 => i = k
    BY <2>2 DEF Numbers
  <2> QED BY <2>4, <2>5 DEF Numbers
<1>3. ASSUME UNCHANGED <<issued, sent>> PROVE Numbers' BY <1>3 DEF Numbers
<1>4. ASSUME NEW j \in JobIDs, SendAbort(j) PROVE Numbers' BY <1>3, <1>4 DEF SendAbort
<1>5. CASE UNCHANGED vars BY <1>3, <1>5 DEF vars, serverVars
<1>6. CASE Client
  BY <1>3, <1>6 DEF Client, AbortEnded, AbortLocal, ChildAction, ChildActionEnds, StartLocal,
     BuildReaped, SendToHost, AbortRemote, GetAnswer, HostGone, StartHost, HostReaped, serverVars
<1>7. ASSUME NEW p \in Pids, ChildEnds(p) PROVE Numbers'
  BY <1>3, <1>7 DEF ChildEnds, serverVars
<1>8. ASSUME NEW h \in Hosts, HostBuild(h) \/ HostAbort(h) \/ HostDies(h) PROVE Numbers'
  BY <1>3, <1>8 DEF HostBuild, HostAbort, HostDies, serverVars
<1>9. ASSUME NEW h \in Hosts, NEW b \in Jobs, HostBuildEnd(h, b) PROVE Numbers'
  BY <1>3, <1>9 DEF HostBuildEnd, HostBuildEnds, serverVars
<1> QED BY <1>1, <1>2, <1>4, <1>5, <1>6, <1>7, <1>8, <1>9 DEF Next

-----------------------------------------------------------------------------
(* A host whose server is not up runs nothing: what it ran are orphans.      *)

Idle == \A h \in Hosts : remote[h] # "up" => running[h] = {}

LEMMA IdleStep ==
  ASSUME BuildsAssumption, TypeInv, Idle, [Next]_vars
  PROVE  Idle'
<1>0. /\ remote \in [Hosts -> {"none", "up", "dead"}] /\ running \in [Hosts -> SUBSET Jobs]
  BY TypeParts DEF TypeInv, HostType
<1>1. ASSUME UNCHANGED <<remote, running>> PROVE Idle' BY <1>1 DEF Idle
<1>2. ASSUME NEW h \in Hosts, NEW p \in Pids, StartHost(h, p) PROVE Idle'
  <2>1. remote' = [remote EXCEPT ![h] = "up"] /\ running' = [running EXCEPT ![h] = {}]
    BY <1>2 DEF StartHost
  <2> QED BY <1>0, <2>1 DEF Idle
<1>3. ASSUME NEW h \in Hosts, HostDies(h) PROVE Idle'
  <2>1. remote' = [remote EXCEPT ![h] = "dead"] /\ running' = [running EXCEPT ![h] = {}]
    BY <1>3 DEF HostDies
  <2> QED BY <1>0, <2>1 DEF Idle
<1>4. ASSUME NEW h \in Hosts, remote[h] = "up", UNCHANGED remote,
             \A g \in Hosts : g # h => running'[g] = running[g]
      PROVE  Idle'
  BY <1>4 DEF Idle
<1>5. ASSUME NEW h \in Hosts, HostBuild(h) PROVE Idle'
  <2>1. /\ remote[h] = "up" /\ UNCHANGED remote
        /\ running' = [running EXCEPT ![h] = @ \cup {Head(toHost[h]).job}]
    BY <1>5 DEF HostBuild, HostMessage
  <2> QED BY <1>0, <1>4, <2>1
<1>6. ASSUME NEW h \in Hosts, NEW b \in Jobs, HostBuildEnd(h, b) PROVE Idle'
  <2>1. remote[h] = "up" /\ UNCHANGED remote /\ running' = [running EXCEPT ![h] = @ \ {b}]
    BY <1>6 DEF HostBuildEnd, HostBuildEnds
  <2> QED BY <1>0, <1>4, <2>1
<1>7. ASSUME Client PROVE Idle'
  <2>1. ASSUME \A h \in Hosts, p \in Pids : ~StartHost(h, p) PROVE UNCHANGED <<remote, running>>
    BY <1>7, <2>1 DEF Client, AbortEnded, AbortLocal, ChildAction, ChildActionEnds, StartLocal,
       BuildReaped, SendToHost, AbortRemote, GetAnswer, HostGone, HostReaped, hostVars
  <2> QED BY <1>1, <1>2, <2>1
<1>8. ASSUME NEW j \in JobIDs, SendBuild(j) \/ SendAbort(j) PROVE Idle'
  BY <1>1, <1>8 DEF SendBuild, SendAbort, hostVars
<1>9. ASSUME ReadAnswer \/ UNCHANGED vars PROVE Idle'
  BY <1>1, <1>9 DEF ReadAnswer, hostVars, vars
<1>10. ASSUME NEW p \in Pids, ChildEnds(p) PROVE Idle' BY <1>1, <1>10 DEF ChildEnds, hostVars
<1>11. ASSUME NEW h \in Hosts, HostAbort(h) PROVE Idle' BY <1>1, <1>11 DEF HostAbort
<1> QED BY <1>3, <1>5, <1>6, <1>7, <1>8, <1>9, <1>10, <1>11 DEF Next

\* The build of a slot is unanswered.
LEMMA SlotUnanswered ==
  ASSUME BuildsAssumption, TypeInv, Own, Numbers, NEW i \in Slots, slots[i].job # FreeSlot
  PROVE  slots[i].job.n \in Unanswered
<1>1. slots[i].job \in Jobs BY DEF TypeInv, TypeOK
<1>2. /\ slots[i].job.id \in JobIDs /\ slots[i].job.n # 0
      /\ issued[slots[i].job.id] = slots[i].job.n
  BY <1>1, JobFacts DEF Own, OwnOK
<1>3. ASSUME NEW k \in DOMAIN toServer, toServer[k].n = slots[i].job.n PROVE FALSE
  <2>1. toServer[k] \in Jobs
    BY LenProperties, ElementOfSeq DEF TypeInv, TypeOK
  <2>2. toServer[k].id \in JobIDs /\ issued[toServer[k].id] = toServer[k].n
    BY <2>1, JobFacts DEF Own, OwnOK
  <2>3. toServer[k].id = slots[i].job.id BY <1>2, <1>3, <2>2 DEF Numbers
  <2> QED BY <2>3 DEF Own, OwnOK
<1> QED BY <1>2, <1>3 DEF Unanswered

LEMMA OverWhenAnswered ==
  ASSUME BuildsAssumption, TypeInv, Own, Places, Numbers, Idle
  PROVE  AnsweredIsOver
<1>1. ASSUME NEW p \in Pids, proc[p].state = "runs" PROVE proc[p].n \in Unanswered \cup {0}
  <2>1. CASE proc[p].n # 0
    <3>1. PICK i \in Slots : slots[i].pid = p BY <1>1, <2>1 DEF Places, Watched, WatchedOK
    <3>2. p # 0 BY SMT DEF BuildsAssumption
    <3>3. slots[i].job # FreeSlot /\ proc[p].n = slots[i].job.n
      BY <3>1, <3>2 DEF TypeInv, Procs, ProcsOK
    <3> QED BY <3>3, SlotUnanswered
  <2> QED BY <2>1
<1>2. ASSUME NEW h \in Hosts, NEW x \in Held(h, slots) PROVE x.n \in Unanswered
  <2>1. PICK i \in Slots : slots[i].job # FreeSlot /\ x = slots[i].job BY Zenon DEF Held
  <2> QED BY <2>1, SlotUnanswered
<1>3. ASSUME NEW h \in Hosts, remote[h] = "up"
      PROVE  /\ \A b \in running[h] : b.n \in Unanswered
             /\ \A i \in Builds(toHost[h]) : toHost[h][i].job.n \in Unanswered
  <2>1. WorkOK(Held(h, slots), toHost[h], running[h])
    BY <1>3 DEF Places, AtHosts, WorkAt
  <2>2. /\ \A b \in running[h] : b \in Held(h, slots)
        /\ \A i \in Builds(toHost[h]) : toHost[h][i].job \in Held(h, slots)
    BY <2>1 DEF WorkOK
  <2> QED BY <1>2, <2>2
<1>4. ASSUME NEW h \in Hosts, remote[h] # "up" PROVE running[h] = {} BY <1>4 DEF Idle
<1> QED BY <1>1, <1>3, <1>4 DEF AnsweredIsOver

LEMMA InitPlaces == BuildsAssumption /\ HostsAssumption /\ Init => Places /\ Numbers /\ Idle
<1> SUFFICES ASSUME BuildsAssumption, HostsAssumption, Init PROVE Places /\ Numbers /\ Idle
  OBVIOUS
<1>1. PICK layout \in Layouts :
        slots = [i \in Slots |-> [host |-> layout[i], job |-> FreeSlot, pid |-> 0]]
  BY DEF Init
<1>2. Watched BY <1>1 DEF Init, Watched, WatchedOK
<1>3. Connected BY DEF Init, Connected, HostsAssumption
<1>4. AtHosts BY DEF Init, AtHosts, WorkAt
<1>5. Numbers BY SMT DEF Init, Numbers
<1>6. Idle BY DEF Init, Idle
<1> QED BY <1>2, <1>3, <1>4, <1>5, <1>6 DEF Places

PlacesInv == TypeInv /\ Own /\ Places /\ Numbers /\ Idle

LEMMA PlacesInvariant == Spec => []PlacesInv
<1>1. Init => PlacesInv
  BY InitTypes, InitOwn, InitPlaces, BuildsAssumption, HostsAssumption DEF PlacesInv
<1>2. PlacesInv /\ [Next]_vars => PlacesInv'
  <2> SUFFICES ASSUME PlacesInv, [Next]_vars PROVE PlacesInv' OBVIOUS
  <2>1. TypeInv /\ Own /\ Places /\ Numbers /\ Idle BY DEF PlacesInv
  <2>2. TypeInv' /\ Own' BY <2>1, TypeStep, ServiceStep, BuildsAssumption
  <2>3. Watched' BY <2>1, WatchedStep, BuildsAssumption, HostsAssumption
  <2>4. Connected' BY <2>1, ConnectedStep, BuildsAssumption, HostsAssumption
  <2>5. AtHosts' BY <2>1, AtHostsStep, BuildsAssumption, HostsAssumption
  <2>6. Numbers' BY <2>1, NumbersStep, BuildsAssumption
  <2>7. Idle' BY <2>1, IdleStep, BuildsAssumption
  <2> QED BY <2>2, <2>3, <2>4, <2>5, <2>6, <2>7 DEF PlacesInv, Places
<1> QED BY <1>1, <1>2, PTL DEF Spec

\* The directory of a build that was answered is free, whatever width the client
\* gives bool: no process of the client and no remote build server works on it, or
\* will.  The tool of a build whose remote build server ended under it may run on.
THEOREM AnsweredBuildsOver == Spec => []AnsweredIsOver
<1>1. PlacesInv => AnsweredIsOver BY OverWhenAnswered, BuildsAssumption DEF PlacesInv
<1> QED BY <1>1, PlacesInvariant, PTL

-----------------------------------------------------------------------------
(* An abort and the builds it may meet: those queued before it and those at  *)
(* the place the queue leads to that have its JobID are the build it is for. *)
(* A build queued after it may be the next one in the same directory.        *)

AbortsOK(ab, queue, have) ==
  /\ \A k \in Aborts(queue) : queue[k].job.n \in ab
  /\ \A k \in Aborts(queue), i \in Builds(queue) :
       i < k /\ queue[i].job.id = queue[k].job.id => queue[i].job.n = queue[k].job.n
  /\ \A k \in Aborts(queue), x \in have :
       x.id = queue[k].job.id => x.n = queue[k].job.n

InSlots(list) == {list[i].job : i \in {k \in Slots : list[k].job # FreeSlot}}

LEMMA TailAborts ==
  ASSUME NEW queue \in Seq(Messages), queue # <<>>
  PROVE  /\ \A k \in Aborts(Tail(queue)) :
              k + 1 \in Aborts(queue) /\ 1 < k + 1 /\ Tail(queue)[k] = queue[k + 1]
         /\ \A k \in Aborts(Tail(queue)), i \in Builds(Tail(queue)) : i < k => i + 1 < k + 1
         /\ Head(queue).type = "abort" => 1 \in Aborts(queue) /\ Head(queue) = queue[1]
<1>1. /\ Tail(queue) \in Seq(Messages) /\ Len(Tail(queue)) = Len(queue) - 1
      /\ \A i \in 1..Len(Tail(queue)) : Tail(queue)[i] = queue[i + 1]
  BY HeadTailProperties
<1>2. Len(queue) \in Nat \ {0} BY EmptySeq
<1>3. DOMAIN queue = 1..Len(queue) /\ DOMAIN Tail(queue) = 1..Len(Tail(queue))
  BY <1>1, LenProperties
<1>4. ASSUME NEW k \in Aborts(Tail(queue))
      PROVE  k \in Nat /\ k + 1 \in Aborts(queue) /\ 1 < k + 1 /\ Tail(queue)[k] = queue[k + 1]
  <2>1. k \in 1..(Len(queue) - 1) /\ Tail(queue)[k].type = "abort"
    BY <1>1, <1>3 DEF Aborts
  <2>2. k + 1 \in 1..Len(queue) /\ k \in Nat /\ 1 < k + 1 BY <1>2, <2>1, SMT
  <2>3. Tail(queue)[k] = queue[k + 1] BY <1>1, <2>1
  <2> QED BY <1>3, <2>1, <2>2, <2>3 DEF Aborts
<1>5. ASSUME NEW k \in Aborts(Tail(queue)), NEW i \in Builds(Tail(queue)), i < k
      PROVE  i + 1 < k + 1
  <2>1. i \in 1..(Len(queue) - 1) BY <1>1, <1>3 DEF Builds
  <2>2. i \in Nat /\ k \in Nat BY <1>2, <1>4, <2>1, SMT
  <2> QED BY <1>5, <2>2, SMT
<1>6. Head(queue) = queue[1] BY SMT
<1>7. 1 \in DOMAIN queue BY <1>2, <1>3, SMT
<1> QED BY <1>4, <1>5, <1>6, <1>7 DEF Aborts

LEMMA AppendAborts ==
  ASSUME NEW queue \in Seq(Messages), NEW m \in Messages
  PROVE  /\ \A k \in Aborts(Append(queue, m)) :
              \/ k \in Aborts(queue) /\ Append(queue, m)[k] = queue[k]
              \/ k = Len(queue) + 1 /\ Append(queue, m)[k] = m /\ m.type = "abort"
         /\ \A k \in Aborts(queue) : ~(Len(queue) + 1 < k)
         /\ ~(Len(queue) + 1 < Len(queue) + 1)
<1>1. /\ Append(queue, m) \in Seq(Messages) /\ Len(Append(queue, m)) = Len(queue) + 1
      /\ \A i \in 1..Len(queue) : Append(queue, m)[i] = queue[i]
      /\ Append(queue, m)[Len(queue) + 1] = m
  BY AppendProperties
<1>2. Len(queue) \in Nat /\ DOMAIN queue = 1..Len(queue) BY LenProperties
<1> DEFINE longer == Append(queue, m)
<1>3. ASSUME NEW k \in Aborts(longer)
      PROVE  \/ k \in Aborts(queue) /\ longer[k] = queue[k]
             \/ k = Len(queue) + 1 /\ longer[k] = m /\ m.type = "abort"
  <2> HIDE DEF longer
  <2>1. k \in 1..(Len(queue) + 1) /\ longer[k].type = "abort"
    BY <1>1, LenProperties DEF Aborts, longer
  <2>2. k \in 1..Len(queue) \/ k = Len(queue) + 1 BY <1>2, <2>1, SMT
  <2> QED BY <1>1, <1>2, <2>1, <2>2 DEF Aborts, longer
<1>4. ASSUME NEW k \in Aborts(queue) PROVE ~(Len(queue) + 1 < k)
  <2>1. k \in 1..Len(queue) BY <1>2 DEF Aborts
  <2> QED BY <1>2, <2>1, SMT
<1>5. ~(Len(queue) + 1 < Len(queue) + 1) BY <1>2, SMT
<1> QED BY <1>3, <1>4, <1>5

\* The first message is read; a build moves on to where the queue leads.
LEMMA AbortsTail ==
  ASSUME NEW ab, NEW queue \in Seq(Messages), queue # <<>>, NEW have, NEW more,
         \A x \in more : x \in have \/ (Head(queue).type = "build" /\ x = Head(queue).job),
         AbortsOK(ab, queue, have)
  PROVE  AbortsOK(ab, Tail(queue), more)
<1> DEFINE rest == Tail(queue)
<1>1. /\ \A k \in Aborts(rest) : k + 1 \in Aborts(queue) /\ 1 < k + 1 /\ rest[k] = queue[k + 1]
      /\ \A k \in Aborts(rest), i \in Builds(rest) : i < k => i + 1 < k + 1
  BY TailAborts
<1>2. /\ \A i \in Builds(rest) : i + 1 \in Builds(queue) /\ rest[i] = queue[i + 1]
      /\ Head(queue).type = "build" => 1 \in Builds(queue) /\ Head(queue) = queue[1]
  BY TailBuilds
<1> HIDE DEF rest
<1>3. \A k \in Aborts(rest) : rest[k].job.n \in ab BY <1>1 DEF AbortsOK
<1>4. ASSUME NEW k \in Aborts(rest), NEW i \in Builds(rest), i < k,
             rest[i].job.id = rest[k].job.id
      PROVE  rest[i].job.n = rest[k].job.n
  BY <1>1, <1>2, <1>4 DEF AbortsOK
<1>5. ASSUME NEW k \in Aborts(rest), NEW x \in more, x.id = rest[k].job.id
      PROVE  x.n = rest[k].job.n
  <2>1. CASE x \in have BY <1>1, <1>5, <2>1 DEF AbortsOK
  <2>2. CASE 1 \in Builds(queue) /\ x = queue[1].job BY <1>1, <1>5, <2>2 DEF AbortsOK
  <2> QED BY <1>2, <2>1, <2>2
<1>6. AbortsOK(ab, rest, more) BY <1>3, <1>4, <1>5 DEF AbortsOK
<1> QED BY <1>6 DEF rest

\* A message is sent.  An abort is for the build of its JobID that is queued,
\* or where the queue leads.
LEMMA AbortsAppend ==
  ASSUME NEW ab, NEW more, ab \subseteq more, NEW queue \in Seq(Messages), NEW have,
         NEW m \in Messages, AbortsOK(ab, queue, have),
         m.type = "abort" =>
           /\ m.job.n \in more
           /\ \A i \in Builds(queue) : queue[i].job.id = m.job.id => queue[i].job.n = m.job.n
           /\ \A x \in have : x.id = m.job.id => x.n = m.job.n
  PROVE  AbortsOK(more, Append(queue, m), have)
<1> DEFINE longer == Append(queue, m)
<1>1. /\ \A k \in Aborts(longer) : \/ k \in Aborts(queue) /\ longer[k] = queue[k]
                                   \/ k = Len(queue) + 1 /\ longer[k] = m /\ m.type = "abort"
      /\ \A k \in Aborts(queue) : ~(Len(queue) + 1 < k)
      /\ ~(Len(queue) + 1 < Len(queue) + 1)
  BY AppendAborts
<1>2. \A k \in Builds(longer) : \/ k \in Builds(queue) /\ longer[k] = queue[k]
                                \/ k = Len(queue) + 1 /\ longer[k] = m /\ m.type = "build"
  BY AppendBuilds
<1> HIDE DEF longer
<1>3. \A k \in Aborts(longer) : longer[k].job.n \in more BY <1>1 DEF AbortsOK
<1>4. ASSUME NEW k \in Aborts(longer), NEW i \in Builds(longer), i < k,
             longer[i].job.id = longer[k].job.id
      PROVE  longer[i].job.n = longer[k].job.n
  <2>1. i \in Builds(queue) /\ longer[i] = queue[i] BY <1>1, <1>2, <1>4
  <2>2. CASE k \in Aborts(queue) /\ longer[k] = queue[k] BY <1>4, <2>1, <2>2 DEF AbortsOK
  <2>3. CASE longer[k] = m /\ m.type = "abort" BY <1>4, <2>1, <2>3
  <2> QED BY <1>1, <2>2, <2>3
<1>5. ASSUME NEW k \in Aborts(longer), NEW x \in have, x.id = longer[k].job.id
      PROVE  x.n = longer[k].job.n
  BY <1>1, <1>5 DEF AbortsOK
<1>6. AbortsOK(more, longer, have) BY <1>3, <1>4, <1>5 DEF AbortsOK
<1> QED BY <1>6 DEF longer

LEMMA AbortsLess ==
  ASSUME NEW ab, NEW more, ab \subseteq more, NEW queue, NEW have, NEW less, less \subseteq have,
         AbortsOK(ab, queue, have)
  PROVE  AbortsOK(more, queue, less)
BY DEF AbortsOK

LEMMA DoneInSlots ==
  ASSUME BuildsAssumption, TypeOK, NEW list \in [Slots -> SlotType], NEW S \in SUBSET Slots,
         \A i \in S : list[i].job # FreeSlot, BuildsDone(S, list)
  PROVE  InSlots(slots') \subseteq InSlots(list)
<1>1. \A i \in Slots : slots'[i] = IF i \in S
         THEN [host |-> list[i].host, job |-> FreeSlot, pid |-> 0] ELSE list[i]
  BY DoneType
<1>2. ASSUME NEW x \in InSlots(slots') PROVE x \in InSlots(list)
  <2>1. PICK i \in Slots : slots'[i].job # FreeSlot /\ x = slots'[i].job BY Zenon DEF InSlots
  <2>2. slots'[i] = list[i]
    <3>1. CASE i \in S
      <4>1. slots'[i] = [host |-> list[i].host, job |-> FreeSlot, pid |-> 0] BY <1>1, <3>1
      <4> QED BY <2>1, <4>1
    <3> QED BY <1>1, <3>1
  <2> QED BY <2>1, <2>2, Zenon DEF InSlots
<1> QED BY <1>2

LEMMA TakenInSlots ==
  ASSUME BuildsAssumption, TypeInv, SlotOK, Message("build"), NEW p \in Pids \cup {0}
  PROVE  InSlots(Taken(p)) \subseteq InSlots(slots) \cup {Received}
<1> DEFINE list == Taken(p)
<1>1. list[NextSlot].job = Received /\ \A i \in Slots : i # NextSlot => list[i] = slots[i]
  BY TakenFields
<1> HIDE DEF list
<1>2. ASSUME NEW x \in InSlots(list) PROVE x \in InSlots(slots) \cup {Received}
  <2>1. PICK i \in Slots : list[i].job # FreeSlot /\ x = list[i].job BY Zenon DEF InSlots
  <2>2. CASE i = NextSlot BY <1>1, <2>1, <2>2
  <2>3. CASE i # NextSlot
    <3>1. list[i] = slots[i] BY <1>1, <2>3
    <3>2. x \in InSlots(slots) BY <2>1, <3>1, Zenon DEF InSlots
    <3> QED BY <3>2
  <2> QED BY <2>2, <2>3
<1> QED BY <1>2 DEF list

AbortsAtClient == AbortsOK(aborted, toClient, InSlots(slots))
AbortsAtHost(h) == remote[h] = "up" => AbortsOK(aborted, toHost[h], running[h])
AbortsSafe == AbortsAtClient /\ (\A h \in Hosts : AbortsAtHost(h)) /\ OnlyAbortedHit

LEMMA CloseInSlots ==
  ASSUME BuildsAssumption, TypeOK, NEW list \in [Slots -> SlotType], NEW h, RBS_Close(h, list)
  PROVE  InSlots(slots') \subseteq InSlots(list)
<1> DEFINE S == Cancel_Builds(h, list)
<1>1. S \in SUBSET Slots /\ \A i \in S : list[i].job # FreeSlot BY CancelFacts
<1>2. BuildsDone(S, list) BY DEF RBS_Close
<1> HIDE DEF S
<1> QED BY <1>1, <1>2, DoneInSlots

\* What a message and what the end of builds do to the slots.
LEMMA InSlotsStep ==
  ASSUME BuildsAssumption, HostsAssumption, TypeInv, Own, Places, Client
  PROVE  \A x \in InSlots(slots') :
           \/ x \in InSlots(slots)
           \/ Message("build") /\ toClient' = Tail(toClient) /\ x = Received
<1>0. TypeOK /\ slots \in [Slots -> SlotType] BY TypeParts DEF TypeInv, ClientType
<1> DEFINE Moved == \A x \in InSlots(slots') :
                      \/ x \in InSlots(slots)
                      \/ Message("build") /\ toClient' = Tail(toClient) /\ x = Received
<1>U. ASSUME UNCHANGED slots PROVE Moved BY <1>U
<1>C. ASSUME NEW h, RBS_Close(h, slots) PROVE Moved BY <1>0, <1>C, CloseInSlots
<1>T. ASSUME SlotOK, Message("build"), toClient' = Tail(toClient), NEW p \in Pids \cup {0},
             InSlots(slots') \subseteq InSlots(Taken(p))
      PROVE  Moved
  BY <1>T, TakenInSlots
<1>1. ASSUME NEW p \in Pids, StartLocal(p) PROVE Moved
  <2>1. CASE SlotOK BY <1>1, <1>T, <2>1 DEF StartLocal
  <2>2. CASE ~SlotOK BY <1>1, <1>U, <2>2 DEF StartLocal, Dies
  <2> QED BY <2>1, <2>2
<1>2. ASSUME NEW h \in Hosts, NEW p \in Pids, StartHost(h, p) PROVE Moved
  BY <1>2, <1>T DEF StartHost
<1>3. ASSUME NEW h \in Hosts, SendToHost(h) PROVE Moved
  <2>1. SlotOK /\ Message("build") /\ toClient' = Tail(toClient) BY <1>3 DEF SendToHost
  <2>2. CASE slots' = Taken(0) BY <1>T, <2>1, <2>2
  <2>3. CASE RBS_Close(h, Taken(0))
    <3>1. Taken(0) \in [Slots -> SlotType] BY <2>1, TakenFields
    <3>2. InSlots(slots') \subseteq InSlots(Taken(0)) BY <1>0, <2>3, <3>1, CloseInSlots
    <3> QED BY <1>T, <2>1, <3>2
  <2> QED BY <1>3, <2>2, <2>3 DEF SendToHost
<1>4. ASSUME NEW h \in Hosts, AbortRemote(h) \/ HostGone(h) PROVE Moved
  BY <1>4, <1>C, <1>U DEF AbortRemote, HostGone
<1>5. ASSUME NEW h \in Hosts, NEW p \in Pids, HostReaped(h, p) PROVE Moved
  BY <1>5, <1>C, <1>U DEF HostReaped
<1>6. ASSUME NEW p \in Pids, BuildReaped(p) PROVE Moved
  <2>1. CASE UNCHANGED slots BY <1>U, <2>1
  <2>2. CASE BuildsDone(BuildID_Build(p), slots)
    <3> DEFINE S == BuildID_Build(p)
    <3>1. SystemWait(p) BY <1>6 DEF BuildReaped
    <3>2. p # 0 BY <1>0, <3>1, ChildFacts
    <3>3. S \in SUBSET Slots /\ \A i \in S : slots[i].job # FreeSlot
      BY <3>2 DEF BuildID_Build, TypeInv, Procs, ProcsOK
    <3>4. BuildsDone(S, slots) BY <2>2
    <3> HIDE DEF S
    <3>5. InSlots(slots') \subseteq InSlots(slots) BY <1>0, <3>3, <3>4, DoneInSlots
    <3> QED BY <3>5
  <2> QED BY <1>6, <2>1, <2>2 DEF BuildReaped, Dies
<1>7. ASSUME NEW h \in Hosts, GetAnswer(h) PROVE Moved
  <2> DEFINE id == ReadID(bytes[h])
  <2>1. CASE UNCHANGED slots BY <1>U, <2>1
  <2>2. CASE id # 0 /\ BuildsDone(JobID_Build(id), slots)
    <3> DEFINE S == JobID_Build(id)
    <3>1. S \in SUBSET Slots /\ \A i \in S : slots[i].job # FreeSlot
      BY <2>2 DEF JobID_Build, FreeSlot
    <3>2. BuildsDone(S, slots) BY <2>2
    <3> HIDE DEF S
    <3>3. InSlots(slots') \subseteq InSlots(slots) BY <1>0, <3>1, <3>2, DoneInSlots
    <3> QED BY <3>3
  <2> QED BY <1>7, <2>1, <2>2 DEF GetAnswer, Dies
<1>8. ASSUME AbortEnded \/ AbortLocal \/ ChildAction \/ ChildActionEnds PROVE Moved
  BY <1>8, <1>U DEF AbortEnded, AbortLocal, ChildAction, ChildActionEnds, clientVars
<1> QED BY <1>1, <1>2, <1>3, <1>4, <1>5, <1>6, <1>7, <1>8 DEF Client

LEMMA AbortsAtClientStep ==
  ASSUME BuildsAssumption, HostsAssumption, TypeInv, Own, Places, AbortsSafe, [Next]_vars
  PROVE  AbortsAtClient'
<1>0. toClient \in Seq(Messages) BY TypeParts DEF TypeInv, QueueType
<1>1. AbortsOK(aborted, toClient, InSlots(slots)) BY DEF AbortsSafe, AbortsAtClient
<1>E. AbortsAtClient' <=> AbortsOK(aborted', toClient', InSlots(slots'))
  BY DEF AbortsAtClient, AbortsOK, InSlots, Aborts, Builds
\* No message moves.
<1>S. ASSUME UNCHANGED <<aborted, toClient>>, InSlots(slots') \subseteq InSlots(slots)
      PROVE  AbortsAtClient'
  BY <1>1, <1>E, <1>S, AbortsLess
<1>U. ASSUME UNCHANGED <<aborted, toClient, slots>> PROVE AbortsAtClient' BY <1>S, <1>U
<1>2. ASSUME Client PROVE AbortsAtClient'
  <2>1. UNCHANGED aborted
    BY <1>2 DEF Client, AbortEnded, AbortLocal, ChildAction, ChildActionEnds, StartLocal,
       BuildReaped, SendToHost, AbortRemote, GetAnswer, HostGone, StartHost, HostReaped, serverVars
  <2>2. UNCHANGED toClient \/ (toClient # <<>> /\ toClient' = Tail(toClient))
    BY <1>2 DEF Client, AbortEnded, AbortLocal, ChildAction, ChildActionEnds, StartLocal,
       BuildReaped, SendToHost, AbortRemote, GetAnswer, HostGone, StartHost, HostReaped, Message
  <2>3. \A x \in InSlots(slots') :
          \/ x \in InSlots(slots)
          \/ Message("build") /\ toClient' = Tail(toClient) /\ x = Received
    BY <1>2, InSlotsStep
  <2>4. CASE toClient # <<>> /\ toClient' = Tail(toClient)
    <3>1. \A x \in InSlots(slots') :
            x \in InSlots(slots) \/ (Head(toClient).type = "build" /\ x = Head(toClient).job)
      BY <2>3 DEF Message, Received
    <3>2. AbortsOK(aborted, Tail(toClient), InSlots(slots'))
      BY <1>0, <1>1, <2>4, <3>1, AbortsTail
    <3> QED BY <1>E, <2>1, <2>4, <3>2
  <2>5. CASE UNCHANGED toClient /\ ~(toClient # <<>> /\ toClient' = Tail(toClient))
    <3>1. InSlots(slots') \subseteq InSlots(slots) BY <2>3, <2>5 DEF Message
    <3> QED BY <1>S, <2>1, <2>5, <3>1
  <2> QED BY <2>2, <2>4, <2>5
<1>3. ASSUME NEW j \in JobIDs, SendBuild(j) PROVE AbortsAtClient'
  <2> DEFINE m == [type |-> "build", job |-> [id |-> j, n |-> sent + 1]]
  <2>1. toClient' = Append(toClient, m) /\ UNCHANGED <<aborted, slots>> /\ sent < MaxJobNum
    BY <1>3 DEF SendBuild, clientVars
  <2>2. sent + 1 \in Nums
    <3>1. sent \in 0..MaxJobNum /\ MaxJobNum \in Nat BY DEF TypeInv, TypeOK, BuildsAssumption
    <3> QED BY <2>1, <3>1, SMT DEF Nums
  <2>3. m \in Messages BY <2>2 DEF Messages, Jobs
  <2>4. m.type # "abort" OBVIOUS
  <2> HIDE DEF m
  <2>5. AbortsOK(aborted, Append(toClient, m), InSlots(slots))
    BY <1>0, <1>1, <2>3, <2>4, AbortsAppend
  <2> QED BY <1>E, <2>1, <2>5
<1>4. ASSUME NEW j \in JobIDs, SendAbort(j) PROVE AbortsAtClient'
  <2> DEFINE m == [type |-> "abort", job |-> [id |-> j, n |-> issued[j]]]
  <2>1. /\ toClient' = Append(toClient, m) /\ UNCHANGED slots /\ issued[j] # 0
        /\ aborted' = aborted \cup {issued[j]}
    BY <1>4 DEF SendAbort, clientVars
  <2>2. issued[j] \in Nums
    <3>1. issued \in [JobIDs -> 0..MaxJobNum] /\ MaxJobNum \in Nat
      BY Zenon DEF TypeInv, TypeOK, BuildsAssumption
    <3>2. issued[j] \in 0..MaxJobNum BY <3>1
    <3> QED BY <2>1, <3>1, <3>2, SMTT(30) DEF Nums
  <2>3. m \in Messages BY <2>2 DEF Messages, Jobs
  <2>4. m.job.id = j /\ m.job.n = issued[j] OBVIOUS
  <2> HIDE DEF m
  <2>5. \A i \in Builds(toClient) : toClient[i].job.id = m.job.id => toClient[i].job.n = m.job.n
    BY <2>4 DEF Own, OwnOK
  <2>6. ASSUME NEW x \in InSlots(slots), x.id = m.job.id PROVE x.n = m.job.n
    <3>1. PICK i \in Slots : slots[i].job # FreeSlot /\ x = slots[i].job BY Zenon DEF InSlots
    <3> QED BY <2>4, <2>6, <3>1 DEF Own, OwnOK
  <2>7. AbortsOK(aborted', Append(toClient, m), InSlots(slots))
    <3>1. aborted \subseteq aborted' /\ m.job.n \in aborted' BY <2>1, <2>4
    <3> QED BY <1>0, <1>1, <2>3, <2>5, <2>6, <3>1, AbortsAppend
  <2> QED BY <1>E, <2>1, <2>7
<1>5. ASSUME ReadAnswer \/ UNCHANGED vars PROVE AbortsAtClient'
  BY <1>5, <1>U DEF ReadAnswer, clientVars, serverVars, vars
<1>6. ASSUME NEW p \in Pids, ChildEnds(p) PROVE AbortsAtClient'
  BY <1>6, <1>U DEF ChildEnds, serverVars
<1>7. ASSUME NEW h \in Hosts, HostBuild(h) \/ HostAbort(h) \/ HostDies(h) PROVE AbortsAtClient'
  BY <1>7, <1>U DEF HostBuild, HostAbort, HostDies, clientVars, serverVars
<1>8. ASSUME NEW h \in Hosts, NEW b \in Jobs, HostBuildEnd(h, b) PROVE AbortsAtClient'
  BY <1>8, <1>U DEF HostBuildEnd, HostBuildEnds, clientVars, serverVars
<1> QED BY <1>2, <1>3, <1>4, <1>5, <1>6, <1>7, <1>8 DEF Next

LEMMA AbortsAtHostsStep ==
  ASSUME BuildsAssumption, HostsAssumption, TypeInv, Own, Places, AbortsSafe, [Next]_vars
  PROVE  \A g \in Hosts : AbortsAtHost(g)'
<1>0. HostType /\ toClient \in Seq(Messages) BY TypeParts DEF TypeInv, QueueType
<1>1. \A g \in Hosts : remote[g] = "up" => AbortsOK(aborted, toHost[g], running[g])
  BY DEF AbortsSafe, AbortsAtHost
<1>E. \A g \in Hosts : AbortsAtHost(g)' <=>
        (remote'[g] = "up" => AbortsOK(aborted', toHost'[g], running'[g]))
  BY DEF AbortsAtHost, AbortsOK, Aborts, Builds
\* A host no message reaches: builds of it may end.
<1>S. ASSUME NEW g \in Hosts, aborted \subseteq aborted', remote'[g] = "up" => remote[g] = "up",
             remote'[g] = "up" => toHost'[g] = toHost[g] /\ running'[g] \subseteq running[g]
      PROVE  AbortsAtHost(g)'
  BY <1>1, <1>E, <1>S, AbortsLess
<1>U. ASSUME aborted \subseteq aborted', UNCHANGED <<remote, toHost, running>>
      PROVE  \A g \in Hosts : AbortsAtHost(g)'
  BY <1>S, <1>U
<1>2. ASSUME NEW h \in Hosts, NEW p \in Pids, StartHost(h, p)
      PROVE  \A g \in Hosts : AbortsAtHost(g)'
  <2>1. /\ Message("build") /\ UNCHANGED aborted
        /\ remote' = [remote EXCEPT ![h] = "up"]
        /\ toHost' = [toHost EXCEPT ![h] = <<Head(toClient)>>]
        /\ running' = [running EXCEPT ![h] = {}]
    BY <1>2 DEF StartHost, serverVars
  <2>2. \A g \in Hosts : g # h =>
          remote'[g] = remote[g] /\ toHost'[g] = toHost[g] /\ running'[g] = running[g]
    BY <1>0, <2>1 DEF HostType
  <2>3. toHost'[h] = <<Head(toClient)>> BY <1>0, <2>1 DEF HostType
  <2>4. Aborts(<<Head(toClient)>>) = {}
    <3>1. Head(toClient).type # "abort" BY <2>1 DEF Message
    <3> DEFINE m == Head(toClient)
    <3> HIDE DEF m
    <3>2. \A k \in DOMAIN <<m>> : <<m>>[k] = m OBVIOUS
    <3> QED BY <3>1, <3>2 DEF Aborts, m
  <2>5. AbortsAtHost(h)' BY <1>E, <2>3, <2>4 DEF AbortsOK
  <2> QED BY <1>S, <2>1, <2>2, <2>5
<1>3. ASSUME NEW h \in Hosts, NEW m \in Messages, UNCHANGED <<aborted, remote, running>>,
             toHost' = [toHost EXCEPT ![h] = Append(@, m)],
             m.type = "abort" /\ remote[h] = "up" =>
               /\ m.job.n \in aborted
               /\ \A x \in Held(h, slots) : x.id = m.job.id => x.n = m.job.n
      PROVE  \A g \in Hosts : AbortsAtHost(g)'
  <2>1. toHost'[h] = Append(toHost[h], m) /\ \A g \in Hosts : g # h => toHost'[g] = toHost[g]
    BY <1>0, <1>3 DEF HostType
  <2>2. ASSUME remote[h] = "up" PROVE AbortsOK(aborted, Append(toHost[h], m), running[h])
    <3>1. WorkOK(Held(h, slots), toHost[h], running[h])
      BY <2>2 DEF Places, AtHosts, WorkAt
    <3>2. /\ \A x \in running[h] : x \in Held(h, slots)
          /\ \A i \in Builds(toHost[h]) : toHost[h][i].job \in Held(h, slots)
      BY <3>1 DEF WorkOK
    <3>3. m.type = "abort" =>
            /\ m.job.n \in aborted
            /\ \A i \in Builds(toHost[h]) :
                 toHost[h][i].job.id = m.job.id => toHost[h][i].job.n = m.job.n
            /\ \A x \in running[h] : x.id = m.job.id => x.n = m.job.n
      BY <1>3, <2>2, <3>2
    <3>4. toHost[h] \in Seq(Messages) BY <1>0 DEF HostType
    <3> QED BY <1>1, <2>2, <3>3, <3>4, AbortsAppend
  <2>3. AbortsAtHost(h)' BY <1>3, <1>E, <2>1, <2>2
  <2> QED BY <1>3, <1>S, <2>1, <2>3
<1>4. ASSUME NEW h \in Hosts, SendToHost(h) PROVE \A g \in Hosts : AbortsAtHost(g)'
  <2>1. Message("build") /\ UNCHANGED <<aborted, remote, running>>
    BY <1>4 DEF SendToHost, serverVars
  <2>2. CASE UNCHANGED toHost BY <1>U, <2>1, <2>2
  <2>3. CASE toHost' = [toHost EXCEPT ![h] = Append(@, Head(toClient))]
    <3>1. Head(toClient) \in Messages /\ Head(toClient).type = "build"
      BY <2>1, MessageType DEF TypeInv, Message
    <3> QED BY <1>3, <2>1, <2>3, <3>1
  <2> QED BY <1>4, <2>2, <2>3 DEF SendToHost
<1>5. ASSUME NEW h \in Hosts, AbortRemote(h) PROVE \A g \in Hosts : AbortsAtHost(g)'
  <2>1. Message("abort") /\ UNCHANGED <<aborted, remote, running>>
    BY <1>5 DEF AbortRemote, serverVars
  <2>2. CASE UNCHANGED toHost BY <1>U, <2>1, <2>2
  <2>3. CASE toHost' = [toHost EXCEPT ![h] = Append(@, Head(toClient))]
    <3>1. Head(toClient) \in Messages /\ toClient # <<>> /\ Head(toClient).type = "abort"
      BY <2>1, MessageType DEF TypeInv, Message
    <3>2. 1 \in Aborts(toClient) /\ Head(toClient) = toClient[1] BY <1>0, <3>1, TailAborts
    <3>3. AbortsOK(aborted, toClient, InSlots(slots)) BY DEF AbortsSafe, AbortsAtClient
    <3>4. Head(toClient).job.n \in aborted BY <3>2, <3>3 DEF AbortsOK
    <3>5. ASSUME NEW x \in Held(h, slots), x.id = Head(toClient).job.id
          PROVE  x.n = Head(toClient).job.n
      <4>1. PICK i \in Slots : slots[i].job # FreeSlot /\ x = slots[i].job BY Zenon DEF Held
      <4>2. x \in InSlots(slots) BY <4>1, Zenon DEF InSlots
      <4> QED BY <3>2, <3>3, <3>5, <4>2 DEF AbortsOK
    <3> QED BY <1>3, <2>1, <2>3, <3>1, <3>4, <3>5
  <2> QED BY <1>5, <2>2, <2>3 DEF AbortRemote
<1>6. ASSUME NEW h \in Hosts, HostBuild(h) \/ HostAbort(h)
      PROVE  \A g \in Hosts : AbortsAtHost(g)'
  <2>1. /\ remote[h] = "up" /\ toHost[h] # <<>> /\ toHost' = [toHost EXCEPT ![h] = Tail(@)]
        /\ UNCHANGED <<aborted, remote>>
    BY <1>6 DEF HostBuild, HostAbort, HostMessage, serverVars
  <2>2. /\ \A g \in Hosts : g # h => running'[g] = running[g]
        /\ \A x \in running'[h] :
             x \in running[h] \/ (Head(toHost[h]).type = "build" /\ x = Head(toHost[h]).job)
    BY <1>0, <1>6 DEF HostBuild, HostAbort, HostMessage, HostType
  <2>3. /\ toHost[h] \in Seq(Messages) /\ toHost'[h] = Tail(toHost[h])
        /\ \A g \in Hosts : g # h => toHost'[g] = toHost[g]
    BY <1>0, <2>1 DEF HostType
  <2>4. AbortsOK(aborted, Tail(toHost[h]), running'[h])
    BY <1>1, <2>1, <2>2, <2>3, AbortsTail
  <2>5. AbortsAtHost(h)' BY <1>E, <2>1, <2>3, <2>4
  <2> QED BY <1>S, <2>1, <2>2, <2>3, <2>5
<1>7. ASSUME NEW h \in Hosts, NEW b \in Jobs, HostBuildEnd(h, b)
      PROVE  \A g \in Hosts : AbortsAtHost(g)'
  <2>1. /\ running' = [running EXCEPT ![h] = @ \ {b}] /\ UNCHANGED <<aborted, remote, toHost>>
    BY <1>7 DEF HostBuildEnd, HostBuildEnds, serverVars
  <2>2. \A g \in Hosts : running'[g] \subseteq running[g] BY <1>0, <2>1 DEF HostType
  <2> QED BY <1>S, <2>1, <2>2
<1>8. ASSUME NEW h \in Hosts, HostDies(h) PROVE \A g \in Hosts : AbortsAtHost(g)'
  <2>1. /\ remote' = [remote EXCEPT ![h] = "dead"] /\ running' = [running EXCEPT ![h] = {}]
        /\ toHost' = [toHost EXCEPT ![h] = <<>>] /\ UNCHANGED aborted
    BY <1>8 DEF HostDies, serverVars
  <2>2. remote'[h] # "up" BY <1>0, <2>1 DEF HostType
  <2>3. \A g \in Hosts : g # h =>
          remote'[g] = remote[g] /\ toHost'[g] = toHost[g] /\ running'[g] = running[g]
    BY <1>0, <2>1 DEF HostType
  <2> QED BY <1>S, <2>1, <2>2, <2>3
<1>9. ASSUME NEW j \in JobIDs, SendBuild(j) \/ SendAbort(j)
      PROVE  \A g \in Hosts : AbortsAtHost(g)'
  BY <1>9, <1>U DEF SendBuild, SendAbort, hostVars
<1>10. ASSUME \/ ReadAnswer \/ UNCHANGED vars \/ AbortEnded \/ AbortLocal
              \/ ChildAction \/ ChildActionEnds
              \/ \E p \in Pids : StartLocal(p) \/ BuildReaped(p) \/ ChildEnds(p)
              \/ \E h \in Hosts : HostGone(h) \/ GetAnswer(h)
              \/ \E h \in Hosts, p \in Pids : HostReaped(h, p)
       PROVE  \A g \in Hosts : AbortsAtHost(g)'
  <2>1. UNCHANGED <<aborted, remote, toHost, running>>
    BY <1>10 DEF ReadAnswer, AbortEnded, AbortLocal, ChildAction, ChildActionEnds, StartLocal,
       BuildReaped, ChildEnds, HostGone, GetAnswer, HostReaped, serverVars, hostVars, vars
  <2> QED BY <1>U, <2>1
<1> QED
  <2>1. CASE Client BY <2>1, <1>2, <1>4, <1>5, <1>10 DEF Client
  <2> QED BY <2>1, <1>6, <1>7, <1>8, <1>9, <1>10 DEF Next

\* Who is interrupted: the build of the abort, by the client or by its host.
LEMMA HitStep ==
  ASSUME BuildsAssumption, TypeInv, AbortsSafe, [Next]_vars
  PROVE  OnlyAbortedHit'
<1>0. HostType /\ toClient \in Seq(Messages) BY TypeParts DEF TypeInv, QueueType
<1>U. ASSUME UNCHANGED <<hit, orphans>>, aborted \subseteq aborted' PROVE OnlyAbortedHit'
  BY <1>U DEF AbortsSafe, OnlyAbortedHit
<1>1. ASSUME AbortLocal PROVE OnlyAbortedHit'
  <2>1. PICK i \in JobID_Build(Received.id) :
          slots[i].host = Local /\ hit' = hit \cup {proc[slots[i].pid].n}
    BY <1>1 DEF AbortLocal
  <2>2. Message("abort") /\ UNCHANGED <<aborted, orphans>> BY <1>1 DEF AbortLocal, serverVars, hostVars
  <2>3. Received \in Jobs /\ toClient # <<>> /\ Head(toClient).type = "abort"
    BY <2>2, MessageType DEF TypeInv, Message
  <2>4. 1 \in Aborts(toClient) /\ Received = toClient[1].job
    BY <1>0, <2>3, TailAborts DEF Received
  <2>5. i \in Slots /\ slots[i].job.id = Received.id BY DEF JobID_Build
  <2>6. slots[i].job # FreeSlot
    <3>1. Received.id # 0 BY <2>3, JobFacts
    <3> QED BY <2>5, <3>1 DEF FreeSlot
  <2>7. slots[i].job \in InSlots(slots) BY <2>5, <2>6, Zenon DEF InSlots
  <2>8. slots[i].job.n \in aborted
    BY <2>4, <2>5, <2>7 DEF AbortsSafe, AbortsAtClient, AbortsOK
  <2>9. proc[slots[i].pid].n = slots[i].job.n
    BY <2>1, <2>5, <2>6 DEF TypeInv, Procs, ProcsOK
  <2> QED BY <2>1, <2>2, <2>8, <2>9 DEF AbortsSafe, OnlyAbortedHit
<1>2. ASSUME NEW h \in Hosts, HostAbort(h) PROVE OnlyAbortedHit'
  <2>1. /\ remote[h] = "up" /\ toHost[h] # <<>> /\ Head(toHost[h]).type = "abort"
        /\ hit' = hit \cup {b.n : b \in HostBuilds(h, Head(toHost[h]).job.id)}
        /\ UNCHANGED <<aborted, orphans>>
    BY <1>2 DEF HostAbort, HostMessage, serverVars
  <2>2. toHost[h] \in Seq(Messages) BY <1>0 DEF HostType
  <2>3. 1 \in Aborts(toHost[h]) /\ Head(toHost[h]) = toHost[h][1] BY <2>1, <2>2, TailAborts
  <2>4. AbortsOK(aborted, toHost[h], running[h]) BY <2>1 DEF AbortsSafe, AbortsAtHost
  <2>5. \A b \in HostBuilds(h, Head(toHost[h]).job.id) : b.n \in aborted
    BY <2>3, <2>4 DEF HostBuilds, AbortsOK
  <2> QED BY <2>1, <2>5 DEF AbortsSafe, OnlyAbortedHit
<1>3. ASSUME Client, ~AbortLocal PROVE OnlyAbortedHit'
  BY <1>3, <1>U DEF Client, AbortEnded, ChildAction, ChildActionEnds, StartLocal, BuildReaped,
     SendToHost, AbortRemote, GetAnswer, HostGone, StartHost, HostReaped, serverVars, hostVars
<1>4. ASSUME NEW j \in JobIDs, SendBuild(j) \/ SendAbort(j) PROVE OnlyAbortedHit'
  BY <1>4, <1>U DEF SendBuild, SendAbort, hostVars
<1>5. ASSUME ReadAnswer \/ UNCHANGED vars PROVE OnlyAbortedHit'
  BY <1>5, <1>U DEF ReadAnswer, serverVars, hostVars, vars
<1>6. ASSUME NEW p \in Pids, ChildEnds(p) PROVE OnlyAbortedHit'
  BY <1>6, <1>U DEF ChildEnds, serverVars, hostVars
<1>7. ASSUME NEW h \in Hosts, HostBuild(h) PROVE OnlyAbortedHit'
  BY <1>7, <1>U DEF HostBuild, serverVars
<1>9. ASSUME NEW h \in Hosts, HostDies(h) PROVE OnlyAbortedHit'
  <2>1. /\ hit' = hit \/ hit' = hit \cup {b.n : b \in running[h]}
        /\ orphans' = orphans \cup running[h] /\ UNCHANGED aborted
    BY <1>9 DEF HostDies, serverVars
  <2>2. {b.n : b \in orphans'} = {b.n : b \in orphans} \cup {b.n : b \in running[h]}
    BY <2>1
  <2> QED BY <2>1, <2>2 DEF AbortsSafe, OnlyAbortedHit
<1>8. ASSUME NEW h \in Hosts, NEW b \in Jobs, HostBuildEnd(h, b) PROVE OnlyAbortedHit'
  BY <1>8, <1>U DEF HostBuildEnd, HostBuildEnds, serverVars
<1> QED BY <1>1, <1>2, <1>3, <1>4, <1>5, <1>6, <1>7, <1>8, <1>9 DEF Next

LEMMA InitAborts == BuildsAssumption /\ Init => AbortsSafe
<1> SUFFICES ASSUME BuildsAssumption, Init PROVE AbortsSafe OBVIOUS
<1>1. Aborts(<<>>) = {} BY DEF Aborts
<1>2. AbortsAtClient BY <1>1 DEF Init, AbortsAtClient, AbortsOK
<1>3. \A h \in Hosts : AbortsAtHost(h) BY DEF Init, AbortsAtHost
<1>4. OnlyAbortedHit BY DEF Init, OnlyAbortedHit
<1> QED BY <1>2, <1>3, <1>4 DEF AbortsSafe

\* An abort interrupts the build it is for, or none: not the next build in the
\* same directory, which may have begun when the abort arrives, and not another
\* build of the host.
THEOREM AbortedBuildsHit == Spec => []OnlyAbortedHit
<1>1. Init => AbortsSafe BY InitAborts, BuildsAssumption
<1>2. PlacesInv /\ AbortsSafe /\ [Next]_vars => AbortsSafe'
  <2> SUFFICES ASSUME PlacesInv, AbortsSafe, [Next]_vars PROVE AbortsSafe' OBVIOUS
  <2>1. TypeInv /\ Own /\ Places BY DEF PlacesInv
  <2>2. AbortsAtClient' BY <2>1, AbortsAtClientStep, BuildsAssumption, HostsAssumption
  <2>3. \A h \in Hosts : AbortsAtHost(h)'
    BY <2>1, AbortsAtHostsStep, BuildsAssumption, HostsAssumption
  <2>4. OnlyAbortedHit' BY <2>1, HitStep, BuildsAssumption
  <2> QED BY <2>2, <2>3, <2>4 DEF AbortsSafe
<1>3. AbortsSafe => OnlyAbortedHit BY DEF AbortsSafe
<1> QED BY <1>1, <1>2, <1>3, PlacesInvariant, PTL DEF Spec

-----------------------------------------------------------------------------
(* What the client's assertions rest on.  The server never has more builds   *)
(* than there are slots, the hosts of the slots do not change, and processes *)
(* and connections of servers are those of hosts in slots.                   *)

IssuedIDs == {k \in JobIDs : issued[k] # 0}
FewIssued == Cardinality(IssuedIDs) <= MaxBuilds

LayoutOK(list) == \E layout \in Layouts : \A i \in Slots : list[i].host = layout[i]
ServersOK(pr, list) ==
  \A p \in Pids : pr[p].state # "none" /\ pr[p].n = 0 => \E i \in Slots : list[i].host # Local
HostsOK(open, pids, list) ==
  \A h \in Hosts : h \in open \/ pids[h] # 0 => \E i \in Slots : list[i].host = h

KnownOK(pr, list, open, pids) ==
  /\ LayoutOK(list) /\ ServersOK(pr, list)
  /\ HostsOK(open, pids, list)
Known == FewIssued /\ KnownOK(proc, slots, fd, rbsPid)

\* A build that arrives finds a slot: the builds in the slots and this one are
\* issued, under JobIDs of their own.
LEMMA SlotFound ==
  ASSUME BuildsAssumption, TypeInv, Own, FewIssued, Message("build")
  PROVE  SlotOK
<1>0. ServerType /\ QueueType /\ ClientType BY TypeParts DEF TypeInv
<1>1. /\ toClient # <<>> /\ Received \in Jobs /\ 1 \in Builds(toClient) /\ Received = toClient[1].job
  <2>1. toClient \in Seq(Messages) /\ toClient # <<>> /\ Head(toClient).type = "build"
    BY <1>0 DEF QueueType, Message
  <2>2. 1 \in Builds(toClient) /\ Head(toClient) = toClient[1] BY <2>1, TailBuilds
  <2>3. Received \in Jobs BY MessageType DEF TypeInv
  <2> QED BY <2>1, <2>2, <2>3 DEF Received
<1>2. JobID_Build(0) # {}
  <2> SUFFICES ASSUME JobID_Build(0) = {} PROVE FALSE OBVIOUS
  <2>1. \A i \in Slots : slots[i].job \in Jobs /\ slots[i].job # FreeSlot
    <3>1. ASSUME NEW i \in Slots PROVE slots[i].job \in Jobs /\ slots[i].job # FreeSlot
      <4>1. slots[i].job.id # 0 BY DEF JobID_Build
      <4>2. slots[i] \in SlotType BY <1>0 DEF ClientType
      <4>3. slots[i].job \in Jobs \cup {FreeSlot} BY <4>2 DEF SlotType
      <4> QED BY <4>1, <4>3, JobFacts
    <3> QED BY <3>1
  <2> DEFINE S == Slots \cup {0}
             key == [i \in S |-> IF i = 0 THEN Received.id ELSE slots[i].job.id]
  <2>2. 0 \notin Slots BY SMT DEF Slots, BuildsAssumption
  <2>3. ASSUME NEW i \in S PROVE key[i] \in IssuedIDs
    <3>1. CASE i = 0
      <4>1. issued[Received.id] = Received.n BY <1>1 DEF Own, OwnOK
      <4> QED BY <1>1, <3>1, <4>1, JobFacts DEF IssuedIDs
    <3>2. CASE i # 0
      <4>1. i \in Slots /\ key[i] = slots[i].job.id BY <3>2
      <4>2. issued[slots[i].job.id] = slots[i].job.n BY <2>1, <4>1 DEF Own, OwnOK
      <4>3. slots[i].job \in Jobs BY <2>1, <4>1
      <4> HIDE DEF key
      <4> QED BY <4>1, <4>2, <4>3, JobFacts DEF IssuedIDs
    <3> QED BY <3>1, <3>2
  <2>4. ASSUME NEW i \in S, NEW k \in S, key[i] = key[k] PROVE i = k
    <3>1. CASE i = 0 /\ k # 0
      <4>1. k \in Slots /\ slots[k].job.id = Received.id BY <2>4, <3>1
      <4> QED BY <1>1, <4>1 DEF Own, OwnOK
    <3>2. CASE i # 0 /\ k = 0
      <4>1. i \in Slots /\ slots[i].job.id = Received.id BY <2>4, <3>2
      <4> QED BY <1>1, <4>1 DEF Own, OwnOK
    <3>3. CASE i # 0 /\ k # 0
      <4>1. i \in Slots /\ k \in Slots /\ slots[i].job.id = slots[k].job.id BY <2>4, <3>3
      <4> QED BY <2>1, <4>1 DEF Own, OwnOK
    <3> QED BY <3>1, <3>2, <3>3
  <2>5. key \in [S -> IssuedIDs] BY <2>3
  <2>6. IsFiniteSet(IssuedIDs)
    <3>1. IsFiniteSet(1..255)
      <4>1. 1 \in Int /\ 255 \in Int BY SMT
      <4> QED BY <4>1, FS_Interval, Zenon
    <3>2. IssuedIDs \subseteq 1..255 BY DEF IssuedIDs, BuildsAssumption
    <3> QED BY <3>1, <3>2, FS_Subset
  <2>7. /\ IsFiniteSet(Slots) /\ Cardinality(Slots) = MaxBuilds
    <3>1. MaxBuilds \in Nat \ {0} BY DEF BuildsAssumption
    <3>2. /\ IsFiniteSet(1..MaxBuilds)
          /\ Cardinality(1..MaxBuilds) = IF 1 > MaxBuilds THEN 0 ELSE MaxBuilds - 1 + 1
      BY <3>1, FS_Interval, SMT
    <3> QED BY <3>1, <3>2, SMT DEF Slots
  <2>8. IsFiniteSet(S) /\ Cardinality(S) = MaxBuilds + 1
    BY <2>2, <2>7, FS_AddElement
  <2>9. key \in Injection(S, IssuedIDs)
    <3> HIDE DEF key, S
    <3> QED BY <2>4, <2>5 DEF Injection, IsInjective
  <2> HIDE DEF key, S
  <2>10. Cardinality(S) <= Cardinality(IssuedIDs) BY <2>6, <2>8, <2>9, FS_Injection
  <2>11. Cardinality(IssuedIDs) \in Nat BY <2>6, FS_CardinalityType
  <2> QED BY <2>8, <2>10, <2>11, SMT DEF FewIssued, BuildsAssumption
<1>3. slots[NextSlot].pid = 0
  <2>1. NextSlot \in Slots /\ slots[NextSlot].job.id = 0 BY <1>2, NextSlotFree
  <2>2. slots[NextSlot] \in SlotType BY <1>0, <2>1 DEF ClientType
  <2>3. slots[NextSlot].job = FreeSlot BY <2>1, <2>2, JobFacts DEF SlotType
  <2> QED BY <2>1, <2>3 DEF TypeInv, Procs, ProcsOK
<1> QED BY <1>2, <1>3 DEF SlotOK

LEMMA FewIssuedStep ==
  ASSUME BuildsAssumption, TypeInv, FewIssued, [Next]_vars
  PROVE  FewIssued'
<1>0. ServerType BY TypeParts DEF TypeInv
<1>1. IsFiniteSet(IssuedIDs)
  <2>1. 1 \in Int /\ 255 \in Int BY SMT
  <2>2. IsFiniteSet(1..255) BY <2>1, FS_Interval, Zenon
  <2>3. IssuedIDs \subseteq 1..255 BY DEF IssuedIDs, BuildsAssumption
  <2> QED BY <2>2, <2>3, FS_Subset
<1>2. Cardinality(IssuedIDs) \in Nat /\ MaxBuilds \in Nat
  BY <1>1, FS_CardinalityType DEF BuildsAssumption
<1>3. CASE UNCHANGED issued BY <1>3 DEF FewIssued, IssuedIDs
<1>4. ASSUME NEW j \in JobIDs, SendBuild(j) PROVE FewIssued'
  <2>1. Cardinality(IssuedIDs) < MaxBuilds BY <1>4 DEF SendBuild, IssuedIDs
  <2>2. IssuedIDs' \subseteq IssuedIDs \cup {j} BY <1>0, <1>4 DEF SendBuild, IssuedIDs, ServerType
  <2> DEFINE after == IssuedIDs'
             all == IssuedIDs \cup {j}
  <2>3. IsFiniteSet(all) /\ Cardinality(all) <= Cardinality(IssuedIDs) + 1
    BY <1>1, <1>2, FS_AddElement, SMT
  <2>4. after \subseteq all BY <2>2
  <2> HIDE DEF after, all
  <2>5. Cardinality(after) <= Cardinality(all) /\ IsFiniteSet(after) BY <2>3, <2>4, FS_Subset
  <2>6. Cardinality(after) \in Nat /\ Cardinality(all) \in Nat BY <2>3, <2>5, FS_CardinalityType
  <2>7. Cardinality(after) <= MaxBuilds BY <1>2, <2>1, <2>3, <2>5, <2>6, SMT
  <2> QED BY <2>7 DEF after, FewIssued
<1>5. CASE ReadAnswer
  <2> DEFINE after == IssuedIDs'
  <2>1. after \subseteq IssuedIDs BY <1>0, <1>5 DEF ReadAnswer, IssuedIDs, ServerType
  <2> HIDE DEF after
  <2>2. Cardinality(after) <= Cardinality(IssuedIDs) /\ IsFiniteSet(after) BY <1>1, <2>1, FS_Subset
  <2>3. Cardinality(after) \in Nat BY <2>2, FS_CardinalityType
  <2>4. Cardinality(after) <= MaxBuilds BY <1>2, <2>2, <2>3, SMT DEF FewIssued
  <2> QED BY <2>4 DEF after, FewIssued
<1>6. CASE Client
  BY <1>3, <1>6 DEF Client, AbortEnded, AbortLocal, ChildAction, ChildActionEnds, StartLocal,
     BuildReaped, SendToHost, AbortRemote, GetAnswer, HostGone, StartHost, HostReaped, serverVars
<1>7. ASSUME NEW p \in Pids, ChildEnds(p) PROVE FewIssued'
  BY <1>3, <1>7 DEF ChildEnds, serverVars
<1>8. ASSUME NEW h \in Hosts, HostBuild(h) \/ HostAbort(h) \/ HostDies(h) PROVE FewIssued'
  BY <1>3, <1>8 DEF HostBuild, HostAbort, HostDies, serverVars
<1>9. ASSUME NEW h \in Hosts, NEW b \in Jobs, HostBuildEnd(h, b) PROVE FewIssued'
  BY <1>3, <1>9 DEF HostBuildEnd, HostBuildEnds, serverVars
<1>10. ASSUME NEW j \in JobIDs, SendAbort(j) PROVE FewIssued' BY <1>3, <1>10 DEF SendAbort
<1>11. CASE UNCHANGED vars BY <1>3, <1>11 DEF vars, serverVars
<1> QED BY <1>4, <1>5, <1>6, <1>7, <1>8, <1>9, <1>10, <1>11 DEF Next

\* A slot stays one of the same host.
LEMMA DoneHosts ==
  ASSUME NEW list, NEW S, BuildsDone(S, list)
  PROVE  \A i \in Slots : slots'[i].host = list[i].host
<1>1. slots' = [i \in Slots |-> IF i \in S THEN Released(list[i]) ELSE list[i]] BY DEF BuildsDone
<1>2. ASSUME NEW i \in Slots PROVE slots'[i].host = list[i].host
  <2>1. slots'[i] = Released(list[i]) \/ slots'[i] = list[i] BY <1>1
  <2>2. Released(list[i]).host = list[i].host BY DEF Released
  <2> QED BY <2>1, <2>2
<1> QED BY <1>2

LEMMA HostsFixed ==
  ASSUME BuildsAssumption, TypeInv, [Next]_vars
  PROVE  \A i \in Slots : slots'[i].host = slots[i].host
<1> DEFINE Fixed == \A i \in Slots : slots'[i].host = slots[i].host
<1>U. CASE UNCHANGED slots BY <1>U
<1>D. ASSUME NEW S, BuildsDone(S, slots) PROVE Fixed BY <1>D, DoneHosts
<1>T. ASSUME SlotOK, Message("build"), NEW p \in Pids \cup {0}
      PROVE  \A i \in Slots : Taken(p)[i].host = slots[i].host
  <2>1. /\ Taken(p)[NextSlot].host = slots[NextSlot].host
        /\ \A i \in Slots : i # NextSlot => Taken(p)[i] = slots[i]
    BY <1>T, TakenFields
  <2> QED BY <2>1
<1>1. ASSUME NEW p \in Pids, StartLocal(p) PROVE Fixed
  BY <1>1, <1>T, <1>U DEF StartLocal, Dies
<1>2. ASSUME NEW h \in Hosts, NEW p \in Pids, StartHost(h, p) PROVE Fixed
  BY <1>2, <1>T DEF StartHost
<1>3. ASSUME NEW h \in Hosts, SendToHost(h) PROVE Fixed
  <2>1. \A i \in Slots : Taken(0)[i].host = slots[i].host BY <1>3, <1>T DEF SendToHost
  <2>2. CASE slots' = Taken(0) BY <2>1, <2>2
  <2>3. CASE RBS_Close(h, Taken(0))
    <3>1. \A i \in Slots : slots'[i].host = Taken(0)[i].host BY <2>3, DoneHosts DEF RBS_Close
    <3> QED BY <2>1, <3>1
  <2> QED BY <1>3, <2>2, <2>3 DEF SendToHost
<1>4. ASSUME NEW h \in Hosts, AbortRemote(h) \/ HostGone(h) \/ GetAnswer(h) PROVE Fixed
  BY <1>4, <1>D, <1>U DEF AbortRemote, HostGone, GetAnswer, RBS_Close, Dies
<1>5. ASSUME NEW h \in Hosts, NEW p \in Pids, HostReaped(h, p) PROVE Fixed
  BY <1>5, <1>D, <1>U DEF HostReaped, RBS_Close
<1>6. ASSUME NEW p \in Pids, BuildReaped(p) PROVE Fixed
  BY <1>6, <1>D, <1>U DEF BuildReaped, Dies
<1>7. CASE AbortEnded \/ AbortLocal \/ ChildAction \/ ChildActionEnds \/ ReadAnswer \/ UNCHANGED vars
  BY <1>7, <1>U DEF AbortEnded, AbortLocal, ChildAction, ChildActionEnds, ReadAnswer, clientVars, vars
<1>8. ASSUME NEW j \in JobIDs, SendBuild(j) \/ SendAbort(j) PROVE Fixed
  BY <1>8, <1>U DEF SendBuild, SendAbort, clientVars
<1>9. ASSUME NEW p \in Pids, ChildEnds(p) PROVE Fixed BY <1>9, <1>U DEF ChildEnds
<1>10. ASSUME NEW h \in Hosts, HostBuild(h) \/ HostAbort(h) \/ HostDies(h) PROVE Fixed
  BY <1>10, <1>U DEF HostBuild, HostAbort, HostDies, clientVars
<1>11. ASSUME NEW h \in Hosts, NEW b \in Jobs, HostBuildEnd(h, b) PROVE Fixed
  BY <1>11, <1>U DEF HostBuildEnd, HostBuildEnds, clientVars
<1>12. ASSUME Client PROVE Fixed BY <1>12, <1>1, <1>2, <1>3, <1>4, <1>5, <1>6, <1>7 DEF Client
<1> QED BY <1>7, <1>8, <1>9, <1>10, <1>11, <1>12 DEF Next

\* A child that is a server was one before, or is started.
LEMMA ServerProcess ==
  ASSUME BuildsAssumption, TypeInv, [Next]_vars,
         NEW p \in Pids, proc'[p].state # "none", proc'[p].n = 0
  PROVE  \/ /\ proc[p].state # "none" /\ proc[p].n = 0
            /\ proc'[p].state = "runs" => proc[p].state = "runs"
         \/ \E h \in Hosts : StartHost(h, p)
<1> DEFINE Old == /\ proc[p].state # "none" /\ proc[p].n = 0
                  /\ proc'[p].state = "runs" => proc[p].state = "runs"
<1>0. proc \in [Pids -> ProcType] /\ rbsPid \in [Hosts -> Pids \cup {0}]
  BY TypeParts DEF TypeInv, ClientType
<1>U. CASE proc'[p] = proc[p] BY <1>U
<1>1. ASSUME NEW q \in Pids, StartLocal(q) PROVE Old
  <2>1. CASE SlotOK
    <3>1. Message("build") /\ Fork(q, Received.n) BY <1>1, <2>1 DEF StartLocal
    <3>2. Received.n # 0 /\ Received.n \in 0..MaxJobNum
      <4>1. Received \in Jobs BY <3>1, MessageType DEF TypeInv
      <4>2. Received.n # 0 BY <4>1, JobFacts
      <4>3. Received.n \in 0..MaxJobNum BY <4>1, SMT DEF Jobs, Nums
      <4> QED BY <4>2, <4>3
    <3>3. /\ proc'[q] = [state |-> "runs", n |-> Received.n]
          /\ \A r \in Pids : r # q => proc'[r] = proc[r]
      BY <3>1, <3>2, ForkFacts DEF TypeInv
    <3>4. proc'[q].n = Received.n BY <3>3
    <3>5. p # q BY <3>2, <3>4
    <3> QED BY <1>U, <3>3, <3>5
  <2>2. CASE ~SlotOK BY <1>1, <1>U, <2>2 DEF StartLocal
  <2> QED BY <2>1, <2>2
<1>2. ASSUME NEW h \in Hosts, NEW c \in Pids, StartHost(h, c)
      PROVE  Old \/ \E g \in Hosts : StartHost(g, p)
  <2>1. Fork(c, 0) BY <1>2 DEF StartHost
  <2>2. 0 \in 0..MaxJobNum BY SMT DEF BuildsAssumption
  <2>3. /\ proc'[c] = [state |-> "runs", n |-> 0]
        /\ \A r \in Pids : r # c => proc'[r] = proc[r]
    BY <2>1, <2>2, ForkFacts DEF TypeInv
  <2>4. CASE p = c BY <1>2, <2>4
  <2>5. CASE p # c BY <1>U, <2>3, <2>5
  <2> QED BY <2>4, <2>5
<1>3. ASSUME NEW c \in Pids, SystemWait(c) PROVE Old
  <2>1. \A r \in Pids : r # c => proc'[r] = proc[r] BY <1>3, ChildFacts DEF TypeInv
  <2>2. proc'[c].state = "none" BY <1>0, <1>3 DEF SystemWait, Zombies
  <2> QED BY <1>U, <2>1, <2>2
<1>4. ASSUME NEW q \in Pids, ChildEnds(q) PROVE Old
  <2>1. proc[q].state # "none" /\ proc' = [proc EXCEPT ![q].state = "zombie"]
    BY <1>4 DEF ChildEnds
  <2>2. /\ proc'[q].n = proc[q].n /\ proc'[q].state = "zombie"
        /\ \A r \in Pids : r # q => proc'[r] = proc[r]
    BY <1>0, <2>1 DEF ProcType
  <2> QED BY <1>U, <2>1, <2>2
<1>5. ASSUME NEW h \in Hosts, HostDies(h) PROVE Old
  <2>1. proc' = [proc EXCEPT ![rbsPid[h]].state = "exits"] BY <1>5 DEF HostDies
  <2>2. CASE p = rbsPid[h]
    <3>1. p # 0 BY SMT DEF BuildsAssumption
    <3>2. proc'[p].state = "exits" BY <1>0, <2>1, <2>2 DEF ProcType
    <3> QED BY <2>2, <3>1, <3>2 DEF TypeInv, Procs, ProcsOK
  <2>3. CASE p # rbsPid[h] BY <1>0, <1>U, <2>1, <2>3
  <2> QED BY <2>2, <2>3
<1>6. ASSUME NEW h \in Hosts, SendToHost(h) \/ AbortRemote(h) \/ GetAnswer(h) \/ HostGone(h)
      PROVE  Old
  BY <1>6, <1>U DEF SendToHost, AbortRemote, GetAnswer, HostGone
<1>7. ASSUME NEW h \in Hosts, NEW q \in Pids, HostReaped(h, q) PROVE Old
  BY <1>3, <1>7 DEF HostReaped
<1>8. ASSUME NEW q \in Pids, BuildReaped(q) PROVE Old BY <1>3, <1>8 DEF BuildReaped
<1>9. CASE AbortEnded \/ AbortLocal \/ ChildAction \/ ChildActionEnds \/ ReadAnswer \/ UNCHANGED vars
  BY <1>9, <1>U DEF AbortEnded, AbortLocal, ChildAction, ChildActionEnds, ReadAnswer, clientVars, vars
<1>10. ASSUME NEW j \in JobIDs, SendBuild(j) \/ SendAbort(j) PROVE Old
  BY <1>10, <1>U DEF SendBuild, SendAbort, clientVars
<1>11. ASSUME NEW h \in Hosts, HostBuild(h) \/ HostAbort(h) PROVE Old
  BY <1>11, <1>U DEF HostBuild, HostAbort, clientVars
<1>12. ASSUME NEW h \in Hosts, NEW b \in Jobs, HostBuildEnd(h, b) PROVE Old
  BY <1>12, <1>U DEF HostBuildEnd, HostBuildEnds, clientVars
<1>13. ASSUME Client PROVE Old \/ \E h \in Hosts : StartHost(h, p)
  BY <1>13, <1>1, <1>2, <1>6, <1>7, <1>8, <1>9 DEF Client
<1> QED BY <1>4, <1>5, <1>9, <1>10, <1>11, <1>12, <1>13 DEF Next

\* What becomes of a host's connection and process.
LEMMA ConnectionSteps ==
  ASSUME BuildsAssumption, TypeInv, [Next]_vars, NEW h \in Hosts
  PROVE  /\ \/ rbsPid'[h] = rbsPid[h]
            \/ \E p \in Pids : StartHost(h, p)
            \/ \E p \in Pids : HostReaped(h, p)
         /\ h \in fd' => h \in fd \/ \E p \in Pids : StartHost(h, p)
         /\ remote[h] = "up" => remote'[h] = "up" \/ HostDies(h)
<1> DEFINE Starts == \E p \in Pids : StartHost(h, p)
           Reaped == \E p \in Pids : HostReaped(h, p)
           Same == rbsPid'[h] = rbsPid[h] \/ Starts \/ Reaped
           Opens == h \in fd' => h \in fd \/ Starts
           Stays == remote[h] = "up" => remote'[h] = "up" \/ HostDies(h)
           Goal == Same /\ Opens /\ Stays
<1>0. /\ rbsPid \in [Hosts -> Pids \cup {0}] /\ remote \in [Hosts -> {"none", "up", "dead"}]
  BY TypeParts DEF TypeInv, ClientType, HostType
<1>N. remote'[h] = remote[h] => Stays OBVIOUS
<1>U. UNCHANGED <<rbsPid, fd, remote>> => Goal BY <1>N
<1>1. ASSUME NEW p \in Pids, StartLocal(p) \/ BuildReaped(p) PROVE Goal
  BY <1>1, <1>U DEF StartLocal, BuildReaped, hostVars
<1>2. ASSUME NEW g \in Hosts, NEW p \in Pids, StartHost(g, p) PROVE Goal
  <2>1. /\ rbsPid' = [rbsPid EXCEPT ![g] = p] /\ fd' = fd \cup {g}
        /\ remote' = [remote EXCEPT ![g] = "up"]
    BY <1>2 DEF StartHost
  <2>2. CASE g = h
    <3>1. Starts /\ remote'[h] = "up" /\ h \in fd' BY <1>0, <1>2, <2>1, <2>2
    <3> QED BY <3>1
  <2>3. CASE g # h
    <3>1. rbsPid'[h] = rbsPid[h] /\ remote'[h] = remote[h] /\ (h \in fd' <=> h \in fd)
      BY <1>0, <2>1, <2>3
    <3> QED BY <1>N, <3>1
  <2> QED BY <2>2, <2>3
<1>3. ASSUME NEW g \in Hosts, SendToHost(g) \/ AbortRemote(g) \/ HostGone(g) PROVE Goal
  <2>1. /\ UNCHANGED <<rbsPid, remote>>
        /\ fd' = fd \/ (fd' = fd \ {g} /\ remote[g] = "dead")
    BY <1>3 DEF SendToHost, AbortRemote, HostGone, RBS_Close, hostVars
  <2> QED BY <1>N, <2>1
<1>4. ASSUME NEW g \in Hosts, NEW p \in Pids, HostReaped(g, p) PROVE Goal
  <2>1. /\ rbsPid' = [rbsPid EXCEPT ![g] = 0] /\ UNCHANGED remote
        /\ fd' = fd \/ fd' = fd \ {g}
    BY <1>4 DEF HostReaped, RBS_Close, hostVars
  <2>2. CASE g = h
    <3>1. Reaped /\ Opens BY <1>4, <2>1, <2>2
    <3> QED BY <1>N, <2>1, <3>1
  <2>3. CASE g # h
    <3>1. rbsPid'[h] = rbsPid[h] /\ (h \in fd' <=> h \in fd) BY <1>0, <2>1, <2>3
    <3> QED BY <1>N, <2>1, <3>1
  <2> QED BY <2>2, <2>3
<1>5. ASSUME NEW g \in Hosts, GetAnswer(g) PROVE Goal BY <1>5, <1>U DEF GetAnswer
<1>6. ASSUME NEW g \in Hosts, HostDies(g) PROVE Goal
  <2>1. UNCHANGED <<rbsPid, fd>> /\ remote' = [remote EXCEPT ![g] = "dead"] BY <1>6 DEF HostDies
  <2>2. remote'[h] = remote[h] \/ (g = h /\ remote'[h] = "dead") BY <1>0, <2>1
  <2> QED BY <1>6, <1>N, <2>1, <2>2
<1>7. CASE AbortEnded \/ AbortLocal \/ ChildAction \/ ChildActionEnds \/ ReadAnswer \/ UNCHANGED vars
  BY <1>7, <1>U
  DEF AbortEnded, AbortLocal, ChildAction, ChildActionEnds, ReadAnswer, clientVars, hostVars, vars
<1>8. ASSUME NEW j \in JobIDs, SendBuild(j) \/ SendAbort(j) PROVE Goal
  BY <1>8, <1>U DEF SendBuild, SendAbort, clientVars, hostVars
<1>9. ASSUME NEW p \in Pids, ChildEnds(p) PROVE Goal BY <1>9, <1>U DEF ChildEnds, hostVars
<1>10. ASSUME NEW g \in Hosts, HostBuild(g) \/ HostAbort(g) PROVE Goal
  BY <1>10, <1>U DEF HostBuild, HostAbort, clientVars
<1>11. ASSUME NEW g \in Hosts, NEW b \in Jobs, HostBuildEnd(g, b) PROVE Goal
  BY <1>11, <1>U DEF HostBuildEnd, HostBuildEnds, clientVars
<1>12. ASSUME Client PROVE Goal BY <1>12, <1>1, <1>2, <1>3, <1>4, <1>5, <1>7 DEF Client
<1>13. Goal BY <1>6, <1>7, <1>8, <1>9, <1>10, <1>11, <1>12 DEF Next
<1> QED BY <1>13

LEMMA StartedHost ==
  ASSUME BuildsAssumption, TypeInv, NEW h \in Hosts, NEW p, StartHost(h, p)
  PROVE  /\ h \notin fd /\ h \in fd' /\ p \in Pids /\ rbsPid'[h] = p /\ remote'[h] = "up"
         /\ h # Local /\ \E i \in Slots : slots[i].host = h
<1>0. /\ rbsPid \in [Hosts -> Pids \cup {0}] /\ remote \in [Hosts -> {"none", "up", "dead"}]
  BY TypeParts DEF TypeInv, ClientType, HostType
<1>1. Message("build") /\ SlotOK /\ slots[NextSlot].host = h BY DEF StartHost
<1>2. 0 \in Pids \cup {0} OBVIOUS
<1>3. NextSlot \in Slots BY <1>1, <1>2, TakenFields
<1>4. p \in Pids BY DEF StartHost, Fork, FreePids
<1> QED BY <1>0, <1>1, <1>3, <1>4 DEF StartHost, BuildsAssumption

LEMMA KnownStep ==
  ASSUME BuildsAssumption, TypeInv, Known, [Next]_vars
  PROVE  Known'
<1>1. /\ FewIssued /\ LayoutOK(slots) /\ ServersOK(proc, slots)
      /\ HostsOK(fd, rbsPid, slots)
  BY DEF Known, KnownOK
<1>2. \A i \in Slots : slots'[i].host = slots[i].host BY HostsFixed
<1>3. FewIssued' BY <1>1, FewIssuedStep
<1>4. LayoutOK(slots') BY <1>1, <1>2 DEF LayoutOK
<1>5. ServersOK(proc', slots')
  <2>1. ASSUME NEW p \in Pids, proc'[p].state # "none", proc'[p].n = 0
        PROVE  \E i \in Slots : slots[i].host # Local
    <3>1. CASE proc[p].state # "none" /\ proc[p].n = 0 BY <1>1, <3>1 DEF ServersOK
    <3>2. ASSUME NEW h \in Hosts, StartHost(h, p) PROVE \E i \in Slots : slots[i].host # Local
      BY <3>2, StartedHost
    <3> QED BY <2>1, <3>1, <3>2, ServerProcess
  <2> QED BY <1>2, <2>1 DEF ServersOK
<1>6. HostsOK(fd', rbsPid', slots')
  <2>1. ASSUME NEW h \in Hosts, h \in fd' \/ rbsPid'[h] # 0
        PROVE  \E i \in Slots : slots[i].host = h
    <3>1. ASSUME NEW p \in Pids, StartHost(h, p) PROVE \E i \in Slots : slots[i].host = h
      BY <3>1, StartedHost
    <3>2. ASSUME NEW p \in Pids, HostReaped(h, p) PROVE \E i \in Slots : slots[i].host = h
      <4>1. rbsPid[h] = p /\ p # 0 BY <3>2, SMT DEF HostReaped, BuildsAssumption
      <4> QED BY <1>1, <4>1 DEF HostsOK
    <3>3. CASE h \in fd \/ rbsPid[h] # 0 BY <1>1, <3>3 DEF HostsOK
    <3> QED BY <2>1, <3>1, <3>2, <3>3, ConnectionSteps
  <2> QED BY <1>2, <2>1 DEF HostsOK
<1> QED BY <1>3, <1>4, <1>5, <1>6 DEF Known, KnownOK, LayoutOK, ServersOK, HostsOK

LEMMA InitKnown == BuildsAssumption /\ Init => Known
<1> SUFFICES ASSUME BuildsAssumption, Init PROVE Known OBVIOUS
<1>1. PICK layout \in Layouts :
        slots = [i \in Slots |-> [host |-> layout[i], job |-> FreeSlot, pid |-> 0]]
  BY DEF Init
<1>2. LayoutOK(slots) BY <1>1 DEF LayoutOK
<1>3. ServersOK(proc, slots) BY DEF Init, ServersOK
<1>4. HostsOK(fd, rbsPid, slots) BY DEF Init, HostsOK
<1>5. FewIssued
  <2>1. IssuedIDs = {} BY DEF Init, IssuedIDs
  <2>2. Cardinality({}) = 0 BY FS_EmptySet
  <2>3. 0 <= MaxBuilds BY SMT DEF BuildsAssumption
  <2> QED BY <2>1, <2>2, <2>3 DEF FewIssued
<1> QED BY <1>2, <1>3, <1>4, <1>5 DEF Known, KnownOK

-----------------------------------------------------------------------------
(* The process of a server that is up is the one the RBS_Id of its host      *)
(* gives: RBS_Id is overwritten when the next server is started, which is    *)
(* only after the connection was closed, and so after the server ended.      *)

ServersUp == \A p \in Pids :
  proc[p].state = "runs" /\ proc[p].n = 0 => \E h \in Hosts : rbsPid[h] = p /\ remote[h] = "up"

LEMMA ServersUpStep ==
  ASSUME BuildsAssumption, TypeInv, Connected, ServersUp, [Next]_vars
  PROVE  ServersUp'
<1>0. proc \in [Pids -> ProcType] /\ rbsPid \in [Hosts -> Pids \cup {0}]
  BY TypeParts DEF TypeInv, ClientType
<1> SUFFICES ASSUME NEW p \in Pids, proc'[p].state = "runs", proc'[p].n = 0
             PROVE  \E h \in Hosts : rbsPid'[h] = p /\ remote'[h] = "up"
  BY DEF ServersUp
<1>1. ASSUME NEW h \in Hosts, StartHost(h, p)
      PROVE  \E g \in Hosts : rbsPid'[g] = p /\ remote'[g] = "up"
  BY <1>1, StartedHost
<1>2. ASSUME proc[p].state = "runs", proc[p].n = 0
      PROVE  \E h \in Hosts : rbsPid'[h] = p /\ remote'[h] = "up"
  <2>1. PICK h \in Hosts : rbsPid[h] = p /\ remote[h] = "up" BY <1>2 DEF ServersUp
  <2>2. \A q \in Pids : ~StartHost(h, q) BY <2>1 DEF Connected, StartHost
  <2>3. \A q \in Pids : ~HostReaped(h, q)
    BY <1>2, <2>1 DEF HostReaped, SystemWait, Zombies
  <2>4. ~HostDies(h)
    <3>1. proc' = [proc EXCEPT ![p].state = "exits"] => proc'[p].state = "exits"
      BY <1>0 DEF ProcType
    <3> QED BY <2>1, <3>1 DEF HostDies
  <2> QED BY <2>1, <2>2, <2>3, <2>4, ConnectionSteps
<1> QED BY <1>1, <1>2, ServerProcess

\* A build that arrives finds a slot, and a child that is not known by its slot or
\* by a host is a server that has ended.
LEMMA ChildrenOfSlots ==
  ASSUME BuildsAssumption, TypeInv, Own, Watched, FewIssued, ServersUp
  PROVE  ChildrenKnown
<1>1. Message("build") => SlotOK BY SlotFound
<1>2. ASSUME NEW p \in Pids, proc[p].state # "none"
      PROVE  \/ BuildID_Build(p) # {}
             \/ \E h \in Hosts : rbsPid[h] = p
             \/ proc[p].n = 0 /\ proc[p].state # "runs"
  <2>1. CASE proc[p].n # 0
    <3>1. \E i \in Slots : slots[i].pid = p BY <1>2, <2>1 DEF Watched, WatchedOK
    <3> QED BY <3>1 DEF BuildID_Build
  <2>2. CASE proc[p].n = 0 BY <2>2 DEF ServersUp
  <2> QED BY <2>1, <2>2
<1> QED BY <1>1, <1>2 DEF ChildrenKnown

-----------------------------------------------------------------------------
(* With a bool of four bytes an answer names a build of the client's.        *)

LEMMA AnswerNamed ==
  ASSUME BuildsAssumption, BoolBytes = 4, NEW S, NEW b \in Seq(S), NEW held, NEW up,
         NEW queue, NEW run, BytesOK(b, held, up, queue, run), ~(Len(b) < AnswerBytes)
  PROVE  ReadID(b) # 0
<1>1. AnswerBytes = 8 BY DEF AnswerBytes, IntBytes
<1>2. PICK ended \in Seq(Jobs) : Framed(b, ended, up) BY DEF BytesOK, OutOfStep
<1>3. Len(b) \in Nat /\ Len(ended) \in Nat BY LenProperties
<1>4. Len(b) >= 8 BY <1>1, <1>3, SMT
<1>5. Len(ended) >= 1
  <2>1. Len(b) = 8 * Len(ended) \/ Len(b) = 8 * Len(ended) + 4 BY <1>2 DEF Framed
  <2> QED BY <1>3, <1>4, <2>1, SMT
<1>6. 1 \in 1..Len(ended) BY <1>3, <1>5, SMT
<1>7. ended[1] \in Jobs BY <1>6, ElementOfSeq
<1>8. ended[1].id # 0 BY <1>7, JobFacts
<1>9. b[1] = ended[1].id /\ b[2] = 0 /\ b[3] = 0 /\ b[4] = 0
  <2>1. 8 * 1 - 7 = 1 /\ 8 * 1 - 6 = 2 /\ 8 * 1 - 5 = 3 /\ 8 * 1 - 4 = 4 BY SMT
  <2>2. b[8 * 1 - 7] = ended[1].id /\ b[8 * 1 - 6] = 0 /\ b[8 * 1 - 5] = 0 /\ b[8 * 1 - 4] = 0
    BY <1>2, <1>6 DEF Framed
  <2> QED BY <2>1, <2>2
<1>10. SubSeq(b, 2, 4) = <<0, 0, 0>>
  <2>1. \A i \in 2..4 : b[i] \in S
    <3>1. \A i \in 2..4 : i \in 1..Len(b) BY <1>3, <1>4, SMT
    <3> QED BY <3>1, ElementOfSeq
  <2> DEFINE part == SubSeq(b, 2, 4)
  <2>2. 2 \in Int /\ 4 \in Int BY SMT
  <2>3. /\ part \in Seq(S) /\ Len(part) = IF 2 <= 4 THEN 4 - 2 + 1 ELSE 0
        /\ \A i \in 1..(4 - 2 + 1) : part[i] = b[2 + i - 1]
    BY <2>1, <2>2, SubSeqProperties
  <2> HIDE DEF part
  <2>4. Len(part) = 3 BY <2>3, SMT
  <2>5. part[1] = b[2] /\ part[2] = b[3] /\ part[3] = b[4]
    <3>1. 1 \in 1..(4 - 2 + 1) /\ 2 \in 1..(4 - 2 + 1) /\ 3 \in 1..(4 - 2 + 1) BY SMT
    <3>2. 2 + 1 - 1 = 2 /\ 2 + 2 - 1 = 3 /\ 2 + 3 - 1 = 4 BY SMT
    <3> QED BY <2>3, <3>1, <3>2
  <2>6. part = <<0, 0, 0>> BY <1>9, <2>3, <2>4, <2>5, SMT
  <2> QED BY <2>6 DEF part
<1> QED BY <1>8, <1>9, <1>10 DEF ReadID

\* The client reads no answer out of step and reaps no child it does not know.
LEMMA Survives ==
  ASSUME BuildsAssumption, HostsAssumption, TypeInv, Own, Places, Known, [Next]_vars,
         BoolBytes = 4 \/ \A i \in Slots : slots[i].host = Local,
         \/ \A i \in Slots : slots[i].host = Local
         \/ \A i \in Slots : slots[i].host # Local,
         loop # "dead"
  PROVE  loop' # "dead"
<1>H. "dead" \notin Hosts BY DEF HostsAssumption
<1>K. /\ FewIssued /\ ServersOK(proc, slots) /\ HostsOK(fd, rbsPid, slots)
  BY DEF Known, KnownOK
<1>W. WatchedOK(proc, slots) BY DEF Places, Watched
<1>N. \A h \in Hosts : h # Local BY DEF BuildsAssumption
<1>1. ASSUME NEW p \in Pids, StartLocal(p) PROVE loop' # "dead"
  <2>1. SlotOK BY <1>1, <1>K, SlotFound DEF StartLocal
  <2> QED BY <1>1, <2>1 DEF StartLocal
<1>2. ASSUME NEW p \in Pids, BuildReaped(p) PROVE loop' # "dead"
  <2>1. SystemWait(p) /\ \A h \in Hosts : rbsPid[h] # p BY <1>2 DEF BuildReaped
  <2>2. proc[p].state = "zombie" /\ \E i \in Slots : slots[i].pid # 0
    BY <2>1 DEF SystemWait, Zombies, Is_ActiveBuild
  <2>3. \E i \in Slots : slots[i].host = Local BY <1>W, <2>2 DEF WatchedOK
  <2>4. proc[p].n # 0
    <3>1. CASE proc[p].n = 0
      <4>1. \E i \in Slots : slots[i].host # Local BY <1>K, <2>2, <3>1 DEF ServersOK
      <4> QED BY <2>3, <4>1
    <3> QED BY <3>1
  <2>5. \E i \in Slots : slots[i].pid = p BY <1>W, <2>2, <2>4 DEF WatchedOK
  <2>6. BuildID_Build(p) # {} BY <2>5 DEF BuildID_Build
  <2> QED BY <1>2, <2>6 DEF BuildReaped
<1>3. ASSUME NEW h \in Hosts, GetAnswer(h) PROVE loop' # "dead"
  <2>1. AtHost(h) BY <1>3 DEF GetAnswer
  <2>2. h \in fd BY <2>1 DEF AtHost, HostsAssumption, Places, Connected
  <2>3. CASE Len(bytes[h]) < AnswerBytes BY <1>3, <1>H, <2>3 DEF GetAnswer
  <2>4. CASE ~(Len(bytes[h]) < AnswerBytes)
    <3>1. \E i \in Slots : slots[i].host = h BY <1>K, <2>2 DEF HostsOK
    <3>2. BoolBytes = 4 BY <1>N, <3>1
    <3>3. BytesAt(h) BY <2>2 DEF Places, AtHosts
    <3>4. bytes[h] \in Seq(0..255) BY DEF TypeInv, TypeOK
    <3>5. ReadID(bytes[h]) # 0
      <4> DEFINE S == 0..255
                 b == bytes[h]
                 held == Held(h, slots)
                 up == remote[h] = "up"
                 queue == toHost[h]
                 run == running[h]
      <4>1. b \in Seq(S) /\ BytesOK(b, held, up, queue, run) /\ ~(Len(b) < AnswerBytes)
        BY <2>4, <3>3, <3>4 DEF BytesAt
      <4> HIDE DEF S, b, held, up, queue, run
      <4>2. ReadID(b) # 0 BY <3>2, <4>1, AnswerNamed, ZenonT(30)
      <4> QED BY <4>2 DEF b
    <3>6. JobID_Build(ReadID(bytes[h])) # {}
      <4>1. \E i \in Slots : JobID_Build(ReadID(bytes[h])) = {i}
        BY <2>1, <2>4, <3>5, AnswerSlot, Zenon
      <4> QED BY <4>1
    <3>7. loop' = "select" BY <1>3, <2>4, <3>5, <3>6 DEF GetAnswer
    <3> QED BY <3>7
  <2> QED BY <2>3, <2>4
<1>4. ASSUME NEW h \in Hosts, SendToHost(h) \/ AbortRemote(h) \/ HostGone(h) PROVE loop' # "dead"
  BY <1>4 DEF SendToHost, AbortRemote, HostGone
<1>5. ASSUME NEW h \in Hosts, NEW p \in Pids, StartHost(h, p) \/ HostReaped(h, p)
      PROVE  loop' # "dead"
  BY <1>5 DEF StartHost, HostReaped
<1>6. CASE AbortEnded \/ AbortLocal \/ ChildAction \/ ChildActionEnds \/ ReadAnswer \/ UNCHANGED vars
  BY <1>6 DEF AbortEnded, AbortLocal, ChildAction, ChildActionEnds, ReadAnswer, clientVars, vars
<1>7. ASSUME NEW j \in JobIDs, SendBuild(j) \/ SendAbort(j) PROVE loop' # "dead"
  BY <1>7 DEF SendBuild, SendAbort, clientVars
<1>8. ASSUME NEW p \in Pids, ChildEnds(p) PROVE loop' # "dead" BY <1>8 DEF ChildEnds
<1>9. ASSUME NEW h \in Hosts, HostBuild(h) \/ HostAbort(h) \/ HostDies(h) PROVE loop' # "dead"
  BY <1>9 DEF HostBuild, HostAbort, HostDies, clientVars
<1>10. ASSUME NEW h \in Hosts, NEW b \in Jobs, HostBuildEnd(h, b) PROVE loop' # "dead"
  BY <1>10 DEF HostBuildEnd, HostBuildEnds, clientVars
<1>11. ASSUME Client PROVE loop' # "dead"
  BY <1>11, <1>1, <1>2, <1>3, <1>4, <1>5, <1>6 DEF Client
<1> QED BY <1>6, <1>7, <1>8, <1>9, <1>10, <1>11 DEF Next

KnownInv == PlacesInv /\ Known

LEMMA KnownInvariant == Spec => []KnownInv
<1>1. Init => Known BY InitKnown, BuildsAssumption
<1>2. PlacesInv /\ Known /\ [Next]_vars => Known' BY KnownStep, BuildsAssumption DEF PlacesInv
<1> QED BY <1>1, <1>2, PlacesInvariant, PTL DEF Spec, KnownInv

\* The slots of a client are all local, or none is.
LocalOnly == \A layout \in Layouts : \A i \in Slots : layout[i] = Local
Unmixed == \A layout \in Layouts :
  (\A i \in Slots : layout[i] = Local) \/ (\A i \in Slots : layout[i] # Local)

\* No assertion of a client fails that builds on its own machine only, or on
\* other machines only and with a bool of four bytes: hosts may die and come
\* back at any time.
THEOREM NeverForbidden ==
  ASSUME LocalOnly \/ (Unmixed /\ BoolBytes = 4)
  PROVE  Spec => []NoForbidden
<1>1. Init => NoForbidden BY DEF Init, NoForbidden
<1>2. KnownInv /\ NoForbidden /\ [Next]_vars => NoForbidden'
  <2> SUFFICES ASSUME KnownInv, NoForbidden, [Next]_vars PROVE NoForbidden' OBVIOUS
  <2>1. TypeInv /\ Own /\ Places /\ Known /\ loop # "dead"
    BY DEF KnownInv, PlacesInv, NoForbidden
  <2>2. PICK layout \in Layouts : \A i \in Slots : slots[i].host = layout[i]
    BY <2>1 DEF Known, KnownOK, LayoutOK
  <2>3. /\ BoolBytes = 4 \/ \A i \in Slots : slots[i].host = Local
        /\ \/ \A i \in Slots : slots[i].host = Local
           \/ \A i \in Slots : slots[i].host # Local
    BY <2>2 DEF LocalOnly, Unmixed
  <2>4. loop' # "dead" BY <2>1, <2>3, Survives, BuildsAssumption, HostsAssumption
  <2> QED BY <2>4 DEF NoForbidden
<1> QED BY <1>1, <1>2, KnownInvariant, PTL DEF Spec

\* Whatever its slots are and whatever width it gives bool, a client has a slot for
\* each build that arrives, and each of its children is known by a slot or by the
\* RBS_Id of a host: only a server that has ended can have lost its RBS_Id, to the
\* server that was started after it.
THEOREM KnowsItsChildren == Spec => []ChildrenKnown
<1>1. Init => ServersUp BY DEF Init, ServersUp
<1>2. KnownInv /\ ServersUp /\ [Next]_vars => ServersUp'
  BY ServersUpStep, BuildsAssumption DEF KnownInv, PlacesInv, Places
<1>3. KnownInv /\ ServersUp => ChildrenKnown
  BY ChildrenOfSlots, BuildsAssumption DEF KnownInv, PlacesInv, Places, Known
<1> QED BY <1>1, <1>2, <1>3, KnownInvariant, PTL DEF Spec

=============================================================================
