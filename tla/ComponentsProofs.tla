-------------------------- MODULE ComponentsProofs --------------------------
(***************************************************************************)
(* Three components that share no state with one another: the reorder      *)
(* buffer, the network probe and the files of the daemon.  What the run    *)
(* over Components checks of each of them on a small instance is proved    *)
(* here for every choice of its constants.                                 *)
(***************************************************************************)
EXTENDS ReorderBuffer, Probe, DaemonFiles, FiniteSetTheorems, TLAPS

-----------------------------------------------------------------------------
(***************************************************************************)
(* The reorder buffer. Until seen is emptied, it holds every packet that   *)
(* was put in, so that none is put in again; what has been given out is    *)
(* the run of packets below next_seq.                                      *)
(***************************************************************************)

\* Sequences of the same length that agree at every place are equal.
LEMMA SeqSame ==
    ASSUME NEW S, NEW s \in Seq(S), NEW t \in Seq(S), Len(s) = Len(t),
           \A i \in 1 .. Len(s) : s[i] = t[i]
    PROVE  s = t
OBVIOUS

\* Until seen is emptied, it holds every packet that was put in, so that none
\* is put in again.
ReorderInv ==
    /\ next_seq \in Nat /\ received \subseteq 0 .. LastSeq
    /\ cleared \in BOOLEAN
    /\ ~cleared => ids = ingested
    /\ ReorderExact

\* The run of packets taken out continues the one before.
LEMMA RunContinues ==
    ASSUME NEW m \in Nat, NEW n \in Nat
    PROVE  [i \in 1 .. m |-> i - 1] \o [i \in 1 .. n |-> m + i - 1]
             = [i \in 1 .. m + n |-> i - 1]
<1> DEFINE a == [i \in 1 .. m |-> i - 1]
           b == [i \in 1 .. n |-> m + i - 1]
           r == [i \in 1 .. m + n |-> i - 1]
<1>1. a \in Seq(Int) /\ b \in Seq(Int) /\ r \in Seq(Int)
  OBVIOUS
<1>2. Len(a) = m /\ Len(b) = n /\ Len(r) = m + n
  OBVIOUS
<1>3. /\ a \o b \in Seq(Int) /\ Len(a \o b) = m + n
      /\ \A i \in 1 .. m + n : (a \o b)[i] = IF i <= m THEN a[i] ELSE b[i - m]
  BY <1>1, <1>2
<1>4. \A i \in 1 .. m + n : (a \o b)[i] = r[i]
  BY <1>3
<1> HIDE DEF a, b, r
<1> QED BY <1>1, <1>2, <1>3, <1>4, SeqSame, Zenon DEF a, b, r

\* Putting a packet in (ReorderBuffer::ingest) keeps the invariant: a packet
\* that seen lists is turned away.
LEMMA IngestKeepsInv ==
    ASSUME ReorderInv, NEW s \in 0 .. LastSeq, Ingest(s)
    PROVE  ReorderInv'
<1>1. next_seq' = next_seq /\ released' = released /\ s \notin ids
      /\ received' = received \cup {s} /\ ingested' = ingested \cup {s}
  BY Zenon DEF Ingest
<1>2. cleared' \in BOOLEAN /\ (~cleared' => ~cleared /\ ids' = ids \cup {s})
  BY Zenon DEF Ingest, ReorderInv
<1>3. released' = [i \in 1 .. next_seq' |-> i - 1]
  BY <1>1, Zenon DEF ReorderInv, ReorderExact
<1>4. ingested' = received' \cup 0 .. next_seq' - 1
  BY <1>1, Zenon DEF ReorderInv, ReorderExact
<1>5. received' \cap 0 .. next_seq' - 1 # {} => cleared'
  BY <1>1, <1>2, Zenon DEF ReorderInv, ReorderExact
<1> QED BY <1>1, <1>2, <1>3, <1>4, <1>5, Zenon DEF ReorderInv, ReorderExact

\* Taking out (reassemble) keeps the invariant: a run that begins at next_seq,
\* and nothing before it, leaves the buffer.
LEMMA ReassembleKeepsInv ==
    ASSUME ReorderInv, Reassemble
    PROVE  ReorderInv'
<1>1. PICK n \in 1 .. LastSeq + 1 :
        /\ next_seq .. next_seq + n - 1 \subseteq received
        /\ received' = received \ (next_seq .. next_seq + n - 1)
        /\ released' = released \o [i \in 1 .. n |-> next_seq + i - 1]
        /\ next_seq' = next_seq + n
        /\ UNCHANGED <<ids, ingested, cleared>>
  BY Zenon DEF Reassemble
<1>2. n \in Nat /\ next_seq \in Nat /\ n > 0
  BY <1>1, ReorderAssumption DEF ReorderInv
<1>3. released' = [i \in 1 .. next_seq' |-> i - 1]
  BY <1>1, <1>2, RunContinues, Zenon DEF ReorderInv, ReorderExact
<1>4. 0 .. next_seq' - 1 = (0 .. next_seq - 1) \cup (next_seq .. next_seq + n - 1)
  BY <1>1, <1>2
<1>5. ingested' = received' \cup 0 .. next_seq' - 1
  BY <1>1, <1>4, Zenon DEF ReorderInv, ReorderExact
<1>6. received' \cap 0 .. next_seq' - 1 \subseteq received \cap 0 .. next_seq - 1
  BY <1>1, <1>4, Zenon
<1> QED BY <1>1, <1>2, <1>3, <1>5, <1>6 DEF ReorderInv, ReorderExact

\* The reorder buffer gives out every packet once and in order, for every
\* number of packets and order of arrival, as long as the set of seen ids was
\* not emptied on the way.
THEOREM ReorderIsExact == ReorderSpec => []ReorderExact
<1>1. ReorderInit => ReorderInv
  <2> SUFFICES ASSUME ReorderInit PROVE ReorderInv
    BY Zenon
  <2>1. << >> = [i \in 1 .. 0 |-> i - 1]
    OBVIOUS
  <2>2. 0 .. 0 - 1 = {}
    OBVIOUS
  <2>3. ReorderExact
    BY <2>1, <2>2, Zenon DEF ReorderInit, ReorderExact
  <2> QED BY <2>3, Zenon DEF ReorderInit, ReorderInv
<1>2. ReorderInv /\ [ReorderNext]_reorderVars => ReorderInv'
  <2> SUFFICES ASSUME ReorderInv, [ReorderNext]_reorderVars PROVE ReorderInv'
    BY Zenon
  <2>1. CASE UNCHANGED reorderVars
    BY <2>1, Zenon DEF reorderVars, ReorderInv, ReorderExact
  <2> QED BY <2>1, IngestKeepsInv, ReassembleKeepsInv, Zenon DEF ReorderNext
<1>3. ReorderInv => ReorderExact
  BY Zenon DEF ReorderInv
<1> QED BY <1>1, <1>2, <1>3, PTL DEF ReorderSpec

-----------------------------------------------------------------------------
(***************************************************************************)
(* The network probe. A probe is in one place at a time, which bounds the  *)
(* answers by what came back; and before the first timeout no echo of an   *)
(* older request can be under way.                                         *)
(***************************************************************************)

\* A sum in which one part gives another what it loses.
LEMMA OneAcross ==
    ASSUME NEW a \in Nat, NEW b \in Nat, NEW c \in Nat, NEW n \in Nat,
           a + b + c <= n
    PROVE  a + (b - 1) + (c + 1) <= n
OBVIOUS

\* Two are one and one more.
LEMMA AtMostTwo ==
    ASSUME NEW m \in Nat
    PROVE  /\ \A n : n = 1 /\ m <= n + 1 => m <= 2
           /\ m <= 2 => m + 0 + 0 <= 2
OBVIOUS

\* A datagram of the probe: what it is part of, the number of the request and
\* its place in a pair.
Datagram == {"probes", "pairs"} \X Nat \X Nat

\* The echoes that have arrived and were not read
Queued == {arrived[i] : i \in DOMAIN arrived}

\* What the probes were, which of them measure takes for answered (by which
\* echo) and which the network dropped
ProbeIds == {<<"probes", k, 1>> : k \in 1 .. probes}
Answering == {a.echo : a \in {b \in answers : b.asked[1] = "probes"}}
LostProbes == {d \in lost : d[1] = "probes"}

\* What the variables range over.
ProbeTypes ==
    /\ stage \in {"probes", "pairs", "done", "failed"} /\ sends \in Nat
    /\ awaiting \in Nat /\ acks \in Nat /\ probes \in Nat
    /\ timeouts \in BOOLEAN
    /\ up \subseteq Datagram /\ down \subseteq Datagram
    /\ lost \subseteq Datagram
    /\ arrived \in Seq(Datagram) /\ IsFiniteSet(up) /\ IsFiniteSet(down)
    /\ \A a \in answers : a.echo \in Datagram

\* A probe is in one place: on its way, arrived, dropped or taken for an
\* answer.
Apart ==
    \A d \in up \cup down \cup Queued \cup lost \cup Answering :
      d[1] = "probes" =>
        /\ d \in ProbeIds
        /\ ~(d \in up /\ d \in down)
        /\ ~(d \in up \cup down /\ d \in Queued \cup lost \cup Answering)
        /\ ~(d \in Queued /\ d \in lost \cup Answering)
        /\ ~(d \in lost /\ d \in Answering)
        /\ \A i, j \in DOMAIN arrived : arrived[i] = d /\ arrived[j] = d =>
             i = j

\* The acknowledgements counted are the probes taken for answered, each once.
CountInv ==
    /\ Apart
    /\ stage = "probes" =>
         sends = probes /\ \A d \in up \cup down \cup Queued : d[1] = "probes"
    /\ \A d \in Answering : d[1] = "probes"
    /\ IsFiniteSet(Answering) /\ acks = Cardinality(Answering)

\* Before the first timeout, all that is on its way belongs to what is being
\* asked, and no more than is being awaited.
MatchInv ==
    /\ ~timeouts =>
         /\ \A d \in up \cup down \cup Queued : d[1] = stage /\ d[2] = sends
         /\ Cardinality(up) + Cardinality(down) + Len(arrived) <= awaiting
    /\ \A a \in answers : timeouts \/ SubSeq(a.echo, 1, 2) = a.asked

\* The inductive invariant: types, the counting of answers and the matching of
\* echoes to requests.
ProbeInv == ProbeTypes /\ CountInv /\ MatchInv

\* A measurement begins with nothing sent.
LEMMA InitProbe == ProbeInit => ProbeInv
<1> SUFFICES ASSUME ProbeInit PROVE ProbeInv
  BY Zenon
<1>1. /\ stage = "probes" /\ sends = 0 /\ awaiting = 0
      /\ up = {} /\ down = {} /\ arrived = <<>> /\ acks = 0
      /\ probes = 0 /\ lost = {} /\ answers = {} /\ timeouts = FALSE
  BY Zenon DEF ProbeInit
<1>2. Queued = {} /\ Answering = {} /\ DOMAIN arrived = {}
  BY <1>1 DEF Queued, Answering
<1>3. IsFiniteSet({}) /\ Cardinality({}) = 0
  BY FS_EmptySet, Zenon
<1>4. ProbeTypes
  <2>1. arrived \in Seq(Datagram)
    BY <1>1
  <2> QED BY <1>1, <1>3, <2>1, Zenon DEF ProbeTypes
<1>5. CountInv
  BY <1>1, <1>2, <1>3, Zenon DEF CountInv, Apart
<1>6. MatchInv
  BY <1>1, <1>2, <1>3 DEF MatchInv
<1> QED BY <1>4, <1>5, <1>6, Zenon DEF ProbeInv

\* What is queued after an echo has arrived, and after one was read.
LEMMA QueuedAppend ==
    ASSUME ProbeTypes, NEW d \in Datagram, arrived' = Append(arrived, d)
    PROVE  /\ arrived' \in Seq(Datagram) /\ Queued' = Queued \cup {d}
           /\ Len(arrived') = Len(arrived) + 1 /\ Len(arrived) \in Nat
           /\ DOMAIN arrived = 1 .. Len(arrived)
           /\ DOMAIN arrived' = 1 .. Len(arrived) + 1
           /\ \A i \in 1 .. Len(arrived) : arrived'[i] = arrived[i]
           /\ arrived'[Len(arrived) + 1] = d
<1>1. arrived \in Seq(Datagram)
  BY Zenon DEF ProbeTypes
<1>2. /\ arrived' \in Seq(Datagram) /\ Len(arrived') = Len(arrived) + 1
      /\ Len(arrived) \in Nat
      /\ DOMAIN arrived = 1 .. Len(arrived)
      /\ DOMAIN arrived' = 1 .. Len(arrived) + 1
      /\ \A i \in 1 .. Len(arrived) : arrived'[i] = arrived[i]
      /\ arrived'[Len(arrived) + 1] = d
  BY <1>1, SMTT(30)
<1>3. Queued' = Queued \cup {d}
  BY <1>2 DEF Queued
<1> QED BY <1>2, <1>3, Zenon

\* Reading one echo takes the first of those that have arrived, and only that
\* one.
LEMMA QueuedTail ==
    ASSUME ProbeTypes, arrived # <<>>, arrived' = Tail(arrived)
    PROVE  /\ arrived' \in Seq(Datagram) /\ Head(arrived) \in Datagram
           /\ Queued = Queued' \cup {Head(arrived)}
           /\ Len(arrived') = Len(arrived) - 1 /\ Len(arrived') \in Nat
           /\ DOMAIN arrived = 1 .. Len(arrived)
           /\ DOMAIN arrived' = 1 .. Len(arrived) - 1
           /\ \A i \in 1 .. Len(arrived) - 1 : arrived'[i] = arrived[i + 1]
           /\ Head(arrived) = arrived[1] /\ Len(arrived) >= 1
<1>1. arrived \in Seq(Datagram)
  BY Zenon DEF ProbeTypes
<1>2. /\ arrived' \in Seq(Datagram) /\ Head(arrived) \in Datagram
      /\ Len(arrived') = Len(arrived) - 1 /\ Len(arrived') \in Nat
      /\ DOMAIN arrived = 1 .. Len(arrived)
      /\ DOMAIN arrived' = 1 .. Len(arrived) - 1
      /\ \A i \in 1 .. Len(arrived) - 1 : arrived'[i] = arrived[i + 1]
      /\ Head(arrived) = arrived[1] /\ Len(arrived) >= 1
  BY <1>1
<1>3. ASSUME NEW d \in Queued PROVE d \in Queued' \cup {Head(arrived)}
  <2>1. PICK i \in 1 .. Len(arrived) : d = arrived[i]
    BY <1>2, Zenon DEF Queued
  <2>2. CASE i = 1
    BY <1>2, <2>1, <2>2, Zenon
  <2>3. CASE i # 1
    <3>1. i - 1 \in DOMAIN arrived' /\ arrived'[i - 1] = arrived[i]
      BY <1>2, <2>1, <2>3
    <3> QED BY <2>1, <3>1, Zenon DEF Queued
  <2> QED BY <2>2, <2>3, Zenon
<1>4. ASSUME NEW d \in Queued' \cup {Head(arrived)} PROVE d \in Queued
  <2>1. CASE d = Head(arrived)
    BY <1>2, <2>1 DEF Queued
  <2>2. CASE d \in Queued'
    <3>1. PICK i \in 1 .. Len(arrived) - 1 : d = arrived'[i]
      BY <1>2, <2>2, Zenon DEF Queued
    <3>2. i + 1 \in DOMAIN arrived /\ d = arrived[i + 1]
      BY <1>2, <3>1
    <3> QED BY <3>2, Zenon DEF Queued
  <2> QED BY <2>1, <2>2, Zenon
<1> QED BY <1>2, <1>3, <1>4, Zenon

\* Moving a datagram.
LEMMA Removed ==
    ASSUME NEW S, NEW x \in S, IsFiniteSet(S)
    PROVE  /\ IsFiniteSet(S \ {x}) /\ Cardinality(S \ {x}) = Cardinality(S) - 1
           /\ Cardinality(S) \in Nat
BY FS_RemoveElement, FS_CardinalityType, Zenon

\* One more element makes a finite set larger by one at most.
LEMMA Added ==
    ASSUME NEW S, NEW x, IsFiniteSet(S)
    PROVE  /\ IsFiniteSet(S \cup {x})
           /\ Cardinality(S \cup {x}) <= Cardinality(S) + 1
           /\ Cardinality(S) \in Nat /\ Cardinality(S \cup {x}) \in Nat
BY FS_AddElement, FS_CardinalityType, SMTT(30)

\* One element less does not make a finite set larger.
LEMMA Without ==
    ASSUME NEW S, NEW x, IsFiniteSet(S)
    PROVE  /\ IsFiniteSet(S \ {x}) /\ Cardinality(S \ {x}) <= Cardinality(S)
           /\ Cardinality(S) \in Nat /\ Cardinality(S \ {x}) \in Nat
<1>1. S \ {x} \subseteq S
  BY Zenon
<1>2. IsFiniteSet(S \ {x}) /\ Cardinality(S \ {x}) <= Cardinality(S)
  BY <1>1, FS_Subset, Zenon
<1> QED BY <1>2, FS_CardinalityType, Zenon

\* Without a timeout nothing is on its way when nothing is awaited.
LEMMA Quiet ==
    ASSUME ProbeInv, awaiting = 0, ~timeouts
    PROVE  up = {} /\ down = {} /\ arrived = <<>> /\ Queued = {}
<1>1. Cardinality(up) \in Nat /\ Cardinality(down) \in Nat
        /\ Len(arrived) \in Nat
  BY FS_CardinalityType DEF ProbeInv, ProbeTypes
<1>2. Cardinality(up) = 0 /\ Cardinality(down) = 0 /\ Len(arrived) = 0
  BY <1>1 DEF ProbeInv, MatchInv
<1>3. up = {} /\ down = {}
  BY <1>2, FS_EmptySet, Zenon DEF ProbeInv, ProbeTypes
<1>4. arrived = <<>>
  BY <1>2 DEF ProbeInv, ProbeTypes
<1> QED BY <1>3, <1>4 DEF Queued

\* measure sends the next probe: an id that no echo can have yet.
LEMMA SendProbeKeeps == ProbeInv /\ SendProbe => ProbeInv'
<1> SUFFICES ASSUME ProbeInv, SendProbe PROVE ProbeInv'
  BY Zenon
<1> DEFINE new == <<"probes", sends + 1, 1>>
<1>1. ProbeTypes /\ CountInv /\ MatchInv
  BY Zenon DEF ProbeInv
<1>2. /\ stage = "probes" /\ awaiting = 0 /\ up' = up \cup {new}
      /\ sends' = sends + 1 /\ probes' = probes + 1 /\ awaiting' = 1
      /\ stage' = stage /\ down' = down /\ arrived' = arrived /\ acks' = acks
      /\ lost' = lost /\ answers' = answers /\ timeouts' = timeouts
  BY Zenon DEF SendProbe
<1>3. Queued' = Queued /\ Answering' = Answering
  BY <1>2, Zenon DEF Queued, Answering
<1>4. sends = probes /\ sends \in Nat
  BY <1>1, <1>2, Zenon DEF CountInv, ProbeTypes
<1>5. ProbeIds' = ProbeIds \cup {new} /\ new \notin ProbeIds
  BY <1>2, <1>4, SMTT(30) DEF ProbeIds
<1>6. new \in Datagram /\ new[1] = "probes" /\ new[2] = sends'
  BY <1>2, <1>4 DEF Datagram
<1> HIDE DEF new
<1>7. new \notin up \cup down \cup Queued \cup lost \cup Answering
  BY <1>1, <1>5, <1>6, Zenon DEF CountInv, Apart
<1>8. ProbeTypes'
  <2>1. IsFiniteSet(up')
    BY <1>1, <1>2, Added, Zenon DEF ProbeTypes
  <2> QED BY <1>1, <1>2, <1>4, <1>6, <2>1, SMTT(30) DEF ProbeTypes
<1>9. CountInv'
  <2>1. Apart'
    <3> SUFFICES ASSUME NEW d \in up' \cup down' \cup Queued' \cup lost' \cup Answering',
                        d[1] = "probes"
                 PROVE  /\ d \in ProbeIds'
                        /\ ~(d \in up' /\ d \in down')
                        /\ ~(d \in up' \cup down'
                             /\ d \in Queued' \cup lost' \cup Answering')
                        /\ ~(d \in Queued' /\ d \in lost' \cup Answering')
                        /\ ~(d \in lost' /\ d \in Answering')
                        /\ \A i, j \in DOMAIN arrived' : arrived'[i] = d
                             /\ arrived'[j] = d => i = j
      BY Zenon DEF Apart
    <3>1. CASE d = new
      <4>1. \A i \in DOMAIN arrived : arrived[i] # new
        BY <1>7, Zenon DEF Queued
      <4> QED BY <1>2, <1>3, <1>5, <1>7, <3>1, <4>1, Zenon
    <3>2. CASE d # new
      BY <1>1, <1>2, <1>3, <1>5, <3>2, Zenon DEF CountInv, Apart
    <3> QED BY <3>1, <3>2, Zenon
  <2> QED BY <1>1, <1>2, <1>3, <1>4, <1>6, <2>1, Zenon DEF CountInv
<1>10. MatchInv'
  <2>1. ASSUME ~timeouts
        PROVE  /\ \A d \in up' \cup down' \cup Queued' : d[1] = stage'
                    /\ d[2] = sends'
               /\ Cardinality(up') + Cardinality(down') + Len(arrived') <= awaiting'
    <3>1. up = {} /\ down = {} /\ arrived = <<>> /\ Queued = {}
      BY <1>2, <2>1, Quiet, Zenon
    <3>2. up' = {new} /\ Cardinality(up') = 1 /\ Cardinality(down') = 0
            /\ Len(arrived') = 0
      BY <1>2, <3>1, FS_EmptySet, FS_Singleton, Zenon
    <3> QED BY <1>2, <1>3, <1>6, <3>1, <3>2, SMTT(30)
  <2> QED BY <1>1, <1>2, <2>1, Zenon DEF MatchInv
<1> QED BY <1>8, <1>9, <1>10, Zenon DEF ProbeInv

\* The probes are done, or the measurement: nothing is awaited.
LEMMA EndProbesKeeps == ProbeInv /\ (EndProbes \/ Finish) => ProbeInv'
<1> SUFFICES ASSUME ProbeInv, EndProbes \/ Finish PROVE ProbeInv'
  BY Zenon
<1>1. ProbeTypes /\ CountInv /\ MatchInv
  BY Zenon DEF ProbeInv
<1>2. /\ stage' \in {"pairs", "done", "failed"} /\ sends' \in {0, sends}
      /\ awaiting = 0
      /\ awaiting' = awaiting /\ up' = up /\ down' = down /\ arrived' = arrived
      /\ acks' = acks
      /\ probes' = probes /\ lost' = lost /\ answers' = answers
      /\ timeouts' = timeouts
  BY Zenon DEF EndProbes, Finish
<1>3. Queued' = Queued /\ Answering' = Answering /\ ProbeIds' = ProbeIds
  BY <1>2, Zenon DEF Queued, Answering, ProbeIds
<1>4. ProbeTypes'
  BY <1>1, <1>2, Zenon DEF ProbeTypes
<1>5. CountInv'
  <2>1. Apart'
    BY <1>1, <1>2, <1>3 DEF CountInv, Apart
  <2> QED BY <1>1, <1>2, <1>3, <2>1, ZenonT(30) DEF CountInv
<1>6. MatchInv'
  <2>1. ASSUME ~timeouts
        PROVE  up' = {} /\ down' = {} /\ Queued' = {}
    BY <1>2, <1>3, <2>1, Quiet, Zenon
  <2> QED BY <1>1, <1>2, <2>1, Zenon DEF MatchInv
<1> QED BY <1>4, <1>5, <1>6, Zenon DEF ProbeInv

\* measure sends the two datagrams of a pair.
LEMMA SendPairKeeps == ProbeInv /\ SendPair => ProbeInv'
<1> SUFFICES ASSUME ProbeInv, SendPair PROVE ProbeInv'
  BY Zenon
<1> DEFINE one == <<"pairs", sends + 1, 1>>
           two == <<"pairs", sends + 1, 2>>
<1>1. ProbeTypes /\ CountInv /\ MatchInv
  BY Zenon DEF ProbeInv
<1>2. /\ stage = "pairs" /\ awaiting = 0 /\ up' = (up \cup {one}) \cup {two}
      /\ sends' = sends + 1 /\ probes' = probes /\ awaiting' = 2
      /\ stage' = stage /\ down' = down /\ arrived' = arrived /\ acks' = acks
      /\ lost' = lost /\ answers' = answers /\ timeouts' = timeouts
  BY DEF SendPair
<1>3. Queued' = Queued /\ Answering' = Answering /\ ProbeIds' = ProbeIds
  BY <1>2, Zenon DEF Queued, Answering, ProbeIds
<1>4. sends \in Nat
  BY <1>1, Zenon DEF ProbeTypes
<1>5. /\ one \in Datagram /\ one[1] = "pairs" /\ one[2] = sends'
      /\ two \in Datagram /\ two[1] = "pairs" /\ two[2] = sends'
  BY <1>2, <1>4, SMTT(30) DEF Datagram
<1> HIDE DEF one, two
<1>6. ProbeTypes'
  <2>1. IsFiniteSet(up')
    BY <1>1, <1>2, Added, Zenon DEF ProbeTypes
  <2> QED BY <1>1, <1>2, <1>4, <1>5, <2>1, SMTT(30) DEF ProbeTypes
<1>7. CountInv'
  <2>1. Apart'
    <3> SUFFICES ASSUME NEW d \in up' \cup down' \cup Queued' \cup lost'
                                      \cup Answering', d[1] = "probes"
                 PROVE  /\ d \in ProbeIds'
                        /\ ~(d \in up' /\ d \in down')
                        /\ ~(/\ d \in up' \cup down'
                             /\ d \in Queued' \cup lost' \cup Answering')
                        /\ ~(d \in Queued' /\ d \in lost' \cup Answering')
                        /\ ~(d \in lost' /\ d \in Answering')
                        /\ \A i, j \in DOMAIN arrived' :
                             arrived'[i] = d /\ arrived'[j] = d => i = j
      BY Zenon DEF Apart
    <3>1. "probes" # "pairs"
      OBVIOUS
    <3>2. d # one /\ d # two
      BY <1>5, <3>1, Zenon
    <3>3. d \in up' <=> d \in up
      BY <1>2, <3>2, Zenon
    <3> QED BY <1>1, <1>2, <1>3, <3>3, Zenon DEF CountInv, Apart
  <2> QED BY <1>1, <1>2, <1>3, <2>1, Zenon DEF CountInv
<1>8. MatchInv'
  <2>1. ASSUME ~timeouts
        PROVE  /\ \A d \in up' \cup down' \cup Queued' : d[1] = stage'
                    /\ d[2] = sends'
               /\ Cardinality(up') + Cardinality(down') + Len(arrived') <= awaiting'
    <3>1. up = {} /\ down = {} /\ arrived = <<>> /\ Queued = {}
      BY <1>2, <2>1, Quiet, Zenon
    <3>2. IsFiniteSet({one}) /\ Cardinality({one}) = 1
            /\ Cardinality(down') = 0 /\ Len(arrived') = 0
      BY <1>2, <3>1, FS_EmptySet, FS_Singleton, Zenon
    <3>3. up' = {one} \cup {two}
      BY <1>2, <3>1, Zenon
    <3>4. Cardinality(up') <= 2 /\ Cardinality(up') \in Nat
      <4>1. /\ Cardinality({one} \cup {two}) <= Cardinality({one}) + 1
            /\ Cardinality({one} \cup {two}) \in Nat
        BY <3>2, Added, Zenon
      <4>2. Cardinality(up') = Cardinality({one} \cup {two})
        BY <3>3, Zenon
      <4>3. Cardinality({one} \cup {two}) <= 2
        BY <3>2, <4>1, AtMostTwo, Zenon
      <4> QED BY <4>1, <4>2, <4>3, Zenon
    <3>5. Cardinality(up') + 0 + 0 <= awaiting'
      BY <1>2, <3>4, AtMostTwo, Zenon
    <3>6. Cardinality(up') + Cardinality(down') + Len(arrived') <= awaiting'
      BY <3>2, <3>5, Zenon
    <3> QED BY <1>2, <1>3, <1>5, <3>1, <3>3, <3>6, Zenon
  <2> QED BY <1>1, <1>2, <2>1, Zenon DEF MatchInv
<1> QED BY <1>6, <1>7, <1>8, Zenon DEF ProbeInv

\* The request an echo belongs to is told by its first two fields.
LEMMA FirstTwo ==
    ASSUME NEW a, NEW b, NEW c
    PROVE  SubSeq(<<a, b, c>>, 1, 2) = <<a, b>>
<1> DEFINE s == <<a, b, c>>
           t == <<a, b>>
<1>1. s \in Seq({a, b, c}) /\ Len(s) = 3
  BY SMTT(30)
<1>2. /\ SubSeq(s, 1, 2) \in Seq({a, b, c}) /\ Len(SubSeq(s, 1, 2)) = 2
      /\ SubSeq(s, 1, 2)[1] = s[1] /\ SubSeq(s, 1, 2)[2] = s[2]
  BY <1>1
<1>3. t \in Seq({a, b, c}) /\ Len(t) = 2 /\ t[1] = s[1] /\ t[2] = s[2]
  BY SMTT(30)
<1>4. \A i \in 1 .. Len(t) : SubSeq(s, 1, 2)[i] = t[i]
  BY <1>2, <1>3
<1> HIDE DEF s, t
<1>5. SubSeq(s, 1, 2) = t
  BY <1>2, <1>3, <1>4, SeqSame, Zenon
<1> QED BY <1>5, Zenon DEF s, t

\* measure reads an echo, and takes it for an answer or gives up after a
\* timeout: before the first timeout it is the echo of what was asked.
LEMMA ReadEchoKeeps == ProbeInv /\ ReadEcho => ProbeInv'
<1> SUFFICES ASSUME ProbeInv, ReadEcho PROVE ProbeInv'
  BY Zenon
<1> DEFINE h == Head(arrived)
           answer == [asked |-> <<stage, sends>>, echo |-> h]
<1>1. ProbeTypes /\ CountInv /\ MatchInv
  BY Zenon DEF ProbeInv
<1>2. /\ awaiting > 0 /\ arrived # <<>> /\ arrived' = Tail(arrived)
      /\ awaiting' = awaiting - 1
      /\ acks' = (IF stage = "probes" THEN acks + 1 ELSE acks)
      /\ answers' = answers \cup {answer}
      /\ stage' = stage /\ sends' = sends /\ up' = up /\ down' = down
      /\ probes' = probes /\ lost' = lost /\ timeouts' = timeouts
  BY Zenon DEF ReadEcho
<1>3. /\ arrived' \in Seq(Datagram) /\ h \in Datagram
      /\ Queued = Queued' \cup {h}
      /\ Len(arrived') = Len(arrived) - 1 /\ Len(arrived') \in Nat
      /\ DOMAIN arrived = 1 .. Len(arrived)
      /\ DOMAIN arrived' = 1 .. Len(arrived) - 1
      /\ \A i \in 1 .. Len(arrived) - 1 : arrived'[i] = arrived[i + 1]
      /\ h = arrived[1] /\ Len(arrived) >= 1
  BY <1>1, <1>2, QueuedTail, Zenon
<1>4. ProbeIds' = ProbeIds
  BY <1>2, Zenon DEF ProbeIds
<1>5. Answering' = IF stage = "probes" THEN Answering \cup {h} ELSE Answering
  <2>1. answer.echo = h /\ answer.asked[1] = stage
    BY Zenon
  <2> QED BY <1>2, <2>1, Zenon DEF Answering
<1>6. ProbeTypes'
  BY <1>1, <1>2, <1>3 DEF ProbeTypes
<1>7. h[1] = "probes" => h \notin Queued'
        /\ h \notin up \cup down \cup lost \cup Answering
  <2> SUFFICES ASSUME h[1] = "probes"
               PROVE  h \notin Queued'
                        /\ h \notin up \cup down \cup lost \cup Answering
    BY Zenon
  <2>1. h \notin up \cup down \cup lost \cup Answering
    BY <1>1, <1>3, Zenon DEF CountInv, Apart
  <2>2. ASSUME NEW i \in 1 .. Len(arrived) - 1, arrived'[i] = h PROVE FALSE
    <3>1. arrived[i + 1] = h /\ i + 1 \in DOMAIN arrived
            /\ 1 \in DOMAIN arrived /\ i + 1 # 1
      BY <1>3, <2>2
    <3> QED BY <1>1, <1>3, <3>1, Zenon DEF CountInv, Apart
  <2> QED BY <1>3, <2>1, <2>2, Zenon DEF Queued
<1>8. CountInv'
  <2>1. \A d \in Queued' : d[1] = "probes" =>
           \A i, j \in DOMAIN arrived' : arrived'[i] = d /\ arrived'[j] = d =>
             i = j
    <3> SUFFICES ASSUME NEW d \in Queued', d[1] = "probes",
                        NEW i \in 1 .. Len(arrived) - 1,
                        NEW j \in 1 .. Len(arrived) - 1, arrived'[i] = d,
                        arrived'[j] = d
                 PROVE  i = j
      BY <1>3, Zenon
    <3>1. arrived[i + 1] = d /\ arrived[j + 1] = d /\ i + 1 \in DOMAIN arrived
            /\ j + 1 \in DOMAIN arrived
      BY <1>3
    <3>2. i + 1 = j + 1
      BY <1>1, <1>3, <3>1, Zenon DEF CountInv, Apart
    <3> QED BY <1>3, <3>2
  <2>2. \A d : d \notin Queued' => \A i \in DOMAIN arrived' : arrived'[i] # d
    BY Zenon DEF Queued
  <2>3. Apart'
    <3> SUFFICES ASSUME NEW e \in up' \cup down' \cup Queued' \cup lost' \cup Answering',
                        e[1] = "probes"
                 PROVE  /\ e \in ProbeIds'
                        /\ ~(e \in up' /\ e \in down')
                        /\ ~(e \in up' \cup down'
                             /\ e \in Queued' \cup lost' \cup Answering')
                        /\ ~(e \in Queued' /\ e \in lost' \cup Answering')
                        /\ ~(e \in lost' /\ e \in Answering')
      BY <2>1, <2>2, Zenon DEF Apart
    <3>1. CASE e = h
      <4>1. /\ e \notin up' /\ e \notin down' /\ e \notin Queued'
            /\ e \notin lost'
        BY <1>2, <1>7, <3>1, Zenon
      <4>2. e \in ProbeIds'
        BY <1>1, <1>3, <1>4, <3>1, Zenon DEF CountInv, Apart
      <4> QED BY <4>1, <4>2, Zenon
    <3>2. CASE e # h
      <4>1. /\ e \in Queued' <=> e \in Queued
            /\ e \in Answering' <=> e \in Answering
            /\ up' = up /\ down' = down /\ lost' = lost /\ ProbeIds' = ProbeIds
        BY <1>2, <1>3, <1>4, <1>5, <3>2, Zenon
      <4>2. /\ e \in ProbeIds /\ ~(e \in up /\ e \in down)
            /\ ~(e \in up \cup down /\ e \in Queued \cup lost \cup Answering)
            /\ ~(e \in Queued /\ e \in lost \cup Answering)
            /\ ~(e \in lost /\ e \in Answering)
        BY <1>1, <4>1, Zenon DEF CountInv, Apart
      <4> QED BY <4>1, <4>2, Zenon
    <3> QED BY <3>1, <3>2, Zenon
  <2>4. CASE stage = "probes"
    <3>1. h[1] = "probes" /\ h \notin Answering
      BY <1>1, <1>3, <1>7, <2>4, Zenon DEF CountInv
    <3>2. IsFiniteSet(Answering')
            /\ Cardinality(Answering') = Cardinality(Answering) + 1
      BY <1>1, <1>5, <2>4, <3>1, FS_AddElement, Zenon DEF CountInv
    <3> QED BY <1>1, <1>2, <1>3, <1>5, <2>3, <2>4, <3>1, <3>2, Zenon DEF CountInv
  <2>5. CASE stage # "probes"
    BY <1>1, <1>2, <1>5, <2>3, <2>5, Zenon DEF CountInv
  <2> QED BY <2>4, <2>5, Zenon
<1>9. MatchInv'
  <2>1. ASSUME ~timeouts
        PROVE  SubSeq(h, 1, 2) = <<stage, sends>>
    <3>1. h[1] = stage /\ h[2] = sends
      BY <1>1, <1>3, <2>1, Zenon DEF MatchInv
    <3>2. PICK s \in {"probes", "pairs"}, k \in Nat, i \in Nat : h = <<s, k, i>>
      BY <1>3, SMTT(30) DEF Datagram
    <3> QED BY <3>1, <3>2, FirstTwo
  <2>2. ASSUME ~timeouts
        PROVE  Cardinality(up') + Cardinality(down') + Len(arrived') <= awaiting'
    <3>1. Cardinality(up) \in Nat /\ Cardinality(down) \in Nat
            /\ awaiting \in Nat
      BY <1>1, FS_CardinalityType, Zenon DEF ProbeTypes
    <3>2. Cardinality(up) + Cardinality(down) + Len(arrived) <= awaiting
      BY <1>1, <2>2, Zenon DEF MatchInv
    <3> QED BY <1>2, <1>3, <3>1, <3>2, SMTT(30)
  <2>3. answer.echo = h /\ answer.asked = <<stage, sends>>
    BY Zenon
  <2> QED BY <1>1, <1>2, <1>3, <2>1, <2>2, <2>3, Zenon DEF MatchInv
<1> QED BY <1>6, <1>8, <1>9, Zenon DEF ProbeInv

\* The peer echoes a datagram or the network drops it: it stays in one place.
LEMMA NetworkKeeps == ProbeInv /\ (Echo \/ Drop) => ProbeInv'
<1> SUFFICES ASSUME ProbeInv, Echo \/ Drop PROVE ProbeInv'
  BY Zenon
<1>1. ProbeTypes /\ CountInv /\ MatchInv
  BY Zenon DEF ProbeInv
<1>2. /\ stage' = stage /\ sends' = sends /\ awaiting' = awaiting
      /\ arrived' = arrived
      /\ acks' = acks /\ probes' = probes /\ answers' = answers
      /\ timeouts' = timeouts
  BY Zenon DEF Echo, Drop
<1>3. PICK d \in up \cup down :
         \/ d \in up /\ up' = up \ {d} /\ down' = down \cup {d} /\ lost' = lost
         \/ up' = up \ {d} /\ down' = down \ {d} /\ lost' = lost \cup {d}
  BY Zenon DEF Echo, Drop
<1>4. Queued' = Queued /\ Answering' = Answering /\ ProbeIds' = ProbeIds
  BY <1>2, Zenon DEF Queued, Answering, ProbeIds
<1>5. /\ IsFiniteSet(up') /\ IsFiniteSet(down')
      /\ Cardinality(up) \in Nat /\ Cardinality(down) \in Nat
      /\ Cardinality(up') \in Nat /\ Cardinality(down') \in Nat
      /\ Cardinality(up') + Cardinality(down') <= Cardinality(up) + Cardinality(down)
  <2>1. IsFiniteSet(up) /\ IsFiniteSet(down)
    BY <1>1, Zenon DEF ProbeTypes
  <2>2. /\ Cardinality(up) \in Nat /\ Cardinality(down) \in Nat
        /\ IsFiniteSet(up \ {d}) /\ IsFiniteSet(down \ {d})
        /\ Cardinality(up \ {d}) \in Nat /\ Cardinality(down \ {d}) \in Nat
        /\ Cardinality(up \ {d}) <= Cardinality(up)
        /\ Cardinality(down \ {d}) <= Cardinality(down)
    BY <2>1, Without, Zenon
  <2>3. CASE d \in up /\ up' = up \ {d} /\ down' = down \cup {d}
    <3>1. Cardinality(up') = Cardinality(up) - 1
      BY <2>1, <2>3, Removed, Zenon
    <3>2. /\ IsFiniteSet(down') /\ Cardinality(down') <= Cardinality(down) + 1
          /\ Cardinality(down') \in Nat
      BY <2>1, <2>3, Added, Zenon
    <3> QED BY <2>2, <2>3, <3>1, <3>2, SMTT(30)
  <2>4. CASE up' = up \ {d} /\ down' = down \ {d}
    BY <2>2, <2>4
  <2> QED BY <1>3, <2>3, <2>4, Zenon
<1>6. ProbeTypes'
  BY <1>1, <1>2, <1>3, <1>5, Zenon DEF ProbeTypes
<1>7. CountInv'
  <2>1. Apart'
    <3> SUFFICES ASSUME NEW e \in up' \cup down' \cup Queued' \cup lost' \cup Answering',
                        e[1] = "probes"
                 PROVE  /\ e \in ProbeIds'
                        /\ ~(e \in up' /\ e \in down')
                        /\ ~(e \in up' \cup down'
                             /\ e \in Queued' \cup lost' \cup Answering')
                        /\ ~(e \in Queued' /\ e \in lost' \cup Answering')
                        /\ ~(e \in lost' /\ e \in Answering')
                        /\ \A i, j \in DOMAIN arrived' :
                             arrived'[i] = e /\ arrived'[j] = e => i = j
      BY Zenon DEF Apart
    <3>1. e \in up \cup down \cup Queued \cup lost \cup Answering
      BY <1>3, <1>4, Zenon
    <3>2. /\ e \in ProbeIds /\ ~(e \in up /\ e \in down)
          /\ ~(e \in up \cup down /\ e \in Queued \cup lost \cup Answering)
          /\ ~(e \in Queued /\ e \in lost \cup Answering)
          /\ ~(e \in lost /\ e \in Answering)
          /\ \A i, j \in DOMAIN arrived :
               arrived[i] = e /\ arrived[j] = e => i = j
      BY <1>1, <3>1, Zenon DEF CountInv, Apart
    <3>3. /\ e \in Queued' <=> e \in Queued
          /\ e \in Answering' <=> e \in Answering
          /\ ProbeIds' = ProbeIds /\ arrived' = arrived
      BY <1>2, <1>4, Zenon
    <3>4. CASE e = d
      <4>1. /\ e \notin up' /\ e \notin Queued' /\ e \notin Answering'
            /\ ~(e \in down' /\ e \in lost')
        BY <1>3, <3>2, <3>3, <3>4, Zenon
      <4> QED BY <3>2, <3>3, <4>1, Zenon
    <3>5. CASE e # d
      <4>1. /\ e \in up' <=> e \in up
            /\ e \in down' <=> e \in down
            /\ e \in lost' <=> e \in lost
        BY <1>3, <3>5, Zenon
      <4> QED BY <3>2, <3>3, <4>1, Zenon
    <3> QED BY <3>4, <3>5, Zenon
  <2> QED BY <1>1, <1>2, <1>3, <1>4, <2>1, Zenon DEF CountInv
<1>8. MatchInv'
  <2>1. ASSUME ~timeouts
        PROVE  Cardinality(up') + Cardinality(down') + Len(arrived') <= awaiting'
    <3>1. Len(arrived) \in Nat /\ awaiting \in Nat
      BY <1>1 DEF ProbeTypes
    <3>2. Cardinality(up) + Cardinality(down) + Len(arrived) <= awaiting
      BY <1>1, <2>1, Zenon DEF MatchInv
    <3> QED BY <1>2, <1>5, <3>1, <3>2, SMTT(30)
  <2>2. up' \cup down' \subseteq up \cup down
    BY <1>3, Zenon
  <2> QED BY <1>1, <1>2, <1>4, <2>1, <2>2, Zenon DEF MatchInv
<1> QED BY <1>6, <1>7, <1>8, Zenon DEF ProbeInv

\* An echo arrives: it leaves the network for the socket's queue.
LEMMA ArriveKeeps == ProbeInv /\ Arrive => ProbeInv'
<1> SUFFICES ASSUME ProbeInv, Arrive PROVE ProbeInv'
  BY Zenon
<1>1. ProbeTypes /\ CountInv /\ MatchInv
  BY Zenon DEF ProbeInv
<1>2. /\ stage' = stage /\ sends' = sends /\ awaiting' = awaiting /\ up' = up
      /\ acks' = acks /\ probes' = probes /\ lost' = lost /\ answers' = answers
      /\ timeouts' = timeouts
  BY Zenon DEF Arrive
<1>3. PICK d \in down : down' = down \ {d} /\ arrived' = Append(arrived, d)
  BY Zenon DEF Arrive
<1>4. d \in Datagram
  BY <1>1, <1>3, Zenon DEF ProbeTypes
<1>5. /\ arrived' \in Seq(Datagram) /\ Queued' = Queued \cup {d}
      /\ Len(arrived') = Len(arrived) + 1 /\ Len(arrived) \in Nat
      /\ DOMAIN arrived = 1 .. Len(arrived)
      /\ DOMAIN arrived' = 1 .. Len(arrived) + 1
      /\ \A i \in 1 .. Len(arrived) : arrived'[i] = arrived[i]
      /\ arrived'[Len(arrived) + 1] = d
  BY <1>1, <1>3, <1>4, QueuedAppend, Zenon
<1>6. Answering' = Answering /\ ProbeIds' = ProbeIds
  BY <1>2, Zenon DEF Answering, ProbeIds
<1>7. /\ IsFiniteSet(down') /\ Cardinality(down') = Cardinality(down) - 1
      /\ Cardinality(down) \in Nat
  BY <1>1, <1>3, Removed, Zenon DEF ProbeTypes
<1>8. ProbeTypes'
  BY <1>1, <1>2, <1>3, <1>5, <1>7, Zenon DEF ProbeTypes
<1>9. CountInv'
  <2>1. \A e \in Queued' : e[1] = "probes" =>
           \A i, j \in DOMAIN arrived' : arrived'[i] = e /\ arrived'[j] = e =>
             i = j
    <3> SUFFICES ASSUME NEW e \in Queued', e[1] = "probes",
                        NEW i \in DOMAIN arrived',
                        NEW j \in DOMAIN arrived', arrived'[i] = e,
                        arrived'[j] = e
                 PROVE  i = j
      BY Zenon
    <3>1. CASE e = d
      <4>1. d \notin Queued
        BY <1>1, <1>3, <3>1, Zenon DEF CountInv, Apart
      <4>2. \A k \in DOMAIN arrived : arrived[k] # d
        BY <4>1, Zenon DEF Queued
      <4> QED BY <1>5, <3>1, <4>2
    <3>2. CASE e # d
      <4>1. e \in Queued /\ i \in DOMAIN arrived /\ j \in DOMAIN arrived
        BY <1>5, <3>2
      <4>2. arrived[i] = e /\ arrived[j] = e
        BY <1>5, <4>1, Zenon
      <4> QED BY <1>1, <4>1, <4>2, Zenon DEF CountInv, Apart
    <3> QED BY <3>1, <3>2, Zenon
  <2>2. \A e : e \notin Queued' => \A i \in DOMAIN arrived' : arrived'[i] # e
    BY Zenon DEF Queued
  <2>3. Apart'
    <3> SUFFICES ASSUME NEW e \in up' \cup down' \cup Queued' \cup lost' \cup Answering',
                        e[1] = "probes"
                 PROVE  /\ e \in ProbeIds'
                        /\ ~(e \in up' /\ e \in down')
                        /\ ~(e \in up' \cup down'
                             /\ e \in Queued' \cup lost' \cup Answering')
                        /\ ~(e \in Queued' /\ e \in lost' \cup Answering')
                        /\ ~(e \in lost' /\ e \in Answering')
      BY <2>1, <2>2, Zenon DEF Apart
    <3>1. e \in up \cup down \cup Queued \cup lost \cup Answering
      BY <1>2, <1>3, <1>5, <1>6, Zenon
    <3>2. /\ e \in ProbeIds /\ ~(e \in up /\ e \in down)
          /\ ~(e \in up \cup down /\ e \in Queued \cup lost \cup Answering)
          /\ ~(e \in Queued /\ e \in lost \cup Answering)
          /\ ~(e \in lost /\ e \in Answering)
      BY <1>1, <3>1, Zenon DEF CountInv, Apart
    <3>3. /\ up' = up /\ lost' = lost /\ Answering' = Answering
          /\ ProbeIds' = ProbeIds
      BY <1>2, <1>6, Zenon
    <3>4. CASE e = d
      <4>1. e \notin up' /\ e \notin down' /\ e \notin lost' /\ e \notin Answering'
        BY <1>3, <3>2, <3>3, <3>4, Zenon
      <4> QED BY <3>2, <3>3, <4>1, Zenon
    <3>5. CASE e # d
      <4>1. /\ e \in down' <=> e \in down
            /\ e \in Queued' <=> e \in Queued
        BY <1>3, <1>5, <3>5, Zenon
      <4> QED BY <3>2, <3>3, <4>1, Zenon
    <3> QED BY <3>4, <3>5, Zenon
  <2> QED BY <1>1, <1>2, <1>3, <1>5, <1>6, <2>3, Zenon DEF CountInv
<1>10. MatchInv'
  <2>1. ASSUME ~timeouts
        PROVE  Cardinality(up') + Cardinality(down') + Len(arrived') <= awaiting'
    <3>1. Cardinality(up) \in Nat /\ awaiting \in Nat
      BY <1>1, FS_CardinalityType, Zenon DEF ProbeTypes
    <3>2. Cardinality(up) + Cardinality(down) + Len(arrived) <= awaiting
      BY <1>1, <2>1, Zenon DEF MatchInv
    <3>3. Cardinality(up) + (Cardinality(down) - 1) + (Len(arrived) + 1) <= awaiting
      BY <1>5, <1>7, <3>1, <3>2, OneAcross, Zenon
    <3> QED BY <1>2, <1>5, <1>7, <3>3, Zenon
  <2>2. up' \cup down' \cup Queued' \subseteq up \cup down \cup Queued
    BY <1>2, <1>3, <1>5, Zenon
  <2> QED BY <1>1, <1>2, <2>1, <2>2, Zenon DEF MatchInv
<1> QED BY <1>8, <1>9, <1>10, Zenon DEF ProbeInv

\* Every step of the measurement keeps the invariant.
LEMMA ProbeStepKeeps == ProbeInv /\ [ProbeNext]_probeVars => ProbeInv'
<1> SUFFICES ASSUME ProbeInv, [ProbeNext]_probeVars PROVE ProbeInv'
  BY Zenon
<1>1. CASE ReadTimesOut
  <2>1. ProbeTypes /\ CountInv /\ MatchInv
    BY Zenon DEF ProbeInv
  <2>2. /\ awaiting' = 0 /\ timeouts' = TRUE /\ stage' = stage /\ sends' = sends
        /\ up' = up /\ down' = down /\ arrived' = arrived /\ acks' = acks
        /\ probes' = probes
        /\ lost' = lost /\ answers' = answers
    BY <1>1, Zenon DEF ReadTimesOut
  <2>3. Queued' = Queued /\ Answering' = Answering /\ ProbeIds' = ProbeIds
    BY <2>2, Zenon DEF Queued, Answering, ProbeIds
  <2>4. ProbeTypes'
    BY <2>1, <2>2, Zenon DEF ProbeTypes
  <2>5. CountInv'
    BY <2>1, <2>2, <2>3, Zenon DEF CountInv, Apart
  <2>6. MatchInv'
    BY <2>2, Zenon DEF MatchInv
  <2> QED BY <2>4, <2>5, <2>6, Zenon DEF ProbeInv
<1>2. CASE UNCHANGED probeVars
  <2>1. ProbeTypes /\ CountInv /\ MatchInv
    BY Zenon DEF ProbeInv
  <2>2. ProbeTypes'
    BY <1>2, <2>1, Zenon DEF probeVars, ProbeTypes
  <2>3. Queued' = Queued /\ Answering' = Answering /\ ProbeIds' = ProbeIds
    BY <1>2, Zenon DEF probeVars, Queued, Answering, ProbeIds
  <2>4. CountInv'
    BY <1>2, <2>1, <2>3, Zenon DEF probeVars, CountInv, Apart
  <2>5. MatchInv'
    BY <1>2, <2>1, <2>3, Zenon DEF probeVars, MatchInv
  <2> QED BY <2>2, <2>4, <2>5, Zenon DEF ProbeInv
<1> QED BY <1>1, <1>2, SendProbeKeeps, EndProbesKeeps, SendPairKeeps,
           ReadEchoKeeps,
           NetworkKeeps, ArriveKeeps, Zenon DEF ProbeNext

\* A probe counts as answered or as lost, never as both.
LEMMA ProbeInvIsSound == ProbeInv => ProbeIsSound
<1> SUFFICES ASSUME ProbeInv PROVE acks + Cardinality(LostProbes) <= probes
  BY Zenon DEF ProbeInv, MatchInv, ProbeIsSound, LostProbes
<1>1. ProbeTypes /\ CountInv
  BY Zenon DEF ProbeInv
<1> DEFINE id == [k \in 1 .. probes |-> <<"probes", k, 1>>]
<1>2. IsFiniteSet(1 .. probes) /\ Cardinality(1 .. probes) = probes
  BY <1>1, FS_Interval DEF ProbeTypes
<1>3. id \in Surjection(1 .. probes, ProbeIds)
  BY Zenon DEF ProbeIds, Surjection
<1>4. IsFiniteSet(ProbeIds) /\ Cardinality(ProbeIds) <= probes
  BY <1>2, <1>3, FS_Surjection
<1>5. LostProbes \subseteq ProbeIds /\ Answering \subseteq ProbeIds
        /\ LostProbes \cap Answering = {}
  BY <1>1, Zenon DEF CountInv, Apart, LostProbes
<1>6. IsFiniteSet(LostProbes) /\ IsFiniteSet(Answering)
  BY <1>4, <1>5, FS_Subset, Zenon
<1>7. /\ IsFiniteSet(LostProbes \cup Answering)
      /\ Cardinality(LostProbes \cup Answering) =
            Cardinality(LostProbes) + Cardinality(Answering) - Cardinality(LostProbes \cap Answering)
  BY <1>6, FS_Union, Zenon
<1>8. Cardinality(LostProbes \cap Answering) = 0
  BY <1>5, FS_EmptySet, Zenon
<1>9. Cardinality(LostProbes \cup Answering) <= Cardinality(ProbeIds)
  BY <1>4, <1>5, FS_Subset, Zenon
<1>10. /\ Cardinality(LostProbes) \in Nat /\ Cardinality(Answering) \in Nat
       /\ Cardinality(ProbeIds) \in Nat /\ probes \in Nat
  BY <1>1, <1>4, <1>6, FS_CardinalityType, Zenon DEF ProbeTypes
<1> QED BY <1>1, <1>4, <1>7, <1>8, <1>9, <1>10, SMTT(30) DEF CountInv

\* What the probe reports is sound for every number of probes, losses, delays
\* and timeouts: the acknowledgements counted never exceed the probes the
\* network returned, and an answer is that of its request unless a timeout came
\* first.
THEOREM ProbeIsAlwaysSound == ProbeSpec => []ProbeIsSound
<1>1. ProbeSpec => []ProbeInv
  BY InitProbe, ProbeStepKeeps, PTL DEF ProbeSpec
<1> QED BY <1>1, ProbeInvIsSound, PTL
-----------------------------------------------------------------------------
(***************************************************************************)
(* The files of sct-daemon load after a crash at any point, for any number *)
(* of tasks and lines, unless two tasks wrote a snapshot at once, or       *)
(* appended to the log at once, or a crash came between a line and its     *)
(* newline.                                                                *)
(***************************************************************************)

FilesTypes ==
    /\ lines \in Seq({"line", "newline"})
    /\ task \in [FileTasks -> {"idle", "line", "opened", "written"}]
    /\ appends \in BOOLEAN /\ writes \in BOOLEAN /\ torn \in BOOLEAN

(* Until two tasks write at once, one at most holds the temporary file,    *)
(* which is never the snapshot; it renames what it has written completely. *)
OneWriter ==
    \A t \in FileTasks : task[t] \in {"opened", "written"} => ~Others(t, {"opened", "written"})

SnapshotInv ==
    /\ tmp \in Inodes \cup {0} /\ snapshot \in Inodes \cup {0}
    /\ content \in [Inodes -> {"empty", "whole", "mixed"}]
    /\ fd \in [FileTasks -> Inodes \cup {0}]
    /\ OneWriter
    /\ tmp # 0 => tmp # snapshot
    /\ snapshot # 0 => content[snapshot] = "whole"
    /\ \A t \in FileTasks :
         /\ task[t] = "opened" => fd[t] = tmp /\ tmp # 0 /\ content[tmp] = "empty"
         /\ task[t] = "written" => tmp # 0 /\ content[tmp] = "whole"
         /\ task[t] # "opened" => fd[t] = 0

(* With one task at a time and no torn line, a line without its newline is *)
(* the last one, and the task that wrote it is about to write the newline. *)
LogInv ==
    /\ LogLoads
    /\ lines # << >> /\ lines[Len(lines)] = "line" => \E t \in FileTasks : task[t] = "line"
    /\ \A t \in FileTasks : task[t] = "line" => ~Others(t, {"line"})

FilesInv ==
    /\ FilesTypes
    /\ ~writes => SnapshotInv
    /\ ~appends /\ ~torn => LogInv

-----------------------------------------------------------------------------
(* There are always an inode for the snapshot and one for its successor. *)
LEMMA TwoInodes == 1 \in Inodes /\ 2 \in Inodes /\ 0 \notin Inodes
<1>1. Cardinality(FileTasks) \in Nat
  BY FilesAssumption, FS_CardinalityType, Zenon
<1> QED BY <1>1 DEF Inodes

(* Appending to the log *)
LEMMA LinesAppend ==
    ASSUME NEW l \in Seq({"line", "newline"}), NEW x \in {"line", "newline"}
    PROVE  /\ Append(l, x) \in Seq({"line", "newline"}) /\ Append(l, x) # << >>
           /\ Len(Append(l, x)) = Len(l) + 1 /\ Len(l) \in Nat
           /\ Append(l, x)[Len(l) + 1] = x
           /\ \A i \in 1 .. Len(l) : Append(l, x)[i] = l[i]
           /\ Len(l) > 0 => l # << >>
OBVIOUS

(* The line of an event is written. *)
LEMMA WriteLineStep ==
    ASSUME FilesInv, NEW t \in FileTasks, WriteLine(t)
    PROVE  FilesInv'
<1>1. /\ FilesTypes /\ task[t] = "idle" /\ lines' = Append(lines, "line")
      /\ task' = [task EXCEPT ![t] = "line"] /\ appends' = (appends \/ Others(t, {"line"}))
      /\ UNCHANGED <<daemon, tmp, snapshot, content, fd, writes, torn>>
  BY Zenon DEF FilesInv, WriteLine
<1>2. FilesTypes'
  BY <1>1, LinesAppend, Zenon DEF FilesTypes
<1>3. ASSUME ~writes' PROVE SnapshotInv'
  <2>1. SnapshotInv
    BY <1>1, <1>3, Zenon DEF FilesInv
  <2>2. \A u \in FileTasks : u # t => task'[u] = task[u]
    BY <1>1, Zenon DEF FilesTypes
  <2>3. task'[t] = "line"
    BY <1>1, Zenon DEF FilesTypes
  <2>4. OneWriter'
    BY <2>1, <2>2, <2>3, Zenon DEF SnapshotInv, OneWriter, Others
  <2> QED BY <1>1, <2>1, <2>2, <2>3, <2>4, Zenon DEF SnapshotInv
<1>4. ASSUME ~appends', ~torn' PROVE LogInv'
  <2>1. LogInv /\ ~Others(t, {"line"}) /\ task'[t] = "line"
    BY <1>1, <1>4, Zenon DEF FilesInv, FilesTypes
  <2>2. \A u \in FileTasks : task[u] # "line" /\ (u # t => task'[u] = task[u])
    BY <1>1, <2>1, Zenon DEF Others, FilesTypes
  <2>3. lines = << >> \/ lines[Len(lines)] # "line"
    BY <2>1, <2>2, Zenon DEF LogInv
  <2>4. LogLoads'
    <3>1. lines \in Seq({"line", "newline"})
      BY <1>1, Zenon DEF FilesTypes
    <3>2. ASSUME NEW i \in 2 .. Len(lines')
          PROVE  ~(lines'[i - 1] = "line" /\ lines'[i] = "line")
      <4>1. CASE i <= Len(lines)
        <5>1. i \in 2 .. Len(lines) /\ i - 1 \in 1 .. Len(lines) /\ i \in 1 .. Len(lines)
          BY <3>1, <4>1, LinesAppend
        <5>2. lines'[i - 1] = lines[i - 1] /\ lines'[i] = lines[i]
          BY <1>1, <3>1, <5>1, LinesAppend, Zenon
        <5> QED BY <2>1, <5>1, <5>2, Zenon DEF LogInv, LogLoads
      <4>2. CASE i = Len(lines) + 1
        <5>1. i - 1 = Len(lines) /\ Len(lines) \in 1 .. Len(lines) /\ lines # << >>
          BY <3>1, <4>2, LinesAppend, SMTT(30)
        <5>2. lines'[i - 1] = lines[Len(lines)]
          BY <1>1, <3>1, <5>1, LinesAppend, SMTT(30)
        <5> QED BY <2>3, <5>1, <5>2, Zenon
      <4> QED BY <1>1, <3>1, <4>1, <4>2, LinesAppend, SMTT(30)
    <3> QED BY <3>2, Zenon DEF LogLoads
  <2> QED BY <2>1, <2>2, <2>4, Zenon DEF LogInv, Others
<1> QED BY <1>2, <1>3, <1>4, Zenon DEF FilesInv

(* The newline is written. *)
LEMMA WriteNewlineStep ==
    ASSUME FilesInv, NEW t \in FileTasks, WriteNewline(t)
    PROVE  FilesInv'
<1>1. /\ FilesTypes /\ task[t] = "line" /\ lines' = Append(lines, "newline")
      /\ task' = [task EXCEPT ![t] = "idle"]
      /\ UNCHANGED <<daemon, tmp, snapshot, content, fd, appends, writes, torn>>
  BY Zenon DEF FilesInv, WriteNewline, causes
<1>2. FilesTypes'
  BY <1>1, LinesAppend, Zenon DEF FilesTypes
<1>3. (\A u \in FileTasks : u # t => task'[u] = task[u]) /\ task'[t] = "idle"
  BY <1>1, Zenon DEF FilesTypes
<1>4. ASSUME ~writes' PROVE SnapshotInv'
  <2>1. SnapshotInv
    BY <1>1, <1>4, Zenon DEF FilesInv
  <2>2. OneWriter'
    BY <1>3, <2>1, Zenon DEF SnapshotInv, OneWriter, Others
  <2> QED BY <1>1, <1>3, <2>1, <2>2, Zenon DEF SnapshotInv
<1>5. ASSUME ~appends', ~torn' PROVE LogInv'
  <2>1. LogInv /\ lines \in Seq({"line", "newline"})
    BY <1>1, <1>5, Zenon DEF FilesInv, FilesTypes
  <2>2. lines'[Len(lines')] = "newline"
    BY <1>1, <2>1, LinesAppend
  <2>3. LogLoads'
    <3>1. ASSUME NEW i \in 2 .. Len(lines')
          PROVE  ~(lines'[i - 1] = "line" /\ lines'[i] = "line")
      <4>1. CASE i <= Len(lines)
        <5>1. i \in 2 .. Len(lines) /\ i - 1 \in 1 .. Len(lines) /\ i \in 1 .. Len(lines)
          BY <2>1, <4>1, LinesAppend, SMTT(30)
        <5>2. lines'[i - 1] = lines[i - 1] /\ lines'[i] = lines[i]
          BY <1>1, <2>1, <5>1, LinesAppend, Zenon
        <5> QED BY <2>1, <5>1, <5>2, Zenon DEF LogInv, LogLoads
      <4>2. CASE i = Len(lines')
        BY <2>2, <4>2, Zenon
      <4> QED BY <1>1, <2>1, <4>1, <4>2, LinesAppend, SMTT(30)
    <3> QED BY <3>1, Zenon DEF LogLoads
  <2> QED BY <1>3, <2>1, <2>2, <2>3, Zenon DEF LogInv, Others
<1> QED BY <1>2, <1>4, <1>5, Zenon DEF FilesInv

(* The log does not depend on what happens to the snapshot. *)
LEMMA LogUntouched ==
    ASSUME LogInv, UNCHANGED lines,
           \A u \in FileTasks : task'[u] = "line" <=> task[u] = "line"
    PROVE  LogInv'
BY Zenon DEF LogInv, LogLoads, Others

(* The temporary file is opened. *)
LEMMA OpenTemporaryStep ==
    ASSUME FilesInv, NEW t \in FileTasks, OpenTemporary(t)
    PROVE  FilesInv'
<1>1. /\ FilesTypes /\ task[t] = "idle" /\ task' = [task EXCEPT ![t] = "opened"]
      /\ writes' = (writes \/ Others(t, {"opened", "written"}))
      /\ UNCHANGED <<daemon, lines, snapshot, appends, torn>>
  BY Zenon DEF FilesInv, OpenTemporary
<1>2. FilesTypes'
  BY <1>1, Zenon DEF FilesTypes
<1>3. (\A u \in FileTasks : u # t => task'[u] = task[u]) /\ task'[t] = "opened"
  BY <1>1, Zenon DEF FilesTypes
<1>4. ASSUME ~writes' PROVE SnapshotInv'
  <2>1. SnapshotInv /\ ~Others(t, {"opened", "written"})
    BY <1>1, <1>4, Zenon DEF FilesInv
  <2>2. \A u \in FileTasks : task[u] \notin {"opened", "written"} /\ fd[u] = 0
    BY <1>1, <2>1, Zenon DEF SnapshotInv, Others
  <2> DEFINE free == Inodes \ ({snapshot} \cup {fd[u] : u \in FileTasks})
  <2>3. \E j \in Inodes : j \in free
    BY <2>1, <2>2, TwoInodes DEF SnapshotInv
  <2>4. PICK i \in Inodes : /\ i # snapshot /\ tmp' = i /\ fd' = [fd EXCEPT ![t] = i]
                            /\ content' = [content EXCEPT ![i] = "empty"]
    <3>1. CASE tmp # 0
      BY <2>1, <3>1, Zenon DEF OpenTemporary, SnapshotInv
    <3>2. CASE tmp = 0
      <4>1. (CHOOSE j \in free : TRUE) \in free
        BY <2>3, Zenon
      <4> QED BY <3>2, <4>1, Zenon DEF OpenTemporary
    <3> QED BY <3>1, <3>2, Zenon
  <2>5. /\ content' \in [Inodes -> {"empty", "whole", "mixed"}] /\ content'[i] = "empty"
        /\ \A j \in Inodes : j # i => content'[j] = content[j]
    BY <2>1, <2>4, Zenon DEF SnapshotInv
  <2>6. /\ fd' \in [FileTasks -> Inodes \cup {0}] /\ fd'[t] = i
        /\ \A u \in FileTasks : u # t => fd'[u] = fd[u]
    BY <2>1, <2>4, Zenon DEF SnapshotInv
  <2>7. OneWriter'
    BY <1>3, <2>2, Zenon DEF OneWriter, Others
  <2>8. snapshot # 0 => content'[snapshot] = "whole"
    BY <2>1, <2>4, <2>5, Zenon DEF SnapshotInv
  <2>9. i # 0
    BY TwoInodes, Zenon
  <2> QED BY <1>1, <1>3, <2>1, <2>2, <2>4, <2>5, <2>6, <2>7, <2>8, <2>9,
             SMTT(30) DEF SnapshotInv
<1>5. ASSUME ~appends', ~torn' PROVE LogInv'
  <2>1. LogInv
    BY <1>1, <1>5, Zenon DEF FilesInv
  <2> QED BY <1>1, <1>3, <2>1, LogUntouched, Zenon
<1> QED BY <1>2, <1>4, <1>5, Zenon DEF FilesInv

(* It is written. *)
LEMMA WriteTemporaryStep ==
    ASSUME FilesInv, NEW t \in FileTasks, WriteTemporary(t)
    PROVE  FilesInv'
<1>1. /\ FilesTypes /\ task[t] = "opened" /\ task' = [task EXCEPT ![t] = "written"]
      /\ fd' = [fd EXCEPT ![t] = 0]
      /\ UNCHANGED <<daemon, lines, tmp, snapshot, appends, writes, torn>>
  BY Zenon DEF FilesInv, WriteTemporary, causes
<1>2. FilesTypes'
  BY <1>1, Zenon DEF FilesTypes
<1>3. (\A u \in FileTasks : u # t => task'[u] = task[u]) /\ task'[t] = "written"
  BY <1>1, Zenon DEF FilesTypes
<1>4. ASSUME ~writes' PROVE SnapshotInv'
  <2>1. SnapshotInv
    BY <1>1, <1>4, Zenon DEF FilesInv
  <2>2. /\ fd[t] = tmp /\ tmp # 0 /\ tmp \in Inodes /\ tmp # snapshot
        /\ content[tmp] = "empty"
    BY <1>1, <2>1, Zenon DEF SnapshotInv
  <2>3. content' = [content EXCEPT ![tmp] = "whole"]
    BY <2>2, Zenon DEF WriteTemporary
  <2>4. /\ content' \in [Inodes -> {"empty", "whole", "mixed"}] /\ content'[tmp] = "whole"
        /\ \A j \in Inodes : j # tmp => content'[j] = content[j]
    BY <2>1, <2>2, <2>3, Zenon DEF SnapshotInv
  <2>5. /\ fd' \in [FileTasks -> Inodes \cup {0}] /\ fd'[t] = 0
        /\ \A u \in FileTasks : u # t => fd'[u] = fd[u]
    BY <1>1, <2>1, Zenon DEF SnapshotInv
  <2>6. \A u \in FileTasks : u # t => task[u] \notin {"opened", "written"}
    BY <1>1, <2>1, Zenon DEF SnapshotInv, OneWriter, Others
  <2>7. OneWriter'
    BY <1>3, <2>6, Zenon DEF OneWriter, Others
  <2> QED BY <1>1, <1>3, <2>1, <2>2, <2>4, <2>5, <2>6, <2>7, SMTT(30)
             DEF SnapshotInv
<1>5. ASSUME ~appends', ~torn' PROVE LogInv'
  <2>1. LogInv
    BY <1>1, <1>5, Zenon DEF FilesInv
  <2> QED BY <1>1, <1>3, <2>1, LogUntouched, Zenon
<1> QED BY <1>2, <1>4, <1>5, Zenon DEF FilesInv

(* It is renamed. *)
LEMMA RenameTemporaryStep ==
    ASSUME FilesInv, NEW t \in FileTasks, RenameTemporary(t)
    PROVE  FilesInv'
<1>1. /\ FilesTypes /\ task[t] = "written" /\ task' = [task EXCEPT ![t] = "idle"]
      /\ snapshot' = (IF tmp # 0 THEN tmp ELSE snapshot) /\ tmp' = 0
      /\ UNCHANGED <<daemon, lines, content, fd, appends, writes, torn>>
  BY Zenon DEF FilesInv, RenameTemporary, causes
<1>2. FilesTypes'
  BY <1>1, Zenon DEF FilesTypes
<1>3. (\A u \in FileTasks : u # t => task'[u] = task[u]) /\ task'[t] = "idle"
  BY <1>1, Zenon DEF FilesTypes
<1>4. ASSUME ~writes' PROVE SnapshotInv'
  <2>1. SnapshotInv
    BY <1>1, <1>4, Zenon DEF FilesInv
  <2>2. /\ tmp # 0 /\ tmp \in Inodes /\ content[tmp] = "whole" /\ fd[t] = 0
    BY <1>1, <2>1, Zenon DEF SnapshotInv
  <2>3. \A u \in FileTasks : u # t => task[u] \notin {"opened", "written"}
    BY <1>1, <2>1, Zenon DEF SnapshotInv, OneWriter, Others
  <2>4. OneWriter'
    BY <1>3, <2>3, Zenon DEF OneWriter, Others
  <2> QED BY <1>1, <1>3, <2>1, <2>2, <2>3, <2>4, Zenon DEF SnapshotInv
<1>5. ASSUME ~appends', ~torn' PROVE LogInv'
  <2>1. LogInv
    BY <1>1, <1>5, Zenon DEF FilesInv
  <2> QED BY <1>1, <1>3, <2>1, LogUntouched, Zenon
<1> QED BY <1>2, <1>4, <1>5, Zenon DEF FilesInv

(* The daemon crashes: nobody writes any more. *)
LEMMA CrashDaemonStep ==
    ASSUME FilesInv, CrashDaemon
    PROVE  FilesInv'
<1>1. /\ FilesTypes /\ task' = [t \in FileTasks |-> "idle"] /\ fd' = [t \in FileTasks |-> 0]
      /\ torn' = (torn \/ \E t \in FileTasks : task[t] = "line")
      /\ UNCHANGED <<lines, tmp, snapshot, content, appends, writes>>
  BY Zenon DEF FilesInv, CrashDaemon
<1>2. FilesTypes'
  BY <1>1, Zenon DEF FilesTypes
<1>3. ASSUME ~writes' PROVE SnapshotInv'
  BY <1>1, <1>3, Zenon DEF FilesInv, SnapshotInv, OneWriter
<1>4. ASSUME ~appends', ~torn' PROVE LogInv'
  <2>1. LogInv /\ \A u \in FileTasks : task'[u] # "line" /\ task[u] # "line"
    BY <1>1, <1>4, Zenon DEF FilesInv
  <2> QED BY <1>1, <2>1, LogUntouched, Zenon
<1> QED BY <1>2, <1>3, <1>4, Zenon DEF FilesInv

-----------------------------------------------------------------------------
(* After a crash at any point of append_event and persist_records, with    *)
(* any number of tasks: load_records_into_state can load transfers.json    *)
(* unless two tasks have been in persist_records at once, and              *)
(* events.jsonl unless two tasks have been in append_event at once or a    *)
(* crash has cut off a newline.  Neither file depends on the other's luck. *)
THEOREM FilesAlwaysLoad == FilesSpec => []FilesLoad
<1>1. FilesInit => FilesInv
  <2> SUFFICES ASSUME FilesInit PROVE FilesInv
    BY Zenon
  <2>1. FilesTypes
    <3>1. << >> \in Seq({"line", "newline"})
      OBVIOUS
    <3>2. task \in [FileTasks -> {"idle", "line", "opened", "written"}]
      BY Zenon DEF FilesInit
    <3> QED BY <3>1, <3>2, Zenon DEF FilesInit, FilesTypes
  <2>2. SnapshotInv
    BY Zenon DEF FilesInit, SnapshotInv, OneWriter
  <2>3. LogInv
    BY DEF FilesInit, LogInv, LogLoads
  <2> QED BY <2>1, <2>2, <2>3, Zenon DEF FilesInv
<1>2. FilesInv /\ [FilesNext]_filesVars => FilesInv'
  <2> SUFFICES ASSUME FilesInv, [FilesNext]_filesVars PROVE FilesInv'
    BY Zenon
  <2>1. CASE StartDaemon \/ UNCHANGED filesVars
    <3>1. UNCHANGED <<lines, task, tmp, snapshot, content, fd, appends, writes, torn>>
      BY <2>1, Zenon DEF StartDaemon, filesVars, causes
    <3> QED BY <3>1, Zenon DEF FilesInv, FilesTypes, SnapshotInv, OneWriter, LogInv, LogLoads, Others
  <2> QED BY <2>1, WriteLineStep, WriteNewlineStep, OpenTemporaryStep, WriteTemporaryStep,
             RenameTemporaryStep, CrashDaemonStep, Zenon DEF FilesNext
<1>3. FilesInv => FilesLoad
  BY Zenon DEF FilesInv, FilesTypes, SnapshotInv, LogInv, FilesLoad, SnapshotLoads
<1> QED BY <1>1, <1>2, <1>3, PTL DEF FilesSpec
=============================================================================
