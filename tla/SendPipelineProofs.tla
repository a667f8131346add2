------------------------- MODULE SendPipelineProofs -------------------------
(***************************************************************************)
(* The send pipeline. The invariant says where each index of a flush is    *)
(* between the reader and the paths, that a group is encoded in the step   *)
(* in which the encoder has all of it, and that in both queues parity      *)
(* stands behind its data. The refinement of BatchFlush follows: when the  *)
(* tasks have ended, what was handed on is what was planned.               *)
(***************************************************************************)
EXTENDS SendPipeline, FiniteSetTheorems, TLAPS

\* What a sequence holds, and what it holds before a place.
Elements(s) == {s[i] : i \in DOMAIN s}
Before(s, k) == {s[j] : j \in 1 .. k - 1}

\* The indices the reader has yet to pass on.
Reading == {x.n : x \in todo}

\* The packets of a group: data, and the parity its plan asks for.
DataOf(g) == {DataPacket(c) : c \in BlockData(g)}
ParityOf(g) == {ParityPacket(g, i) : i \in 0 .. FecFor(g) - 1}

\* The groups of which the flush needs every index.
Complete == {h \in Blocks : BlockData(h) \subseteq needed}

\* The packets that have been made: with the encoder, in the second channel or
\* handed to a path.
Underway == Elements(out) \cup Elements(packets) \cup handed

\* No index and no packet is anywhere but in the running flush, and every index
\* of it is on its way or has become a packet.
IndexInv ==
    /\ ~busy => /\ todo = {} /\ chunks = <<>> /\ out = <<>> /\ packets = <<>>
                /\ \A g \in Blocks : stash[g] = {}
    /\ Reading \subseteq needed /\ Elements(chunks) \subseteq needed
    /\ \A g \in Blocks : stash[g] \subseteq needed \cap BlockData(g)
    /\ \A c \in needed :
         \/ c \in Reading \/ c \in Elements(chunks) \/ c \in stash[BlockOf(c)]
         \/ DataPacket(c) \in Underway

\* A group is encoded as soon as the encoder has all of it, so that a complete
\* group is on its way to the encoder until it is encoded.
GroupInv ==
    /\ \A g \in Blocks : ~ BlockData(g) \subseteq stash[g]
    /\ \A g \in Complete :
         \/ ParityOf(g) \subseteq Underway
         \/ BlockData(g) \subseteq Reading \cup Elements(chunks) \cup stash[g]

\* What is sent was planned, parity after its data.
OrderInv ==
    /\ Underway \subseteq Planned
    /\ \A k \in DOMAIN packets : packets[k].parity =>
         DataOf(packets[k].group) \subseteq handed \cup Before(packets, k)
    /\ \A k \in DOMAIN out : out[k].parity =>
         DataOf(out[k].group) \subseteq
            handed \cup Elements(packets) \cup Before(out, k)

\* The channels hold indices, and packets.
Packet == [parity : BOOLEAN, group : Nat, n : Nat]

ChannelInv ==
    /\ chunks \in Seq(Indices) /\ out \in Seq(Packet) /\ packets \in Seq(Packet)
    /\ handed \subseteq Packet

\* Between two packets in_flight_duplicates is back at zero: on_feedback_tick
\* takes off what a packet has added.
NoneCounted == dups = 0

\* The inductive invariant of the pipeline.
PipeInv ==
    /\ PipelineTypeOK /\ NoneCounted /\ ChannelInv
    /\ IndexInv /\ GroupInv /\ OrderInv

\* What is counted from one is also counted from zero.
LEMMA FromZero ==
    ASSUME NEW n, NEW m \in 1 .. n
    PROVE  m \in 0 .. n
OBVIOUS

\* The k-th of d places after p.
LEMMA InBlock ==
    ASSUME NEW p \in Nat, NEW d \in Nat, NEW k \in 1 .. d
    PROVE  p + k - 1 \in p .. p + d - 1
OBVIOUS

\* A set put into an order: all of it, and nothing else.
LEMMA OrderedSet ==
    ASSUME NEW S, IsFiniteSet(S), NEW f \in Orders(S)
    PROVE  /\ f \in Seq(S)
           /\ \A x \in S : \E i \in DOMAIN f : f[i] = x
           /\ \A i \in DOMAIN f : f[i] \in S
<1>1. Cardinality(S) \in Nat
  BY FS_CardinalityType, Zenon
<1>2. f \in [1 .. Cardinality(S) -> S]
        /\ f \in Surjection(1 .. Cardinality(S), S)
  BY Zenon DEF Orders, Bijection, Injection, Surjection
<1>3. f \in Seq(S) /\ DOMAIN f = 1 .. Cardinality(S)
  BY <1>1, <1>2
<1> QED BY <1>2, <1>3, Zenon DEF Surjection

\* An index belongs to one group.
LEMMA GroupOf ==
    ASSUME NEW g \in Nat, NEW c \in g * PipeData .. g * PipeData + PipeData - 1
    PROVE  BlockOf(c) = g
BY PipelineAssumption DEF BlockOf

\* An index is one of its group.
LEMMA InGroup ==
    ASSUME NEW c \in Nat
    PROVE  BlockOf(c) \in Nat /\ c \in BlockData(BlockOf(c))
BY PipelineAssumption DEF BlockOf, BlockData

\* A group has at least one index.
LEMMA GroupHasData ==
    ASSUME NEW g \in Nat
    PROVE  g * PipeData \in BlockData(g)
BY PipelineAssumption DEF BlockData

\* Groups and indices are natural numbers.
LEMMA BlocksAreNat == Blocks \subseteq Nat /\ Indices \subseteq Nat
<1>1. Indices \subseteq Nat
  BY PipelineAssumption DEF Indices
<1> QED BY <1>1, InGroup, Zenon DEF Blocks

\* The parity count of a group is a natural number.
LEMMA FecIsNat ==
    ASSUME PipelineTypeOK, NEW g
    PROVE  FecFor(g) \in Nat
<1>1. base \in Nat /\ cap \in Nat /\ PipeData \div 2 \in Nat
  BY PipelineAssumption DEF PipelineTypeOK
<1> QED BY <1>1 DEF FecFor, Least, Most

\* The elements of a sequence that is one longer.
LEMMA Appended ==
    ASSUME NEW T, NEW s \in Seq(T), NEW e \in T
    PROVE  /\ Append(s, e) \in Seq(T)
           /\ Elements(Append(s, e)) = Elements(s) \cup {e}
           /\ Len(Append(s, e)) = Len(s) + 1 /\ Len(s) \in Nat
           /\ DOMAIN s = 1 .. Len(s) /\ DOMAIN Append(s, e) = 1 .. Len(s) + 1
           /\ \A i \in 1 .. Len(s) : Append(s, e)[i] = s[i]
           /\ Append(s, e)[Len(s) + 1] = e
<1> DEFINE t == Append(s, e)
<1>1. /\ t \in Seq(T) /\ Len(t) = Len(s) + 1 /\ Len(s) \in Nat
      /\ DOMAIN s = 1 .. Len(s) /\ DOMAIN t = 1 .. Len(s) + 1
      /\ \A i \in 1 .. Len(s) : t[i] = s[i]
      /\ t[Len(s) + 1] = e
  OBVIOUS
<1> HIDE DEF t
<1>2. Elements(t) = Elements(s) \cup {e}
  BY <1>1 DEF Elements
<1> QED BY <1>1, <1>2, Zenon DEF t

\* The elements of a sequence that is one shorter.
LEMMA Shortened ==
    ASSUME NEW T, NEW s \in Seq(T), s # <<>>
    PROVE  /\ Tail(s) \in Seq(T) /\ Head(s) \in T
           /\ Elements(s) = Elements(Tail(s)) \cup {Head(s)}
           /\ Len(Tail(s)) = Len(s) - 1 /\ Len(Tail(s)) \in Nat
           /\ DOMAIN s = 1 .. Len(s) /\ DOMAIN Tail(s) = 1 .. Len(s) - 1
           /\ \A i \in 1 .. Len(s) - 1 : Tail(s)[i] = s[i + 1]
           /\ Head(s) = s[1] /\ Len(s) >= 1 /\ Len(s) \in Nat
<1> DEFINE t == Tail(s)
           h == Head(s)
<1>1. /\ t \in Seq(T) /\ h \in T
      /\ Len(t) = Len(s) - 1 /\ Len(t) \in Nat
      /\ DOMAIN s = 1 .. Len(s) /\ DOMAIN t = 1 .. Len(s) - 1
      /\ \A i \in 1 .. Len(s) - 1 : t[i] = s[i + 1]
      /\ h = s[1] /\ Len(s) >= 1 /\ Len(s) \in Nat
  OBVIOUS
<1> HIDE DEF t, h
<1>2. ASSUME NEW d \in Elements(s) PROVE d \in Elements(t) \cup {h}
  <2>1. PICK i \in 1 .. Len(s) : d = s[i]
    BY <1>1, Zenon DEF Elements
  <2>2. CASE i = 1
    BY <1>1, <2>1, <2>2, Zenon
  <2>3. CASE i # 1
    <3>1. i - 1 \in DOMAIN t /\ t[i - 1] = s[i]
      BY <1>1, <2>1, <2>3
    <3> QED BY <2>1, <3>1, Zenon DEF Elements
  <2> QED BY <2>2, <2>3, Zenon
<1>3. ASSUME NEW d \in Elements(t) \cup {h} PROVE d \in Elements(s)
  <2>1. CASE d = h
    BY <1>1, <2>1 DEF Elements
  <2>2. CASE d \in Elements(t)
    <3>1. PICK i \in 1 .. Len(s) - 1 : d = t[i]
      BY <1>1, <2>2, Zenon DEF Elements
    <3>2. i + 1 \in DOMAIN s /\ d = s[i + 1]
      BY <1>1, <3>1
    <3> QED BY <3>2, Zenon DEF Elements
  <2> QED BY <2>1, <2>2, Zenon
<1> QED BY <1>1, <1>2, <1>3, Zenon DEF t, h

\* The empty sequence holds nothing.
LEMMA NoElements == Elements(<<>>) = {}
BY DEF Elements

\* What precedes a place of a sequence that is one longer.
LEMMA BeforeAppended ==
    ASSUME NEW T, NEW s \in Seq(T), NEW e \in T, NEW k \in 1 .. Len(s) + 1
    PROVE  /\ Before(Append(s, e), k) = Before(s, k)
           /\ k = Len(s) + 1 => Before(s, k) = Elements(s)
<1>1. /\ \A i \in 1 .. Len(s) : Append(s, e)[i] = s[i]
      /\ Len(s) \in Nat /\ DOMAIN s = 1 .. Len(s)
  BY Appended
<1>2. 1 .. k - 1 \subseteq 1 .. Len(s)
        /\ (k = Len(s) + 1 => 1 .. k - 1 = 1 .. Len(s))
  BY <1>1
<1> QED BY <1>1, <1>2, Zenon DEF Elements, Before

\* What precedes a place of a sequence that is one shorter.
LEMMA BeforeShortened ==
    ASSUME NEW T, NEW s \in Seq(T), s # <<>>, NEW k \in 1 .. Len(s) - 1
    PROVE  Before(s, k + 1) = {Head(s)} \cup Before(Tail(s), k)
<1>1. /\ \A i \in 1 .. Len(s) - 1 : Tail(s)[i] = s[i + 1]
      /\ Head(s) = s[1] /\ Len(s) >= 1 /\ Len(s) \in Nat
  BY Shortened, Zenon
<1> DEFINE t == Tail(s)
           h == Head(s)
<1> HIDE DEF t, h
<1>2. /\ \A i \in 1 .. Len(s) - 1 : t[i] = s[i + 1]
      /\ h = s[1] /\ Len(s) \in Nat
  BY <1>1, Zenon DEF t, h
<1>3. ASSUME NEW j \in 1 .. (k + 1) - 1 PROVE s[j] \in {h} \cup Before(t, k)
  <2>1. CASE j = 1
    BY <1>2, <2>1, Zenon
  <2>2. CASE j # 1
    <3>1. j - 1 \in 1 .. k - 1 /\ t[j - 1] = s[j]
      BY <1>2, <2>2
    <3> QED BY <3>1, Zenon DEF Before
  <2> QED BY <2>1, <2>2, Zenon
<1>4. ASSUME NEW j \in 1 .. k - 1 PROVE t[j] \in Before(s, k + 1)
  <2>1. j + 1 \in 1 .. (k + 1) - 1 /\ t[j] = s[j + 1]
    BY <1>2
  <2> QED BY <2>1, Zenon DEF Before
<1>5. h \in Before(s, k + 1)
  <2>1. 1 \in 1 .. (k + 1) - 1
    OBVIOUS
  <2> QED BY <1>2, <2>1, Zenon DEF Before
<1> QED BY <1>3, <1>4, <1>5, Zenon DEF t, h, Before

\* The plan of a flush stays as it was made.
LEMMA PlanStays ==
    ASSUME UNCHANGED transfer
    PROVE  /\ Planned' = Planned /\ Complete' = Complete
           /\ \A g : ParityOf(g)' = ParityOf(g) /\ DataOf(g)' = DataOf(g)
           /\ first' = first /\ nacked' = nacked /\ done' = done /\ cap' = cap
           /\ base' = base
           /\ slow' = slow /\ needed' = needed
<1>1. /\ first' = first /\ nacked' = nacked /\ done' = done /\ cap' = cap
      /\ base' = base
      /\ slow' = slow /\ needed' = needed
  BY Zenon DEF transfer
<1>2. \A g : FecFor(g)' = FecFor(g)
  BY <1>1, Zenon DEF FecFor
<1>3. Complete' = Complete
  BY <1>1, Zenon DEF Complete
<1>4. \A g : ParityOf(g)' = ParityOf(g) /\ DataOf(g)' = DataOf(g)
  BY <1>2, Zenon DEF ParityOf, DataOf
<1>5. Planned' = Planned
  BY <1>1, <1>2 DEF Planned
<1> QED BY <1>1, <1>3, <1>4, <1>5, Zenon

\* Before the first flush the channels are empty.
LEMMA InitPipe == PipelineInit => PipeInv
<1> SUFFICES ASSUME PipelineInit PROVE PipeInv
  BY Zenon
<1>1. /\ first = 0 /\ nacked = {} /\ done = {} /\ slow = {} /\ needed = {}
      /\ cap \in {0, PipeParity} /\ base = cap
      /\ todo = {} /\ chunks = <<>> /\ packets = <<>> /\ out = <<>>
      /\ stash = [g \in Blocks |-> {}]
      /\ handed = {} /\ tokens = Burst /\ dups = 0 /\ busy = FALSE
      /\ unsent = 0
  BY Zenon DEF PipelineInit
<1>2. PipelineTypeOK
  <2>1. /\ first \in 0 .. PipeChunks /\ base \in 0 .. cap
        /\ Len(chunks) <= PipeRoom
        /\ Len(packets) <= PipeRoom /\ tokens \in 0 .. Burst
        /\ dups \in 0 .. DupBudget /\ unsent \in 0 .. MaxUnsent
    BY <1>1, PipelineAssumption
  <2>2. stash \in [Blocks -> SUBSET Indices]
    BY <1>1, Zenon
  <2> QED BY <1>1, <2>1, <2>2, Zenon DEF PipelineTypeOK
<1>3. ChannelInv
  BY <1>1 DEF ChannelInv
<1>4. Reading = {} /\ Elements(chunks) = {} /\ Underway = {}
  BY <1>1, NoElements, Zenon DEF Reading, Underway
<1>5. \A g \in Blocks : BlockData(g) # {} /\ stash[g] = {}
  BY <1>1, BlocksAreNat, GroupHasData, Zenon
<1>6. IndexInv
  BY <1>1, <1>4, <1>5, Zenon DEF IndexInv
<1>7. GroupInv
  <2>1. \A g \in Blocks : ~ BlockData(g) \subseteq {}
    BY <1>5, Zenon
  <2> QED BY <1>1, <1>5, <2>1, Zenon DEF GroupInv, Complete
<1>8. OrderInv
  BY <1>1, <1>4 DEF OrderInv
<1> QED BY <1>1, <1>2, <1>3, <1>6, <1>7, <1>8, Zenon DEF PipeInv, NoneCounted

\* The reader task passes an index on to the first channel.
LEMMA ReadKeeps == PipeInv /\ Read => PipeInv'
<1> SUFFICES ASSUME PipeInv, Read PROVE PipeInv'
  BY Zenon
<1>1. PipelineTypeOK /\ NoneCounted /\ ChannelInv /\ IndexInv /\ GroupInv
        /\ OrderInv
  BY Zenon DEF PipeInv
<1>2. PICK x \in todo : /\ Len(chunks) < PipeRoom
                        /\ chunks' = Append(chunks, x.n) /\ todo' = todo \ {x}
  BY Zenon DEF Read
<1>3. /\ UNCHANGED transfer /\ stash' = stash /\ out' = out
      /\ packets' = packets
      /\ handed' = handed /\ tokens' = tokens /\ dups' = dups /\ busy' = busy
      /\ unsent' = unsent
  BY Zenon DEF Read, encoder, consumer
<1>4. /\ Planned' = Planned /\ Complete' = Complete
      /\ \A g : ParityOf(g)' = ParityOf(g) /\ DataOf(g)' = DataOf(g)
      /\ first' = first /\ nacked' = nacked /\ done' = done /\ cap' = cap
      /\ base' = base
      /\ slow' = slow /\ needed' = needed
  BY <1>3, PlanStays, Zenon
<1>5. x.n \in Indices /\ chunks \in Seq(Indices)
  BY <1>1, <1>2, Zenon DEF PipelineTypeOK, ChannelInv
<1>6. /\ chunks' \in Seq(Indices)
      /\ Elements(chunks)' = Elements(chunks) \cup {x.n}
      /\ Len(chunks') = Len(chunks) + 1 /\ Len(chunks) \in Nat
  BY <1>2, <1>5, Appended
<1>7. Underway' = Underway
  BY <1>3, Zenon DEF Underway, Elements
<1>8. Reading' \subseteq Reading /\ Reading \subseteq Reading' \cup {x.n}
        /\ x.n \in Reading
  BY <1>2, Zenon DEF Reading
<1>9. PipelineTypeOK'
  BY <1>1, <1>2, <1>3, <1>4, <1>6, PipelineAssumption, SMTT(30)
     DEF PipelineTypeOK
<1>10. ChannelInv' /\ NoneCounted'
  BY <1>1, <1>3, <1>6, Zenon DEF ChannelInv, NoneCounted
<1>11. IndexInv'
  BY <1>1, <1>2, <1>3, <1>4, <1>6, <1>7, <1>8, Zenon DEF IndexInv
<1>12. GroupInv'
  BY <1>1, <1>3, <1>4, <1>6, <1>7, <1>8, Zenon DEF GroupInv
<1>13. OrderInv'
  BY <1>1, <1>3, <1>4, <1>7 DEF OrderInv, Elements
<1> QED BY <1>9, <1>10, <1>11, <1>12, <1>13, Zenon DEF PipeInv

\* The encoder passes a packet on to the second channel.
LEMMA EmitKeeps == PipeInv /\ Emit => PipeInv'
<1> SUFFICES ASSUME PipeInv, Emit PROVE PipeInv'
  BY Zenon
<1>1. PipelineTypeOK /\ NoneCounted /\ ChannelInv /\ IndexInv /\ GroupInv
        /\ OrderInv
  BY Zenon DEF PipeInv
<1>2. /\ out # <<>> /\ Len(packets) < PipeRoom
      /\ packets' = Append(packets, Head(out)) /\ out' = Tail(out)
      /\ UNCHANGED transfer /\ stash' = stash /\ todo' = todo
      /\ chunks' = chunks
      /\ handed' = handed /\ tokens' = tokens /\ dups' = dups /\ busy' = busy
      /\ unsent' = unsent
  BY Zenon DEF Emit, consumer
<1>3. /\ Planned' = Planned /\ Complete' = Complete
      /\ \A g : ParityOf(g)' = ParityOf(g) /\ DataOf(g)' = DataOf(g)
      /\ first' = first /\ nacked' = nacked /\ done' = done /\ cap' = cap
      /\ base' = base
      /\ slow' = slow /\ needed' = needed
  BY <1>2, PlanStays, Zenon
<1>4. out \in Seq(Packet) /\ packets \in Seq(Packet)
  BY <1>1, Zenon DEF ChannelInv
<1>5. /\ out' \in Seq(Packet) /\ Head(out) \in Packet
      /\ Elements(out) = Elements(out)' \cup {Head(out)}
      /\ DOMAIN out = 1 .. Len(out) /\ DOMAIN out' = 1 .. Len(out) - 1
      /\ \A i \in 1 .. Len(out) - 1 : out'[i] = out[i + 1]
      /\ Head(out) = out[1] /\ Len(out) >= 1 /\ Len(out) \in Nat
  BY <1>2, <1>4, Shortened, Zenon
<1>6. /\ packets' \in Seq(Packet)
      /\ Elements(packets)' = Elements(packets) \cup {Head(out)}
      /\ Len(packets') = Len(packets) + 1 /\ Len(packets) \in Nat
      /\ DOMAIN packets = 1 .. Len(packets)
      /\ DOMAIN packets' = 1 .. Len(packets) + 1
      /\ \A i \in 1 .. Len(packets) : packets'[i] = packets[i]
      /\ packets'[Len(packets) + 1] = Head(out)
  BY <1>2, <1>4, <1>5, Appended
<1>7. Underway' = Underway
  BY <1>2, <1>5, <1>6, Zenon DEF Underway
<1>8. Reading' = Reading /\ Elements(chunks)' = Elements(chunks)
  BY <1>2, Zenon DEF Reading, Elements
<1>9. PipelineTypeOK'
  BY <1>1, <1>2, <1>3, <1>6, PipelineAssumption DEF PipelineTypeOK
<1>10. ChannelInv' /\ NoneCounted'
  BY <1>1, <1>2, <1>5, <1>6, Zenon DEF ChannelInv, NoneCounted
<1>11. IndexInv'
  BY <1>1, <1>2, <1>3, <1>7, <1>8, Zenon DEF IndexInv
<1>12. GroupInv'
  BY <1>1, <1>2, <1>3, <1>7, <1>8, Zenon DEF GroupInv
<1>13. OrderInv'
  <2>1. ASSUME NEW k \in DOMAIN packets', packets'[k].parity
        PROVE  DataOf(packets'[k].group) \subseteq handed' \cup Before(packets',
                                                                       k)
    <3>1. /\ Before(packets', k) = Before(packets, k)
          /\ k = Len(packets) + 1 => Before(packets, k) = Elements(packets)
      BY <1>2, <1>4, <1>5, <1>6, BeforeAppended
    <3>2. CASE k \in 1 .. Len(packets)
      BY <1>1, <1>2, <1>6, <2>1, <3>1, <3>2, Zenon DEF OrderInv
    <3>3. CASE k = Len(packets) + 1
      <4>1. 1 \in DOMAIN out /\ Before(out, 1) = {} /\ packets'[k] = out[1]
        BY <1>5, <1>6, <3>3 DEF Before
      <4>2. DataOf(out[1].group) \subseteq
               handed \cup Elements(packets) \cup Before(out, 1)
        BY <1>1, <2>1, <4>1, Zenon DEF OrderInv
      <4> QED BY <1>2, <3>1, <3>3, <4>1, <4>2, Zenon
    <3> QED BY <1>6, <3>2, <3>3, SMTT(30)
  <2>2. ASSUME NEW k \in DOMAIN out', out'[k].parity
        PROVE  DataOf(out'[k].group) \subseteq
                  handed' \cup Elements(packets)' \cup Before(out', k)
    <3>1. k + 1 \in DOMAIN out /\ out'[k] = out[k + 1]
            /\ k \in 1 .. Len(out) - 1
      BY <1>5
    <3>2. Before(out, k + 1) = {Head(out)} \cup Before(out', k)
      BY <1>2, <1>4, <3>1, BeforeShortened, Zenon
    <3>3. DataOf(out[k + 1].group) \subseteq
             handed \cup Elements(packets) \cup Before(out, k + 1)
      BY <1>1, <2>2, <3>1, Zenon DEF OrderInv
    <3> QED BY <1>2, <1>6, <3>1, <3>2, <3>3, Zenon
  <2> QED BY <1>1, <1>3, <1>7, <2>1, <2>2, Zenon DEF OrderInv, Elements, DataOf
<1> QED BY <1>9, <1>10, <1>11, <1>12, <1>13, Zenon DEF PipeInv

\* The caller takes a packet from the second channel and hands it to one path
\* or to both: the parity it takes comes after its data, and a duplicate is
\* paid from the budget.
LEMMA DistributeKeeps == PipeInv /\ Distribute => PipeInv'
<1> SUFFICES ASSUME PipeInv, Distribute PROVE PipeInv'
  BY Zenon
<1>1. PipelineTypeOK /\ NoneCounted /\ ChannelInv /\ IndexInv /\ GroupInv
        /\ OrderInv
  BY Zenon DEF PipeInv
<1>2. /\ packets # <<>> /\ handed' = handed \cup {Head(packets)}
      /\ packets' = Tail(packets)
      /\ UNCHANGED transfer /\ stash' = stash /\ out' = out /\ todo' = todo
      /\ chunks' = chunks
      /\ busy' = busy
  BY Zenon DEF Distribute, encoder
<1>3. /\ Planned' = Planned /\ Complete' = Complete
      /\ \A g : ParityOf(g)' = ParityOf(g) /\ DataOf(g)' = DataOf(g)
      /\ first' = first /\ nacked' = nacked /\ done' = done /\ cap' = cap
      /\ base' = base
      /\ slow' = slow /\ needed' = needed
  BY <1>2, PlanStays, Zenon
<1>4. dups' = 0 /\ unsent' \in 0 .. MaxUnsent
  <2>1. PICK twice \in BOOLEAN :
           /\ twice => unsent < MaxUnsent
           /\ unsent' = IF twice THEN unsent + 1 ELSE unsent
           /\ FeedbackTick(IF twice THEN dups + 1 ELSE dups)
    BY Zenon DEF Distribute
  <2>2. dups = 0 /\ unsent \in 0 .. MaxUnsent
    BY <1>1, Zenon DEF NoneCounted, PipelineTypeOK
  <2>3. dups' = 0
    BY <2>1, <2>2 DEF FeedbackTick, Most
  <2>4. unsent' \in 0 .. MaxUnsent
    BY <2>1, <2>2, PipelineAssumption
  <2> QED BY <2>3, <2>4, Zenon
<1>5. tokens' \in 0 .. Burst
  <2>1. PICK r \in 0 .. 1 : tokens' = Most(Least(tokens + r, Burst) - 1, 0)
    BY Zenon DEF Distribute, Paced
  <2>2. tokens \in 0 .. Burst
    BY <1>1, Zenon DEF PipelineTypeOK
  <2> QED BY <2>1, <2>2, PipelineAssumption DEF Most, Least
<1>6. packets \in Seq(Packet)
  BY <1>1, Zenon DEF ChannelInv
<1>7. /\ packets' \in Seq(Packet) /\ Head(packets) \in Packet
      /\ Elements(packets) = Elements(packets)' \cup {Head(packets)}
      /\ Len(packets') = Len(packets) - 1 /\ Len(packets') \in Nat
      /\ DOMAIN packets = 1 .. Len(packets)
      /\ DOMAIN packets' = 1 .. Len(packets) - 1
      /\ \A i \in 1 .. Len(packets) - 1 : packets'[i] = packets[i + 1]
      /\ Head(packets) = packets[1] /\ Len(packets) >= 1 /\ Len(packets) \in Nat
  BY <1>2, <1>6, Shortened, Zenon
<1>8. Underway' = Underway
  BY <1>2, <1>7, ZenonT(30) DEF Underway, Elements
<1>9. Reading' = Reading /\ Elements(chunks)' = Elements(chunks)
  BY <1>2, Zenon DEF Reading, Elements
<1>10. PipelineTypeOK'
  BY <1>1, <1>2, <1>3, <1>4, <1>5, <1>7, PipelineAssumption DEF PipelineTypeOK
<1>11. ChannelInv' /\ NoneCounted'
  BY <1>1, <1>2, <1>4, <1>7, Zenon DEF ChannelInv, NoneCounted
<1>12. IndexInv'
  BY <1>1, <1>2, <1>3, <1>8, <1>9, Zenon DEF IndexInv
<1>13. GroupInv'
  BY <1>1, <1>2, <1>3, <1>8, <1>9, Zenon DEF GroupInv
<1>14. OrderInv'
  <2>1. ASSUME NEW k \in DOMAIN packets', packets'[k].parity
        PROVE  DataOf(packets'[k].group) \subseteq handed' \cup Before(packets',
                                                                       k)
    <3>1. k + 1 \in DOMAIN packets /\ packets'[k] = packets[k + 1]
            /\ k \in 1 .. Len(packets) - 1
      BY <1>7
    <3>2. Before(packets, k + 1) =
             {Head(packets)} \cup Before(packets', k)
      BY <1>2, <1>6, <3>1, BeforeShortened, Zenon
    <3>3. DataOf(packets[k + 1].group) \subseteq
             handed \cup Before(packets, k + 1)
      BY <1>1, <2>1, <3>1, Zenon DEF OrderInv
    <3> QED BY <1>2, <3>1, <3>2, <3>3, Zenon
  <2>2. \A k \in DOMAIN out' : out'[k].parity =>
           DataOf(out'[k].group) \subseteq
              handed' \cup Elements(packets)' \cup Before(out', k)
    BY <1>1, <1>2, <1>7, Zenon DEF OrderInv
  <2> QED BY <1>1, <1>3, <1>8, <2>1, <2>2, Zenon DEF OrderInv, Elements, DataOf
<1> QED BY <1>10, <1>11, <1>12, <1>13, <1>14, Zenon DEF PipeInv

\* encode_block: the data of the group, then its parity.
LEMMA Encoded ==
    ASSUME PipelineTypeOK, NEW g \in Nat
    PROVE  /\ Encoding(g) \in Seq(Packet)
           /\ Elements(Encoding(g)) = DataOf(g) \cup ParityOf(g)
           /\ \A k \in DOMAIN Encoding(g) : Encoding(g)[k].parity =>
                Encoding(g)[k].group = g
                  /\ DataOf(g) \subseteq Before(Encoding(g), k)
<1> DEFINE a == [i \in 1 .. PipeData |-> DataPacket(g * PipeData + i - 1)]
           b == [i \in 1 .. FecFor(g) |-> ParityPacket(g, i - 1)]
           n == FecFor(g)
<1>1. n \in Nat /\ PipeData \in Nat \ {0}
  BY FecIsNat, PipelineAssumption, Zenon
<1>2. g * PipeData \in Nat
  BY <1>1
<1>3. ASSUME NEW i \in 1 .. PipeData
      PROVE  DataPacket(g * PipeData + i - 1) \in Packet
  <2>1. g * PipeData + i - 1 \in Nat
    BY <1>1, <1>2
  <2>2. BlockOf(g * PipeData + i - 1) \in Nat
    BY <2>1, InGroup, Zenon
  <2> QED BY <2>1, <2>2, Zenon DEF DataPacket, Packet
<1>4. \A i \in 1 .. n : ParityPacket(g, i - 1) \in Packet
  BY <1>1 DEF ParityPacket, Packet
<1> DEFINE e == a \o b
<1>5. a \in Seq(Packet) /\ Len(a) = PipeData /\ DOMAIN a = 1 .. PipeData
  BY <1>1, <1>3
<1>6. b \in Seq(Packet) /\ Len(b) = n /\ DOMAIN b = 1 .. n
  BY <1>1, <1>4
<1>7. /\ \A i \in 1 .. PipeData : a[i] = DataPacket(g * PipeData + i - 1)
      /\ \A i \in 1 .. n : b[i] = ParityPacket(g, i - 1)
  BY Zenon
<1> HIDE DEF a, b, n
<1>8. /\ e \in Seq(Packet) /\ Len(e) = PipeData + n
      /\ DOMAIN e = 1 .. PipeData + n
      /\ \A i \in 1 .. PipeData : e[i] = a[i]
      /\ \A i \in PipeData + 1 .. PipeData + n : e[i] = b[i - PipeData]
  BY <1>1, <1>5, <1>6
<1>9. Encoding(g) = e
  BY Zenon DEF Encoding, a, b, n
<1> HIDE DEF e
<1>10. \A c \in BlockData(g) : c - g * PipeData + 1 \in 1 .. PipeData
  BY <1>1, <1>2 DEF BlockData
<1>11. \A c \in BlockData(g) : e[c - g * PipeData + 1] = DataPacket(c)
  <2> SUFFICES ASSUME NEW c \in BlockData(g)
               PROVE  e[c - g * PipeData + 1] = DataPacket(c)
    BY Zenon
  <2>1. e[c - g * PipeData + 1] = DataPacket(g * PipeData + (c - g * PipeData + 1) - 1)
    BY <1>7, <1>8, <1>10, Zenon
  <2>2. g * PipeData + (c - g * PipeData + 1) - 1 = c
    BY <1>2, SMTT(30) DEF BlockData
  <2> QED BY <2>1, <2>2, Zenon
<1>12. DataOf(g) \subseteq Elements(e)
  BY <1>1, <1>8, <1>10, <1>11, SMTT(30) DEF DataOf, Elements
<1>13. ParityOf(g) \subseteq Elements(e)
  <2> SUFFICES ASSUME NEW i \in 0 .. n - 1
               PROVE  ParityPacket(g, i) \in Elements(e)
    BY Zenon DEF ParityOf, n
  <2>1. /\ i + 1 \in 1 .. n
        /\ PipeData + (i + 1) \in PipeData + 1 .. PipeData + n
        /\ (PipeData + (i + 1)) - PipeData = i + 1 /\ (i + 1) - 1 = i
    BY <1>1
  <2>2. e[PipeData + (i + 1)] = ParityPacket(g, i)
    BY <1>7, <1>8, <2>1, Zenon
  <2>3. PipeData + (i + 1) \in DOMAIN e
    BY <1>1, <1>8
  <2> QED BY <2>2, <2>3, Zenon DEF Elements
<1>14. ASSUME NEW k \in 1 .. PipeData PROVE e[k] \in DataOf(g) /\ ~ e[k].parity
  <2>1. e[k] = DataPacket(g * PipeData + k - 1)
          /\ g * PipeData + k - 1 \in BlockData(g)
    <3>1. e[k] = DataPacket(g * PipeData + k - 1)
      BY <1>7, <1>8, Zenon
    <3>2. g * PipeData + k - 1 \in BlockData(g)
      BY <1>1, <1>2, InBlock, Zenon DEF BlockData
    <3> QED BY <3>1, <3>2, Zenon
  <2>2. e[k] \in DataOf(g)
    BY <2>1, Zenon DEF DataOf
  <2>3. ~ e[k].parity
    BY <2>1 DEF DataPacket
  <2> QED BY <2>2, <2>3, Zenon
<1>15. ASSUME NEW k \in PipeData + 1 .. PipeData + n
       PROVE  e[k] \in ParityOf(g) /\ e[k].group = g
  <2>1. k - PipeData \in 1 .. n /\ k - PipeData - 1 \in 0 .. n - 1
    BY <1>1
  <2>2. e[k] = ParityPacket(g, k - PipeData - 1)
    BY <1>7, <1>8, <2>1, Zenon
  <2>3. e[k] \in ParityOf(g)
    BY <2>1, <2>2, Zenon DEF ParityOf, n
  <2>4. e[k].group = g
    BY <2>2 DEF ParityPacket
  <2> QED BY <2>3, <2>4, Zenon
<1>16. \A k \in DOMAIN e : k \in 1 .. PipeData
         \/ k \in PipeData + 1 .. PipeData + n
  BY <1>1, <1>8
<1>17. Elements(e) \subseteq DataOf(g) \cup ParityOf(g)
  BY <1>14, <1>15, <1>16, Zenon DEF Elements
<1>18. ASSUME NEW k \in DOMAIN e, e[k].parity
       PROVE  e[k].group = g /\ DataOf(g) \subseteq Before(e, k)
  <2>1. k \in PipeData + 1 .. PipeData + n
    BY <1>14, <1>16, <1>18, Zenon
  <2>2. 1 .. PipeData \subseteq 1 .. k - 1
    BY <1>1, <2>1
  <2>3. DataOf(g) \subseteq Before(e, k)
    BY <1>10, <1>11, <2>2, Zenon DEF DataOf, Before
  <2> QED BY <1>15, <2>1, <2>3, Zenon
<1> QED BY <1>8, <1>9, <1>12, <1>13, <1>17, <1>18, Zenon

\* The encoder puts a packet to its group, and encodes the group when it has
\* every index of it.
LEMMA StashKeeps == PipeInv /\ Stash => PipeInv'
<1> SUFFICES ASSUME PipeInv, Stash PROVE PipeInv'
  BY Zenon
<1> DEFINE c == Head(chunks)
           g == BlockOf(c)
           held == stash[g] \cup {c}
           full == BlockData(g) \subseteq held
<1>1. PipelineTypeOK /\ NoneCounted /\ ChannelInv /\ IndexInv /\ GroupInv
        /\ OrderInv
  BY Zenon DEF PipeInv
<1>2. /\ out = <<>> /\ chunks # <<>> /\ chunks' = Tail(chunks)
      /\ stash' = [stash EXCEPT ![g] = IF full THEN held \ BlockData(g)
                     ELSE held]
      /\ out' = IF full THEN Encoding(g) ELSE out
  BY Zenon DEF Stash
<1>3. /\ UNCHANGED transfer /\ todo' = todo /\ packets' = packets
      /\ handed' = handed /\ tokens' = tokens /\ dups' = dups /\ busy' = busy
      /\ unsent' = unsent
  BY Zenon DEF Stash, consumer
<1>4. /\ Planned' = Planned /\ Complete' = Complete
      /\ \A h : ParityOf(h)' = ParityOf(h) /\ DataOf(h)' = DataOf(h)
      /\ first' = first /\ nacked' = nacked /\ done' = done /\ cap' = cap
      /\ base' = base
      /\ slow' = slow /\ needed' = needed
  BY <1>3, PlanStays, Zenon
<1>5. chunks \in Seq(Indices)
  BY <1>1, Zenon DEF ChannelInv
<1>6. /\ chunks' \in Seq(Indices) /\ c \in Indices
      /\ Elements(chunks) = Elements(chunks)' \cup {c}
      /\ Len(chunks') = Len(chunks) - 1 /\ Len(chunks) \in Nat
  BY <1>2, <1>5, Shortened, Zenon
<1> HIDE DEF c
<1>7. c \in Nat /\ g \in Blocks /\ g \in Nat /\ c \in BlockData(g)
  BY <1>6, BlocksAreNat, InGroup, Zenon DEF Blocks
<1>8. /\ stash \in [Blocks -> SUBSET Indices] /\ c \in needed
      /\ \A h \in Blocks : stash[h] \subseteq needed \cap BlockData(h)
  BY <1>1, <1>6, Zenon DEF PipelineTypeOK, IndexInv
<1>9. held \subseteq needed /\ held \subseteq BlockData(g)
        /\ held \subseteq Indices
  BY <1>6, <1>7, <1>8, Zenon
<1> DEFINE kept == IF full THEN {} ELSE held
<1>10. stash' = [stash EXCEPT ![g] = kept]
  <2>1. full => held \ BlockData(g) = {}
    BY <1>9, Zenon
  <2> QED BY <1>2, <2>1, Zenon
<1>11. /\ stash' \in [Blocks -> SUBSET Indices]
       /\ \A h \in Blocks : stash'[h] = IF h = g THEN kept ELSE stash[h]
  BY <1>7, <1>8, <1>9, <1>10, Zenon
<1>12. Reading' = Reading /\ Elements(packets)' = Elements(packets)
  BY <1>3, Zenon DEF Reading, Elements
<1>13. Elements(out) = {}
  BY <1>2, NoElements, Zenon
<1>14. /\ Encoding(g) \in Seq(Packet)
       /\ Elements(Encoding(g)) = DataOf(g) \cup ParityOf(g)
       /\ \A k \in DOMAIN Encoding(g) : Encoding(g)[k].parity =>
            Encoding(g)[k].group = g /\ DataOf(g) \subseteq Before(Encoding(g),
                                                                   k)
  BY <1>1, <1>7, Encoded, Zenon
<1> DEFINE made == IF full THEN DataOf(g) \cup ParityOf(g) ELSE {}
<1> HIDE DEF g
<1>15. out' \in Seq(Packet) /\ Elements(out)' = made
  <2>1. CASE full
    BY <1>2, <1>14, <2>1, Zenon
  <2>2. CASE ~full
    BY <1>2, <1>13, <2>2
  <2> QED BY <2>1, <2>2, Zenon
<1>16. Underway' = Underway \cup made
  BY <1>3, <1>12, <1>13, <1>15, Zenon DEF Underway
<1>17. busy
  BY <1>1, <1>2, Zenon DEF IndexInv
<1>18. PipelineTypeOK'
  <2>1. Len(chunks') <= PipeRoom
    BY <1>1, <1>6, PipelineAssumption DEF PipelineTypeOK
  <2> QED BY <1>1, <1>3, <1>4, <1>11, <2>1, Zenon DEF PipelineTypeOK
<1>19. ChannelInv' /\ NoneCounted'
  BY <1>1, <1>3, <1>6, <1>15, Zenon DEF ChannelInv, NoneCounted
<1>20. \A d \in needed : BlockOf(d) \in Blocks /\ d \in BlockData(BlockOf(d))
  BY <1>1, BlocksAreNat, InGroup, Zenon DEF PipelineTypeOK, Blocks
<1>21. BlockOf(c) = g
  BY Zenon DEF g
<1>22. IndexInv'
  <2>1. \A h \in Blocks : stash'[h] \subseteq needed \cap BlockData(h)
    BY <1>8, <1>9, <1>11, Zenon
  <2>2. ASSUME NEW d \in needed
        PROVE  \/ d \in Reading \/ d \in Elements(chunks)'
               \/ d \in stash'[BlockOf(d)]
               \/ DataPacket(d) \in Underway'
    <3>1. CASE d = c \/ (d \in stash[g] /\ BlockOf(d) = g)
      <4>1. BlockOf(d) = g /\ d \in held /\ g \in Blocks
        BY <1>7, <1>21, <3>1, Zenon
      <4>2. CASE full
        <5>1. DataPacket(d) \in DataOf(g)
          BY <1>9, <4>1, Zenon DEF DataOf
        <5> QED BY <1>16, <4>2, <5>1, Zenon
      <4>3. CASE ~full
        BY <1>11, <4>1, <4>3, Zenon
      <4> QED BY <4>2, <4>3, Zenon
    <3>2. CASE d # c /\ d \in stash[BlockOf(d)] /\ BlockOf(d) # g
      BY <1>11, <1>20, <3>2, Zenon
    <3>3. CASE d # c /\ d \notin stash[BlockOf(d)]
      <4>1. d \in Reading \/ d \in Elements(chunks)
              \/ DataPacket(d) \in Underway
        BY <1>1, <3>3, Zenon DEF IndexInv
      <4> QED BY <1>6, <1>16, <3>3, <4>1, Zenon
    <3> QED BY <3>1, <3>2, <3>3, Zenon
  <2> QED BY <1>1, <1>3, <1>4, <1>6, <1>12, <1>17, <2>1, <2>2, Zenon DEF IndexInv
<1>23. GroupInv'
  <2>1. ASSUME NEW h \in Blocks PROVE ~ BlockData(h) \subseteq stash'[h]
    <3>1. CASE h # g
      BY <1>1, <1>11, <3>1, Zenon DEF GroupInv
    <3>2. CASE h = g /\ full
      BY <1>7, <1>11, <3>2, Zenon
    <3>3. CASE h = g /\ ~full
      BY <1>11, <3>3, Zenon
    <3> QED BY <3>1, <3>2, <3>3, Zenon
  <2>2. ASSUME NEW h \in Complete
        PROVE  \/ ParityOf(h) \subseteq Underway'
               \/ BlockData(h) \subseteq Reading \cup Elements(chunks)' \cup stash'[h]
    <3>1. h \in Blocks /\ h \in Nat
      BY BlocksAreNat, Zenon DEF Complete
    <3>2. CASE ParityOf(h) \subseteq Underway
      BY <1>16, <3>2, Zenon
    <3>3. CASE BlockData(h) \subseteq Reading \cup Elements(chunks) \cup stash[h]
      <4>1. CASE h = g /\ full
        BY <1>16, <4>1, Zenon
      <4>2. CASE h = g /\ ~full
        BY <1>6, <1>11, <3>1, <3>3, <4>2, Zenon
      <4>3. CASE h # g
        <5>1. c \notin BlockData(h)
          BY <1>21, <3>1, <4>3, GroupOf, Zenon DEF BlockData
        <5> QED BY <1>6, <1>11, <3>1, <3>3, <4>3, <5>1, Zenon
      <4> QED BY <4>1, <4>2, <4>3, Zenon
    <3> QED BY <1>1, <3>2, <3>3, Zenon DEF GroupInv
  <2> QED BY <1>4, <1>12, <2>1, <2>2, Zenon DEF GroupInv
<1>24. OrderInv'
  <2>1. made \subseteq Planned
    <3>1. CASE full
      <4>1. g \in Complete
        BY <1>7, <1>9, <3>1, Zenon DEF Complete
      <4>2. DataOf(g) \subseteq Planned
        BY <1>9, <3>1, Zenon DEF DataOf, Planned
      <4>3. ParityOf(g) \subseteq Planned
        BY <4>1, Zenon DEF ParityOf, Planned, Complete
      <4> QED BY <4>2, <4>3, Zenon
    <3> QED BY <3>1, Zenon
  <2>2. Underway' \subseteq Planned'
    BY <1>1, <1>4, <1>16, <2>1, Zenon DEF OrderInv
  <2>3. \A k \in DOMAIN packets' : packets'[k].parity =>
           DataOf(packets'[k].group) \subseteq handed' \cup Before(packets', k)
    BY <1>1, <1>3, Zenon DEF OrderInv
  <2>4. \A k \in DOMAIN out' : out'[k].parity =>
           DataOf(out'[k].group) \subseteq
              handed' \cup Elements(packets)' \cup Before(out', k)
    <3>1. CASE full
      BY <1>2, <1>14, <3>1, Zenon
    <3>2. CASE ~full
      BY <1>1, <1>2, <1>3, <1>12, <3>2, Zenon DEF OrderInv
    <3> QED BY <3>1, <3>2, Zenon
  <2> QED BY <2>2, <2>3, <2>4, Zenon DEF OrderInv, DataOf
<1> QED BY <1>18, <1>19, <1>22, <1>23, <1>24, Zenon DEF PipeInv

\* What is left in the groups when the reader has finished goes out as data.
LEMMA LeftoverKeeps == PipeInv /\ Leftover => PipeInv'
<1> SUFFICES ASSUME PipeInv, Leftover PROVE PipeInv'
  BY Zenon
<1>1. PipelineTypeOK /\ NoneCounted /\ ChannelInv /\ IndexInv /\ GroupInv
        /\ OrderInv
  BY Zenon DEF PipeInv
<1>2. PICK g \in Blocks : /\ stash[g] # {}
                          /\ out' \in Orders({DataPacket(c) : c \in stash[g]})
                          /\ stash' = [stash EXCEPT ![g] = {}]
  BY Zenon DEF Leftover
<1>3. /\ out = <<>> /\ chunks = <<>> /\ todo = {}
      /\ UNCHANGED transfer /\ todo' = todo /\ chunks' = chunks
      /\ packets' = packets
      /\ handed' = handed /\ tokens' = tokens /\ dups' = dups /\ busy' = busy
      /\ unsent' = unsent
  BY Zenon DEF Leftover, consumer
<1>4. /\ Planned' = Planned /\ Complete' = Complete
      /\ \A h : ParityOf(h)' = ParityOf(h) /\ DataOf(h)' = DataOf(h)
      /\ first' = first /\ nacked' = nacked /\ done' = done /\ cap' = cap
      /\ base' = base
      /\ slow' = slow /\ needed' = needed
  BY <1>3, PlanStays, Zenon
<1> DEFINE left == {DataPacket(c) : c \in stash[g]}
<1>5. /\ stash \in [Blocks -> SUBSET Indices] /\ stash[g] \subseteq Indices
      /\ stash[g] \subseteq needed
  BY <1>1, <1>2, Zenon DEF PipelineTypeOK, IndexInv
<1>6. left \subseteq Packet /\ \A p \in left : ~p.parity
  <2>1. \A c \in stash[g] : DataPacket(c) \in Packet /\ ~ DataPacket(c).parity
    BY <1>5, BlocksAreNat, InGroup, Zenon DEF DataPacket, Packet
  <2> QED BY <2>1, Zenon
<1>7. IsFiniteSet(left)
  <2>1. IsFiniteSet(Indices)
    BY FS_Interval, PipelineAssumption DEF Indices
  <2>2. IsFiniteSet(stash[g])
    BY <1>5, <2>1, FS_Subset, Zenon
  <2>3. [c \in stash[g] |-> DataPacket(c)] \in Surjection(stash[g], left)
    BY Zenon DEF Surjection
  <2> QED BY <2>2, <2>3, FS_Surjection, Zenon
<1>8. /\ out' \in Seq(left)
      /\ \A x \in left : \E i \in DOMAIN out' : out'[i] = x
      /\ \A i \in DOMAIN out' : out'[i] \in left
  BY <1>2, <1>7, OrderedSet, Zenon
<1>9. \A c \in stash[g] : DataPacket(c) \in left
  BY Zenon
<1>10. left \subseteq Planned
  BY <1>5, Zenon DEF Planned
<1> HIDE DEF left
<1>12. out' \in Seq(Packet) /\ Elements(out)' = left /\ \A k \in DOMAIN out' :
         ~ out'[k].parity
  <2>1. out' \in Seq(left) /\ \A k \in DOMAIN out' : ~ out'[k].parity
    BY <1>6, <1>8, Zenon
  <2>2. out' \in Seq(Packet)
    BY <1>6, <2>1
  <2>3. Elements(out)' = left
    BY <1>8, Zenon DEF Elements
  <2> QED BY <2>1, <2>2, <2>3, Zenon
<1>13. /\ stash' \in [Blocks -> SUBSET Indices]
       /\ \A h \in Blocks : stash'[h] = IF h = g THEN {} ELSE stash[h]
  BY <1>2, <1>5, Zenon
<1>14. /\ Reading' = {} /\ Reading = {} /\ Elements(chunks)' = {}
       /\ Elements(chunks) = {}
       /\ Elements(out) = {} /\ Elements(packets)' = Elements(packets)
  BY <1>3, NoElements, Zenon DEF Reading
<1>15. Underway' = Underway \cup left
  BY <1>3, <1>12, <1>14, Zenon DEF Underway
<1>16. busy
  BY <1>1, <1>2, Zenon DEF IndexInv
<1>17. \A d \in needed : BlockOf(d) \in Blocks
  BY <1>1, Zenon DEF PipelineTypeOK, Blocks
<1>18. PipelineTypeOK'
  BY <1>1, <1>3, <1>4, <1>13, Zenon DEF PipelineTypeOK
<1>19. ChannelInv' /\ NoneCounted'
  BY <1>1, <1>3, <1>12, Zenon DEF ChannelInv, NoneCounted
<1>20. IndexInv'
  <2>1. \A h \in Blocks : stash'[h] \subseteq needed \cap BlockData(h)
    BY <1>1, <1>13, Zenon DEF IndexInv
  <2>2. ASSUME NEW d \in needed
        PROVE  d \in stash'[BlockOf(d)] \/ DataPacket(d) \in Underway'
    <3>1. d \in stash[BlockOf(d)] \/ DataPacket(d) \in Underway
      BY <1>1, <1>14, Zenon DEF IndexInv
    <3>2. CASE d \in stash[BlockOf(d)] /\ BlockOf(d) = g
      BY <1>9, <1>15, <3>2, Zenon
    <3>3. CASE d \in stash[BlockOf(d)] /\ BlockOf(d) # g
      BY <1>13, <1>17, <3>3, Zenon
    <3> QED BY <1>15, <3>1, <3>2, <3>3, Zenon
  <2> QED BY <1>1, <1>3, <1>4, <1>14, <1>16, <2>1, <2>2, Zenon DEF IndexInv
<1>21. GroupInv'
  <2>1. ASSUME NEW h \in Blocks PROVE ~ BlockData(h) \subseteq stash'[h]
    <3>1. CASE h # g
      BY <1>1, <1>13, <3>1, Zenon DEF GroupInv
    <3>2. CASE h = g
      BY <1>13, <3>2, BlocksAreNat, GroupHasData, Zenon
    <3> QED BY <3>1, <3>2, Zenon
  <2>2. ASSUME NEW h \in Complete PROVE ParityOf(h) \subseteq Underway'
    <3>1. h \in Blocks
      BY Zenon DEF Complete
    <3> QED BY <1>1, <1>14, <1>15, <3>1, Zenon DEF GroupInv
  <2> QED BY <1>4, <2>1, <2>2, Zenon DEF GroupInv
<1>22. OrderInv'
  <2>1. Underway' \subseteq Planned'
    BY <1>1, <1>4, <1>10, <1>15, Zenon DEF OrderInv
  <2>2. \A k \in DOMAIN packets' : packets'[k].parity =>
           DataOf(packets'[k].group) \subseteq handed' \cup Before(packets', k)
    BY <1>1, <1>3, Zenon DEF OrderInv
  <2> QED BY <1>12, <2>1, <2>2, Zenon DEF OrderInv, DataOf
<1> QED BY <1>18, <1>19, <1>20, <1>21, <1>22, Zenon DEF PipeInv

\* A flush begins with its plan: the batch, the indices asked for again, the
\* caps.
LEMMA StartFlushKeeps == PipeInv /\ StartFlush => PipeInv'
<1> SUFFICES ASSUME PipeInv, StartFlush PROVE PipeInv'
  BY Zenon
<1>1. PipelineTypeOK /\ NoneCounted /\ ChannelInv /\ IndexInv
  BY Zenon DEF PipeInv
<1> DEFINE batch == first .. Least(first + PipeBatch, PipeChunks) - 1
           complete == {g \in Blocks : \A c \in BlockData(g) : c < first}
           again == [n : Indices, nack : BOOLEAN, copy : {2}]
           Once(missing, over) == {x \in [n : Indices, nack : BOOLEAN,
                                          copy : {1}] :
                                     /\ BlockOf(x.n) \notin over
                                     /\ x.n \in IF x.nack THEN missing
                                             ELSE batch}
<1>2. /\ ~busy /\ first < PipeChunks /\ base' \in {base} \cup (1 .. cap)
      /\ busy' = TRUE /\ handed' = {} /\ cap' = cap /\ chunks' = chunks
      /\ stash' = stash
      /\ out' = out /\ packets' = packets /\ tokens' = tokens /\ dups' = dups
      /\ unsent' = unsent
      /\ slow' \subseteq {BlockOf(c) : c \in needed'}
  BY Zenon DEF StartFlush, encoder
<1>3. PICK missing \in SUBSET (Indices \ nacked), ready \in SUBSET complete :
         /\ done' = done \cup ready
         /\ \E extra \in SUBSET {x \in again : [x EXCEPT !.copy = 1] \in Once(missing, done')} :
               todo' = Once(missing, done') \cup extra
         /\ needed' = {x.n : x \in Once(missing, done')}
         /\ nacked' = nacked \cup missing
         /\ first' = first + Cardinality(batch)
  BY Zenon DEF StartFlush
<1> DEFINE once == Once(missing, done')
<1>4. PICK extra \in SUBSET {x \in again : [x EXCEPT !.copy = 1] \in once} :
             todo' = once \cup extra
  BY <1>3, Zenon
<1>5. once \subseteq [n : Indices, nack : BOOLEAN, copy : {1}]
  BY Zenon
<1>6. needed' = {x.n : x \in once}
  BY <1>3, Zenon
<1> HIDE DEF once, Once
<1>7. \A x \in extra : [x EXCEPT !.copy = 1].n = x.n
        /\ [x EXCEPT !.copy = 1] \in once
  <2> SUFFICES ASSUME NEW x \in extra
               PROVE  [x EXCEPT !.copy = 1].n = x.n
                        /\ [x EXCEPT !.copy = 1] \in once
    BY Zenon
  <2>1. x \in again /\ [x EXCEPT !.copy = 1] \in once
    BY <1>4, Zenon
  <2> QED BY <2>1, Zenon
<1>8. Reading' = needed' /\ needed' \subseteq Indices
  <2>1. needed' \subseteq Indices
    BY <1>5, <1>6, Zenon
  <2>2. needed' \subseteq Reading'
    BY <1>4, <1>6, Zenon DEF Reading
  <2>3. \A x \in extra : x.n \in needed'
    BY <1>6, <1>7, Zenon
  <2>4. Reading' \subseteq needed'
    BY <1>4, <1>6, <2>3, Zenon DEF Reading
  <2> QED BY <2>1, <2>2, <2>4, Zenon
<1>9. /\ chunks' = <<>> /\ out' = <<>> /\ packets' = <<>>
      /\ \A g \in Blocks : stash'[g] = {}
  BY <1>1, <1>2, Zenon DEF IndexInv
<1>10. /\ Elements(chunks)' = {} /\ Underway' = {}
  <2>1. Elements(chunks') = {} /\ Elements(out') = {} /\ Elements(packets') = {}
    BY <1>9, NoElements, Zenon
  <2> QED BY <1>2, <2>1, Zenon DEF Underway
<1>11. first' \in 0 .. PipeChunks
  <2>1. first \in Nat
          /\ Least(first + PipeBatch, PipeChunks) \in first .. PipeChunks
    <3>1. first \in 0 .. PipeChunks
      BY <1>1, Zenon DEF PipelineTypeOK
    <3> QED BY <1>2, <3>1, PipelineAssumption DEF Least
  <2>2. Cardinality(batch) = Least(first + PipeBatch, PipeChunks) - first
    <3> DEFINE m == Least(first + PipeBatch, PipeChunks)
    <3>1. m \in Int /\ m - 1 \in Int /\ first \in Int /\ first <= m
      BY <2>1, PipelineAssumption
    <3> HIDE DEF m
    <3>2. Cardinality(first .. m - 1) = IF first > m - 1 THEN 0
               ELSE (m - 1) - first + 1
      BY <3>1, FS_Interval, Zenon
    <3>3. Cardinality(first .. m - 1) = m - first
      BY <3>1, <3>2
    <3> QED BY <3>3, Zenon DEF m
  <2> QED BY <1>3, <2>1, <2>2, PipelineAssumption, SMTT(30)
<1>12. slow' \subseteq Blocks
  BY <1>2, <1>8, Zenon DEF Blocks
<1>13. todo' \subseteq [n : Indices, nack : BOOLEAN, copy : {1, 2}]
  <2>1. once \subseteq [n : Indices, nack : BOOLEAN, copy : {1, 2}]
    BY <1>5, Zenon
  <2>2. extra \subseteq [n : Indices, nack : BOOLEAN, copy : {1, 2}]
    BY <1>4, Zenon
  <2> QED BY <1>4, <2>1, <2>2, Zenon
<1>14. base' \in 0 .. cap'
  <2>1. base \in 0 .. cap /\ cap' = cap /\ (base' = base \/ base' \in 1 .. cap)
    BY <1>1, <1>2, Zenon DEF PipelineTypeOK
  <2> QED BY <2>1, FromZero, Zenon
<1>15. PipelineTypeOK'
  <2>1. done' \subseteq Blocks /\ nacked' \subseteq Indices
    BY <1>1, <1>3, Zenon DEF PipelineTypeOK
  <2> QED BY <1>1, <1>2, <1>8, <1>11, <1>12, <1>13, <1>14, <2>1, Zenon
             DEF PipelineTypeOK
<1>16. ChannelInv' /\ NoneCounted'
  BY <1>1, <1>2, Zenon DEF ChannelInv, NoneCounted
<1>17. \A g \in Blocks : ~ BlockData(g) \subseteq {}
  BY BlocksAreNat, GroupHasData, Zenon
<1>18. IndexInv'
  BY <1>2, <1>8, <1>9, <1>10, Zenon DEF IndexInv
<1>19. GroupInv'
  BY <1>8, <1>9, <1>17, Zenon DEF GroupInv, Complete
<1>20. OrderInv'
  BY <1>9, <1>10 DEF OrderInv
<1> QED BY <1>15, <1>16, <1>18, <1>19, <1>20, Zenon DEF PipeInv

\* Nothing changes but the duplicates that wait for a pump, or a flush whose
\* channels are empty ends.
LEMMA PipeUnchanged ==
    ASSUME PipeInv, UNCHANGED <<transfer, todo, chunks, encoder, packets,
                                handed, tokens, dups>>,
           unsent' \in 0 .. MaxUnsent,
           busy' = busy
             \/ (busy' = FALSE /\ todo = {} /\ chunks = <<>> /\ out = <<>>
                              /\ packets = <<>>
                              /\ \A g \in Blocks : stash[g] = {})
    PROVE  PipeInv'
<1>1. PipelineTypeOK /\ NoneCounted /\ ChannelInv /\ IndexInv /\ GroupInv
        /\ OrderInv
  BY Zenon DEF PipeInv
<1>2. /\ UNCHANGED transfer /\ todo' = todo /\ chunks' = chunks
      /\ packets' = packets
      /\ stash' = stash /\ out' = out /\ handed' = handed /\ tokens' = tokens
      /\ dups' = dups
  BY Zenon DEF encoder
<1>3. /\ Planned' = Planned /\ Complete' = Complete
      /\ \A h : ParityOf(h)' = ParityOf(h) /\ DataOf(h)' = DataOf(h)
      /\ first' = first /\ nacked' = nacked /\ done' = done /\ cap' = cap
      /\ base' = base
      /\ slow' = slow /\ needed' = needed
  BY <1>2, PlanStays, Zenon
<1>4. /\ Reading' = Reading /\ Elements(chunks)' = Elements(chunks)
      /\ Underway' = Underway
      /\ Elements(packets)' = Elements(packets)
  BY <1>2, Zenon DEF Reading, Underway
<1>5. busy' \in BOOLEAN
  BY <1>1, Zenon DEF PipelineTypeOK
<1>6. PipelineTypeOK'
  BY <1>1, <1>2, <1>3, <1>5, Zenon DEF PipelineTypeOK
<1>7. ChannelInv' /\ NoneCounted'
  BY <1>1, <1>2, Zenon DEF ChannelInv, NoneCounted
<1>8. IndexInv'
  BY <1>1, <1>2, <1>3, <1>4, Zenon DEF IndexInv
<1>9. GroupInv'
  BY <1>1, <1>2, <1>3, <1>4, Zenon DEF GroupInv
<1>10. OrderInv'
  BY <1>1, <1>2, <1>3, <1>4, Zenon DEF OrderInv
<1> QED BY <1>6, <1>7, <1>8, <1>9, <1>10, Zenon DEF PipeInv

\* Every step of the pipeline keeps the invariant.
LEMMA PipeStep == PipeInv /\ [PipelineNext]_pipeVars => PipeInv'
<1> SUFFICES ASSUME PipeInv, [PipelineNext]_pipeVars PROVE PipeInv'
  BY Zenon
<1>0. unsent \in 0 .. MaxUnsent
  BY Zenon DEF PipeInv, PipelineTypeOK
<1>1. CASE EndFlush
  BY <1>0, <1>1, PipeUnchanged, Zenon DEF EndFlush, consumer
<1>2. CASE UNCHANGED pipeVars
  BY <1>0, <1>2, PipeUnchanged, Zenon DEF pipeVars, consumer
<1>3. CASE PumpDuplicate
  <2>1. unsent' \in 0 .. MaxUnsent
    BY <1>0, <1>3, PipelineAssumption DEF PumpDuplicate
  <2> QED BY <1>3, <2>1, PipeUnchanged, Zenon DEF PumpDuplicate
<1> QED BY <1>1, <1>2, <1>3, ReadKeeps, StashKeeps, LeftoverKeeps, EmitKeeps,
           DistributeKeeps,
           StartFlushKeeps, Zenon DEF PipelineNext, Encode, Consume

\* PipelineTypeOK for every number of chunks, group geometry, batch size,
\* channel capacity and budget: among them that neither channel holds more than
\* its capacity.
THEOREM PipelineIsTyped == PipelineSpec => []PipelineTypeOK
<1>1. PipelineSpec => []PipeInv
  BY InitPipe, PipeStep, PTL DEF PipelineSpec
<1>2. PipeInv => PipelineTypeOK
  BY Zenon DEF PipeInv
<1> QED BY <1>1, <1>2, PTL

\* What is planned: the packets of the indices, and the parity of groups that
\* have data.
LEMMA PlanParts ==
    \A p \in Planned :
       \/ ~p.parity /\ \E c \in needed : p = DataPacket(c)
       \/ p.parity /\ p.group \in Complete /\ p \in ParityOf(p.group)
<1> SUFFICES ASSUME NEW p \in Planned
             PROVE  \/ ~p.parity /\ \E c \in needed : p = DataPacket(c)
                    \/ p.parity /\ p.group \in Complete
                         /\ p \in ParityOf(p.group)
  BY Zenon
<1>1. CASE \E c \in needed : p = DataPacket(c)
  <2>1. PICK c \in needed : p = DataPacket(c)
    BY <1>1, Zenon
  <2>2. ~p.parity
    BY <2>1, Zenon DEF DataPacket
  <2> QED BY <2>1, <2>2, Zenon
<1>2. CASE \E g \in Complete : p \in ParityOf(g)
  <2>1. PICK g \in Complete : p \in ParityOf(g)
    BY <1>2, Zenon
  <2>2. PICK i \in 0 .. FecFor(g) - 1 : p = ParityPacket(g, i)
    BY <2>1, Zenon DEF ParityOf
  <2>3. p.parity /\ p.group = g
    BY <2>2, Zenon DEF ParityPacket
  <2> QED BY <2>1, <2>3, Zenon
<1> QED BY <1>1, <1>2, Zenon DEF Planned, Complete, ParityOf

\* Parity is planned only with data of its group.
ParityCovered ==
    \A p \in Planned : p.parity => \E d \in Planned : ~d.parity
      /\ d.group = p.group

\* A group for which parity is planned has data in the plan.
LEMMA ParityHasData == ParityCovered
<1> SUFFICES ASSUME NEW p \in Planned, p.parity
             PROVE  \E d \in Planned : ~d.parity /\ d.group = p.group
  BY Zenon DEF ParityCovered
<1> DEFINE g == p.group
           c == g * PipeData
<1>1. g \in Complete /\ g \in Nat
  BY PlanParts, BlocksAreNat, Zenon DEF Complete
<1>2. c \in BlockData(g)
  BY <1>1, GroupHasData, Zenon
<1>3. BlockOf(c) = g /\ c \in needed
  BY <1>1, <1>2, GroupOf, Zenon DEF BlockData, Complete
<1> HIDE DEF c, g
<1>4. DataPacket(c) \in Planned /\ ~ DataPacket(c).parity
        /\ DataPacket(c).group = g
  <2>1. DataPacket(c) \in Planned
    BY <1>3, Zenon DEF Planned
  <2> QED BY <1>3, <2>1, Zenon DEF DataPacket
<1> QED BY <1>4, Zenon DEF g

\* The data planned for a group are of the group.
LEMMA PlannedData ==
    ASSUME PipelineTypeOK, NEW g
    PROVE  {d \in Planned : ~d.parity /\ d.group = g} \subseteq DataOf(g)
<1> SUFFICES ASSUME NEW d \in Planned, ~d.parity, d.group = g
             PROVE  d \in DataOf(g)
  BY Zenon
<1>1. PICK c \in needed : d = DataPacket(c)
  BY PlanParts, Zenon
<1>2. c \in Nat /\ BlockOf(c) = g
  BY <1>1, BlocksAreNat, Zenon DEF PipelineTypeOK, DataPacket
<1>3. c \in BlockData(g)
  BY <1>2, InGroup, Zenon
<1> QED BY <1>1, <1>3, Zenon DEF DataOf

\* The pipeline implements BatchFlush: whatever the order in which the two
\* tasks and the caller run and however small the channels, a flush sends
\* exactly what it planned, each group's parity after the group's data.
THEOREM PipelineImplementsFlush == PipelineSpec => PipelineFlushes
<1>1. PipelineInit => Promise!Init
  <2> SUFFICES ASSUME PipelineInit
               PROVE  Planned = {} /\ handed = {} /\ busy = FALSE
    BY Zenon DEF Promise!Init
  <2>1. needed = {} /\ handed = {} /\ busy = FALSE
    BY Zenon DEF PipelineInit
  <2>2. \A g \in Blocks : ~ BlockData(g) \subseteq {}
    BY BlocksAreNat, GroupHasData, Zenon
  <2> QED BY <2>1, <2>2, Zenon DEF Planned
<1>2. PipeInv /\ PipeInv' /\ [PipelineNext]_pipeVars =>
        [Promise!Next]_(Promise!flushVars)
  <2> SUFFICES ASSUME PipeInv, PipeInv', [PipelineNext]_pipeVars
               PROVE  [Promise!Next]_(Promise!flushVars)
    BY Zenon
  <2>1. PipelineTypeOK /\ IndexInv /\ GroupInv /\ OrderInv /\ ChannelInv
    BY Zenon DEF PipeInv
  <2>2. CASE StartFlush
    <3>1. ~busy /\ busy' = TRUE /\ handed' = {}
      BY <2>2, Zenon DEF StartFlush
    <3>2. ParityCovered'
      BY ParityHasData, PTL
    <3> QED BY <3>1, <3>2, Zenon DEF Promise!Next, Promise!Begin, ParityCovered
  <2>3. CASE Read \/ Encode \/ PumpDuplicate \/ UNCHANGED pipeVars
    <3>1. UNCHANGED transfer /\ handed' = handed /\ busy' = busy
      BY <2>3, Zenon DEF Read, Encode, Stash, Leftover, Emit,
                           PumpDuplicate, pipeVars, consumer
    <3>2. Planned' = Planned
      BY <3>1, PlanStays, Zenon
    <3> QED BY <3>1, <3>2, Zenon DEF Promise!flushVars
  <2>4. CASE Distribute
    <3>1. /\ packets # <<>> /\ handed' = handed \cup {Head(packets)}
          /\ busy' = busy
          /\ UNCHANGED transfer
      BY <2>4, Zenon DEF Distribute
    <3>2. Planned' = Planned
      BY <3>1, PlanStays, Zenon
    <3>3. busy
      BY <2>1, <3>1, Zenon DEF IndexInv
    <3>4. 1 \in DOMAIN packets /\ Head(packets) = packets[1]
            /\ Before(packets, 1) = {}
      BY <2>1, <3>1 DEF ChannelInv, Before
    <3>5. packets[1] \in Planned
      BY <2>1, <3>4, Zenon DEF OrderInv, Underway, Elements
    <3>6. packets[1].parity =>
             {d \in Planned : ~d.parity
              /\ d.group = packets[1].group} \subseteq handed
      BY <2>1, <3>4, PlannedData, Zenon DEF OrderInv
    <3> QED BY <3>1, <3>2, <3>3, <3>4, <3>5, <3>6, Zenon
               DEF Promise!Next, Promise!HandOver, Promise!Due
  <2>5. CASE EndFlush
    <3>1. /\ busy /\ todo = {} /\ chunks = <<>> /\ out = <<>> /\ packets = <<>>
          /\ \A g \in Blocks : stash[g] = {}
          /\ busy' = FALSE /\ UNCHANGED transfer /\ handed' = handed
      BY <2>5, Zenon DEF EndFlush, consumer
    <3>2. Planned' = Planned
      BY <3>1, PlanStays, Zenon
    <3>3. Reading = {} /\ Elements(chunks) = {} /\ Underway = handed
      BY <3>1, NoElements, Zenon DEF Reading, Underway
    <3>4. \A c \in needed : BlockOf(c) \in Blocks
      BY <2>1, Zenon DEF PipelineTypeOK, Blocks
    <3>5. \A c \in needed : DataPacket(c) \in handed
      BY <2>1, <3>1, <3>3, <3>4, Zenon DEF IndexInv
    <3>6. \A g \in Complete : ParityOf(g) \subseteq handed
      <4>1. \A g \in Complete : g \in Blocks /\ ~ BlockData(g) \subseteq {}
        BY BlocksAreNat, GroupHasData, Zenon DEF Complete
      <4> QED BY <2>1, <3>1, <3>3, <4>1, Zenon DEF GroupInv
    <3>7. Planned \subseteq handed
      BY <3>5, <3>6, PlanParts, Zenon
    <3>8. handed = Planned
      BY <2>1, <3>3, <3>7, Zenon DEF OrderInv
    <3> QED BY <3>1, <3>2, <3>8, Zenon DEF Promise!Next, Promise!End
  <2> QED BY <2>2, <2>3, <2>4, <2>5, Zenon DEF PipelineNext, Consume
<1>3. PipelineSpec => []PipeInv
  BY InitPipe, PipeStep, PTL DEF PipelineSpec
<1> QED BY <1>1, <1>2, <1>3, PTL DEF PipelineSpec, PipelineFlushes, Promise!Spec
=============================================================================
