--------------------------- MODULE CongestionProofs ---------------------------
(***************************************************************************)
(* The congestion controllers, for every choice of rates, RTTs, gaps and   *)
(* MTUs: the window never stalls the connection, the minimum RTT is fresh, *)
(* and the phases and the gains follow one another as they should.         *)
(***************************************************************************)
EXTENDS Congestion, TLAPS

(* The counter of rounds without growth reaches three exactly when Startup *)
(* is left for Drain; without this neither the range of the counter nor    *)
(* PhaseStep is inductive.                                                 *)
GrowthInv ==
    /\ phase = "Startup" => no_growth \in 0 .. 2
    /\ phase = "Drain" => no_growth = 3

BbrInv == BbrTypeOK /\ WindowFloor /\ EstimateIsFresh /\ GrowthInv

USE FilterAssumption, SctAssumption, QuicBbrAssumption, MtuAssumption

-----------------------------------------------------------------------------
(* The larger of two numbers is a number and at least each of them. *)
LEMMA LargerFacts ==
    ASSUME NEW a \in Int, NEW b \in Int
    PROVE  Larger(a, b) \in Int /\ Larger(a, b) >= a /\ Larger(a, b) >= b
BY DEF Larger

(* The filter of the minimum RTT yields a minimum that is fresh. *)
LEMMA RttFacts ==
    ASSUME BbrInv, NEW rtt \in Rtts, NEW dt \in Gaps, FilterRtt(rtt, dt)
    PROVE  /\ min_rtt' \in Rtts \cup {InitialRtt} /\ stamp' \in 0 .. FilterWindow
           /\ seen' \subseteq Rtts /\ EstimateIsFresh'
           /\ stamp' = 0 \/ stamp' = stamp + dt
<1>1. CASE Expired(dt) \/ rtt < min_rtt
  <2>1. min_rtt' = rtt /\ stamp' = 0 /\ seen' = {rtt}
    BY <1>1, Zenon DEF FilterRtt
  <2> QED BY <2>1 DEF EstimateIsFresh
<1>2. CASE ~(Expired(dt) \/ rtt < min_rtt)
  <2>1. /\ stamp' = Older(stamp, dt, FilterWindow) /\ seen' = seen \cup {rtt}
        /\ min_rtt' = min_rtt
    BY <1>2, Zenon DEF FilterRtt
  <2>2. min_rtt <= rtt /\ stamp + dt <= FilterWindow
    BY <1>2, SMTT(30) DEF Expired, BbrInv, BbrTypeOK
  <2>3. stamp' = stamp + dt /\ stamp' \in 0 .. FilterWindow
    BY <2>1, <2>2 DEF Older, BbrInv, BbrTypeOK
  <2>4. EstimateIsFresh'
    BY <2>1, <2>2, <2>3, Zenon DEF EstimateIsFresh, BbrInv, BbrTypeOK
  <2> QED BY <2>1, <2>3, <2>4, Zenon DEF BbrInv, BbrTypeOK
<1> QED BY <1>1, <1>2, Zenon

(* The filter of the bandwidth keeps rates that were measured. *)
LEMMA RateFacts ==
    ASSUME BbrInv, NEW rate \in Rates, NEW dt \in Gaps, NEW span,
           samples' = Sampled(rate, dt, span)
    PROVE  /\ samples' \subseteq [age : Nat, rate : Rates]
           /\ FilterRate => max_bw' \in Rates
<1>1. dt \in Nat /\ samples \subseteq [age : Nat, rate : Rates]
  BY Zenon DEF BbrInv, BbrTypeOK
<1>2. ASSUME NEW x \in samples' PROVE x \in [age : Nat, rate : Rates]
  <2>1. CASE x = [age |-> 0, rate |-> rate]
    BY <2>1, Zenon
  <2>2. ASSUME NEW y \in samples, x = [age |-> y.age + dt, rate |-> y.rate]
        PROVE  x \in [age : Nat, rate : Rates]
    <3>1. y \in [age : Nat, rate : Rates]
      BY <1>1, Zenon
    <3>2. y.age + dt \in Nat /\ y.rate \in Rates
      BY <1>1, <3>1
    <3> QED BY <2>2, <3>2, Zenon
  <2> QED BY <1>2, <2>1, <2>2, Zenon DEF Sampled
<1>3. FilterRate => max_bw' \in Rates
  <2>1. SUFFICES ASSUME FilterRate PROVE max_bw' \in Rates
    BY Zenon
  <2>2. PICK x \in samples' : max_bw' = x.rate
    BY <2>1, Zenon DEF FilterRate
  <2> QED BY <1>2, <2>2, Zenon
<1> QED BY <1>2, <1>3, Zenon

(* A product of a bandwidth and an RTT is a number. *)
LEMMA ProductFacts ==
    ASSUME NEW bw \in Rates \cup {0}, NEW rtt \in Rtts \cup {InitialRtt}
    PROVE  bw * rtt \in Nat
<1>1. bw \in Nat /\ rtt \in Nat
  BY SMTT(30)
<1> HIDE FilterAssumption
<1> QED BY <1>1, SMTT(30)

(* What SctBdp and QuicBdp return is at least their lower bound. *)
LEMMA BdpFacts ==
    ASSUME BbrInv, NEW bw \in Rates \cup {0}, NEW rtt \in Rtts \cup {InitialRtt}
    PROVE  /\ SctBdp(bw, rtt) \in Nat /\ SctBdp(bw, rtt) >= 4 * mtu
           /\ QuicBdp(bw, rtt) \in Nat /\ QuicBdp(bw, rtt) >= InitialWindow
<1>1. bw * rtt \in Nat
  BY ProductFacts, Zenon
<1>2. mtu \in Nat /\ InitialPackets \in Nat /\ Segment \in Nat
  BY Zenon DEF BbrInv, BbrTypeOK
<1>3. InitialWindow \in Nat
  BY <1>2, SMTT(30) DEF InitialWindow
<1> QED BY <1>1, <1>2, <1>3, LargerFacts, SMTT(30) DEF SctBdp, QuicBdp, Larger

(* Windows derived from a bandwidth-delay product, with the gains the      *)
(* controllers use.                                                        *)
LEMMA GainFacts ==
    ASSUME NEW b \in Nat, NEW g \in {75, 100, 125}, NEW k \in {9, 10}
    PROVE  /\ (2885 * b) \div 1000 \in Nat /\ (2885 * b) \div 1000 >= b
           /\ (35 * b) \div 100 \in Nat /\ b \div 2 \in Nat
           /\ (2 * b * g * k) \div 1000 \in Nat /\ (2 * b * g * k) \div 1000 >= b
           /\ (2 * b * g) \div 100 \in Nat
<1>1. /\ (2885 * b) \div 1000 \in Nat /\ (2885 * b) \div 1000 >= b
      /\ (35 * b) \div 100 \in Nat /\ b \div 2 \in Nat
  OBVIOUS
<1>2. ASSUME NEW n \in Nat, n >= 1000 * b PROVE n \div 1000 \in Nat /\ n \div 1000 >= b
  BY <1>2
<1>3. 2 * b * g * k \in Nat /\ 2 * b * g * k >= 1000 * b
  <2>1. CASE g = 75 BY <2>1
  <2>2. CASE g = 100 BY <2>2
  <2>3. CASE g = 125 BY <2>3, SMTT(30)
  <2> QED BY <2>1, <2>2, <2>3, Zenon
<1>4. 2 * b * g \in Nat
  OBVIOUS
<1> QED BY <1>1, <1>2, <1>3, <1>4, SMTT(30)

(* The position in the cycle of eight gains *)
LEMMA CycleFacts ==
    ASSUME NEW n \in Nat
    PROVE  (n % 8) % 8 = n % 8
<1>1. n % 8 \in 0 .. 7
  OBVIOUS
<1>2. ASSUME NEW m \in 0 .. 7 PROVE m % 8 = m
  OBVIOUS
<1> QED BY <1>1, <1>2, Zenon

(* A counter that wraps at a multiple of eight keeps that position. *)
LEMMA WrapFacts ==
    ASSUME NEW n \in 0 .. CycleWrap - 1
    PROVE  /\ (n + 1) % CycleWrap \in 0 .. CycleWrap - 1
           /\ ((n + 1) % CycleWrap) % 8 = (n + 1) % 8
<1>1. CASE n + 1 = CycleWrap
  <2>1. CycleWrap % CycleWrap = 0
    OBVIOUS
  <2> QED BY <1>1, <2>1
<1>2. CASE n + 1 < CycleWrap
  <2>1. ASSUME NEW a \in Nat, NEW b \in Nat, a < b PROVE a % b = a
    BY <2>1
  <2>2. (n + 1) % CycleWrap = n + 1
    BY <1>2, <2>1
  <2> QED BY <1>2, <2>2
<1> QED BY <1>1, <1>2, SMTT(30)

-----------------------------------------------------------------------------
(* An acknowledgement, in each phase of sct-core's controller *)
LEMMA SctAckInv ==
    ASSUME BbrInv, controller = "sct", NEW rate \in Rates, NEW rtt \in Rtts,
           NEW dt \in Gaps, NEW limited \in BOOLEAN, SctAck(rate, rtt, dt, limited)
    PROVE  BbrInv' /\ PhaseStep /\ GainStep
<1> DEFINE entered == IF Expired(dt) THEN "ProbeRtt" ELSE phase
           bdp == SctBdp(max_bw', min_rtt')
           round == since + dt >= Larger(min_rtt', RoundMin)
<1>1. /\ FilterRtt(rtt, dt) /\ used' = entered /\ gap' = dt
      /\ controller' = controller /\ mtu' = mtu
      /\ IF limited THEN max_bw' = max_bw ELSE FilterRate
      /\ since' = IF entered = "ProbeBw" /\ round THEN 0 ELSE Older(since, dt, FilterWindow)
  BY Zenon DEF SctAck
<1>2. /\ samples' \subseteq [age : Nat, rate : Rates]
      /\ FilterRate => max_bw' \in Rates
  BY RateFacts, Zenon DEF SctAck
<1>3. max_bw' \in Rates \cup {0}
  BY <1>1, <1>2, Zenon DEF BbrInv, BbrTypeOK
<1>4. /\ min_rtt' \in Rtts \cup {InitialRtt} /\ stamp' \in 0 .. FilterWindow
      /\ seen' \subseteq Rtts /\ EstimateIsFresh'
  BY <1>1, RttFacts, Zenon
<1>5. bdp \in Nat /\ bdp >= 4 * mtu
  BY <1>3, <1>4, BdpFacts, Zenon
<1>6. since' \in 0 .. FilterWindow + 1
  BY <1>1, SMTT(30) DEF Older, BbrInv, BbrTypeOK
<1>7. /\ entered \in Phases /\ mtu \in Nat \ {0} /\ cycle \in 0 .. CycleWrap - 1
      /\ no_growth \in 0 .. 3 /\ CycleWrap >= 8
  BY DEF BbrInv, BbrTypeOK, Phases
<1> HIDE DEF bdp, round
<1>8. /\ phase' \in Phases /\ no_growth' \in 0 .. 3 /\ cycle' \in 0 .. CycleWrap - 1
      /\ cwnd' \in Nat /\ (entered # "Drain" => cwnd' >= 4 * mtu)
      /\ GrowthInv' /\ PhaseStep /\ GainStep
  <2>1. CASE entered = "Startup"
    <3>1. phase = "Startup" /\ no_growth \in 0 .. 2
      BY <2>1, Zenon DEF BbrInv, GrowthInv
    <3>2. Startup(bdp)
      BY <2>1, Zenon DEF SctAck, bdp
    <3>3. cwnd' \in Nat /\ cwnd' >= 4 * mtu
      BY <1>5, <1>7, <3>2, GainFacts, SMTT(30) DEF Startup
    <3>4. no_growth' \in 0 .. 3 /\ (phase' = "Startup" => no_growth' \in 0 .. 2)
          /\ (phase' = "Drain" => no_growth' = 3) /\ phase' \in {"Startup", "Drain"}
      BY <3>1, <3>2 DEF Startup
    <3> QED BY <1>7, <3>1, <3>2, <3>3, <3>4, Zenon
            DEF Startup, GrowthInv, PhaseStep, GainStep, Phases
  <2>2. CASE entered = "Drain"
    <3>1. phase = "Drain" /\ Drain(bdp)
      BY <2>2, Zenon DEF SctAck, bdp
    <3>2. cwnd' \in Nat
      BY <1>5, <3>1, GainFacts DEF Drain
    <3> QED BY <1>7, <2>2, <3>1, <3>2, Zenon DEF Drain, GrowthInv, PhaseStep, GainStep, Phases
  <2>3. CASE entered = "ProbeBw"
    <3>1. phase = "ProbeBw" /\ ProbeBw(bdp, round, limited)
      BY <2>3, Zenon DEF SctAck, bdp, round
    <3>2. cycle' \in {cycle, (cycle + 1) % 8} /\ cycle' \in 0 .. CycleWrap - 1
      BY <1>7, <3>1, SMTT(30) DEF ProbeBw
    <3>3. Gain(cycle') \in {75, 100, 125} /\ (IF limited THEN 9 ELSE 10) \in {9, 10}
      BY SMTT(30) DEF Gain
    <3>4. cwnd' \in Nat /\ cwnd' >= 4 * mtu
      BY <1>5, <1>7, <3>1, <3>3, GainFacts, SMTT(30) DEF ProbeBw
    <3>5. cycle' % 8 \in {cycle % 8, (cycle + 1) % 8}
      <4>1. cycle \in Nat /\ cycle + 1 \in Nat
        BY <1>7
      <4> QED BY <3>2, <4>1, CycleFacts, Zenon
    <3> QED BY <1>7, <3>1, <3>2, <3>4, <3>5, Zenon
            DEF ProbeBw, GrowthInv, PhaseStep, GainStep, Phases
  <2>4. CASE entered = "ProbeRtt"
    <3>1. ProbeRtt(bdp)
      BY <2>4, Zenon DEF SctAck, bdp
    <3>2. phase # "ProbeRtt" => stamp + dt >= FilterWindow
      BY <2>4, SMTT(30) DEF Expired, BbrInv, BbrTypeOK
    <3>3. cwnd' \in Nat /\ cwnd' >= 4 * mtu
      BY <1>5, <1>7, <3>1, GainFacts, LargerFacts, SMTT(30) DEF ProbeRtt
    <3> QED BY <1>1, <1>7, <3>1, <3>2, <3>3, Zenon
            DEF ProbeRtt, GrowthInv, PhaseStep, GainStep, Phases, BbrInv
  <2> QED BY <1>7, <2>1, <2>2, <2>3, <2>4, Zenon DEF Phases
<1>9. BbrTypeOK'
  BY <1>1, <1>2, <1>3, <1>4, <1>6, <1>7, <1>8, ZenonT(30) DEF BbrTypeOK, BbrInv
<1>10. WindowFloor'
  BY <1>1, <1>7, <1>8 DEF WindowFloor, SctWindow, Larger
<1> QED BY <1>4, <1>8, <1>9, <1>10, Zenon DEF BbrInv

(* A change of the MTU *)
LEMMA MtuInv ==
    ASSUME BbrInv, NEW m \in Mtus,
           (controller = "sct" /\ SctMtu(m)) \/ (controller = "quic" /\ QuicMtu(m))
    PROVE  BbrInv' /\ PhaseStep /\ GainStep
<1>1. /\ mtu' = m /\ gap' = 0 /\ m \in Nat /\ cwnd \in Nat
      /\ cwnd' = IF controller = "sct" THEN Larger(cwnd, 4 * m) ELSE Larger(cwnd, 2 * m)
      /\ UNCHANGED <<controller, samples, max_bw, min_rtt, stamp, phase, no_growth, cycle,
                     since, seen, used>>
  BY Zenon DEF SctMtu, QuicMtu, BbrInv, BbrTypeOK, model, history
<1>2. /\ cwnd' \in Nat /\ (controller = "sct" => cwnd' >= 4 * m)
      /\ cwnd' >= 2 * m
  BY <1>1 DEF Larger
<1>3. BbrTypeOK'
  BY <1>1, <1>2, Zenon DEF BbrInv, BbrTypeOK
<1>4. WindowFloor'
  BY <1>1, <1>2 DEF WindowFloor, SctWindow, QuicWindow, Larger
<1>5. EstimateIsFresh' /\ GrowthInv'
  BY <1>1, Zenon DEF BbrInv, EstimateIsFresh, GrowthInv
<1>6. PhaseStep /\ GainStep
  BY <1>1, Zenon DEF PhaseStep, GainStep, BbrInv, GrowthInv
<1> QED BY <1>3, <1>4, <1>5, <1>6, Zenon DEF BbrInv

(* A loss, which only sc-transport-quic's controller reacts to *)
LEMMA LossInv ==
    ASSUME BbrInv, controller = "quic", QuicLoss
    PROVE  BbrInv' /\ PhaseStep /\ GainStep
<1>1. /\ stamp' = FilterWindow /\ gap' = 0
      /\ UNCHANGED <<controller, mtu, samples, max_bw, min_rtt, phase, no_growth, cycle,
                     since, cwnd, seen, used>>
  BY Zenon DEF QuicLoss, machine, history
<1>2. BbrTypeOK' /\ EstimateIsFresh' /\ GrowthInv'
  BY <1>1 DEF BbrInv, BbrTypeOK, EstimateIsFresh, GrowthInv
<1>3. WindowFloor'
  BY <1>1, Zenon DEF BbrInv, WindowFloor, SctWindow, QuicWindow
<1>4. PhaseStep /\ GainStep
  BY <1>1, Zenon DEF PhaseStep, GainStep, BbrInv, GrowthInv
<1> QED BY <1>2, <1>3, <1>4, Zenon DEF BbrInv

(* An acknowledgement, in each phase of sc-transport-quic's controller *)
LEMMA QuicAckInv ==
    ASSUME BbrInv, controller = "quic", NEW rate \in Rates, NEW rtt \in Rtts,
           NEW dt \in Gaps, QuicAck(rate, rtt, dt)
    PROVE  BbrInv' /\ PhaseStep /\ GainStep
<1> DEFINE bdp == QuicBdp(max_bw', min_rtt')
           target == CASE phase' = "Startup" -> (2885 * bdp) \div 1000
                       [] phase' = "Drain" -> (35 * bdp) \div 100
                       [] phase' = "ProbeBw" -> (2 * bdp * Gain(cycle % 8)) \div 100
                       [] phase' = "ProbeRtt" -> InitialWindow
<1>1. /\ FilterRate /\ FilterRtt(rtt, dt) /\ Transition(dt)
      /\ cycle' = IF phase' = "ProbeBw" THEN NextCycle ELSE cycle
      /\ used' = phase' /\ gap' = dt /\ controller' = controller /\ mtu' = mtu
      /\ cwnd' = Larger(target, 2 * Segment)
  BY Zenon DEF QuicAck
<1>2. samples' \subseteq [age : Nat, rate : Rates] /\ max_bw' \in Rates
  BY <1>1, RateFacts, Zenon DEF QuicAck
<1>3. /\ min_rtt' \in Rtts \cup {InitialRtt} /\ stamp' \in 0 .. FilterWindow
      /\ seen' \subseteq Rtts /\ EstimateIsFresh'
      /\ stamp' = 0 \/ stamp' = stamp + dt
  BY <1>1, RttFacts, Zenon
<1>4. bdp \in Nat
  BY <1>2, <1>3, BdpFacts, ZenonT(30)
<1>5. /\ mtu \in Nat /\ mtu <= Segment /\ Segment \in Nat /\ InitialWindow \in Nat
      /\ dt \in Nat /\ phase \in Phases /\ cycle \in 0 .. CycleWrap - 1
      /\ no_growth \in 0 .. 3 /\ since \in 0 .. FilterWindow + 1
  BY DEF BbrInv, BbrTypeOK, InitialWindow
<1>6. /\ phase' \in Phases /\ no_growth' \in 0 .. 3 /\ since' \in 0 .. FilterWindow + 1
      /\ GrowthInv' /\ PhaseStep
  <2>1. CASE phase = "Startup"
    <3>1. no_growth \in 0 .. 2
      BY <2>1, Zenon DEF BbrInv, GrowthInv
    <3> QED BY <1>1, <1>5, <2>1, <3>1, SMTT(30)
               DEF Transition, GrowthInv, PhaseStep, Phases
  <2>2. CASE phase = "Drain"
    <3>1. no_growth = 3
      BY <2>2, Zenon DEF BbrInv, GrowthInv
    <3> QED BY <1>1, <1>5, <2>2, <3>1, Zenon DEF Transition, GrowthInv, PhaseStep, Phases
  <2>3. CASE phase = "ProbeBw"
    BY <1>1, <1>3, <1>5, <2>3, SMTT(30)
       DEF Transition, GrowthInv, PhaseStep, Phases
  <2>4. CASE phase = "ProbeRtt"
    BY <1>1, <1>5, <2>4, SMTT(30) DEF Transition, GrowthInv, PhaseStep, Phases
  <2> QED BY <1>5, <2>1, <2>2, <2>3, <2>4, Zenon DEF Phases
<1>7. cycle' \in 0 .. CycleWrap - 1 /\ GainStep
  BY <1>1, <1>5, WrapFacts, Zenon DEF NextCycle, GainStep
<1> HIDE DEF bdp
<1>8. target \in Nat
  <2>1. Gain(cycle % 8) \in {75, 100, 125}
    BY SMTT(30) DEF Gain
  <2> QED BY <1>4, <1>5, <1>6, <2>1, GainFacts, SMTT(30) DEF Phases
<1> HIDE DEF target
<1>9. cwnd' \in Nat /\ cwnd' >= 2 * Segment
  BY <1>1, <1>5, <1>8, LargerFacts, SMTT(30)
<1>10. BbrTypeOK'
  BY <1>1, <1>2, <1>3, <1>6, <1>7, <1>9, ZenonT(30) DEF BbrTypeOK, BbrInv
<1>11. WindowFloor'
  BY <1>1, <1>5, <1>9, SMTT(30) DEF WindowFloor, QuicWindow, Larger
<1> QED BY <1>3, <1>6, <1>7, <1>10, <1>11, Zenon DEF BbrInv

-----------------------------------------------------------------------------
(* Every step keeps BbrInv and is one that the action properties allow. *)
LEMMA BbrStep == BbrInv /\ [BbrNext]_bbrVars =>
    BbrInv' /\ [PhaseStep]_bbrVars /\ [GainStep]_bbrVars
<1> SUFFICES ASSUME BbrInv, [BbrNext]_bbrVars
             PROVE  BbrInv' /\ [PhaseStep]_bbrVars /\ [GainStep]_bbrVars
  BY Zenon
<1>1. CASE controller = "sct" /\ SctNext
  <2>1. ASSUME NEW m \in Mtus, SctMtu(m) PROVE BbrInv' /\ PhaseStep /\ GainStep
    BY <1>1, <2>1, MtuInv, Zenon
  <2>2. ASSUME NEW rate \in Rates, NEW rtt \in Rtts, NEW dt \in Gaps,
               NEW limited \in BOOLEAN, SctAck(rate, rtt, dt, limited)
        PROVE  BbrInv' /\ PhaseStep /\ GainStep
    BY <1>1, <2>2, SctAckInv, Zenon
  <2> QED BY <1>1, <2>1, <2>2, Zenon DEF SctNext
<1>2. CASE controller = "quic" /\ QuicBbrNext
  BY <1>2, QuicAckInv, MtuInv, LossInv, Zenon DEF QuicBbrNext
<1>3. CASE UNCHANGED bbrVars
  BY <1>3, Zenon DEF bbrVars, model, machine, history, BbrInv, BbrTypeOK, WindowFloor, SctWindow,
              QuicWindow, EstimateIsFresh, GrowthInv
<1> QED BY <1>1, <1>2, <1>3, Zenon DEF BbrNext

(* A new controller satisfies it. *)
LEMMA BbrStart == BbrInit => BbrInv
<1> SUFFICES ASSUME BbrInit PROVE BbrInv
  BY Zenon
<1>1. /\ mtu \in Nat \ {0} /\ InitialPackets * mtu \in Nat /\ InitialWindow \in Nat
      /\ InitialPackets * mtu >= 4 * mtu
  BY SMTT(30) DEF BbrInit, FiltersInit, InitialWindow
<1>2. cwnd \in Nat /\ cwnd >= 2 * mtu /\ (controller = "sct" => cwnd >= 4 * mtu)
  BY <1>1, SMTT(30) DEF BbrInit, SctInit, QuicBbrInit, Larger
<1>3. BbrTypeOK
  BY <1>2, SMTT(30)
     DEF BbrInit, SctInit, QuicBbrInit, FiltersInit, BbrTypeOK, Phases
<1>4. WindowFloor
  BY <1>1, <1>2, <1>3, SMTT(30)
     DEF WindowFloor, SctWindow, QuicWindow, Larger, BbrTypeOK
<1>5. EstimateIsFresh /\ GrowthInv
  BY DEF BbrInit, FiltersInit, EstimateIsFresh, GrowthInv
<1> QED BY <1>3, <1>4, <1>5, Zenon DEF BbrInv

-----------------------------------------------------------------------------
(* BbrInv is invariant. *)
THEOREM BbrInvariant == BbrSpec => []BbrInv
BY BbrStart, BbrStep, PTL DEF BbrSpec

(* The state of the controllers is well typed: the counters stay in their  *)
(* ranges, and the model holds only what was measured.                     *)
THEOREM BbrTypeCorrect == BbrSpec => []BbrTypeOK
BY BbrInvariant, PTL DEF BbrInv

(* For every MTU, bandwidth and RTT, the window that quinn gets from       *)
(* window() has room for two packets.                                      *)
THEOREM WindowNeverStalls == BbrSpec => []WindowFloor
BY BbrInvariant, PTL DEF BbrInv

(* The minimum RTT was measured within the filter window and undercut by   *)
(* nothing since, whatever acknowledgements and losses occur.              *)
THEOREM EstimateStaysFresh == BbrSpec => []EstimateIsFresh
BY BbrInvariant, PTL DEF BbrInv

(* Startup and Drain are left for good, and ProbeRtt is entered only at    *)
(* the end of the filter window.                                           *)
THEOREM PhasesInOrder == BbrSpec => PhaseOrder
BY BbrInvariant, BbrStep, PTL DEF BbrSpec, PhaseOrder

(* The gains of ProbeBw are used in turn, also across the wrap of the      *)
(* counter, as long as it wraps at a multiple of eight.                    *)
THEOREM GainsStayInTurn == BbrSpec => GainsInTurn
BY BbrInvariant, BbrStep, PTL DEF BbrSpec, GainsInTurn
=============================================================================
