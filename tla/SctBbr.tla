------------------------------- MODULE SctBbr -------------------------------
(***************************************************************************)
(* ScientificBbrController (sct-core), on the connections that carry       *)
(* files.                                                                  *)
(***************************************************************************)
EXTENDS BbrFilters

CONSTANTS
    BwRtts,     \* RTTs that the bandwidth window spans (10)
    BwMin,      \* its minimum (2 s)
    RoundMin    \* least duration of a round in ProbeBw (50 ms)

ASSUME SctAssumption == BwRtts \in Nat /\ BwMin \in Nat /\ RoundMin \in 1 .. FilterWindow

SctInit == controller = "sct" /\ cwnd = InitialPackets * mtu

(* window(); an acknowledgement may leave cwnd smaller than two packets. *)
SctWindow == Larger(cwnd, 2 * mtu)

(* SctBdp without the four packets *)
SctBdpBare(bw, rtt) == bw * rtt

SctBdp(bw, rtt) == Larger(bw * rtt, 4 * mtu)

(* Startup that lasts one round too long *)
StartupLonger(bdp) ==
    /\ cwnd' = (2885 * bdp) \div 1000
    /\ no_growth' = IF 100 * max_bw' <= 105 * max_bw THEN no_growth + 1 ELSE 0
    /\ phase' = IF no_growth' > 3 THEN "Drain" ELSE "Startup"
    /\ UNCHANGED cycle

(* What the phases do, with a bandwidth-delay product of bdp. *)
Startup(bdp) ==
    /\ cwnd' = (2885 * bdp) \div 1000
    /\ no_growth' = IF 100 * max_bw' <= 105 * max_bw THEN no_growth + 1 ELSE 0
    /\ phase' = IF no_growth' >= 3 THEN "Drain" ELSE "Startup"
    /\ UNCHANGED cycle

Drain(bdp) ==
    /\ cwnd' = (35 * bdp) \div 100
    /\ phase' = "ProbeBw" /\ UNCHANGED <<no_growth, cycle>>

ProbeBw(bdp, round, limited) ==
    /\ cycle' = IF round THEN (cycle + 1) % 8 ELSE cycle
    /\ cwnd' = (2 * bdp * Gain(cycle') * IF limited THEN 9 ELSE 10) \div 1000
    /\ phase' = "ProbeBw" /\ UNCHANGED no_growth

(* ProbeRtt that starts over *)
ProbeRttRestarts(bdp) ==
    /\ cwnd' = Larger(bdp \div 2, 4 * mtu)
    /\ phase' = IF stamp' >= ProbeTime THEN "Startup" ELSE "ProbeRtt"
    /\ UNCHANGED <<no_growth, cycle>>

(* ProbeRtt that waits for an age that makes the minimum expire *)
ProbeRttStays(bdp) ==
    /\ cwnd' = Larger(bdp \div 2, 4 * mtu)
    /\ phase' = IF stamp' > FilterWindow THEN "ProbeBw" ELSE "ProbeRtt"
    /\ UNCHANGED <<no_growth, cycle>>

ProbeRtt(bdp) ==
    /\ cwnd' = Larger(bdp \div 2, 4 * mtu)
    /\ phase' = IF stamp' >= ProbeTime THEN "ProbeBw" ELSE "ProbeRtt"
    /\ UNCHANGED <<no_growth, cycle>>

(* on_acked, dt ticks after the last one.  An expired minimum puts the     *)
(* controller into ProbeRtt, from whichever phase.                         *)
SctAck(rate, rtt, dt, limited) ==
    LET span == Larger(BwRtts * min_rtt, BwMin)
        entered == IF Expired(dt) THEN "ProbeRtt" ELSE phase
        bdp == SctBdp(max_bw', min_rtt')
        round == since + dt >= Larger(min_rtt', RoundMin)
    IN  /\ samples' = Sampled(rate, dt, span)
        /\ IF limited THEN UNCHANGED max_bw ELSE FilterRate
        /\ FilterRtt(rtt, dt)
        /\ \/ entered = "Startup" /\ Startup(bdp)
           \/ entered = "Drain" /\ Drain(bdp)
           \/ entered = "ProbeBw" /\ ProbeBw(bdp, round, limited)
           \/ entered = "ProbeRtt" /\ ProbeRtt(bdp)
        /\ since' = IF entered = "ProbeBw" /\ round THEN 0 ELSE Older(since, dt, FilterWindow)
        /\ used' = entered /\ gap' = dt
        /\ UNCHANGED <<controller, mtu>>

(* on_mtu_update.  on_congestion_event does nothing. *)
SctMtu(m) ==
    /\ mtu' = m /\ cwnd' = Larger(cwnd, 4 * m) /\ gap' = 0
    /\ UNCHANGED <<controller, model, phase, no_growth, cycle, since, history>>

SctNext ==
    \/ \E rate \in Rates, rtt \in Rtts, dt \in Gaps, limited \in BOOLEAN :
         SctAck(rate, rtt, dt, limited)
    \/ \E m \in Mtus \ {mtu} : SctMtu(m)
=============================================================================
