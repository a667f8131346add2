------------------------------ MODULE QuicBbr ------------------------------
(***************************************************************************)
(* ScientificCongestionController (sc-transport-quic), on the connections  *)
(* that carry telemetry events.                                            *)
(***************************************************************************)
EXTENDS BbrFilters

CONSTANTS
    Segment,    \* max_segment_size
    BwWindow,   \* bw_window_duration (3 s)
    CycleWrap   \* where the counter of cycles wraps (256)

ASSUME QuicBbrAssumption ==
    /\ Segment \in Nat \ {0} /\ BwWindow \in Nat
    /\ CycleWrap \in Nat \ {0} /\ CycleWrap % 8 = 0

(* initial_cwnd_bytes *)
InitialWindow == InitialPackets * Segment

QuicBbrInit == controller = "quic" /\ cwnd = Larger(InitialWindow, 2 * mtu)

QuicWindow == Larger(cwnd, 2 * Segment)

(* bdp() *)
QuicBdp(bw, rtt) == Larger(bw * rtt, InitialWindow)

(* update_rtt_model returns early when the minimum has expired; otherwise  *)
(* it is FilterRtt as well.  transition_state compares the age with the    *)
(* refreshed stamp.                                                        *)
Transition(dt) ==
    \/ /\ phase = "Startup"
       /\ no_growth' = IF 100 * max_bw' <= 125 * max_bw THEN no_growth + 1 ELSE 0
       /\ phase' = IF no_growth' >= 3 THEN "Drain" ELSE "Startup"
       /\ UNCHANGED since
    \/ /\ phase = "Drain"
       /\ phase' = IF cwnd <= QuicBdp(max_bw', min_rtt') THEN "ProbeBw" ELSE "Drain"
       /\ UNCHANGED <<no_growth, since>>
    \/ /\ phase = "ProbeBw"
       /\ phase' = IF stamp' >= FilterWindow THEN "ProbeRtt" ELSE "ProbeBw"
       /\ since' = 0 /\ UNCHANGED no_growth
    \/ /\ phase = "ProbeRtt"
       /\ phase' = IF since + dt >= ProbeTime THEN "ProbeBw" ELSE "ProbeRtt"
       /\ since' = IF since + dt >= ProbeTime THEN 0 ELSE since + dt
       /\ UNCHANGED no_growth

(* NextCycle that wraps one too early *)
NextCycleShort == (cycle + 1) % (CycleWrap - 1)

(* The counter of cycles is a u8 that wraps. *)
NextCycle == (cycle + 1) % CycleWrap

(* on_ack: the window is that of the phase after the transition.  In       *)
(* ProbeRtt that is the initial window, which bdp() is never below.        *)
QuicAck(rate, rtt, dt) ==
    LET bdp == QuicBdp(max_bw', min_rtt')
        target == CASE phase' = "Startup" -> (2885 * bdp) \div 1000
                    [] phase' = "Drain" -> (35 * bdp) \div 100
                    [] phase' = "ProbeBw" -> (2 * bdp * Gain(cycle % 8)) \div 100
                    [] phase' = "ProbeRtt" -> InitialWindow
    IN  /\ samples' = Sampled(rate, dt, BwWindow)
        /\ FilterRate
        /\ FilterRtt(rtt, dt)
        /\ Transition(dt)
        /\ cycle' = IF phase' = "ProbeBw" THEN NextCycle ELSE cycle
        /\ cwnd' = Larger(target, 2 * Segment)
        /\ used' = phase' /\ gap' = dt
        /\ UNCHANGED <<controller, mtu>>

(* on_congestion_event: the minimum is as old as it may be, and will be    *)
(* forgotten.                                                              *)
QuicLoss ==
    /\ stamp' = FilterWindow /\ gap' = 0
    /\ UNCHANGED <<controller, mtu, samples, max_bw, min_rtt, machine, history>>

QuicMtu(m) ==
    /\ mtu' = m /\ cwnd' = Larger(cwnd, 2 * m) /\ gap' = 0
    /\ UNCHANGED <<controller, model, phase, no_growth, cycle, since, history>>

QuicBbrNext ==
    \/ \E rate \in Rates, rtt \in Rtts, dt \in Gaps : QuicAck(rate, rtt, dt)
    \/ QuicLoss
    \/ \E m \in Mtus \ {mtu} : QuicMtu(m)
=============================================================================
