----------------------------- MODULE Congestion -----------------------------
(***************************************************************************)
(* A connection with one of the two congestion controllers.                *)
(***************************************************************************)
EXTENDS SctBbr, QuicBbr

BbrInit == FiltersInit /\ (SctInit \/ QuicBbrInit)

BbrNext ==
    \/ controller = "sct" /\ SctNext
    \/ controller = "quic" /\ QuicBbrNext

(* quinn's path MTU discovery stays within the segment size that           *)
(* sc-transport-quic assumes; both are 1452 bytes.                         *)
ASSUME MtuAssumption == \A m \in Mtus : m <= Segment

BbrSpec == BbrInit /\ [][BbrNext]_bbrVars

(* Acknowledgements keep coming, and time passes, as long as the           *)
(* connection is in use.                                                   *)
BbrFairness == []<><<gap' # 0>>_bbrVars

-----------------------------------------------------------------------------
BbrTypeOK ==
    /\ controller \in {"sct", "quic"} /\ mtu \in Mtus
    /\ samples \subseteq [age : Nat, rate : Rates] /\ max_bw \in Rates \cup {0}
    /\ min_rtt \in Rtts \cup {InitialRtt} /\ stamp \in 0 .. FilterWindow
    /\ phase \in Phases /\ used \in Phases /\ no_growth \in 0 .. 3
    /\ cycle \in 0 .. CycleWrap - 1 /\ since \in 0 .. FilterWindow + 1
    /\ cwnd \in Nat /\ gap \in Gaps \cup {0} /\ seen \subseteq Rtts

(* No acknowledgement, loss or change of the MTU leaves a window that      *)
(* stalls the connection: there is room for two packets of the MTU.  With  *)
(* sct-core's controller there is room for four, except that Drain lets    *)
(* cwnd fall to 1.4 packets and window() makes it two.                     *)
WindowFloor ==
    /\ controller = "sct" => /\ SctWindow >= 2 * mtu
                             /\ used # "Drain" => cwnd >= 4 * mtu
    /\ controller = "quic" => QuicWindow >= 2 * mtu /\ cwnd >= 2 * mtu

(* The minimum RTT is never a stale one: at every acknowledgement it was   *)
(* measured at most FilterWindow ago (or is the initial guess), and no     *)
(* smaller one was measured since.                                         *)
EstimateIsFresh ==
    /\ stamp <= FilterWindow
    /\ \A rtt \in seen : min_rtt <= rtt
    /\ min_rtt \in seen \/ (min_rtt = InitialRtt /\ \A rtt \in seen : InitialRtt <= rtt)

PhaseStep ==
    /\ phase' = "Startup" => phase = "Startup"
    /\ phase' = "Drain" => phase \in {"Startup", "Drain"} /\ no_growth' = 3
    /\ phase' = "ProbeRtt" /\ phase # "ProbeRtt" =>
          stamp + gap' >= FilterWindow /\ (controller = "quic" => phase = "ProbeBw")

(* Startup and Drain are never entered again.  ProbeRtt is entered only    *)
(* when the minimum RTT has reached the end of its window; sct-core's      *)
(* controller can then jump there out of Startup.                          *)
PhaseOrder == [][PhaseStep]_bbrVars

GainStep == cycle' % 8 \in {cycle % 8, (cycle + 1) % 8}

(* The gains of ProbeBw are used in turn, also when the counter wraps:     *)
(* after a probe with 1.25 the queue is drained with 0.75 before anything  *)
(* else is tried.                                                          *)
GainsInTurn == [][GainStep]_bbrVars

(* ProbeRtt ends, unless the acknowledgements are again and again further  *)
(* apart than the filter window: then each of them enters it anew.         *)
ProbeRttEnds ==
    \/ []<>(gap > FilterWindow)
    \/ phase = "ProbeRtt" ~> phase = "ProbeBw"
=============================================================================
