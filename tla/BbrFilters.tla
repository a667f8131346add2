---------------------------- MODULE BbrFilters ----------------------------
(***************************************************************************)
(* What the two BBR-like congestion controllers of the repository have in  *)
(* common: ScientificBbrController (sct-core, on the connections that      *)
(* carry files) and ScientificCongestionController (sc-transport-quic, on  *)
(* the ones that carry events).  quinn calls a controller for every        *)
(* acknowledgement, loss and change of the MTU, and asks it for the window.*)
(*                                                                         *)
(* Time is counted in ticks; an Instant is modelled by its age, which      *)
(* saturates where the code no longer tells ages apart.  A rate is bytes   *)
(* per tick, so that rate * rtt is the bandwidth-delay product.  The       *)
(* delivery rate that an acknowledgement yields is an input.  The pacing   *)
(* rate and the RTT variance only feed metrics and are left out.           *)
(***************************************************************************)
EXTENDS Integers

CONSTANTS
    Rates,          \* delivery rates of acknowledgements
    Rtts,           \* round-trip times
    Gaps,           \* ticks between two acknowledgements; 0 in the same frame
    Mtus,           \* sizes of a packet
    InitialRtt,     \* min_rtt before the first sample (100 ms)
    FilterWindow,   \* min_rtt_filter_window (10 s)
    ProbeTime,      \* probe_rtt_duration (200 ms)
    InitialPackets  \* packets of the initial window (10)

ASSUME FilterAssumption ==
    /\ Rates \subseteq Nat /\ Rtts \subseteq 1 .. FilterWindow /\ Gaps \subseteq Nat
    /\ Mtus \subseteq Nat \ {0} /\ InitialRtt \in 1 .. FilterWindow
    /\ FilterWindow \in Nat \ {0} /\ ProbeTime \in Nat \ {0} /\ ProbeTime <= FilterWindow
    /\ InitialPackets \in Nat /\ InitialPackets >= 4

VARIABLES
    controller, \* which of the two it is
    mtu,        \* the current MTU
    samples,    \* bandwidth samples: rates and their ages
    max_bw,     \* max_bandwidth_bps
    min_rtt,    \* min_rtt
    stamp,      \* age of min_rtt_stamp
    phase,      \* BbrState
    no_growth,  \* startup rounds without growth
    cycle,      \* position in the cycle of gains
    since,      \* age of round_start, or of the entry into ProbeRtt
    cwnd,       \* the congestion window
    gap,        \* history: ticks that had passed at the last call
    seen,       \* history: RTTs acknowledged at and after min_rtt_stamp
    used        \* history: the phase that has set cwnd last

model == <<samples, max_bw, min_rtt, stamp>>
machine == <<phase, no_growth, cycle, since, cwnd>>
history == <<seen, used>>
bbrVars == <<controller, mtu, model, machine, gap, history>>

Phases == {"Startup", "Drain", "ProbeBw", "ProbeRtt"}

Larger(a, b) == IF a >= b THEN a ELSE b

(* Ages saturate one tick after the last one that matters. *)
Older(age, dt, limit) == IF age + dt > limit THEN limit + 1 ELSE age + dt

(* The samples when dt ticks have passed, with the new one.  Those of an   *)
(* age above span have left the window.  One that is no faster than a      *)
(* newer one can never be the maximum again and is left out as well.       *)
Sampled(rate, dt, span) ==
    {x \in {[age |-> y.age + dt, rate |-> y.rate] : y \in samples} :
        x.age <= span /\ x.rate > rate} \cup {[age |-> 0, rate |-> rate]}

(* max_bandwidth_bps becomes the highest rate in the window. *)
FilterRate ==
    /\ max_bw' \in {x.rate : x \in samples'}
    /\ \A x \in samples' : x.rate <= max_bw'

(* The filter of the minimum RTT: it starts anew when its sample has       *)
(* become too old.                                                         *)
Expired(dt) == stamp + dt > FilterWindow

(* FilterRtt that keeps the expired minimum if the sample is larger *)
FilterRttKeeps(rtt, dt) ==
    IF Expired(dt) \/ rtt < min_rtt
    THEN /\ min_rtt' = IF rtt < min_rtt THEN rtt ELSE min_rtt
         /\ stamp' = 0 /\ seen' = {rtt}
    ELSE /\ stamp' = Older(stamp, dt, FilterWindow) /\ seen' = seen \cup {rtt}
         /\ UNCHANGED min_rtt

FilterRtt(rtt, dt) ==
    IF Expired(dt) \/ rtt < min_rtt
    THEN min_rtt' = rtt /\ stamp' = 0 /\ seen' = {rtt}
    ELSE /\ stamp' = Older(stamp, dt, FilterWindow) /\ seen' = seen \cup {rtt}
         /\ UNCHANGED min_rtt

(* The cycle of gains in ProbeBw, in percent. *)
Gain(i) == CASE i = 0 -> 125 [] i = 1 -> 75 [] OTHER -> 100

FiltersInit ==
    /\ mtu \in Mtus
    /\ samples = {} /\ max_bw = 0 /\ min_rtt = InitialRtt /\ stamp = 0
    /\ phase = "Startup" /\ no_growth = 0 /\ cycle = 0 /\ since = 0
    /\ gap = 0 /\ seen = {} /\ used = "Startup"
=============================================================================
