--------------------------------- MODULE Probe ---------------------------------
(***************************************************************************)
(* NetworkProbe::measure against a ProbeServer: probes one after the       *)
(* other, each waiting for an echo or for its timeout, then pairs of       *)
(* datagrams whose dispersion gives the bandwidth.  read_datagram returns  *)
(* whatever echo comes next: nothing matches an echo with what was sent.   *)
(*                                                                         *)
(* Round-trip times are left out; what is kept is which echo was taken for *)
(* the answer to what, on which the measured times depend.                 *)
(***************************************************************************)
EXTENDS Integers, FiniteSets, Sequences

CONSTANTS
    ProbeCount,     \* probe_packet_count
    PairCount       \* pairs sent (5)

ASSUME ProbeAssumption == ProbeCount \in Nat \ {0} /\ PairCount \in Nat

VARIABLES
    stage,      \* "probes", "pairs", "done" or "failed"
    sends,      \* probes sent, or pairs
    awaiting,   \* echoes that measure is still reading
    up,         \* datagrams on their way to the server
    down,       \* echoes on their way back
    arrived,    \* echoes that measure has not read
    acks,       \* probes taken for answered
    probes,     \* history: probes sent in all
    lost,       \* history: datagrams and echoes the network dropped
    answers,    \* history: which echo answered what
    timeouts    \* history: whether a read ever timed out

probeVars ==
    <<stage, sends, awaiting, up, down, arrived, acks, probes, lost, answers, timeouts>>

ProbeInit ==
    /\ stage = "probes" /\ sends = 0 /\ awaiting = 0
    /\ up = {} /\ down = {} /\ arrived = <<>> /\ acks = 0
    /\ probes = 0 /\ lost = {} /\ answers = {} /\ timeouts = FALSE

SendProbe ==
    /\ stage = "probes" /\ awaiting = 0 /\ sends < ProbeCount
    /\ up' = up \cup {<<"probes", sends + 1, 1>>}
    /\ sends' = sends + 1 /\ probes' = probes + 1 /\ awaiting' = 1
    /\ UNCHANGED <<stage, down, arrived, acks, lost, answers, timeouts>>

(* All probes are sent, or probe_duration_secs is over; without any answer *)
(* there is no profile.                                                    *)
EndProbes ==
    /\ stage = "probes" /\ awaiting = 0 /\ sends > 0
    /\ stage' = IF acks = 0 THEN "failed" ELSE "pairs"
    /\ sends' = 0
    /\ UNCHANGED <<awaiting, up, down, arrived, acks, probes, lost, answers, timeouts>>

SendPair ==
    /\ stage = "pairs" /\ awaiting = 0 /\ sends < PairCount
    /\ up' = up \cup {<<"pairs", sends + 1, i>> : i \in 1 .. 2}
    /\ sends' = sends + 1 /\ awaiting' = 2
    /\ UNCHANGED <<stage, down, arrived, acks, probes, lost, answers, timeouts>>

Finish ==
    /\ stage = "pairs" /\ awaiting = 0 /\ sends = PairCount
    /\ stage' = "done"
    /\ UNCHANGED <<sends, awaiting, up, down, arrived, acks, probes, lost, answers, timeouts>>

ReadEcho ==
    /\ awaiting > 0 /\ arrived # <<>>
    /\ acks' = IF stage = "probes" THEN acks + 1 ELSE acks
    /\ answers' = answers \cup {[asked |-> <<stage, sends>>, echo |-> Head(arrived)]}
    /\ arrived' = Tail(arrived) /\ awaiting' = awaiting - 1
    /\ UNCHANGED <<stage, sends, up, down, probes, lost, timeouts>>

(* ReadTimesOut that counts the probe as answered *)
ReadTimesOutCounts ==
    /\ awaiting > 0 /\ arrived = <<>>
    /\ awaiting' = 0 /\ timeouts' = TRUE
    /\ acks' = IF stage = "probes" THEN acks + 1 ELSE acks
    /\ UNCHANGED <<stage, sends, up, down, arrived, probes, lost, answers>>

(* The timeout of a read gives up the probe, or the pair. *)
ReadTimesOut ==
    /\ awaiting > 0 /\ arrived = <<>>
    /\ awaiting' = 0 /\ timeouts' = TRUE
    /\ UNCHANGED <<stage, sends, up, down, arrived, acks, probes, lost, answers>>

(* ProbeServer sends every datagram back. *)
Echo ==
    /\ \E d \in up : up' = up \ {d} /\ down' = down \cup {d}
    /\ UNCHANGED <<stage, sends, awaiting, arrived, acks, probes, lost, answers, timeouts>>

(* The network delivers an echo, or drops one or a datagram. *)
Arrive ==
    /\ \E d \in down : down' = down \ {d} /\ arrived' = Append(arrived, d)
    /\ UNCHANGED <<stage, sends, awaiting, up, acks, probes, lost, answers, timeouts>>

Drop ==
    /\ \E d \in up \cup down : up' = up \ {d} /\ down' = down \ {d} /\ lost' = lost \cup {d}
    /\ UNCHANGED <<stage, sends, awaiting, arrived, acks, probes, answers, timeouts>>

ProbeNext ==
    \/ SendProbe \/ EndProbes \/ SendPair \/ Finish \/ ReadEcho \/ ReadTimesOut
    \/ Echo \/ Arrive \/ Drop

ProbeSpec == ProbeInit /\ [][ProbeNext]_probeVars

-----------------------------------------------------------------------------
(* Late echoes do not hide loss: probes that stayed unanswered are at      *)
(* least as many as those the network dropped, so that                     *)
(* estimated_loss_rate is never too low.  The times are another matter:    *)
(* an echo is taken for the answer to another probe or pair, but only      *)
(* after a read has timed out.                                             *)
ProbeIsSound ==
    /\ acks + Cardinality({d \in lost : d[1] = "probes"}) <= probes
    /\ \A a \in answers : timeouts \/ SubSeq(a.echo, 1, 2) = a.asked
=============================================================================
