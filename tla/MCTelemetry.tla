---------------------------- MODULE MCTelemetry ----------------------------
(* Instances of Telemetry for TLC. *)
EXTENDS Telemetry, TLC

CONSTANT s1

Plain == [progress |-> FALSE, force |-> FALSE, loss |-> FALSE, size |-> 1, summary |-> 1]

(* Datagrams: sizes up to 2 are sent, 3 is over the preferred size, 4 does *)
(* not fit and is cut to its summary.  QUIC: two small progress events fit *)
(* the shared stream, a pair with a larger one is left to a detached task. *)
MCShapes ==
    ("sse" :> {Plain}) @@
    ("datagram" :>
        {[Plain EXCEPT !.size = 4], [Plain EXCEPT !.progress = TRUE, !.size = 3],
         [Plain EXCEPT !.force = TRUE], [Plain EXCEPT !.loss = TRUE],
         [Plain EXCEPT !.size = 4, !.summary = 4]}) @@
    ("quic" :>
        {Plain, [Plain EXCEPT !.progress = TRUE],
         [Plain EXCEPT !.progress = TRUE, !.size = 3]})

MCBatches == {<<Plain, Plain>>, <<Plain, Plain, Plain>>}
MCMaxEvents == "sse" :> 5 @@ "datagram" :> 3 @@ "quic" :> 3
MCSubscribers == "sse" :> {s1} @@ "datagram" :> {} @@ "quic" :> {}
=============================================================================
