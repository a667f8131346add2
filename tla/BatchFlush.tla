------------------------------ MODULE BatchFlush ------------------------------
(***************************************************************************)
(* What AutopilotRuntime::run_pipeline promises to FileSender::flush_batch *)
(* and what ChunkTransfer!FlushBatch takes for granted: a flush hands a    *)
(* planned set of packets to the paths, all of it before it ends, and the  *)
(* parity of a group only after the data it was computed from.             *)
(***************************************************************************)
VARIABLES
    plan,   \* the packets of the flush
    sent,   \* those handed to a path so far
    open    \* whether a flush is running

flushVars == <<plan, sent, open>>

Due(p) ==
    p.parity => {d \in plan : ~d.parity /\ d.group = p.group} \subseteq sent

Init == plan = {} /\ sent = {} /\ open = FALSE

(* The plan is fixed when the flush starts. *)
Begin ==
    /\ ~open /\ open' = TRUE /\ sent' = {}
    /\ \A p \in plan' : p.parity =>
          \E d \in plan' : ~d.parity /\ d.group = p.group

(* A packet may be handed over more than once. *)
HandOver ==
    /\ open /\ UNCHANGED <<plan, open>>
    /\ \E p \in plan : Due(p) /\ sent' = sent \cup {p}

End == open /\ sent = plan /\ open' = FALSE /\ UNCHANGED <<plan, sent>>

Next == Begin \/ HandOver \/ End

Spec == Init /\ [][Next]_flushVars
=============================================================================
