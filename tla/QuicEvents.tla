----------------------------- MODULE QuicEvents -----------------------------
(***************************************************************************)
(* QuicStreamTransport (sc-transport-quic): send_event with its shared     *)
(* connection and its shared unidirectional stream, coalescing of progress *)
(* events, detached sends of large frames and the SSE fallback; and        *)
(* send_events_batch with the BatchSender.  A step of a call is what       *)
(* happens between two places where it may wait; mutexes held while it     *)
(* waits are variables.  Connections are numbered as they are made.        *)
(***************************************************************************)
EXTENDS EventCalls

CONSTANTS
    CoalesceN,      \* SC_QUIC_COALESCE_EVENTS, 1 for no coalescing
    PersistentUni,  \* SC_QUIC_PERSISTENT_UNI
    MirrorSse,      \* SC_QUIC_MIRROR_SSE
    LargeFrame,     \* LARGE_FRAME_THRESHOLD
    MaxFrame,       \* MAX_TELEMETRY_FRAME_BYTES
    Batches,        \* batches, as sequences of shapes
    ChunkSize,      \* BatchSender::chunk_size (128)
    MaxStreams,     \* BatchSender::max_parallel_streams (16)
    MaxConns,       \* bound: connections made
    MaxDeaths       \* bound: connections closed by peer or network

ASSUME QuicAssumption ==
    /\ CoalesceN \in Nat \ {0} /\ PersistentUni \in BOOLEAN /\ MirrorSse \in BOOLEAN
    /\ LargeFrame \in Nat /\ MaxFrame \in Nat /\ ChunkSize \in Nat \ {0} /\ MaxStreams \in Nat \ {0}
    /\ MaxConns \in Nat /\ MaxDeaths \in Nat /\ Batches \subseteq Seq(Shape) \ {<< >>}

VARIABLES
    conns,      \* connections made
    dead,       \* those that are closed
    shared,     \* shared_connection, 0 for None
    conn,       \* the connection a call works with
    elock,      \* who holds the lock of client_endpoint
    uni,        \* shared_uni_stream: its connection, 0 for None
    ulock,      \* who holds the lock of shared_uni_stream
    tries,      \* rounds left of the loop over the shared stream
    load,       \* the events of the frame a call is sending
    pending,    \* pending_events
    detached,   \* tasks that send a frame on a stream of its own
    chunks,     \* the chunks of a call's batch, and how far their tasks are
    results,    \* history: what send_events_batch has returned
    flight,     \* frames that quinn has accepted and the peer has not read
    got,        \* how often a peer has decoded an event
    cut,        \* history: events of frames that quinn accepted and no peer decoded
    lost        \* history: events whose frame failed after they were answered

locks == <<elock, ulock>>
links == <<conns, dead, shared>>
sending == <<tries, load, pending, detached>>
batching == <<chunks, results>>
arrivals == <<flight, got, cut, lost>>
quicVars == <<links, conn, locks, uni, sending, batching, arrivals>>

Nobody == "nobody"
Ids == 1 .. MaxEvents["quic"]

QuicInit ==
    /\ conns = 0 /\ dead = {} /\ shared = 0 /\ conn = [c \in Callers |-> 0]
    /\ elock = Nobody /\ ulock = Nobody /\ uni = 0
    /\ tries = [c \in Callers |-> 0] /\ load = [c \in Callers |-> << >>]
    /\ pending = << >> /\ detached = {} /\ chunks = [c \in Callers |-> << >>]
    /\ results = {} /\ flight = {} /\ got = [e \in Ids |-> 0] /\ cut = {} /\ lost = {}

Alive(k) == k # 0 /\ k \notin dead
Elements(q) == {q[i] : i \in DOMAIN q}

(* What a frame of events takes: frame_event, frame_event_batch. *)
FrameSize(es) ==
    LET upTo[n \in 0 .. Len(es)] == IF n = 0 THEN 0 ELSE upTo[n - 1] + shape[es[n]].size
    IN  upTo[Len(es)]

(* write_all returns as soon as quinn has buffered the frame: nobody has   *)
(* read it.  A frame of which only a part was accepted is never decoded.   *)
Accepted(k, es) == flight' = flight \cup {[on |-> k, es |-> es]} /\ UNCHANGED <<got, cut>>
NotAccepted == UNCHANGED <<flight, got, cut>>

InBatch(c) == chunks[c] # << >>

QuicSend(c) ==
    /\ \E x \in Shapes["quic"] :
           Begin(c, "quic", x, IF enabled THEN "check" ELSE "fallback")
    /\ UNCHANGED quicVars

-----------------------------------------------------------------------------
(* The call is answered.  After a success the event may be mirrored; SSE   *)
(* never drops an event, so a fallback counts as delivered as well.        *)
Answer(c, a) ==
    /\ Return(c, a)
    /\ delivered' = delivered + 1 /\ UNCHANGED <<dropped, fallbacks>>

Succeed(c) ==
    /\ Answer(c, "Sent")
    /\ IF MirrorSse THEN Publish(ev[c]) ELSE UNCHANGED sseVars

(* Mutant of LeftPending: the queue is copied instead of taken. *)
LeftPendingCopied(queue, coalesces) == pending

(* send_event_over_quic, as soon as it has connection k.  A progress event *)
(* waits in pending_events until there are CoalesceN of them; a large      *)
(* frame, or every frame without the shared stream, is left to a task of   *)
(* its own.                                                                *)
LeftPending(queue, coalesces) == IF coalesces THEN << >> ELSE pending

Frame(c, k) ==
    LET coalesces == CoalesceN > 1 /\ shape[ev[c]].progress
        queue == Append(pending, ev[c])
        es == IF coalesces THEN queue ELSE <<ev[c]>>
        detach == FrameSize(es) > LargeFrame \/ ~PersistentUni
    IN  IF coalesces /\ Len(queue) < CoalesceN
        THEN /\ pending' = queue /\ Succeed(c)
             /\ UNCHANGED <<conn, load, tries, detached>>
        ELSE /\ pending' = LeftPending(queue, coalesces)
             /\ IF detach
                THEN /\ detached' = detached \cup {[on |-> k, es |-> es]} /\ Succeed(c)
                     /\ UNCHANGED <<conn, load, tries>>
                ELSE /\ conn' = [conn EXCEPT ![c] = k]
                     /\ load' = [load EXCEPT ![c] = es]
                     /\ tries' = [tries EXCEPT ![c] = 2]
                     /\ Goto(c, "uni") /\ UNCHANGED <<outcome, sseVars, detached>>

(* connect_for_batch, used by both calls.  The lock of shared_connection   *)
(* is released before the connection is made: each of several callers      *)
(* makes its own, one after the other, and the last one stays.             *)
Proceed(c, k) ==
    IF InBatch(c)
    THEN /\ conn' = [conn EXCEPT ![c] = k] /\ Goto(c, "chunks")
         /\ UNCHANGED <<outcome, sseVars, sending>>
    ELSE Frame(c, k)

CheckShared(c) ==
    /\ pc[c] = "check"
    /\ IF Alive(shared)
       THEN Proceed(c, shared)
       ELSE Goto(c, "endpoint") /\ UNCHANGED <<outcome, sseVars, conn, sending>>
    /\ SameCall /\ UNCHANGED <<links, locks, uni, batching, arrivals>>

LockEndpoint(c) ==
    /\ pc[c] = "endpoint" /\ elock = Nobody
    /\ elock' = c /\ Goto(c, "dialing")
    /\ SameCall /\ UNCHANGED <<outcome, sseVars, links, conn, ulock, uni>>
    /\ UNCHANGED <<sending, batching, arrivals>>

(* The connection is made, or something fails or times out.  For a batch   *)
(* the error is the answer.                                                *)
Dial(c) ==
    /\ pc[c] = "dialing" /\ elock' = Nobody
    /\ \/ /\ conns < MaxConns
          /\ conns' = conns + 1 /\ conn' = [conn EXCEPT ![c] = conns + 1]
          /\ Goto(c, "store") /\ UNCHANGED chunks
       \/ /\ Goto(c, IF InBatch(c) THEN "idle" ELSE "fallback")
          /\ chunks' = [chunks EXCEPT ![c] = << >>]
          /\ UNCHANGED <<conns, conn>>
    /\ SameCall /\ UNCHANGED <<outcome, sseVars, dead, shared, ulock, uni>>
    /\ UNCHANGED <<sending, results, arrivals>>

StoreShared(c) ==
    /\ pc[c] = "store"
    /\ shared' = conn[c]
    /\ Proceed(c, conn[c])
    /\ SameCall /\ UNCHANGED <<conns, dead, locks, uni, batching, arrivals>>

(* Mutant of NextRound: the loop has no end. *)
NextRoundForever(c) == Goto(c, "uni") /\ UNCHANGED tries

(* The loop over the shared stream; its lock is held while the stream is   *)
(* opened and written.  quinn's flush has no effect.  A write fails if the *)
(* connection is closed or the peer has stopped the stream.                *)
NextRound(c) ==
    /\ tries' = [tries EXCEPT ![c] = @ - 1]
    /\ Goto(c, IF tries[c] = 1 THEN "bi" ELSE "uni")

TakeStream(c) ==
    /\ pc[c] = "uni" /\ ulock = Nobody
    /\ IF uni # 0 \/ Alive(conn[c])
       THEN /\ uni' = IF uni = 0 THEN conn[c] ELSE uni
            /\ ulock' = c /\ Goto(c, "write") /\ UNCHANGED tries
       ELSE NextRound(c) /\ UNCHANGED <<uni, ulock>>
    /\ SameCall /\ UNCHANGED <<outcome, sseVars, links, conn, elock>>
    /\ UNCHANGED <<load, pending, detached, batching, arrivals>>

WriteUni(c) ==
    /\ pc[c] = "write" /\ ulock' = Nobody
    /\ \/ /\ Alive(uni) /\ Accepted(uni, load[c]) /\ Succeed(c)
          /\ conn' = [conn EXCEPT ![c] = 0] /\ load' = [load EXCEPT ![c] = << >>]
          /\ tries' = [tries EXCEPT ![c] = 0] /\ UNCHANGED uni
       \/ /\ uni' = 0 /\ NextRound(c) /\ NotAccepted
          /\ UNCHANGED <<outcome, sseVars, conn, load>>
    /\ SameCall /\ UNCHANGED <<links, elock, pending, detached, batching, lost>>

(* The compatibility fallback.  If it fails as well, only the event of this *)
(* call is sent over SSE.                                                  *)
WriteBi(c) ==
    /\ pc[c] = "bi"
    /\ \/ Alive(conn[c]) /\ Accepted(conn[c], load[c]) /\ Succeed(c) /\ UNCHANGED lost
       \/ /\ lost' = lost \cup (Elements(load[c]) \ {ev[c]}) /\ NotAccepted
          /\ Goto(c, "fallback") /\ UNCHANGED <<outcome, sseVars>>
    /\ conn' = [conn EXCEPT ![c] = 0] /\ load' = [load EXCEPT ![c] = << >>]
    /\ SameCall /\ UNCHANGED <<links, locks, uni, tries, pending, detached, batching>>

(* A detached task: nobody learns whether it succeeds. *)
DetachedSend(d) ==
    /\ d \in detached
    /\ detached' = detached \ {d}
    /\ \/ Alive(d.on) /\ Accepted(d.on, d.es) /\ UNCHANGED lost
       \/ lost' = lost \cup Elements(d.es) /\ NotAccepted
    /\ UNCHANGED <<callVars, sseVars, links, conn, locks, uni, tries, load,
                   pending, batching>>

(* A fallback is counted, then announced; then the event goes over SSE. *)
QuicCount(c) ==
    /\ pc[c] = "fallback"
    /\ fallbacks' = fallbacks + 1 /\ Goto(c, "announce")
    /\ SameCall /\ UNCHANGED <<answer, delivered, dropped, sseVars, quicVars>>

QuicAnnounce(c) ==
    /\ pc[c] = "announce"
    /\ Publish(Notice) /\ Goto(c, "divert")
    /\ SameCall /\ UNCHANGED <<answer, delivered, dropped, fallbacks, quicVars>>

QuicDivert(c) ==
    /\ pc[c] = "divert"
    /\ Publish(ev[c])
    /\ Answer(c, IF enabled THEN "send_failed" ELSE "disabled")
    /\ SameCall /\ UNCHANGED quicVars

-----------------------------------------------------------------------------
(* send_events_batch: the shared stream is finished, a connection is found *)
(* or made, and each chunk is sent by a task on a stream of its own.       *)
Chunk(b) ==
    LET n == IF b[1].size > LargeFrame THEN 1 ELSE ChunkSize
        first(k) == (k - 1) * n + 1
        last(k) == IF k * n > Len(b) THEN Len(b) ELSE k * n
    IN  [k \in 1 .. (Len(b) + n - 1) \div n |->
            [at |-> "waiting",
             es |-> [i \in 1 .. last(k) - first(k) + 1 |-> Len(shape) + first(k) + i - 1]]]

BatchCall(c, b) ==
    /\ ~closed /\ transport = "quic" /\ enabled /\ pc[c] = "idle"
    /\ Len(shape) + Len(b) <= MaxEvents["quic"]
    /\ shape' = shape \o b
    /\ answer' = answer \o [i \in DOMAIN b |-> "batch"]
    /\ chunks' = [chunks EXCEPT ![c] = Chunk(b)]
    /\ Goto(c, "finish")
    /\ UNCHANGED <<transport, enabled, counters, sseVars, links, conn,
                   locks, uni, sending, results, arrivals>>

FinishStream(c) ==
    /\ pc[c] = "finish" /\ ulock = Nobody
    /\ uni' = 0 /\ Goto(c, "check")
    /\ SameCall
    /\ UNCHANGED <<outcome, sseVars, links, conn, locks, sending,
                   batching, arrivals>>

InState(c, states) == {k \in DOMAIN chunks[c] : chunks[c][k].at \in states}
Advance(c, k, state) == chunks' = [chunks EXCEPT ![c][k].at = state]

(* A permit of the semaphore is acquired before the next task is spawned. *)
SpawnChunk(c) ==
    /\ pc[c] = "chunks"
    /\ Cardinality(InState(c, {"opening", "writing"})) < MaxStreams
    /\ \E k \in InState(c, {"waiting"}) :
         /\ \A j \in InState(c, {"waiting"}) : k <= j
         /\ Advance(c, k, "opening")
    /\ UNCHANGED <<callVars, sseVars, links, conn, locks, uni, sending,
                   results, arrivals>>

OpenChunk(c, k) ==
    /\ k \in InState(c, {"opening"})
    /\ Advance(c, k, IF Alive(conn[c]) THEN "writing" ELSE "failed")
    /\ UNCHANGED <<callVars, sseVars, links, conn, locks, uni, sending,
                   results, arrivals>>

WriteChunk(c, k) ==
    /\ k \in InState(c, {"writing"})
    /\ \/ Alive(conn[c]) /\ Accepted(conn[c], chunks[c][k].es) /\ Advance(c, k, "sent")
       \/ Advance(c, k, "failed") /\ NotAccepted
    /\ UNCHANGED <<callVars, sseVars, links, conn, locks, uni, sending,
                   results, lost>>

(* Mutant of BatchResult: events are counted as sent before the outcome. *)
BatchResultEarly(c) ==
    [events |-> UNION {Elements(chunks[c][k].es) : k \in DOMAIN chunks[c]},
     sent_events |-> Cardinality(UNION {Elements(chunks[c][k].es) : k \in DOMAIN chunks[c]}),
     failed_chunks |-> Cardinality(InState(c, {"failed"}))]

(* The results of the tasks, added up. *)
BatchResult(c) ==
    LET es(ks) == UNION {Elements(chunks[c][k].es) : k \in ks}
    IN  [events |-> es(DOMAIN chunks[c]),
         sent_events |-> Cardinality(es(InState(c, {"sent"}))),
         failed_chunks |-> Cardinality(InState(c, {"failed"}))]

BatchReturn(c) ==
    /\ pc[c] = "chunks" /\ InState(c, {"sent", "failed"}) = DOMAIN chunks[c]
    /\ results' = results \cup {BatchResult(c)}
    /\ chunks' = [chunks EXCEPT ![c] = << >>] /\ conn' = [conn EXCEPT ![c] = 0]
    /\ Goto(c, "idle")
    /\ SameCall
    /\ UNCHANGED <<outcome, sseVars, links, locks, uni, sending,
                   arrivals>>

-----------------------------------------------------------------------------
(* The peer reads a frame with read_framed_events, which refuses one that  *)
(* is empty or too large; or it gives up the stream without reading.       *)
PeerReads(f) ==
    /\ f \in flight /\ flight' = flight \ {f}
    /\ \/ /\ FrameSize(f.es) \in 1 .. MaxFrame
          /\ got' = [e \in Ids |-> got[e] + Occurrences(e, f.es)] /\ UNCHANGED cut
       \/ cut' = cut \cup Elements(f.es) /\ UNCHANGED got
    /\ UNCHANGED <<callVars, sseVars, links, conn, locks, uni, sending, batching, lost>>

(* The network or the peer closes a connection, and what the peer has not  *)
(* read is gone.                                                           *)
ConnectionDies ==
    /\ Cardinality(dead) < MaxDeaths
    /\ \E k \in (1 .. conns) \ dead :
         /\ dead' = dead \cup {k}
         /\ flight' = {f \in flight : f.on # k}
         /\ cut' = cut \cup UNION {Elements(f.es) : f \in flight \ flight'}
    /\ UNCHANGED <<callVars, sseVars, conns, shared, conn, locks, uni,
                   sending, batching, got, lost>>

QuicStep(c) ==
    \/ CheckShared(c) \/ LockEndpoint(c) \/ Dial(c) \/ StoreShared(c)
    \/ TakeStream(c) \/ WriteUni(c) \/ WriteBi(c)
    \/ QuicCount(c) \/ QuicAnnounce(c) \/ QuicDivert(c)
    \/ FinishStream(c) \/ SpawnChunk(c) \/ BatchReturn(c)
    \/ \E k \in DOMAIN chunks[c] : OpenChunk(c, k) \/ WriteChunk(c, k)

QuicNext ==
    \/ \E c \in Callers :
         QuicSend(c) \/ QuicStep(c) \/ \E b \in Batches : BatchCall(c, b)
    \/ \E d \in detached : DetachedSend(d)
    \/ \E f \in flight : PeerReads(f)
    \/ ConnectionDies
=============================================================================
