--------------------------- MODULE ChunkTransfer ---------------------------
(***************************************************************************)
(* One file sent by FileSender::send (sct-core/src/sender) to              *)
(* FileReceiver::accept_transfer (sct-core/src/receiver), over any number  *)
(* of attempts.  An attempt is one QUIC connection: manifest,              *)
(* acknowledgement with what the receiver already has, chunks and parity   *)
(* shards over streams and datagrams with feedback in the other direction, *)
(* TransferComplete, FinalAck.  The connection may be lost and the         *)
(* receiver may be killed at any point; what it leaves on disk (the .part  *)
(* file and .state.json) is what the next attempt starts from.             *)
(*                                                                         *)
(* The file is a set of units; the content of a file on disk is the set of *)
(* the units in which it equals the source.  A chunk is csize units, and   *)
(* csize belongs to the attempt: the transfer id that names the files on   *)
(* disk does not depend on it.                                             *)
(***************************************************************************)
EXTENDS Integers, FiniteSets, Sequences

CONSTANTS
    Size,             \* units in the file
    Zero,             \* units of the source that are all zero, as a hole is
    ChunkSizes,       \* chunk sizes an attempt may use
    ResumeModes,      \* values of resume_partial an attempt may use
    DataShards,       \* data shards of a FEC group
    ParityShards,     \* parity shards of a FEC group
    BatchSize,        \* chunks per flush_batch (64 in the code)
    FeedbackEvery,    \* a feedback frame every so many chunks (8)
    NackLimit,        \* indices of a frame the sender looks at (8)
    SaveEvery,        \* .state.json is written up to and every so many (32)
    Headroom,         \* EXTRA_STREAM_HEADROOM (256)
    MaxParallel,      \* max_parallel_chunks of the receiver (16)
    FrameClass,       \* "datagram", "window" or "large": see Datagram, Blocked
    RequireFinalAck,  \* SenderConfig::require_final_ack
    VerifyChecksums,  \* ReceiverConfig::verify_checksums
    MaxDuplicates,    \* bound: packets of a batch sent on both paths
    MaxAttempts       \* bound: attempts

ASSUME TransferAssumption ==
    /\ Size \in Nat /\ Zero \subseteq 0 .. Size - 1
    /\ ChunkSizes \subseteq Nat \ {0} /\ ResumeModes \subseteq BOOLEAN
    /\ DataShards \in Nat \ {0} /\ ParityShards \in Nat
    /\ BatchSize \in Nat \ {0} /\ FeedbackEvery \in Nat \ {0}
    /\ SaveEvery \in Nat \ {0} /\ MaxParallel \in Nat \ {0}
    /\ NackLimit \in Nat /\ Headroom \in Nat
    /\ FrameClass \in {"datagram", "window", "large"}
    /\ RequireFinalAck \in BOOLEAN /\ VerifyChecksums \in BOOLEAN
    /\ MaxDuplicates \in Nat /\ MaxAttempts \in Nat

VARIABLES
    attempt,    \* attempts begun
    csize,      \* chunk size of the attempt
    resume,     \* resume_partial of the attempt
    up,         \* the connection is open
    snd,        \* where FileSender::send stands
    skip,       \* chunks the sender will not send
    next,       \* first chunk not yet batched
    nacked,     \* nack_retransmitted
    completed,  \* completed_blocks
    frame,      \* the feedback frame the sender has read last
    rcv,        \* where FileReceiver::accept_transfer stands
    ack,        \* the ManifestAck
    received,   \* received_chunks
    slots,      \* fec_groups: the shards kept for recovery
    accepted,   \* accepted_streams
    inflight,   \* accepted streams being read
    unflushed,  \* the last chunk written, which tokio may still hold
    wire,       \* packets sent and not yet taken by the receiver
    complete,   \* TransferComplete has been sent
    frames,     \* feedback frames on their way to the sender
    finalAck,   \* the FinalAck
    part,       \* the .part file: {} or {its content}
    saved,      \* the indices listed in .state.json
    final       \* the file at its final path: {} or {its content}

outgoing == <<skip, next, nacked, completed, frame>>
incoming == <<received, slots, accepted, inflight, unflushed>>
sender == <<snd, outgoing>>
receiver == <<rcv, ack, incoming>>
network == <<wire, frames, complete, finalAck>>
disk == <<part, saved, final>>
session == <<attempt, csize, resume>>
vars == <<session, up, sender, receiver, network, disk>>

Units == 0 .. Size - 1

\* manifest.num_chunks, and the units of a chunk
NumChunks == (Size + csize - 1) \div csize
Chunks == 0 .. NumChunks - 1
ChunkUnits(c) == {u \in Units : u \div csize = c}

\* The units the part file holds
Content == UNION part

\* The FEC group of a chunk, and the data indices of a group; the last group
\* may have indices beyond the last chunk.
Group(c) == c \div DataShards
GroupData(g) == g * DataShards .. g * DataShards + DataShards - 1
Groups == {Group(c) : c \in Chunks}

\* Packets: a data chunk, or the i-th parity shard of a group.
Data(c) == [parity |-> FALSE, group |-> Group(c), n |-> c]
Parity(g, i) == [parity |-> TRUE, group |-> g, n |-> i]

\* The k smallest elements of a set of numbers.
Smallest(k, S) == {x \in S : Cardinality({y \in S : y < x}) < k}

NoFrame == [missing |-> {}, group |-> 0, ready |-> FALSE]
NoAck == [received |-> {}, same |-> {}]

Init ==
    /\ attempt = 0 /\ csize \in ChunkSizes /\ resume \in ResumeModes
    /\ up = FALSE
    /\ snd = "idle" /\ skip = {} /\ next = 0 /\ nacked = {} /\ completed = {}
    /\ frame = NoFrame
    /\ rcv = "idle" /\ ack = NoAck /\ received = {} /\ slots = {} /\ accepted = 0
    /\ inflight = {} /\ unflushed = {}
    /\ wire = {} /\ frames = <<>> /\ complete = FALSE /\ finalAck = "none"
    /\ part = {} /\ saved = {} /\ final = {}

\* The connection is dropped, with everything under way on it.
Close == up' = FALSE /\ wire' = {} /\ frames' = <<>>

\* A call returns: its locals are gone, and so is its connection.
SenderReturns(result) ==
    /\ snd' = result /\ skip' = {} /\ next' = 0 /\ nacked' = {} /\ completed' = {}
    /\ frame' = NoFrame
    /\ Close
ReceiverReturns(result) ==
    /\ rcv' = result /\ received' = {} /\ slots' = {} /\ accepted' = 0
    /\ inflight' = {} /\ unflushed' = {}
    /\ Close

-----------------------------------------------------------------------------
(***************************************************************************)
(* The beginning of an attempt.                                            *)
(***************************************************************************)

\* Both sides have returned and the sender is started again, with any of the
\* configured chunk sizes, against a receiver started with or without resume.
SendManifest(cs, rs) ==
    /\ attempt < MaxAttempts
    /\ snd \in {"idle", "ok", "err"} /\ rcv \in {"idle", "done", "err"}
    /\ attempt' = attempt + 1 /\ csize' = cs /\ resume' = rs /\ up' = TRUE
    /\ snd' = "manifest" /\ rcv' = "idle" /\ ack' = NoAck
    /\ complete' = FALSE /\ finalAck' = "none"
    /\ UNCHANGED <<outgoing, incoming, wire, frames, disk>>

\* With resume_partial the state file is loaded if there is a part file too,
\* and every chunk of the part file is hashed.  Without it the part file is
\* truncated, and the state file is left alone.  set_len fills with zeros.
AcceptManifest ==
    /\ rcv = "idle" /\ snd = "manifest" /\ up
    /\ received' = IF resume /\ part # {} THEN saved ELSE {}
    /\ ack' = [received |-> received',
               same |-> IF resume /\ part # {}
                        THEN {c \in Chunks : ChunkUnits(c) \subseteq Content}
                        ELSE {}]
    /\ part' = IF resume /\ part # {} THEN part ELSE {Zero}
    /\ rcv' = "loop"
    /\ UNCHANGED <<session, up, sender, slots, accepted, inflight, unflushed,
                   network, saved, final>>

\* The sender leaves out what the receiver has listed and every chunk whose
\* hash equals that of its own.
ReadAck ==
    /\ snd = "manifest" /\ rcv # "idle"
    /\ skip' = ack.received \cup ack.same
    /\ snd' = "sending" /\ ack' = NoAck
    /\ UNCHANGED <<session, up, next, nacked, completed, frame, rcv, incoming,
                   network, disk>>

-----------------------------------------------------------------------------
(***************************************************************************)
(* Sending: batches of chunks, retransmissions, parity, two paths.         *)
(***************************************************************************)

\* mutant of Unsent: the last chunk is forgotten
UnsentButLast == {c \in next .. NumChunks - 2 : c \notin skip}

\* The chunks still to be batched
Unsent == {c \in next .. NumChunks - 1 : c \notin skip}

ReadFeedback ==
    /\ snd = "sending" /\ frames # <<>>
    /\ frame' = Head(frames) /\ frames' = Tail(frames)
    /\ UNCHANGED <<session, up, snd, skip, next, nacked, completed, receiver, wire,
                   complete, finalAck, disk>>

\* apply_feedback_if_present: a block the receiver can reconstruct is complete
Completing == IF frame.ready THEN {frame.group} ELSE {}

\* push_nack_retransmits: each of the first missing indices once, ever
Nacks == Smallest(NackLimit, frame.missing) \ (skip \cup nacked)

\* Parity is planned with the manifest's shard count or, after feedback, with
\* fewer; a gap among the first indices turns it off.
ParityCap == IF GroupData(0) \cap skip # {} THEN 0 ELSE ParityShards

\* run_pipeline without the packets of completed blocks: the data packets, and
\* the parity of every group all of whose indices are in this batch
Encoded(chunks, parity) ==
    {Data(c) : c \in chunks}
      \cup {Parity(g, i) : g \in {h \in Groups : GroupData(h) \subseteq chunks},
                           i \in 0 .. parity - 1}

\* A frame that fits into a datagram is sent as one on the datagram path.  A
\* larger one takes a stream on either path, so that only the number of
\* copies counts.
Datagram(copy) == FrameClass = "datagram" /\ copy[2] = "dgram"
Routes ==
    IF FrameClass = "datagram" THEN {{"stream"}, {"dgram"}, {"stream", "dgram"}}
                               ELSE {{"stream"}, {"stream", "dgram"}}

Copies(packets, route) == UNION {{p} \X route[p] : p \in packets}

\* optimize_transfer: packets of blocks known to be complete are cancelled
StillNeeded(chunks, done) == {c \in chunks : Group(c) \notin done}

FlushBatch ==
    /\ snd = "sending" /\ up /\ Unsent # {}
    /\ LET batch == Smallest(BatchSize, Unsent)
           done == completed \cup Completing
           chunks == StillNeeded(batch \cup Nacks, done)
       IN  \E parity \in IF ParityCap = 0 THEN {0} ELSE 1 .. ParityCap :
             LET packets == Encoded(chunks, parity)
             IN \E route \in [packets -> Routes] :
                  /\ Cardinality({p \in packets : Cardinality(route[p]) = 2})
                       <= MaxDuplicates
                  /\ wire' = wire \cup Copies(packets, route)
                  /\ completed' = done
                  /\ nacked' = nacked \cup Nacks
                  /\ next' = 1 + CHOOSE c \in batch : \A b \in batch : b <= c
    /\ UNCHANGED <<session, up, snd, skip, frame, receiver, frames, complete,
                   finalAck, disk>>

\* A stream larger than the flow-control window is not written to its end
\* before the receiver accepts and reads it.
Blocked == FrameClass = "large" /\ wire # {}

\* Both pumps are joined, then TransferComplete is written.
FinishSending ==
    /\ snd = "sending" /\ up /\ Unsent = {} /\ ~Blocked
    /\ snd' = "closing" /\ complete' = TRUE
    /\ UNCHANGED <<session, up, outgoing, receiver, wire, frames, finalAck, disk>>

\* FinalAck is read; send returns and its connection is dropped.
ReadFinalAck ==
    /\ snd = "closing" /\ finalAck # "none"
    /\ SenderReturns(IF finalAck = "success" THEN "ok" ELSE "err")
    /\ UNCHANGED <<session, receiver, complete, finalAck, disk>>

\* The connection is gone: an error, unless only the FinalAck is missing and
\* the sender does not insist on it.
SenderFails ==
    /\ snd \in {"manifest", "sending", "closing"} /\ ~up
    /\ SenderReturns(IF snd = "closing" /\ ~RequireFinalAck THEN "ok" ELSE "err")
    /\ UNCHANGED <<session, receiver, complete, finalAck, disk>>

-----------------------------------------------------------------------------
(***************************************************************************)
(* Receiving.                                                              *)
(***************************************************************************)

Receiving == rcv = "loop" /\ Cardinality(received) < NumChunks

MaxStreams == NumChunks + Cardinality(Groups) * ParityShards + Headroom

\* mutant of AcceptStream: the limit on parallel reads is not looked at
AcceptStreamUnlimited(copy) ==
    /\ Receiving /\ up /\ copy \in wire /\ ~Datagram(copy)
    /\ accepted < MaxStreams
    /\ wire' = wire \ {copy} /\ inflight' = inflight \cup {copy}
    /\ accepted' = accepted + 1
    /\ UNCHANGED <<session, up, sender, rcv, ack, received, slots, unflushed,
                   frames, complete, finalAck, disk>>

\* A data stream is accepted and a task reads it to its end.
AcceptStream(copy) ==
    /\ Receiving /\ up /\ copy \in wire /\ ~Datagram(copy)
    /\ Cardinality(inflight) < MaxParallel /\ accepted < MaxStreams
    /\ wire' = wire \ {copy} /\ inflight' = inflight \cup {copy}
    /\ accepted' = accepted + 1
    /\ UNCHANGED <<session, up, sender, rcv, ack, received, slots, unflushed,
                   frames, complete, finalAck, disk>>

\* fec_missing_data_slots, and fec_recovery_ready: one data shard at least and
\* as many shards as there are data shards
MissingData(g, got, kept) ==
    {c \in GroupData(g) : c \notin got /\ Data(c) \notin kept}
RecoveryReady(g, kept) ==
    /\ \E q \in kept : q.group = g /\ ~q.parity
    /\ Cardinality({q \in kept : q.group = g}) >= DataShards

\* The chunks that a shard of group g completes, all of them at once.
Recoverable(g, got, kept) ==
    IF RecoveryReady(g, kept) THEN MissingData(g, got, kept) ELSE {}

\* mutant of Feedback: any shard makes a block reconstructable
FeedbackEarly(g, got, kept) ==
    [missing |-> Chunks \ got, group |-> g,
     ready |-> \E q \in kept : q.group = g]

\* maybe_write_feedback
Feedback(g, got, kept) ==
    [missing |-> Chunks \ got, group |-> g, ready |-> RecoveryReady(g, kept)]

\* ingest_wire_frame, maybe_write_feedback and the state file, for one frame.
\* A write is handed to the file's background task; the next one waits for it.
Ingest(p) ==
    LET g == p.group
        own == IF p.parity THEN {} ELSE {p.n} \ received
        shards == IF ParityShards > 0 THEN slots \cup {p} ELSE slots
        rebuilt == Recoverable(g, received \cup own, shards)
        kept == {q \in shards : rebuilt = {} \/ q.group # g}
        written == own \cup rebuilt
        lastly == IF rebuilt = {} THEN own ELSE rebuilt
        last == CHOOSE c \in lastly : \A b \in lastly : b <= c
        n == Cardinality(received')
    IN  /\ received' = received \cup written
        /\ slots' = kept
        /\ IF written = {}
             THEN UNCHANGED <<part, unflushed>>
             ELSE /\ part' = {Content \cup unflushed
                                \cup (UNION {ChunkUnits(c) : c \in written \ {last}})}
                  /\ unflushed' = ChunkUnits(last)
        /\ frames' = IF n > 0 /\ n % FeedbackEvery = 0
                       THEN Append(frames, Feedback(g, received', kept))
                       ELSE frames
        /\ saved' = IF resume /\ (n = NumChunks \/ n <= SaveEvery \/ n % SaveEvery = 0)
                      THEN received' ELSE saved

IngestStream(copy) ==
    /\ Receiving /\ copy \in inflight
    /\ Ingest(copy[1])
    /\ inflight' = inflight \ {copy}
    /\ UNCHANGED <<session, up, sender, rcv, ack, accepted, wire, complete,
                   finalAck, final>>

IngestDatagram(copy) ==
    /\ Receiving /\ copy \in wire /\ Datagram(copy)
    /\ Ingest(copy[1])
    /\ wire' = wire \ {copy}
    /\ UNCHANGED <<session, up, sender, rcv, ack, accepted, inflight, complete,
                   finalAck, final>>

\* mutant of Flush: the file is hashed without waiting for the pending write
FlushMissing ==
    /\ rcv = "loop" /\ ~Receiving
    /\ part' \in {part, {Content \cup unflushed}} /\ unflushed' = {}
    /\ rcv' = "verify"
    /\ UNCHANGED <<session, up, sender, ack, received, slots, accepted, inflight,
                   network, saved, final>>

\* All indices are there: the file is flushed and hashed.
Flush ==
    /\ rcv = "loop" /\ ~Receiving
    /\ part' = {Content \cup unflushed} /\ unflushed' = {}
    /\ rcv' = "verify"
    /\ UNCHANGED <<session, up, sender, ack, received, slots, accepted, inflight,
                   network, saved, final>>

\* mutant of Verified: counting the chunks is taken for verification
VerifiedByCount == TRUE

\* The hash of the part file equals that of the manifest.
Verified == ~VerifyChecksums \/ part = {Units}

\* TransferComplete arrives.  A wrong checksum is answered and is an error; a
\* right one is answered before the file is renamed.
AnswerComplete ==
    /\ rcv = "verify" /\ complete
    /\ \/ /\ Verified
          /\ finalAck' = "success" /\ rcv' = "acked"
          /\ UNCHANGED <<up, incoming, wire, frames>>
       \/ /\ ~Verified
          /\ finalAck' = "failure" /\ ReceiverReturns("err")
    /\ UNCHANGED <<session, sender, ack, complete, disk>>

\* mutant of Rename: the file is shown as soon as it is hashed
RenameEarly ==
    /\ rcv \in {"verify", "acked"}
    /\ final' = part /\ part' = {}
    /\ rcv' = "renamed"
    /\ UNCHANGED <<session, up, sender, ack, incoming, network, saved>>

\* The answer has been written: the part file gets its final name.
Rename ==
    /\ rcv = "acked"
    /\ final' = part /\ part' = {}
    /\ rcv' = "renamed"
    /\ UNCHANGED <<session, up, sender, ack, incoming, network, saved>>

\* The state file is removed and the connection is dropped.
RemoveState ==
    /\ rcv = "renamed"
    /\ saved' = {} /\ ReceiverReturns("done")
    /\ UNCHANGED <<session, sender, ack, complete, finalAck, part, final>>

\* An error return, of a lost connection or after too many streams: the
\* pending write is still carried out, the files stay.
Incomplete == Receiving /\ accepted >= MaxStreams /\ inflight = {}

ReceiverFails ==
    /\ \/ rcv \in {"loop", "verify"} /\ ~up
       \/ Incomplete
    /\ part' = {Content \cup unflushed}
    /\ ReceiverReturns("err")
    /\ UNCHANGED <<session, sender, ack, complete, finalAck, saved, final>>

-----------------------------------------------------------------------------
(***************************************************************************)
(* The environment.                                                        *)
(***************************************************************************)

DatagramLost(copy) ==
    /\ copy \in wire /\ Datagram(copy)
    /\ wire' = wire \ {copy}
    /\ UNCHANGED <<session, up, sender, receiver, frames, complete, finalAck, disk>>

ConnectionLost ==
    /\ up
    /\ Close
    /\ UNCHANGED <<session, sender, receiver, complete, finalAck, disk>>

\* The receiver is killed: the pending write may be lost and, while the state
\* file is being rewritten, its contents.
ReceiverKilled ==
    /\ rcv \in {"loop", "verify", "acked", "renamed"}
    /\ part' \in {part, {u \cup unflushed : u \in part}}
    /\ saved' \in IF rcv = "loop" /\ resume THEN {saved, {}} ELSE {saved}
    /\ ReceiverReturns("err")
    /\ UNCHANGED <<session, sender, ack, complete, finalAck, final>>

SenderStep ==
    ReadAck \/ ReadFeedback \/ FlushBatch \/ FinishSending \/ ReadFinalAck
      \/ SenderFails
ReceiverStep ==
    \/ AcceptManifest \/ Flush \/ AnswerComplete \/ Rename \/ RemoveState
    \/ ReceiverFails
    \/ \E copy \in wire : AcceptStream(copy) \/ IngestDatagram(copy)
    \/ \E copy \in inflight : IngestStream(copy)

Next ==
    \/ \E cs \in ChunkSizes, rs \in ResumeModes : SendManifest(cs, rs)
    \/ SenderStep
    \/ ReceiverStep
    \/ \E copy \in wire : DatagramLost(copy)
    \/ ConnectionLost
    \/ ReceiverKilled

Spec == Init /\ [][Next]_vars

\* The tasks of both sides are run as long as they can make progress; nothing
\* makes the user try again, and nothing makes a connection fail.
FairSpec == Spec /\ WF_vars(SenderStep) /\ WF_vars(ReceiverStep)

-----------------------------------------------------------------------------
(***************************************************************************)
(* Properties.                                                             *)
(***************************************************************************)

Packets == {Data(c) : c \in Chunks}
             \cup {Parity(g, i) : g \in Groups, i \in 0 .. ParityShards - 1}

\* Types: indices are natural numbers, at most one write is pending, a file
\* holds units of the source, and no more than max_parallel_chunks streams are
\* read at a time (receiver/mod.rs, accept_transfer).
TransferTypeOK ==
    /\ attempt \in Nat /\ csize \in ChunkSizes /\ resume \in ResumeModes
    /\ up \in BOOLEAN /\ complete \in BOOLEAN
    /\ snd \in {"idle", "manifest", "sending", "closing", "ok", "err"}
    /\ rcv \in {"idle", "loop", "verify", "acked", "renamed", "done", "err"}
    /\ finalAck \in {"none", "success", "failure"}
    /\ skip \subseteq Nat /\ next \in 0 .. NumChunks /\ nacked \subseteq Chunks
    /\ completed \subseteq Groups
    /\ received \subseteq Nat /\ saved \subseteq Nat
    /\ slots \subseteq Packets /\ accepted \in 0 .. MaxStreams
    /\ wire \subseteq Packets \X {"stream", "dgram"}
    /\ inflight \subseteq Packets \X {"stream", "dgram"}
    /\ Cardinality(inflight) <= MaxParallel
    /\ unflushed \subseteq Units
    /\ part \subseteq SUBSET Units /\ Cardinality(part) <= 1
    /\ final \subseteq SUBSET Units /\ Cardinality(final) <= 1

\* Cancelled packets are not needed: when a feedback frame makes the sender
\* drop all further packets of a FEC group (completed_blocks), the receiver
\* has every chunk of that group, so that no later loss can make one of them
\* missing (apply_feedback_if_present, optimize_transfer, fec_recovery_ready).
CancelledIsReceived ==
    rcv \in {"loop", "verify"} =>
      \A g \in completed : GroupData(g) \cap Chunks \subseteq received

\* A receiver that began without resume_partial never rejects the file: every
\* chunk it counts, its own or rebuilt from parity, is in the part file by the
\* time the file is hashed, whatever was lost, duplicated or reordered.
FreshIsNeverRejected == ~resume => finalAck # "failure"

\* What the sender reports as delivered is on the receiver's disk in full,
\* under its final name or still under its temporary one (FinalAck is sent
\* before the rename), although earlier attempts may have left any mixture of
\* a part file and a state file behind.
DeliveredIsStored ==
    RequireFinalAck /\ VerifyChecksums /\ snd = "ok"
      => {Units} \in {part, final}

\* Both sides never wait for each other: the sender for a FinalAck or for the
\* receiver to read a stream, the receiver for chunks or for TransferComplete,
\* with nothing under way.  The connection is kept alive and no call has a
\* time limit, so that such a wait has no end.
NoMutualWait ==
    ~ /\ up
      /\ \/ snd = "closing" /\ finalAck = "none"
         \/ snd = "sending" /\ Unsent = {} /\ Blocked
      /\ \/ Receiving /\ wire = {} /\ inflight = {}
         \/ rcv = "verify" /\ ~complete

\* An attempt ends: once the manifest is sent, the sender's call returns,
\* whatever is duplicated, retransmitted or reordered and whenever the
\* connection drops.  It is stated for frames that travel on streams, within
\* the stream window (a datagram that is lost can leave both sides waiting),
\* and for a receiver that begins without resume_partial.
AttemptEnds == snd = "manifest" ~> snd \in {"ok", "err"}

\* The abstract copy a transfer implements: a file counts as stored when a
\* file of the receiver holds it, temporary or final.
Copy == INSTANCE AtomicCopy WITH
    stored <- {Units} \in {part, final},
    visible <- final # {},
    answer <- IF snd \in {"ok", "err"} THEN snd ELSE "none"

\* Every step of a transfer, crashes and retries included, is a step of
\* AtomicCopy: no torn file ever appears under the final name, and no positive
\* answer is given without the whole file.
CopyIsAtomic == Copy!Spec
=============================================================================
