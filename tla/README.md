# TLA+ verification of sc-transport

This directory holds TLA+ models of sc-transport, the TLC configurations that
check them on small instances, and TLAPS proofs that hold for every instance.
`PROJECT.json` is the index: it maps every definition to the source lines it
translates, lists the runs, the mutants that show each property can fail, the
hazards, the findings and the theorems.

    tlc -config MCDaemonScheduler.cfg MCDaemonScheduler   # a run
    tlapm DaemonProofs.tla                                # a proof

## 1. The system

sc-transport moves two kinds of things: files (the `sct-*` crates) and telemetry
events (the `sc-transport-*` crates).

| Part | State | Operations that change it | Talks to |
|---|---|---|---|
| `sct-daemon` API and scheduler | records, priority heap, sequence, cancel channels, semaphore | submit, cancel, priority update, scheduler loop, worker task | its disk, `sct-core` |
| `sct-daemon` persistence | `events.jsonl`, `transfers.json` | append_event, persist_records, load_records_into_state | the scheduler's memory |
| `sct-core` sender | skip set, batch position, retransmitted set, completed blocks, last feedback frame | send, send_adaptive, flush_batch, NACK and feedback handling | receiver, over one QUIC connection |
| `sct-core` receiver | received set, FEC groups, open streams, `.part`, `.state.json`, final file | accept_transfer, ingest_wire_frame, recovery, feedback | sender, disk |
| `sct-core` adaptive | path statistics, duplicate budget, FEC geometry, rates | run_pipeline, optimize_transfer, distribute_and_send | sender |
| `sct-core` transport, congestion | endpoint, known hosts file, controller state | connect, accept, on_ack, on_congestion_event | quinn |
| `sc-transport-quic` | shared connection, shared uni stream, pending events, counters | send_event, send_events_batch, connect_for_batch | SSE fallback |
| `sc-transport-datagrams` | connection (once), loss window, counters | send_event | SSE fallback |
| `sc-transport-sse` | broadcast channel per run | send_event, subscribe | subscribers |
| `sc-transport-probe` | samples of one probe | probe | peer |
| `sct-cli`, `sct-rucio`, `sct-bench` | none of their own | call the above | |

What makes these parts hard to test, and what correctness means for each:

* **Daemon.** Handlers, the scheduler and the workers interleave between locks;
  records, heap, sequence and cancel channels have a lock each. A queued transfer
  must stay served, permits must not leak, a cancellation must reach a worker
  wherever it is.
* **Persistence.** The log is appended and the snapshot written after the locks
  are released, by several tasks, with errors ignored. An accepted transfer must
  survive any crash, and nothing may be reported completed that did not complete.
* **File transfer.** Packets are lost, duplicated, reordered, rebuilt from parity
  and cancelled on the word of old feedback. The receiver can be killed with the
  part file and the state file in any mixture, and the next attempt may use
  another chunk size. A file reported as delivered must be stored whole; no torn
  file may appear under the final name; both sides must not wait for each other.
* **Telemetry.** Reconnects race, events are coalesced and sent by detached tasks,
  counters must agree with what happened. An event must take the route that its
  answer names, and a slow subscriber must never see a gap.
* **Sender's pipeline, controllers, buffers.** Three tasks are joined by bounded
  channels and must neither block each other nor strand a packet. A congestion
  window must not fall below what keeps a connection going, an estimate must not be
  stale, a bounded memory must not cost correctness.

Section 6 lists what contradicts the repository's documentation or comments. The
full list of hazards, each at its line, is in `PROJECT.json`.

## 2. Modules

| Module | Contents |
|---|---|
| `DaemonScheduler` | the daemon's memory: API calls, scheduler, workers |
| `DaemonRecovery` | extends it with event log, snapshot, failed writes, crashes, restart |
| `ChunkTransfer` | one file over any number of attempts, sender, receiver, network, disk |
| `AtomicCopy` | what a file transfer promises, refined by `ChunkTransfer` |
| `DaemonFiles` | the daemon's two files in single writes: torn lines, the shared temporary file |
| `SendPipeline` | `run_pipeline`: optimizer, reader and encoder tasks, distribution over paths |
| `BatchFlush` | what a flush promises, refined by `SendPipeline` |
| `BbrFilters`, `SctBbr`, `QuicBbr`, `Congestion` | the two congestion controllers: what they share, each of them, both |
| `ReorderBuffer`, `Probe` | sct-core's reorder buffer, the network probe |
| `SseFanout` | the in-process fan-out of telemetry events |
| `LiveFeed` | what a subscription promises, refined by `SseFanout` |
| `EventCalls` | calls of `Transport::send_event`, answers and counters |
| `DatagramEvents`, `QuicEvents` | the two QUIC transports |
| `Telemetry` | callers, the transport in use, its fallback and the subscribers together |
| `Components` | the parts that share no state, side by side |
| `MCDaemonScheduler`, `MCDaemonRecovery`, `MCChunkTransfer`, `MCTelemetry`, `MCComponents` | instances for TLC |
| `DaemonProofs` | theorems about the daemon |
| `ChunkTransferProofs`, `SendPipelineProofs` | theorems about the transfer and the sender's pipeline |
| `CongestionProofs`, `SseFanoutProofs` | theorems about these components |
| `ComponentsProofs` | theorems about the reorder buffer, the probe and the daemon's files |

The operators listed as `as` under "mutants" in `PROJECT.json` (`ClampMissing`,
`FlushMissing`, ...) are deliberately wrong variants of the definition that follows
them. No specification uses them; each is a plausible bug that its property catches.

### DaemonScheduler

An action is one critical section of `sct-daemon/src/main.rs`. `status` and `prio`
are the records, `queue` the heap (a set of entries: sequence numbers are unique),
`chan` the cancel channel of each transfer, `wpc`/`wid`/`rx` the worker tasks and
`cpc`/`creq` the API calls in flight.

* `submit_transfer` is `Submit` (record), `InsertChannel`, `Enqueue`, `Journal`;
  `cancel_transfer` is `Cancel`, `Signal`, `Journal`; `update_priority` is
  `UpdatePriority`, `Enqueue`, `Journal`.
* `spawn_scheduler` is `SchedulerPop` or `SchedulerSleep`, `SchedulerCheck`,
  `SchedulerSpawn` (waits for a permit).
* The worker task is `WorkerStart`, `WorkerJournal`, `Subscribe`, `JobBegin`, then
  `JobCompletes`, `JobErrs` with `RecordFailure`, `JobDropped` (the `select!` takes
  the cancellation), `CopySeesCancel` or `ReceiveDone`, and `WorkerEnd`.
* `watch::Sender::send` loses the value when there is no receiver. `Signal` sets the
  channel if a worker of the transfer listens. While the submission still may hold
  its own receiver (`SubmitListening`), either outcome is possible.

### DaemonRecovery

The log is never truncated and replay lets the last status and the last priority
of a transfer win, so `log` keeps exactly those per transfer. A task writes in
three steps: append its event, clone the records (under the lock), publish the
clone; `io` and `image` hold how far it is. Any append or publish may fail, as its
callers ignore the error. Progress events are appended by detached tasks
(`SpawnProgress`, `LateProgress`). `Restart` is a crash at any point followed by
`load_records_into_state`. The order in which a restart pushes the queued records
is that of a hash map, hence any order.

### ChunkTransfer

The file is a set of units, the content of a file on disk the set of units in
which it equals the source. A chunk is `csize` units; `csize` and `resume` belong
to the attempt, since the transfer id does not depend on them. Packets are data
chunks and parity shards of FEC groups; a copy of a packet is the pair of the
packet and its path.

* Sender: `SendManifest`, `ReadAck` (skip what is listed or has an equal hash),
  `ReadFeedback`, `FlushBatch` (apply the last frame, retransmit NACKed chunks,
  cancel completed blocks, add parity, choose paths), `FinishSending`,
  `ReadFinalAck`, `SenderFails`.
* Receiver: `AcceptManifest`, `AcceptStream`, `IngestStream`, `IngestDatagram`
  (each with recovery, feedback and state file), `Flush`, `AnswerComplete`,
  `Rename`, `RemoveState`, `ReceiverFails`.
* Environment: `DatagramLost`, `ConnectionLost`, `ReceiverKilled`.

Abstractions:

* which path a packet takes and whether it is sent on both is a free choice
  (`Routes`); the code computes it from floating-point utilities and clocks;
* two copies of one packet are told apart by their paths;
* `FrameClass` gives all frames one size: fits a datagram, fits the stream window,
  or larger than the window. In the last case a stream is written to its end only
  once the receiver reads it (`Blocked`);
* frames are never malformed, per-frame checksums never fail (QUIC does not
  corrupt), enough shards always reconstruct a group, the source file is constant;
* tokio's `File` hands a write to a background task: the last write may be pending
  (`unflushed`), is carried out by the next write, a flush or a normal return, and
  may be lost in a kill;
* a part file that was created and not yet extended counts as absent.

### AtomicCopy

Three variables: the whole file is `stored` by the receiver, it is `visible` under
its final name, the last `answer` to the sender. A file becomes visible only when
stored, stays so, and "ok" is answered only while it is stored. A stored copy that
is not visible may be given up only in an attempt begun after the last answer.
`ChunkTransfer` refines it with `stored` as "the part or the final file is whole".

### DaemonFiles

`DaemonRecovery` takes an append and a publish as one step each and follows what the
files say. `DaemonFiles` asks whether they can be read at all. `append_event` is
`WriteLine` and `WriteNewline`; `persist_records` is `OpenTemporary` (create or
truncate), `WriteTemporary` and `RenameTemporary`, on one temporary name that all
tasks share. A task that holds a file open keeps its inode through a rename, so
inodes are modelled. Three history variables record what can damage a file: two tasks
appending at once (`appends`), two tasks writing a snapshot at once (`writes`), a crash
between a line and its newline (`torn`). `StartDaemon` is `load_records_into_state`; a
daemon that cannot load its files is `"stuck"`.

### SendPipeline and BatchFlush

`StartFlush` is `flush_batch` up to the two `tokio::spawn`s: feedback, NACKs, the
cancelling and duplicating of `optimize_transfer`. `Read` is the reader task;
`Stash`, `Leftover` and `Emit` are the encoder; `Distribute` and `EndFlush` the
caller's loop. The channels hold `PipeRoom` packets. Utilities and clocks are free
choices. Of the pumps only `PumpDuplicate` is there: how many duplicates have been handed
to a path and not been written (`unsent`), which the code itself does not know.
`BatchFlush` states what `ChunkTransfer!FlushBatch` takes for granted: the
planned packets are handed over, all of them, parity after its data.

### Congestion

`SctAck`, `SctMtu`, `QuicAck`, `QuicLoss` and `QuicMtu` are the callbacks of the two
controllers; `on_congestion_event` of the first does nothing. Rates are bytes per
tick, so `rate * rtt` is a window; gains are fractions, products are truncated as in
the code. An `Instant` is its age. Old ages are merged where the code cannot tell
them apart, and a bandwidth sample that can never be the maximum again is dropped
at once. The pacing rate and the RTT variance are left out.

### ReorderBuffer, Probe

`Ingest` and `Reassemble` are the buffer's two methods; only unit tests call them.
The probe keeps which echo was taken for the answer to which probe or pair; times
are left out. Loss, delay and reordering are the network's (`Arrive`, `Drop`).

### Telemetry

A step of a call is what happens between two places where the code may wait.

* `SseFanout`: `Publish` is `send_event`, `Subscribe` is `subscribe`, `Receive` and
  `Forward` are the forwarding task. The broadcast channel is the tail of `feed`.
* `EventCalls`: an event is its shape, the fields that a transport looks at. `Begin`
  counts it, `Return` answers.
* `DatagramEvents`: `Decide` holds all early returns up to the send. `Connect` and
  `Handshake` are `ensure_connection`: `OnceCell` lets one initialiser run at a time,
  and the endpoint can be set once only. `Transmit`, then `Mirror`, or
  `Announce` and `Divert`, or `Copy` and `Judge`.
* `QuicEvents`: `CheckShared`, `LockEndpoint`, `Dial`, `StoreShared` are
  `connect_for_batch`; `Frame` coalesces, detaches or goes on; `TakeStream`,
  `WriteUni`, `WriteBi` are the retry loop; `QuicCount`, `QuicAnnounce`, `QuicDivert` the
  fallback; `BatchCall` to `BatchReturn` are `send_events_batch` and `BatchSender`. Locks
  held while a task waits are variables. `write_all` returns when quinn has buffered the
  frame, so a successful write puts the frame into `flight` and no more. The peer reads
  it later (`PeerReads`; `read_framed_events` refuses a frame longer than
  `MAX_TELEMETRY_FRAME_BYTES`) and then its events are in `got`; if it does not, or if the
  connection dies first, they are in `cut`, and the sender never learns of it. A frame is
  its events and its size.

## 3. Runs

| Run | Question | Result | Distinct states |
|---|---|---|---|
| `daemon_scheduler` | types, no queued transfer lost, permits accounted, cancellation stops workers, queued is served | pass | 52,000 |
| `daemon_recovery` | types, no queued transfer lost, durability, no invented completion | pass | 1,299,000 |
| `chunk_transfer` | types, fresh transfers never rejected, delivered is stored, refines AtomicCopy | pass | 549,000 |
| `chunk_liveness` | cancelled packets not needed, an attempt ends | pass | 205,000 |
| `telemetry` | types, routes, counters, batch reports, refines LiveFeed, comes to rest | pass | 458,000 |
| `components` | see the list of properties below | pass | 164,000 |
| `daemon_active_without_worker` | active means a worker executes it | violated | |
| `daemon_active_recovery` | active is recovered as queued | violated | |
| `daemon_cancel_recovery` | cancelled is not requeued | violated | |
| `chunk_resume_wait`, `chunk_window_wait` | both sides never wait for each other | violated | |
| `pipeline_duplicates` | duplicates on their way are within the budget | violated | |

The violated ones are the findings of section 6. `ActiveRecoversQueued` is stated for
transfers whose events all reached the log and which the snapshot shows active.

What `telemetry` shows:

* `EventsReachSse`: an event sent as a datagram is on the fan-out exactly once,
  also when no connection can be made or it is lost for good. The exceptions are
  events marked as lost, rate-limited or too large, which reach nobody; they may
  still be answered FellBack.
* `OneRoute`: over QUIC streams an event answered FellBack was published over SSE once
  and is in no frame that quinn accepted. One answered Sent is in exactly one such frame;
  or, if it was coalesced or left to a detached task, it still waits or was lost before
  quinn had it. The sender does not know whether a frame that quinn accepted was decoded,
  and neither does the property: the peer may decode it, or the connection may die first.
* `CountersAgree`: `metrics()` agrees with the answers at every moment, and no fallback is
  counted or announced twice. Of a datagram that goes over SSE because of the peer's
  limits it does not say whether it is counted, and of one answered FellBack because of
  the loss rate not whether it is announced: there the code and the documents disagree
  (section 6).
* `BatchIsExact`: `sent_events` of a `BatchSendResult` is the number of the batch's events
  in frames that quinn accepted, each in one frame, whatever the peer made of them.
* `FeedIsLive`: no subscriber sees a gap; one that is too slow gets an error.
* `ComesToRest`: no order of taking the endpoint, the stream, the initialiser or a
  permit makes callers wait for each other; the retry loop ends.

What `components` shows:

* `WindowFloor`, `EstimateIsFresh`, `PhaseOrder`, `GainsInTurn`, `ProbeRttEnds`: both
  controllers keep room for two packets, use no stale minimum RTT, go through their
  phases in order, use the gains in turn across the wrap of the counter, and leave
  ProbeRtt.
* `PipelineFlushes`, `FlushEnds`: a flush hands over exactly the planned packets, parity
  after its data, and ends.
* `ReorderExact`: every packet put in comes out once and in order, although the
  memory of identifiers is emptied when it is full; what this costs is room.
* `ProbeIsSound`: late echoes never make the loss look smaller; they spoil the
  times, and only after a read has timed out.
* `FilesLoad`: what can make a file unreadable, and that nothing else can. The snapshot
  loads unless two tasks have been writing one at once, the log unless two have been
  appending at once or a crash has cut off a newline; a half-written temporary file never
  matters, and trouble with one file never spoils the other. In the excepted cases the
  daemon may not start (section 6).

### Bounds

* Daemon: a copy and a receive job, two calls in flight and two in all (three in
  `daemon_active_without_worker`), three worker slots with two permits. Calls and jobs
  overlap in every way: two calls on one transfer, two entries of one transfer in the
  heap and two workers running the same transfer all occur. Priorities 0 and 12 are both
  outside 1..10, so clamping matters. Longer sequences of calls are left to the theorems,
  which cover the three invariants; the two liveness properties are checked for two calls.
* Recovery: a send and a receive job, two calls, one worker, one crash, one failed
  write, one progress task in flight per transfer, one requested priority. A second crash
  repeats the situation of the first with a longer log, and the theorems have no such
  bound. The calls are symmetric.
* Transfer: three units in chunks of one or two; FEC groups of two with one parity
  shard, so there is a full and an incomplete group; batches of two; two attempts,
  each with its own chunk size and resume mode; frames that fit a datagram;
  feedback after every chunk, so that a chunk is retransmitted while its first copy
  is on its way (duplicates on both paths are left to the liveness run and the
  theorems). The state file, written for the first 32 chunks and every 32nd, is
  scaled to 2. One stream is read at a time and the headroom is 0, so that these
  limits are met.
* Liveness of a transfer: three chunks, one attempt, no resume, frames on streams only
  and within the window, feedback after every chunk, up to two duplicates per batch.
  The two waits of section 6 and the lost datagram are what these choices exclude.
* Telemetry: two callers; five events over SSE with a ring of 2 and a queue of 1, so
  that a subscriber lags; three events, or a batch of two or three, over QUIC, with
  two connections of which one dies, pairs coalesced, chunks of two and one permit,
  frames of up to 4 accepted by the peer (`MaxFrame`), so that one is refused; three
  datagrams of five shapes (cut to a summary, rate-limited, forced to SSE, marked
  as lost, too large), with a loss window of 2. The
  only subscriber is on SSE itself: for the others the fan-out is the same object,
  and the feed shows what was published.
* Components: two rates, RTTs and packet sizes, time steps of 0, 1 and 3 with a
  filter window of 2, so that it expires between two acknowledgements; the wrap at 16
  instead of 256. Six chunks in batches of five with groups of four, so that a
  group is split between two batches, channels of one packet, one NACK and one duplicate
  per flush, up to two duplicates that wait for a pump (`MaxUnsent`) with a budget of
  one. Four sequence numbers with a memory of three. Three probes and one pair.
  Two tasks and two lines.
* Deadlock is checked for the daemon, whose scheduler always has a step. It is not
  in the other runs: when the attempts, events or packets are used up, nothing is
  left to do. `ComesToRest` and `FlushEnds` say instead what the end looks like.

### Fairness

* Daemon: weak fairness of the steps of a call that has begun, of the scheduler and
  of each worker; tokio polls every task that is ready. No fairness is assumed for
  new calls, for a job to end or to fail. `QueuedIsServed` therefore has the
  hypothesis `JobsEnd`; a receive job may wait for a connection for ever.
* Transfer: weak fairness of the sender as a whole and of the receiver as a whole.
  Within either, any enabled step may be taken. Nothing makes the connection fail
  or the user try again.
* Telemetry: weak fairness of the work at hand as a whole, that is the steps of calls,
  detached sends and forwarding tasks; connects have a timeout and quinn's idle timeout
  ends the other waits. New calls, new subscriptions, drops and what the peer does are not
  promised.
* Pipeline: weak fairness of reader, encoder and caller each; none of the pumps.
* Congestion: acknowledgements keep coming and time passes between them, which is
  what using a connection means. `ProbeRttEnds` excepts acknowledgements that are
  again and again further apart than the filter window.

## 4. Theorems

All are proved by TLAPS without bounds on the constants; the bounds in the guards
are arbitrary numbers. The assumptions are the named `ASSUME`s of the modules,
which the runs evaluate.

| Theorem | States |
|---|---|
| `TypeCorrect` | `DaemonScheduler` keeps its types, all priorities clamped |
| `QueuedNeverLost` | `NoLostQueued`: a queued record always has a live heap entry with its priority, or a call, scheduler or worker committed to it |
| `PermitsNeverLeak` | `PermitsAccounted`: free permits plus live workers is the configured number |
| `RecoveryTypeCorrect`, `RecoveryNeverLosesQueued` | the same across crashes and failed writes |
| `CompletedNeverInvented` | `CompletedIsTrue` |
| `AcceptedNeverForgotten` | `AcceptedIsDurable` |
| `DeliveredAlwaysStored` | `DeliveredIsStored`, when `verify_checksums` and `require_final_ack` are on |
| `TransferIsAtomic` | `ChunkTransfer` refines `AtomicCopy` under the same two settings |
| `CancelledNeverNeeded` | `CancelledIsReceived` |
| `TransferIsTyped` | `TransferTypeOK`, for every file, chunk size and FEC geometry |
| `FreshNeverRejected` | `FreshIsNeverRejected`: without resume, no loss, duplicate, order or recovery makes the hash check fail |
| `BbrTypeCorrect`, `WindowNeverStalls`, `EstimateStaysFresh` | `BbrTypeOK`, `WindowFloor`, `EstimateIsFresh` for all rates, RTTs, gaps and packet sizes |
| `PhasesInOrder`, `GainsStayInTurn` | the action properties `PhaseOrder`, `GainsInTurn` |
| `FanoutIsLive` | `SseFanout` refines `LiveFeed` |
| `PipelineIsTyped` | `PipelineTypeOK`, for all batch sizes, geometries and channel sizes |
| `PipelineImplementsFlush` | `SendPipeline` refines `BatchFlush` |
| `ReorderIsExact` | `ReorderExact`, for any capacity of the memory |
| `ProbeIsAlwaysSound` | `ProbeIsSound`, for any number of probes and pairs |
| `FilesAlwaysLoad` | `FilesLoad`, for any number of tasks and lines: each file loads unless one of the causes named for that file has occurred |

The inductive invariants:

* **NoLostQueued** is inductive together with `TypeOK`: its definition (`Carried`)
  already names every place where the duty to serve a transfer can be. The delicate
  step is `UpdatePriority`: it makes the old entry stale and leaves the duty with
  the call, which then pushes the new one; clamping twice is clamping once.
* **PermitsAccounted** is inductive with `TypeOK` and the finiteness of the set of
  workers; one lemma each says how a spawn, an exit and a move change the number of
  busy workers.
* **Recovery.** Every step of `DaemonRecovery` is a step of `DaemonScheduler`, a
  stutter of it, or a restart (`NextOrRestart`). The memory lemmas carry over, and
  only the restart and the disk are new. `DiskOK` adds that a record of a snapshot
  has a real priority.
* **CompletedIsTrue** needs the same claim for the snapshot, the log and every clone
  not yet published, and that an API call never logs Completed.
* **AcceptedIsDurable** needs that entries, workers and calls only name existing
  records, that a call writes nothing before it has enqueued or signalled, and that
  what is on disk is never absent again: a transfer whose event was written is in
  the log for good, so an old snapshot cannot lose it.
* **DeliveredIsStored and the refinement** rest on `StoredInv`: where the whole file
  is at each point of the receiver's ending, in the part file from the positive
  FinalAck to the rename, at the final path afterwards. Nothing is pending once the
  file has been flushed, so a kill changes nothing.
* **CancelledIsReceived** rests on `CancelInv`: a feedback frame that declares a
  group reconstructable is true when written, because a ready group that was not
  rebuilt in the same step has no missing index. It stays true on its way because
  the receiver forgets nothing before it returns.
* **Congestion** is inductive as `BbrInv`: types, window and estimate support each
  other, and `GrowthInv` adds that three rounds without growth mean Drain. The
  proofs use that a packet is no larger than the segment size that sc-transport-quic
  assumes (`MtuAssumption`).
* **FanoutIsLive** rests on `StreamInv`: what a subscriber has read, what is queued
  and what the task holds is one stretch of the feed that ends at the cursor. The
  reason for an error (`Behind`) stays true until the subscriber reads it.
* **TransferTypeOK and FreshIsNeverRejected** are inductive as `TransferInv`. The types
  need `IndexInv`: whatever is on the wire, in a receive task or in a frame belongs to
  the manifest's geometry, and a side that has returned holds nothing. The second needs
  `FreshInv`: every counted chunk has its bytes in the part file or in the pending
  write. `next` stays within the file because a batch is taken from what is unsent,
  which has a least element: the order of the naturals is well founded.
* **The pipeline** is inductive as `PipeInv`: each index of a flush is with the reader,
  in the first channel, in the stash or already a packet, and only there; a group is
  encoded in the step that completes it; in both queues parity stands behind its data.
  When the tasks have ended, what was handed over is therefore what was planned.
* **ReorderExact** is inductive with the fact that until the memory is emptied it holds
  every packet put in, and what came out is the run below the next number.
* **ProbeIsSound** is inductive as `ProbeInv`: a probe or its echo is in one place at a
  time, so the answers are no more than what came back; until a read times out, what is
  under way belongs to the request being awaited and is no more than is awaited.
* **FilesLoad** rests on `SnapshotInv`, which holds until two tasks write a snapshot at
  once (one writer, whose temporary file is never the snapshot and who renames only what
  is whole), and on `LogInv`, which holds until two tasks append at once or a newline is
  cut off (a line without its newline is the last, and its task is still there). Each is
  inductive without the other.

## 5. Model-checked only

Liveness (`CancelStopsWorkers`, `QueuedIsServed`, `AttemptEnds`, `ComesToRest`,
`FlushEnds`, `ProbeRttEnds`) speaks of `ENABLED` and is out of the prover's reach. Checked
by TLC on the instance above and not proved: `TelemetryTypeOK`, `EventsReachSse`,
`OneRoute`, `CountersAgree` and `BatchIsExact`. `DeliveredIsStored` and the refinement of
`AtomicCopy` are proved with `verify_checksums` and `require_final_ack` on, as they are in
the run. The violated properties are, of course, only refuted.

## 6. Findings

1. **Active without a worker** (`docs/sct-daemon-ops.md:37`). A cancelled transfer
   that is queued again by a priority update is started, sees the old cancellation
   in its channel and is left, with the record still active.
2. **Active is not recovered as queued** (`docs/sct-daemon-ops.md:44`). The started
   event is replayed over the converted snapshot.
3. **A cancelled transfer can be requeued by a restart** (`docs/sct-daemon-ops.md:45`).
   Two overlapping calls log in the other order than they changed the record.
4. **A resumed transfer can wait for ever** (`receiver/mod.rs:172`,
   `adaptive/mod.rs:1442`). The sender skips by hash chunks that the receiver does
   not count, for instance those received since the last multiple of 32.
5. **A transfer with large chunks can wait for ever** (`docs/LIMITATIONS.md:50`).
   Once all indices are counted, retransmitted or duplicate streams are no longer
   read; the sender is stuck in their writes and does not send TransferComplete.
6. **The budget does not cap duplicates on the wire** (`sender/mod.rs:247`,
   `docs/LIMITATIONS.md:49, 51`). `on_feedback_tick` follows every packet and takes back
   what the packet has counted, so the count is 0 whenever the limit is looked at, however
   many duplicates wait for a pump.

`NoMutualWait` fails for a further reason, which contradicts no document found: a
chunk sent only as a datagram is lost after the last batch, when NACKs are no longer
answered (`MCChunkResume.cfg` with `FrameClass = "datagram"`, `ResumeModes = {FALSE}`
and `MaxAttempts = 1`).

Further disagreements with the documents, which the models contain and for which there is
no run. The properties named with the first three except just these cases.

* **Some fallbacks are reported by half** (`docs/FALLBACK-BEHAVIOR.md:8-11, 20-22`,
  `docs/MIGRATION-SYNAPTIC-CORE.md:73-75`, which ask for a `TransportFallback` event and
  for `fallback_count`; `CountersAgree`, `EventsReachSse`). A datagram that goes over SSE
  because of the peer's limits is announced and not counted, as a comment in the code
  intends (`sc-transport-datagrams/src/lib.rs:320-322`). One answered FellBack because of
  the loss rate is counted and not announced.
* **Events answered Sent over QUIC streams can be lost or stay behind**
  (`docs/MIGRATION-SYNAPTIC-CORE.md:71`, "QUIC stream paths should preserve reliable
  delivery semantics"; `OneRoute`). A detached task that fails is noticed by nobody. When
  the frame of coalesced events fails, only the event of the call that sends it goes over
  SSE. The last coalesced events wait for a progress event that may never come.
* **The daemon may not start** (`docs/sct-daemon-ops.md:32`, "The daemon replays both on
  startup"; `FilesLoad`). After a crash between a line of the log and its newline the next
  event is joined to the unfinished line. Two tasks that append at once can join two lines
  as well. Two tasks that persist at once share one temporary file, and the one can rename
  what the other has just truncated.
* **A completed transfer can be active after a restart** (`docs/sct-daemon-ops.md:38`,
  "terminal success"). `CompletedIsTrue` is about the other direction. A progress event is appended by a task of its
  own, possibly after the completed event, and has status Active.

One observation contradicts no document: after one failed connect, a
`QuicDatagramTransport` never connects again, because the endpoint is already set. Its
events still reach SSE (`EventsReachSse`).

## 7. Not modelled

* The estimators of the adaptive layer (`optimization.rs`, `predictive.rs`, queue
  models, KPIs): floating-point functions of clocks. Whatever they decide is a free
  choice in `ChunkTransfer` and `SendPipeline`. A fixed-point version would be another
  function than the code's.
* Serialisation, compression and Reed-Solomon arithmetic: conversions of bytes, whose
  round trip is a matter of unit tests. Of a telemetry frame, its events and its size are
  modelled, since whether a peer decodes it depends on the size.
* TLS configuration, certificates and the known-hosts file; endpoint set-up.
* `CongestionOracle`, `classify`, `suggest`, `compute_jitter`: tables and arithmetic
  without state.
* Configuration and path resolution of the daemon, command lines, metrics, benchmarks
  and loopback helpers for tests: no state that interacts with the above.
* `sct-rucio`: a client that submits and polls; it adds no state.
* Four hazards of the daemon and one of the transfer have no property;
  `PROJECT.json` gives the reason with each.
