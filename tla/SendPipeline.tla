----------------------------- MODULE SendPipeline -----------------------------
(***************************************************************************)
(* AutopilotRuntime::run_pipeline, the adaptive sender's way of flushing a *)
(* batch: optimize_transfer orders the packets, a reader task feeds them   *)
(* through a bounded channel to an encoder task that adds parity, and that *)
(* one feeds them through a second bounded channel to the caller, which    *)
(* hands each to one path or to both.  The pumps of the paths write them   *)
(* whenever they get to run.                                               *)
(*                                                                         *)
(* The utilities that rank blocks, paths and duplicates are floating-point *)
(* heuristics: whatever they decide is a choice here.  ChunkTransfer has   *)
(* the same flush as a single step.                                        *)
(***************************************************************************)
EXTENDS Integers, FiniteSets, Sequences, Functions

CONSTANTS
    PipeChunks,     \* manifest.num_chunks
    PipeBatch,      \* SC_SCT_ADAPTIVE_BATCH_SIZE
    PipeData,       \* data shards of a group
    PipeParity,     \* parity shards of a group
    PipeRoom,       \* capacity of the channels (1024)
    PipeNacks,      \* missing indices looked at before a flush (8)
    PipeTwice,      \* bound: packets the optimizer emits twice in a flush
    DupBudget,      \* duplicate_budget
    SpecLimit,      \* lowest speculative_limit (2)
    Burst,          \* most tokens of the soft pacer, in packets (2)
    MaxUnsent       \* bound: duplicates that a pump has yet to write

ASSUME PipelineAssumption ==
    /\ PipeChunks \in Nat /\ PipeBatch \in Nat \ {0} /\ PipeData \in Nat \ {0}
    /\ PipeParity \in Nat /\ PipeRoom \in Nat \ {0} /\ PipeNacks \in Nat
    /\ PipeTwice \in Nat /\ DupBudget \in Nat /\ SpecLimit \in Nat \ {0} /\ Burst \in Nat
    /\ MaxUnsent \in Nat

VARIABLES
    first,      \* the first index not yet put into a batch
    nacked,     \* nack_retransmitted
    done,       \* completed_blocks
    cap,        \* parity_cap
    base,       \* fec.parity_shards
    slow,       \* straggler_ids
    needed,     \* the indices that optimize_transfer keeps
    todo,       \* packets the reader task has still to send
    chunks,     \* channel from the reader to the encoder
    stash,      \* encoder: indices waiting for the rest of their group
    out,        \* encoder: packets it is sending
    packets,    \* channel from the encoder to the caller
    handed,     \* packets handed to the paths in this flush
    tokens,     \* tokens of the soft pacer
    dups,       \* in_flight_duplicates
    unsent,     \* duplicates handed to a path whose pump has yet to write them
    busy        \* a flush is running

transfer == <<first, nacked, done, cap, base, slow, needed>>
encoder == <<stash, out>>
consumer == <<handed, tokens, dups, unsent>>
pipeVars == <<transfer, todo, chunks, encoder, packets, consumer, busy>>

Indices == 0 .. PipeChunks - 1
BlockOf(c) == c \div PipeData
BlockData(g) == g * PipeData .. g * PipeData + PipeData - 1
Blocks == {BlockOf(c) : c \in Indices}

DataPacket(c) == [parity |-> FALSE, group |-> BlockOf(c), n |-> c]
ParityPacket(g, i) == [parity |-> TRUE, group |-> g, n |-> i]

Least(a, b) == IF a <= b THEN a ELSE b
Most(a, b) == IF a >= b THEN a ELSE b

PipelineInit ==
    /\ first = 0 /\ nacked = {} /\ done = {} /\ slow = {} /\ needed = {}
    /\ cap \in {0, PipeParity} /\ base = cap
    /\ todo = {} /\ chunks = <<>> /\ packets = <<>> /\ out = <<>>
    /\ stash = [g \in Blocks |-> {}]
    /\ handed = {} /\ tokens = Burst /\ dups = 0 /\ unsent = 0 /\ busy = FALSE

(* The number of stragglers among n blocks: 5%, at least one, at most 4. *)
Stragglers(n) == Least(Least(Most((n + 19) \div 20, 1), 4), n)

(* fec_for: stragglers get one parity shard more. *)
FecFor(g) ==
    IF g \in slow THEN Least(Most(Least(base + 1, PipeData \div 2), base), cap)
                  ELSE Least(base, cap)

(* make_data_packet gives the first two indices priority 240, a            *)
(* retransmission 255 and the others 100.  The deadlines that break ties   *)
(* follow the RTT at the time, so that they order nothing.                 *)
Priority(x) == IF x.n < 2 THEN 240 ELSE IF x.nack THEN 255 ELSE 100

(* flush_batch up to the spawning of the tasks: the feedback may report a  *)
(* completed group and change the parity, and asks for missing indices,    *)
(* each retransmitted once; optimize_transfer drops the completed groups   *)
(* and may emit packets twice.                                             *)
StartFlush ==
    /\ ~busy /\ first < PipeChunks
    /\ LET batch == first .. Least(first + PipeBatch, PipeChunks) - 1
           complete == {g \in Blocks : \A c \in BlockData(g) : c < first}
       IN \E missing \in SUBSET (Indices \ nacked), ready \in SUBSET complete :
            /\ Cardinality(missing) <= PipeNacks /\ Cardinality(ready) <= 1
            /\ done' = done \cup ready
            /\ LET once == {x \in [n : Indices, nack : BOOLEAN, copy : {1}] :
                              /\ BlockOf(x.n) \notin done'
                              /\ x.n \in IF x.nack THEN missing ELSE batch}
                   again == [n : Indices, nack : BOOLEAN, copy : {2}]
               IN /\ \E extra \in SUBSET {x \in again : [x EXCEPT !.copy = 1] \in once} :
                       Cardinality(extra) <= PipeTwice /\ todo' = once \cup extra
                  /\ needed' = {x.n : x \in once}
            /\ nacked' = nacked \cup missing
            /\ first' = first + Cardinality(batch)
    /\ LET blocks == {BlockOf(c) : c \in needed'}
       IN  slow' \in {S \in SUBSET blocks : Cardinality(S) = Stragglers(Cardinality(blocks))}
    /\ base' \in {base} \cup (1 .. cap)
    /\ busy' = TRUE /\ handed' = {}
    /\ UNCHANGED <<cap, chunks, encoder, packets, tokens, dups, unsent>>

(* Read with an unbounded channel *)
ReadUnbounded ==
    /\ \E x \in todo :
         /\ \A y \in todo : Priority(y) <= Priority(x)
         /\ chunks' = Append(chunks, x.n) /\ todo' = todo \ {x}
    /\ UNCHANGED <<transfer, encoder, packets, consumer, busy>>

(* The reader task sends in the order of the priorities. *)
Read ==
    /\ \E x \in todo :
         /\ \A y \in todo : Priority(y) <= Priority(x)
         /\ Len(chunks) < PipeRoom
         /\ chunks' = Append(chunks, x.n) /\ todo' = todo \ {x}
    /\ UNCHANGED <<transfer, encoder, packets, consumer, busy>>

(* encode_block: the data of a group in order, then its parity. *)
Encoding(g) ==
    [i \in 1 .. PipeData |-> DataPacket(g * PipeData + i - 1)]
        \o [i \in 1 .. FecFor(g) |-> ParityPacket(g, i - 1)]

(* The encoder puts a packet to the others of its group and, when the      *)
(* group has every index, takes them out and encodes them.                 *)
Stash ==
    /\ out = <<>> /\ chunks # <<>>
    /\ LET g == BlockOf(Head(chunks))
           held == stash[g] \cup {Head(chunks)}
       IN IF BlockData(g) \subseteq held
          THEN /\ stash' = [stash EXCEPT ![g] = held \ BlockData(g)]
               /\ out' = Encoding(g)
          ELSE /\ stash' = [stash EXCEPT ![g] = held]
               /\ UNCHANGED out
    /\ chunks' = Tail(chunks)
    /\ UNCHANGED <<transfer, todo, packets, consumer, busy>>

(* Leftover that forgets what is left *)
LeftoverDropped ==
    /\ out = <<>> /\ chunks = <<>> /\ todo = {}
    /\ \E g \in Blocks : stash[g] # {} /\ stash' = [stash EXCEPT ![g] = {}]
    /\ UNCHANGED <<transfer, todo, chunks, out, packets, consumer, busy>>

(* The orders in which the packets of a group can have been stashed *)
Orders(S) == Bijection(1 .. Cardinality(S), S)

(* When the reader has finished, what is left goes out without parity. *)
Leftover ==
    /\ out = <<>> /\ chunks = <<>> /\ todo = {}
    /\ \E g \in Blocks :
         /\ stash[g] # {}
         /\ out' \in Orders({DataPacket(c) : c \in stash[g]})
         /\ stash' = [stash EXCEPT ![g] = {}]
    /\ UNCHANGED <<transfer, todo, chunks, packets, consumer, busy>>

(* Emit that keeps one place of the channel free *)
EmitWithSlack ==
    /\ out # <<>> /\ Len(packets) + 1 < PipeRoom
    /\ packets' = Append(packets, Head(out)) /\ out' = Tail(out)
    /\ UNCHANGED <<transfer, todo, chunks, stash, consumer, busy>>

Emit ==
    /\ out # <<>> /\ Len(packets) < PipeRoom
    /\ packets' = Append(packets, Head(out)) /\ out' = Tail(out)
    /\ UNCHANGED <<transfer, todo, chunks, stash, consumer, busy>>

Encode == Stash \/ Leftover \/ Emit

(* refill_tokens and the debit: the pacer is soft, it never holds back. *)
Paced == tokens' \in {Most(Least(tokens + r, Burst) - 1, 0) : r \in 0 .. 1}

(* on_feedback_tick follows every packet. *)
FeedbackTick(n) == dups' = Most(n - 1, 0)

(* distribute_and_send: one path, or both when the utilities say so and    *)
(* the limits on duplicates in flight allow it.                            *)
Distribute ==
    /\ packets # <<>>
    /\ Paced
    /\ \E twice \in BOOLEAN :
         /\ twice => dups < SpecLimit /\ dups < DupBudget /\ unsent < MaxUnsent
         /\ unsent' = IF twice THEN unsent + 1 ELSE unsent
         /\ FeedbackTick(IF twice THEN dups + 1 ELSE dups)
    /\ handed' = handed \cup {Head(packets)}
    /\ packets' = Tail(packets)
    /\ UNCHANGED <<transfer, todo, chunks, encoder, busy>>

(* pump_packets and write_packet_on_path, for a duplicate.  Its channel is *)
(* unbounded and nothing tells the scheduler that it has been written.     *)
PumpDuplicate ==
    /\ unsent > 0 /\ unsent' = unsent - 1
    /\ UNCHANGED <<transfer, todo, chunks, encoder, packets, handed, tokens, dups, busy>>

(* run_pipeline returns when the encoder has dropped its end.  *)
EndFlush ==
    /\ busy /\ todo = {} /\ chunks = <<>> /\ out = <<>> /\ packets = <<>>
    /\ \A g \in Blocks : stash[g] = {}
    /\ busy' = FALSE
    /\ UNCHANGED <<transfer, todo, chunks, encoder, packets, consumer>>

Consume == Distribute \/ EndFlush

PipelineNext == StartFlush \/ Read \/ Encode \/ Consume \/ PumpDuplicate

PipelineSpec == PipelineInit /\ [][PipelineNext]_pipeVars

(* tokio runs each of the three tasks as long as it can go on. *)
PipelineFairness ==
    WF_pipeVars(Read) /\ WF_pipeVars(Encode) /\ WF_pipeVars(Consume)

-----------------------------------------------------------------------------
PipelineTypeOK ==
    /\ first \in 0 .. PipeChunks /\ nacked \subseteq Indices
    /\ done \subseteq Blocks /\ slow \subseteq Blocks /\ needed \subseteq Indices
    /\ cap \in {0, PipeParity} /\ base \in 0 .. cap
    /\ todo \subseteq [n : Indices, nack : BOOLEAN, copy : {1, 2}]
    /\ Len(chunks) <= PipeRoom /\ Len(packets) <= PipeRoom
    /\ stash \in [Blocks -> SUBSET Indices]
    /\ tokens \in 0 .. Burst /\ dups \in 0 .. DupBudget /\ busy \in BOOLEAN
    /\ unsent \in 0 .. MaxUnsent

(* The packets a flush has to hand over: every index that is still needed, *)
(* and the parity of the groups it has in full.                            *)
Planned ==
    {DataPacket(c) : c \in needed}
        \cup UNION {{ParityPacket(g, i) : i \in 0 .. FecFor(g) - 1} :
                      g \in {h \in Blocks : BlockData(h) \subseteq needed}}

Promise == INSTANCE BatchFlush WITH plan <- Planned, sent <- handed, open <- busy

(* Whatever the optimizer duplicates and however the three tasks           *)
(* interleave, run_pipeline hands over exactly the planned packets: none   *)
(* is stranded in a channel or in the encoder's stash when it returns,     *)
(* none of a completed group slips through, and parity follows its data.   *)
PipelineFlushes == Promise!Spec

(* Two bounded channels in a row, fed and drained by three tasks, never    *)
(* block each other for good: every flush ends.                            *)
FlushEnds == busy ~> ~busy

(* duplicate_budget "caps concurrent speculative duplicates on the wire"   *)
(* (sender/mod.rs): no more duplicates than that have been handed to a     *)
(* path and not yet been written by its pump.                              *)
DuplicatesCapped == unsent <= DupBudget
=============================================================================
