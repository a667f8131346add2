------------------------ MODULE ChunkTransferProofs -------------------------
(***************************************************************************)
(* A transfer implements an atomic copy: for every file size, chunk size,  *)
(* FEC geometry, number of attempts and loss pattern, when both checks the *)
(* configuration can switch off (verify_checksums, require_final_ack) are  *)
(* on.                                                                     *)
(*                                                                         *)
(* The inductive invariant says where the whole file is at each point of   *)
(* the receiver's ending: in the part file from the positive FinalAck to   *)
(* the rename, at the final path afterwards, and in one of them as long as *)
(* a positive answer is on its way or has been given.  It holds across     *)
(* kills because nothing is pending once the file has been flushed.        *)
(***************************************************************************)
EXTENDS ChunkTransfer, FiniteSetTheorems, WellFoundedInduction, TLAPS

Whole == part = {Units} \/ final = {Units}

Answered == rcv \in {"acked", "renamed", "done", "err"}

StoredInv ==
    /\ final = {} \/ final = {Units}
    /\ unflushed \subseteq Units
    /\ rcv # "loop" => unflushed = {}
    /\ rcv = "acked" => part = {Units}
    /\ rcv = "renamed" => final = {Units}
    /\ finalAck = "success" => Answered /\ Whole
    /\ snd = "ok" => Answered /\ Whole

\* A part file that is whole stays whole when source units are written to it.
LEMMA WholeStays ==
    ASSUME NEW X, X \subseteq Units, part = {Units}
    PROVE  {Content \cup X} = {Units}
  BY Zenon DEF Content

\* A part file with every unit has every unit whatever write is pending.
LEMMA WholeStaysPending ==
    ASSUME NEW X, X \subseteq Units, part = {Units}
    PROVE  {u \cup X : u \in part} = {Units}
  BY Zenon

\* What taking in one frame does to the disk (ingest_wire_frame): the part
\* file keeps its units and the pending write is of units of the source.
LEMMA IngestDisk ==
    ASSUME NEW p, Ingest(p), StoredInv
    PROVE  /\ unflushed' \subseteq Units
           /\ part = {Units} => part' = {Units}
<1> DEFINE g == p.group
           own == IF p.parity THEN {} ELSE {p.n} \ received
           shards == IF ParityShards > 0 THEN slots \cup {p} ELSE slots
           rebuilt == Recoverable(g, received \cup own, shards)
           written == own \cup rebuilt
           lastly == IF rebuilt = {} THEN own ELSE rebuilt
           last == CHOOSE c \in lastly : \A b \in lastly : b <= c
           X == unflushed \cup (UNION {ChunkUnits(c) : c \in written \ {last}})
<1>1. \/ part' = part /\ unflushed' = unflushed
      \/ /\ part' = {Content \cup unflushed
                       \cup (UNION {ChunkUnits(c) : c \in written \ {last}})}
         /\ unflushed' = ChunkUnits(last)
  BY Zenon DEF Ingest
<1>2. \A c : ChunkUnits(c) \subseteq Units
  BY Zenon DEF ChunkUnits
<1>3. unflushed \subseteq Units
  BY Zenon DEF StoredInv
<1> HIDE DEF written, last
<1>4. X \subseteq Units
  BY <1>2, <1>3, Zenon
<1>5. Content \cup unflushed \cup (UNION {ChunkUnits(c) : c \in written \ {last}})
        = Content \cup X
  BY Zenon
<1> HIDE DEF X
<1>6. part = {Units} => {Content \cup X} = {Units}
  BY <1>4, WholeStays, Zenon
<1> QED
  BY <1>1, <1>2, <1>3, <1>5, <1>6, Zenon

-----------------------------------------------------------------------------

\* The steps of the receiver that write to the part file before any answer.
LEMMA WritingKeepsStored ==
    ASSUME StoredInv,
           \/ \E copy \in wire : IngestDatagram(copy)
           \/ \E copy \in inflight : IngestStream(copy)
    PROVE  StoredInv'
<1>1. PICK p : Ingest(p)
  BY Zenon DEF IngestDatagram, IngestStream
<1>2. unflushed' \subseteq Units
  BY <1>1, IngestDisk, Zenon
<1>3. rcv = "loop" /\ rcv' = rcv /\ UNCHANGED <<snd, finalAck, final>>
  BY Zenon DEF IngestDatagram, IngestStream, Receiving, sender
<1> QED
  BY <1>2, <1>3, Zenon DEF StoredInv, Whole, Answered, Units

\* The end of a transfer keeps what is acknowledged stored.
LEMMA EndingKeepsStored ==
    ASSUME StoredInv, VerifyChecksums,
           Flush \/ AnswerComplete \/ Rename \/ RemoveState \/ ReceiverFails
             \/ ReceiverKilled
    PROVE  StoredInv'
<1> USE DEF StoredInv, Whole, Answered, Units
<1>1. CASE Flush
  BY <1>1, Zenon DEF Flush, network, sender
<1>2. CASE AnswerComplete
  BY <1>2, Zenon DEF AnswerComplete, Verified, ReceiverReturns, Close, sender, disk, incoming
<1>3. CASE Rename
  BY <1>3, Zenon DEF Rename, sender, incoming, network
<1>4. CASE RemoveState
  BY <1>4, Zenon DEF RemoveState, ReceiverReturns, Close, sender
<1>5. CASE ReceiverFails
  <2>1. rcv \in {"loop", "verify"}
    BY <1>5, Zenon DEF ReceiverFails, Incomplete, Receiving
  <2> QED
    BY <1>5, <2>1, Zenon DEF ReceiverFails, ReceiverReturns, Close, sender
<1>6. CASE ReceiverKilled
  <2>1. rcv' = "err" /\ unflushed' = {} /\ UNCHANGED <<snd, finalAck, final>>
    BY <1>6, Zenon DEF ReceiverKilled, ReceiverReturns, sender
  <2>2. CASE rcv = "loop"
    BY <2>1, <2>2, Zenon
  <2>3. CASE rcv # "loop"
    <3>0. \A u : u \cup unflushed = u
      BY <2>3, Zenon
    <3>1. {u \cup unflushed : u \in part} = part
      <4> HIDE DEF StoredInv
      <4> QED BY <3>0
    <3>2. part' = part
      BY <1>6, <3>1, Zenon DEF ReceiverKilled
    <3> QED
      BY <2>1, <3>2, <2>3, <1>6, Zenon DEF ReceiverKilled
  <2> QED
    BY <2>2, <2>3, Zenon
<1> QED
  BY <1>1, <1>2, <1>3, <1>4, <1>5, <1>6, Zenon

\* So do the steps of the sender and of the network.
LEMMA OthersKeepStored ==
    ASSUME StoredInv, RequireFinalAck,
           \/ \E cs \in ChunkSizes, rs \in ResumeModes : SendManifest(cs, rs)
           \/ SenderStep \/ AcceptManifest
           \/ \E copy \in wire : AcceptStream(copy) \/ DatagramLost(copy)
           \/ ConnectionLost
           \/ UNCHANGED vars
    PROVE  StoredInv'
<1> USE DEF StoredInv, Whole, Answered, Units
<1>1. ASSUME NEW cs, NEW rs, SendManifest(cs, rs)
      PROVE  StoredInv'
  BY <1>1, Zenon DEF SendManifest, incoming, disk
<1>2. CASE ReadAck
  BY <1>2, Zenon DEF ReadAck, incoming, network, disk
<1>3. CASE ReadFeedback
  BY <1>3, Zenon DEF ReadFeedback, receiver, incoming, disk
<1>4. CASE FlushBatch
  BY <1>4, Zenon DEF FlushBatch, receiver, incoming, disk
<1>5. CASE FinishSending
  BY <1>5, Zenon DEF FinishSending, receiver, incoming, disk
<1>6. CASE ReadFinalAck
  BY <1>6, Zenon DEF ReadFinalAck, SenderReturns, receiver, incoming, disk
<1>7. CASE SenderFails
  BY <1>7, Zenon DEF SenderFails, SenderReturns, receiver, incoming, disk
<1>8. CASE AcceptManifest
  BY <1>8, Zenon DEF AcceptManifest, sender, network
<1>9. ASSUME NEW copy, AcceptStream(copy)
      PROVE  StoredInv'
  BY <1>9, Zenon DEF AcceptStream, sender, disk
<1>10. ASSUME NEW copy, DatagramLost(copy)
       PROVE  StoredInv'
  BY <1>10, Zenon DEF DatagramLost, sender, receiver, incoming, disk
<1>11. CASE ConnectionLost
  BY <1>11, Zenon DEF ConnectionLost, sender, receiver, incoming, disk
<1>12. CASE UNCHANGED vars
  BY <1>12, Zenon DEF vars, sender, receiver, incoming, disk, network
<1> QED
  BY <1>1, <1>2, <1>3, <1>4, <1>5, <1>6, <1>7, <1>8, <1>9, <1>10, <1>11, <1>12, Zenon
     DEF SenderStep

\* What is acknowledged is always stored.
LEMMA StoredAlways ==
    ASSUME VerifyChecksums, RequireFinalAck
    PROVE  Spec => []StoredInv
<1>1. Init => StoredInv
  BY Zenon DEF Init, StoredInv, Units
<1>2. StoredInv /\ [Next]_vars => StoredInv'
  BY WritingKeepsStored, EndingKeepsStored, OthersKeepStored, Zenon DEF Next, ReceiverStep
<1> QED
  BY <1>1, <1>2, PTL DEF Spec

\* A positive answer of send means that the receiver's disk holds the whole
\* file, across any sequence of interrupted and resumed attempts.
THEOREM DeliveredAlwaysStored ==
    ASSUME VerifyChecksums, RequireFinalAck
    PROVE  Spec => []DeliveredIsStored
<1>1. StoredInv => DeliveredIsStored
  BY Zenon DEF StoredInv, DeliveredIsStored, Whole
<1> QED
  BY <1>1, StoredAlways, PTL

-----------------------------------------------------------------------------
(***************************************************************************)
(* The refinement of AtomicCopy.                                           *)
(***************************************************************************)

\* What the sender has been told, as the refinement mapping sees it.
AnswerMap == IF snd \in {"ok", "err"} THEN snd ELSE "none"

\* While neither the answer nor the final path changes and a whole file stays
\* whole, a step stores the file or does nothing the abstract copy can see.
LEMMA StoringStep ==
    ASSUME UNCHANGED <<snd, final>>, part = {Units} => part' = {Units}
    PROVE  Copy!Store \/ UNCHANGED Copy!vars
  BY DEF Copy!Store, Copy!vars

\* The steps that change nothing on the disk and no answer.
LEMMA SilentStep ==
    ASSUME UNCHANGED <<part, final, AnswerMap>>
    PROVE  UNCHANGED Copy!vars
  BY Zenon DEF Copy!vars, AnswerMap

\* Every step of the receiver is a step of the abstract transfer or a stutter.
LEMMA ReceiverRefines ==
    ASSUME StoredInv, VerifyChecksums, ReceiverStep \/ ReceiverKilled
    PROVE  [Copy!Next]_(Copy!vars)
<1>1. CASE AcceptManifest
  <2>1. UNCHANGED <<snd, final>> /\ snd = "manifest"
    BY <1>1, Zenon DEF AcceptManifest, sender
  <2>2. final = {} \/ final = {Units}
    BY Zenon DEF StoredInv
  <2> QED
    BY <2>1, <2>2 DEF Copy!Next, Copy!Store, Copy!GiveUp, Copy!vars
<1>2. CASE Flush
  <2>1. unflushed \subseteq Units
    BY Zenon DEF StoredInv
  <2>2. part = {Units} => part' = {Units}
    BY <1>2, <2>1, WholeStays, Zenon DEF Flush
  <2> QED
    BY <1>2, <2>2, StoringStep, Zenon DEF Flush, sender, Copy!Next
<1>3. CASE AnswerComplete
  BY <1>3, SilentStep, Zenon DEF AnswerComplete, sender, disk, AnswerMap
<1>4. CASE Rename
  <2>1. part = {Units} /\ final' = {Units} /\ UNCHANGED snd
    BY <1>4, Zenon DEF Rename, StoredInv, sender
  <2>2. final = {} \/ final = {Units}
    BY Zenon DEF StoredInv
  <2> QED
    BY <2>1, <2>2 DEF Copy!Next, Copy!Show, Copy!vars
<1>5. CASE RemoveState
  BY <1>5, SilentStep, Zenon DEF RemoveState, sender, AnswerMap
<1>6. CASE ReceiverFails
  <2>1. unflushed \subseteq Units
    BY Zenon DEF StoredInv
  <2>2. part = {Units} => part' = {Units}
    BY <1>6, <2>1, WholeStays, Zenon DEF ReceiverFails
  <2> QED
    BY <1>6, <2>2, StoringStep, Zenon DEF ReceiverFails, sender, Copy!Next
<1>7. CASE ReceiverKilled
  <2>1. unflushed \subseteq Units
    BY Zenon DEF StoredInv
  <2>2. part = {Units} => part' = {Units}
    BY <1>7, <2>1, WholeStaysPending, Zenon DEF ReceiverKilled
  <2> QED
    BY <1>7, <2>2, StoringStep, Zenon DEF ReceiverKilled, sender, Copy!Next
<1>8. ASSUME NEW copy, AcceptStream(copy)
      PROVE  [Copy!Next]_(Copy!vars)
  BY <1>8, SilentStep, Zenon DEF AcceptStream, sender, disk, AnswerMap
<1>9. ASSUME NEW copy, IngestDatagram(copy) \/ IngestStream(copy)
      PROVE  [Copy!Next]_(Copy!vars)
  <2>1. PICK p : Ingest(p)
    BY <1>9, Zenon DEF IngestDatagram, IngestStream
  <2>2. part = {Units} => part' = {Units}
    BY <2>1, IngestDisk, Zenon
  <2> QED
    BY <1>9, <2>2, StoringStep, Zenon DEF IngestDatagram, IngestStream, sender, Copy!Next
<1> QED
  BY <1>1, <1>2, <1>3, <1>4, <1>5, <1>6, <1>7, <1>8, <1>9, Zenon DEF ReceiverStep

\* Every step of the sender is a step of the abstract transfer or a stutter.
LEMMA SenderRefines ==
    ASSUME StoredInv, RequireFinalAck,
           \/ \E cs \in ChunkSizes, rs \in ResumeModes : SendManifest(cs, rs)
           \/ SenderStep
           \/ \E copy \in wire : DatagramLost(copy)
           \/ ConnectionLost
           \/ UNCHANGED vars
    PROVE  [Copy!Next]_(Copy!vars)
<1>1. ASSUME NEW cs, NEW rs, SendManifest(cs, rs)
      PROVE  [Copy!Next]_(Copy!vars)
  BY <1>1, Zenon DEF SendManifest, disk, Copy!Next, Copy!Try
<1>2. CASE ReadAck
  BY <1>2, SilentStep, Zenon DEF ReadAck, disk, AnswerMap
<1>3. CASE ReadFeedback
  BY <1>3, SilentStep, Zenon DEF ReadFeedback, disk, AnswerMap
<1>4. CASE FlushBatch
  BY <1>4, SilentStep, Zenon DEF FlushBatch, disk, AnswerMap
<1>5. CASE FinishSending
  BY <1>5, SilentStep, Zenon DEF FinishSending, disk, AnswerMap
<1>6. CASE ReadFinalAck
  <2>1. finalAck = "success" => part = {Units} \/ final = {Units}
    BY Zenon DEF StoredInv, Whole
  <2>2. /\ UNCHANGED <<part, final>> /\ snd = "closing"
        /\ snd' = IF finalAck = "success" THEN "ok" ELSE "err"
    BY <1>6, Zenon DEF ReadFinalAck, SenderReturns, disk
  <2> QED
    BY <2>1, <2>2, Zenon DEF Copy!Next, Copy!Answer
<1>7. CASE SenderFails
  <2>1. /\ UNCHANGED <<part, final>> /\ snd \in {"manifest", "sending", "closing"}
        /\ snd' = "err"
    BY <1>7, Zenon DEF SenderFails, SenderReturns, disk
  <2> QED
    BY <2>1, Zenon DEF Copy!Next, Copy!Answer
<1>8. ASSUME NEW copy, DatagramLost(copy)
      PROVE  [Copy!Next]_(Copy!vars)
  BY <1>8, SilentStep, Zenon DEF DatagramLost, sender, disk, AnswerMap
<1>9. CASE ConnectionLost
  BY <1>9, SilentStep, Zenon DEF ConnectionLost, sender, disk, AnswerMap
<1>10. CASE UNCHANGED vars
  BY <1>10, SilentStep, Zenon DEF vars, sender, disk, AnswerMap
<1> QED
  BY <1>1, <1>2, <1>3, <1>4, <1>5, <1>6, <1>7, <1>8, <1>9, <1>10, Zenon DEF SenderStep

\* The whole protocol, with its crashes, retries and leftovers on disk, does
\* nothing an atomic copy could not do: a file under the final name is always
\* the whole source, and send answers "ok" only for a stored file.
THEOREM TransferIsAtomic ==
    ASSUME VerifyChecksums, RequireFinalAck
    PROVE  Spec => CopyIsAtomic
<1>1. Init => Copy!Init
  BY DEF Init, Copy!Init
<1>2. StoredInv /\ [Next]_vars => [Copy!Next]_(Copy!vars)
  BY ReceiverRefines, SenderRefines, Zenon DEF Next
<1> QED
  BY <1>1, <1>2, StoredAlways, PTL DEF Spec, CopyIsAtomic, Copy!Spec

-----------------------------------------------------------------------------
(***************************************************************************)
(* Cancelled packets are not needed.                                       *)
(*                                                                         *)
(* A frame is true when the group it declares reconstructable has been     *)
(* received.  It is true when it is written, because a group that is ready *)
(* and was not rebuilt in the same step has no missing index, and an index *)
(* is not missing only if it is counted: the shards kept for recovery are  *)
(* of counted chunks.  It stays true on its way because the receiver       *)
(* forgets nothing before it returns.                                      *)
(***************************************************************************)

Frame == [missing : SUBSET Int, group : Int, ready : BOOLEAN]

TrueFrames == {f \in Frame : f.ready => GroupData(f.group) \subseteq received}

CancelTypes ==
    /\ frame \in Frame /\ frames \in Seq(Frame)
    /\ \A copy \in wire \cup inflight : copy[1].group \in Int

CancelInv ==
    /\ rcv \notin {"loop", "verify", "acked", "renamed"} =>
         slots = {} /\ frames = <<>>
    /\ snd \in {"idle", "manifest", "ok", "err"} => completed = {} /\ frame = NoFrame
    /\ rcv \in {"loop", "verify"} =>
         /\ \A g \in completed : GroupData(g) \subseteq received
         /\ frame \in TrueFrames
         /\ frames \in Seq(TrueFrames)
         /\ \A q \in slots : ~q.parity => q.n \in received

\* The value of an unset frame is a frame with true contents.
LEMMA NoFrameTrue == NoFrame \in Frame /\ NoFrame \in TrueFrames
  BY DEF NoFrame, Frame, TrueFrames

\* No frames are frames of any kind.
LEMMA EmptyIsSeq == \A S : <<>> \in Seq(S)
  OBVIOUS

\* Every packet of a batch carries an integer as its group.
LEMMA EncodedGroups ==
    ASSUME NEW chunks \in SUBSET Int, NEW parity,
           NEW p \in Encoded(chunks, parity)
    PROVE  p.group \in Int
<1>1. \A c \in Int : Group(c) \in Int
  BY TransferAssumption DEF Group
<1>2. \A g \in Groups : g \in Int
  BY <1>1 DEF Groups, Chunks
<1>3. CASE \E c \in chunks : p = Data(c)
  BY <1>1, <1>3 DEF Data
<1>4. CASE \E g \in Groups, i \in 0 .. parity - 1 : p = Parity(g, i)
  BY <1>2, <1>4 DEF Parity
<1> QED
  BY <1>3, <1>4 DEF Encoded

\* A flush puts packets with an integer group on the wire.
LEMMA FlushTypes ==
    ASSUME CancelTypes, FlushBatch
    PROVE  CancelTypes'
<1>1. frame.missing \subseteq Int
  BY Zenon DEF CancelTypes, Frame
<1> DEFINE batch == Smallest(BatchSize, Unsent)
           chunks == StillNeeded(batch \cup Nacks, completed \cup Completing)
<1>2. batch \subseteq Int
  BY DEF Smallest, Unsent
<1>3. chunks \subseteq Int
  BY <1>1, <1>2, Zenon DEF StillNeeded, Nacks, Smallest
<1>4. PICK parity, route :
        wire' = wire \cup Copies(Encoded(chunks, parity), route)
  BY Zenon DEF FlushBatch
<1> HIDE DEF chunks
<1>5. \A copy \in Copies(Encoded(chunks, parity), route) : copy[1].group \in Int
  <2>1. SUFFICES ASSUME NEW copy \in Copies(Encoded(chunks, parity), route)
                 PROVE  copy[1].group \in Int
    BY Zenon
  <2>2. PICK p \in Encoded(chunks, parity) : copy[1] = p
    BY DEF Copies
  <2> QED
    BY <1>3, <2>2, EncodedGroups, Zenon
<1>6. UNCHANGED <<frame, frames, inflight>>
  BY Zenon DEF FlushBatch, receiver, incoming
<1> QED
  BY <1>4, <1>5, <1>6, Zenon DEF CancelTypes

\* What taking in one frame adds: received chunks, a true feedback frame, and
\* shards of counted chunks only (ingest_wire_frame, try_fec_group_recover).
LEMMA IngestTrue ==
    ASSUME NEW p, p.group \in Int, Ingest(p), rcv = "loop", CancelInv, CancelTypes
    PROVE  /\ received \subseteq received'
           /\ \A q \in slots' : ~q.parity => q.n \in received'
           /\ \/ frames' = frames
              \/ \E f \in Frame : /\ f.ready => GroupData(f.group) \subseteq received'
                                  /\ frames' = Append(frames, f)
<1> DEFINE g == p.group
           own == IF p.parity THEN {} ELSE {p.n} \ received
           shards == IF ParityShards > 0 THEN slots \cup {p} ELSE slots
           rebuilt == Recoverable(g, received \cup own, shards)
           kept == {q \in shards : rebuilt = {} \/ q.group # g}
           f == Feedback(g, received', kept)
<1>1. /\ received' = received \cup (own \cup rebuilt)
      /\ slots' = kept
      /\ frames' = frames \/ frames' = Append(frames, f)
  BY Zenon DEF Ingest
<1>2. \A q \in shards : ~q.parity => q.n \in received \cup own
  BY Zenon DEF CancelInv
<1>3. f \in Frame
  <2>1. Chunks \ received' \subseteq Int
    BY DEF Chunks
  <2>2. RecoveryReady(g, kept) \in BOOLEAN
    BY Zenon DEF RecoveryReady
  <2> QED
    BY <2>1, <2>2, Zenon DEF Feedback, Frame
<1>4. f.ready => GroupData(f.group) \subseteq received'
  <2>1. SUFFICES ASSUME RecoveryReady(g, kept), NEW c \in GroupData(g)
                 PROVE  c \in received'
    BY Zenon DEF Feedback
  <2>2. rebuilt = {}
    BY <2>1, Zenon DEF RecoveryReady
  <2>3. kept = shards
    BY <2>2, Zenon
  <2>4. MissingData(g, received \cup own, shards) = {}
    BY <2>1, <2>2, <2>3, Zenon DEF Recoverable
  <2>5. c \in received \cup own \/ Data(c) \in shards
    BY <2>1, <2>4, Zenon DEF MissingData
  <2>6. ~Data(c).parity /\ Data(c).n = c
    BY Zenon DEF Data
  <2> QED
    BY <1>1, <1>2, <2>5, <2>6, Zenon
<1> QED
  BY <1>1, <1>2, <1>3, <1>4, Zenon

\* Frames that were true stay true when more has been received.
LEMMA TrueStaysTrue ==
    ASSUME received \subseteq received'
    PROVE  TrueFrames \subseteq TrueFrames'
  BY Zenon DEF TrueFrames

\* Taking in a frame keeps CancelInv.
LEMMA IngestKeepsCancel ==
    ASSUME CancelInv, CancelTypes,
           \/ \E copy \in wire : IngestDatagram(copy)
           \/ \E copy \in inflight : IngestStream(copy)
    PROVE  CancelInv' /\ CancelTypes'
<1>1. PICK copy \in wire \cup inflight : Ingest(copy[1])
  BY Zenon DEF IngestDatagram, IngestStream
<1>2. /\ rcv = "loop" /\ rcv' = "loop"
      /\ UNCHANGED <<snd, completed, frame>>
      /\ wire' \subseteq wire /\ inflight' \subseteq inflight
  BY Zenon DEF IngestDatagram, IngestStream, Receiving, sender, outgoing
<1>3. copy[1].group \in Int
  BY <1>1, Zenon DEF CancelTypes
<1>4. /\ received \subseteq received'
      /\ \A q \in slots' : ~q.parity => q.n \in received'
      /\ \/ frames' = frames
         \/ \E f \in Frame : /\ f.ready => GroupData(f.group) \subseteq received'
                             /\ frames' = Append(frames, f)
  BY <1>1, <1>2, <1>3, IngestTrue, Zenon
<1>5. TrueFrames \subseteq TrueFrames'
  BY <1>4, TrueStaysTrue, Zenon
<1>6. frames \in Seq(TrueFrames) /\ frames \in Seq(TrueFrames')
  BY <1>2, <1>5 DEF CancelInv
<1>7. frames' \in Seq(Frame) /\ frames' \in Seq(TrueFrames')
  <2>1. CASE frames' = frames
    BY <2>1, <1>6, Zenon DEF CancelTypes
  <2>2. ASSUME NEW f \in Frame, f.ready => GroupData(f.group) \subseteq received',
               frames' = Append(frames, f)
        PROVE  frames' \in Seq(Frame) /\ frames' \in Seq(TrueFrames')
    <3>1. f \in TrueFrames'
      BY <2>2, Zenon DEF TrueFrames
    <3> QED
      BY <3>1, <2>2, <1>6 DEF CancelTypes
  <2> QED
    BY <1>4, <2>1, <2>2, Zenon
<1>8. CancelTypes'
  BY <1>2, <1>7, Zenon DEF CancelTypes
<1>9. frame' \in TrueFrames'
  BY <1>2, <1>5, Zenon DEF CancelInv
<1>10. \A g \in completed' : GroupData(g) \subseteq received'
  BY <1>2, <1>4, Zenon DEF CancelInv
<1> QED
  BY <1>2, <1>4, <1>7, <1>8, <1>9, <1>10, Zenon DEF CancelInv

\* The sender's steps: it reads true frames and completes only their groups.
LEMMA SenderKeepsCancel ==
    ASSUME CancelInv, CancelTypes, SenderStep
    PROVE  CancelInv' /\ CancelTypes'
<1>1. CASE ReadAck
  BY <1>1, Zenon DEF ReadAck, incoming, network, CancelInv, CancelTypes, TrueFrames
<1>2. CASE ReadFeedback
  <2>1. /\ frames # <<>> /\ frame' = Head(frames) /\ frames' = Tail(frames)
        /\ snd = "sending"
        /\ UNCHANGED <<snd, completed, rcv, received, slots, inflight, wire>>
    BY <1>2, Zenon DEF ReadFeedback, receiver, incoming
  <2>2. CancelTypes'
    BY <2>1 DEF CancelTypes
  <2>3. TrueFrames' = TrueFrames
    BY <2>1, Zenon DEF TrueFrames
  <2>4. rcv \in {"loop", "verify"} =>
          frame' \in TrueFrames /\ frames' \in Seq(TrueFrames)
    BY <2>1 DEF CancelInv
  <2>5. rcv \in {"loop", "verify", "acked", "renamed"}
    BY <2>1, Zenon DEF CancelInv
  <2> QED
    BY <2>1, <2>2, <2>3, <2>4, <2>5, Zenon DEF CancelInv
<1>3. CASE FlushBatch
  <2>1. /\ completed' = completed \cup Completing /\ snd = "sending"
        /\ UNCHANGED <<snd, frame, frames, rcv, received, slots>>
    BY <1>3, Zenon DEF FlushBatch, receiver, incoming
  <2>2. CancelTypes'
    BY <1>3, FlushTypes, Zenon
  <2>3. rcv \in {"loop", "verify"} => \A g \in Completing : GroupData(g) \subseteq received
    BY Zenon DEF CancelInv, TrueFrames, Completing
  <2>4. TrueFrames' = TrueFrames
    BY <2>1, Zenon DEF TrueFrames
  <2> QED
    BY <2>1, <2>2, <2>3, <2>4, Zenon DEF CancelInv
<1>4. CASE FinishSending
  BY <1>4, Zenon DEF FinishSending, receiver, incoming, outgoing, CancelInv, CancelTypes,
              TrueFrames
<1>5. CASE ReadFinalAck \/ SenderFails
  <2>1. /\ completed' = {} /\ frame' = NoFrame /\ frames' = <<>> /\ wire' = {}
        /\ UNCHANGED <<rcv, received, slots, inflight>>
    BY <1>5, Zenon DEF ReadFinalAck, SenderFails, SenderReturns, Close, receiver, incoming
  <2>2. NoFrame \in Frame /\ NoFrame \in TrueFrames /\ TrueFrames' = TrueFrames
    BY <2>1, NoFrameTrue, Zenon DEF TrueFrames
  <2>3. frames' \in Seq(Frame) /\ frames' \in Seq(TrueFrames')
    BY <2>1
  <2> QED
    BY <2>1, <2>2, <2>3, Zenon DEF CancelInv, CancelTypes
<1> QED
  BY <1>1, <1>2, <1>3, <1>4, <1>5, Zenon DEF SenderStep

\* A receiver that returns leaves nothing behind that could be untrue.
LEMMA ReturnKeepsCancel ==
    ASSUME CancelInv, CancelTypes, UNCHANGED sender,
           ReceiverReturns("done") \/ ReceiverReturns("err")
    PROVE  CancelInv' /\ CancelTypes'
<1>1. /\ rcv' \in {"done", "err"} /\ slots' = {} /\ frames' = <<>>
      /\ wire' = {} /\ inflight' = {} /\ UNCHANGED <<snd, completed, frame>>
  BY Zenon DEF ReceiverReturns, Close, sender, outgoing
<1>2. <<>> \in Seq(Frame)
  OBVIOUS
<1> QED
  BY <1>1, <1>2, Zenon DEF CancelInv, CancelTypes

\* The other steps keep CancelInv.
LEMMA OthersKeepCancel ==
    ASSUME CancelInv, CancelTypes,
           \/ \E cs \in ChunkSizes, rs \in ResumeModes : SendManifest(cs, rs)
           \/ AcceptManifest \/ Flush \/ AnswerComplete \/ Rename \/ RemoveState
           \/ ReceiverFails \/ ReceiverKilled \/ ConnectionLost
           \/ \E copy \in wire : AcceptStream(copy) \/ DatagramLost(copy)
           \/ UNCHANGED vars
    PROVE  CancelInv' /\ CancelTypes'
<1> USE DEF CancelInv, CancelTypes, TrueFrames
<1>1. ASSUME NEW cs, NEW rs, SendManifest(cs, rs)
      PROVE  CancelInv' /\ CancelTypes'
  BY <1>1, Zenon DEF SendManifest, incoming, outgoing
<1>2. CASE AcceptManifest
  <2>1. /\ completed' = {} /\ frame' = NoFrame /\ frames' = <<>> /\ slots' = {}
        /\ rcv' = "loop" /\ snd' = snd /\ UNCHANGED <<wire, inflight>>
    BY <1>2, Zenon DEF AcceptManifest, sender, outgoing, network
  <2>2. NoFrame \in Frame /\ NoFrame \in TrueFrames'
    BY NoFrameTrue, Zenon DEF NoFrame
  <2>3. <<>> \in Seq(Frame) /\ <<>> \in Seq(TrueFrames')
    BY EmptyIsSeq, Zenon
  <2> HIDE DEF TrueFrames
  <2> QED
    BY <2>1, <2>2, <2>3, Zenon
<1>3. CASE Flush
  BY <1>3, Zenon DEF Flush, sender, outgoing, network
<1>4. CASE AnswerComplete
  <2>1. CASE rcv' = "acked"
    BY <1>4, <2>1, Zenon DEF AnswerComplete, ReceiverReturns, Close, sender, outgoing, incoming
  <2>2. CASE rcv' # "acked"
    <3> HIDE DEF CancelInv, CancelTypes
    <3> QED
      BY <1>4, <2>2, ReturnKeepsCancel, Zenon DEF AnswerComplete
  <2> QED
    BY <2>1, <2>2, Zenon
<1>5. CASE Rename
  BY <1>5, Zenon DEF Rename, sender, outgoing, incoming, network
<1>6. CASE RemoveState \/ ReceiverFails \/ ReceiverKilled
  <2> HIDE DEF CancelInv, CancelTypes
  <2> QED
    BY <1>6, ReturnKeepsCancel, Zenon DEF RemoveState, ReceiverFails, ReceiverKilled
<1>7. CASE ConnectionLost
  <2>1. /\ wire' = {} /\ frames' = <<>>
        /\ UNCHANGED <<snd, completed, frame, rcv, received, slots, inflight>>
    BY <1>7, Zenon DEF ConnectionLost, Close, sender, receiver, outgoing, incoming
  <2>2. TrueFrames' = TrueFrames
    BY <2>1, Zenon
  <2>3. <<>> \in Seq(Frame) /\ <<>> \in Seq(TrueFrames')
    BY EmptyIsSeq, Zenon
  <2> HIDE DEF TrueFrames
  <2> QED
    BY <2>1, <2>2, <2>3, Zenon
<1>8. ASSUME NEW copy \in wire, AcceptStream(copy)
      PROVE  CancelInv' /\ CancelTypes'
  BY <1>8, Zenon DEF AcceptStream, Receiving, sender, outgoing
<1>9. ASSUME NEW copy \in wire, DatagramLost(copy)
      PROVE  CancelInv' /\ CancelTypes'
  BY <1>9, Zenon DEF DatagramLost, sender, receiver, outgoing, incoming
<1>10. CASE UNCHANGED vars
  BY <1>10, Zenon DEF vars, sender, receiver, network, outgoing, incoming
<1> QED
  BY <1>1, <1>2, <1>3, <1>4, <1>5, <1>6, <1>7, <1>8, <1>9, <1>10, Zenon

\* The packets the sender cancels are of chunks the receiver has counted, for
\* every batch size, FEC geometry and delay of the feedback.
THEOREM CancelledNeverNeeded == Spec => []CancelledIsReceived
<1>1. Init => CancelInv /\ CancelTypes
  BY NoFrameTrue, SMTT(30) DEF Init, CancelInv, CancelTypes
<1>2. CancelInv /\ CancelTypes /\ [Next]_vars => (CancelInv /\ CancelTypes)'
  BY IngestKeepsCancel, SenderKeepsCancel, OthersKeepCancel, Zenon DEF Next, ReceiverStep
<1>3. CancelInv => CancelledIsReceived
  BY Zenon DEF CancelInv, CancelledIsReceived
<1> QED
  BY <1>1, <1>2, <1>3, PTL DEF Spec

-----------------------------------------------------------------------------
(***************************************************************************)
(* Types, and a transfer that is never rejected. The type invariant is not *)
(* inductive: what a status frame, the wire or a receive task holds must   *)
(* belong to the manifest's geometry (IndexInv), and next stays within the *)
(* file only because the batch of a flush is taken from what is unsent.    *)
(* That a fresh transfer verifies needs FreshInv: every counted chunk has  *)
(* its bytes in the partial file or in the writer's buffer, at every step  *)
(* between the two.                                                        *)
(***************************************************************************)

\* The packets a transfer with the manifest's geometry can put on the wire
Sent == Encoded(Chunks, ParityShards)

\* A status frame that a receiver of this manifest can have written: it names
\* chunks of the file and, when a group is ready, a group of the file.
Told == {f \in [missing : SUBSET Chunks, group : Int, ready : BOOLEAN] :
            f.ready => f.group \in Groups}

\* send_transfer or accept_transfer is not running.
Returned(side) == side \in {"idle", "ok", "done", "err"}

\* Whatever travels or is kept belongs to the manifest's geometry, and a side
\* that has returned holds nothing.
IndexInv ==
    /\ ack \in [received : SUBSET Nat, same : SUBSET Nat]
    /\ frame \in Told /\ frames \in Seq(Told)
    /\ slots \subseteq Sent
    /\ wire \subseteq Sent \X {"stream", "dgram"}
    /\ inflight \subseteq Sent \X {"stream", "dgram"} /\ IsFiniteSet(inflight)
    /\ Returned(snd) => /\ skip = {} /\ next = 0 /\ nacked = {}
                        /\ completed = {}
                        /\ frame = NoFrame /\ wire = {}
    /\ Returned(rcv) => /\ received = {} /\ slots = {} /\ accepted = 0
                        /\ inflight = {} /\ unflushed = {} /\ frames = <<>>

\* Without resume, a chunk is counted only when its bytes are in the partial
\* file or in the pending write, so that the hash of the whole file agrees.
FreshInv ==
    ~resume =>
      /\ finalAck # "failure"
      /\ rcv = "loop" => /\ received \subseteq Chunks
                         /\ \A c \in received :
                              ChunkUnits(c) \subseteq Content \cup unflushed
      /\ rcv = "verify" => part = {Units}

\* The inductive invariant of a transfer.
TransferInv == TransferTypeOK /\ IndexInv /\ FreshInv

\* A nonempty set of natural numbers has a least element.
LEMMA LeastElement ==
    ASSUME NEW S \in SUBSET Nat, S # {}
    PROVE  \E x \in S : \A y \in S : x <= y
<1> DEFINE R == OpToRel(<, Nat)
<1>1. IsWellFoundedOn(R, Nat)
  BY NatLessThanWellFounded, Zenon
<1>2. \A x, y \in Nat : <<y, x>> \in R <=> y < x
  BY Zenon DEF OpToRel
<1> HIDE DEF R
<1>3. PICK x \in S : \A y \in S : ~ (<<y, x>> \in R)
  BY <1>1, WFMin, Zenon
<1>4. ASSUME NEW y \in S PROVE x <= y
  <2>1. x \in Nat /\ y \in Nat
    BY Zenon
  <2>2. ~ (y < x)
    BY <1>2, <1>3, <2>1, Zenon
  <2> QED BY <2>1, <2>2
<1> QED
  BY <1>4, Zenon

\* A nonempty bounded set of natural numbers has a greatest element.
LEMMA GreatestElement ==
    ASSUME NEW S \in SUBSET Nat, S # {}, NEW hi \in Nat, \A y \in S : y <= hi
    PROVE  \E x \in S : \A y \in S : y <= x
<1> DEFINE T == {n \in Nat : hi - n \in S}
<1>1. T \in SUBSET Nat /\ T # {}
  <2>1. PICK x \in S : TRUE
    BY Zenon
  <2>2. hi - x \in Nat /\ hi - (hi - x) = x
    OBVIOUS
  <2> QED BY <2>1, <2>2, Zenon
<1>2. PICK n \in T : \A m \in T : n <= m
  <2> HIDE DEF T
  <2> QED BY <1>1, LeastElement, Zenon
<1>3. ASSUME NEW y \in S PROVE y <= hi - n
  <2>1. y \in Nat /\ y <= hi
    BY Zenon
  <2>2. hi - y \in Nat /\ hi - (hi - y) = y
    BY <2>1
  <2>3. hi - y \in T
    BY <2>2, Zenon
  <2>4. n <= hi - y /\ n \in Nat
    BY <1>2, <2>3, Zenon
  <2> QED BY <2>1, <2>4
<1> QED BY <1>2, <1>3, Zenon

\* A manifest counts its chunks: size divided by chunk size, rounded up.
LEMMA NumChunksNat ==
    ASSUME csize \in ChunkSizes
    PROVE  NumChunks \in Nat
<1>1. csize \in Nat \ {0} /\ Size \in Nat
  BY TransferAssumption, Zenon
<1> QED BY <1>1 DEF NumChunks

\* Every unit belongs to a chunk of the manifest.
LEMMA UnitHasChunk ==
    ASSUME csize \in ChunkSizes, NEW u \in Units
    PROVE  u \div csize \in Chunks /\ u \in ChunkUnits(u \div csize)
<1>1. csize \in Nat \ {0} /\ Size \in Nat /\ u \in Nat /\ u <= Size - 1
  BY TransferAssumption DEF Units
<1> DEFINE q == u \div csize
           m == (Size + csize - 1) \div csize
<1>2. q \in Nat /\ q * csize <= u /\ m \in Nat
        /\ Size + csize - 1 < (m + 1) * csize
  BY <1>1
<1>3. (m + 1) * csize = m * csize + csize /\ q * csize \in Nat
        /\ m * csize \in Nat
  BY <1>1, <1>2
<1> HIDE DEF q, m
<1>4. q * csize < m * csize
  BY <1>1, <1>2, <1>3
<1>5. ~ (q >= m)
  <2>1. q >= m => q * csize >= m * csize
    BY <1>1, <1>2
  <2> QED BY <2>1, <1>4, <1>3
<1>6. q \in 0 .. m - 1
  BY <1>2, <1>5
<1> QED BY <1>6, Zenon DEF q, m, Chunks, NumChunks, ChunkUnits

\* A chunk lies in the group that its index names (fec_group).
LEMMA GroupOfChunk ==
    ASSUME NEW c \in Nat
    PROVE  Group(c) \in Nat /\ c \in GroupData(Group(c))
<1>1. DataShards \in Nat \ {0}
  BY TransferAssumption, Zenon
<1> DEFINE g == c \div DataShards
<1>2. g \in Nat /\ g * DataShards <= c /\ c < (g + 1) * DataShards
  BY <1>1
<1>3. (g + 1) * DataShards = g * DataShards + DataShards
        /\ g * DataShards \in Nat
  BY <1>1, <1>2
<1> HIDE DEF g
<1>4. c \in g * DataShards .. g * DataShards + DataShards - 1
  BY <1>1, <1>2, <1>3
<1> QED BY <1>2, <1>4, Zenon DEF g, Group, GroupData

\* A group has DataShards indices.
LEMMA GroupSize ==
    ASSUME NEW g \in Nat
    PROVE  /\ GroupData(g) \subseteq Nat /\ IsFiniteSet(GroupData(g))
           /\ Cardinality(GroupData(g)) = DataShards
<1> DEFINE a == g * DataShards
           b == a + DataShards - 1
<1>1. DataShards \in Nat \ {0} /\ a \in Nat
  BY TransferAssumption
<1> HIDE DEF a
<1>2. b \in Int /\ a \in Int /\ ~ (a > b) /\ b - a + 1 = DataShards
  BY <1>1
<1> HIDE DEF b
<1>3. IsFiniteSet(a .. b) /\ Cardinality(a .. b) = IF a > b THEN 0
           ELSE b - a + 1
  BY <1>2, FS_Interval, Zenon
<1>4. a .. b \subseteq Nat
  BY <1>1, <1>2
<1> QED BY <1>2, <1>3, <1>4, Zenon DEF a, b, GroupData

\* The chunks and the groups of a manifest are finitely many natural numbers.
LEMMA ChunksFinite ==
    ASSUME csize \in ChunkSizes
    PROVE  /\ Chunks \subseteq Nat /\ IsFiniteSet(Chunks)
           /\ Cardinality(Chunks) = NumChunks
           /\ Groups \subseteq Nat /\ IsFiniteSet(Groups)
           /\ Cardinality(Groups) \in Nat
<1>1. NumChunks \in Nat
  BY NumChunksNat, Zenon
<1>2. /\ IsFiniteSet(0 .. NumChunks - 1)
      /\ Cardinality(0 .. NumChunks - 1) = IF 0 > NumChunks - 1 THEN 0
              ELSE NumChunks - 1 - 0 + 1
  <2>1. 0 \in Int /\ NumChunks - 1 \in Int
    BY <1>1
  <2> QED BY <2>1, FS_Interval, Zenon
<1>3. /\ Chunks \subseteq Nat /\ IsFiniteSet(Chunks)
      /\ Cardinality(Chunks) = NumChunks
  BY <1>1, <1>2 DEF Chunks
<1>4. Groups \subseteq Nat
  BY <1>3, GroupOfChunk, Zenon DEF Groups
<1> DEFINE f == [c \in Chunks |-> Group(c)]
<1>5. f \in Surjection(Chunks, Groups)
  BY Zenon DEF Surjection, Groups
<1> HIDE DEF f
<1>6. IsFiniteSet(Groups)
  BY <1>3, <1>5, FS_Surjection, Zenon
<1> QED BY <1>3, <1>4, <1>6, FS_CardinalityType, Zenon

\* A flush with a lower parity cap sends some of what a flush of every chunk
\* with full parity would send.
LEMMA EncodedIsSent ==
    ASSUME NEW chunks \in SUBSET Chunks, NEW parity \in 0 .. ParityShards
    PROVE  Encoded(chunks, parity) \subseteq Sent
<1>1. ParityShards \in Nat
  BY TransferAssumption, Zenon
<1>2. 0 .. parity - 1 \subseteq 0 .. ParityShards - 1
  BY <1>1
<1>3. {h \in Groups : GroupData(h) \subseteq chunks} \subseteq {h \in Groups : GroupData(h) \subseteq Chunks}
  BY Zenon
<1> QED BY <1>2, <1>3 DEF Encoded, Sent

\* What can be put on the wire is a packet of the manifest.
LEMMA SentIsPackets == Sent \subseteq Packets
  BY DEF Sent, Encoded, Packets

\* A data packet carries a chunk of the file, a parity packet belongs to a
\* group that is full.
LEMMA SentFacts ==
    ASSUME csize \in ChunkSizes, NEW p \in Sent
    PROVE  /\ p.group \in Groups /\ p.parity \in BOOLEAN
           /\ ~p.parity => p.n \in Chunks /\ p = Data(p.n)
                /\ p.group = Group(p.n)
           /\ p.parity => GroupData(p.group) \subseteq Chunks
<1>1. CASE \E c \in Chunks : p = Data(c)
  BY <1>1 DEF Data, Groups
<1>2. CASE \E g \in {h \in Groups : GroupData(h) \subseteq Chunks},
           i \in 0 .. ParityShards - 1 :
             p = Parity(g, i)
  BY <1>2 DEF Parity
<1> QED BY <1>1, <1>2 DEF Sent, Encoded

(* A group that reaches beyond the last chunk is never rebuilt: its chunks are fewer than the data shards
   and it has no parity. *)

\* recovery_ready is told only of a group whose every index is a chunk of the
\* file: a short last group has too few shards without parity, and none of it
\* is sent.
LEMMA ReadyIsFull ==
    ASSUME csize \in ChunkSizes, NEW g \in Groups, NEW kept \in SUBSET Sent,
           RecoveryReady(g, kept)
    PROVE  GroupData(g) \subseteq Chunks
<1> SUFFICES ASSUME ~ (GroupData(g) \subseteq Chunks) PROVE FALSE
  BY Zenon
<1> DEFINE Q == {q \in kept : q.group = g}
           C == GroupData(g) \cap Chunks
           D == {Data(c) : c \in C}
           f == [c \in C |-> Data(c)]
<1>1. g \in Nat /\ DataShards \in Nat
  BY ChunksFinite, TransferAssumption, Zenon
<1>2. /\ IsFiniteSet(GroupData(g)) /\ Cardinality(GroupData(g)) = DataShards
  BY <1>1, GroupSize, Zenon
<1>3. C \subseteq GroupData(g) /\ C # GroupData(g)
  BY Zenon
<1> HIDE DEF C
<1>4. IsFiniteSet(C) /\ Cardinality(C) < DataShards /\ Cardinality(C) \in Nat
  BY <1>1, <1>2, <1>3, FS_Subset, FS_CardinalityType
<1>5. f \in Surjection(C, D)
  BY Zenon DEF Surjection
<1> HIDE DEF f, D
<1>6. IsFiniteSet(D) /\ Cardinality(D) <= Cardinality(C)
        /\ Cardinality(D) \in Nat
  BY <1>4, <1>5, FS_Surjection, FS_CardinalityType, Zenon
<1>7. Q \subseteq D
  <2> SUFFICES ASSUME NEW q \in Q PROVE q \in D
    BY Zenon
  <2>1. q \in Sent /\ q.group = g
    BY Zenon
  <2>2. q.n \in Chunks /\ q = Data(q.n) /\ g = Group(q.n)
    BY <2>1, SentFacts, Zenon
  <2>3. q.n \in GroupData(g)
    BY <2>2, ChunksFinite, GroupOfChunk, Zenon
  <2> QED BY <2>2, <2>3, Zenon DEF C, D
<1>8. Cardinality(Q) <= Cardinality(D) /\ Cardinality(Q) \in Nat
  <2> HIDE DEF Q
  <2> QED BY <1>6, <1>7, FS_Subset, FS_CardinalityType, Zenon
<1>9. Cardinality(Q) >= DataShards
  BY Zenon DEF RecoveryReady
<1> HIDE DEF Q
<1> QED BY <1>1, <1>4, <1>6, <1>8, <1>9

\* The chunks that parity rebuilds are chunks of the file.
LEMMA RebuiltInFile ==
    ASSUME csize \in ChunkSizes, NEW g \in Groups, NEW kept \in SUBSET Sent,
           NEW got
    PROVE  Recoverable(g, got, kept) \subseteq Chunks
  BY ReadyIsFull, Zenon DEF Recoverable, MissingData

\* The batch a flush takes: some of the unsent chunks, so that next advances
\* and stays within the file.
LEMMA BatchBounds ==
    ASSUME csize \in ChunkSizes, next \in 0 .. NumChunks, Unsent # {}
    PROVE  LET batch == Smallest(BatchSize, Unsent)
           IN  /\ batch \subseteq Chunks
               /\ 1 + (CHOOSE c \in batch : \A b \in batch :
                         b <= c) \in 0 .. NumChunks
<1> DEFINE batch == Smallest(BatchSize, Unsent)
<1>1. NumChunks \in Nat /\ BatchSize \in Nat \ {0}
  BY NumChunksNat, TransferAssumption, Zenon
<1>2. Unsent \subseteq Chunks /\ Unsent \in SUBSET Nat
  BY <1>1 DEF Unsent, Chunks
<1>3. batch \subseteq Unsent
  BY Zenon DEF Smallest
<1>4. batch # {}
  <2>1. PICK x \in Unsent : \A y \in Unsent : x <= y
    BY <1>2, LeastElement, Zenon
  <2>2. {y \in Unsent : y < x} = {}
    <3>1. ASSUME NEW y \in Unsent PROVE ~ (y < x)
      <4>1. x <= y
        BY <2>1, Zenon
      <4>2. x \in Nat /\ y \in Nat
        BY <1>2, Zenon
      <4> QED BY <4>1, <4>2
    <3> QED BY <3>1, Zenon
  <2>3. Cardinality({y \in Unsent : y < x}) = 0
    BY <2>2, FS_EmptySet, Zenon
  <2> QED BY <1>1, <2>1, <2>3 DEF Smallest
<1>5. batch \in SUBSET Nat /\ \A y \in batch : y <= NumChunks
  <2>1. batch \subseteq 0 .. NumChunks - 1
    BY <1>2, <1>3, Zenon DEF Chunks
  <2> HIDE DEF batch
  <2> QED BY <1>1, <2>1
<1> HIDE DEF batch
<1>6. \E c \in batch : \A b \in batch : b <= c
  BY <1>1, <1>4, <1>5, GreatestElement, Zenon
<1> DEFINE m == CHOOSE c \in batch : \A b \in batch : b <= c
<1>7. m \in batch
  BY <1>6, Zenon
<1> HIDE DEF m
<1>8. m \in 0 .. NumChunks - 1
  BY <1>2, <1>3, <1>7, Zenon DEF Chunks
<1>9. 1 + m \in 0 .. NumChunks
  BY <1>1, <1>8
<1> QED BY <1>2, <1>3, <1>9, Zenon DEF batch, m

\* One file is at most one file.
LEMMA OneFile ==
    ASSUME NEW S \in SUBSET Units
    PROVE  {S} \subseteq SUBSET Units /\ Cardinality({S}) <= 1
  BY FS_Singleton, SMTT(30)

\* No file is at most one file.
LEMMA NoFile == {} \subseteq SUBSET Units /\ Cardinality({}) <= 1
  BY FS_EmptySet

\* A partial file holds units of the file.
LEMMA ContentIsUnits ==
    ASSUME part \subseteq SUBSET Units
    PROVE  Content \subseteq Units
  BY Zenon DEF Content

\* Taking in a packet (try_ingest_packet with what it calls: the write, the
\* parity recovery, the status frames, the saved state) keeps what is received,
\* saved and queued within the manifest; without resume a chunk is counted as
\* received only with its bytes.
LEMMA IngestChunks ==
    ASSUME TransferTypeOK, IndexInv, FreshInv, rcv = "loop", NEW p \in Sent,
           Ingest(p)
    PROVE  /\ received' \subseteq Nat /\ saved' \subseteq Nat
           /\ slots' \subseteq Sent
           /\ unflushed' \subseteq Units
           /\ part' \subseteq SUBSET Units /\ Cardinality(part') <= 1
           /\ frames' \in Seq(Told)
           /\ ~resume => /\ received' \subseteq Chunks
                         /\ \A c \in received' :
                              ChunkUnits(c) \subseteq (UNION part') \cup unflushed'
<1> DEFINE g == p.group
           own == IF p.parity THEN {} ELSE {p.n} \ received
           shards == IF ParityShards > 0 THEN slots \cup {p} ELSE slots
           rebuilt == Recoverable(g, received \cup own, shards)
           kept == {q \in shards : rebuilt = {} \/ q.group # g}
           written == own \cup rebuilt
           lastly == IF rebuilt = {} THEN own ELSE rebuilt
           last == CHOOSE c \in lastly : \A b \in lastly : b <= c
           most == UNION {ChunkUnits(c) : c \in written \ {last}}
           f == Feedback(g, received', kept)
<1>1. /\ received' = received \cup written
      /\ slots' = kept
      /\ \/ written = {} /\ UNCHANGED <<part, unflushed>>
         \/ part' = {Content \cup unflushed \cup most}
              /\ unflushed' = ChunkUnits(last)
      /\ frames' = frames \/ frames' = Append(frames, f)
      /\ saved' = received' \/ saved' = saved
  BY Zenon DEF Ingest
<1>2. /\ csize \in ChunkSizes /\ received \subseteq Nat /\ saved \subseteq Nat
      /\ slots \subseteq Sent
      /\ unflushed \subseteq Units /\ part \subseteq SUBSET Units
      /\ Cardinality(part) <= 1
      /\ frames \in Seq(Told)
  BY Zenon DEF TransferTypeOK, IndexInv
<1>3. p.group \in Groups /\ (~p.parity => p.n \in Chunks)
  BY <1>2, SentFacts, Zenon
<1>4. own \subseteq Chunks
  BY <1>3, Zenon
<1>5. shards \subseteq Sent
  BY <1>2, Zenon
<1>6. rebuilt \subseteq Chunks
  <2> HIDE DEF shards, own
  <2> QED BY <1>2, <1>3, <1>5, RebuiltInFile, Zenon
<1>7. kept \subseteq Sent
  BY <1>5, Zenon
<1>8. written \subseteq Chunks
  BY <1>4, <1>6, Zenon
<1> HIDE DEF own, shards, rebuilt, written, lastly
<1>9. Chunks \subseteq Nat
  BY <1>2, ChunksFinite, Zenon
<1>10. received' \subseteq Nat /\ saved' \subseteq Nat
  BY <1>1, <1>2, <1>8, <1>9, Zenon
<1>11. \A c : ChunkUnits(c) \subseteq Units
  BY Zenon DEF ChunkUnits
<1> HIDE DEF last
<1>12. most \subseteq Units
  BY <1>11, Zenon
<1>13. Content \cup unflushed \cup most \in SUBSET Units
  <2> HIDE DEF most
  <2> QED BY <1>2, <1>12, ContentIsUnits, Zenon
<1>14. /\ unflushed' \subseteq Units
       /\ part' \subseteq SUBSET Units /\ Cardinality(part') <= 1
  <2> HIDE DEF most
  <2> QED BY <1>1, <1>2, <1>11, <1>13, OneFile, Zenon
<1>15. frames' \in Seq(Told)
  <2>1. f \in Told
    <3>1. RecoveryReady(g, kept) \in BOOLEAN
      BY Zenon DEF RecoveryReady
    <3>2. Groups \subseteq Nat
      BY <1>2, ChunksFinite, Zenon
    <3>3. Chunks \ received' \in SUBSET Chunks /\ g \in Int /\ g \in Groups
      <4>1. g \in Groups
        BY <1>3, Zenon
      <4> HIDE DEF g
      <4>2. g \in Int
        BY <3>2, <4>1
      <4>3. Chunks \ received' \in SUBSET Chunks
        BY Zenon
      <4> QED BY <4>1, <4>2, <4>3, Zenon
    <3>4. f = [missing |-> Chunks \ received', group |-> g,
               ready |-> RecoveryReady(g, kept)]
      BY Zenon DEF Feedback
    <3> HIDE DEF kept, f, g
    <3>5. f \in [missing : SUBSET Chunks, group : Int, ready : BOOLEAN]
            /\ f.group = g
      BY <3>1, <3>3, <3>4, Zenon
    <3> QED BY <3>3, <3>5, Zenon DEF Told
  <2> HIDE DEF f
  <2> QED BY <1>1, <1>2, <2>1
<1>16. ASSUME ~resume
       PROVE  /\ received' \subseteq Chunks
              /\ \A c \in received' :
                   ChunkUnits(c) \subseteq (UNION part') \cup unflushed'
  <2>1. received \subseteq Chunks /\ \A c \in received :
          ChunkUnits(c) \subseteq Content \cup unflushed
    BY <1>16, Zenon DEF FreshInv
  <2>2. received' \subseteq Chunks
    BY <1>1, <1>8, <2>1, Zenon
  <2>3. ASSUME NEW c \in received'
        PROVE  ChunkUnits(c) \subseteq (UNION part') \cup unflushed'
    <3>1. CASE written = {} /\ UNCHANGED <<part, unflushed>>
      BY <1>1, <2>1, <3>1, Zenon DEF Content
    <3>2. CASE part' = {Content \cup unflushed \cup most}
                 /\ unflushed' = ChunkUnits(last)
      <4>1. c \in written \ {last} => ChunkUnits(c) \subseteq most
        BY Zenon
      <4>2. UNION part' = Content \cup unflushed \cup most
        <5> HIDE DEF most
        <5> QED BY <3>2, Zenon
      <4> HIDE DEF most
      <4>3. CASE c \in received
        BY <2>1, <4>2, <4>3, Zenon
      <4>4. CASE c \in written \ {last}
        BY <4>1, <4>2, <4>4, Zenon
      <4>5. CASE c = last
        BY <3>2, <4>5, Zenon
      <4> QED BY <1>1, <4>3, <4>4, <4>5, Zenon
    <3> QED BY <1>1, <3>1, <3>2, Zenon
  <2> QED BY <2>2, <2>3, Zenon
<1> QED BY <1>1, <1>7, <1>10, <1>14, <1>15, <1>16, Zenon

\* The geometry of the file is that of the attempt.
LEMMA SameGeometry ==
    ASSUME csize' = csize
    PROVE  /\ NumChunks' = NumChunks /\ Chunks' = Chunks /\ Groups' = Groups
           /\ Packets' = Packets
           /\ Sent' = Sent /\ Told' = Told /\ MaxStreams' = MaxStreams
           /\ \A c : ChunkUnits(c)' = ChunkUnits(c)
<1>1. NumChunks' = NumChunks
  BY Zenon DEF NumChunks
<1>2. Chunks' = Chunks
  BY <1>1, Zenon DEF Chunks
<1>3. Groups' = Groups
  BY <1>2, Zenon DEF Groups, Group
<1>4. Packets' = Packets
  BY <1>2, <1>3 DEF Packets, Data, Parity, Group
<1>5. Sent' = Sent
  BY <1>2, <1>3 DEF Sent, Encoded, Data, Parity, Group, GroupData
<1>6. Told' = Told
  BY <1>2, <1>3, Zenon DEF Told
<1>7. MaxStreams' = MaxStreams
  BY <1>1, <1>3, Zenon DEF MaxStreams
<1>8. \A c : ChunkUnits(c)' = ChunkUnits(c)
  BY Zenon DEF ChunkUnits, Units
<1> QED BY <1>1, <1>2, <1>3, <1>4, <1>5, <1>6, <1>7, <1>8, Zenon

\* max_streams is a natural number.
LEMMA StreamBound ==
    ASSUME csize \in ChunkSizes
    PROVE  MaxStreams \in Nat
<1> DEFINE k == Cardinality(Groups) * ParityShards
<1>1. NumChunks \in Nat /\ Cardinality(Groups) \in Nat /\ ParityShards \in Nat
        /\ Headroom \in Nat
  BY NumChunksNat, ChunksFinite, TransferAssumption, Zenon
<1>2. k \in Nat
  BY <1>1
<1> HIDE DEF k
<1>3. NumChunks + k + Headroom \in Nat
  BY <1>1, <1>2
<1> QED BY <1>3, Zenon DEF MaxStreams, k

\* The geometry of a manifest, in one fact.
LEMMA GeometryTyped == csize \in ChunkSizes => NumChunks \in Nat
  /\ MaxStreams \in Nat
  BY NumChunksNat, StreamBound, Zenon

\* The empty answer is an answer.
LEMMA NoAckTyped == NoAck \in [received : SUBSET Nat, same : SUBSET Nat]
  BY Zenon DEF NoAck

\* The empty status frame names nothing.
LEMMA NoFrameTold == NoFrame \in Told
  BY DEF NoFrame, Told

\* Both sides have returned: nothing of the attempt is left but the files.
LEMMA ManifestKeeps ==
    ASSUME TransferInv, NEW cs \in ChunkSizes, NEW rs \in ResumeModes,
           SendManifest(cs, rs)
    PROVE  TransferInv'
<1>1. /\ csize' = cs /\ resume' = rs /\ up' = TRUE /\ attempt' = attempt + 1
      /\ snd' = "manifest" /\ rcv' = "idle" /\ ack' = NoAck
      /\ complete' = FALSE /\ finalAck' = "none"
      /\ Returned(snd) /\ Returned(rcv)
      /\ UNCHANGED <<skip, next, nacked, completed, frame, received, slots,
                     accepted, inflight,
                     unflushed, wire, frames, part, saved, final>>
  BY Zenon DEF SendManifest, outgoing, incoming, disk, Returned
<1>2. /\ skip = {} /\ next = 0 /\ nacked = {} /\ completed = {}
      /\ frame = NoFrame /\ wire = {}
      /\ received = {} /\ slots = {} /\ accepted = 0 /\ inflight = {}
      /\ unflushed = {} /\ frames = <<>>
      /\ IsFiniteSet(inflight)
  BY <1>1, Zenon DEF TransferInv, IndexInv
<1>3. csize' \in ChunkSizes
  BY <1>1, Zenon
<1>4. NumChunks' \in Nat /\ MaxStreams' \in Nat
  <2>1. (csize \in ChunkSizes => NumChunks \in Nat /\ MaxStreams \in Nat)'
    BY GeometryTyped, PTL
  <2> QED BY <1>3, <2>1, Zenon
<1>5. frame' \in Told' /\ frames' \in Seq(Told')
  <2>1. NoFrame \in Told'
    BY DEF NoFrame, Told
  <2>2. <<>> \in Seq(Told')
    OBVIOUS
  <2> QED BY <1>1, <1>2, <2>1, <2>2, Zenon
<1>6. IndexInv'
  BY <1>1, <1>2, <1>5, NoAckTyped, Zenon DEF IndexInv, Returned
<1>7. FreshInv'
  BY <1>1, Zenon DEF FreshInv
<1>8. TransferTypeOK'
  <2>1. attempt' \in Nat /\ Cardinality(inflight') <= MaxParallel
    BY <1>1 DEF TransferInv, TransferTypeOK
  <2>2. next' \in 0 .. NumChunks' /\ accepted' \in 0 .. MaxStreams'
    BY <1>1, <1>2, <1>4
  <2>3. /\ saved' \subseteq Nat /\ part' \subseteq SUBSET Units'
        /\ Cardinality(part') <= 1
        /\ final' \subseteq SUBSET Units' /\ Cardinality(final') <= 1
    BY <1>1, Zenon DEF TransferInv, TransferTypeOK, Units
  <2>4. /\ skip' \subseteq Nat /\ nacked' \subseteq Chunks'
        /\ completed' \subseteq Groups'
        /\ received' \subseteq Nat /\ slots' \subseteq Packets'
        /\ unflushed' \subseteq Units'
        /\ wire' \subseteq Packets' \X {"stream", "dgram"}
        /\ inflight' \subseteq Packets' \X {"stream", "dgram"}
    BY <1>1, <1>2, Zenon
  <2> QED BY <1>1, <1>3, <2>1, <2>2, <2>3, <2>4, Zenon DEF TransferTypeOK
<1> QED BY <1>6, <1>7, <1>8, Zenon DEF TransferInv

\* A step that leaves the receiver's files and sets alone keeps FreshInv.
LEMMA FreshStays ==
    ASSUME FreshInv, UNCHANGED <<csize, resume, rcv, received, unflushed, part,
                                 finalAck>>
    PROVE  FreshInv'
  BY Zenon DEF FreshInv, Content, ChunkUnits, Units, Chunks, NumChunks

\* A step of the sender or of the network that neither reads nor writes what
\* the receiver holds.
LEMMA ReceiverUntouched ==
    ASSUME TransferInv, UNCHANGED <<attempt, csize, resume, rcv, received,
                                    slots, accepted, inflight,
                                    unflushed, finalAck, part, saved, final>>,
           up' \in BOOLEAN, complete' \in BOOLEAN,
           ack' \in [received : SUBSET Nat, same : SUBSET Nat],
           snd' \in {"idle", "manifest", "sending", "closing", "ok", "err"},
           skip' \subseteq Nat, next' \in 0 .. NumChunks,
           nacked' \subseteq Chunks,
           completed' \subseteq Groups, frame' \in Told, frames' \in Seq(Told),
           wire' \subseteq Sent \X {"stream", "dgram"},
           Returned(snd') => /\ skip' = {} /\ next' = 0 /\ nacked' = {}
                             /\ completed' = {}
                             /\ frame' = NoFrame /\ wire' = {},
           frames = <<>> => frames' = <<>>
    PROVE  TransferInv'
<1>1. /\ NumChunks' = NumChunks /\ Chunks' = Chunks /\ Groups' = Groups
      /\ Packets' = Packets
      /\ Sent' = Sent /\ Told' = Told /\ MaxStreams' = MaxStreams
  BY SameGeometry, Zenon
<1>2. FreshInv'
  BY FreshStays, Zenon DEF TransferInv
<1>3. IndexInv'
  BY <1>1, Zenon DEF TransferInv, IndexInv, Returned
<1>4. TransferTypeOK'
  <2>1. wire' \subseteq Packets \X {"stream", "dgram"}
    BY SentIsPackets, Zenon
  <2> QED BY <1>1, <2>1, Zenon DEF TransferInv, TransferTypeOK, Units
<1> QED BY <1>2, <1>3, <1>4, Zenon DEF TransferInv

\* Flushing a batch sends chunks of the file and advances next within it.
LEMMA FlushKeeps ==
    ASSUME TransferInv, FlushBatch
    PROVE  TransferInv'
<1> DEFINE batch == Smallest(BatchSize, Unsent)
           done == completed \cup Completing
           chunks == StillNeeded(batch \cup Nacks, done)
<1>1. /\ csize \in ChunkSizes /\ next \in 0 .. NumChunks /\ frame \in Told
      /\ frames \in Seq(Told)
      /\ wire \subseteq Sent \X {"stream", "dgram"} /\ nacked \subseteq Chunks
      /\ completed \subseteq Groups
      /\ up \in BOOLEAN /\ complete \in BOOLEAN /\ skip \subseteq Nat
      /\ ack \in [received : SUBSET Nat, same : SUBSET Nat]
  BY Zenon DEF TransferInv, TransferTypeOK, IndexInv
<1>2. /\ batch \subseteq Chunks
      /\ 1 + (CHOOSE c \in batch : \A b \in batch : b <= c) \in 0 .. NumChunks
  BY <1>1, BatchBounds, Zenon DEF FlushBatch
<1>3. Nacks \subseteq Chunks
  BY <1>1, Zenon DEF Nacks, Smallest, Told
<1>4. done \subseteq Groups
  BY <1>1, Zenon DEF Completing, Told
<1>5. chunks \subseteq Chunks
  <2> HIDE DEF batch
  <2> QED BY <1>2, <1>3, Zenon DEF StillNeeded
<1>6. /\ snd = "sending"
      /\ UNCHANGED <<attempt, csize, resume, up, snd, skip, frame, rcv, ack,
                     received, slots, accepted, inflight,
                     unflushed, frames, complete, finalAck, part, saved, final>>
  BY Zenon DEF FlushBatch, session, receiver, incoming, disk
<1>7. PICK parity \in IF ParityCap = 0 THEN {0} ELSE 1 .. ParityCap :
        \E route \in [Encoded(chunks, parity) -> Routes] :
           /\ wire' = wire \cup Copies(Encoded(chunks, parity), route)
           /\ completed' = done
           /\ nacked' = nacked \cup Nacks
           /\ next' = 1 + CHOOSE c \in batch : \A b \in batch : b <= c
  BY Zenon DEF FlushBatch
<1> HIDE DEF batch, done, chunks
<1>8. PICK route \in [Encoded(chunks, parity) -> Routes] :
           wire' = wire \cup Copies(Encoded(chunks, parity), route)
  BY <1>7, Zenon
<1>9. parity \in 0 .. ParityShards
  <2>1. ParityShards \in Nat /\ ParityCap \in {0, ParityShards}
    BY TransferAssumption, Zenon DEF ParityCap
  <2> QED BY <2>1, <1>7
<1>10. Encoded(chunks, parity) \subseteq Sent
  BY <1>5, <1>9, EncodedIsSent, Zenon
<1>11. Copies(Encoded(chunks, parity), route) \subseteq Sent \X {"stream",
                                                                 "dgram"}
  <2>1. \A r \in Routes : r \subseteq {"stream", "dgram"}
    BY Zenon DEF Routes
  <2> DEFINE E == Encoded(chunks, parity)
  <2> HIDE DEF E
  <2>2. E \subseteq Sent /\ route \in [E -> Routes]
    BY <1>10, Zenon DEF E
  <2>3. \A p \in E : {p} \X route[p] \subseteq Sent \X {"stream", "dgram"}
    BY <2>1, <2>2, Zenon
  <2> QED BY <2>3, Zenon DEF Copies, E
<1>12. wire' \subseteq Sent \X {"stream", "dgram"}
  BY <1>1, <1>8, <1>11, Zenon
<1>13. next' \in 0 .. NumChunks /\ nacked' \subseteq Chunks
         /\ completed' \subseteq Groups
  BY <1>1, <1>2, <1>3, <1>4, <1>7, Zenon
<1> QED BY <1>1, <1>6, <1>12, <1>13, ReceiverUntouched, Zenon DEF Returned

\* Every other step of send_transfer keeps the invariant.
LEMMA SenderKeeps ==
    ASSUME TransferInv, SenderStep
    PROVE  TransferInv'
<1>0. /\ csize \in ChunkSizes /\ next \in 0 .. NumChunks /\ frame \in Told
      /\ frames \in Seq(Told)
      /\ wire \subseteq Sent \X {"stream", "dgram"} /\ nacked \subseteq Chunks
      /\ completed \subseteq Groups
      /\ up \in BOOLEAN /\ complete \in BOOLEAN /\ skip \subseteq Nat
      /\ ack \in [received : SUBSET Nat, same : SUBSET Nat]
  BY Zenon DEF TransferInv, TransferTypeOK, IndexInv
<1>1. CASE ReadAck
  <2>1. /\ snd' = "sending" /\ skip' = ack.received \cup ack.same
        /\ ack' = NoAck
        /\ UNCHANGED <<attempt, csize, resume, up, next, nacked, completed,
                       frame, rcv, received, slots,
                       accepted, inflight, unflushed, wire, frames, complete,
                       finalAck, part, saved, final>>
    BY <1>1, Zenon DEF ReadAck, session, incoming, network, disk
  <2>2. skip' \subseteq Nat
    BY <1>0, <2>1, Zenon
  <2> QED BY <1>0, <2>1, <2>2, NoAckTyped, ReceiverUntouched, Zenon DEF Returned
<1>2. CASE ReadFeedback
  <2>1. /\ snd = "sending" /\ frames # <<>> /\ frame' = Head(frames)
        /\ frames' = Tail(frames)
        /\ UNCHANGED <<attempt, csize, resume, up, snd, skip, next, nacked,
                       completed, rcv, ack, received, slots,
                       accepted, inflight, unflushed, wire, complete, finalAck,
                       part, saved, final>>
    BY <1>2, Zenon DEF ReadFeedback, session, receiver, incoming, disk
  <2>2. frame' \in Told /\ frames' \in Seq(Told)
    BY <1>0, <2>1
  <2> QED BY <1>0, <2>1, <2>2, ReceiverUntouched, Zenon DEF Returned
<1>3. CASE FlushBatch
  BY <1>3, FlushKeeps, Zenon
<1>4. CASE FinishSending
  <2>1. /\ snd' = "closing" /\ complete' = TRUE
        /\ UNCHANGED <<attempt, csize, resume, up, skip, next, nacked,
                       completed, frame, rcv, ack, received, slots,
                       accepted, inflight, unflushed, wire, frames, finalAck,
                       part, saved, final>>
    BY <1>4, Zenon DEF FinishSending, session, receiver, incoming, outgoing, disk
  <2> QED BY <1>0, <2>1, ReceiverUntouched, Zenon DEF Returned
<1>5. CASE ReadFinalAck \/ SenderFails
  <2>1. /\ snd' \in {"ok", "err"} /\ skip' = {} /\ next' = 0 /\ nacked' = {}
        /\ completed' = {}
        /\ frame' = NoFrame /\ up' = FALSE /\ wire' = {} /\ frames' = <<>>
        /\ UNCHANGED <<attempt, csize, resume, rcv, ack, received, slots,
                       accepted, inflight, unflushed, complete, finalAck, part,
                       saved, final>>
    BY <1>5, Zenon
       DEF ReadFinalAck, SenderFails, SenderReturns, Close, session, receiver,
           incoming, disk
  <2>2. frame' \in Told /\ frames' \in Seq(Told)
    BY <2>1, NoFrameTold
  <2>3. next' \in 0 .. NumChunks
    BY <2>1, <1>0, NumChunksNat
  <2> QED BY <1>0, <2>1, <2>2, <2>3, ReceiverUntouched, Zenon DEF Returned
<1> QED BY <1>1, <1>2, <1>3, <1>4, <1>5, Zenon DEF SenderStep

\* A step of the receiver or of the network that leaves the sender's side
\* alone.
LEMMA SenderUntouched ==
    ASSUME TransferInv, UNCHANGED <<attempt, csize, resume, snd, skip, next,
                                    nacked, completed, frame, complete>>,
           up' \in BOOLEAN, ack' \in [received : SUBSET Nat, same : SUBSET Nat],
           rcv' \in {"idle", "loop", "verify", "acked", "renamed", "done",
                     "err"},
           finalAck' \in {"none", "success", "failure"},
           received' \subseteq Nat, saved' \subseteq Nat, slots' \subseteq Sent,
           accepted' \in 0 .. MaxStreams,
           wire' \subseteq wire, frames' \in Seq(Told),
           inflight' \subseteq Sent \X {"stream", "dgram"},
           IsFiniteSet(inflight'),
           Cardinality(inflight') <= MaxParallel,
           unflushed' \subseteq Units,
           part' \subseteq SUBSET Units, Cardinality(part') <= 1,
           final' \subseteq SUBSET Units, Cardinality(final') <= 1,
           Returned(rcv') => /\ received' = {} /\ slots' = {} /\ accepted' = 0
                             /\ inflight' = {} /\ unflushed' = {}
                             /\ frames' = <<>>,
           FreshInv'
    PROVE  TransferInv'
<1>1. /\ NumChunks' = NumChunks /\ Chunks' = Chunks /\ Groups' = Groups
      /\ Packets' = Packets
      /\ Sent' = Sent /\ Told' = Told /\ MaxStreams' = MaxStreams
  BY SameGeometry, Zenon
<1>2. IndexInv'
  BY <1>1, Zenon DEF TransferInv, IndexInv, Returned
<1>3. TransferTypeOK'
  <2>1. /\ slots' \subseteq Packets
        /\ wire' \subseteq Packets \X {"stream", "dgram"}
        /\ inflight' \subseteq Packets \X {"stream", "dgram"}
    BY SentIsPackets, Zenon DEF TransferInv, TransferTypeOK
  <2> QED BY <1>1, <2>1, Zenon DEF TransferInv, TransferTypeOK, Units
<1> QED BY <1>2, <1>3, Zenon DEF TransferInv

\* What the invariant says of the receiver, for the steps that leave it alone.
LEMMA ReceiverTyped ==
    ASSUME TransferInv
    PROVE  /\ csize \in ChunkSizes /\ up \in BOOLEAN
           /\ ack \in [received : SUBSET Nat, same : SUBSET Nat]
           /\ rcv \in {"idle", "loop", "verify", "acked", "renamed", "done",
                       "err"}
           /\ finalAck \in {"none", "success", "failure"}
           /\ received \subseteq Nat /\ saved \subseteq Nat
           /\ slots \subseteq Sent /\ accepted \in 0 .. MaxStreams
           /\ frames \in Seq(Told) /\ wire \subseteq Sent \X {"stream", "dgram"}
           /\ inflight \subseteq Sent \X {"stream", "dgram"}
           /\ IsFiniteSet(inflight)
           /\ Cardinality(inflight) <= MaxParallel
           /\ unflushed \subseteq Units
           /\ part \subseteq SUBSET Units /\ Cardinality(part) <= 1
           /\ final \subseteq SUBSET Units /\ Cardinality(final) <= 1
           /\ Returned(rcv) => /\ received = {} /\ slots = {} /\ accepted = 0
                               /\ inflight = {} /\ unflushed = {}
                               /\ frames = <<>>
           /\ FreshInv /\ MaxStreams \in Nat /\ NumChunks \in Nat
<1>1. csize \in ChunkSizes
  BY Zenon DEF TransferInv, TransferTypeOK
<1> QED BY <1>1, StreamBound, NumChunksNat, Zenon
           DEF TransferInv, TransferTypeOK, IndexInv

\* accept_transfer takes the manifest, with or without the state saved by an
\* earlier attempt.
LEMMA AcceptManifestKeeps ==
    ASSUME TransferInv, AcceptManifest
    PROVE  TransferInv'
<1> DEFINE r == IF resume /\ part # {} THEN saved ELSE {}
           s == IF resume /\ part # {}
                THEN {c \in Chunks : ChunkUnits(c) \subseteq Content} ELSE {}
<1>1. /\ rcv = "idle" /\ rcv' = "loop"
      /\ received' = r /\ ack' = [received |-> r, same |-> s]
      /\ part' = IF resume /\ part # {} THEN part ELSE {Zero}
      /\ UNCHANGED <<attempt, csize, resume, up, snd, skip, next, nacked,
                     completed, frame, complete,
                     slots, accepted, inflight, unflushed, wire, frames,
                     finalAck, saved, final>>
  BY Zenon DEF AcceptManifest, session, sender, outgoing, network
<1>2. r \subseteq Nat /\ s \subseteq Nat
  BY ReceiverTyped, ChunksFinite, Zenon
<1>3. ack' \in [received : SUBSET Nat, same : SUBSET Nat]
  <2> HIDE DEF r, s
  <2> QED BY <1>1, <1>2, Zenon
<1>4. {Zero} \subseteq SUBSET Units /\ Cardinality({Zero}) <= 1
  BY OneFile, TransferAssumption, Zenon DEF Units
<1>5. part' \subseteq SUBSET Units /\ Cardinality(part') <= 1
  BY <1>1, <1>4, ReceiverTyped, Zenon
<1>6. FreshInv'
  <2>1. ~resume => finalAck # "failure" /\ r = {}
    BY ReceiverTyped, Zenon DEF FreshInv
  <2> QED BY <1>1, <2>1, Zenon DEF FreshInv
<1>7. received' \subseteq Nat
  BY <1>1, <1>2, Zenon
<1>8. ~Returned(rcv')
  BY <1>1, Zenon DEF Returned
<1> HIDE DEF r, s
<1> QED BY <1>1, <1>3, <1>5, <1>6, <1>7, <1>8, ReceiverTyped, SenderUntouched, Zenon

\* A receiver that has counted every chunk, having begun without resume, has
\* the whole file once the pending write is carried out.
LEMMA AllIsWritten ==
    ASSUME TransferInv, rcv = "loop", ~Receiving, ~resume
    PROVE  Content \cup unflushed = Units
<1>1. /\ csize \in ChunkSizes /\ NumChunks \in Nat /\ unflushed \subseteq Units
      /\ part \subseteq SUBSET Units
      /\ received \subseteq Chunks
      /\ \A c \in received : ChunkUnits(c) \subseteq Content \cup unflushed
  BY ReceiverTyped, Zenon DEF FreshInv
<1>2. IsFiniteSet(Chunks) /\ Cardinality(Chunks) = NumChunks
  BY <1>1, ChunksFinite, Zenon
<1>3. received = Chunks
  <2>1. Cardinality(received) \in Nat /\ Cardinality(received) <= NumChunks
        /\ (Cardinality(received) = NumChunks => received = Chunks)
    BY <1>1, <1>2, FS_Subset, FS_CardinalityType, Zenon
  <2>2. ~ (Cardinality(received) < NumChunks)
    BY Zenon DEF Receiving
  <2> QED BY <1>1, <2>1, <2>2
<1>4. ASSUME NEW u \in Units PROVE u \in Content \cup unflushed
  <2>1. u \div csize \in Chunks /\ u \in ChunkUnits(u \div csize)
    BY <1>1, UnitHasChunk, Zenon
  <2> QED BY <1>1, <1>3, <2>1, Zenon
<1>5. Content \subseteq Units
  BY <1>1, ContentIsUnits, Zenon
<1> QED BY <1>1, <1>4, <1>5, Zenon

\* The buffered writer puts the pending bytes into the partial file.
LEMMA FlushFileKeeps ==
    ASSUME TransferInv, Flush
    PROVE  TransferInv'
<1>1. /\ rcv = "loop" /\ rcv' = "verify" /\ ~Receiving
      /\ part' = {Content \cup unflushed} /\ unflushed' = {}
      /\ UNCHANGED <<attempt, csize, resume, up, snd, skip, next, nacked,
                     completed, frame, complete, ack,
                     received, slots, accepted, inflight, wire, frames,
                     finalAck, saved, final>>
  BY Zenon DEF Flush, session, sender, outgoing, network
<1>2. Content \cup unflushed \in SUBSET Units
  BY ReceiverTyped, ContentIsUnits, Zenon
<1>3. part' \subseteq SUBSET Units /\ Cardinality(part') <= 1
  BY <1>1, <1>2, OneFile, Zenon
<1>4. FreshInv'
  <2>1. ~resume => finalAck # "failure" /\ Content \cup unflushed = Units
    BY <1>1, AllIsWritten, ReceiverTyped, Zenon DEF FreshInv
  <2> QED BY <1>1, <2>1, Zenon DEF FreshInv, Units
<1>5. ~Returned(rcv')
  BY <1>1, Zenon DEF Returned
<1> QED BY <1>1, <1>3, <1>4, <1>5, ReceiverTyped, SenderUntouched, Zenon

\* accept_transfer returns: only the files and the final answer remain.
LEMMA ReturnKeeps ==
    ASSUME TransferInv, ReceiverReturns("done") \/ ReceiverReturns("err"),
           UNCHANGED <<session, sender, ack, complete, final>>,
           part' \subseteq SUBSET Units, Cardinality(part') <= 1,
           saved' \subseteq Nat,
           finalAck' \in {"none", "success", "failure"}, ~resume =>
             finalAck' # "failure"
    PROVE  TransferInv'
<1>1. /\ rcv' \in {"done", "err"} /\ received' = {} /\ slots' = {}
      /\ accepted' = 0 /\ inflight' = {}
      /\ unflushed' = {} /\ up' = FALSE /\ wire' = {} /\ frames' = <<>>
      /\ UNCHANGED <<attempt, csize, resume, snd, skip, next, nacked, completed,
                     frame, complete, ack, final>>
  BY Zenon DEF ReceiverReturns, Close, session, sender, outgoing
<1>2. FreshInv'
  BY <1>1, Zenon DEF FreshInv
<1>3. IsFiniteSet({}) /\ Cardinality({}) = 0
  BY FS_EmptySet, Zenon
<1>4. IsFiniteSet(inflight') /\ Cardinality(inflight') <= MaxParallel
  BY <1>1, <1>3, TransferAssumption, SMTT(30)
<1>5. accepted' \in 0 .. MaxStreams
  BY <1>1, ReceiverTyped
<1>6. frames' \in Seq(Told)
  BY <1>1
<1> QED BY <1>1, <1>2, <1>4, <1>5, <1>6, ReceiverTyped, SenderUntouched, Zenon

\* The ends of accept_transfer: it verifies and answers, renames the file,
\* removes the state, gives up or is killed. Without resume, verification finds
\* the whole file.
LEMMA EndingKeeps ==
    ASSUME TransferInv, AnswerComplete \/ Rename \/ RemoveState
             \/ ReceiverFails \/ ReceiverKilled
    PROVE  TransferInv'
<1>0. /\ saved \subseteq Nat /\ part \subseteq SUBSET Units
      /\ Cardinality(part) <= 1
      /\ finalAck \in {"none", "success", "failure"}
      /\ (~resume => finalAck # "failure")
      /\ unflushed \subseteq Units /\ Content \subseteq Units
  BY ReceiverTyped, ContentIsUnits, Zenon DEF FreshInv
<1>1. CASE AnswerComplete
  <2>1. /\ rcv = "verify" /\ UNCHANGED <<session, sender, ack, complete, final,
                                         part, saved>>
    BY <1>1, Zenon DEF AnswerComplete, disk
  <2>2. CASE ~Verified
    <3>1. finalAck' = "failure" /\ ReceiverReturns("err")
      BY <1>1, <2>2, Zenon DEF AnswerComplete
    <3>2. resume = TRUE
      BY <2>1, <2>2, ReceiverTyped, Zenon
         DEF FreshInv, Verified, TransferInv, TransferTypeOK
    <3> QED BY <1>0, <2>1, <3>1, <3>2, ReturnKeeps, Zenon
  <2>3. CASE Verified
    <3>1. finalAck' = "success" /\ rcv' = "acked" /\ UNCHANGED <<up, incoming,
                                                                 wire, frames>>
      BY <1>1, <2>3, Zenon DEF AnswerComplete
    <3>2. UNCHANGED <<attempt, csize, resume, snd, skip, next, nacked,
                      completed, frame, complete, up, ack,
                      received, slots, accepted, inflight, unflushed, wire,
                      frames, part, saved, final>>
      BY <2>1, <3>1, Zenon DEF session, sender, outgoing, incoming
    <3>3. FreshInv' /\ ~Returned(rcv')
      BY <3>1, Zenon DEF FreshInv, Returned
    <3> QED BY <3>1, <3>2, <3>3, ReceiverTyped, SenderUntouched, Zenon
  <2> QED BY <2>2, <2>3, Zenon
<1>2. CASE Rename
  <2>1. /\ final' = part /\ part' = {} /\ rcv' = "renamed"
        /\ UNCHANGED <<attempt, csize, resume, snd, skip, next, nacked,
                       completed, frame, complete, up, ack,
                       received, slots, accepted, inflight, unflushed, wire,
                       frames, finalAck, saved>>
    BY <1>2, Zenon DEF Rename, session, sender, outgoing, incoming, network
  <2>2. FreshInv' /\ ~Returned(rcv')
    BY <1>0, <2>1, Zenon DEF FreshInv, Returned
  <2> QED BY <2>1, <2>2, NoFile, ReceiverTyped, SenderUntouched, Zenon
<1>3. CASE RemoveState
  BY <1>0, <1>3, ReturnKeeps, Zenon DEF RemoveState
<1>4. CASE ReceiverFails
  <2>1. Content \cup unflushed \in SUBSET Units
    BY <1>0, Zenon
  <2>2. /\ part' = {Content \cup unflushed} /\ ReceiverReturns("err")
        /\ UNCHANGED <<session, sender, ack, complete, finalAck, saved, final>>
    BY <1>4, Zenon DEF ReceiverFails
  <2> QED BY <1>0, <2>1, <2>2, OneFile, ReturnKeeps, Zenon
<1>5. CASE ReceiverKilled
  <2>1. /\ part' \in {part, {u \cup unflushed : u \in part}}
        /\ saved' \in {saved, {}}
        /\ ReceiverReturns("err")
        /\ UNCHANGED <<session, sender, ack, complete, finalAck, final>>
    BY <1>5, Zenon DEF ReceiverKilled
  <2> DEFINE P == {u \cup unflushed : u \in part}
             f == [u \in part |-> u \cup unflushed]
  <2>2. P \subseteq SUBSET Units
    BY <1>0
  <2>3. f \in Surjection(part, P)
    BY Zenon DEF Surjection
  <2>4. IsFiniteSet(part)
    <3>1. 0 \in Int /\ Size - 1 \in Int
      BY TransferAssumption
    <3>2. IsFiniteSet(Units)
      BY <3>1, FS_Interval, Zenon DEF Units
    <3>3. IsFiniteSet(SUBSET Units)
      BY <3>2, FS_SUBSET, Zenon
    <3> QED BY <1>0, <3>3, FS_Subset, Zenon
  <2> HIDE DEF P, f
  <2>5. Cardinality(P) <= 1
    BY <1>0, <2>3, <2>4, FS_Surjection, FS_CardinalityType, SMTT(30)
  <2>6. part' \subseteq SUBSET Units /\ Cardinality(part') <= 1
    BY <1>0, <2>1, <2>2, <2>5, Zenon DEF P
  <2> QED BY <1>0, <2>1, <2>6, ReturnKeeps, Zenon
<1> QED BY <1>1, <1>2, <1>3, <1>4, <1>5, Zenon

\* A packet is accepted from the wire, ingested or lost.
LEMMA TakingKeeps ==
    ASSUME TransferInv,
           \/ \E copy \in wire : AcceptStream(copy) \/ IngestDatagram(copy)
                \/ DatagramLost(copy)
           \/ \E copy \in inflight : IngestStream(copy)
    PROVE  TransferInv'
<1>1. ASSUME NEW copy \in wire, AcceptStream(copy)
      PROVE  TransferInv'
  <2>1. /\ rcv = "loop" /\ Cardinality(inflight) < MaxParallel
        /\ accepted < MaxStreams
        /\ wire' = wire \ {copy} /\ inflight' = inflight \cup {copy}
        /\ accepted' = accepted + 1
        /\ UNCHANGED <<attempt, csize, resume, snd, skip, next, nacked,
                       completed, frame, complete, up, ack, rcv,
                       received, slots, unflushed, frames, finalAck, part,
                       saved, final>>
    BY <1>1, Zenon DEF AcceptStream, Receiving, session, sender, outgoing, disk
  <2>2. accepted' \in 0 .. MaxStreams
    BY <2>1, ReceiverTyped, SMTT(30)
  <2>3. /\ IsFiniteSet(inflight') /\ Cardinality(inflight') <= MaxParallel
    <3>1. /\ IsFiniteSet(inflight) /\ Cardinality(inflight) \in Nat
          /\ MaxParallel \in Nat
      BY ReceiverTyped, FS_CardinalityType, TransferAssumption, Zenon
    <3>2. /\ IsFiniteSet(inflight \cup {copy})
          /\ Cardinality(inflight \cup {copy}) = IF copy \in inflight
                  THEN Cardinality(inflight) ELSE Cardinality(inflight) + 1
      BY <3>1, FS_AddElement, Zenon
    <3> QED BY <2>1, <3>1, <3>2
  <2>4. inflight' \subseteq Sent \X {"stream", "dgram"}
    BY <2>1, ReceiverTyped, Zenon
  <2>5. FreshInv' /\ ~Returned(rcv') /\ wire' \subseteq wire
    BY <2>1, FreshStays, ReceiverTyped, Zenon DEF Returned
  <2> QED BY <2>1, <2>2, <2>3, <2>4, <2>5, ReceiverTyped, SenderUntouched, Zenon
<1>2. ASSUME NEW copy \in wire, DatagramLost(copy)
      PROVE  TransferInv'
  <2>1. /\ wire' = wire \ {copy}
        /\ UNCHANGED <<attempt, csize, resume, snd, skip, next, nacked,
                       completed, frame, complete, up, ack, rcv,
                       received, slots, accepted, inflight, unflushed, frames,
                       finalAck, part, saved, final>>
    BY <1>2, Zenon
       DEF DatagramLost, session, sender, receiver, outgoing, incoming, disk
  <2>2. FreshInv' /\ wire' \subseteq wire
    BY <2>1, FreshStays, ReceiverTyped, Zenon
  <2> QED BY <2>1, <2>2, ReceiverTyped, SenderUntouched, Zenon
<1>3. ASSUME NEW copy \in wire \cup inflight, IngestDatagram(copy)
               \/ IngestStream(copy)
      PROVE  TransferInv'
  <2>1. /\ rcv = "loop" /\ Ingest(copy[1]) /\ wire' \subseteq wire
        /\ (inflight' = inflight \ {copy} \/ inflight' = inflight)
        /\ UNCHANGED <<attempt, csize, resume, snd, skip, next, nacked,
                       completed, frame, complete, up, ack, rcv,
                       accepted, finalAck, final>>
    BY <1>3, Zenon
       DEF IngestDatagram, IngestStream, Receiving, session, sender, outgoing
  <2>2. copy[1] \in Sent
    BY ReceiverTyped, Zenon
  <2>3. /\ received' \subseteq Nat /\ saved' \subseteq Nat
        /\ slots' \subseteq Sent
        /\ unflushed' \subseteq Units
        /\ part' \subseteq SUBSET Units /\ Cardinality(part') <= 1
        /\ frames' \in Seq(Told)
        /\ ~resume => /\ received' \subseteq Chunks
                      /\ \A c \in received' :
                           ChunkUnits(c) \subseteq (UNION part') \cup unflushed'
    BY <2>1, <2>2, IngestChunks, Zenon DEF TransferInv
  <2>4. inflight' \subseteq Sent \X {"stream", "dgram"}
          /\ IsFiniteSet(inflight') /\ Cardinality(inflight') <= MaxParallel
    <3>1. inflight' \subseteq inflight /\ IsFiniteSet(inflight)
            /\ Cardinality(inflight) <= MaxParallel
      BY <2>1, ReceiverTyped, Zenon
    <3>2. IsFiniteSet(inflight')
            /\ Cardinality(inflight') <= Cardinality(inflight)
      BY <3>1, FS_Subset, Zenon
    <3>3. Cardinality(inflight) \in Nat /\ Cardinality(inflight') \in Nat
            /\ MaxParallel \in Nat
      BY <3>1, <3>2, FS_CardinalityType, TransferAssumption, Zenon
    <3> QED BY <3>1, <3>2, <3>3, ReceiverTyped, SMTT(30)
  <2>5. FreshInv'
    <3>1. ~resume => finalAck # "failure"
      BY ReceiverTyped, Zenon DEF FreshInv
    <3>2. Chunks' = Chunks
      BY <2>1, SameGeometry, Zenon
    <3>3. \A c : ChunkUnits(c) \subseteq (UNION part') \cup unflushed' =>
            {u \in Units : u \div csize' = c} \subseteq (UNION part') \cup unflushed'
      BY <2>1, Zenon DEF ChunkUnits
    <3> QED BY <2>1, <2>3, <3>1, <3>2, <3>3, Zenon
               DEF FreshInv, ChunkUnits, Units, Content
  <2>6. ~Returned(rcv')
    BY <2>1, Zenon DEF Returned
  <2> QED BY <2>1, <2>3, <2>4, <2>5, <2>6, ReceiverTyped, SenderUntouched, Zenon
<1> QED BY <1>1, <1>2, <1>3, Zenon

\* The connection is lost, or nothing happens.
LEMMA LossKeeps ==
    ASSUME TransferInv, ConnectionLost \/ UNCHANGED vars
    PROVE  TransferInv'
<1>1. /\ up' \in BOOLEAN /\ wire' \subseteq wire /\ frames' \in Seq(Told)
      /\ (frames = <<>> => frames' = <<>>)
      /\ UNCHANGED <<attempt, csize, resume, snd, skip, next, nacked, completed,
                     frame, complete, ack, rcv,
                     received, slots, accepted, inflight, unflushed, finalAck,
                     part, saved, final>>
  <2>1. CASE ConnectionLost
    <3>1. /\ up' = FALSE /\ wire' = {} /\ frames' = <<>>
          /\ UNCHANGED <<session, sender, receiver, complete, finalAck, disk>>
      BY <2>1, Zenon DEF ConnectionLost, Close
    <3>2. <<>> \in Seq(Told)
      OBVIOUS
    <3> QED BY <3>1, <3>2, Zenon
               DEF session, sender, receiver, outgoing, incoming, disk
  <2>2. CASE UNCHANGED vars
    BY <2>2, ReceiverTyped, Zenon
       DEF vars, session, sender, receiver, outgoing, incoming, network, disk
  <2> QED BY <2>1, <2>2, Zenon
<1>2. FreshInv'
  BY <1>1, FreshStays, ReceiverTyped, Zenon
<1> QED BY <1>1, <1>2, ReceiverTyped, SenderUntouched, Zenon

\* Before the first attempt nothing is under way.
LEMMA TransferStarts == Init => TransferInv
<1> SUFFICES ASSUME Init PROVE TransferInv
  BY Zenon
<1>1. csize \in ChunkSizes
  BY Zenon DEF Init
<1>2. NumChunks \in Nat /\ MaxStreams \in Nat
  BY <1>1, GeometryTyped, Zenon
<1>3. IsFiniteSet({}) /\ Cardinality({}) = 0
  BY FS_EmptySet, Zenon
<1>4. MaxParallel \in Nat /\ resume \in BOOLEAN
  BY TransferAssumption, Zenon DEF Init
<1>5. TransferTypeOK
  <2>1. next \in 0 .. NumChunks /\ accepted \in 0 .. MaxStreams
          /\ Cardinality(inflight) <= MaxParallel
    BY <1>2, <1>3, <1>4, SMTT(30) DEF Init
  <2>2. Cardinality(part) <= 1 /\ Cardinality(final) <= 1
    BY <1>3 DEF Init
  <2> QED BY <2>1, <2>2, Zenon DEF Init, TransferTypeOK
<1>6. IndexInv
  BY <1>3, NoFrameTold, NoAckTyped DEF Init, IndexInv
<1>7. FreshInv
  BY Zenon DEF Init, FreshInv
<1> QED BY <1>5, <1>6, <1>7, Zenon DEF TransferInv

\* The invariant holds of every transfer.
LEMMA TransferInvariant == Spec => []TransferInv
<1>1. TransferInv /\ [Next]_vars => TransferInv'
  BY ManifestKeeps, SenderKeeps, AcceptManifestKeeps, FlushFileKeeps,
     EndingKeeps, TakingKeeps, LossKeeps, Zenon
     DEF Next, ReceiverStep
<1> QED BY <1>1, TransferStarts, PTL DEF Spec

\* TransferTypeOK for every file size, chunk size, shard count, batch size and
\* stream limit: among them that the streams accepted stay within max_streams,
\* the receive tasks within max_parallel_receives, and that there is at most
\* one partial and one final file.
THEOREM TransferIsTyped == Spec => []TransferTypeOK
<1>1. TransferInv => TransferTypeOK
  BY Zenon DEF TransferInv
<1> QED BY <1>1, TransferInvariant, PTL

\* A transfer that begins without resume is never answered with a hash
\* mismatch, whatever is lost, duplicated, reordered or rebuilt from parity on
\* the way: what accept_transfer counts as received has been written when it
\* verifies.
THEOREM FreshNeverRejected == Spec => []FreshIsNeverRejected
<1>1. TransferInv => FreshIsNeverRejected
  BY Zenon DEF TransferInv, FreshInv, FreshIsNeverRejected
<1> QED BY <1>1, TransferInvariant, PTL
=============================================================================
