---------------------------- MODULE DaemonProofs ----------------------------
(***************************************************************************)
(* Proofs about the daemon, for every number of transfers, calls, workers  *)
(* and permits. First its memory: DaemonScheduler is type correct, never   *)
(* loses a queued transfer, and its permits are accounted for. Then its    *)
(* disk: across any number of crashes and failed writes the same holds of  *)
(* DaemonRecovery, no completion is invented, and no accepted transfer is  *)
(* forgotten.                                                              *)
(***************************************************************************)
EXTENDS DaemonRecovery, FiniteSetTheorems, TLAPS

\* The value of an unset id is an id.
LEMMA AnyIdType == AnyId \in Ids
  BY ConstantsAssumption, Zenon DEF AnyId

\* The values of the unset locals are of their types.
LEMMA LocalsType == NoEntry \in Entry /\ NoRequest \in Request
  BY AnyIdType DEF NoEntry, NoRequest, Entry, Request, Priority, Status

\* A clamped priority is a priority.
LEMMA ClampType == \A p \in 0..255 : Clamp(p) \in Priority
  BY DEF Clamp, Priority

\* Clamping twice is clamping once.
LEMMA ClampIdempotent == \A p \in Priority : Clamp(p) = p
  BY DEF Clamp, Priority

(***************************************************************************)
(* Type correctness: every action keeps every variable in its type.        *)
(***************************************************************************)
LEMMA InitType == Init => TypeOK
  BY AnyIdType, LocalsType, ConstantsAssumption
  DEF Init, TypeOK, Status, Priority, SchedulerPc, WorkerPc, ClientPc

\* A step of an API call keeps the types.
LEMMA ClientType ==
  ASSUME TypeOK, NEW c \in Clients, ClientNext(c)
  PROVE  TypeOK'
  <1> USE DEF TypeOK, records, scheduler, workers
  <1>1. ASSUME NEW i \in Ids, NEW p \in RequestPriority, Submit(c, i, p)
        PROVE  TypeOK'
    <2>1. Clamp(p) \in Priority
      BY ClampType, ConstantsAssumption, Zenon
    <2> QED
      BY <1>1, <2>1 DEF Submit, Call, Request, Priority, Status, ClientPc
  <1>2. ASSUME InsertChannel(c) PROVE TypeOK'
    BY <1>2, Zenon DEF InsertChannel, Request, ClientPc
  <1>3. ASSUME Enqueue(c) PROVE TypeOK'
    BY <1>3 DEF Enqueue, Request, ClientPc, Entry, Priority, Clamp
  <1>4. ASSUME NEW i \in Ids, Cancel(c, i) PROVE TypeOK'
    BY <1>4 DEF Cancel, Call, Request, Status, ClientPc
  <1>5. ASSUME Signal(c) PROVE TypeOK'
    BY <1>5, Zenon DEF Signal, ClientPc, Request
  <1>6. ASSUME NEW i \in Ids, NEW p \in RequestPriority,
               UpdatePriority(c, i, p)
        PROVE  TypeOK'
    <2>1. Clamp(p) \in Priority
      BY ClampType, ConstantsAssumption, Zenon
    <2> QED
      BY <1>6, <2>1
      DEF UpdatePriority, Call, Request, Priority, Status, ClientPc
  <1>7. ASSUME Journal(c) PROVE TypeOK'
    BY <1>7, LocalsType, Zenon DEF Journal, ClientPc
  <1> QED
    BY <1>1, <1>2, <1>3, <1>4, <1>5, <1>6, <1>7, Zenon DEF ClientNext

\* A step of the scheduler loop keeps the types.
LEMMA SchedulerType ==
  ASSUME TypeOK, SchedulerNext
  PROVE  TypeOK'
  <1> USE DEF TypeOK, records, workers, clients
  <1>1. ASSUME SchedulerPop PROVE TypeOK'
    BY <1>1, Zenon DEF SchedulerPop, SchedulerPc
  <1>2. ASSUME SchedulerSleep PROVE TypeOK'
    BY <1>2, Zenon DEF SchedulerSleep, daemonVars
  <1>3. ASSUME SchedulerCheck PROVE TypeOK'
    BY <1>3, LocalsType, Zenon DEF SchedulerCheck, SchedulerPc
  <1>4. ASSUME NEW w \in Workers, SchedulerSpawn(w) PROVE TypeOK'
    BY <1>4, LocalsType DEF SchedulerSpawn, SchedulerPc, WorkerPc, Entry
  <1> QED
    BY <1>1, <1>2, <1>3, <1>4, Zenon DEF SchedulerNext

\* A step of a worker keeps the types.
LEMMA WorkerType ==
  ASSUME TypeOK, NEW w \in Workers, WorkerNext(w)
  PROVE  TypeOK'
  <1> USE DEF TypeOK, records, scheduler, clients, Goto, WorkerPc
  <1>1. ASSUME WorkerStart(w) PROVE TypeOK'
    BY <1>1, AnyIdType DEF WorkerStart, Exit, Status
  <1>2. ASSUME WorkerJournal(w) PROVE TypeOK'
    BY <1>2, Zenon DEF WorkerJournal
  <1>3. ASSUME Subscribe(w) PROVE TypeOK'
    BY <1>3, Zenon DEF Subscribe
  <1>4. ASSUME JobBegin(w) PROVE TypeOK'
    BY <1>4, Zenon DEF JobBegin
  <1>5. ASSUME JobDropped(w) PROVE TypeOK'
    BY <1>5, Zenon DEF JobDropped
  <1>6. ASSUME CopySeesCancel(w) PROVE TypeOK'
    BY <1>6, Zenon DEF CopySeesCancel
  <1>7. ASSUME ReceiveDone(w) PROVE TypeOK'
    BY <1>7, Zenon DEF ReceiveDone
  <1>8. ASSUME JobCompletes(w) PROVE TypeOK'
    BY <1>8, Zenon DEF JobCompletes, Status
  <1>9. ASSUME JobErrs(w) PROVE TypeOK'
    BY <1>9, Zenon DEF JobErrs
  <1>10. ASSUME RecordFailure(w) PROVE TypeOK'
    BY <1>10, Zenon DEF RecordFailure, Status
  <1>11. ASSUME WorkerEnd(w) PROVE TypeOK'
    BY <1>11, AnyIdType DEF WorkerEnd, Exit
  <1> QED
    BY <1>1, <1>2, <1>3, <1>4, <1>5, <1>6, <1>7, <1>8, <1>9, <1>10, <1>11, Zenon
    DEF WorkerNext

\* Every step keeps the types.
LEMMA StepType == TypeOK /\ [Next]_daemonVars => TypeOK'
  <1> SUFFICES ASSUME TypeOK, [Next]_daemonVars PROVE TypeOK'
    BY Zenon
  <1>1. CASE UNCHANGED daemonVars
    BY <1>1, Zenon DEF TypeOK, daemonVars
  <1>2. CASE Next
    BY <1>2, ClientType, SchedulerType, WorkerType, Zenon DEF Next
  <1> QED
    BY <1>1, <1>2, Zenon

(* Every reachable state of the daemon is well typed; in particular every  *)
(* priority that reaches a record or the heap has been clamped to 1..10.   *)
THEOREM TypeCorrect == Spec => []TypeOK
  BY InitType, StepType, PTL DEF Spec

(***************************************************************************)
(* No queued transfer is lost.  NoLostQueued is inductive with TypeOK: a   *)
(* record becomes Queued, or changes its priority while Queued, only in a  *)
(* handler that then enqueues it with that priority; and whatever consumes *)
(* one form of Carried produces the next one or takes the record out of    *)
(* Queued.                                                                 *)
(***************************************************************************)
LEMMA ClientKeepsQueued ==
  ASSUME TypeOK, NoLostQueued, NEW c \in Clients, ClientNext(c)
  PROVE  NoLostQueued'
  <1> USE DEF TypeOK, records, scheduler, workers
  <1>1. ASSUME NEW i \in Ids, NEW p \in RequestPriority, Submit(c, i, p)
        PROVE  NoLostQueued'
    <2> SUFFICES ASSUME NEW j \in Ids, status'[j] = "Queued" PROVE Carried(j)'
      BY Zenon DEF NoLostQueued
    <2>1. CASE j = i
      BY <1>1, <2>1, Zenon DEF Submit, Call, Carried
    <2>2. CASE j # i
      <3>1. Carried(j)
        BY <1>1, <2>2, Zenon DEF Submit, NoLostQueued
      <3> QED
        BY <1>1, <2>2, <3>1, Zenon DEF Submit, Call, Carried
    <2> QED
      BY <2>1, <2>2, Zenon
  <1>2. ASSUME InsertChannel(c) PROVE NoLostQueued'
    BY <1>2 DEF InsertChannel, NoLostQueued, Carried
  <1>3. ASSUME Enqueue(c) PROVE NoLostQueued'
    <2> SUFFICES ASSUME NEW j \in Ids, status'[j] = "Queued" PROVE Carried(j)'
      BY Zenon DEF NoLostQueued
    <2>1. Carried(j)
      BY <1>3, Zenon DEF Enqueue, NoLostQueued
    <2>2. prio'[j] = prio[j] /\ prio[j] \in Priority
      BY <1>3, Zenon DEF Enqueue
    <2>3. CASE creq[c].id = j /\ creq[c].prio = prio[j]
      <3> DEFINE e == [prio |-> Clamp(creq[c].prio), seq |-> seq + 1,
                       id |-> creq[c].id]
      <3>1. e.prio = prio[j]
        BY <2>2, <2>3, ClampIdempotent, Zenon
      <3>2. e \in queue'
        BY <1>3, Zenon DEF Enqueue
      <3>3. e.id = j
        BY <2>3, Zenon
      <3> HIDE DEF e
      <3> QED
        BY <2>2, <3>1, <3>2, <3>3, Zenon DEF Carried
    <2>4. CASE ~(creq[c].id = j /\ creq[c].prio = prio[j])
      BY <1>3, <2>1, <2>2, <2>4, Zenon DEF Enqueue, Carried
    <2> QED
      BY <2>3, <2>4, Zenon
  <1>4. ASSUME NEW i \in Ids, Cancel(c, i) PROVE NoLostQueued'
    BY <1>4 DEF Cancel, Call, NoLostQueued, Carried
  <1>5. ASSUME Signal(c) PROVE NoLostQueued'
    BY <1>5 DEF Signal, NoLostQueued, Carried
  <1>6. ASSUME NEW i \in Ids, NEW p \in RequestPriority,
               UpdatePriority(c, i, p)
        PROVE  NoLostQueued'
    <2> SUFFICES ASSUME NEW j \in Ids, status'[j] = "Queued" PROVE Carried(j)'
      BY Zenon DEF NoLostQueued
    <2>1. CASE j = i
      BY <1>6, <2>1, Zenon DEF UpdatePriority, Call, Carried
    <2>2. CASE j # i
      <3>1. Carried(j)
        BY <1>6, <2>2, Zenon DEF UpdatePriority, NoLostQueued
      <3> QED
        BY <1>6, <2>2, <3>1, Zenon DEF UpdatePriority, Call, Carried
    <2> QED
      BY <2>1, <2>2, Zenon
  <1>7. ASSUME Journal(c) PROVE NoLostQueued'
    BY <1>7 DEF Journal, NoLostQueued, Carried
  <1> QED
    BY <1>1, <1>2, <1>3, <1>4, <1>5, <1>6, <1>7, Zenon DEF ClientNext

\* A step of the scheduler loop loses no queued transfer.
LEMMA SchedulerKeepsQueued ==
  ASSUME TypeOK, NoLostQueued, SchedulerNext
  PROVE  NoLostQueued'
  <1> USE DEF TypeOK, records, workers, clients, NoLostQueued, Carried
  <1>1. ASSUME SchedulerPop PROVE NoLostQueued'
    BY <1>1, SMTT(30) DEF SchedulerPop
  <1>2. ASSUME SchedulerSleep PROVE NoLostQueued'
    BY <1>2 DEF SchedulerSleep, daemonVars
  <1>3. ASSUME SchedulerCheck PROVE NoLostQueued'
    BY <1>3 DEF SchedulerCheck
  <1>4. ASSUME NEW w \in Workers, SchedulerSpawn(w) PROVE NoLostQueued'
    BY <1>4 DEF SchedulerSpawn
  <1> QED
    BY <1>1, <1>2, <1>3, <1>4, Zenon DEF SchedulerNext

\* A step of a worker loses no queued transfer.
LEMMA WorkerKeepsQueued ==
  ASSUME TypeOK, NoLostQueued, NEW w \in Workers, WorkerNext(w)
  PROVE  NoLostQueued'
  <1> USE DEF TypeOK, records, scheduler, clients, Goto, Exit,
              NoLostQueued, Carried
  <1>1. ASSUME WorkerStart(w) PROVE NoLostQueued'
    BY <1>1 DEF WorkerStart
  <1>2. ASSUME WorkerJournal(w) PROVE NoLostQueued'
    BY <1>2 DEF WorkerJournal
  <1>3. ASSUME Subscribe(w) PROVE NoLostQueued'
    BY <1>3 DEF Subscribe
  <1>4. ASSUME JobBegin(w) PROVE NoLostQueued'
    BY <1>4 DEF JobBegin
  <1>5. ASSUME JobDropped(w) PROVE NoLostQueued'
    BY <1>5 DEF JobDropped
  <1>6. ASSUME CopySeesCancel(w) PROVE NoLostQueued'
    BY <1>6 DEF CopySeesCancel
  <1>7. ASSUME ReceiveDone(w) PROVE NoLostQueued'
    BY <1>7 DEF ReceiveDone
  <1>8. ASSUME JobCompletes(w) PROVE NoLostQueued'
    BY <1>8 DEF JobCompletes
  <1>9. ASSUME JobErrs(w) PROVE NoLostQueued'
    BY <1>9 DEF JobErrs
  <1>10. ASSUME RecordFailure(w) PROVE NoLostQueued'
    BY <1>10 DEF RecordFailure
  <1>11. ASSUME WorkerEnd(w) PROVE NoLostQueued'
    BY <1>11 DEF WorkerEnd
  <1> QED
    BY <1>1, <1>2, <1>3, <1>4, <1>5, <1>6, <1>7, <1>8, <1>9, <1>10, <1>11, Zenon
    DEF WorkerNext

(* For any number of concurrent calls, workers and permits, every record   *)
(* with status Queued has a live queue entry, a handler about to push one, *)
(* or a scheduler or worker already committed to it.                       *)
THEOREM QueuedNeverLost == Spec => []NoLostQueued
  <1>1. Init => NoLostQueued
    BY Zenon DEF Init, NoLostQueued
  <1>2. TypeOK /\ NoLostQueued /\ [Next]_daemonVars => NoLostQueued'
    <2> SUFFICES ASSUME TypeOK, NoLostQueued, [Next]_daemonVars
                 PROVE  NoLostQueued'
      BY Zenon
    <2>1. CASE UNCHANGED daemonVars
      BY <2>1, Zenon DEF NoLostQueued, Carried, daemonVars
    <2>2. CASE Next
      BY <2>2, ClientKeepsQueued, SchedulerKeepsQueued, WorkerKeepsQueued, Zenon
      DEF Next
    <2> QED
      BY <2>1, <2>2, Zenon
  <1> QED
    BY <1>1, <1>2, TypeCorrect, PTL DEF Spec

(***************************************************************************)
(* The permits.  Busy gains one worker where a permit is taken             *)
(* (SchedulerSpawn), loses one where it is returned (Exit), and no other   *)
(* step moves a worker into or out of idle.                                *)
(***************************************************************************)
LEMMA BusyFinite == IsFiniteSet(Busy) /\ Cardinality(Busy) \in Nat
  <1>1. IsFiniteSet(Busy)
    BY ConstantsAssumption, FS_Subset, Zenon DEF Busy
  <1> QED
    BY <1>1, FS_CardinalityType, Zenon

\* A worker that is spawned is one more busy worker.
LEMMA SpawnAddsBusy ==
  ASSUME TypeOK, NEW w \in Workers, SchedulerSpawn(w)
  PROVE  Cardinality(Busy') = Cardinality(Busy) + 1
  <1>1. Busy' = Busy \cup {w}
    BY Zenon DEF SchedulerSpawn, Busy, TypeOK
  <1>2. w \notin Busy
    BY Zenon DEF SchedulerSpawn, Busy
  <1> QED
    BY <1>1, <1>2, BusyFinite, FS_AddElement, Zenon

\* A worker that ends is one busy worker less.
LEMMA ExitRemovesBusy ==
  ASSUME TypeOK, NEW w \in Workers, wpc[w] # "idle", Exit(w)
  PROVE  Cardinality(Busy') = Cardinality(Busy) - 1
  <1>1. Busy' = Busy \ {w}
    BY Zenon DEF Exit, Busy, TypeOK
  <1>2. w \in Busy
    BY Zenon DEF Busy
  <1> QED
    BY <1>1, <1>2, BusyFinite, FS_RemoveElement, Zenon

\* A worker that goes on stays busy.
LEMMA GotoKeepsBusy ==
  ASSUME TypeOK, NEW w \in Workers, NEW pc, wpc[w] # "idle", pc # "idle",
         wpc' = [wpc EXCEPT ![w] = pc]
  PROVE  Busy' = Busy
  BY Zenon DEF Busy, TypeOK

\* A step of a worker keeps the account of the permits.
LEMMA WorkerKeepsPermits ==
  ASSUME TypeOK, PermitsAccounted, NEW w \in Workers, WorkerNext(w)
  PROVE  PermitsAccounted'
  <1> USE DEF PermitsAccounted
  <1>1. ASSUME wpc[w] # "idle", Exit(w) PROVE PermitsAccounted'
    <2>1. permits \in Nat /\ permits' = permits + 1
      BY <1>1, Zenon DEF Exit, TypeOK
    <2>2. Cardinality(Busy') = Cardinality(Busy) - 1
      BY <1>1, ExitRemovesBusy, Zenon
    <2> QED
      BY <2>1, <2>2, BusyFinite
  <1>2. ASSUME NEW pc, wpc[w] # "idle", pc # "idle", Goto(w, pc)
        PROVE  PermitsAccounted'
    BY <1>2, GotoKeepsBusy, Zenon DEF Goto
  <1>3. CASE WorkerStart(w)
    BY <1>1, <1>2, <1>3, Zenon DEF WorkerStart
  <1>4. CASE WorkerEnd(w)
    BY <1>1, <1>4, Zenon DEF WorkerEnd
  <1>5. CASE Subscribe(w)
    BY <1>5, GotoKeepsBusy, Zenon DEF Subscribe
  <1>6. CASE WorkerJournal(w)
    BY <1>2, <1>6, Zenon DEF WorkerJournal
  <1>7. CASE JobBegin(w)
    <2>1. (IF status[wid[w]] = "Cancelled" THEN "finish" ELSE "running") # "idle"
      BY Zenon
    <2> QED
      BY <1>2, <1>7, <2>1, Zenon DEF JobBegin
  <1>8. CASE JobDropped(w) \/ CopySeesCancel(w) \/ ReceiveDone(w)
    BY <1>2, <1>8, Zenon DEF JobDropped, CopySeesCancel, ReceiveDone
  <1>9. CASE JobCompletes(w) \/ JobErrs(w) \/ RecordFailure(w)
    BY <1>2, <1>9, Zenon DEF JobCompletes, JobErrs, RecordFailure
  <1> QED
    BY <1>3, <1>4, <1>5, <1>6, <1>7, <1>8, <1>9, Zenon DEF WorkerNext

\* The steps of the other tasks keep the account of the permits.
LEMMA OthersKeepPermits ==
  ASSUME TypeOK, PermitsAccounted,
         SchedulerNext \/ (\E c \in Clients : ClientNext(c))
  PROVE  PermitsAccounted'
  <1>1. ASSUME NEW w \in Workers, SchedulerSpawn(w) PROVE PermitsAccounted'
    <2>1. permits \in Nat /\ permits' = permits - 1
      BY <1>1, Zenon DEF SchedulerSpawn, TypeOK
    <2>2. Cardinality(Busy') = Cardinality(Busy) + 1
      BY <1>1, SpawnAddsBusy, Zenon
    <2> QED
      BY <2>1, <2>2, BusyFinite DEF PermitsAccounted
  <1>2. CASE SchedulerPop \/ SchedulerSleep \/ SchedulerCheck
    BY <1>2, Zenon DEF SchedulerPop, SchedulerSleep, SchedulerCheck, daemonVars,
                workers, PermitsAccounted, Busy
  <1>3. ASSUME NEW c \in Clients, ClientNext(c) PROVE PermitsAccounted'
    BY <1>3, Zenon DEF ClientNext, Submit, InsertChannel, Enqueue, Cancel, Signal,
                UpdatePriority, Journal, workers, PermitsAccounted, Busy
  <1> QED
    BY <1>1, <1>2, <1>3, Zenon DEF SchedulerNext

(* Free permits and live workers add up to max_concurrent_transfers in     *)
(* every reachable state: never more workers than permits, and no permit   *)
(* is leaked on any path through a worker.                                 *)
THEOREM PermitsNeverLeak == Spec => []PermitsAccounted
  <1>1. Init => PermitsAccounted
    <2> SUFFICES ASSUME Init PROVE PermitsAccounted
      BY Zenon
    <2>1. Busy = {}
      BY Zenon DEF Init, Busy
    <2> QED
      BY <2>1, FS_EmptySet, ConstantsAssumption DEF Init, PermitsAccounted
  <1>2. TypeOK /\ PermitsAccounted /\ [Next]_daemonVars => PermitsAccounted'
    <2> SUFFICES ASSUME TypeOK, PermitsAccounted, [Next]_daemonVars
                 PROVE  PermitsAccounted'
      BY Zenon
    <2>1. CASE UNCHANGED daemonVars
      BY <2>1, Zenon DEF PermitsAccounted, Busy, daemonVars
    <2>2. CASE Next
      BY <2>2, WorkerKeepsPermits, OthersKeepPermits, Zenon DEF Next
    <2> QED
      BY <2>1, <2>2, Zenon
  <1> QED
    BY <1>1, <1>2, TypeCorrect, PTL DEF Spec

-----------------------------------------------------------------------------
(***************************************************************************)
(* Proofs about the daemon with its disk, for every number of transfers,   *)
(* calls, workers, failed writes and crashes.  A step of DaemonRecovery is *)
(* a step of DaemonScheduler, leaves its variables alone, or is a restart: *)
(* the lemmas about DaemonScheduler carry over, and only the restart and   *)
(* the disk are new.                                                       *)
(***************************************************************************)

\* A step of the durable daemon is one of its memory, or a restart.
LEMMA NextOrRestart == RecoveryNext => [Next]_daemonVars \/ Restart
  <1> SUFFICES ASSUME RecoveryNext PROVE [Next]_daemonVars \/ Restart
    BY Zenon
  <1>1. CASE MemoryStep
    BY <1>1, Zenon DEF MemoryStep, Next, ClientNext, WorkerNext
  <1>2. ASSUME NEW c \in Clients, ClientAppend(c) \/ ClientClone(c) \/ ClientPublish(c)
        PROVE  [Next]_daemonVars
    BY <1>2, Zenon DEF ClientAppend, ClientClone, Clone, ClientPublish, Next, ClientNext
  <1>3. ASSUME NEW w \in Workers,
               \/ WorkerAppend(w) \/ WorkerClone(w) \/ WorkerPublish(w)
               \/ JobCompletesLogged(w) \/ JobDroppedCompleting(w)
               \/ ReceiveDoneLogged(w) \/ RecordFailureLogged(w) \/ SpawnProgress(w)
        PROVE  [Next]_daemonVars
    BY <1>3, Zenon DEF WorkerAppend, WorkerClone, Clone, WorkerPublish, JobCompletesLogged,
                JobDroppedCompleting, ReceiveDoneLogged, RecordFailureLogged,
                SpawnProgress, Next, WorkerNext
  <1>4. ASSUME NEW i \in Ids, LateProgress(i) PROVE [Next]_daemonVars
    BY <1>4, Zenon DEF LateProgress
  <1> QED
    BY <1>1, <1>2, <1>3, <1>4, Zenon DEF RecoveryNext

(***************************************************************************)
(* Types.  A record of a snapshot has a priority in 1..10, which the type  *)
(* of the disk does not say.                                               *)
(***************************************************************************)
SnapshotOK(s) == \A i \in Ids : s[i].status # "absent" => s[i].prio \in Priority

DiskOK ==
  /\ RecoveryTypeOK
  /\ SnapshotOK(snap)
  /\ \A t \in Tasks : SnapshotOK(image[t])

\* An empty file is a snapshot.
LEMMA NothingType == Nothing \in [Ids -> DiskRecord] /\ SnapshotOK(Nothing)
  BY DEF Nothing, DiskRecord, Status, SnapshotOK

\* What is recovered from disk is of the type of the transfers in memory.
LEMMA RecoveredType ==
  ASSUME DiskOK, NEW i \in Ids
  PROVE  Recovered(i).status \in Status /\ Recovered(i).prio \in Priority
  BY DEF DiskOK, RecoveryTypeOK, DiskRecord, SnapshotOK, Recovered, Status, Priority

(* The types the later proofs need, one fact at a time *)
LEMMA Typed ==
  ASSUME DiskOK
  PROVE  /\ TypeOK
         /\ log \in [Ids -> DiskRecord]
         /\ snap \in [Ids -> DiskRecord]
         /\ io \in [Tasks -> {"start", "appended", "imaged"}]
         /\ image \in [Tasks -> [Ids -> DiskRecord]]
  BY Zenon DEF DiskOK, RecoveryTypeOK

\* The types of memory that the later proofs need, one fact at a time.
LEMMA TypedMemory ==
  ASSUME TypeOK
  PROVE  /\ status \in [Ids -> Status]
         /\ wpc \in [Workers -> WorkerPc]
         /\ wid \in [Workers -> Ids]
         /\ cpc \in [Clients -> ClientPc]
         /\ creq \in [Clients -> Request]
         /\ \A c \in Clients : creq[c].id \in Ids
         /\ \A e \in queue : e.id \in Ids
         /\ held.id \in Ids
  BY Zenon DEF TypeOK, Request, Entry

(* The queue a restart rebuilds *)
Requeued == {i \in Ids : Recovered(i).status = "Queued"}

\* A restart queues every recovered transfer that is not at its end.
LEMMA RestartQueue ==
  ASSUME Restart
  PROVE  /\ seq' = Cardinality(Requeued)
         /\ \E order \in [Requeued -> 1..Cardinality(Requeued)] :
              queue' = {[prio |-> Recovered(i).prio, seq |-> order[i], id |-> i] :
                          i \in Requeued}
  <1>1. PushAll(Requeued)
    BY Zenon DEF Restart, Requeue, Requeued
  <1> HIDE DEF Requeued
  <1> QED
    BY <1>1, Zenon DEF PushAll

\* A restart leaves a memory of the right types.
LEMMA RestartTypeOK == ASSUME DiskOK, Restart PROVE TypeOK'
  <1> USE DEF DiskOK, RecoveryTypeOK, TypeOK
  <1>1. status' \in [Ids -> Status] /\ prio' \in [Ids -> Priority]
    BY RecoveredType, Zenon DEF Restart
  <1>2. queue' \in SUBSET Entry /\ seq' \in Nat
    <2>1. IsFiniteSet(Requeued)
      BY RecoveryAssumption, FS_Subset, Zenon DEF Requeued
    <2>2. Cardinality(Requeued) \in Nat
      BY <2>1, FS_CardinalityType, Zenon
    <2>3. PICK order \in [Requeued -> 1..Cardinality(Requeued)] :
            queue' = {[prio |-> Recovered(i).prio, seq |-> order[i], id |-> i] :
                        i \in Requeued}
      BY RestartQueue, Zenon
    <2>4. ASSUME NEW i \in Requeued
          PROVE  [prio |-> Recovered(i).prio, seq |-> order[i], id |-> i] \in Entry
      <3>1. order[i] \in Nat
        BY <2>2, <2>3
      <3> QED
        BY <3>1, RecoveredType, Zenon DEF Entry, Requeued
    <2> QED
      BY <2>2, <2>3, <2>4, RestartQueue, Zenon
  <1>3. chan' \in [Ids -> {"none", "false", "true"}]
    BY Zenon DEF Restart
  <1>4. schedPc' \in SchedulerPc /\ held' \in Entry /\ permits' \in Nat
    BY LocalsType, ConstantsAssumption, Zenon DEF Restart, SchedulerPc
  <1>5. /\ wpc' \in [Workers -> WorkerPc]
        /\ wid' \in [Workers -> Ids]
        /\ rx' \in [Workers -> {"none", "open", "closed"}]
    BY AnyIdType, Zenon DEF Restart, WorkerPc
  <1>6. /\ cpc' \in [Clients -> ClientPc]
        /\ creq' \in [Clients -> Request]
        /\ calls' \in Nat
    BY LocalsType, Zenon DEF Restart, ClientPc
  <1> QED
    BY <1>1, <1>2, <1>3, <1>4, <1>5, <1>6, Zenon

\* Appending to the journal keeps the types of the disk.
LEMMA AppendType ==
  ASSUME DiskOK, NEW i \in Ids, NEW st \in Status, NEW p \in 0..10, Append(i, st, p)
  PROVE  /\ log' \in [Ids -> DiskRecord]
         /\ faults' \in Nat
         /\ lost' \in SUBSET Ids
  <1> DEFINE new == [status |-> st, prio |-> IF p = 0 THEN log[i].prio ELSE p]
  <1> USE DEF DiskOK, RecoveryTypeOK
  <1>1. new \in DiskRecord
    BY Zenon DEF DiskRecord
  <1>2. log' = [log EXCEPT ![i] = new] \/ log' = log
    BY Zenon DEF Append
  <1> HIDE DEF new
  <1>3. log' \in [Ids -> DiskRecord]
    BY <1>1, <1>2, Zenon
  <1> QED
    BY <1>3 DEF Append, Fault

(* The disk half of DiskOK *)
DiskTypes ==
  /\ log \in [Ids -> DiskRecord]
  /\ snap \in [Ids -> DiskRecord]
  /\ io \in [Tasks -> {"start", "appended", "imaged"}]
  /\ image \in [Tasks -> [Ids -> DiskRecord]]
  /\ late \in [Ids -> Nat]
  /\ faults \in Nat
  /\ lost \in SUBSET Ids
  /\ done \in SUBSET Ids
  /\ crashes \in Nat
  /\ SnapshotOK(snap)
  /\ \A t \in Tasks : SnapshotOK(image[t])

\* Cloning the state for a snapshot keeps the types of the disk.
LEMMA CloneTypes ==
  ASSUME DiskOK, NEW t \in Tasks, NEW from, Clone(t, from)
  PROVE  DiskTypes'
  <1> USE DEF DiskOK, RecoveryTypeOK
  <1> DEFINE now == [i \in Ids |-> [status |-> status[i], prio |-> prio[i]]]
  <1>1. now \in [Ids -> DiskRecord] /\ SnapshotOK(now)
    BY DEF TypeOK, DiskRecord, Priority, SnapshotOK
  <1>2. image' = [image EXCEPT ![t] = now]
    BY Zenon DEF Clone
  <1> HIDE DEF now
  <1>3. /\ image' \in [Tasks -> [Ids -> DiskRecord]]
        /\ \A u \in Tasks : SnapshotOK(image'[u])
    BY <1>1, <1>2, Zenon
  <1> QED
    <2>1. /\ UNCHANGED <<log, snap, late, faults, lost, done, crashes>>
          /\ io' \in [Tasks -> {"start", "appended", "imaged"}]
      BY Zenon DEF Clone
    <2> QED
      BY <1>3, <2>1, Zenon DEF DiskTypes, SnapshotOK

\* Publishing a snapshot keeps the types of the disk.
LEMMA PublishTypes ==
  ASSUME DiskOK, NEW t \in Tasks, Publish(t)
  PROVE  DiskTypes'
  <1> USE DEF DiskOK, RecoveryTypeOK
  <1>1. snap' \in [Ids -> DiskRecord] /\ SnapshotOK(snap')
    BY Zenon DEF Publish
  <1>2. /\ image' \in [Tasks -> [Ids -> DiskRecord]]
        /\ \A u \in Tasks : SnapshotOK(image'[u])
    BY NothingType, Zenon DEF Publish
  <1> QED
    BY <1>1, <1>2 DEF Publish, Fault, DiskTypes, SnapshotOK

\* Every step keeps the types of the disk.
LEMMA StepDiskTypes == ASSUME DiskOK, RecoveryNext PROVE DiskTypes'
  <1> USE DEF DiskOK, RecoveryTypeOK
  <1>1. CASE MemoryStep
    BY <1>1, Zenon DEF MemoryStep, diskVars, DiskTypes, SnapshotOK
  <1>2. ASSUME NEW c \in Clients PROVE c \in Tasks
    BY Zenon DEF Tasks
  <1>3. ASSUME NEW w \in Workers PROVE w \in Tasks /\ wid[w] \in Ids
    BY Zenon DEF Tasks, TypeOK
  <1>4. ASSUME NEW c \in Clients, ClientAppend(c) PROVE DiskTypes'
    <2>1. creq[c].id \in Ids /\ creq[c].status \in Status /\ creq[c].prio \in 0..10
      BY Zenon DEF TypeOK, Request
    <2>2. log' \in [Ids -> DiskRecord] /\ faults' \in Nat /\ lost' \in SUBSET Ids
      BY <1>4, <2>1, AppendType, Zenon DEF ClientAppend
    <2> QED
      BY <1>2, <1>4, <2>2, Zenon DEF ClientAppend, DiskTypes, SnapshotOK
  <1>5. ASSUME NEW w \in Workers, NEW st \in Status, Append(wid[w], st, 0)
        PROVE  log' \in [Ids -> DiskRecord] /\ faults' \in Nat /\ lost' \in SUBSET Ids
    BY <1>3, <1>5, AppendType
  <1>6. ASSUME NEW w \in Workers, WorkerAppend(w) PROVE DiskTypes'
    BY <1>3, <1>5, <1>6, Zenon DEF WorkerAppend, DiskTypes, SnapshotOK, Status
  <1>7. ASSUME NEW w \in Workers, JobCompletesLogged(w) PROVE DiskTypes'
    BY <1>3, <1>5, <1>7, Zenon DEF JobCompletesLogged, DiskTypes, SnapshotOK, Status
  <1>8. ASSUME NEW w \in Workers, JobDroppedCompleting(w) PROVE DiskTypes'
    BY <1>3, <1>8, Zenon DEF JobDroppedCompleting, DiskTypes, SnapshotOK
  <1>9. ASSUME NEW w \in Workers, ReceiveDoneLogged(w) \/ RecordFailureLogged(w)
        PROVE  DiskTypes'
    BY <1>3, <1>5, <1>9, Zenon
    DEF ReceiveDoneLogged, RecordFailureLogged, DiskTypes, SnapshotOK, Status
  <1>10. ASSUME NEW w \in Workers, SpawnProgress(w) PROVE DiskTypes'
    BY <1>3, <1>10 DEF SpawnProgress, DiskTypes, SnapshotOK
  <1>11. ASSUME NEW i \in Ids, LateProgress(i) PROVE DiskTypes'
    <2>1. log' \in [Ids -> DiskRecord] /\ faults' \in Nat /\ lost' \in SUBSET Ids
      BY <1>11, AppendType DEF LateProgress, Status
    <2>2. late' \in [Ids -> Nat]
      BY <1>11 DEF LateProgress
    <2> QED
      BY <1>11, <2>1, <2>2, Zenon DEF LateProgress, DiskTypes, SnapshotOK
  <1>12. CASE Restart
    <2>1. image' \in [Tasks -> [Ids -> DiskRecord]] /\ \A t \in Tasks : SnapshotOK(image'[t])
      BY <1>12, NothingType, Zenon DEF Restart
    <2> QED
      BY <1>12, <2>1 DEF Restart, DiskTypes, SnapshotOK
  <1>13. ASSUME NEW c \in Clients, ClientClone(c) \/ ClientPublish(c) PROVE DiskTypes'
    BY <1>2, <1>13, CloneTypes, PublishTypes, Zenon DEF ClientClone, ClientPublish
  <1>14. ASSUME NEW w \in Workers, WorkerClone(w) \/ WorkerPublish(w) PROVE DiskTypes'
    BY <1>3, <1>14, CloneTypes, PublishTypes, Zenon DEF WorkerClone, WorkerPublish
  <1> QED
    BY <1>1, <1>4, <1>6, <1>7, <1>8, <1>9, <1>10, <1>11, <1>12, <1>13, <1>14, Zenon
    DEF RecoveryNext

\* Every step keeps the types of memory and disk.
LEMMA StepDiskOK == DiskOK /\ [RecoveryNext]_vars => DiskOK'
  <1> SUFFICES ASSUME DiskOK, [RecoveryNext]_vars PROVE DiskOK'
    BY Zenon
  <1>1. CASE UNCHANGED vars
    BY <1>1, Zenon
    DEF DiskOK, RecoveryTypeOK, TypeOK, SnapshotOK, vars, daemonVars, diskVars
  <1>2. CASE RecoveryNext
    <2>1. TypeOK'
      BY <1>2, NextOrRestart, RestartTypeOK, StepType, Zenon DEF DiskOK, RecoveryTypeOK
    <2> QED
      BY <1>2, <2>1, StepDiskTypes, Zenon DEF DiskOK, RecoveryTypeOK, DiskTypes
  <1> QED
    BY <1>1, <1>2, Zenon

\* Memory and disk are always of their types.
LEMMA DiskAlwaysOK == RecoverySpec => []DiskOK
  <1>1. RecoveryInit => DiskOK
    BY InitType, NothingType DEF RecoveryInit, DiskOK, RecoveryTypeOK
  <1> QED
    BY <1>1, StepDiskOK, PTL DEF RecoverySpec

(* Every reachable state of the daemon and its disk is well typed, across  *)
(* any number of crashes: a restart rebuilds a well-typed memory from      *)
(* whatever mixture of event log and snapshot it finds.                    *)
THEOREM RecoveryTypeCorrect == RecoverySpec => []RecoveryTypeOK
  BY DiskAlwaysOK, PTL DEF DiskOK

(***************************************************************************)
(* No queued transfer is lost across restarts: the restart pushes, for     *)
(* every record it leaves Queued, an entry with that record's priority.    *)
(***************************************************************************)
LEMMA RestartKeepsQueued == ASSUME DiskOK, Restart PROVE NoLostQueued'
  <1> SUFFICES ASSUME NEW i \in Ids, status'[i] = "Queued" PROVE Carried(i)'
    BY Zenon DEF NoLostQueued
  <1>1. i \in Requeued /\ prio'[i] = Recovered(i).prio
    BY Zenon DEF Restart, Requeued
  <1>2. PICK order \in [Requeued -> 1..Cardinality(Requeued)] :
          queue' = {[prio |-> Recovered(j).prio, seq |-> order[j], id |-> j] :
                      j \in Requeued}
    BY RestartQueue, Zenon
  <1> DEFINE e == [prio |-> Recovered(i).prio, seq |-> order[i], id |-> i]
  <1>3. e \in queue' /\ e.id = i /\ e.prio = prio'[i]
    BY <1>1, <1>2, Zenon
  <1> HIDE DEF e
  <1> QED
    BY <1>3, Zenon DEF Carried

(* A record with status Queued always has something that brings it to a    *)
(* worker, in every run of the daemon and across restarts: the rebuilt     *)
(* queue covers every record the event log and the snapshot leave Queued.  *)
THEOREM RecoveryNeverLosesQueued == RecoverySpec => []NoLostQueued
  <1>1. RecoveryInit => NoLostQueued
    BY DEF RecoveryInit, Init, NoLostQueued
  <1>2. DiskOK /\ NoLostQueued /\ [RecoveryNext]_vars => NoLostQueued'
    <2> SUFFICES ASSUME DiskOK, NoLostQueued, [RecoveryNext]_vars
                 PROVE  NoLostQueued'
      BY Zenon
    <2>1. TypeOK
      BY Zenon DEF DiskOK, RecoveryTypeOK
    <2>2. CASE UNCHANGED daemonVars
      BY <2>2, Zenon DEF NoLostQueued, Carried, daemonVars
    <2>3. CASE Next
      BY <2>1, <2>3, ClientKeepsQueued, SchedulerKeepsQueued, WorkerKeepsQueued, Zenon
      DEF Next
    <2>4. CASE Restart
      BY <2>4, RestartKeepsQueued, Zenon
    <2> QED
      BY <2>2, <2>3, <2>4, NextOrRestart, Zenon DEF vars
  <1> QED
    BY <1>1, <1>2, DiskAlwaysOK, PTL DEF RecoverySpec

(***************************************************************************)
(* What the calls in flight are about to write: never Completed, and never *)
(* a record without a status.                                              *)
(***************************************************************************)
RequestsOK ==
  \A c \in Clients :
    /\ creq[c].status # "Completed"
    /\ cpc[c] # "idle" => creq[c].status # "absent"

\* No call writes a completion, and none in progress writes an absent transfer.
LEMMA RequestsAlwaysOK == RecoverySpec => []RequestsOK
  <1>1. RecoveryInit => RequestsOK
    BY DEF RecoveryInit, Init, RequestsOK, NoRequest
  <1>2. DiskOK /\ RequestsOK /\ [RecoveryNext]_vars => RequestsOK'
    <2> SUFFICES ASSUME DiskOK, RequestsOK, [RecoveryNext]_vars PROVE RequestsOK'
      BY Zenon
    <2> USE DEF DiskOK, RecoveryTypeOK, TypeOK, RequestsOK
    <2>1. CASE UNCHANGED daemonVars
      BY <2>1, Zenon DEF daemonVars
    <2>2. ASSUME NEW c \in Clients, ClientNext(c) PROVE RequestsOK'
      <3>1. ASSUME NEW i \in Ids, NEW p \in RequestPriority, Submit(c, i, p)
            PROVE  RequestsOK'
        BY <3>1, Zenon DEF Submit, Call
      <3>2. ASSUME NEW i \in Ids, NEW p \in RequestPriority, UpdatePriority(c, i, p)
            PROVE  RequestsOK'
        BY <3>2, Zenon DEF UpdatePriority, Call
      <3>3. ASSUME NEW i \in Ids, Cancel(c, i) PROVE RequestsOK'
        BY <3>3, Zenon DEF Cancel, Call
      <3>4. CASE InsertChannel(c) \/ Enqueue(c) \/ Signal(c)
        BY <3>4, Zenon DEF InsertChannel, Enqueue, Signal
      <3>5. CASE Journal(c)
        BY <3>5, Zenon DEF Journal, NoRequest
      <3> QED
        BY <2>2, <3>1, <3>2, <3>3, <3>4, <3>5, Zenon DEF ClientNext
    <2>3. CASE SchedulerNext
      BY <2>3, Zenon DEF SchedulerNext, SchedulerPop, SchedulerSleep, SchedulerCheck,
                  SchedulerSpawn, clients, daemonVars
    <2>4. ASSUME NEW w \in Workers, WorkerNext(w) PROVE RequestsOK'
      BY <2>4, Zenon DEF WorkerNext, WorkerStart, WorkerJournal, Subscribe, JobBegin,
                  JobDropped, CopySeesCancel, ReceiveDone, JobCompletes, JobErrs,
                  RecordFailure, WorkerEnd, clients
    <2>5. CASE Restart
      BY <2>5, Zenon DEF Restart, NoRequest
    <2> QED
      BY <2>1, <2>2, <2>3, <2>4, <2>5, NextOrRestart, Zenon DEF Next, vars
  <1> QED
    BY <1>1, <1>2, DiskAlwaysOK, PTL DEF RecoverySpec

(***************************************************************************)
(* Completed is never claimed without a finished job.  The claim has to    *)
(* hold of every place a restart could read it from: the log, the snapshot *)
(* and the images on their way to becoming the snapshot.                   *)
(***************************************************************************)
CompletedInv ==
  \A i \in Ids \ done :
    /\ status[i] # "Completed"
    /\ log[i].status # "Completed"
    /\ snap[i].status # "Completed"
    /\ \A t \in Tasks : image[t][i].status # "Completed"

\* A step that is in memory only completes no transfer.
LEMMA MemoryStepCompletes ==
  ASSUME TypeOK, MemoryStep, NEW i \in Ids, status'[i] = "Completed"
  PROVE  status[i] = "Completed"
  <1> USE DEF records
  <1>0. status \in [Ids -> Status]
    BY TypedMemory, Zenon
  <1>1. ASSUME NEW c \in Clients,
               \/ \E j \in Ids, p \in RequestPriority :
                    Submit(c, j, p) \/ UpdatePriority(c, j, p)
               \/ \E j \in Ids : Cancel(c, j)
               \/ InsertChannel(c) \/ Enqueue(c) \/ Signal(c)
        PROVE  status[i] = "Completed"
    <2>1. CASE InsertChannel(c) \/ Enqueue(c) \/ Signal(c)
      BY <2>1, Zenon DEF InsertChannel, Enqueue, Signal
    <2>2. ASSUME NEW j \in Ids, NEW p \in RequestPriority,
                 Submit(c, j, p) \/ UpdatePriority(c, j, p)
          PROVE  status[i] = "Completed"
      BY <1>0, <2>2, Zenon DEF Submit, UpdatePriority
    <2>3. ASSUME NEW j \in Ids, Cancel(c, j) PROVE status[i] = "Completed"
      BY <1>0, <2>3, Zenon DEF Cancel
    <2> QED
      BY <1>1, <2>1, <2>2, <2>3, Zenon
  <1>2. CASE SchedulerNext
    BY <1>2, Zenon DEF SchedulerNext, SchedulerPop, SchedulerSleep, SchedulerCheck,
                SchedulerSpawn, daemonVars
  <1>3. ASSUME NEW w \in Workers,
               \/ WorkerStart(w) \/ Subscribe(w) \/ JobBegin(w) \/ JobDropped(w)
               \/ CopySeesCancel(w) \/ JobErrs(w)
        PROVE  status[i] = "Completed"
    BY <1>0, <1>3, Zenon DEF WorkerStart, Subscribe, JobBegin, JobDropped, CopySeesCancel, JobErrs
  <1> QED
    BY <1>1, <1>2, <1>3, Zenon DEF MemoryStep

(* A step that appends some other status than Completed and copies nothing *)
LEMMA AppendKeepsCompleted ==
  ASSUME DiskOK, CompletedInv, NEW j \in Ids, NEW st \in Status, NEW p \in 0..10,
         Append(j, st, p), st = "Completed" => j \in done', done \subseteq done',
         UNCHANGED <<snap, image>>,
         \A i \in Ids \ done' : status'[i] # "Completed"
  PROVE  CompletedInv'
  <1>1. \A i \in Ids \ done' : log'[i].status # "Completed"
    BY Typed DEF Append, CompletedInv
  <1> QED
    BY <1>1, Zenon DEF CompletedInv

\* Cloning the state invents no completion.
LEMMA CloneKeepsCompleted ==
  ASSUME DiskOK, CompletedInv, NEW t \in Tasks, NEW from, Clone(t, from)
  PROVE  CompletedInv'
  <1> SUFFICES ASSUME NEW i \in Ids \ done, NEW u \in Tasks
               PROVE  /\ status'[i] # "Completed"
                      /\ log'[i].status # "Completed"
                      /\ snap'[i].status # "Completed"
                      /\ image'[u][i].status # "Completed"
    BY Zenon DEF Clone, CompletedInv
  <1>1. status'[i] # "Completed" /\ log'[i].status # "Completed"
        /\ snap'[i].status # "Completed"
    BY Zenon DEF Clone, CompletedInv, daemonVars
  <1>2. image'[u][i].status = (IF u = t THEN status[i] ELSE image[u][i].status)
    BY Typed, Zenon DEF Clone
  <1> QED
    BY <1>1, <1>2, Zenon DEF CompletedInv

\* Publishing a snapshot invents no completion.
LEMMA PublishKeepsCompleted ==
  ASSUME DiskOK, CompletedInv, NEW t \in Tasks, Publish(t), UNCHANGED status
  PROVE  CompletedInv'
  BY Typed, Zenon DEF Publish, CompletedInv, Nothing

\* No step invents a completion.
LEMMA StepCompleted ==
  ASSUME DiskOK, RequestsOK, CompletedInv, RecoveryNext
  PROVE  CompletedInv'
  <1>0. /\ TypeOK
        /\ status \in [Ids -> Status]
        /\ \A w \in Workers : wid[w] \in Ids
        /\ \A i \in Ids \ done : status[i] # "Completed"
    BY Typed, TypedMemory, Zenon DEF CompletedInv
  <1>a. "Active" \in Status /\ "Failed" \in Status /\ "Completed" \in Status /\ 0 \in 0..10
    BY DEF Status
  <1>1. CASE MemoryStep
    BY <1>0, <1>1, MemoryStepCompletes, Zenon DEF MemoryStep, diskVars, CompletedInv
  <1>2. ASSUME NEW c \in Clients, ClientAppend(c) PROVE CompletedInv'
    <2>1. /\ creq[c].id \in Ids
          /\ creq[c].status \in Status \ {"Completed"}
          /\ creq[c].prio \in 0..10
      BY <1>0, Zenon DEF TypeOK, Request, RequestsOK
    <2>2. done' = done /\ status' = status /\ UNCHANGED <<snap, image>>
          /\ Append(creq[c].id, creq[c].status, creq[c].prio)
      BY <1>2, Zenon DEF ClientAppend, daemonVars
    <2> QED
      BY <1>0, <2>1, <2>2, AppendKeepsCompleted, Zenon
  <1>3. ASSUME NEW c \in Clients, ClientClone(c) \/ ClientPublish(c) PROVE CompletedInv'
    BY <1>3, CloneKeepsCompleted, PublishKeepsCompleted, Zenon
    DEF ClientClone, ClientPublish, Journal, records, Tasks
  <1>4. ASSUME NEW w \in Workers, WorkerClone(w) \/ WorkerPublish(w) PROVE CompletedInv'
    BY <1>4, CloneKeepsCompleted, PublishKeepsCompleted, Zenon
    DEF WorkerClone, WorkerPublish, WorkerJournal, WorkerEnd, records, Tasks
  <1>5. ASSUME NEW w \in Workers, WorkerAppend(w) PROVE CompletedInv'
    <2>1. wid[w] \in Ids /\ done' = done /\ status' = status
          /\ UNCHANGED <<snap, image>> /\ Append(wid[w], "Active", 0)
      BY <1>0, <1>5, Zenon DEF WorkerAppend, daemonVars
    <2> QED
      BY <1>0, <1>a, <2>1, AppendKeepsCompleted, Zenon
  <1>6. ASSUME NEW w \in Workers, JobCompletes(w), done' = done \cup {wid[w]}
        PROVE  wid[w] \in Ids /\ \A i \in Ids \ done' : status'[i] # "Completed"
    BY <1>0, <1>6, Zenon DEF JobCompletes
  <1>7. ASSUME NEW w \in Workers, JobCompletesLogged(w) PROVE CompletedInv'
    BY <1>a, <1>6, <1>7, AppendKeepsCompleted, Zenon DEF JobCompletesLogged
  <1>8. ASSUME NEW w \in Workers, JobDroppedCompleting(w) PROVE CompletedInv'
    BY <1>6, <1>8, Zenon DEF JobDroppedCompleting, CompletedInv
  <1>9. ASSUME NEW w \in Workers, ReceiveDoneLogged(w) PROVE CompletedInv'
    <2>1. wid[w] \in Ids /\ done' = done /\ status' = status
          /\ UNCHANGED <<snap, image>> /\ Append(wid[w], "Active", 0)
      BY <1>0, <1>9, Zenon DEF ReceiveDoneLogged, ReceiveDone, records
    <2> QED
      BY <1>0, <1>a, <2>1, AppendKeepsCompleted, Zenon
  <1>10. ASSUME NEW w \in Workers, RecordFailureLogged(w) PROVE CompletedInv'
    <2>1. wid[w] \in Ids /\ done' = done
          /\ UNCHANGED <<snap, image>> /\ Append(wid[w], "Failed", 0)
      BY <1>0, <1>10, Zenon DEF RecordFailureLogged
    <2>2. \A i \in Ids \ done' : status'[i] # "Completed"
      BY <1>0, <1>10, <2>1, Zenon DEF RecordFailureLogged, RecordFailure
    <2> QED
      BY <1>a, <2>1, <2>2, AppendKeepsCompleted, Zenon
  <1>11. ASSUME NEW w \in Workers, SpawnProgress(w) PROVE CompletedInv'
    BY <1>11, Zenon DEF SpawnProgress, CompletedInv, daemonVars
  <1>12. ASSUME NEW i \in Ids, LateProgress(i) PROVE CompletedInv'
    <2>1. done' = done /\ status' = status
          /\ UNCHANGED <<snap, image>> /\ Append(i, "Active", 0)
      BY <1>12, Zenon DEF LateProgress, daemonVars
    <2> QED
      BY <1>0, <1>a, <2>1, AppendKeepsCompleted, Zenon
  <1>13. CASE Restart
    BY <1>13, Zenon DEF Restart, CompletedInv, Recovered, Nothing
  <1> QED
    BY <1>1, <1>2, <1>3, <1>4, <1>5, <1>7, <1>8, <1>9, <1>10, <1>11, <1>12, <1>13, Zenon
    DEF RecoveryNext

(* Whatever is cancelled, dropped, lost or replayed, neither the daemon    *)
(* nor a restart ever reports Completed for a transfer none of whose jobs  *)
(* ran to its end.                                                         *)
THEOREM CompletedNeverInvented == RecoverySpec => []CompletedIsTrue
  <1>1. RecoveryInit => CompletedInv
    BY DEF RecoveryInit, Init, CompletedInv, Nothing
  <1>2. DiskOK /\ RequestsOK /\ CompletedInv /\ [RecoveryNext]_vars => CompletedInv'
    <2>1. ASSUME CompletedInv, UNCHANGED vars PROVE CompletedInv'
      BY <2>1, Zenon DEF CompletedInv, vars, daemonVars, diskVars
    <2> QED
      BY <2>1, StepCompleted, Zenon
  <1>3. CompletedInv => CompletedIsTrue
    BY Zenon DEF CompletedInv, CompletedIsTrue, Recovered
  <1> QED
    BY <1>1, <1>2, <1>3, DiskAlwaysOK, RequestsAlwaysOK, PTL DEF RecoverySpec

-----------------------------------------------------------------------------
(***************************************************************************)
(* Proof that the daemon's disk never forgets an accepted transfer, for    *)
(* every number of transfers, calls, workers, failed writes and crashes.   *)
(***************************************************************************)

(***************************************************************************)
(* Accepted transfers are durable.  Two facts about the memory come first: *)
(* queue entries, workers and calls only name transfers that have a record *)
(* (the "missing transfer record" error is unreachable), and a call writes *)
(* nothing before it has enqueued or signalled.                            *)
(***************************************************************************)
Known ==
  /\ \A e \in queue : status[e.id] # "absent"
  /\ schedPc # "pop" => status[held.id] # "absent"
  /\ \A w \in Workers : wpc[w] # "idle" => status[wid[w]] # "absent"
  /\ \A c \in Clients : cpc[c] # "idle" => status[creq[c].id] # "absent"

\* A call works on a known transfer, and makes no known one unknown.
LEMMA ClientKnown ==
  ASSUME TypeOK, Known, NEW c \in Clients, ClientNext(c)
  PROVE  Known' /\ \A i \in Ids : status[i] # "absent" => status'[i] # "absent"
  <1> USE DEF Known, records, scheduler, workers
  <1>0. /\ status \in [Ids -> Status] /\ cpc \in [Clients -> ClientPc]
        /\ creq \in [Clients -> Request] /\ wid \in [Workers -> Ids]
        /\ \A d \in Clients : creq[d].id \in Ids
        /\ \A e \in queue : e.id \in Ids
        /\ held.id \in Ids
    BY TypedMemory, Zenon
  <1> DEFINE Goal == Known' /\ \A i \in Ids : status[i] # "absent" => status'[i] # "absent"
  <1>1. ASSUME NEW i \in Ids, NEW p \in RequestPriority, Submit(c, i, p) PROVE Goal
    BY <1>0, <1>1, Zenon DEF Submit, Call
  <1>2. ASSUME NEW i \in Ids, NEW p \in RequestPriority, UpdatePriority(c, i, p)
        PROVE  Goal
    BY <1>0, <1>2, Zenon DEF UpdatePriority, Call
  <1>3. ASSUME NEW i \in Ids, Cancel(c, i) PROVE Goal
    BY <1>0, <1>3, Zenon DEF Cancel, Call
  <1>4. CASE InsertChannel(c)
    BY <1>0, <1>4, Zenon DEF InsertChannel
  <1>5. CASE Enqueue(c)
    BY <1>0, <1>5 DEF Enqueue
  <1>6. CASE Signal(c)
    BY <1>0, <1>6, Zenon DEF Signal
  <1>7. CASE Journal(c)
    BY <1>0, <1>7, Zenon DEF Journal
  <1> QED
    BY <1>1, <1>2, <1>3, <1>4, <1>5, <1>6, <1>7, Zenon DEF ClientNext

\* So does the scheduler loop.
LEMMA SchedulerKnown ==
  ASSUME TypeOK, Known, SchedulerNext
  PROVE  Known' /\ status' = status
  <1> USE DEF TypeOK, Known, Entry, records, workers, clients
  <1>1. CASE SchedulerPop
    BY <1>1, Zenon DEF SchedulerPop
  <1>2. CASE SchedulerSleep
    BY <1>2, Zenon DEF SchedulerSleep, daemonVars
  <1>3. CASE SchedulerCheck
    BY <1>3, Zenon DEF SchedulerCheck
  <1>4. ASSUME NEW w \in Workers, SchedulerSpawn(w) PROVE Known' /\ status' = status
    BY <1>4, Zenon DEF SchedulerSpawn
  <1> QED
    BY <1>1, <1>2, <1>3, <1>4, Zenon DEF SchedulerNext

\* So does a worker.
LEMMA WorkerKnown ==
  ASSUME TypeOK, Known, NEW w \in Workers, WorkerNext(w)
  PROVE  Known' /\ \A i \in Ids : (status[i] = "absent") <=> (status'[i] = "absent")
  <1> USE DEF Known, records, scheduler, clients, Goto
  <1>0. /\ status \in [Ids -> Status] /\ wpc \in [Workers -> WorkerPc]
        /\ wid \in [Workers -> Ids]
        /\ \A d \in Clients : creq[d].id \in Ids
        /\ \A e \in queue : e.id \in Ids
        /\ held.id \in Ids
    BY TypedMemory, Zenon
  <1>1. CASE WorkerStart(w)
    BY <1>0, <1>1 DEF WorkerStart, Exit
  <1>2. CASE JobCompletes(w)
    BY <1>0, <1>2, Zenon DEF JobCompletes
  <1>3. CASE RecordFailure(w)
    BY <1>0, <1>3, Zenon DEF RecordFailure
  <1>4. CASE WorkerEnd(w)
    BY <1>0, <1>4, Zenon DEF WorkerEnd, Exit
  <1>5. CASE Subscribe(w)
    BY <1>0, <1>5, Zenon DEF Subscribe
  <1>6. CASE WorkerJournal(w) \/ JobBegin(w) \/ JobDropped(w)
    BY <1>0, <1>6, Zenon DEF WorkerJournal, JobBegin, JobDropped
  <1>7. CASE CopySeesCancel(w) \/ ReceiveDone(w) \/ JobErrs(w)
    BY <1>0, <1>7, Zenon DEF CopySeesCancel, ReceiveDone, JobErrs
  <1> QED
    BY <1>1, <1>2, <1>3, <1>4, <1>5, <1>6, <1>7, Zenon DEF WorkerNext

\* A restart queues known transfers only.
LEMMA RestartKnown == ASSUME DiskOK, Restart PROVE Known'
  <1>1. PICK order \in [Requeued -> 1..Cardinality(Requeued)] :
          queue' = {[prio |-> Recovered(i).prio, seq |-> order[i], id |-> i] :
                      i \in Requeued}
    BY RestartQueue, Zenon
  <1>2. \A i \in Requeued : status'[i] # "absent"
    BY Zenon DEF Restart, Requeued
  <1>3. \A e \in queue' : status'[e.id] # "absent"
    BY <1>1, <1>2
  <1> QED
    BY <1>3, Zenon DEF Restart, Known

\* Every task always works on a transfer that is known.
LEMMA AlwaysKnown == RecoverySpec => []Known
  <1>1. RecoveryInit => Known
    BY DEF RecoveryInit, Init, Known
  <1>2. DiskOK /\ Known /\ [RecoveryNext]_vars => Known'
    <2> SUFFICES ASSUME DiskOK, Known, [RecoveryNext]_vars PROVE Known'
      BY Zenon
    <2>1. TypeOK
      BY Zenon DEF DiskOK, RecoveryTypeOK
    <2>2. CASE UNCHANGED daemonVars
      BY <2>2, Zenon DEF Known, daemonVars
    <2>3. CASE Next
      BY <2>1, <2>3, ClientKnown, SchedulerKnown, WorkerKnown, Zenon DEF Next
    <2>4. CASE Restart
      BY <2>4, RestartKnown, Zenon
    <2> QED
      BY <2>2, <2>3, <2>4, NextOrRestart, Zenon DEF vars
  <1> QED
    BY <1>1, <1>2, DiskAlwaysOK, PTL DEF RecoverySpec

(* A memory step ends no call and hands no call another transfer. *)
LEMMA MemoryStepCalls ==
  ASSUME TypeOK, MemoryStep, NEW c \in Clients
  PROVE  /\ cpc[c] = "journal" => cpc'[c] = "journal"
         /\ cpc[c] # "idle" => cpc'[c] # "idle" /\ creq'[c] = creq[c]
  <1> USE DEF clients
  <1>0. cpc \in [Clients -> ClientPc] /\ creq \in [Clients -> Request]
    BY TypedMemory, Zenon
  <1>1. ASSUME NEW d \in Clients, NEW i \in Ids, NEW p \in RequestPriority,
               Submit(d, i, p) \/ UpdatePriority(d, i, p)
        PROVE  cpc[c] # "idle" => cpc'[c] = cpc[c] /\ creq'[c] = creq[c]
    BY <1>0, <1>1, Zenon DEF Submit, UpdatePriority, Call
  <1>2. ASSUME NEW d \in Clients, InsertChannel(d) \/ Enqueue(d) \/ Signal(d)
        PROVE  /\ creq'[c] = creq[c]
               /\ cpc'[c] = cpc[c] \/ cpc'[c] \in {"enqueue_new", "journal"}
               /\ cpc[c] = "journal" => cpc'[c] = "journal"
    BY <1>0, <1>2, Zenon DEF InsertChannel, Enqueue, Signal
  <1>3. ASSUME SchedulerNext PROVE UNCHANGED <<cpc, creq>>
    BY <1>3, Zenon DEF SchedulerNext, SchedulerPop, SchedulerSleep, SchedulerCheck,
                SchedulerSpawn, daemonVars
  <1>4. ASSUME NEW w \in Workers,
               \/ WorkerStart(w) \/ Subscribe(w) \/ JobBegin(w) \/ JobDropped(w)
               \/ CopySeesCancel(w) \/ JobErrs(w)
        PROVE  UNCHANGED <<cpc, creq>>
    BY <1>4, Zenon DEF WorkerStart, Subscribe, JobBegin, JobDropped, CopySeesCancel, JobErrs
  <1>5. ASSUME NEW d \in Clients, NEW i \in Ids, Cancel(d, i)
        PROVE  cpc[c] # "idle" => cpc'[c] = cpc[c] /\ creq'[c] = creq[c]
    BY <1>0, <1>5, Zenon DEF Cancel, Call
  <1> QED
    BY <1>1, <1>2, <1>3, <1>4, <1>5, Zenon DEF MemoryStep

IoOK == \A c \in Clients : cpc[c] # "journal" => io[c] = "start"

\* A step leaves no write in progress for a call that does not journal.
LEMMA StepIoOK ==
  ASSUME DiskOK, IoOK, RecoveryNext
  PROVE  IoOK'
  <1> USE DEF IoOK
  <1>0. /\ TypeOK
        /\ cpc \in [Clients -> ClientPc]
        /\ io \in [Tasks -> {"start", "appended", "imaged"}]
    BY Typed, TypedMemory, Zenon
  <1>1. CASE MemoryStep
    <2>1. io' = io
      BY <1>1, Zenon DEF MemoryStep, diskVars
    <2>2. \A c \in Clients : cpc[c] = "journal" => cpc'[c] = "journal"
      BY <1>0, <1>1, MemoryStepCalls, Zenon
    <2> QED
      BY <2>1, <2>2, Zenon
  <1>2. ASSUME NEW c \in Clients, ClientAppend(c) \/ ClientClone(c) PROVE IoOK'
    <2>1. cpc[c] = "journal" /\ cpc' = cpc
      BY <1>2, Zenon DEF ClientAppend, ClientClone, Clone, daemonVars
    <2>2. \A d \in Clients : d # c => io'[d] = io[d]
      BY <1>0, <1>2, Zenon DEF ClientAppend, ClientClone, Clone, Tasks
    <2> QED
      BY <2>1, <2>2, Zenon
  <1>3. ASSUME NEW c \in Clients, ClientPublish(c) PROVE IoOK'
    BY <1>0, <1>3, Zenon DEF ClientPublish, Journal, Publish, Tasks
  <1>4. ASSUME NEW w \in Workers, NEW v, io' = [io EXCEPT ![w] = v], UNCHANGED cpc
        PROVE  IoOK'
    BY <1>0, <1>4, RecoveryAssumption, Zenon DEF Tasks
  <1>5. ASSUME NEW w \in Workers, WorkerAppend(w) \/ WorkerClone(w) PROVE IoOK'
    BY <1>4, <1>5, Zenon DEF WorkerAppend, WorkerClone, Clone, daemonVars
  <1>6. ASSUME NEW w \in Workers, WorkerPublish(w) PROVE IoOK'
    BY <1>4, <1>6, Zenon DEF WorkerPublish, WorkerJournal, WorkerEnd, Publish, clients
  <1>7. ASSUME NEW w \in Workers,
               \/ JobCompletesLogged(w) \/ JobDroppedCompleting(w)
               \/ ReceiveDoneLogged(w) \/ RecordFailureLogged(w) \/ SpawnProgress(w)
        PROVE  IoOK'
    BY <1>7, Zenon DEF JobCompletesLogged, JobDroppedCompleting, JobCompletes,
                ReceiveDoneLogged, ReceiveDone, RecordFailureLogged, RecordFailure,
                SpawnProgress, clients, daemonVars
  <1>8. ASSUME NEW i \in Ids, LateProgress(i) PROVE IoOK'
    BY <1>8, Zenon DEF LateProgress, daemonVars
  <1>9. CASE Restart
    BY <1>9, Zenon DEF Restart, Tasks
  <1> QED
    BY <1>1, <1>2, <1>3, <1>5, <1>6, <1>7, <1>8, <1>9, Zenon DEF RecoveryNext

\* A call that does not journal never has a write in progress.
LEMMA IoAlwaysOK == RecoverySpec => []IoOK
  <1>1. RecoveryInit => IoOK
    BY Zenon DEF RecoveryInit, IoOK, Tasks
  <1>2. DiskOK /\ IoOK /\ [RecoveryNext]_vars => IoOK'
    <2>1. ASSUME IoOK, UNCHANGED vars PROVE IoOK'
      BY <2>1, Zenon DEF IoOK, vars, daemonVars, diskVars
    <2> QED
      BY <2>1, StepIoOK, Zenon
  <1> QED
    BY <1>1, <1>2, DiskAlwaysOK, PTL DEF RecoverySpec

(* The disk holds transfer i for good: in the log, or in the snapshot and  *)
(* in every image that may still replace it.                               *)
Stored(i) ==
  \/ log[i].status # "absent"
  \/ /\ snap[i].status # "absent"
     /\ \A t \in Tasks : io[t] = "imaged" => image[t][i].status # "absent"

DurableInv ==
  \A i \in Ids \ lost : status[i] # "absent" => Stored(i) \/ Unwritten(i)

\* Appending to the journal forgets no accepted transfer.
LEMMA AppendKeepsDurable ==
  ASSUME DiskOK, DurableInv, NEW j \in Ids, NEW st, NEW p, st # "absent",
         Append(j, st, p), UNCHANGED <<snap, image>>,
         \A t \in Tasks : io'[t] = "imaged" => io[t] = "imaged",
         \A i \in Ids : status'[i] # "absent" => status[i] # "absent",
         \A i \in Ids : Unwritten(i) => Unwritten(i)' \/ i = j
  PROVE  DurableInv'
  <1> SUFFICES ASSUME NEW i \in Ids \ lost', status'[i] # "absent",
                      ~Unwritten(i)'
               PROVE  Stored(i)'
    BY Zenon DEF DurableInv
  <1>1. CASE i = j
    BY <1>1, Typed DEF Append, Stored
  <1>2. CASE i # j
    <2>1. i \in Ids \ lost /\ ~Unwritten(i) /\ log'[i] = log[i]
      BY <1>2, Typed, Zenon DEF Append
    <2>2. Stored(i)
      BY <2>1, Zenon DEF DurableInv
    <2> QED
      BY <2>1, <2>2, Zenon DEF Stored
  <1> QED
    BY <1>1, <1>2, Zenon

\* Cloning the state forgets no accepted transfer.
LEMMA CloneKeepsDurable ==
  ASSUME DiskOK, DurableInv, NEW t \in Tasks, NEW from, Clone(t, from),
         t \in Clients => from # "start"
  PROVE  DurableInv'
  <1>0. /\ image \in [Tasks -> [Ids -> DiskRecord]]
        /\ io \in [Tasks -> {"start", "appended", "imaged"}]
    BY Typed, Zenon
  <1>a. UNCHANGED <<status, cpc, creq, log, snap, lost>>
    BY Zenon DEF Clone, daemonVars
  <1> SUFFICES ASSUME NEW i \in Ids \ lost, status[i] # "absent"
               PROVE  Stored(i)' \/ Unwritten(i)'
    BY <1>a, Zenon DEF DurableInv
  <1>1. CASE Stored(i)
    <2>1. \A u \in Tasks : image'[u][i].status =
                             IF u = t THEN status[i] ELSE image[u][i].status
      BY <1>0, Zenon DEF Clone
    <2> QED
      BY <1>0, <1>a, <1>1, <2>1, Zenon DEF Stored, Clone
  <1>2. CASE Unwritten(i)
    BY <1>0, <1>a, <1>2, Zenon DEF Unwritten, Clone, Tasks
  <1> QED
    BY <1>1, <1>2, Zenon DEF DurableInv

\* Publishing a snapshot and truncating the journal forgets none.
LEMMA PublishKeepsDurable ==
  ASSUME DiskOK, DurableInv, NEW t \in Tasks, Publish(t), UNCHANGED status,
         \A c \in Clients : c # t => cpc'[c] = cpc[c] /\ creq'[c] = creq[c]
  PROVE  DurableInv'
  <1>0. /\ image \in [Tasks -> [Ids -> DiskRecord]]
        /\ io \in [Tasks -> {"start", "appended", "imaged"}]
    BY Typed, Zenon
  <1> SUFFICES ASSUME NEW i \in Ids \ lost, status[i] # "absent"
               PROVE  Stored(i)' \/ Unwritten(i)'
    BY Zenon DEF DurableInv, Publish
  <1>1. CASE Stored(i)
    <2>1. \A u \in Tasks : io'[u] = "imaged" =>
                             io[u] = "imaged" /\ image'[u] = image[u]
      BY <1>0, Zenon DEF Publish
    <2> QED
      BY <1>1, <2>1, Zenon DEF Stored, Publish
  <1>2. CASE Unwritten(i)
    <2>1. PICK c \in Clients : cpc[c] # "idle" /\ creq[c].id = i /\ io[c] = "start"
      BY <1>2, Zenon DEF Unwritten
    <2>2. c # t /\ c \in Tasks /\ io'[c] = "start"
      BY <1>0, <2>1, Zenon DEF Publish, Tasks
    <2> QED
      BY <2>1, <2>2, Zenon DEF Unwritten
  <1> QED
    BY <1>1, <1>2, Zenon DEF DurableInv

(* A memory step creates a record only in Submit, whose call has yet to    *)
(* write its event.                                                        *)
LEMMA MemoryStepDurable ==
  ASSUME DiskOK, Known, IoOK, DurableInv, MemoryStep
  PROVE  DurableInv'
  <1>t. TypeOK
    BY Typed, Zenon
  <1>0. UNCHANGED diskVars
    BY Zenon DEF MemoryStep
  <1> SUFFICES ASSUME NEW i \in Ids \ lost, status'[i] # "absent"
               PROVE  Stored(i)' \/ Unwritten(i)'
    BY <1>0, Zenon DEF DurableInv, diskVars
  <1>1. CASE status[i] # "absent"
    <2>1. CASE Stored(i)
      BY <1>0, <2>1, Zenon DEF Stored, diskVars
    <2>2. CASE Unwritten(i)
      <3>1. PICK c \in Clients : cpc[c] # "idle" /\ creq[c].id = i /\ io[c] = "start"
        BY <2>2, Zenon DEF Unwritten
      <3>2. cpc'[c] # "idle" /\ creq'[c] = creq[c]
        BY <1>t, <3>1, MemoryStepCalls, Zenon
      <3> QED
        BY <1>0, <3>1, <3>2, Zenon DEF Unwritten, diskVars
    <2> QED
      BY <1>1, <2>1, <2>2, Zenon DEF DurableInv
  <1>2. CASE status[i] = "absent"
    <2>1. ASSUME NEW c \in Clients, NEW j \in Ids, NEW p \in RequestPriority,
                 Submit(c, j, p)
          PROVE  Unwritten(i)'
      <3>1. i = j /\ cpc[c] = "idle" /\ cpc'[c] = "channel" /\ creq'[c].id = j
        BY <1>2, <1>t, <2>1, TypedMemory, Zenon DEF Submit, Call
      <3> QED
        BY <1>0, <3>1, Zenon DEF Unwritten, IoOK, diskVars
    <2>2. ASSUME NEW c \in Clients, NEW j \in Ids,
                 \/ \E p \in RequestPriority : UpdatePriority(c, j, p)
                 \/ Cancel(c, j)
          PROVE  FALSE
      <3>1. j # i /\ \E st : status' = [status EXCEPT ![j] = st]
        BY <1>2, <2>2, Zenon DEF UpdatePriority, Cancel
      <3> QED
        BY <1>2, <1>t, <3>1, TypedMemory, Zenon
    <2>3. ASSUME NEW c \in Clients, InsertChannel(c) \/ Enqueue(c) \/ Signal(c)
          PROVE  FALSE
      BY <1>2, <2>3, Zenon DEF InsertChannel, Enqueue, Signal, records
    <2>4. ~SchedulerNext
      BY <1>2, <1>t, SchedulerKnown, Zenon
    <2>5. ASSUME NEW w \in Workers,
                 \/ WorkerStart(w) \/ Subscribe(w) \/ JobBegin(w) \/ JobDropped(w)
                 \/ CopySeesCancel(w) \/ JobErrs(w)
          PROVE  FALSE
      <3>1. WorkerNext(w)
        BY <2>5, Zenon DEF WorkerNext
      <3> QED
        BY <1>2, <1>t, <3>1, WorkerKnown, Zenon
    <2> QED
      BY <2>1, <2>2, <2>3, <2>4, <2>5, Zenon DEF MemoryStep
  <1> QED
    BY <1>1, <1>2, Zenon

\* No step forgets an accepted transfer.
LEMMA StepDurable ==
  ASSUME DiskOK, RequestsOK, Known, IoOK, DurableInv, RecoveryNext
  PROVE  DurableInv'
  <1>0. /\ TypeOK
        /\ \A w \in Workers : wid[w] \in Ids
        /\ io \in [Tasks -> {"start", "appended", "imaged"}]
    BY Typed, TypedMemory, Zenon
  <1>1. CASE MemoryStep
    BY <1>1, MemoryStepDurable, Zenon
  <1>2. ASSUME NEW c \in Clients, ClientAppend(c) PROVE DurableInv'
    <2>1. creq[c].id \in Ids /\ creq[c].status # "absent"
      BY <1>0, <1>2, TypedMemory, Zenon DEF ClientAppend, RequestsOK
    <2>2. /\ Append(creq[c].id, creq[c].status, creq[c].prio)
          /\ UNCHANGED <<snap, image>>
          /\ \A i \in Ids : status'[i] # "absent" => status[i] # "absent"
          /\ \A t \in Tasks : io'[t] = "imaged" => io[t] = "imaged"
      BY <1>0, <1>2, Zenon DEF ClientAppend, daemonVars
    <2>3. \A i \in Ids : Unwritten(i) => Unwritten(i)' \/ i = creq[c].id
      BY <1>0, <1>2, Zenon DEF ClientAppend, daemonVars, Unwritten, Tasks
    <2> QED
      BY <2>1, <2>2, <2>3, AppendKeepsDurable, Zenon
  <1>3. ASSUME NEW c \in Clients, ClientClone(c) PROVE DurableInv'
    BY <1>3, CloneKeepsDurable, Zenon DEF ClientClone, Tasks
  <1>4. ASSUME NEW c \in Clients, ClientPublish(c) PROVE DurableInv'
    <2>1. /\ c \in Tasks /\ Publish(c) /\ UNCHANGED status
          /\ \A d \in Clients : d # c => cpc'[d] = cpc[d] /\ creq'[d] = creq[d]
      BY <1>0, <1>4, TypedMemory, Zenon DEF ClientPublish, Journal, records, Tasks
    <2> QED
      BY <2>1, PublishKeepsDurable, Zenon
  <1>5. ASSUME NEW w \in Workers, WorkerClone(w) PROVE DurableInv'
    <2>1. w \in Tasks /\ w \notin Clients
      BY RecoveryAssumption, Zenon DEF Tasks
    <2> QED
      BY <1>5, <2>1, CloneKeepsDurable, Zenon DEF WorkerClone
  <1>6. ASSUME NEW w \in Workers, WorkerPublish(w) PROVE DurableInv'
    <2>1. w \in Tasks /\ Publish(w) /\ UNCHANGED <<status, cpc, creq>>
      BY <1>6, Zenon DEF WorkerPublish, WorkerJournal, WorkerEnd, records, clients, Tasks
    <2> QED
      BY <2>1, PublishKeepsDurable, Zenon
  <1>7. ASSUME NEW w \in Workers, WorkerAppend(w) PROVE DurableInv'
    <2>1. wid[w] \in Ids
      BY <1>0, Zenon
    <2>2. /\ Append(wid[w], "Active", 0)
          /\ UNCHANGED <<snap, image>>
          /\ \A i \in Ids : status'[i] # "absent" => status[i] # "absent"
          /\ \A t \in Tasks : io'[t] = "imaged" => io[t] = "imaged"
      BY <1>0, <1>7, Zenon DEF WorkerAppend, daemonVars
    <2>3. \A i \in Ids : Unwritten(i) => Unwritten(i)'
      BY <1>0, <1>7, RecoveryAssumption, Zenon DEF WorkerAppend, daemonVars, Unwritten, Tasks
    <2> QED
      BY <2>1, <2>2, <2>3, AppendKeepsDurable, Zenon
  <1>8. ASSUME NEW w \in Workers, NEW st, st # "absent", Append(wid[w], st, 0),
               UNCHANGED <<snap, image, io>>, WorkerNext(w), UNCHANGED clients
        PROVE  DurableInv'
    <2>1. wid[w] \in Ids
      BY <1>0, Zenon
    <2>2. \A i \in Ids : status'[i] # "absent" => status[i] # "absent"
      BY <1>0, <1>8, WorkerKnown, Zenon
    <2>3. \A i \in Ids : Unwritten(i) => Unwritten(i)'
      BY <1>8, Zenon DEF Unwritten, clients
    <2> QED
      BY <1>8, <2>1, <2>2, <2>3, AppendKeepsDurable, Zenon
  <1>9. ASSUME NEW w \in Workers, JobCompletesLogged(w) PROVE DurableInv'
    <2>1. WorkerNext(w) /\ UNCHANGED <<clients, snap, image, io>>
          /\ Append(wid[w], "Completed", 0)
      BY <1>9, Zenon DEF JobCompletesLogged, JobCompletes, WorkerNext
    <2> QED
      BY <1>8, <2>1, Zenon
  <1>10. ASSUME NEW w \in Workers, ReceiveDoneLogged(w) PROVE DurableInv'
    <2>1. WorkerNext(w) /\ UNCHANGED <<clients, snap, image, io>>
          /\ Append(wid[w], "Active", 0)
      BY <1>10, Zenon DEF ReceiveDoneLogged, ReceiveDone, WorkerNext
    <2> QED
      BY <1>8, <2>1, Zenon
  <1>11. ASSUME NEW w \in Workers, RecordFailureLogged(w) PROVE DurableInv'
    <2>1. WorkerNext(w) /\ UNCHANGED <<clients, snap, image, io>>
          /\ Append(wid[w], "Failed", 0)
      BY <1>11, Zenon DEF RecordFailureLogged, RecordFailure, WorkerNext
    <2> QED
      BY <1>8, <2>1, Zenon
  <1>12. ASSUME NEW w \in Workers, JobDroppedCompleting(w) PROVE DurableInv'
    <2>1. \A i \in Ids : status'[i] # "absent" => status[i] # "absent"
      BY <1>0, <1>12, WorkerKnown, Zenon DEF JobDroppedCompleting, WorkerNext
    <2>2. UNCHANGED <<cpc, creq, log, snap, image, io, lost>>
      BY <1>12, Zenon DEF JobDroppedCompleting, JobCompletes, clients
    <2>3. ASSUME NEW i \in Ids
          PROVE  (Stored(i) => Stored(i)') /\ (Unwritten(i) => Unwritten(i)')
      BY <2>2, Zenon DEF Stored, Unwritten
    <2>4. ASSUME NEW i \in Ids \ lost', status'[i] # "absent" PROVE Stored(i)' \/ Unwritten(i)'
      <3>1. Stored(i) \/ Unwritten(i)
        BY <2>1, <2>2, <2>4, Zenon DEF DurableInv
      <3> QED
        BY <2>3, <3>1, Zenon
    <2> QED
      BY <2>4, Zenon DEF DurableInv
  <1>13. ASSUME NEW w \in Workers, SpawnProgress(w) PROVE DurableInv'
    BY <1>13, Zenon DEF SpawnProgress, daemonVars, DurableInv, Stored, Unwritten
  <1>14. ASSUME NEW i \in Ids, LateProgress(i) PROVE DurableInv'
    <2>1. /\ Append(i, "Active", 0)
          /\ UNCHANGED <<snap, image, io, status, cpc, creq>>
      BY <1>14, Zenon DEF LateProgress, daemonVars
    <2>2. \A j \in Ids : Unwritten(j) => Unwritten(j)'
      BY <2>1, Zenon DEF Unwritten
    <2> QED
      BY <2>1, <2>2, AppendKeepsDurable, Zenon
  <1>15. CASE Restart
    <2> SUFFICES ASSUME NEW i \in Ids, status'[i] # "absent" PROVE Stored(i)'
      BY <1>15, Zenon DEF Restart, DurableInv
    <2>1. Recovered(i).status # "absent" /\ UNCHANGED <<log, snap>>
      BY <1>15, Zenon DEF Restart
    <2>2. \A t \in Tasks : io'[t] # "imaged"
      BY <1>15, Zenon DEF Restart
    <2> QED
      BY <2>1, <2>2, Zenon DEF Stored, Recovered
  <1> QED
    BY <1>1, <1>2, <1>3, <1>4, <1>5, <1>6, <1>7, <1>9, <1>10, <1>11, <1>12, <1>13,
       <1>14, <1>15, Zenon
    DEF RecoveryNext

(* A transfer of which every event could be written is on disk as soon as  *)
(* its calls have answered, and stays there: no interleaving of snapshots  *)
(* that overwrite each other and no crash loses it.                        *)
THEOREM AcceptedNeverForgotten == RecoverySpec => []AcceptedIsDurable
  <1>1. RecoveryInit => DurableInv
    BY DEF RecoveryInit, Init, DurableInv
  <1>2. /\ DiskOK /\ RequestsOK /\ Known /\ IoOK /\ DurableInv
        /\ [RecoveryNext]_vars
        => DurableInv'
    <2>1. ASSUME DurableInv, UNCHANGED vars PROVE DurableInv'
      <3>1. UNCHANGED <<status, cpc, creq, log, snap, image, io, lost>>
        BY <2>1, Zenon DEF vars, daemonVars, diskVars
      <3> QED
        BY <2>1, <3>1, ZenonT(60) DEF DurableInv, Stored, Unwritten
    <2> QED
      BY <2>1, StepDurable, Zenon
  <1>3. DurableInv => AcceptedIsDurable
    BY Zenon DEF DurableInv, AcceptedIsDurable, Stored, Recovered
  <1> QED
    BY <1>1, <1>2, <1>3, DiskAlwaysOK, RequestsAlwaysOK, AlwaysKnown, IoAlwaysOK, PTL
    DEF RecoverySpec
=============================================================================
