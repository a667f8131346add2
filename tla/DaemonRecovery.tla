--------------------------- MODULE DaemonRecovery ----------------------------
(***************************************************************************)
(* sct-daemon with its disk: DaemonScheduler composed with the event log,  *)
(* the snapshot, and crashes followed by a restart that loads both.        *)
(*                                                                         *)
(* The event log is never truncated and replay applies every event in      *)
(* order, the last status and the last priority of a transfer winning      *)
(* (apply_event).  The log is therefore kept as what its replay would      *)
(* leave: for each transfer its last status and its last priority.  An     *)
(* event is appended in one step and a snapshot published in one step;     *)
(* the snapshot was taken earlier, under the records lock.                 *)
(***************************************************************************)
EXTENDS DaemonScheduler

CONSTANTS
  MaxProgress, \* bound: progress tasks in flight for one transfer
  MaxFaults,   \* bound: failed writes in one behaviour
  MaxCrashes   \* bound: crashes in one behaviour

ASSUME RecoveryAssumption ==
  /\ MaxProgress \in Nat
  /\ MaxFaults \in Nat
  /\ MaxCrashes \in Nat
  /\ IsFiniteSet(Ids)
  /\ Clients \cap Workers = {}

VARIABLES
  log,      \* what replaying events.jsonl leaves, per transfer
  snap,     \* transfers.json
  io,       \* how far each task's append_event / persist_records has come
  image,    \* the records a task has cloned and not yet published
  late,     \* spawned progress tasks that have not run yet, per transfer
  faults,   \* failed writes so far
  lost,     \* history: the transfers of which an event could not be written
  done,     \* history: the transfers whose job has run to its end
  crashes   \* crashes so far

diskVars == <<log, snap, io, image, late, faults, lost, done, crashes>>
vars == <<daemonVars, diskVars>>

Tasks == Clients \cup Workers

(* A record on disk; status "absent": none, prio 0: no event set it. *)
DiskRecord == [status : Status, prio : 0..10]
Nothing == [i \in Ids |-> [status |-> "absent", prio |-> 0]]

RecoveryInit ==
  /\ Init
  /\ log = Nothing
  /\ snap = Nothing
  /\ io = [t \in Tasks |-> "start"]
  /\ image = [t \in Tasks |-> Nothing]
  /\ late = [i \in Ids |-> 0]
  /\ faults = 0
  /\ lost = {}
  /\ done = {}
  /\ crashes = 0

-----------------------------------------------------------------------------
(* A write fails; every caller ignores the error. *)
Fault == faults < MaxFaults /\ faults' = faults + 1

(* append_event seen through apply_event: fields the event leaves out keep *)
(* their value.                                                            *)
Append(i, st, p) ==
  \/ /\ log' = [log EXCEPT ![i] =
                  [status |-> st, prio |-> IF p = 0 THEN @.prio ELSE p]]
     /\ UNCHANGED <<faults, lost>>
  \/ /\ Fault
     /\ lost' = lost \cup {i}
     /\ UNCHANGED log

(* persist_records: clone the records under their lock, ... *)
Clone(t, from) ==
  /\ io[t] = from
  /\ io' = [io EXCEPT ![t] = "imaged"]
  /\ image' = [image EXCEPT ![t] =
                 [i \in Ids |-> [status |-> status[i], prio |-> prio[i]]]]
  /\ UNCHANGED <<daemonVars, log, snap, late, faults, lost, done, crashes>>

(* ... then write the temporary file and rename it, unless that fails. *)
Publish(t) ==
  /\ io[t] = "imaged"
  /\ io' = [io EXCEPT ![t] = "start"]
  /\ \/ snap' = image[t] /\ UNCHANGED faults
     \/ Fault /\ UNCHANGED snap
  /\ image' = [image EXCEPT ![t] = Nothing]
  /\ UNCHANGED <<log, late, lost, done, crashes>>

(* ClientAppend that leaves everything to the snapshot *)
ClientAppendSkipped(c) ==
  /\ cpc[c] = "journal"
  /\ io[c] = "start"
  /\ io' = [io EXCEPT ![c] = "appended"]
  /\ UNCHANGED <<daemonVars, log, snap, image, late, faults, lost, done, crashes>>

(* The event of a handler: "submitted", "cancelled" or "priority_updated". *)
ClientAppend(c) ==
  /\ cpc[c] = "journal"
  /\ io[c] = "start"
  /\ Append(creq[c].id, creq[c].status, creq[c].prio)
  /\ io' = [io EXCEPT ![c] = "appended"]
  /\ UNCHANGED <<daemonVars, snap, image, late, done, crashes>>

ClientClone(c) == cpc[c] = "journal" /\ Clone(c, "appended")

ClientPublish(c) == Journal(c) /\ Publish(c)

(* The "started" event of a worker *)
WorkerAppend(w) ==
  /\ wpc[w] = "started"
  /\ io[w] = "start"
  /\ Append(wid[w], "Active", 0)
  /\ io' = [io EXCEPT ![w] = "appended"]
  /\ UNCHANGED <<daemonVars, snap, image, late, done, crashes>>

WorkerClone(w) ==
  \/ wpc[w] = "started" /\ Clone(w, "appended")
  \/ wpc[w] = "finish" /\ Clone(w, "start")

WorkerPublish(w) == (WorkerJournal(w) \/ WorkerEnd(w)) /\ Publish(w)

(* The "completed" event follows the status under one lock, and is written *)
(* for a cancelled record too.                                             *)
JobCompletesLogged(w) ==
  /\ JobCompletes(w)
  /\ Append(wid[w], "Completed", 0)
  /\ done' = done \cup {wid[w]}
  /\ UNCHANGED <<snap, io, image, late, crashes>>

(* A signal can drop the job while it waits for that event to be written.  *)
JobDroppedCompleting(w) ==
  /\ JobCompletes(w)
  /\ Signalled(w)
  /\ done' = done \cup {wid[w]}
  /\ UNCHANGED <<log, faults, lost, snap, io, image, late, crashes>>

(* the "progress" event of a receive, under the records lock *)
ReceiveDoneLogged(w) ==
  /\ ReceiveDone(w)
  /\ Append(wid[w], "Active", 0)
  /\ UNCHANGED <<snap, io, image, late, done, crashes>>

(* RecordFailureLogged with the event of a success *)
FailureLoggedCompleted(w) ==
  /\ RecordFailure(w)
  /\ Append(wid[w], "Completed", 0)
  /\ UNCHANGED <<snap, io, image, late, done, crashes>>

(* the "failed" event, under the records lock *)
RecordFailureLogged(w) ==
  /\ RecordFailure(w)
  /\ Append(wid[w], "Failed", 0)
  /\ UNCHANGED <<snap, io, image, late, done, crashes>>

(* The progress callback of a send spawns a task of its own, ... *)
SpawnProgress(w) ==
  /\ wpc[w] = "running"
  /\ JobKind[wid[w]] = "send"
  /\ late[wid[w]] < MaxProgress
  /\ late' = [late EXCEPT ![wid[w]] = @ + 1]
  /\ UNCHANGED <<daemonVars, log, faults, lost, snap, io, image, done, crashes>>

(* ... which appends its event whenever it gets to run. *)
LateProgress(i) ==
  /\ late[i] > 0
  /\ Append(i, "Active", 0)
  /\ late' = [late EXCEPT ![i] = @ - 1]
  /\ UNCHANGED <<daemonVars, snap, io, image, done, crashes>>

-----------------------------------------------------------------------------
(* What load_records_into_state makes of the disk: active records of the   *)
(* snapshot become queued, then the events are applied.                    *)
Recovered(i) ==
  [status |-> IF log[i].status # "absent" THEN log[i].status
              ELSE IF snap[i].status = "Active" THEN "Queued"
              ELSE snap[i].status,
   prio |-> IF log[i].prio # 0 THEN log[i].prio
            ELSE IF snap[i].status # "absent" THEN snap[i].prio
            ELSE 5]

(* Push one entry for each transfer of the set, in any order. *)
PushAll(ids) ==
  LET n == Cardinality(ids) IN
  \E order \in [ids -> 1..n] :
    /\ \A i, j \in ids : order[i] = order[j] => i = j
    /\ queue' = {[prio |-> Recovered(i).prio, seq |-> order[i], id |-> i] : i \in ids}
    /\ seq' = n

(* Requeue that queues before it replays the events *)
RequeueFromSnapshot == PushAll({i \in Ids : snap[i].status \in {"Queued", "Active"}})

(* Every record that is Queued, in the arbitrary order of a HashMap *)
Requeue == PushAll({i \in Ids : Recovered(i).status = "Queued"})

(* A crash loses the memory; the restart loads the disk and rebuilds the   *)
(* queue before it serves the first call.                                  *)
Restart ==
  /\ crashes < MaxCrashes
  /\ crashes' = crashes + 1
  /\ status' = [i \in Ids |-> Recovered(i).status]
  /\ prio' = [i \in Ids |-> Recovered(i).prio]
  /\ Requeue
  /\ chan' = [i \in Ids |-> "none"]
  /\ schedPc' = "pop"
  /\ held' = NoEntry
  /\ permits' = MaxConcurrent
  /\ wpc' = [w \in Workers |-> "idle"]
  /\ wid' = [w \in Workers |-> AnyId]
  /\ rx' = [w \in Workers |-> "none"]
  /\ cpc' = [c \in Clients |-> "idle"]
  /\ creq' = [c \in Clients |-> NoRequest]
  /\ io' = [t \in Tasks |-> "start"]
  /\ image' = [t \in Tasks |-> Nothing]
  /\ late' = [i \in Ids |-> 0]
  /\ UNCHANGED <<calls, log, snap, faults, lost, done>>

-----------------------------------------------------------------------------
(* Steps of the daemon that touch no file *)
MemoryStep ==
  /\ \/ \E c \in Clients :
          \/ \E i \in Ids, p \in RequestPriority :
               Submit(c, i, p) \/ UpdatePriority(c, i, p)
          \/ \E i \in Ids : Cancel(c, i)
          \/ InsertChannel(c) \/ Enqueue(c) \/ Signal(c)
     \/ SchedulerNext
     \/ \E w \in Workers :
          \/ WorkerStart(w) \/ Subscribe(w) \/ JobBegin(w) \/ JobDropped(w)
          \/ CopySeesCancel(w) \/ JobErrs(w)
  /\ UNCHANGED diskVars

RecoveryNext ==
  \/ MemoryStep
  \/ \E c \in Clients : ClientAppend(c) \/ ClientClone(c) \/ ClientPublish(c)
  \/ \E w \in Workers :
       \/ WorkerAppend(w) \/ WorkerClone(w) \/ WorkerPublish(w)
       \/ JobCompletesLogged(w) \/ JobDroppedCompleting(w)
       \/ ReceiveDoneLogged(w) \/ RecordFailureLogged(w) \/ SpawnProgress(w)
  \/ \E i \in Ids : LateProgress(i)
  \/ Restart

RecoverySpec == RecoveryInit /\ [][RecoveryNext]_vars

-----------------------------------------------------------------------------
RecoveryTypeOK ==
  /\ TypeOK
  /\ log \in [Ids -> DiskRecord]
  /\ snap \in [Ids -> DiskRecord]
  /\ io \in [Tasks -> {"start", "appended", "imaged"}]
  /\ image \in [Tasks -> [Ids -> DiskRecord]]
  /\ late \in [Ids -> Nat]
  /\ faults \in Nat
  /\ lost \in SUBSET Ids
  /\ done \in SUBSET Ids
  /\ crashes \in Nat

(* A call on transfer i has yet to write its event. *)
Unwritten(i) ==
  \E c \in Clients : cpc[c] # "idle" /\ creq[c].id = i /\ io[c] = "start"

(* A transfer in memory is on disk once the calls on it have written their *)
(* events, whatever snapshots, taken earlier, other tasks publish over     *)
(* each other and wherever the daemon crashes: a failed write of an event  *)
(* costs no transfer but its own.                                          *)
AcceptedIsDurable ==
  \A i \in Ids \ lost :
    status[i] # "absent" /\ ~Unwritten(i) => Recovered(i).status # "absent"

(* Completed is never claimed, in memory or by what a restart would load,  *)
(* for a transfer none of whose jobs ran to its end.                       *)
CompletedIsTrue ==
  \A i \in Ids :
    status[i] = "Completed" \/ Recovered(i).status = "Completed" => i \in done

(* docs/sct-daemon-ops.md: "If the daemon restarts while a transfer is     *)
(* `active`, it is recovered as `queued`."  Stated when every call on it   *)
(* has written its event and the snapshot on disk has it as active too.    *)
ActiveRecoversQueued ==
  \A i \in Ids :
    status[i] = "Active" /\ ~Unwritten(i) /\ snap[i].status = "Active"
      => Recovered(i).status = "Queued"

(* docs/sct-daemon-ops.md: "`cancelled` transfers are not requeued on      *)
(* startup."  Stated when no call and no task is still running.            *)
Quiet ==
  /\ \A c \in Clients : cpc[c] = "idle"
  /\ \A w \in Workers : wpc[w] = "idle"
CancelledNotRequeued ==
  \A i \in Ids :
    Quiet /\ status[i] = "Cancelled" => Recovered(i).status # "Queued"
=============================================================================
