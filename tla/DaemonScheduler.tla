--------------------------- MODULE DaemonScheduler ---------------------------
(***************************************************************************)
(* The in-memory half of sct-daemon (crates/sct-daemon/src/main.rs): the   *)
(* API handlers, the priority queue, the scheduler task and the worker     *)
(* tasks it spawns.  Every action is one critical section of the code: the *)
(* handlers and tasks give up the processor only where they wait for a     *)
(* lock, a permit, the disk or the network, and each of records, queue,    *)
(* sequence and cancels has a lock of its own.                             *)
(*                                                                         *)
(* Writing the event log and the snapshot touches none of this state and   *)
(* is the single step Journal (of a handler) or WorkerJournal and          *)
(* WorkerEnd (of a worker); module DaemonRecovery splits those steps and   *)
(* adds the disk, crashes and restarts.                                    *)
(***************************************************************************)
EXTENDS Integers, FiniteSets

CONSTANTS
  Ids,             \* transfer ids; submit_transfer draws a fresh one
  Clients,         \* API calls that can be in flight at once
  Workers,         \* worker tasks that can exist at once
  RequestPriority, \* the priorities (u8) that requests carry
  MaxConcurrent,   \* server.max_concurrent_transfers
  JobKind,         \* what run_transfer_job makes of each transfer
  MaxCalls         \* bound: API calls in one behaviour

ASSUME ConstantsAssumption ==
  /\ RequestPriority \subseteq 0..255
  /\ MaxConcurrent \in Nat \ {0}
  /\ MaxCalls \in Nat
  /\ JobKind \in [Ids -> {"send", "recv", "copy", "other"}]
  /\ IsFiniteSet(Workers)
  /\ Ids # {}

VARIABLES
  status,    \* records[i].status, "absent" before the record exists
  prio,      \* records[i].priority
  queue,     \* the BinaryHeap of QueueEntry
  seq,       \* AppState.sequence
  chan,      \* cancels[i]: "none", or the value of the watch channel
  schedPc,   \* where the scheduler task is
  held,      \* the entry it popped
  permits,   \* free permits of the semaphore
  wpc,       \* where each worker task is
  wid,       \* the transfer it runs
  rx,        \* its cancel_rx: "none", "open", or "closed" (sender dropped)
  cpc,       \* where each API call is
  creq,      \* its locals: id, priority (0: none in the event) and status
  calls      \* API calls made so far

daemonVars == <<status, prio, queue, seq, chan, schedPc, held, permits,
                wpc, wid, rx, cpc, creq, calls>>

records == <<status, prio>>
scheduler == <<schedPc, held>>
workers == <<wpc, wid, rx>>
clients == <<cpc, creq, calls>>

Status == {"absent", "Queued", "Active", "Completed", "Failed", "Cancelled"}
Priority == 1..10
Entry == [prio : Priority, seq : Nat, id : Ids]
Request == [id : Ids, prio : 0..10, status : Status]

SchedulerPc == {"pop", "check", "acquire"}
WorkerPc == {"idle", "spawned", "started", "subscribe", "select", "running",
             "received", "erred", "finish"}
ClientPc == {"idle", "channel", "enqueue_new", "enqueue", "signal", "journal"}

(* Locals that are out of scope hold these values. *)
AnyId == CHOOSE i \in Ids : TRUE
NoEntry == [prio |-> 1, seq |-> 0, id |-> AnyId]
NoRequest == [id |-> AnyId, prio |-> 0, status |-> "absent"]

Init ==
  /\ status = [i \in Ids |-> "absent"]
  /\ prio = [i \in Ids |-> 1]
  /\ queue = {}
  /\ seq = 0
  /\ chan = [i \in Ids |-> "none"]
  /\ schedPc = "pop"
  /\ held = NoEntry
  /\ permits = MaxConcurrent
  /\ wpc = [w \in Workers |-> "idle"]
  /\ wid = [w \in Workers |-> AnyId]
  /\ rx = [w \in Workers |-> "none"]
  /\ cpc = [c \in Clients |-> "idle"]
  /\ creq = [c \in Clients |-> NoRequest]
  /\ calls = 0

-----------------------------------------------------------------------------
(* API handlers *)

(* Clamp without the clamp *)
ClampMissing(p) == p

(* u8::clamp(1, 10) *)
Clamp(p) == IF p < 1 THEN 1 ELSE IF p > 10 THEN 10 ELSE p

(* A call arrives and runs up to its first lock release after the records  *)
(* update; its locals go to creq.                                          *)
Call(c, pc, req) ==
  /\ cpc[c] = "idle"
  /\ calls < MaxCalls
  /\ calls' = calls + 1
  /\ cpc' = [cpc EXCEPT ![c] = pc]
  /\ creq' = [creq EXCEPT ![c] = req]

(* submit_transfer: the record is visible (list_transfers) from here on,   *)
(* before its cancel channel and its queue entry exist.                    *)
Submit(c, i, p) ==
  /\ status[i] = "absent"
  /\ Call(c, "channel", [id |-> i, prio |-> Clamp(p), status |-> "Queued"])
  /\ status' = [status EXCEPT ![i] = "Queued"]
  /\ prio' = [prio EXCEPT ![i] = Clamp(p)]
  /\ UNCHANGED <<queue, seq, chan, scheduler, permits, workers>>

(* cancels.insert: a channel a worker created meanwhile is dropped, and    *)
(* with it the sender that the worker's receiver waits on.                 *)
InsertChannel(c) ==
  /\ cpc[c] = "channel"
  /\ cpc' = [cpc EXCEPT ![c] = "enqueue_new"]
  /\ chan' = [chan EXCEPT ![creq[c].id] = "false"]
  /\ rx' = [w \in Workers |->
              IF rx[w] = "open" /\ wid[w] = creq[c].id THEN "closed" ELSE rx[w]]
  /\ UNCHANGED <<records, queue, seq, scheduler, permits, wpc, wid, creq, calls>>

(* enqueue_transfer *)
Enqueue(c) ==
  /\ cpc[c] \in {"enqueue_new", "enqueue"}
  /\ cpc' = [cpc EXCEPT ![c] = "journal"]
  /\ seq' = seq + 1
  /\ queue' = queue \cup
       {[prio |-> Clamp(creq[c].prio), seq |-> seq + 1, id |-> creq[c].id]}
  /\ UNCHANGED <<records, chan, scheduler, permits, workers, creq, calls>>

(* cancel_transfer, whatever the status of the record *)
Cancel(c, i) ==
  /\ status[i] # "absent"
  /\ Call(c, "signal", [id |-> i, prio |-> 0, status |-> "Cancelled"])
  /\ status' = [status EXCEPT ![i] = "Cancelled"]
  /\ UNCHANGED <<prio, queue, seq, chan, scheduler, permits, workers>>

(* A worker holds a receiver of the channel of transfer i. *)
Listening(i) == \E w \in Workers : rx[w] = "open" /\ wid[w] = i

(* submit_transfer drops its own receiver at some point before Enqueue.    *)
SubmitListening(i) ==
  \E c \in Clients : cpc[c] = "enqueue_new" /\ creq[c].id = i

(* watch::Sender::send keeps the old value when nobody holds a receiver.   *)
Signal(c) ==
  /\ cpc[c] = "signal"
  /\ cpc' = [cpc EXCEPT ![c] = "journal"]
  /\ LET i == creq[c].id IN
       \/ /\ chan[i] # "none"
          /\ Listening(i) \/ SubmitListening(i)
          /\ chan' = [chan EXCEPT ![i] = "true"]
       \/ /\ chan[i] = "none" \/ ~Listening(i)
          /\ UNCHANGED chan
  /\ UNCHANGED <<records, queue, seq, scheduler, permits, workers, creq, calls>>

(* update_priority that trusts an entry already in the heap *)
UpdatePriorityKeepsEntry(c, i, p) ==
  /\ status[i] # "absent"
  /\ LET requeue == status[i] \notin {"Active", "Queued"}
         now == IF requeue THEN "Queued" ELSE status[i]
     IN /\ Call(c, IF requeue THEN "enqueue" ELSE "journal",
                [id |-> i, prio |-> Clamp(p), status |-> now])
        /\ status' = [status EXCEPT ![i] = now]
  /\ prio' = [prio EXCEPT ![i] = Clamp(p)]
  /\ UNCHANGED <<queue, seq, chan, scheduler, permits, workers>>

(* update_priority: anything but an active transfer is (re)queued. *)
UpdatePriority(c, i, p) ==
  /\ status[i] # "absent"
  /\ LET requeue == status[i] # "Active"
         now == IF requeue THEN "Queued" ELSE "Active"
     IN /\ Call(c, IF requeue THEN "enqueue" ELSE "journal",
                [id |-> i, prio |-> Clamp(p), status |-> now])
        /\ status' = [status EXCEPT ![i] = now]
  /\ prio' = [prio EXCEPT ![i] = Clamp(p)]
  /\ UNCHANGED <<queue, seq, chan, scheduler, permits, workers>>

(* append_event and persist_records, then the response *)
Journal(c) ==
  /\ cpc[c] = "journal"
  /\ cpc' = [cpc EXCEPT ![c] = "idle"]
  /\ creq' = [creq EXCEPT ![c] = NoRequest]
  /\ UNCHANGED <<records, queue, seq, chan, scheduler, permits, workers, calls>>

-----------------------------------------------------------------------------
(* The scheduler task (spawn_scheduler) *)

(* The order of (Reverse(priority), seq, id) in the heap: the smallest     *)
(* priority number on top, and of equal ones the entry pushed last.        *)
Above(e, f) == e.prio < f.prio \/ (e.prio = f.prio /\ e.seq >= f.seq)

SchedulerPop ==
  /\ schedPc = "pop"
  /\ \E e \in queue :
       /\ \A f \in queue : Above(e, f)
       /\ held' = e
       /\ queue' = queue \ {e}
  /\ schedPc' = "check"
  /\ UNCHANGED <<records, seq, chan, permits, workers, clients>>

SchedulerSleep ==
  /\ schedPc = "pop"
  /\ queue = {}
  /\ UNCHANGED daemonVars

SchedulerCheck ==
  /\ schedPc = "check"
  /\ \/ /\ status[held.id] = "Queued"
        /\ prio[held.id] = held.prio
        /\ schedPc' = "acquire"
        /\ UNCHANGED held
     \/ /\ status[held.id] # "Queued" \/ prio[held.id] # held.prio
        /\ schedPc' = "pop"
        /\ held' = NoEntry
  /\ UNCHANGED <<records, queue, seq, chan, permits, workers, clients>>

(* acquire_owned waits for a permit with the entry in hand; then spawn. *)
SchedulerSpawn(w) ==
  /\ schedPc = "acquire"
  /\ permits > 0
  /\ wpc[w] = "idle"
  /\ permits' = permits - 1
  /\ wpc' = [wpc EXCEPT ![w] = "spawned"]
  /\ wid' = [wid EXCEPT ![w] = held.id]
  /\ schedPc' = "pop"
  /\ held' = NoEntry
  /\ UNCHANGED <<records, queue, seq, chan, rx, clients>>

-----------------------------------------------------------------------------
(* A worker task and the job it runs *)

(* Exit that forgets the permit *)
ExitKeepsPermit(w) ==
  /\ wpc' = [wpc EXCEPT ![w] = "idle"]
  /\ wid' = [wid EXCEPT ![w] = AnyId]
  /\ rx' = [rx EXCEPT ![w] = "none"]
  /\ UNCHANGED permits

(* A worker that ends drops its receiver and its permit. *)
Exit(w) ==
  /\ wpc' = [wpc EXCEPT ![w] = "idle"]
  /\ wid' = [wid EXCEPT ![w] = AnyId]
  /\ rx' = [rx EXCEPT ![w] = "none"]
  /\ permits' = permits + 1

Goto(w, pc) ==
  /\ wpc' = [wpc EXCEPT ![w] = pc]
  /\ UNCHANGED <<wid, rx, permits>>

(* Nothing but a cancellation stops a spawned worker from starting. *)
WorkerStart(w) ==
  /\ wpc[w] = "spawned"
  /\ \/ /\ status[wid[w]] = "Cancelled"
        /\ Exit(w)
        /\ UNCHANGED status
     \/ /\ status[wid[w]] # "Cancelled"
        /\ status' = [status EXCEPT ![wid[w]] = "Active"]
        /\ Goto(w, "started")
  /\ UNCHANGED <<prio, queue, seq, chan, scheduler, clients>>

(* the "started" event and a snapshot *)
WorkerJournal(w) ==
  /\ wpc[w] = "started"
  /\ Goto(w, "subscribe")
  /\ UNCHANGED <<records, queue, seq, chan, scheduler, clients>>

Subscribe(w) ==
  /\ wpc[w] = "subscribe"
  /\ wpc' = [wpc EXCEPT ![w] = "select"]
  /\ rx' = [rx EXCEPT ![w] = "open"]
  /\ chan' = [chan EXCEPT ![wid[w]] = IF @ = "none" THEN "false" ELSE @]
  /\ UNCHANGED <<records, queue, seq, scheduler, permits, wid, clients>>

(* JobBegin that trusts the signal alone *)
JobBeginUnchecked(w) ==
  /\ wpc[w] = "select"
  /\ Goto(w, "running")
  /\ UNCHANGED <<records, queue, seq, chan, scheduler, clients>>

(* run_transfer_job up to its first lock release *)
JobBegin(w) ==
  /\ wpc[w] = "select"
  /\ Goto(w, IF status[wid[w]] = "Cancelled" THEN "finish" ELSE "running")
  /\ UNCHANGED <<records, queue, seq, chan, scheduler, clients>>

(* The other branch of the select: wait_for returns when the value is true *)
(* and when the sender is gone.  The job is dropped where it stands.       *)
Signalled(w) ==
  \/ rx[w] = "closed"
  \/ rx[w] = "open" /\ chan[wid[w]] = "true"

JobDropped(w) ==
  /\ wpc[w] \in {"select", "running", "received"}
  /\ Signalled(w)
  /\ Goto(w, "finish")
  /\ UNCHANGED <<records, queue, seq, chan, scheduler, clients>>

(* The copy loop looks at the status before every block. *)
CopySeesCancel(w) ==
  /\ wpc[w] = "running"
  /\ JobKind[wid[w]] = "copy"
  /\ status[wid[w]] = "Cancelled"
  /\ Goto(w, "finish")
  /\ UNCHANGED <<records, queue, seq, chan, scheduler, clients>>

(* accept_transfer returned; the last progress is recorded under a lock of *)
(* its own before the lock that completes the record.                      *)
ReceiveDone(w) ==
  /\ wpc[w] = "running"
  /\ JobKind[wid[w]] = "recv"
  /\ Goto(w, "received")
  /\ UNCHANGED <<records, queue, seq, chan, scheduler, clients>>

JobCompletes(w) ==
  /\ \/ wpc[w] = "running" /\ JobKind[wid[w]] \in {"send", "copy"}
     \/ wpc[w] = "received"
  /\ status' = [status EXCEPT ![wid[w]] =
                  IF @ = "Cancelled" THEN @ ELSE "Completed"]
  /\ Goto(w, "finish")
  /\ UNCHANGED <<prio, queue, seq, chan, scheduler, clients>>

(* Any I/O of the job can fail, and an unsupported scheme always does. *)
JobErrs(w) ==
  /\ wpc[w] = "running"
  /\ Goto(w, "erred")
  /\ UNCHANGED <<records, queue, seq, chan, scheduler, clients>>

RecordFailure(w) ==
  /\ wpc[w] = "erred"
  /\ status' = [status EXCEPT ![wid[w]] = "Failed"]
  /\ Goto(w, "finish")
  /\ UNCHANGED <<prio, queue, seq, chan, scheduler, clients>>

(* the last snapshot; then the task's locals are dropped *)
WorkerEnd(w) ==
  /\ wpc[w] = "finish"
  /\ Exit(w)
  /\ UNCHANGED <<records, queue, seq, chan, scheduler, clients>>

-----------------------------------------------------------------------------
ClientNext(c) ==
  \/ \E i \in Ids, p \in RequestPriority : Submit(c, i, p)
  \/ InsertChannel(c)
  \/ Enqueue(c)
  \/ \E i \in Ids : Cancel(c, i)
  \/ Signal(c)
  \/ \E i \in Ids, p \in RequestPriority : UpdatePriority(c, i, p)
  \/ Journal(c)

SchedulerNext ==
  \/ SchedulerPop
  \/ SchedulerSleep
  \/ SchedulerCheck
  \/ \E w \in Workers : SchedulerSpawn(w)

WorkerNext(w) ==
  \/ WorkerStart(w)
  \/ WorkerJournal(w)
  \/ Subscribe(w)
  \/ JobBegin(w)
  \/ JobDropped(w)
  \/ CopySeesCancel(w)
  \/ ReceiveDone(w)
  \/ JobCompletes(w)
  \/ JobErrs(w)
  \/ RecordFailure(w)
  \/ WorkerEnd(w)

Next ==
  \/ \E c \in Clients : ClientNext(c)
  \/ SchedulerNext
  \/ \E w \in Workers : WorkerNext(w)

Spec == Init /\ [][Next]_daemonVars

(* The runtime polls every task that can go on.  Nothing is assumed of the *)
(* clients' next call, nor of a job: a transfer may take forever (recv     *)
(* waits for a peer to connect).                                           *)
ClientContinues(c) == InsertChannel(c) \/ Enqueue(c) \/ Signal(c) \/ Journal(c)
SchedulerContinues ==
  SchedulerPop \/ SchedulerCheck \/ \E w \in Workers : SchedulerSpawn(w)
WorkerContinues(w) ==
  \/ WorkerStart(w) \/ WorkerJournal(w) \/ Subscribe(w) \/ JobBegin(w)
  \/ JobDropped(w) \/ RecordFailure(w) \/ WorkerEnd(w)
  \/ wpc[w] = "received" /\ JobCompletes(w)

FairSpec ==
  /\ Spec
  /\ \A c \in Clients : WF_daemonVars(ClientContinues(c))
  /\ WF_daemonVars(SchedulerContinues)
  /\ \A w \in Workers : WF_daemonVars(WorkerContinues(w))

-----------------------------------------------------------------------------
TypeOK ==
  /\ status \in [Ids -> Status]
  /\ prio \in [Ids -> Priority]
  /\ queue \in SUBSET Entry
  /\ seq \in Nat
  /\ chan \in [Ids -> {"none", "false", "true"}]
  /\ schedPc \in SchedulerPc
  /\ held \in Entry
  /\ permits \in Nat
  /\ wpc \in [Workers -> WorkerPc]
  /\ wid \in [Workers -> Ids]
  /\ rx \in [Workers -> {"none", "open", "closed"}]
  /\ cpc \in [Clients -> ClientPc]
  /\ creq \in [Clients -> Request]
  /\ calls \in Nat

(* Something in flight will still bring transfer i to a worker: an entry   *)
(* that the scheduler will not discard, a handler about to push one, or    *)
(* the scheduler or a spawned worker that is already committed to it.      *)
Carried(i) ==
  \/ \E e \in queue : e.id = i /\ e.prio = prio[i]
  \/ \E c \in Clients :
       /\ cpc[c] \in {"channel", "enqueue_new", "enqueue"}
       /\ creq[c].id = i
       /\ creq[c].prio = prio[i]
  \/ schedPc = "check" /\ held.id = i /\ held.prio = prio[i]
  \/ schedPc = "acquire" /\ held.id = i
  \/ \E w \in Workers : wpc[w] = "spawned" /\ wid[w] = i

(* A queued transfer is never lost: although update_priority leaves stale  *)
(* entries in the heap and the scheduler throws away every entry whose     *)
(* priority is not the record's, a record with status Queued always has    *)
(* something that will bring it to a worker.                               *)
NoLostQueued == \A i \in Ids : status[i] = "Queued" => Carried(i)

Busy == {w \in Workers : wpc[w] # "idle"}

(* The semaphore bounds the worker tasks, and no path through a worker     *)
(* (cancelled before the start, dropped job, failure) leaks or returns a   *)
(* permit twice: free permits and live workers always add up.              *)
PermitsAccounted == permits + Cardinality(Busy) = MaxConcurrent

(* An active record is being worked on: some worker has set it Active and  *)
(* not yet left (docs/sct-daemon-ops.md: "active: worker currently         *)
(* executing").                                                            *)
ActiveHasWorker ==
  \A i \in Ids : status[i] = "Active" =>
    \E w \in Workers : wpc[w] \notin {"idle", "spawned"} /\ wid[w] = i

(* A cancellation reaches every worker of the transfer, wherever it is     *)
(* between being spawned and ending, although send loses the signal when   *)
(* no receiver exists yet: unless the record is re-queued (or overwritten  *)
(* by a failure), no worker of it is left in the end.                      *)
CancelStopsWorkers ==
  \A i \in Ids :
    status[i] = "Cancelled" ~>
      \/ status[i] # "Cancelled"
      \/ \A w \in Busy : wid[w] # i

(* Every queued transfer leaves the queue, started by a worker or          *)
(* cancelled, provided that no job runs forever.                           *)
JobsEnd == \A w \in Workers : []<>(wpc[w] # "running")
QueuedIsServed ==
  JobsEnd => \A i \in Ids : status[i] = "Queued" ~> status[i] # "Queued"
=============================================================================
