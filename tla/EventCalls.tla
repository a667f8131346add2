----------------------------- MODULE EventCalls -----------------------------
(***************************************************************************)
(* Calls of Transport::send_event (sc-transport-core).  Any number of      *)
(* tasks call the transport the process has chosen; each call is about a   *)
(* new event, known by its number, and ends with a DeliveryStatus.  All    *)
(* three transports hold an HttpSseTransport: SSE itself, and the two QUIC *)
(* transports as their fallback, whose subscribers are theirs.  They keep  *)
(* the counters that metrics() reports.                                    *)
(***************************************************************************)
EXTENDS SseFanout

CONSTANTS
    Callers,        \* tasks that send events
    Shapes,         \* shapes of events, for each transport
    MaxEvents       \* bound: events sent, for each transport

(* An event is what the transports look at: whether it is a Progress       *)
(* event, the flags force_fallback and simulated_loss of its payload, its  *)
(* encoded size, and its size with the payload cut to a summary.           *)
Shape == [progress : BOOLEAN, force : BOOLEAN, loss : BOOLEAN,
          size : Nat, summary : Nat]

Transports == {"sse", "datagram", "quic"}

ASSUME CallsAssumption ==
    /\ Shapes \in [Transports -> SUBSET Shape]
    /\ MaxEvents \in [Transports -> Nat]

VARIABLES
    transport,  \* the transport in use
    enabled,    \* the crate was built with quic-streams or quic-datagrams
    pc,         \* where a caller stands
    ev,         \* the event of its call
    shape,      \* the events so far
    answer,     \* what send_event returned for them, "none" before
    sent,       \* events_sent
    delivered,  \* events_delivered
    dropped,    \* events_dropped
    fallbacks   \* fallback_count

outcome == <<answer, delivered, dropped, fallbacks>>
counters == <<sent, delivered, dropped, fallbacks>>
callVars == <<transport, enabled, pc, ev, shape, answer, counters>>

(* The TransportFallback event that announces a fallback. *)
Notice == 0

Events == 1 .. Len(shape)

(* DeliveryStatus::FellBack, by its reason. *)
FellBack == {"forced", "oversize", "policy", "loss", "disabled", "send_failed"}

CallsInit ==
    /\ transport \in Transports /\ enabled \in BOOLEAN
    /\ pc = [c \in Callers |-> "idle"] /\ ev = [c \in Callers |-> 0]
    /\ shape = << >> /\ answer = << >>
    /\ sent = 0 /\ delivered = 0 /\ dropped = 0 /\ fallbacks = 0

Goto(c, l) == pc' = [pc EXCEPT ![c] = l] /\ UNCHANGED ev

(* The call returns. *)
Return(c, a) ==
    /\ answer' = [answer EXCEPT ![ev[c]] = a]
    /\ pc' = [pc EXCEPT ![c] = "idle"] /\ ev' = [ev EXCEPT ![c] = 0]

(* A task may begin to send an event of shape x over transport t. *)
MaySend(c, t, x) ==
    /\ ~closed /\ transport = t /\ pc[c] = "idle"
    /\ Len(shape) < MaxEvents[t] /\ x \in Shapes[t]

(* Both QUIC transports count the event before they do anything else. *)
Begin(c, t, x, first) ==
    /\ MaySend(c, t, x)
    /\ shape' = Append(shape, x) /\ answer' = Append(answer, "none")
    /\ ev' = [ev EXCEPT ![c] = Len(shape) + 1]
    /\ sent' = sent + 1
    /\ pc' = [pc EXCEPT ![c] = first]
    /\ UNCHANGED <<transport, enabled, delivered, dropped, fallbacks, sseVars>>

(* HttpSseTransport as the transport: it waits only for the channel map. *)
SseSend(c) == \E x \in Shapes["sse"] :
    /\ MaySend(c, "sse", x)
    /\ shape' = Append(shape, x)
    /\ Publish(Len(shape) + 1)
    /\ sent' = sent + 1 /\ delivered' = delivered + (reached' - reached)
    /\ answer' = Append(answer, IF reached' > reached THEN "Delivered" ELSE "Sent")
    /\ UNCHANGED <<transport, enabled, pc, ev, dropped, fallbacks>>

(* A call holds a reference to the transport: it is dropped between calls. *)
DropTransport ==
    /\ \A c \in Callers : pc[c] = "idle"
    /\ Close
    /\ UNCHANGED callVars

(* What no step of a call after the first one changes. *)
SameCall == UNCHANGED <<transport, enabled, shape, sent>>

Occurrences(e, q) == Cardinality({i \in DOMAIN q : q[i] = e})
InProgress(e) == \E c \in Callers : pc[c] # "idle" /\ ev[c] = e

CallsTypeOK ==
    /\ transport \in Transports /\ enabled \in BOOLEAN
    /\ ev \in [Callers -> 0 .. Len(shape)]
    /\ shape \in Seq(Shape) /\ Len(answer) = Len(shape)
    /\ answer \in Seq({"none", "Sent", "Delivered", "Dropped", "batch"} \cup FellBack)
    /\ sent \in Nat /\ delivered \in Nat /\ dropped \in Nat /\ fallbacks \in Nat
=============================================================================
