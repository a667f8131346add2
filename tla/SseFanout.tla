----------------------------- MODULE SseFanout -----------------------------
(***************************************************************************)
(* HttpSseTransport (sc-transport-sse): the events of one run are sent to  *)
(* a tokio broadcast channel; every subscription has a receiver on it and  *)
(* a task that forwards to a bounded queue, from which the subscriber      *)
(* reads its stream.  Runs do not share anything but the counters.         *)
(*                                                                         *)
(* A broadcast channel numbers its events.  A receiver holds the number of *)
(* the next one; if that has already left the ring of Capacity events, the *)
(* receiver is told so (Lagged).  The ring is the end of feed.             *)
(***************************************************************************)
EXTENDS Integers, Sequences, FiniteSets

CONSTANTS
    Subs,           \* subscriptions
    Capacity,       \* of the broadcast channel (1024)
    InboxSize       \* of the queue of one subscription (256)

ASSUME FanoutAssumption == Capacity \in Nat \ {0} /\ InboxSize \in Nat \ {0}

VARIABLES
    feed,       \* all events sent to the channel
    closed,     \* the transport, and with it the sender, was dropped
    reached,    \* SSE events_delivered: sends that had a receiver
    active,     \* active_subscribers
    since,      \* length of feed at the subscription, or -1
    cursor,     \* number of events the receiver has taken or skipped
    fwd,        \* where the forwarding task stands
    hand,       \* what it is about to put into the queue
    inbox,      \* the queue
    kept,       \* the subscriber still holds the stream
    seen,       \* events the subscriber has read
    failed      \* the subscriber has read an error

subscription == <<since, cursor, fwd, hand, inbox, kept, seen, failed>>
sseVars == <<feed, closed, reached, active, subscription>>

(* The item Err(Unavailable) of a stream; events are natural numbers. *)
Error == -1

SseInit ==
    /\ feed = << >> /\ closed = FALSE /\ reached = 0 /\ active = 0
    /\ since = [s \in Subs |-> -1] /\ cursor = [s \in Subs |-> 0]
    /\ fwd = [s \in Subs |-> "none"] /\ hand = [s \in Subs |-> Error]
    /\ inbox = [s \in Subs |-> << >>] /\ kept = [s \in Subs |-> FALSE]
    /\ seen = [s \in Subs |-> << >>] /\ failed = [s \in Subs |-> FALSE]

(* A receiver lives as long as its forwarding task. *)
Forwarding(s) == fwd[s] \in {"recv", "send", "error"}

(* HttpSseTransport::send_event.  Without receivers the event is lost and  *)
(* the answer is Sent instead of Delivered.                                *)
Publish(e) ==
    /\ ~closed
    /\ feed' = Append(feed, e)
    /\ reached' = reached + IF \E s \in Subs : Forwarding(s) THEN 1 ELSE 0
    /\ UNCHANGED <<closed, active, subscription>>

(* HttpSseTransport::subscribe. *)
Subscribe(s) ==
    /\ ~closed /\ fwd[s] = "none"
    /\ since' = [since EXCEPT ![s] = Len(feed)]
    /\ cursor' = [cursor EXCEPT ![s] = Len(feed)]
    /\ fwd' = [fwd EXCEPT ![s] = "recv"]
    /\ kept' = [kept EXCEPT ![s] = TRUE]
    /\ active' = active + 1
    /\ UNCHANGED <<feed, closed, reached, hand, inbox, seen, failed>>

(* The next event of the receiver has left the ring. *)
Lagged(s) == cursor[s] + Capacity < Len(feed)

(* Mutant of Receive: it goes on behind the gap. *)
ReceiveSkips(s) ==
    /\ fwd[s] = "recv" /\ cursor[s] < Len(feed)
    /\ LET next == IF Lagged(s) THEN Len(feed) - Capacity ELSE cursor[s]
       IN  /\ hand' = [hand EXCEPT ![s] = feed[next + 1]]
           /\ cursor' = [cursor EXCEPT ![s] = next + 1]
    /\ fwd' = [fwd EXCEPT ![s] = "send"]
    /\ UNCHANGED <<feed, closed, reached, active, since, inbox, kept, seen, failed>>

(* rx.recv() of the forwarding task: an event, or Lagged, or Closed.       *)
(* A lagged receiver is not forwarded to the oldest event that is left:    *)
(* the task ends with the error.                                           *)
Receive(s) ==
    /\ fwd[s] = "recv"
    /\ \/ /\ ~Lagged(s) /\ cursor[s] < Len(feed)
          /\ hand' = [hand EXCEPT ![s] = feed[cursor[s] + 1]]
          /\ cursor' = [cursor EXCEPT ![s] = @ + 1]
          /\ fwd' = [fwd EXCEPT ![s] = "send"]
       \/ /\ Lagged(s) \/ (closed /\ cursor[s] = Len(feed))
          /\ hand' = [hand EXCEPT ![s] = Error]
          /\ fwd' = [fwd EXCEPT ![s] = "error"]
          /\ UNCHANGED cursor
    /\ UNCHANGED <<feed, closed, reached, active, since, inbox, kept, seen, failed>>

(* Mutant of Forward: a task that ends with an error stays counted. *)
ForwardLeaks(s) ==
    /\ fwd[s] \in {"send", "error"}
    /\ kept[s] => Len(inbox[s]) < InboxSize
    /\ inbox' = IF kept[s] THEN [inbox EXCEPT ![s] = Append(@, hand[s])] ELSE inbox
    /\ fwd' = [fwd EXCEPT ![s] = IF kept[s] /\ fwd[s] = "send" THEN "recv" ELSE "done"]
    /\ active' = IF fwd[s] = "send" /\ ~kept[s] THEN active - 1 ELSE active
    /\ UNCHANGED <<feed, closed, reached, since, cursor, hand, kept, seen, failed>>

(* event_tx.send: waits while the queue is full, fails when the stream was *)
(* dropped.  After an error or a failed send the task ends.                *)
Forward(s) ==
    /\ fwd[s] \in {"send", "error"}
    /\ kept[s] => Len(inbox[s]) < InboxSize
    /\ inbox' = IF kept[s] THEN [inbox EXCEPT ![s] = Append(@, hand[s])] ELSE inbox
    /\ IF kept[s] /\ fwd[s] = "send"
       THEN fwd' = [fwd EXCEPT ![s] = "recv"] /\ UNCHANGED active
       ELSE fwd' = [fwd EXCEPT ![s] = "done"] /\ active' = active - 1
    /\ UNCHANGED <<feed, closed, reached, since, cursor, hand, kept, seen, failed>>

(* The subscriber (not part of the crate) reads its stream or drops it. *)
Read(s) ==
    /\ kept[s] /\ inbox[s] # << >>
    /\ inbox' = [inbox EXCEPT ![s] = Tail(@)]
    /\ IF Head(inbox[s]) = Error
       THEN failed' = [failed EXCEPT ![s] = TRUE] /\ UNCHANGED seen
       ELSE seen' = [seen EXCEPT ![s] = Append(@, Head(inbox[s]))] /\ UNCHANGED failed
    /\ UNCHANGED <<feed, closed, reached, active, since, cursor, fwd, hand, kept>>

Unsubscribe(s) ==
    /\ kept[s]
    /\ kept' = [kept EXCEPT ![s] = FALSE]
    /\ inbox' = [inbox EXCEPT ![s] = << >>]
    /\ UNCHANGED <<feed, closed, reached, active, since, cursor, fwd, hand, seen, failed>>

(* The transport is dropped; the channels go with it. *)
Close ==
    /\ ~closed /\ closed' = TRUE
    /\ UNCHANGED <<feed, reached, active, subscription>>

SubscriberStep(s) ==
    Subscribe(s) \/ Receive(s) \/ Forward(s) \/ Read(s) \/ Unsubscribe(s)

SseNext == Close \/ (\E e \in Nat : Publish(e)) \/ \E s \in Subs : SubscriberStep(s)

SseSpec == SseInit /\ [][SseNext]_sseVars

FanoutTypeOK ==
    /\ feed \in Seq(Nat) /\ closed \in BOOLEAN /\ reached \in Nat
    /\ since \in [Subs -> Nat \cup {-1}] /\ cursor \in [Subs -> Nat]
    /\ fwd \in [Subs -> {"none", "recv", "send", "error", "done"}]
    /\ hand \in [Subs -> Nat \cup {Error}] /\ inbox \in [Subs -> Seq(Nat \cup {Error})]
    /\ kept \in [Subs -> BOOLEAN] /\ seen \in [Subs -> Seq(Nat)]
    /\ failed \in [Subs -> BOOLEAN] /\ active \in Int

Live == INSTANCE LiveFeed WITH
    published <- feed, gone <- closed, joined <- since, view <- seen, over <- failed

(* The SSE fan-out keeps the promise of LiveFeed: a subscriber sees a      *)
(* gapless stretch of the events in order, however slow it is; the stream  *)
(* of one that is too slow ends with an error (the Lagged of the broadcast *)
(* channel) and never goes on behind a gap.                                *)
FeedIsLive == Live!Spec
=============================================================================
