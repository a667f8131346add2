----------------------------- MODULE Telemetry -----------------------------
(***************************************************************************)
(* The telemetry crates together: tasks that send events over one of the   *)
(* three transports, and the subscribers of its SSE fan-out.  "The caller  *)
(* is unaware of which transport is active" (sc-transport-core).           *)
(***************************************************************************)
EXTENDS DatagramEvents, QuicEvents

CONSTANT Subscribers    \* bound: subscriptions made, for each transport

ASSUME TelemetryAssumption == Subscribers \in [Transports -> SUBSET Subs]

vars == <<sseVars, callVars, datagramVars, quicVars>>

Init == SseInit /\ CallsInit /\ DatagramInit /\ QuicInit

CallStep(c) ==
    \/ transport = "datagram" /\ DatagramStep(c) /\ UNCHANGED quicVars
    \/ transport = "quic" /\ QuicStep(c) /\ UNCHANGED datagramVars

SubscriptionStep(s) ==
    /\ s \in Subscribers[transport]
    /\ SubscriberStep(s)
    /\ UNCHANGED <<callVars, datagramVars, quicVars>>

Next ==
    \/ \E c \in Callers : SseSend(c) /\ UNCHANGED <<datagramVars, quicVars>>
    \/ transport = "datagram" /\ DatagramNext /\ UNCHANGED quicVars
    \/ transport = "quic" /\ QuicNext /\ UNCHANGED datagramVars
    \/ \E s \in Subs : SubscriptionStep(s)
    \/ DropTransport /\ UNCHANGED <<datagramVars, quicVars>>

Spec == Init /\ [][Next]_vars

(* The runtime does not rest while a task is ready: a call in progress, a  *)
(* detached send, or a subscription whose subscriber reads its stream as   *)
(* long as it keeps it.  A connect attempt ends with its timeout, a write  *)
(* to a peer that has gone silent with quinn's idle timeout.  New calls    *)
(* and subscriptions and the end of anything are not promised.             *)
Work ==
    \/ \E c \in Callers : CallStep(c)
    \/ transport = "quic" /\ (\E d \in detached : DetachedSend(d)) /\ UNCHANGED datagramVars
    \/ \E s \in Subs :
         /\ Receive(s) \/ Forward(s) \/ Read(s)
         /\ UNCHANGED <<callVars, datagramVars, quicVars>>

Fairness == WF_vars(Work)

FairSpec == Spec /\ Fairness

-----------------------------------------------------------------------------
TelemetryTypeOK ==
    /\ FanoutTypeOK /\ CallsTypeOK
    /\ window \in Seq(BOOLEAN) /\ Len(window) <= LossWindow
    /\ endpoint \in BOOLEAN /\ initBy \in Callers \cup {NoCaller}
    /\ link \in {"none", "up", "lost"} /\ peerCap \in PeerCaps \cup {0}
    /\ onWire \subseteq Events
    /\ conns \in 0 .. MaxConns /\ dead \subseteq 1 .. conns /\ shared \in 0 .. conns
    /\ conn \in [Callers -> 0 .. conns] /\ uni \in 0 .. conns
    /\ elock \in Callers \cup {Nobody} /\ ulock \in Callers \cup {Nobody}
    /\ tries \in [Callers -> 0 .. 2] /\ load \in [Callers -> Seq(Ids)]
    /\ pending \in Seq(Ids) /\ Len(pending) < CoalesceN
    /\ detached \subseteq [on : 1 .. conns, es : Seq(Ids)]
    /\ flight \subseteq [on : 1 .. conns, es : Seq(Ids)]
    /\ got \in [Ids -> Nat] /\ cut \subseteq Ids /\ lost \subseteq Ids

(* Whatever becomes of the datagram, an event sent with                    *)
(* QuicDatagramTransport is put on the SSE fan-out exactly once: also when *)
(* the connection could never be made or is lost for good.  The exceptions *)
(* are events marked as lost, suppressed by the rate limit or too large    *)
(* even as a summary; those are answered Dropped, or FellBack when the     *)
(* loss rate is too high, and reach nobody.                                *)
EventsReachSse ==
    transport = "datagram" =>
        \A e \in Events :
            /\ Occurrences(e, feed) <= 1
            /\ answer[e] # "none" =>
                 \/ Occurrences(e, feed) = 1
                 \/ /\ answer[e] \in {"Dropped", "loss"} /\ e \notin onWire
                    /\ shape[e].loss \/ ~Fits(shape[e]) \/ (shape[e].progress /\ DropEvery > 0)

(* An event sent with QuicStreamTransport takes one route.  Answered       *)
(* FellBack, it was published over SSE once and is in no frame that quinn  *)
(* accepted, so that no peer decodes it too.  Answered Sent, it is in one  *)
(* such frame and in no other, still waits in pending_events or in a frame *)
(* to be sent, or was lost before quinn had it; only an event coalesced or *)
(* left to a detached task waits or is lost like that.  Whether the peer   *)
(* decodes a frame that quinn accepted is not known to the sender.         *)
Waiting(e) ==
    \/ e \in Elements(pending)
    \/ \E c \in Callers : e \in Elements(load[c])
    \/ \E d \in detached : e \in Elements(d.es)

InFrames(e) ==
    got[e] + Cardinality({f \in flight : e \in Elements(f.es)}) + Cardinality({e} \cap cut)

Deferred(x) == (CoalesceN > 1 /\ x.progress) \/ x.size > LargeFrame \/ ~PersistentUni

OneRoute ==
    transport = "quic" =>
        \A e \in Events :
            LET fan == Occurrences(e, feed) IN
            /\ answer[e] \in FellBack => fan = 1 /\ InFrames(e) = 0 /\ ~Waiting(e)
            /\ answer[e] = "Sent" =>
                 /\ fan = IF MirrorSse THEN 1 ELSE 0
                 /\ \/ InFrames(e) = 1 /\ ~Waiting(e) /\ e \notin lost
                    \/ InFrames(e) = 0 /\ Deferred(shape[e]) /\ (Waiting(e) <=> e \notin lost)

(* The counters of metrics() agree with the answers at every moment: an    *)
(* event is counted as sent once, every call that returned was counted as  *)
(* delivered (QUIC) or, unless it was sent, as dropped or fallen back      *)
(* (datagrams), and no fallback is counted or announced twice however the  *)
(* calls overlap.  For datagrams it leaves open whether a fallback for the *)
(* peer's limits ("policy") is counted and one for the loss rate ("loss")  *)
(* is announced: FALLBACK-BEHAVIOR.md says so of both, the code does not.  *)
Answered(set) == Cardinality({e \in Events : answer[e] \in set})
At(set) == Cardinality({c \in Callers : pc[c] \in set})

CountersAgree ==
    /\ active = Cardinality({s \in Subs : Forwarding(s)})
    /\ sent = Len(shape) - Answered({"batch"})
    /\ transport = "sse" => delivered = Answered({"Delivered"}) /\ delivered = reached
    /\ transport = "quic" =>
         /\ sent = delivered + Cardinality({c \in Callers : pc[c] # "idle" /\ ~InBatch(c)})
         /\ Occurrences(Notice, feed) = Answered(FellBack) + At({"divert"})
         /\ fallbacks = Answered(FellBack) + At({"announce", "divert"})
    /\ transport = "datagram" =>
         /\ Occurrences(Notice, feed) - At({"divert"})
              \in Answered({"forced", "oversize", "policy"}) .. Answered(FellBack)
         /\ fallbacks - Cardinality({c \in Callers : /\ pc[c] \in {"announce", "divert"}
                                                     /\ Reason(Mine(c)) # "policy"})
              \in Answered({"forced", "oversize", "loss"}) .. Answered(FellBack)
         /\ dropped = Answered({"Dropped", "loss"}) + At({"copy", "judge"})

(* What send_events_batch reports is what its tasks did: sent_events is    *)
(* the number of its events in frames that quinn accepted, each in one     *)
(* frame, whatever the peer made of them; no chunk failed exactly if that  *)
(* is all of them; and no more tasks than permits write at the same time.  *)
BatchIsExact ==
    /\ \A r \in results :
         /\ r.sent_events = Cardinality({e \in r.events : InFrames(e) = 1})
         /\ \A e \in r.events : InFrames(e) <= 1
         /\ r.failed_chunks = 0 <=> r.sent_events = Cardinality(r.events)
    /\ \A c \in Callers : Cardinality(InState(c, {"opening", "writing"})) <= MaxStreams

(* When no more events are sent, everything comes to rest: every call of   *)
(* send_event or send_events_batch has returned, since no order in which   *)
(* tasks take the endpoint, the stream, the initialiser of the connection  *)
(* or a permit lets them wait for each other and the retry loop ends; and  *)
(* every subscriber that kept reading has seen all events since it joined, *)
(* or an error.                                                            *)
ComesToRest ==
    <>[](/\ \A c \in Callers : pc[c] = "idle"
         /\ \A s \in Subs :
              kept[s] => failed[s] \/ since[s] + Len(seen[s]) = Len(feed))
=============================================================================
