--------------------------- MODULE DatagramEvents ---------------------------
(***************************************************************************)
(* QuicDatagramTransport::send_event (sc-transport-datagrams) with its     *)
(* connection, which is initialised once, its window of loss samples and   *)
(* its SSE fallback.  A step of a call is what happens between two places  *)
(* where it may wait.                                                      *)
(***************************************************************************)
EXTENDS EventCalls

CONSTANTS
    MaxDatagram,        \* max_datagram_bytes
    PreferredDatagram,  \* preferred_datagram_bytes
    SafeMtu,            \* DGRAM_SAFE_MTU
    PeerCaps,           \* datagram sizes a peer may allow, 0 for none at all
    LossWindow,         \* loss_window_size
    MinSamples,         \* samples needed to judge the loss (10)
    LossLimit,          \* effective_fallback_threshold, in percent
    DropEvery           \* progress_drop_every, 0 for never

ASSUME DatagramAssumption ==
    /\ MaxDatagram \in Nat /\ PreferredDatagram \in Nat /\ SafeMtu \in Nat
    /\ PeerCaps \subseteq Nat /\ LossWindow \in Nat \ {0} /\ MinSamples \in Nat \ {0}
    /\ LossLimit \in 5 .. 90 /\ DropEvery \in Nat

VARIABLES
    window,     \* loss_window: TRUE for delivered
    endpoint,   \* client_endpoint has been set
    initBy,     \* the call that initialises the connection, if any
    link,       \* the connection: "none", "up", or "lost" for good
    peerCap,    \* its max_datagram_size
    onWire      \* events sent as datagrams

datagramVars == <<window, endpoint, initBy, link, peerCap, onWire>>
connection == <<endpoint, initBy, link, peerCap>>

NoCaller == "nobody"

DatagramInit ==
    /\ window = << >> /\ endpoint = FALSE /\ initBy = NoCaller
    /\ link = "none" /\ peerCap = 0 /\ onWire = {}

(* Mutant of Sample: the window grows without bound. *)
SampleKeeps(ok) == window' = Append(window, ok)

(* record_loss_sample: the oldest sample leaves a full window. *)
Sample(ok) ==
    LET longer == Append(window, ok)
    IN  window' = IF Len(longer) > LossWindow THEN Tail(longer) ELSE longer

(* should_trigger_fallback_by_loss. *)
TooMuchLoss ==
    /\ Len(window) >= MinSamples
    /\ Occurrences(FALSE, window) * 100 > LossLimit * Len(window)

(* serialize_event_for_datagram: the bytes that would be sent.  An event   *)
(* that is too large is sent with its payload replaced by a summary.       *)
Fits(x) == x.size <= MaxDatagram \/ x.summary <= MaxDatagram
WireSize(x) == IF x.size <= MaxDatagram THEN x.size ELSE x.summary

(* should_drop_for_rate_limit reads the shared counter, which other calls  *)
(* may have raised since this one did.                                     *)
RateLimited(x) ==
    DropEvery > 0 /\ x.progress /\ sent % DropEvery = DropEvery - 1

Mine(c) == shape[ev[c]]

DatagramSend(c) ==
    /\ \E x \in Shapes["datagram"] : Begin(c, "datagram", x, "decide")
    /\ UNCHANGED datagramVars

(* The decisions before anything is sent.  "announce" goes on with the     *)
(* notice and the event over SSE, "judge" with the loss rate.              *)
Decide(c) ==
    /\ pc[c] = "decide"
    /\ LET x == Mine(c) IN
       \/ /\ x.force
          /\ Sample(FALSE) /\ fallbacks' = fallbacks + 1 /\ Goto(c, "announce")
          /\ UNCHANGED <<answer, dropped>>
       \/ /\ ~x.force /\ (x.loss \/ RateLimited(x))
          /\ Sample(FALSE) /\ dropped' = dropped + 1 /\ Goto(c, "judge")
          /\ UNCHANGED <<answer, fallbacks>>
       \/ /\ ~x.force /\ ~x.loss /\ ~RateLimited(x) /\ ~Fits(x)
          /\ Sample(FALSE) /\ dropped' = dropped + 1 /\ Return(c, "Dropped")
          /\ UNCHANGED fallbacks
       \/ /\ ~x.force /\ ~x.loss /\ ~RateLimited(x) /\ Fits(x)
          /\ WireSize(x) > PreferredDatagram
          /\ fallbacks' = fallbacks + 1 /\ Goto(c, "announce")
          /\ UNCHANGED <<answer, dropped, window>>
       \/ /\ ~x.force /\ ~x.loss /\ ~RateLimited(x) /\ Fits(x)
          /\ WireSize(x) <= PreferredDatagram
          /\ IF enabled
             THEN /\ Goto(c, IF WireSize(x) > SafeMtu THEN "announce" ELSE "connect")
                  /\ UNCHANGED <<dropped, window>>
             ELSE /\ Sample(FALSE) /\ dropped' = dropped + 1 /\ Goto(c, "copy")
          /\ UNCHANGED <<answer, fallbacks>>
    /\ SameCall /\ UNCHANGED <<delivered, connection, onWire, sseVars>>

(* Mutant of SendFails: the event is not sent over SSE. *)
SendFailsSilently(c) == Sample(FALSE) /\ dropped' = dropped + 1 /\ Goto(c, "judge")

(* A failed send: one more lost sample, then the event goes over SSE. *)
SendFails(c) == Sample(FALSE) /\ dropped' = dropped + 1 /\ Goto(c, "copy")

(* ensure_connection: one call at a time runs the initialiser, the others  *)
(* wait for its result; if it fails the next one runs its own.  The        *)
(* endpoint can be set only once.                                          *)
Connect(c) ==
    /\ pc[c] = "connect"
    /\ \/ /\ link # "none"
          /\ Goto(c, "transmit") /\ UNCHANGED <<window, dropped, connection>>
       \/ /\ link = "none" /\ initBy = NoCaller /\ ~endpoint
          /\ endpoint' = TRUE /\ initBy' = c /\ Goto(c, "connecting")
          /\ UNCHANGED <<window, dropped, link, peerCap>>
       \/ /\ link = "none" /\ initBy = NoCaller   \* no socket, or endpoint set
          /\ SendFails(c) /\ UNCHANGED connection
    /\ SameCall /\ UNCHANGED <<answer, delivered, fallbacks, onWire, sseVars>>

(* The handshake succeeds, is refused or times out. *)
Handshake(c) ==
    /\ pc[c] = "connecting"
    /\ initBy' = NoCaller
    /\ \/ /\ link' = "up" /\ peerCap' \in PeerCaps /\ Goto(c, "transmit")
          /\ UNCHANGED <<window, dropped>>
       \/ SendFails(c) /\ UNCHANGED <<link, peerCap>>
    /\ SameCall
    /\ UNCHANGED <<answer, delivered, fallbacks, endpoint, onWire, sseVars>>

(* send_event_over_datagram with the connection. *)
Transmit(c) ==
    /\ pc[c] = "transmit"
    /\ \/ /\ WireSize(Mine(c)) > peerCap
          /\ Goto(c, "announce") /\ UNCHANGED <<window, dropped, onWire>>
       \/ /\ WireSize(Mine(c)) <= peerCap /\ link = "up"
          /\ onWire' = onWire \cup {ev[c]}
          /\ Sample(TRUE) /\ Goto(c, "mirror") /\ UNCHANGED dropped
       \/ /\ WireSize(Mine(c)) <= peerCap /\ link = "lost"
          /\ SendFails(c) /\ UNCHANGED onWire
    /\ SameCall /\ UNCHANGED <<answer, delivered, fallbacks, connection, sseVars>>

(* The reason given with FellBack; "loss" is the one that Judge gives. *)
Reason(x) ==
    IF x.force THEN "forced"
    ELSE IF WireSize(x) > PreferredDatagram THEN "oversize" ELSE "policy"

(* The notice of a fallback, then the event, over SSE. *)
Announce(c) ==
    /\ pc[c] = "announce"
    /\ Publish(Notice) /\ Goto(c, "divert")
    /\ SameCall /\ UNCHANGED <<answer, delivered, dropped, fallbacks, datagramVars>>

Divert(c) ==
    /\ pc[c] = "divert"
    /\ Publish(ev[c]) /\ Return(c, Reason(Mine(c)))
    /\ SameCall /\ UNCHANGED <<delivered, dropped, fallbacks, datagramVars>>

(* The copy of a sent event for the subscribers. *)
Mirror(c) ==
    /\ pc[c] = "mirror"
    /\ Publish(ev[c]) /\ Return(c, "Sent")
    /\ SameCall /\ UNCHANGED <<delivered, dropped, fallbacks, datagramVars>>

(* The copy of an event that could not be sent. *)
Copy(c) ==
    /\ pc[c] = "copy"
    /\ Publish(ev[c]) /\ Goto(c, "judge")
    /\ SameCall /\ UNCHANGED <<answer, delivered, dropped, fallbacks, datagramVars>>

Judge(c) ==
    /\ pc[c] = "judge"
    /\ IF TooMuchLoss
       THEN fallbacks' = fallbacks + 1 /\ Return(c, "loss")
       ELSE Return(c, "Dropped") /\ UNCHANGED fallbacks
    /\ SameCall /\ UNCHANGED <<delivered, dropped, window, connection, onWire, sseVars>>

(* The peer or the network ends the connection; OnceCell keeps it. *)
LinkLost ==
    /\ link = "up" /\ link' = "lost"
    /\ UNCHANGED <<window, endpoint, initBy, peerCap, onWire, callVars, sseVars>>

DatagramStep(c) ==
    \/ Decide(c) \/ Connect(c) \/ Handshake(c) \/ Transmit(c) \/ Announce(c)
    \/ Divert(c) \/ Mirror(c) \/ Copy(c) \/ Judge(c)

DatagramNext == LinkLost \/ \E c \in Callers : DatagramSend(c) \/ DatagramStep(c)
=============================================================================
