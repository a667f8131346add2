---------------------------- MODULE SseFanoutProofs ----------------------------
(***************************************************************************)
(* The SSE fan-out implements LiveFeed, for any number of subscriptions    *)
(* and any capacity of the broadcast channel and of the queues.            *)
(***************************************************************************)
EXTENDS SseFanout, TLAPS

(* The first n items of the queue are the events of the feed after p. *)
Stretch(events, p, queue, n) == \A i \in 1 .. n : queue[i] = events[p + i]

(* Why a stream may end at a cursor; once true, this stays true. *)
Behind(events, over, c) == c + Capacity < Len(events) \/ (over /\ c = Len(events))

(* What is read, queued and in the hand of the task is one stretch of the  *)
(* feed that ends at the cursor.                                           *)
Contiguous(s) ==
    LET p == since[s] + Len(seen[s])
        n == Len(inbox[s]) IN
    /\ fwd[s] \in {"recv", "error"} => p + n = cursor[s] /\ Stretch(feed, p, inbox[s], n)
    /\ fwd[s] = "send" => p + n + 1 = cursor[s] /\ Stretch(feed, p, inbox[s], n)
    /\ fwd[s] = "done" => /\ p + n - 1 = cursor[s] /\ Stretch(feed, p, inbox[s], n - 1)
                          /\ n >= 1 /\ inbox[s][n] = Error
                          /\ Behind(feed, closed, cursor[s])

(* An error is the last item, comes only from a task that has ended, and   *)
(* its reason still holds.                                                 *)
StreamInv(s) ==
    /\ since[s] = -1 <=> fwd[s] = "none"
    /\ fwd[s] = "none" => ~kept[s] /\ ~failed[s] /\ seen[s] = << >>
    /\ ~kept[s] => inbox[s] = << >>
    /\ cursor[s] <= Len(feed)
    /\ fwd[s] = "send" => cursor[s] >= 1 /\ hand[s] = feed[cursor[s]]
    /\ fwd[s] = "error" => hand[s] = Error /\ Behind(feed, closed, cursor[s])
    /\ failed[s] => inbox[s] = << >> /\ fwd[s] = "done"
    /\ kept[s] /\ ~failed[s] => Contiguous(s)

FanoutInv == FanoutTypeOK /\ \A s \in Subs : StreamInv(s)

(* A step of the fan-out, as the subscribers of LiveFeed see it *)
LiveStep == [Live!Next]_(Live!vars)

-----------------------------------------------------------------------------
\* A stretch does not change when the feed grows.
LEMMA StretchOfLonger ==
    ASSUME NEW f \in Seq(Nat), NEW e \in Nat, NEW p \in Nat,
           NEW q \in Seq(Nat \cup {Error}), NEW n \in Int,
           p + n <= Len(f), Stretch(f, p, q, n)
    PROVE  Stretch(Append(f, e), p, q, n)
<1>1. \A i \in 1 .. n : p + i \in 1 .. Len(f)
  OBVIOUS
<1>2. \A i \in 1 .. Len(f) : Append(f, e)[i] = f[i]
  OBVIOUS
<1> QED BY <1>1, <1>2, Zenon DEF Stretch

\* Putting the next event into the queue makes it longer.
LEMMA StretchWithNext ==
    ASSUME NEW f, NEW p \in Nat, NEW q \in Seq(Nat \cup {Error}),
           NEW x \in Nat \cup {Error},
           Stretch(f, p, q, Len(q))
    PROVE  /\ Stretch(f, p, Append(q, x), Len(q))
           /\ x = f[p + Len(q) + 1] => Stretch(f, p, Append(q, x), Len(q) + 1)
BY SMTT(30) DEF Stretch

\* Reading from the queue moves it on by one.
LEMMA StretchOfTail ==
    ASSUME NEW f, NEW p \in Nat, NEW q \in Seq(Nat \cup {Error}),
           NEW n \in Nat \ {0},
           q # << >>, n <= Len(q), Stretch(f, p, q, n)
    PROVE  Head(q) = f[p + 1] /\ Stretch(f, p + 1, Tail(q), n - 1)
<1>1. /\ Len(Tail(q)) = Len(q) - 1 /\ Head(q) = q[1]
      /\ \A i \in 1 .. Len(q) - 1 : Tail(q)[i] = q[i + 1]
  OBVIOUS
<1>2. ASSUME NEW i \in 1 .. n - 1 PROVE Tail(q)[i] = f[p + 1 + i]
  <2>1. q[i + 1] = f[p + (i + 1)]
    BY DEF Stretch
  <2> QED BY <1>1, <2>1
<1> QED BY <1>1, <1>2 DEF Stretch

\* The types of one subscription.
LEMMA StreamTypes ==
    ASSUME FanoutTypeOK, NEW s \in Subs
    PROVE  /\ feed \in Seq(Nat) /\ Len(feed) \in Nat /\ closed \in BOOLEAN
           /\ since[s] \in Nat \cup {-1} /\ cursor[s] \in Nat
           /\ since[s] \in Int /\ since[s] >= -1
           /\ since[s] # -1 => since[s] + Len(seen[s]) \in Nat
           /\ fwd[s] \in {"none", "recv", "send", "error", "done"}
           /\ hand[s] \in Nat \cup {Error} /\ inbox[s] \in Seq(Nat \cup {Error})
           /\ seen[s] \in Seq(Nat) /\ Len(seen[s]) \in Nat
           /\ Len(inbox[s]) \in Nat
           /\ kept[s] \in BOOLEAN /\ failed[s] \in BOOLEAN
BY SMTT(30) DEF FanoutTypeOK

\* Why a stream may end stays true when the feed grows.
LEMMA BehindStays ==
    ASSUME NEW f \in Seq(Nat), NEW g \in Seq(Nat), NEW c \in Nat, NEW over,
           Len(g) = Len(f) + 1, ~over, Behind(f, over, c)
    PROVE  Behind(g, over, c)
<1>1. Len(f) \in Nat
  OBVIOUS
<1> QED BY <1>1, FanoutAssumption DEF Behind

\* A new subscription has seen nothing of the feed and has nothing queued.
LEMMA StretchOfNone ==
    ASSUME NEW f, NEW n \in Nat
    PROVE  /\ n + Len(<<>>) + Len(<<>>) = n
           /\ Stretch(f, n + Len(<<>>), <<>>, Len(<<>>))
BY DEF Stretch

\* A stretch that ends at the cursor or one before it ends by the cursor.
LEMMA EndsBy ==
    ASSUME NEW m \in Int, NEW n \in Nat, m = n \/ m + 1 = n
    PROVE  m <= n
OBVIOUS

\* The length of a sequence, and the number of its next element.
LEMMA LengthIsNat ==
    ASSUME NEW S, NEW q \in Seq(S)
    PROVE  Len(q) \in Nat /\ Len(q) + 1 \in Nat
OBVIOUS

\* What is at most m is not m + 1.
LEMMA NotTheNext ==
    ASSUME NEW m \in Nat, NEW f \in Seq(Nat), \A i \in DOMAIN f : f[i] <= m
    PROVE  \A i \in DOMAIN f : f[i] # m + 1
OBVIOUS

\* The order of the integers is transitive.
LEMMA OrderIsTransitive ==
    ASSUME NEW a \in Int, NEW b \in Int, NEW d \in Int, a <= b, b <= d
    PROVE  a <= d
OBVIOUS

\* A stretch of k events that ends at the cursor, one before it, or at it without
\* the last element of the queue.
LEMMA EndOfStretch ==
    ASSUME NEW p \in Nat, NEW k \in Nat, NEW r \in Nat
    PROVE  /\ p + k = r => p + k <= r
           /\ p + k + 1 = r => p + k <= r
           /\ p + k - 1 = r => p + (k - 1) <= r
           /\ k >= 1 => k \in Nat \ {0}
           /\ k > 1 => k - 1 \in Nat \ {0}
           /\ p + 1 - 1 = r => p = r
OBVIOUS

\* What is at most the length of a sequence when one element is added to it.
LEMMA WithinLonger ==
    ASSUME NEW a \in Nat, NEW b \in Nat, a <= b
    PROVE  a <= b + 1 /\ (a >= 1 => a \in 1 .. b)
OBVIOUS

\* An event is published.
LEMMA PublishStep ==
    ASSUME FanoutInv, NEW e \in Nat, Publish(e)
    PROVE  FanoutInv' /\ LiveStep
<1>1. /\ feed \in Seq(Nat) /\ ~closed /\ feed' = Append(feed, e)
      /\ closed' = closed
      /\ UNCHANGED <<since, cursor, fwd, hand, inbox, kept, seen, failed,
                     active>>
  BY Zenon DEF Publish, subscription, FanoutInv, FanoutTypeOK
<1>2. /\ Len(feed') = Len(feed) + 1 /\ feed' \in Seq(Nat) /\ Len(feed) \in Nat
      /\ \A i \in 1 .. Len(feed) : feed'[i] = feed[i]
  BY <1>1, SMTT(30)
<1>3. FanoutTypeOK'
  BY <1>1, <1>2, SMTT(30) DEF Publish, FanoutInv, FanoutTypeOK
<1>4. ASSUME NEW s \in Subs PROVE StreamInv(s)'
  <2>1. StreamInv(s)
    BY Zenon DEF FanoutInv
  <2>2. /\ since[s] \in Int /\ since[s] >= -1 /\ cursor[s] \in Nat
        /\ Len(feed) \in Nat
        /\ Len(seen[s]) \in Nat /\ Len(inbox[s]) \in Nat
    BY StreamTypes, Zenon DEF FanoutInv
  <2>3. ASSUME NEW n \in Int, since[s] # -1,
               since[s] + Len(seen[s]) + n <= Len(feed),
               Stretch(feed, since[s] + Len(seen[s]), inbox[s], n)
        PROVE  Stretch(feed', since[s] + Len(seen[s]), inbox[s], n)
    <3>1. since[s] + Len(seen[s]) \in Nat
      BY <2>3, StreamTypes, Zenon DEF FanoutInv
    <3>2. inbox[s] \in Seq(Nat \cup {Error})
      BY Zenon DEF FanoutInv, FanoutTypeOK
    <3> QED BY <1>1, <2>3, <3>1, <3>2, StretchOfLonger, Zenon
  <2>4. Behind(feed, closed, cursor[s]) => Behind(feed', closed, cursor[s])
    BY <1>1, <1>2, <2>2, BehindStays, Zenon
  <2>5. ASSUME kept[s], ~failed[s] PROVE Contiguous(s)'
    <3>1. Contiguous(s) /\ since[s] # -1
      BY <2>1, <2>5, Zenon DEF StreamInv
    <3>2. UNCHANGED <<since[s], cursor[s], fwd[s], inbox[s], seen[s]>>
      BY <1>1, Zenon
    <3>3. cursor[s] <= Len(feed)
      BY <2>1, Zenon DEF StreamInv
    <3>4. CASE fwd[s] \in {"recv", "error", "send"}
      <4>1. Stretch(feed', since[s] + Len(seen[s]), inbox[s], Len(inbox[s]))
        <5>1. /\ Stretch(feed, since[s] + Len(seen[s]), inbox[s], Len(inbox[s]))
              /\ since[s] + Len(seen[s]) + Len(inbox[s]) <= cursor[s]
          <6>1. CASE fwd[s] \in {"recv", "error"}
            <7>1. /\ Stretch(feed, since[s] + Len(seen[s]), inbox[s],
                             Len(inbox[s]))
                  /\ since[s] + Len(seen[s]) + Len(inbox[s]) = cursor[s]
              BY <3>1, <6>1, Zenon DEF Contiguous
            <7>2. since[s] + Len(seen[s]) + Len(inbox[s]) \in Int
              BY <2>2
            <7> QED BY <2>2, <7>1, <7>2, EndsBy, Zenon
          <6>2. CASE fwd[s] = "send"
            <7>1. /\ Stretch(feed, since[s] + Len(seen[s]), inbox[s],
                             Len(inbox[s]))
                  /\ since[s] + Len(seen[s]) + Len(inbox[s]) + 1 = cursor[s]
              BY <3>1, <6>2, Zenon DEF Contiguous
            <7>2. since[s] + Len(seen[s]) + Len(inbox[s]) \in Int
              BY <2>2
            <7> QED BY <2>2, <7>1, <7>2, EndsBy, Zenon
          <6> QED BY <3>4, <6>1, <6>2, Zenon
        <5>2. /\ since[s] + Len(seen[s]) + Len(inbox[s]) <= Len(feed)
              /\ Len(inbox[s]) \in Int
          <6>1. /\ since[s] + Len(seen[s]) + Len(inbox[s]) \in Int
                /\ cursor[s] \in Int /\ Len(feed) \in Int /\ Len(inbox[s]) \in Int
            BY <2>2, SMTT(30)
          <6> QED BY <3>3, <5>1, <6>1, OrderIsTransitive, Zenon
        <5> QED BY <2>3, <3>1, <5>1, <5>2, Zenon
      <4> QED BY <3>1, <3>2, <3>4, <4>1, Zenon DEF Contiguous
    <3>5. CASE fwd[s] = "done"
      <4>1. Stretch(feed', since[s] + Len(seen[s]), inbox[s], Len(inbox[s]) - 1)
        BY <2>2, <2>3, <3>1, <3>3, <3>5, SMTT(30) DEF Contiguous
      <4> QED BY <1>1, <2>4, <3>1, <3>2, <3>5, <4>1, Zenon DEF Contiguous
    <3> QED BY <2>1, <3>1, <3>4, <3>5, StreamTypes, Zenon
            DEF FanoutInv, StreamInv
  <2>6. /\ cursor[s] <= Len(feed')
        /\ fwd[s] = "send" => cursor[s] >= 1 /\ hand[s] = feed'[cursor[s]]
    BY <1>2, <2>1, <2>2, WithinLonger, Zenon DEF StreamInv
  <2> QED BY <1>1, <2>1, <2>4, <2>5, <2>6, Zenon DEF StreamInv
<1>5. LiveStep
  <2>1. SubSeq(feed', 1, Len(feed)) = feed
    BY <1>1, <1>2
  <2> QED BY <1>1, <1>2, <2>1, ZenonT(30) DEF LiveStep, Live!Next, Live!Publish
<1> QED BY <1>3, <1>4, <1>5, Zenon DEF FanoutInv

\* A step that leaves a subscription and the feed alone keeps its invariant.
LEMMA Untouched ==
    ASSUME NEW t \in Subs, StreamInv(t), UNCHANGED <<feed, closed>>,
           UNCHANGED <<since[t], cursor[t], fwd[t], hand[t], inbox[t], kept[t],
                       seen[t], failed[t]>>
    PROVE  StreamInv(t)'
BY Zenon DEF StreamInv, Contiguous

\* The transport is dropped.
LEMMA CloseStep ==
    ASSUME FanoutInv, Close
    PROVE  FanoutInv' /\ LiveStep
<1>1. /\ ~closed /\ closed' /\ closed' = TRUE
      /\ UNCHANGED <<feed, reached, since, cursor, fwd, hand, inbox, kept, seen,
                     failed, active>>
  BY Zenon DEF Close, subscription
<1>2. FanoutTypeOK'
  BY <1>1, Zenon DEF FanoutInv, FanoutTypeOK
<1>3. ASSUME NEW s \in Subs PROVE StreamInv(s)'
  <2>1. StreamInv(s)
    BY Zenon DEF FanoutInv
  <2>2. Behind(feed, closed, cursor[s]) => Behind(feed', closed', cursor'[s])
    BY <1>1, Zenon DEF Behind
  <2>3. Contiguous(s) => Contiguous(s)'
    BY <1>1, <2>2, Zenon DEF Contiguous
  <2> QED BY <1>1, <2>1, <2>2, <2>3, Zenon DEF StreamInv
<1>4. LiveStep
  BY <1>1, Zenon DEF LiveStep, Live!Next, Live!Leave
<1> QED BY <1>2, <1>3, <1>4, Zenon DEF FanoutInv

\* A subscription is made.
LEMMA SubscribeStep ==
    ASSUME FanoutInv, NEW s \in Subs, Subscribe(s)
    PROVE  FanoutInv' /\ LiveStep
<1>1. FanoutTypeOK /\ StreamInv(s) /\ fwd[s] = "none" /\ since[s] = -1
  BY Zenon DEF FanoutInv, StreamInv, Subscribe
<1>2. FanoutTypeOK'
  BY <1>1 DEF Subscribe, FanoutTypeOK
<1>3. ASSUME NEW t \in Subs PROVE StreamInv(t)'
  <2>1. CASE t # s
    BY <2>1, <1>1, Untouched, Zenon DEF Subscribe, FanoutInv, FanoutTypeOK
  <2>2. CASE t = s
    <3>1. /\ since'[s] = Len(feed) /\ cursor'[s] = Len(feed)
          /\ fwd'[s] = "recv" /\ kept'[s]
          /\ UNCHANGED <<feed, closed, inbox, seen, failed>>
      BY <1>1, Zenon DEF Subscribe, FanoutTypeOK
    <3>2. inbox[s] = << >> /\ seen[s] = << >> /\ ~failed[s] /\ Len(feed) \in Nat
      BY <1>1, StreamTypes, Zenon DEF StreamInv
    <3>3. Contiguous(s)'
      BY <3>1, <3>2, StretchOfNone, ZenonT(30) DEF Contiguous
    <3> QED BY <2>2, <3>1, <3>2, <3>3, SMTT(30) DEF StreamInv
  <2> QED BY <2>1, <2>2, Zenon
<1>4. LiveStep
  BY <1>1, Zenon DEF Subscribe, LiveStep, Live!Next, Live!Join
<1> QED BY <1>2, <1>3, <1>4, Zenon DEF FanoutInv

\* A subscriber drops its stream.
LEMMA UnsubscribeStep ==
    ASSUME FanoutInv, NEW s \in Subs, Unsubscribe(s)
    PROVE  FanoutInv' /\ LiveStep
<1>1. FanoutTypeOK /\ StreamInv(s)
  BY Zenon DEF FanoutInv
<1>2. FanoutTypeOK'
  BY <1>1 DEF Unsubscribe, FanoutTypeOK
<1>3. ASSUME NEW t \in Subs PROVE StreamInv(t)'
  <2>1. CASE t # s
    BY <2>1, <1>1, Untouched, Zenon DEF Unsubscribe, FanoutInv, FanoutTypeOK
  <2>2. CASE t = s
    <3>1. /\ ~kept'[s] /\ kept[s] /\ inbox'[s] = << >>
          /\ UNCHANGED <<feed, closed, since, cursor, fwd, hand, seen, failed>>
      BY <1>1, Zenon DEF Unsubscribe, FanoutTypeOK
    <3> QED BY <1>1, <2>2, <3>1, Zenon DEF StreamInv
  <2> QED BY <2>1, <2>2, Zenon
<1>4. LiveStep
  BY Zenon DEF Unsubscribe, LiveStep, Live!vars
<1> QED BY <1>2, <1>3, <1>4, Zenon DEF FanoutInv

\* The forwarding task takes an event, or is told that there is no next.
LEMMA ReceiveStep ==
    ASSUME FanoutInv, NEW s \in Subs, Receive(s)
    PROVE  FanoutInv' /\ LiveStep
<1>1. FanoutTypeOK /\ StreamInv(s) /\ fwd[s] = "recv"
  BY Zenon DEF FanoutInv, Receive
<1>2. /\ UNCHANGED <<feed, closed, since, inbox, kept, seen, failed>>
      /\ \/ /\ cursor[s] < Len(feed) /\ hand'[s] = feed[cursor[s] + 1]
            /\ cursor'[s] = cursor[s] + 1 /\ fwd'[s] = "send"
         \/ /\ Behind(feed, closed, cursor[s]) /\ hand'[s] = Error
            /\ cursor'[s] = cursor[s] /\ fwd'[s] = "error"
  BY <1>1, Zenon DEF Receive, FanoutTypeOK, Lagged, Behind
<1>3. FanoutTypeOK'
  <2>1. cursor[s] < Len(feed) => feed[cursor[s] + 1] \in Nat
    BY <1>1 DEF FanoutTypeOK
  <2>2. hand' \in [Subs -> Nat \cup {Error}]
    BY <1>1, <2>1, Zenon DEF Receive, FanoutTypeOK
  <2>3. cursor' \in [Subs -> Nat]
    <3>1. cursor' = cursor \/ cursor' = [cursor EXCEPT ![s] = @ + 1]
      BY Zenon DEF Receive
    <3>2. cursor \in [Subs -> Nat]
      BY <1>1, Zenon DEF FanoutTypeOK
    <3> QED BY <3>1, <3>2
  <2>4. fwd' \in [Subs -> {"none", "recv", "send", "error", "done"}]
    BY <1>1, Zenon DEF Receive, FanoutTypeOK
  <2> QED BY <1>1, <2>2, <2>3, <2>4, Zenon DEF Receive, FanoutTypeOK
<1>4. ASSUME NEW t \in Subs PROVE StreamInv(t)'
  <2>1. CASE t # s
    BY <2>1, <1>1, Untouched, ZenonT(30) DEF Receive, FanoutInv, FanoutTypeOK
  <2>2. CASE t = s
    <3>1. /\ since[s] \in Int /\ cursor[s] \in Nat /\ Len(feed) \in Nat
          /\ Len(seen[s]) \in Nat /\ Len(inbox[s]) \in Nat
      BY <1>1, StreamTypes, Zenon
    <3>2. Contiguous(s) => Contiguous(s)'
      BY <1>1, <1>2, <3>1, Zenon DEF Contiguous
    <3> QED BY <1>1, <1>2, <2>2, <3>1, <3>2, SMTT(30) DEF StreamInv
  <2> QED BY <2>1, <2>2, Zenon
<1>5. LiveStep
  BY Zenon DEF Receive, LiveStep, Live!vars
<1> QED BY <1>3, <1>4, <1>5, Zenon DEF FanoutInv

\* It puts what it has into the queue, or ends.
LEMMA ForwardStep ==
    ASSUME FanoutInv, NEW s \in Subs, Forward(s)
    PROVE  FanoutInv' /\ LiveStep
<1>1. FanoutTypeOK /\ StreamInv(s) /\ fwd[s] \in {"send", "error"}
  BY Zenon DEF FanoutInv, Forward
<1>2. FanoutTypeOK'
  <2>1. inbox' \in [Subs -> Seq(Nat \cup {Error})]
    <3>1. Append(inbox[s], hand[s]) \in Seq(Nat \cup {Error})
      BY <1>1, SMTT(30) DEF FanoutTypeOK
    <3> QED BY <1>1, <3>1, Zenon DEF Forward, FanoutTypeOK
  <2>2. active' \in Int
    <3>1. active' = active \/ active' = active - 1
      BY Zenon DEF Forward
    <3> QED BY <1>1, <3>1, SMTT(30) DEF FanoutTypeOK
  <2>3. fwd' \in [Subs -> {"none", "recv", "send", "error", "done"}]
    BY <1>1, Zenon DEF Forward, FanoutTypeOK
  <2> QED BY <1>1, <2>1, <2>2, <2>3, Zenon DEF Forward, FanoutTypeOK
<1>3. ASSUME NEW t \in Subs PROVE StreamInv(t)'
  <2>1. CASE t # s
    BY <2>1, <1>1, Untouched, Zenon DEF Forward, FanoutInv, FanoutTypeOK
  <2>2. CASE t = s
    <3>1. /\ since[s] \in Int /\ since[s] >= -1 /\ cursor[s] \in Nat
          /\ Len(feed) \in Nat
          /\ Len(seen[s]) \in Nat /\ Len(inbox[s]) \in Nat
          /\ inbox[s] \in Seq(Nat \cup {Error}) /\ hand[s] \in Nat \cup {Error}
      BY <1>1, StreamTypes, Zenon
    <3>2. UNCHANGED <<feed, closed, since, cursor, hand, kept, seen, failed>>
      BY Zenon DEF Forward
    <3>3. since[s] # -1 /\ ~failed[s]
      BY <1>1, Zenon DEF StreamInv
    <3>4. CASE ~kept[s]
      <4>1. fwd'[s] = "done" /\ inbox' = inbox
        BY <1>1, <3>4, Zenon DEF Forward, FanoutTypeOK
      <4> QED BY <1>1, <2>2, <3>2, <3>3, <3>4, <4>1, Zenon DEF StreamInv
    <3>5. CASE kept[s]
      <4> DEFINE p == since[s] + Len(seen[s])
      <4>1. /\ inbox'[s] = Append(inbox[s], hand[s])
            /\ Len(inbox'[s]) = Len(inbox[s]) + 1
            /\ inbox'[s][Len(inbox[s]) + 1] = hand[s]
        BY <1>1, <3>1, <3>5, SMTT(30) DEF Forward, FanoutTypeOK
      <4>2. p \in Nat
        BY <3>1, <3>3, SMTT(30)
      <4>3. Contiguous(s) /\ Stretch(feed, p, inbox[s], Len(inbox[s]))
        BY <1>1, <3>3, <3>5, Zenon DEF StreamInv, Contiguous
      <4>4. /\ Stretch(feed, p, inbox'[s], Len(inbox[s]))
            /\ hand[s] = feed[p + Len(inbox[s]) + 1]
                 => Stretch(feed, p, inbox'[s], Len(inbox[s]) + 1)
        <5> HIDE DEF p
        <5> QED BY <3>1, <4>1, <4>2, <4>3, StretchWithNext, Zenon
      <4>5. CASE fwd[s] = "send"
        <5>1. fwd'[s] = "recv"
          BY <1>1, <3>5, <4>5, Zenon DEF Forward, FanoutTypeOK
        <5>2. hand[s] = feed[p + Len(inbox[s]) + 1]
                /\ p + Len(inbox[s]) + 1 = cursor[s]
          BY <1>1, <4>3, <4>5, ZenonT(30) DEF StreamInv, Contiguous
        <5>3. p + Len(inbox'[s]) = cursor[s]
          BY <3>1, <4>1, <4>2, <5>2, SMTT(30)
        <5>4. Stretch(feed, p, inbox'[s], Len(inbox'[s]))
          BY <4>1, <4>4, <5>2, Zenon
        <5>5. Contiguous(s)'
          BY <3>2, <5>1, <5>3, <5>4, Zenon DEF Contiguous
        <5> QED BY <1>1, <2>2, <3>2, <3>3, <3>5, <5>1, <5>5, Zenon DEF StreamInv
      <4>6. CASE fwd[s] = "error"
        <5>1. fwd'[s] = "done" /\ hand[s] = Error
                /\ Behind(feed, closed, cursor[s])
          BY <1>1, <3>5, <4>6, Zenon DEF Forward, FanoutTypeOK, StreamInv
        <5>2. p + Len(inbox[s]) = cursor[s]
          BY <4>3, <4>6, ZenonT(30) DEF Contiguous
        <5>3. Len(inbox'[s]) - 1 = Len(inbox[s]) /\ Len(inbox'[s]) >= 1
          BY <3>1, <4>1, SMTT(30)
        <5>4. inbox'[s][Len(inbox'[s])] = Error
          BY <4>1, <5>1, ZenonT(30)
        <5>5. p + Len(inbox'[s]) - 1 = cursor[s]
          BY <3>1, <4>1, <4>2, <5>2, SMTT(30)
        <5>6. Contiguous(s)'
          BY <3>2, <4>4, <5>1, <5>3, <5>4, <5>5, Zenon DEF Contiguous
        <5> QED BY <1>1, <2>2, <3>2, <3>3, <3>5, <5>1, <5>6, Zenon DEF StreamInv
      <4> QED BY <1>1, <4>5, <4>6, ZenonT(30)
    <3> QED BY <3>4, <3>5, Zenon
  <2> QED BY <2>1, <2>2, Zenon
<1>4. LiveStep
  BY Zenon DEF Forward, LiveStep, Live!vars
<1> QED BY <1>2, <1>3, <1>4, Zenon DEF FanoutInv

\* The subscriber reads the next event, or the error that ends its stream.
LEMMA ReadStep ==
    ASSUME FanoutInv, NEW s \in Subs, Read(s)
    PROVE  FanoutInv' /\ LiveStep
<1> DEFINE p == since[s] + Len(seen[s])
<1> DEFINE n == Len(inbox[s])
<1>1. FanoutTypeOK /\ StreamInv(s) /\ kept[s] /\ inbox[s] # << >> /\ ~failed[s]
  BY Zenon DEF FanoutInv, Read, StreamInv
<1>2. /\ since[s] \in Int /\ since[s] >= -1 /\ cursor[s] \in Nat
      /\ Len(feed) \in Nat
      /\ feed \in Seq(Nat) /\ inbox[s] \in Seq(Nat \cup {Error})
      /\ seen[s] \in Seq(Nat)
      /\ Len(seen[s]) \in Nat /\ n \in Nat
  BY <1>1, StreamTypes, SMTT(30)
<1>3. /\ Contiguous(s) /\ since[s] # -1 /\ cursor[s] <= Len(feed)
      /\ fwd[s] \in {"recv", "send", "error", "done"}
  BY <1>1, StreamTypes, ZenonT(30) DEF StreamInv
<1>4. p \in Nat /\ n >= 1 /\ Head(inbox[s]) = inbox[s][1]
  BY <1>1, <1>2, <1>3, SMTT(30)
<1>5. /\ UNCHANGED <<feed, closed, since, cursor, fwd, hand, kept>>
      /\ inbox'[s] = Tail(inbox[s]) /\ Len(inbox'[s]) = n - 1
      /\ \A i \in 1 .. n - 1 : inbox'[s][i] = inbox[s][i + 1]
  BY <1>1, <1>2, SMTT(30) DEF Read, FanoutTypeOK
<1>6. inbox' \in [Subs -> Seq(Nat \cup {Error})]
  <2>1. Tail(inbox[s]) \in Seq(Nat \cup {Error})
    BY <1>1, <1>2, SMTT(30)
  <2> QED BY <1>1, <2>1, Zenon DEF Read, FanoutTypeOK
<1>7. ASSUME NEW t \in Subs, t # s PROVE StreamInv(t)'
  BY <1>7, <1>1, Untouched, Zenon DEF Read, FanoutInv, FanoutTypeOK
<1>8. CASE fwd[s] = "done" /\ n = 1
  <2>1. /\ Head(inbox[s]) = Error /\ p = cursor[s]
        /\ Behind(feed, closed, cursor[s])
    <3>1. /\ p + 1 - 1 = cursor[s] /\ inbox[s][1] = Error
          /\ Behind(feed, closed, cursor[s])
      BY <1>3, <1>8, Zenon DEF Contiguous
    <3>2. p \in Nat /\ cursor[s] \in Nat /\ n \in Nat
      BY <1>2, <1>4, Zenon
    <3> HIDE DEF p, n
    <3> QED BY <1>4, <3>1, <3>2, EndOfStretch, Zenon
  <2>2. /\ failed' = [failed EXCEPT ![s] = TRUE] /\ seen' = seen /\ failed'[s]
        /\ failed' \in [Subs -> BOOLEAN]
    BY <1>1, <2>1, Zenon DEF Read, FanoutTypeOK
  <2>3. inbox'[s] = << >>
    <3>1. inbox'[s] \in Seq(Nat \cup {Error}) /\ Len(inbox'[s]) = 0
      <4>1. inbox'[s] \in Seq(Nat \cup {Error})
        BY <1>6, Zenon
      <4>2. n = 1 /\ Len(inbox'[s]) = n - 1
        BY <1>5, <1>8, Zenon
      <4> HIDE DEF n
      <4> QED BY <4>1, <4>2, SMTT(30)
    <3> QED BY <3>1, SMTT(30)
  <2>4. StreamInv(s)'
    BY <1>1, <1>5, <1>8, <2>2, <2>3, Zenon DEF StreamInv
  <2>5. FanoutTypeOK'
    BY <1>1, <1>6, <2>2, Zenon DEF Read, FanoutTypeOK
  <2>6. Live!CutOff(s)
    BY <1>3, <1>5, <2>1, <2>2, Zenon DEF Live!CutOff, Live!Position, Behind
  <2> QED BY <1>7, <2>4, <2>5, <2>6, Zenon DEF FanoutInv, LiveStep, Live!Next
<1>9. CASE fwd[s] # "done" \/ n > 1
  <2>1. PICK k \in Nat \ {0} : /\ Stretch(feed, p, inbox[s], k)
                               /\ p + k <= cursor[s]
                               /\ k = IF fwd[s] = "done" THEN n - 1 ELSE n
    <3>1. p \in Nat /\ n \in Nat /\ cursor[s] \in Nat
      BY <1>2, <1>4, Zenon
    <3>2. CASE fwd[s] = "done"
      <4>1. /\ p + n - 1 = cursor[s] /\ Stretch(feed, p, inbox[s], n - 1)
            /\ n > 1
        BY <1>3, <1>9, <3>2, Zenon DEF Contiguous
      <4> HIDE DEF p, n
      <4> QED BY <3>1, <3>2, <4>1, EndOfStretch, Zenon
    <3>3. CASE fwd[s] # "done"
      <4>1. /\ p + n = cursor[s] \/ p + n + 1 = cursor[s]
            /\ Stretch(feed, p, inbox[s], n) /\ n >= 1
        BY <1>3, <1>4, <3>3, ZenonT(30) DEF Contiguous
      <4> HIDE DEF p, n
      <4> QED BY <3>1, <3>3, <4>1, EndOfStretch, Zenon
    <3> QED BY <3>2, <3>3, Zenon
  <2>2. Head(inbox[s]) = feed[p + 1] /\ Stretch(feed, p + 1, inbox'[s], k - 1)
    <3>1. k <= Len(inbox[s])
      BY <1>2, <2>1, SMTT(30)
    <3>2. inbox[s] \in Seq(Nat \cup {Error}) /\ inbox[s] # << >> /\ p \in Nat
      BY <1>1, <1>2, <1>4, Zenon
    <3>3. Stretch(feed, p, inbox[s], k) /\ inbox'[s] = Tail(inbox[s])
      BY <1>5, <2>1, Zenon
    <3> HIDE DEF p
    <3> QED BY <3>1, <3>2, <3>3, StretchOfTail, SMTT(30)
  <2>3. p < Len(feed) /\ feed[p + 1] \in Nat
    <3>1. p < Len(feed)
      <4>1. cursor[s] \in Int /\ Len(feed) \in Int /\ p \in Int /\ k \in Int
              /\ k >= 1
        BY <1>2, <1>4, SMTT(30)
      <4> HIDE DEF p
      <4> QED BY <1>3, <2>1, <4>1, SMTT(30)
    <3>2. p \in Nat /\ feed \in Seq(Nat)
      BY <1>2, <1>4, Zenon
    <3> HIDE DEF p
    <3> QED BY <3>1, <3>2, SMTT(30)
  <2>4. /\ seen' = [seen EXCEPT ![s] = Append(@, feed[p + 1])]
        /\ failed' = failed
        /\ Append(seen[s], feed[p + 1]) \in Seq(Nat)
        /\ Len(seen'[s]) = Len(seen[s]) + 1
    <3>1. Append(seen[s], feed[p + 1]) \in Seq(Nat)
      BY <1>2, <2>3, SMTT(30)
    <3>2. Head(inbox[s]) # Error
      BY <2>2, <2>3, SMTT(30) DEF Error
    <3>3. seen' = [seen EXCEPT ![s] = Append(@, feed[p + 1])]
            /\ failed' = failed
      BY <2>2, <3>2, Zenon DEF Read
    <3>4. seen'[s] = Append(seen[s], feed[p + 1])
      BY <1>1, <3>3, Zenon DEF FanoutTypeOK
    <3>5. Len(Append(seen[s], feed[p + 1])) = Len(seen[s]) + 1
      BY <1>2, <2>3, SMTT(30)
    <3> QED BY <3>1, <3>3, <3>4, <3>5, ZenonT(30)
  <2>5. since'[s] + Len(seen'[s]) = p + 1
    <3>1. since'[s] = since[s] /\ Len(seen'[s]) = Len(seen[s]) + 1
      BY <1>5, <2>4, Zenon
    <3> QED BY <1>2, <3>1, SMTT(30)
  <2>6. Contiguous(s)'
    <3>1. UNCHANGED <<feed, closed, cursor[s], fwd[s]>>
            /\ Len(inbox'[s]) = n - 1
      BY <1>5, Zenon
    <3>2. CASE fwd[s] = "done"
      <4>1. k = n - 1 /\ n \in Nat /\ n > 1
        BY <1>2, <1>9, <2>1, <3>2, Zenon
      <4>2. /\ p + n - 1 = cursor[s] /\ inbox[s][n] = Error
            /\ Behind(feed, closed, cursor[s])
        BY <1>3, <3>2, ZenonT(30) DEF Contiguous
      <4>3. inbox'[s][n - 1] = inbox[s][(n - 1) + 1]
        BY <1>5, <4>1, SMTT(30)
      <4>4. (n - 1) + 1 = n /\ p + 1 + (n - 1) - 1 = cursor[s] /\ n - 1 >= 1
        <5>1. n \in Nat /\ n > 1 /\ p \in Nat /\ p + n - 1 = cursor[s]
          BY <1>4, <4>1, <4>2, Zenon
        <5> HIDE DEF n, p
        <5> QED BY <5>1
      <4> HIDE DEF n, p
      <4> QED BY <2>2, <2>5, <3>1, <3>2, <4>1, <4>2, <4>3, <4>4, Zenon
              DEF Contiguous
    <3>3. CASE fwd[s] # "done"
      <4>1. k = n /\ n \in Nat
        BY <1>2, <2>1, <3>3, ZenonT(30)
      <4>2. /\ fwd[s] \in {"recv", "error"} => p + 1 + (n - 1) = cursor[s]
            /\ fwd[s] = "send" => p + 1 + (n - 1) + 1 = cursor[s]
        <5>1. /\ fwd[s] \in {"recv", "error"} => p + n = cursor[s]
              /\ fwd[s] = "send" => p + n + 1 = cursor[s]
          BY <1>3, Zenon DEF Contiguous
        <5> HIDE DEF n, p
        <5> QED BY <1>4, <4>1, <5>1, SMTT(30)
      <4> HIDE DEF n, p
      <4> QED BY <2>2, <2>5, <3>1, <3>3, <4>1, <4>2, Zenon DEF Contiguous
    <3> QED BY <3>2, <3>3, Zenon
  <2>7. StreamInv(s)'
    BY <1>1, <1>3, <1>5, <2>4, <2>6, Zenon DEF StreamInv
  <2>8. FanoutTypeOK'
    BY <1>1, <1>6, <2>4, Zenon DEF Read, FanoutTypeOK
  <2>9. Live!See(s)
    BY <1>1, <1>3, <1>5, <2>3, <2>4, Zenon DEF Live!See, Live!Position
  <2> QED BY <1>7, <2>7, <2>8, <2>9, Zenon DEF FanoutInv, LiveStep, Live!Next
<1>10. n = 1 \/ n > 1
  <2>1. n \in Nat /\ n >= 1
    BY <1>2, <1>4, Zenon
  <2> HIDE DEF n
  <2> QED BY <2>1
<1> QED BY <1>8, <1>9, <1>10, Zenon

\* Every step keeps the invariant and is one of LiveFeed, or none.
LEMMA FanoutStep ==
    ASSUME FanoutInv, [SseNext]_sseVars
    PROVE  FanoutInv' /\ LiveStep
<1>1. CASE UNCHANGED sseVars
  <2>1. FanoutTypeOK' /\ LiveStep
    BY <1>1, Zenon
       DEF sseVars, subscription, FanoutInv, FanoutTypeOK, LiveStep, Live!vars
  <2>2. ASSUME NEW t \in Subs PROVE StreamInv(t)'
    BY <1>1, Untouched, Zenon DEF sseVars, subscription, FanoutInv
  <2> QED BY <2>1, <2>2, Zenon DEF FanoutInv
<1>2. CASE SseNext
  BY <1>2, CloseStep, PublishStep, SubscribeStep, ReceiveStep, ForwardStep,
     ReadStep,
     UnsubscribeStep, Zenon DEF SseNext, SubscriberStep
<1> QED BY <1>1, <1>2, Zenon

\* Nothing has been sent and nobody has subscribed.
LEMMA FanoutStarts ==
    ASSUME SseInit
    PROVE  FanoutInv /\ Live!Init
<1>1. FanoutTypeOK
  <2>1. << >> \in Seq(Nat) /\ << >> \in Seq(Nat \cup {Error})
    OBVIOUS
  <2>2. seen \in [Subs -> Seq(Nat)] /\ inbox \in [Subs -> Seq(Nat \cup {Error})]
    BY <2>1, Zenon DEF SseInit
  <2>3. since \in [Subs -> Nat \cup {-1}] /\ cursor \in [Subs -> Nat]
    BY Zenon DEF SseInit
  <2>4. hand \in [Subs -> Nat \cup {Error}]
    BY Zenon DEF SseInit
  <2>5. fwd \in [Subs -> {"none", "recv", "send", "error", "done"}]
    BY Zenon DEF SseInit
  <2>6. kept \in [Subs -> BOOLEAN] /\ failed \in [Subs -> BOOLEAN]
          /\ closed \in BOOLEAN
    BY Zenon DEF SseInit
  <2>7. feed \in Seq(Nat) /\ reached \in Nat /\ active \in Int
    BY <2>1, SMTT(30) DEF SseInit
  <2> QED BY <2>2, <2>3, <2>4, <2>5, <2>6, <2>7, Zenon DEF FanoutTypeOK
<1>2. ASSUME NEW s \in Subs PROVE StreamInv(s)
  BY DEF SseInit, StreamInv
<1>3. Live!Init
  BY Zenon DEF SseInit, Live!Init
<1> QED BY <1>1, <1>2, <1>3, Zenon DEF FanoutInv

\* The fan-out of HttpSseTransport implements LiveFeed for any number of
\* subscriptions and any capacities: what a subscriber reads is a gapless
\* stretch of the events sent since it subscribed, and its stream ends only
\* because it lagged by more than the capacity of the broadcast channel or
\* because the transport was dropped and all was read.
THEOREM FanoutIsLive == SseSpec => FeedIsLive
<1>1. SseInit => FanoutInv /\ Live!Init
  BY FanoutStarts, Zenon
<1>2. FanoutInv /\ [SseNext]_sseVars => FanoutInv' /\ [Live!Next]_(Live!vars)
  BY FanoutStep, Zenon DEF LiveStep
<1> QED BY <1>1, <1>2, PTL DEF SseSpec, FeedIsLive, Live!Spec

=============================================================================
