------------------------------ MODULE LiveFeed ------------------------------
(***************************************************************************)
(* What a subscription to the events of a run promises.  A subscriber sees *)
(* every event published since it joined, in order and without gaps, up to *)
(* some point.  Its stream is cut off only when it is more than Capacity   *)
(* events behind, or when the transport is gone and nothing is left.       *)
(***************************************************************************)
EXTENDS Integers, Sequences

CONSTANTS
    Subs,       \* subscribers
    Capacity    \* events a slow subscriber may be behind

VARIABLES
    published,  \* all events of the run, in order
    gone,       \* the transport has been dropped
    joined,     \* how many events came before the subscription, or -1
    view,       \* what a subscriber has seen
    over        \* its stream was cut off

vars == <<published, gone, joined, view, over>>

Position(s) == joined[s] + Len(view[s])

Init ==
    /\ published = << >> /\ gone = FALSE
    /\ joined = [s \in Subs |-> -1]
    /\ view = [s \in Subs |-> << >>] /\ over = [s \in Subs |-> FALSE]

Publish ==
    /\ ~gone
    /\ Len(published') = Len(published) + 1
    /\ SubSeq(published', 1, Len(published)) = published
    /\ UNCHANGED <<gone, joined, view, over>>

Leave == gone' = TRUE /\ UNCHANGED <<published, joined, view, over>>

Join(s) ==
    /\ joined[s] = -1
    /\ joined' = [joined EXCEPT ![s] = Len(published)]
    /\ UNCHANGED <<published, gone, view, over>>

See(s) ==
    /\ joined[s] # -1 /\ ~over[s]
    /\ Position(s) < Len(published)
    /\ view' = [view EXCEPT ![s] = Append(@, published[Position(s) + 1])]
    /\ UNCHANGED <<published, gone, joined, over>>

CutOff(s) ==
    /\ joined[s] # -1
    /\ \/ Position(s) + Capacity < Len(published)
       \/ gone /\ Position(s) = Len(published)
    /\ over' = [over EXCEPT ![s] = TRUE]
    /\ UNCHANGED <<published, gone, joined, view>>

Next == Publish \/ Leave \/ \E s \in Subs : Join(s) \/ See(s) \/ CutOff(s)

Spec == Init /\ [][Next]_vars
=============================================================================
