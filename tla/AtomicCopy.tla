----------------------------- MODULE AtomicCopy -----------------------------
(***************************************************************************)
(* What sending one file promises, whatever happens on the way.  The file  *)
(* is either visible as a whole under its final name or not at all, it     *)
(* stays visible, and the sender is told "ok" only while the receiver      *)
(* stores the whole file.  A copy that is stored but not yet visible may   *)
(* be given up, but only in an attempt the sender has begun after its last *)
(* answer.                                                                 *)
(***************************************************************************)
VARIABLES
    stored,     \* every byte is in a file of the receiver
    visible,    \* the file is at its final path
    answer      \* what the last attempt told the sender

vars == <<stored, visible, answer>>

Init == stored \in BOOLEAN /\ visible = FALSE /\ answer = "none"

Try == answer' = "none" /\ UNCHANGED <<stored, visible>>
Store == stored' = TRUE /\ UNCHANGED <<visible, answer>>
GiveUp == answer = "none" /\ stored' = visible /\ UNCHANGED <<visible, answer>>
Show == stored /\ visible' = TRUE /\ UNCHANGED <<stored, answer>>
Answer(a) ==
    /\ answer = "none" /\ (a = "ok" => stored)
    /\ answer' = a
    /\ UNCHANGED <<stored, visible>>

Next == Try \/ Store \/ GiveUp \/ Show \/ \E a \in {"ok", "err"} : Answer(a)

Spec == Init /\ [][Next]_vars
=============================================================================
