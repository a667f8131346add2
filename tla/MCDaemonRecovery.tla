-------------------------- MODULE MCDaemonRecovery ---------------------------
(***************************************************************************)
(* Instances of DaemonRecovery for TLC.                                    *)
(***************************************************************************)
EXTENDS DaemonRecovery, TLC

CONSTANTS t1, t2

MCIds == {t1, t2}
MCJobKind == [i \in MCIds |-> IF i = t1 THEN "send" ELSE "recv"]

MCOneId == {t1}
MCOneJobKind == [i \in MCOneId |-> "send"]

Symmetry == Permutations(Clients) \cup Permutations(Workers)
=============================================================================
