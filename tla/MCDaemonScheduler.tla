-------------------------- MODULE MCDaemonScheduler --------------------------
(***************************************************************************)
(* Instances of DaemonScheduler for TLC.                                   *)
(***************************************************************************)
EXTENDS DaemonScheduler, TLC

CONSTANTS t1, t2

(* One transfer that copies (and looks at its status) and one that         *)
(* receives (and is deaf until it is signalled).                           *)
MCIds == {t1, t2}
MCJobKind == t1 :> "copy" @@ t2 :> "recv"

MCOneId == {t2}
MCOneJobKind == t2 :> "recv"
=============================================================================
