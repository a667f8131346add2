------------------------------ MODULE Components ------------------------------
(***************************************************************************)
(* Components that share no state with one another, side by side: the      *)
(* congestion controller that quinn asks for its window, the pipeline that *)
(* flushes the sender's batches, the reorder buffer, the network probe and *)
(* the files of the daemon.  The pipeline reads the window only to rank    *)
(* the paths, which SendPipeline leaves open.  A behaviour shows one of    *)
(* them while the others rest.                                             *)
(***************************************************************************)
EXTENDS Congestion, SendPipeline, ReorderBuffer, Probe, DaemonFiles

VARIABLE part

Parts == {"congestion", "pipeline", "reorder", "probe", "files"}

partsVars == <<part, bbrVars, pipeVars, reorderVars, probeVars, filesVars>>

PartsInit ==
    /\ part \in Parts
    /\ BbrInit /\ PipelineInit /\ ReorderInit /\ ProbeInit /\ FilesInit
    /\ part # "congestion" => controller = "sct" /\ mtu = CHOOSE m \in Mtus : TRUE
    /\ part # "pipeline" => cap = 0

CongestionStep ==
    /\ part = "congestion" /\ BbrNext
    /\ UNCHANGED <<pipeVars, reorderVars, probeVars, filesVars>>
PipelineStep ==
    /\ part = "pipeline" /\ PipelineNext
    /\ UNCHANGED <<bbrVars, reorderVars, probeVars, filesVars>>
ReorderStep ==
    /\ part = "reorder" /\ ReorderNext
    /\ UNCHANGED <<bbrVars, pipeVars, probeVars, filesVars>>
ProbeStep ==
    /\ part = "probe" /\ ProbeNext
    /\ UNCHANGED <<bbrVars, pipeVars, reorderVars, filesVars>>
FilesStep ==
    /\ part = "files" /\ FilesNext
    /\ UNCHANGED <<bbrVars, pipeVars, reorderVars, probeVars>>

PartsNext ==
    /\ CongestionStep \/ PipelineStep \/ ReorderStep \/ ProbeStep \/ FilesStep
    /\ UNCHANGED part

PartsSpec == PartsInit /\ [][PartsNext]_partsVars

(* Acknowledgements keep coming; tokio schedules the pipeline's tasks. *)
PartsFairSpec ==
    PartsSpec /\ PipelineFairness /\ (BbrFairness \/ []<>(part # "congestion"))
=============================================================================
