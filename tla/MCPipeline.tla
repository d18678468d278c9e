----------------------------- MODULE MCPipeline -----------------------------
(* Instances of the checkpoint pipeline small enough for TLC. *)
EXTENDS CheckpointPipeline

NoDeferral == {{}}
EveryDeferral == SUBSET Runs
=============================================================================
