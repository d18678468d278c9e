------------------------- MODULE CheckpointForecast -------------------------
(***************************************************************************)
(* One checkpoint, at two scales: what its single simulation draws and     *)
(* what each product says of the draws (GameSimulation, ForecastProducts), *)
(* and how the flow computes, stores and publishes those products, a value *)
(* standing for all that a product says of a player (CheckpointFlow).      *)
(***************************************************************************)
EXTENDS CheckpointFlow, ForecastProducts

VARIABLE scale      \* "draws" or "flow"

vars == <<scale, simVars, checkpointVars>>

\* The draws are those of one computation, whatever flow asked for it.
Init ==
    /\ scale \in {"draws", "flow"}
    /\ CheckpointInit /\ SimulationInit
    /\ scale = "draws" => place = "local" /\ registry = {}

Next ==
    /\ UNCHANGED scale
    /\ \/ scale = "draws" /\ SimulationNext /\ UNCHANGED checkpointVars
       \/ scale = "flow" /\ CheckpointNext /\ UNCHANGED simVars

Spec == Init /\ [][Next]_vars
=============================================================================
