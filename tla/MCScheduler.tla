---------------------------- MODULE MCScheduler ----------------------------
(* Instances of the runtime scheduler. *)
EXTENDS RuntimeScheduler

OneWeek == [s \in Slots |-> 1]
=============================================================================
