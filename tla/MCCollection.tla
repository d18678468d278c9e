---------------------------- MODULE MCCollection ----------------------------
(* Small instances of Collection: a week of one game, two cursor values. *)
EXTENDS Collection

=============================================================================
