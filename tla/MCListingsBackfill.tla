-------------------------- MODULE MCListingsBackfill --------------------------
(* The alphabet is the order of the numbers; the bounds are in the .cfg.     *)
EXTENDS ListingsBackfill
=============================================================================
