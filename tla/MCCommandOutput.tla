-------------------------- MODULE MCCommandOutput --------------------------
(***************************************************************************)
(* Model-checking instances of CommandOutput: two streams that spill under *)
(* each of the tiers, with a failing page cache.                           *)
(***************************************************************************)
EXTENDS CommandOutput
=============================================================================
