--------------------------- MODULE MCSessionStore ---------------------------
(***************************************************************************)
(* Model-checking instances of SessionStore: changes that race saves,      *)
(* concurrent flushes and failing saves.                                   *)
(***************************************************************************)
EXTENDS SessionStore
=============================================================================
