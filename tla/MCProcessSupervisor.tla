------------------------ MODULE MCProcessSupervisor ------------------------
(***************************************************************************)
(* Model-checking instances of ProcessSupervisor: small sets of children,  *)
(* on Windows and elsewhere, with and without a child that refuses         *)
(* signals.                                                                *)
(***************************************************************************)
EXTENDS ProcessSupervisor, TLC

\* Children that can be signalled are interchangeable in the safety runs.
Interchangeable == Permutations(Children \ Protected)
=============================================================================
