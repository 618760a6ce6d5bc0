----------------------------- MODULE MCAuditLog -----------------------------
(***************************************************************************)
(* Model-checking instances of AuditLog: a queue that overflows, a file    *)
(* that is rotated and compacted, writes that fail, concurrent flushes.    *)
(***************************************************************************)
EXTENDS AuditLog
=============================================================================
