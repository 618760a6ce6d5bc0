---------------------------- MODULE MCLockLease ----------------------------
(***************************************************************************)
(* Model-checking instances of LockLease: the migration lock and the temp  *)
(* lock, with callers that crash.                                          *)
(***************************************************************************)
EXTENDS LockLease
=============================================================================
