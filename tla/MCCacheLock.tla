----------------------------- MODULE MCCacheLock -----------------------------
(* CacheLock for TLC. *)
EXTENDS CacheLock
==============================================================================
