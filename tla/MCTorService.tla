---------------------------- MODULE MCTorService ----------------------------
(* TorService for TLC. *)
EXTENDS TorService
=============================================================================
