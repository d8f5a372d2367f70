-------------------------- MODULE MCOrbotVpnManager --------------------------
(* Instances of OrbotVpnManager for TLC. *)
EXTENDS OrbotVpnManager, TLC
=============================================================================
