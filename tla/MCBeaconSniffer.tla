-------------------------- MODULE MCBeaconSniffer --------------------------
(* Instances of BeaconSniffer for TLC; the constants are in the .cfg files. *)
EXTENDS BeaconSniffer
=============================================================================
