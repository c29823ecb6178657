-------------------------- MODULE MCSnifferDriver --------------------------
(* Instances of SnifferDriver for TLC; the constants are in the .cfg file.  *)
EXTENDS SnifferDriver
=============================================================================
