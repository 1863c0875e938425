---------------------------- MODULE MCReassembly ----------------------------
(* Instances of Reassembly for TLC; the .cfg files give the constants.     *)
EXTENDS Reassembly
=============================================================================
