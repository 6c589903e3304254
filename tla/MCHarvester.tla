---------------------------- MODULE MCHarvester ----------------------------
(***************************************************************************)
(* Instances of Harvester for TLC.                                         *)
(***************************************************************************)
EXTENDS Harvester
=============================================================================
