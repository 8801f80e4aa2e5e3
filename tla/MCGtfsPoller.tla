---------------------------- MODULE MCGtfsPoller ----------------------------
(***************************************************************************)
(* Instances of GtfsPoller for TLC.                                        *)
(***************************************************************************)
EXTENDS GtfsPoller

=============================================================================
