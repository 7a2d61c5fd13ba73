---------------------------- MODULE MCVenueEntry ----------------------------
(* Instances of VenueEntry for TLC. *)
EXTENDS VenueEntry
=============================================================================
