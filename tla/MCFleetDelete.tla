---------------------------- MODULE MCFleetDelete ----------------------------
(* Small instances of FleetDelete: two hosts with up to three paths each,  *)
(* so that paths remain when one probe gives the rest up.                  *)
EXTENDS FleetDelete
=============================================================================
