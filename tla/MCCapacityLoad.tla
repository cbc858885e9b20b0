---------------------------- MODULE MCCapacityLoad ----------------------------
(*******************************************************************************)
(* Values for CapacityLoad: all databases, rounds of two rows, up to three fit   *)
(*******************************************************************************)
EXTENDS CapacityLoad, Clients

MCDatabases == DOMAIN DB
MCProfile == DB

===============================================================================
