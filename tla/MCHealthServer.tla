--------------------------- MODULE MCHealthServer ---------------------------
(***************************************************************************)
(* The server with two clients that come and go, or one that only goes      *)
(* (the configuration MCHealthServer_stuck).                                *)
(***************************************************************************)
EXTENDS HealthServer
=============================================================================
