--------------------------- MODULE MCHealthRunner ---------------------------
(* The specification as it is: TLC checks liveness without symmetry. *)
EXTENDS HealthRunner
=============================================================================
