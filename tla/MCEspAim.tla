------------------------------ MODULE MCEspAim ------------------------------
(* A mount with 24 pulses to half a turn of 12 degrees, in half degrees. *)
EXTENDS PacedEspAim

MCDirections == {-23, 1, 12}
MCAltitudes  == {1, 6}
=============================================================================
