------------------------------ MODULE MCAiming ------------------------------
(* The servos of the tracker, for planes all round the horizon. *)
EXTENDS Aiming

(* Every tenth of a degree about the meridian, coarser elsewhere. *)
MCDirections ==
  {d \in -1800..1800 : d % 37 = 0 \/ Magnitude(d) < 14 \/ Magnitude(d) > 1786}
MCAltitudes ==
  {-20, -11, -10, -9, -1, 0, 1, 9, 10, 11, 299, 450, 889, 895, 900}
=============================================================================
