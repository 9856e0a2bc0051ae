------------------------- MODULE MCPlaneInformation -------------------------
(* Two planes the user switches between, and the clocks of dead reckoning.  *)
(* A behaviour plays one of the two, which share no variable.              *)
EXTENDS PlaneInformation, DeadReckoning

CONSTANTS p1, p2

MCPlanes == {p1, p2}

(* Of lines 78-84 one field for each part that setDirectionAltitude() is     *)
(* given, and the speed, which decides what dead reckoning uses.             *)
FewFields == <<"planeLat", "planeLon", "planeAlt", "planeSpeed">>

VARIABLE played
PlaneVars == <<vars, clockVars, played>>

PlaneInit ==
  /\ Init /\ ClockInit
  /\ \/ played = "update" /\ phase = 0
     \/ played = "clocks" /\ identifier = p1 /\ millis = 0
PlaneNext ==
  /\ \/ played = "update" /\ Next /\ UNCHANGED clockVars
     \/ played = "clocks" /\ ClockNext /\ UNCHANGED vars
  /\ UNCHANGED played

(* The fairness is that of update(): dead reckoning has no liveness property. *)
PlaneSpec == PlaneInit /\ [][PlaneNext]_PlaneVars /\ Fairness
=============================================================================
