---------------------------- MODULE PacedEspAim -----------------------------
(***************************************************************************)
(* The sketch under the pace that lets its servos get anywhere: a tick is  *)
(* as long as the longest turn of loop(), a poll included, so that each    *)
(* servo is updated at least once in every tick.  Otherwise, see           *)
(* PacedMotor, a servo whose deadline has been overtaken by a wrap of the  *)
(* clock may miss its chance at every turn of the clock.                   *)
(***************************************************************************)
EXTENDS EspAim

VARIABLE ticked  \* a tick has passed in this turn of loop()

pacedVars == <<pc, aimed, direction, altitude, objectFront,
               panLocation, panTarget, panTime, tiltLocation, tiltTarget,
               tiltTime, millis, panSince, tiltSince, ticked>>

PacedInit == Init /\ ticked = FALSE

PacedSetup == FinishSetup /\ UNCHANGED ticked

PacedLoop == Loop /\ ticked' = (ticked /\ pc # "pan")

PacedTick ==
  /\ pc \in {"setup", "plane", "polling"} /\ ~ticked
  /\ Tick
  /\ ticked' = (pc # "setup")

PacedNext == PacedSetup \/ PacedLoop \/ PacedTick

(* setup() ends, loop() is called for ever, polls end, the clock never stops. *)
PacedSpec ==
  /\ PacedInit /\ [][PacedNext]_pacedVars
  /\ WF_pacedVars(PacedSetup) /\ WF_pacedVars(PacedLoop) /\ SF_pacedVars(PacedTick)

(* If the plane hangs in the sky the servos come to rest, and then, by      *)
(* RestingServosPointAtPlane, they point at it: from wherever they are,     *)
(* across wraps of the clock, and even if every poll fails from then on.    *)
ServosComeToRest == <>[][aim' = aim]_pacedVars => <>[]AtRest
=============================================================================
