---------------------------- MODULE DeadReckoning ---------------------------
(***************************************************************************)
(* The time planeInterpolation() extrapolates a report by, the difference  *)
(* of two epochs in whole seconds, refined by the milliseconds since the   *)
(* code first saw the present second.                                      *)
(*                                                                         *)
(* `now` is true time in ticks since boot.  The wall clock is Boot seconds *)
(* and `phase` ticks ahead of it; the firmware learns it by SNTP.  That    *)
(* SNTP sets the clock again later, by what it has drifted, is left out: a *)
(* clock that is set back by then takes the plane back by so much.         *)
(***************************************************************************)
EXTENDS Arduino

CONSTANTS
  Second,       \* ticks in a second: 1000 ms
  EpochWidth,   \* values of an unsigned long, in which the epochs are kept
  Boot,         \* the epoch at power on
  MaxSkew,      \* seconds the service's clock may be ahead of ours
  MaxAge,       \* bound: a report is at most so many seconds old
  NtpWait,      \* ticks getLocalTime() waits for the first synchronisation
  Horizon       \* bound: ticks until the run ends

ASSUME TimeAssumption ==
  /\ Second \in Nat /\ Second > 0
  /\ EpochWidth \in Nat /\ Boot \in Nat /\ MaxAge \in Nat /\ MaxSkew \in Nat
  /\ MaxAge + MaxSkew < Boot
  /\ Boot + Horizon + MaxSkew + 1 < EpochWidth
  /\ NtpWait \in Nat /\ NtpWait > 0 /\ Horizon \in Nat

VARIABLES
  now, phase,
  synced,                 \* SNTP has set the clock
  currentEpoch, prevEpoch, prevUpdate, updateEpoch,
  timeDifference,         \* what the last interpolation computed, in ticks
  trueAge,                \* history: the age the report then really had
  trusted                 \* history: synced when it was computed

clocks   == <<currentEpoch, prevEpoch, prevUpdate>>
estimate == <<timeDifference, trueAge, trusted>>
clockVars ==
  <<now, phase, synced, currentEpoch, prevEpoch, prevUpdate,
    updateEpoch, timeDifference, trueAge, trusted>>

-----------------------------------------------------------------------------
WallTicks(t) == Boot * Second + phase + t
WallEpoch(t) == WallTicks(t) \div Second

(* All epochs are zero at first; init() sets prevUpdate. *)
ClockInit ==
  /\ now = 0 /\ phase \in 0..(Second - 1)
  /\ synced = FALSE
  /\ currentEpoch = 0 /\ prevEpoch = 0 /\ prevUpdate = 0 /\ updateEpoch = 0
  /\ timeDifference = 0 /\ trueAge = 0 /\ trusted = FALSE

(* The epoch is known, the stamp is taken, and the time since the report is *)
(* the difference of the two and the time since `from`.                     *)
Extrapolate(t, epoch, stamp, from) ==
  /\ currentEpoch' = epoch
  /\ updateEpoch' = stamp
  /\ timeDifference' = ((epoch - stamp) % EpochWidth) * Second + (t - from)
  /\ trueAge' = WallTicks(t) - stamp * Second
  /\ trusted' = synced

(* When the second `epoch` was first seen. *)
FirstSeen(t, epoch) == IF prevEpoch # epoch THEN t ELSE prevUpdate

(* Mutants of InterpolateAt: prevUpdate is never reset; the time is         *)
(* computed before prevUpdate is.                                           *)
InterpolateNoReset(t, epoch, stamp) ==
  /\ prevUpdate' = prevUpdate /\ prevEpoch' = epoch
  /\ Extrapolate(t, epoch, stamp, prevUpdate')

InterpolateEarly(t, epoch, stamp) ==
  /\ prevUpdate' = FirstSeen(t, epoch) /\ prevEpoch' = epoch
  /\ Extrapolate(t, epoch, stamp, prevUpdate)

(* planeInterpolation() at time t, when getTime() has left `epoch` in       *)
(* currentEpoch, for a report stamped `stamp`.                              *)
InterpolateAt(t, epoch, stamp) ==
  /\ prevUpdate' = FirstSeen(t, epoch)
  /\ prevEpoch' = epoch
  /\ Extrapolate(t, epoch, stamp, prevUpdate')

(* getTime(): once the clock is set, the present epoch; before, it waits in *)
(* vain and leaves currentEpoch as it was.                                  *)
InterpolateReport(stamp) ==
  \/ /\ synced
     /\ InterpolateAt(now, WallEpoch(now), stamp)
     /\ now' = now
  \/ /\ ~synced
     /\ now + NtpWait <= Horizon
     /\ now' = now + NtpWait
     /\ InterpolateAt(now', currentEpoch, stamp)

(* update() between two polls: line 37. *)
DeadReckon ==
  /\ InterpolateReport(updateEpoch)
  /\ UNCHANGED <<phase, synced>>

(* update() after a poll: lines 81, 84 and 106.  The stamp is the service's. *)
Report ==
  /\ \E stamp \in (WallEpoch(now) - MaxAge)..(WallEpoch(now) + MaxSkew) :
       InterpolateReport(stamp)
  /\ UNCHANGED <<phase, synced>>

(* SNTP sets the clock. *)
Sync ==
  /\ ~synced
  /\ synced' = TRUE
  /\ UNCHANGED <<now, phase, clocks, updateEpoch, estimate>>

TimePasses ==
  /\ now < Horizon
  /\ now' = now + 1
  /\ UNCHANGED <<phase, synced, clocks, updateEpoch, estimate>>

ClockNext == DeadReckon \/ Report \/ Sync \/ TimePasses

ClockSpec == ClockInit /\ [][ClockNext]_clockVars

-----------------------------------------------------------------------------
ClockTypes ==
  /\ now \in 0..Horizon /\ phase \in 0..(Second - 1)
  /\ synced \in BOOLEAN /\ trusted \in BOOLEAN
  /\ currentEpoch \in 0..(EpochWidth - 1) /\ prevEpoch = currentEpoch
  /\ updateEpoch \in 0..(EpochWidth - 1)
  /\ prevUpdate \in 0..now
  /\ timeDifference \in Nat /\ trueAge \in Int

Reported == updateEpoch # 0

(* Once the clock is set, a report that is not stamped ahead of it is       *)
(* extrapolated by its true age, less a second at most: prevUpdate is when  *)
(* the present second was first seen, however long a poll kept the code     *)
(* from looking (planeInformation.cpp:116-121).                             *)
ExtrapolationLags ==
  trusted /\ Reported /\ trueAge >= 0
    => trueAge - timeDifference \in 0..(Second - 1)

(* While the report stays, the plane is never moved backward along its      *)
(* track, although the epoch and the milliseconds are reset by turns.       *)
NeverBackward ==
  [][trusted /\ trusted' /\ trueAge >= 0 /\ updateEpoch' = updateEpoch
       => timeDifference' >= timeDifference]_clockVars
=============================================================================
